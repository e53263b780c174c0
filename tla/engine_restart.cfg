SPECIFICATION Spec
CONSTANTS
    Threads = {t1, t2}
    NoScore = NoScore
    Paper <- WithCoding
    Invite = TRUE
    Timed = TRUE
    AdaptiveEnabled = TRUE
    Preemptive = FALSE
    Penalties = {0}
    MaxCrashes = 1
INVARIANT CompletedPastLast
INVARIANT SlotsInStep
 
