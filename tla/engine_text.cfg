SPECIFICATION FairSpec
CONSTANTS
    Threads = {t1, t2}
    NoScore = NoScore
    Paper <- TwoSubjective
    Invite = FALSE
    Timed = FALSE
    AdaptiveEnabled = TRUE
    Preemptive = FALSE
    Penalties = {0, 15}
    MaxCrashes = 0
INVARIANT AnswersAligned
 
 
INVARIANT ConcernReachesReview
PROPERTY EventuallyScored
