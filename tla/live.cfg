SPECIFICATION FairSpecJoined
CONSTANTS
    Tabs = {r, c}
    Recruiters = {r}
    Editors = {r, c}
    Typing = "turns"
    HalfOpen = FALSE
    MaxSockets = 4
    MaxEdits = 2
    MaxChats = 1
    MaxRestarts = 1
INVARIANTS  QuietPresence
 
CHECK_DEADLOCK FALSE
