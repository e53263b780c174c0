SPECIFICATION FairSpec
CONSTANTS
    Cands = {a, b}
    Taking = {a}
    None = None
    Together = FALSE
    MaxStarts = 3
    MaxFaults = 1
INVARIANTS  ErasedFilesGone
PROPERTIES DanglingHealed
CHECK_DEADLOCK FALSE
