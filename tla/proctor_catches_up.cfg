SPECIFICATION FairSpec
CONSTANTS
    Requests = {r1, r2}
    Limit = 2
    MaxViolations = 2
    MaxManagers = 2
    MaxCrashes = 1
PROPERTY RowCatchesUp
