CONSTANTS
  s1 = s1
  s2 = s2
  Sessions <- MCSessions
  Live <- MCLive
  Submissions <- MCSubmissions
  Offered <- MCOffered
  MaxOps = 2
SPECIFICATION Spec
INVARIANTS PerformedPasses

CHECK_DEADLOCK FALSE
