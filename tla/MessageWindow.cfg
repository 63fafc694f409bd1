SPECIFICATION Spec
CONSTANTS
  Cap = 4
  PageSize = 2
  MaxPageSize = 2
  MaxPages = 2
  AroundSide = 1
  Start = 4
  Top = 6
  Sends = 1
  MaxActs = 4
  MaxOps = 2
  FocusFirst = TRUE
INVARIANTS    HeadReachable 
CHECK_DEADLOCK FALSE
