CONSTANTS
  e1 = e1  e2 = e2
  Projects <- TwoProjects
  Events = {e1, e2}
  ProjectOf <- BothInTwo
  NoEvent = NoEvent
  PageSize = 1
  MaxCrashes = 1
SPECIFICATION LoopsSpec
INVARIANTS NothingLost LoopsMatchKnown
SYMMETRY SameQueue
CHECK_DEADLOCK FALSE
