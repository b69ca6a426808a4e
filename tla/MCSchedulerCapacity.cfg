CONSTANTS
  Projects <- TwoProjects
  Events = {e1, e2}
  ProjectOf <- OneEach
  NoEvent = NoEvent
  Capacity = 1
  PageSize = 2
  PromptStarts = FALSE
  AbruptDeletes = FALSE
  WatchMayBreak = FALSE
  CallsFail = TRUE
  MaxCrashes = 1
CONSTRAINT OneEnd
SPECIFICATION Spec
PROPERTY CapacityRespected
CHECK_DEADLOCK FALSE
