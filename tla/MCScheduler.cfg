CONSTANTS
  Projects <- OneProject
  Events = {e1, e2}
  ProjectOf <- AllInOne
  NoEvent = NoEvent
  Capacity = 1
  PageSize = 1
  PromptStarts = FALSE
  AbruptDeletes = FALSE
  WatchMayBreak = FALSE
  CallsFail = FALSE
  MaxCrashes = 1
SPECIFICATION FairSpec
PROPERTY EventuallyDispatched
CHECK_DEADLOCK FALSE
