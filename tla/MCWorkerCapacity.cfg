CONSTANTS
  Events = {e1, e2, e3, e4}
  Capacity = 1
  PromptStarts = TRUE
  AbruptDeletes = TRUE
  WatchMayBreak = TRUE
  MaxRestarts = 1
SPECIFICATION Spec
INVARIANTS OvershootBounded ActivePodsCounted PlacesReleased
CONSTRAINTS OneEnd OneIdle
SYMMETRY EventSymmetry
CHECK_DEADLOCK FALSE
