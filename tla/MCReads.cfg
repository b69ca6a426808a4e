CONSTANTS
  Items <- FourItems
  Limit = 2
  MaxTime = 3
  MaxPages = 3
  Nowhere = Nowhere
  MaxLines = 3
SPECIFICATION Spec
INVARIANTS NothingShownTwice NothingLeftOut PrintedInOrder SnapshotComplete
PROPERTY FollowerCatchesUp
CHECK_DEADLOCK FALSE
