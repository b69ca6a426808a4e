CONSTANTS
  IDs = {1}
  Creates = {c1, c2}
  Updates = {u1}
  Deletes = {d1}
  Posts = {q1}
  Starts = {s1}
  Callers = {"user"}
  Specs <- MixedSpecs
  Messages <- MixedPushes
  None = None
SPECIFICATION Spec
INVARIANT SubscriptionsHonored
CHECK_DEADLOCK FALSE
