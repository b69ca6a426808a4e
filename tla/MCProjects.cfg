CONSTANTS
  IDs = {1, 2}
  Creates = {c1, c2}
  Updates = {u1}
  Deletes = {d1, d2}
  Posts = {q1}
  Starts = {s1}
  Callers = {"user", "serviceAccount", "root"}
  Specs <- PlainSpecs
  Messages <- PlainPush
  None = None
SPECIFICATION Spec
INVARIANTS TypeOK ProjectHasNamespace NamespacesAccounted EventsHaveProject
PROPERTY WorkersFindTheirSecret
SYMMETRY CallSymmetry
CHECK_DEADLOCK FALSE
