CONSTANTS
  Events = {e1}
  Requests = {r1, r2, r3}
  Workspace = {}
  Selectors <- MCSelectors
  NoRequest = NoRequest
SPECIFICATION Spec
INVARIANTS TypeOK RecordIsTruthful ResidueExplained SingleExecution
PROPERTY CancelSparesOutcome
SYMMETRY RequestSymmetry
CHECK_DEADLOCK FALSE
