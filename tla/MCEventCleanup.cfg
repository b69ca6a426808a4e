CONSTANTS
  Events = {e1}
  Requests = {r1, r2}
  Workspace = {e1}
  Selectors <- MCSelectors
  NoRequest = NoRequest
SPECIFICATION FairSpec
INVARIANT ResidueExplained
PROPERTY WithdrawalCleansUp
CHECK_DEADLOCK FALSE
