CONSTANTS
  Events = {e1}
  Requests = {r1, r2}
  Workspace = {}
  Selectors <- MCSelectors
  NoRequest = NoRequest
SPECIFICATION Spec
INVARIANT DeleteManyDeletes
CHECK_DEADLOCK FALSE
