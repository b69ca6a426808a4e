CONSTANTS
  Users = {u1, u2}
  Sessions = {s1, s2}
  Accounts = {a1}
  MaxTokens = 2
  Admin = Admin
  Roles = {Admin}
  Root = Root
  RootUserEnabled = TRUE
  None = None
  Logins = {l1, l2}
  Locks = {k1}
  Requests = {r1}
SPECIFICATION Spec
INVARIANTS TypeOK LockedOut LockEndsSessions AuthenticatedUsersExist AdministratorExists
CONSTRAINT OneKind
SYMMETRY Interchangeable
CHECK_DEADLOCK FALSE
