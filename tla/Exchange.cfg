SPECIFICATION Spec
CONSTANTS
  Stores = {a, b, srv}
  Server = srv
  Entries = {"e1", "e2", "e3"}
  ParentOf <- MCParentOf
  CallOf <- MCCallOf
  Root = "root"
  None = None
  Procs = {p, q}
  WritersWait = TRUE
  OneHandover = TRUE
  MaxOps = 3
  MaxEvents = 1
INVARIANTS CopiesAreSessions OneRecord
SYMMETRY Symmetry
CHECK_DEADLOCK FALSE
