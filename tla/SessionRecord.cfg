CONSTANTS
  c1 = c1
  o1 = o1
  o2 = o2
  a1 = a1
  Cids = {c1}
  Items = {o1, o2}
  Rewrites = {a1}
  Agendas <- MCAgendas
  MaxEntries = 5
  MaxBranches = 1
  Ids = {1, 2, 3}
  Backends = {"memory", "sqlite", "jsonl"}
  Walks = 4
  MaxChanges = 2
SPECIFICATION MCSpec
INVARIANTS CallsInv CallsTold RunsTold OriginsRight
PROPERTY ForkIsOfAHeldOrigin
SYMMETRY Symmetry
CHECK_DEADLOCK FALSE
