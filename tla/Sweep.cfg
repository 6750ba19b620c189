SPECIFICATION MCSpec
CONSTANTS
  Sessions = {"s", "t"}
  Refs = {"r"}
  Writers = {w, x}
  Entries = {"e", "f"}
  Blobs = {"b"}
  ContentOf <- MCContentOf
  BlobsOf <- MCBlobsOf
  ParentOf <- MCParentOf
  NoEntry = "none"
  Starts <- MCStarts
  CommitsGuarded = TRUE
  MaxOps = 3
  MaxSweeps = 1
  b1 = b1
  b2 = b2
  m1 = m1
  m2 = m2
  n1 = n1
  Holders = {b1, b2}
  Callers = {1, 2}
  Media = {m1, m2}
  OwnMedia = {n1}
  Untyped = Untyped
  BlobStores = {"jsonl", "sqlite", "memory"}
  MaxNow = 2
  MaxStarted = 2
  MaxCuts = 1
INVARIANTS SweepInv GarbageGoes BlobsKept
PROPERTIES TypedStaysTyped FirstTypeStays
SYMMETRY Symmetry
CHECK_DEADLOCK FALSE
