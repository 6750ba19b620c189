SPECIFICATION MCSpec
CONSTANTS
  p1 = p1
  p2 = p2
  r1 = r1
  a = a
  ab = ab
  s1 = s1
  s2 = s2
  Procs = {p1, p2}
  Readers = {r1}
  Names = {a, ab}
  Sessions = {s1}
  Conflicts <- BothWays
  Layouts = {"cas", "jsonl", "atomic"}
  Failures = {"fsync", "place", "cut"}
  MaxUpdates = 3
  MaxFaults = 1
  MaxIdent = 2
  LegacySessions = {"s", "t"}
  LegacyEntries = {g, h}
  MayHold <- MCMayHold
  Begun = {"t"}
  NoHead = NoHead
  Nobody = "nobody"
  MaxRecords = 4
  MaxKills = 1
  MaxLost = 1
  MaxNew = 1
INVARIANTS RefsAccountedFor MigrationIsSafe
PROPERTY Implements
SYMMETRY Symmetry
CHECK_DEADLOCK FALSE
