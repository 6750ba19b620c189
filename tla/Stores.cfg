SPECIFICATION StoresSpec
CONSTANTS
  p1 = p1
  p2 = p2
  Procs = {p1, p2}
  Bases = {0, 1}
  MaxLines = 3
  MaxRows = 2
  MaxErrors = 2
  MaxFaults = 1
  Kinds = {"item", "leaf", "clear"}
  Tails = {"clean", "torn"}
  Synchronous = {"item"}
  Formats = {"old"}
  Items = {"a", "b", "c"}
  ItemParent <- MCItemParent
  Converges <- MCConverges
  Top = "top"
  NoItem = "none"
  MaxGrown = 5
  MaxDamage = 1
  MaxLosses = 1
INVARIANTS OneWriter FileKeepsTheSession RowsKeepTheSession RepairIsSafe
PROPERTY DamagedLogKept
SYMMETRY Symmetry
CHECK_DEADLOCK FALSE
