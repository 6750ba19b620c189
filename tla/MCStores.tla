------------------------------ MODULE MCStores -------------------------------
(* The two stores that keep a session as lines, each on its own, and the     *)
(* repair of a content store's log.                                          *)
EXTENDS SqliteStore, Repair, TLC

CONSTANTS p1, p2

MCItemParent == [e \in Items |-> IF e = "a" THEN "top" ELSE "a"]
MCConverges  == [e \in Items |-> IF e = "c" THEN {"b"} ELSE {}]

VARIABLE part  \* what a behaviour is of

Symmetry == Permutations(Procs)

StoresInit == Init /\ DbInit /\ RepairInit /\ part \in {"jsonl", "sqlite", "repair"}

StoresNext ==
  /\ \/ part = "jsonl" /\ Next /\ UNCHANGED <<dbVars, repairVars>>
     \/ part = "sqlite" /\ DbNext /\ UNCHANGED <<vars, repairVars>>
     \/ part = "repair" /\ RepairNext /\ UNCHANGED <<vars, dbVars>>
  /\ UNCHANGED part

StoresSpec == StoresInit /\ [][StoresNext]_<<vars, dbVars, repairVars, part>>
==============================================================================
