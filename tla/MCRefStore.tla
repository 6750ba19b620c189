----------------------------- MODULE MCRefStore ------------------------------
(* The refs of a store, and a content store's move off its journal.  A       *)
(* behaviour is of one of them.                                              *)
EXTENDS RefStore, Migrate, TLC

CONSTANTS p1, p2, r1, a, ab, s1, s2

BothWays == {<<a, ab>>, <<ab, a>>}

MCMayHold == [s \in LegacySessions |-> IF s = "s" THEN LegacyEntries ELSE {}]

Symmetry == Permutations(Procs) \cup Permutations(LegacyEntries)

VARIABLE part

MCInit == /\ Init /\ MigInit /\ part \in {"refs", "migration"}
          /\ (part # "refs" => layout = "cas")

MCNext ==
    \/ part = "refs" /\ Next /\ UNCHANGED <<migVars, part>>
    \/ part = "migration" /\ MigNext /\ UNCHANGED <<vars, part>>

MCSpec == MCInit /\ [][MCNext]_<<vars, migVars, part>>
==============================================================================
