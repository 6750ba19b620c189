----------------------------- MODULE MCExchange -----------------------------
EXTENDS Exchange, TLC

\* Two children of the first entry carry one call ID.
MCParentOf == [e \in Entries |-> IF e = "e1" THEN "root" ELSE "e1"]
MCCallOf   == [e \in Entries |-> IF e = "e1" THEN None ELSE "k"]
Symmetry   == Permutations(Locals) \cup Permutations(Procs)
=============================================================================
