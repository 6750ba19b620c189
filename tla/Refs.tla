-------------------------------- MODULE Refs ---------------------------------
(***************************************************************************)
(* What a store promises of its refs: each name holds one target or none,  *)
(* an update moves it in one step, and only an update nobody has been told *)
(* of may be taken back.                                                   *)
(***************************************************************************)
CONSTANTS Names, Targets, NoTarget

VARIABLES refs,     \* the target each name holds
          pending   \* names whose last update is not answered, and what they held before

vars == <<refs, pending>>

Settled == [held |-> TRUE, from |-> NoTarget]
Open(t) == [held |-> FALSE, from |-> t]

Init == refs = [n \in Names |-> NoTarget] /\ pending = [n \in Names |-> Settled]

Move(n, t) ==
  /\ pending[n] = Settled /\ t /= refs[n]
  /\ pending' = [pending EXCEPT ![n] = Open(refs[n])]
  /\ refs' = [refs EXCEPT ![n] = t]

\* Updates are answered, or found made: they stay.
Settle(S) ==
  /\ pending' = [n \in Names |-> IF n \in S THEN Settled ELSE pending[n]]
  /\ UNCHANGED refs

\* Updates failed, or a crash took them, before their answers.
Back(S) ==
  /\ refs' = [n \in Names |-> IF n \in S THEN pending[n].from ELSE refs[n]]
  /\ pending' = [n \in Names |-> IF n \in S THEN Settled ELSE pending[n]]

Unanswered == {n \in Names : pending[n] /= Settled}

Next == \/ \E n \in Names, t \in Targets \cup {NoTarget} : Move(n, t)
        \/ \E S \in SUBSET Unanswered : Settle(S) \/ Back(S)

Spec == Init /\ [][Next]_vars
==============================================================================
