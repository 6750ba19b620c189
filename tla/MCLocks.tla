------------------------------ MODULE MCLocks ------------------------------
(* Two things that wait: the calls on one remote client, over its locks     *)
(* and requests, and the writers and sweeps at the turnstile of a content   *)
(* store.  A behaviour is of one of them.                                   *)
EXTENDS RemoteClient, Turnstile

VARIABLE part

MCInit == ClientInit /\ TurnInit /\ part \in {"client", "turnstile"}

MCNext ==
    \/ part = "client" /\ ClientNext /\ UNCHANGED <<turnVars, part>>
    \/ part = "turnstile" /\ TurnNext /\ UNCHANGED <<clientVars, part>>

MCSpec == MCInit /\ [][MCNext]_<<clientVars, turnVars, part>> /\ TurnFair

=============================================================================
