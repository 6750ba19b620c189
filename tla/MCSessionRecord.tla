--------------------------- MODULE MCSessionRecord ---------------------------
(* What one session's record says of its calls and runs, and which session  *)
(* a fork continues.  A behaviour is of one of the two.                     *)
EXTENDS SessionRecord, ForkOrigin

CONSTANTS c1, o1, o2, a1

VARIABLE part

\* One behaviour writes about hand-offs, about runs, or about the queue.
MCAgendas ==
  {{"call", "decision", "dispatch", "result", "output", "branch"},
   {"call", "decision", "dispatch", "output", "fork"},
   {"call", "copied", "dispatch", "output", "unrecorded"},
   {"call", "dispatch", "output", "response", "decision", "start", "end"},
   {"queued", "message", "start", "end", "branch"}}

Symmetry == Permutations({o1, o2})

MCInit ==
  /\ Init /\ OriginInit /\ part \in {"record", "origin"}
  /\ part = "record" => backend = "memory" /\ fork.named = Nobody /\ \A i \in Ids : kept[i] = Absent
  /\ part = "origin" => agenda = {"call", "copied", "dispatch", "output", "unrecorded"} /\ ~s.promise

MCNext ==
  /\ \/ part = "record" /\ Next /\ UNCHANGED originVars
     \/ part = "origin" /\ OriginNext /\ UNCHANGED vars
  /\ UNCHANGED part

MCSpec == MCInit /\ [][MCNext]_<<vars, originVars, part>>
==============================================================================
