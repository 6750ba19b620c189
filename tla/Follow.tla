------------------------------- MODULE Follow -------------------------------
(***************************************************************************)
(* Following a session.  A follower loads the session its store's log      *)
(* says, then applies what the log gained since its cursor, and reads the  *)
(* session again when the cursor names no place in the log.  A server      *)
(* runs one follower per session, its hub, which numbers the events, keeps *)
(* a replica and the last of them, and fans them out to its clients; a     *)
(* client that falls behind or is cut resumes from the last event it read, *)
(* from the hub's ring or by a follower of its own.                        *)
(*                                                                         *)
(* The four stores differ in what a cursor holds, in how a head move, a    *)
(* branch and a raise of the header's format are written, and in what can  *)
(* replace a log.  Lines are of one length, so that an offset alone tells  *)
(* least, and an append's objects are there when its record is.            *)
(***************************************************************************)
EXTENDS Integers, Sequences, FiniteSets

CONSTANTS
  Kinds,        \* the stores checked, of AllKinds
  Clients,
  None,
  Replay,       \* events the hub keeps
  Buffer,       \* events a client may be behind
  SettledLoads, \* no append is cut back while a follower loads
  MaxWrites,    \* writes by the session's writer
  MaxFaults,    \* failed appends, replacements, restarts, deletions
  MaxCuts       \* follows cut short

AllKinds == {"cas", "jsonl", "sqlite", "memory"}

ASSUME FollowAssumption ==
  Kinds \subseteq AllKinds /\ Replay \in Nat \ {0} /\ Buffer \in Nat \ {0}

VARIABLES
  kind,     \* the store
  log,      \* the session's log and header, or None
  failing,  \* a failed append is in the log and not yet cut back
  made,     \* entries made so far
  hub,      \* the server's follower of the session, or None
  cl,       \* the clients' follows
  count     \* bounds, and the files and sessions made

vars == <<kind, log, failing, made, hub, cl, count>>

\* A record appends entry e, or none (a head record), and puts the leaf at to.
Stay == -1
Root == 0
Empty == [ents |-> <<>>, leaf |-> Root, fmt |-> 0]

Apply(s, r) == [s EXCEPT !.ents = IF r.e = 0 THEN @ ELSE Append(@, r.e),
                         !.leaf = IF r.to = Stay THEN @ ELSE r.to]

\* The session a read of the records finds, under the header's format.
SessionOf(recs, fmt) ==
  LET at[n \in 0..Len(recs)] == IF n = 0 THEN [Empty EXCEPT !.fmt = fmt] ELSE Apply(at[n-1], recs[n])
  IN  at[Len(recs)]

Set(s) == {s[i] : i \in DOMAIN s}

(***************************************************************************)
(* Cursors.                                                                *)
(***************************************************************************)
Pos(l, n, file, raw, tail) == [n |-> n, inc |-> l.inc, file |-> file, raw |-> raw, tail |-> tail]

\* Mutant: the cursor names the log and an offset in it.
CasPosNoTail(l, n) == Pos(l, n, l.file, 0, None)

\* Beside the log's identity, the checksum of the last line consumed.
CasPos(l, n) == Pos(l, n, l.file, 0, IF n \in DOMAIN l.recs THEN l.recs[n] ELSE None)

\* Beside the file's identity, the header as it stands.
JsonlPos(l, n) == Pos(l, n, l.file, l.fmt, None)

SqlitePos(l, n) == Pos(l, n, 0, 0, None)
MemoryCursor(l, n) == Pos(l, n, 0, 0, None)

\* The cursor after the n-th record.
CursorAt(l, n) ==
  CASE kind = "cas" -> CasPos(l, n) [] kind = "jsonl" -> JsonlPos(l, n)
    [] kind = "sqlite" -> SqlitePos(l, n) [] kind = "memory" -> MemoryCursor(l, n)

\* The log still holds the cursor's place.
HeldAt(c) == c.n <= Len(log.recs) /\ CursorAt(log, c.n) = c

(***************************************************************************)
(* The changes an item makes, and the events they are sent as.             *)
(***************************************************************************)
Change(k, s, e, cur) == [k |-> k, sess |-> s, e |-> e, cur |-> cur]

Changes(s, r, cur) ==
  LET t == Apply(s, r)
      moved == IF t.leaf \in {s.leaf, r.e} THEN <<>> ELSE <<Change("head", t, 0, cur)>>
  IN  IF r.e = 0 THEN (IF t.leaf = s.leaf THEN <<>> ELSE <<Change("head", t, 0, cur)>>)
      ELSE <<Change("appended", t, r.e, cur)>> \o moved

\* An event's number among those at its cursor.
Number(enc, cur) == IF enc.last = cur THEN enc.n + 1 ELSE 0

\* The head change an append at the same cursor told is not sent again.
Encode(enc, c) ==
  IF c.k = "head" /\ enc.at = c.cur THEN [enc |-> enc, evs |-> <<>>]
  ELSE [enc |-> [last |-> c.cur, n |-> Number(enc, c.cur), at |-> IF c.k = "appended" THEN c.cur ELSE None],
        evs |-> <<[id |-> <<c.cur, Number(enc, c.cur)>>, k |-> c.k, e |-> c.e, seq |-> Len(c.sess.ents),
                   leaf |-> c.sess.leaf, sess |-> c.sess]>>]

EncodeAll(enc, cs) ==
  LET at[n \in 0..Len(cs)] ==
        IF n = 0 THEN [enc |-> enc, evs |-> <<>>]
        ELSE LET x == Encode(at[n-1].enc, cs[n]) IN [enc |-> x.enc, evs |-> at[n-1].evs \o x.evs]
  IN  at[Len(cs)]

(***************************************************************************)
(* A follower: what one step of its loop makes of it, and the events it    *)
(* yields.                                                                 *)
(***************************************************************************)
NewFollower(from) ==
  [pc |-> "load", from |-> from, why |-> IF from = None THEN "snapshot" ELSE "reset",
   read |-> <<>>, file |-> 0, inc |-> 0, sess |-> Empty, cur |-> None, seen |-> 0, items |-> <<>>,
   enc |-> [last |-> None, n |-> 0, at |-> None]]

Quiet(f) == [f |-> f, evs |-> <<>>]

Over(f) == Quiet([NewFollower(None) EXCEPT !.pc = "ended"])

Reload(f) == Quiet([NewFollower(None) EXCEPT !.why = "reset", !.enc = f.enc])

Yield(f, cs) == LET x == EncodeAll(f.enc, cs) IN [f |-> [f EXCEPT !.enc = x.enc], evs |-> x.evs]

\* The header and the last line are read after the log, and what was read is
\* of this log if it is the same log still.
Loaded(f) ==
  IF log = None THEN Over(f)
  ELSE IF log.file /= f.file \/ log.inc /= f.inc
       THEN IF f.from = None THEN Quiet([f EXCEPT !.pc = "load"]) ELSE Reload(f)
  ELSE LET cur == CursorAt(log, Len(f.read))
           g   == [f EXCEPT !.pc = "tail", !.sess = SessionOf(f.read, log.fmt), !.cur = cur,
                            !.from = None, !.why = "reset", !.read = <<>>, !.file = 0, !.inc = 0]
       IN  IF f.from = None THEN Yield(g, <<Change(f.why, g.sess, 0, cur)>>)
           ELSE IF cur = f.from THEN Quiet(g) ELSE Reload(f)

\* An open file, a transaction and a session in memory are read in one step.
JsonlLoad(f) == Loaded(f)
SqliteLoad(f) == Loaded(f)
MemoryStart(f) == Loaded(f)

LoadLog(f) ==
  IF log = None THEN Over(f)
  ELSE IF f.from /= None /\ ~HeldAt(f.from) THEN Reload(f)
  ELSE LET n == IF f.from = None THEN Len(log.recs) ELSE f.from.n
           g == [f EXCEPT !.pc = "loaded", !.read = SubSeq(log.recs, 1, n), !.file = log.file, !.inc = log.inc]
       IN  CASE kind = "cas" -> Quiet(g) [] kind = "jsonl" -> JsonlLoad(g)
             [] kind = "sqlite" -> SqliteLoad(g) [] kind = "memory" -> MemoryStart(g)

\* The items' changes in order, the session extended by each.
ItemChanges(f) ==
  LET at[n \in 0..Len(f.items)] ==
        IF n = 0 THEN [s |-> f.sess, cs |-> <<>>]
        ELSE [s  |-> Apply(at[n-1].s, f.items[n].r),
              cs |-> at[n-1].cs \o Changes(at[n-1].s, f.items[n].r, f.items[n].cur)]
  IN  at[Len(f.items)]

\* The header's format when the log had been read; a header that is gone is
\* the one seen before.
FormatNow(f) == IF log = None \/ (kind = "memory" /\ log.inc /= f.cur.inc) THEN f.seen ELSE log.fmt

\* The header's format is looked at after the log: a raise comes before the
\* append it is for.
Tailed(f) ==
  IF FormatNow(f) /= f.sess.fmt THEN Reload(f)
  ELSE LET x == ItemChanges(f)
       IN  Yield([f EXCEPT !.pc = "tail", !.items = <<>>, !.seen = 0, !.sess = x.s,
                           !.cur = IF f.items = <<>> THEN f.cur ELSE f.items[Len(f.items)].cur], x.cs)

JsonlTail(f) == Tailed(f)
SqliteTail(f) == Tailed(f)

TailLog(f) ==
  IF log = None \/ log.inc /= f.cur.inc THEN Over(f)
  ELSE IF ~HeldAt(f.cur) THEN Reload(f)
  ELSE LET new == [i \in 1..(Len(log.recs) - f.cur.n) |->
                     [r |-> log.recs[f.cur.n + i], cur |-> CursorAt(log, f.cur.n + i)]]
           g   == [f EXCEPT !.pc = "tailed", !.items = new, !.seen = log.fmt]
       IN  CASE kind \in {"cas", "memory"} -> Quiet(g)
             [] kind = "jsonl" -> JsonlTail(g) [] kind = "sqlite" -> SqliteTail(g)

\* There is nothing to yield: the follower waits to be woken or to look again.
Waits(f) ==
  /\ f.pc = "tail" /\ log /= None /\ HeldAt(f.cur) /\ Len(log.recs) = f.cur.n
  /\ kind = "memory" => log.fmt = f.sess.fmt

Stepped(f) ==
  CASE f.pc = "load" -> LoadLog(f) [] f.pc = "loaded" -> Loaded(f)
    [] f.pc = "tail" -> TailLog(f) [] f.pc = "tailed" -> Tailed(f)

CanStep(f) == f.pc /= "ended" /\ ~Waits(f)

(***************************************************************************)
(* The writer.                                                             *)
(***************************************************************************)
Fault == count.faults < MaxFaults /\ count' = [count EXCEPT !.faults = @ + 1]

MayWrite == log /= None /\ ~failing /\ count.writes < MaxWrites

Wrote(recs, new) ==
  /\ kind = "sqlite" \/ log.fmt = 1
  /\ log' = [log EXCEPT !.recs = @ \o recs, !.fmt = 1]
  /\ made' = made + new
  /\ count' = [count EXCEPT !.writes = @ + 1]
  /\ UNCHANGED <<kind, failing, hub, cl>>

\* A newer writer's first append raises the header: in a step before it, and
\* in a file of its own where the header is the file's first line.
RaiseHeader ==
  /\ MayWrite /\ log.fmt = 0 /\ kind /= "sqlite"
  /\ log' = [log EXCEPT !.fmt = 1, !.file = IF kind = "jsonl" THEN count.files + 1 ELSE @]
  /\ count' = [count EXCEPT !.files = @ + 1]
  /\ UNCHANGED <<kind, failing, made, hub, cl>>

AppendEntry == MayWrite /\ Wrote(<<[e |-> made + 1, to |-> made + 1]>>, 1)

\* An append beside the head, or of a head move's label, leaves the head where
\* it is: by the record in cas, by a leaf label in the same write in the
\* stores that keep lines.
BranchEntry ==
  /\ MayWrite
  /\ \/ kind = "cas" /\ Wrote(<<[e |-> made + 1, to |-> Stay]>>, 1)
     \/ /\ kind \in {"jsonl", "sqlite"}
        /\ Wrote(<<[e |-> made + 1, to |-> made + 1], [e |-> made + 2, to |-> SessionOf(log.recs, log.fmt).leaf]>>, 2)

\* Where a head may rest: at no leaf label.
Targets == {Root} \cup {r.e : r \in {q \in Set(log.recs) : q.to \in {q.e, Stay}}}

\* A head move is a head record in cas, which carries the number of entries
\* before it, and a leaf label elsewhere.
SetHead(t) ==
  LET s == SessionOf(log.recs, log.fmt)
  IN  /\ MayWrite /\ t \in Targets /\ t /= s.leaf
      /\ IF kind = "cas" THEN Wrote(<<[e |-> 0, to |-> t, seq |-> Len(s.ents)]>>, 0)
                         ELSE Wrote(<<[e |-> made + 1, to |-> t]>>, 1)

\* An append a write or an fsync fails is in the log until it is cut back.
FailAppend ==
  /\ MayWrite /\ kind = "cas" /\ log.fmt = 1 /\ Fault
  /\ log' = [log EXCEPT !.recs = Append(@, [e |-> made + 1, to |-> made + 1])]
  /\ made' = made + 1 /\ failing' = TRUE
  /\ UNCHANGED <<kind, hub, cl>>

CutBack ==
  /\ failing
  /\ SettledLoads => /\ hub /= None => hub.f.pc /= "loaded"
                     /\ \A c \in Clients : cl[c].own /= None => cl[c].own.pc /= "loaded"
  /\ log' = [log EXCEPT !.recs = SubSeq(@, 1, Len(@) - 1)]
  /\ failing' = FALSE
  /\ UNCHANGED <<kind, made, hub, cl, count>>

\* Recovery and repair write the session a new log, without what was lost.
ReplaceLog ==
  /\ log /= None /\ ~failing /\ kind = "cas" /\ count.faults < MaxFaults
  /\ \E n \in {Len(log.recs), Len(log.recs) - 1} \cap Nat :
       log' = [log EXCEPT !.recs = SubSeq(@, 1, n), !.file = count.files + 1]
  /\ count' = [count EXCEPT !.faults = @ + 1, !.files = @ + 1]
  /\ UNCHANGED <<kind, failing, made, hub, cl>>

Delete ==
  /\ log /= None /\ ~failing /\ Fault
  /\ log' = None
  /\ UNCHANGED <<kind, failing, made, hub, cl>>

Create ==
  /\ log = None
  /\ log' = [inc |-> count.files + 1, file |-> count.files + 1, fmt |-> 1, recs |-> <<>>]
  /\ count' = [count EXCEPT !.files = @ + 1]
  /\ UNCHANGED <<kind, failing, made, hub, cl>>

(***************************************************************************)
(* The hub.                                                                *)
(***************************************************************************)
NewHub == [f |-> NewFollower(None), out |-> <<>>, rep |-> None, last |-> None, ring |-> <<>>]

HubSteps ==
  /\ hub /= None /\ hub.out = <<>> /\ CanStep(hub.f)
  /\ \E x \in {Stepped(hub.f)} : hub' = [hub EXCEPT !.f = x.f, !.out = x.evs]
  /\ UNCHANGED <<kind, log, failing, made, cl, count>>

\* The replica after an event, or None for one it refuses.
Extended(rep, ev) ==
  CASE ev.k \in {"snapshot", "reset"} -> ev.sess
    [] rep = None -> None
    [] ev.k = "appended" -> IF ev.seq = Len(rep.ents) + 1
                            THEN [rep EXCEPT !.ents = Append(@, ev.e), !.leaf = ev.leaf] ELSE None
    [] OTHER -> IF ev.leaf \in Set(rep.ents) \cup {Root} THEN [rep EXCEPT !.leaf = ev.leaf] ELSE None

LastOf(s, n) == SubSeq(s, IF Len(s) > n THEN Len(s) - n + 1 ELSE 1, Len(s))

\* A client whose buffer is full is cut.
Sent(c, ev) ==
  IF cl[c].st /= "live" \/ cl[c].cut /= None THEN cl[c]
  ELSE IF Len(cl[c].chan) < Buffer THEN [cl[c] EXCEPT !.chan = Append(@, ev)]
  ELSE [cl[c] EXCEPT !.cut = "overflow"]

Publish ==
  /\ hub /= None /\ hub.out /= <<>>
  /\ LET ev == Head(hub.out)
     IN  /\ hub' = [hub EXCEPT !.out = Tail(@), !.rep = Extended(@, ev), !.last = ev.id,
                               !.ring = LastOf(Append(@, ev), Replay)]
         /\ cl' = [c \in Clients |-> Sent(c, ev)]
  /\ UNCHANGED <<kind, log, failing, made, count>>

(***************************************************************************)
(* The clients.  A client is off, asking for a fresh follow, resuming one, *)
(* live on the hub, served by a follower of its own, or failed.            *)
(***************************************************************************)
NoFollow == [st |-> "off", rep |-> None, last |-> None, first |-> <<>>, chan |-> <<>>, cut |-> None,
             need |-> 0, asked |-> {}, own |-> None]

\* What is left of a follow that ended: the session and the event it is at.
Ended(c) == [NoFollow EXCEPT !.rep = cl[c].rep, !.last = cl[c].last]

Acquired == IF hub = None THEN NewHub ELSE hub

\* A fresh follow reads the store, then waits for the hub to hold what it read.
Ask(c) ==
  /\ cl[c].st = "off" /\ log /= None
  /\ LET s == SessionOf(log.recs, log.fmt).ents
     IN  cl' = [cl EXCEPT ![c] = [NoFollow EXCEPT !.st = "asking", !.asked = Set(s),
                                                  !.need = IF s = <<>> THEN 0 ELSE s[Len(s)]]]
  /\ hub' = Acquired
  /\ UNCHANGED <<kind, log, failing, made, count>>

\* The hub's replica holds the newest entry the caller's read found.
CaughtUp(c) == hub /= None /\ hub.rep /= None /\ cl[c].need \in Set(hub.rep.ents) \cup {0}

Attach(c) ==
  /\ cl[c].st = "asking" /\ CaughtUp(c)
  /\ cl' = [cl EXCEPT ![c].st = "live",
                      ![c].first = <<[id |-> hub.last, k |-> "snapshot", e |-> 0, seq |-> Len(hub.rep.ents),
                                      leaf |-> hub.rep.leaf, sess |-> hub.rep]>>]
  /\ UNCHANGED <<kind, log, failing, made, hub, count>>

\* A follow that ended is taken up from the last event's cursor.
Resume(c) ==
  /\ cl[c].st = "off" /\ cl[c].last /= None
  /\ cl' = [cl EXCEPT ![c].st = "resuming"]
  /\ hub' = Acquired
  /\ UNCHANGED <<kind, log, failing, made, count>>

\* The events after the one named, where the ring holds it.
ReplayOf(id) ==
  LET at == {i \in DOMAIN hub.ring : hub.ring[i].id = id}
      i  == CHOOSE j \in at : \A k \in at : k <= j
  IN  IF at = {} THEN None ELSE SubSeq(hub.ring, i + 1, Len(hub.ring))

AttachFrom(c) ==
  /\ cl[c].st = "resuming" /\ hub /= None /\ hub.rep /= None
  /\ LET evs == ReplayOf(cl[c].last)
     IN  cl' = [cl EXCEPT ![c] = IF evs = None
                                 THEN [@ EXCEPT !.st = "own", !.own = NewFollower(cl[c].last[1])]
                                 ELSE [@ EXCEPT !.st = "live", !.first = evs]]
  /\ UNCHANGED <<kind, log, failing, made, hub, count>>

\* The client's own follower gives an event and waits for it to be taken.
OwnSteps(c) ==
  /\ cl[c].st = "own" /\ cl[c].first = <<>> /\ CanStep(cl[c].own)
  /\ \E x \in {Stepped(cl[c].own)} :
         cl' = [cl EXCEPT ![c] = IF x.f.pc = "ended" THEN Ended(c)
                                 ELSE [@ EXCEPT !.own = x.f, !.first = x.evs]]
  /\ UNCHANGED <<kind, log, failing, made, hub, count>>

Deliver(c) ==
  /\ cl[c].first \o cl[c].chan /= <<>>
  /\ LET ev  == Head(cl[c].first \o cl[c].chan)
         rep == Extended(cl[c].rep, ev)
         off == IF cl[c].first = <<>> THEN [cl[c] EXCEPT !.chan = Tail(@)] ELSE [cl[c] EXCEPT !.first = Tail(@)]
     IN  cl' = [cl EXCEPT ![c] = IF rep = None THEN [NoFollow EXCEPT !.st = "failed"]
                                 ELSE [off EXCEPT !.rep = rep, !.last = ev.id]]
  /\ UNCHANGED <<kind, log, failing, made, hub, count>>

\* A client cut for falling behind resumes by itself, one whose follow ended
\* is told so.
Closed(c) ==
  /\ cl[c].st = "live" /\ cl[c].cut /= None /\ cl[c].first \o cl[c].chan = <<>>
  /\ IF cl[c].cut = "overflow" /\ cl[c].last /= None
     THEN cl' = [cl EXCEPT ![c] = [Ended(c) EXCEPT !.st = "resuming"]] /\ hub' = Acquired
     ELSE cl' = [cl EXCEPT ![c] = Ended(c)] /\ hub' = hub
  /\ UNCHANGED <<kind, log, failing, made, count>>

\* The connection is lost, the wait to catch up is over, or the consumer
\* stops: what was sent and not read is gone.
Cut(c) ==
  /\ cl[c].st \in {"asking", "resuming", "live", "own"} /\ count.cuts < MaxCuts
  /\ count' = [count EXCEPT !.cuts = @ + 1]
  /\ cl' = [cl EXCEPT ![c] = Ended(c)]
  /\ UNCHANGED <<kind, log, failing, made, hub>>

\* A hub nobody uses is stopped after its linger.
HubStop ==
  /\ hub /= None /\ \A c \in Clients : cl[c].st \notin {"asking", "resuming", "live"}
  /\ hub' = None
  /\ UNCHANGED <<kind, log, failing, made, cl, count>>

\* Mutant: the clients of a hub that ended are not told.
HubFinishSilent ==
  /\ hub /= None /\ hub.f.pc = "ended"
  /\ hub' = None
  /\ UNCHANGED <<kind, log, failing, made, cl, count>>

\* The hub's follow ended: its clients' streams end, and the next client
\* starts another.
HubFinish ==
  /\ hub /= None /\ hub.f.pc = "ended"
  /\ hub' = None
  /\ cl' = [c \in Clients |-> CASE cl[c].st = "live" /\ cl[c].cut = None -> [cl[c] EXCEPT !.cut = "gone"]
                                [] cl[c].st \in {"asking", "resuming"} -> Ended(c)
                                [] OTHER -> cl[c]]
  /\ UNCHANGED <<kind, log, failing, made, count>>

\* The server restarts; a power loss may take with it a last record of a cas
\* log that no fsync covered.
Restart ==
  /\ kind /= "memory" /\ ~failing /\ log /= None /\ Fault
  /\ \E n \in {Len(log.recs)} \cup IF kind = "cas" THEN {Len(log.recs) - 1} \cap Nat ELSE {} :
       log' = [log EXCEPT !.recs = SubSeq(@, 1, n)]
  /\ hub' = None
  /\ cl' = [c \in Clients |-> IF cl[c].st = "failed" THEN cl[c] ELSE Ended(c)]
  /\ UNCHANGED <<kind, failing, made>>

Init ==
  /\ kind \in Kinds
  /\ log = [inc |-> 1, file |-> 1, fmt |-> 0, recs |-> <<[e |-> 1, to |-> 1]>>]
  /\ failing = FALSE /\ made = 1 /\ hub = None
  /\ cl = [c \in Clients |-> NoFollow]
  /\ count = [writes |-> 0, faults |-> 0, cuts |-> 0, files |-> 1]

Serve(c) == Attach(c) \/ AttachFrom(c) \/ OwnSteps(c) \/ Deliver(c) \/ Closed(c)

Run == HubSteps \/ Publish \/ HubFinish

Writer ==
  RaiseHeader \/ AppendEntry \/ BranchEntry \/ (\E t \in 0..made : SetHead(t)) \/ FailAppend \/ CutBack
  \/ ReplaceLog \/ Delete \/ Create

Next ==
  \/ Writer \/ Run \/ HubStop \/ Restart
  \/ \E c \in Clients : Serve(c) \/ Ask(c) \/ Resume(c) \/ Cut(c)

\* Where Run and Serve(c) are enabled.
RunReady == hub /= None /\ (hub.out /= <<>> \/ hub.f.pc = "ended" \/ CanStep(hub.f))
ServeReady(c) ==
  \/ cl[c].first \o cl[c].chan /= <<>>
  \/ cl[c].st = "asking" /\ CaughtUp(c)
  \/ cl[c].st = "resuming" /\ hub /= None /\ hub.rep /= None
  \/ cl[c].st = "own" /\ CanStep(cl[c].own)
  \/ cl[c].st = "live" /\ cl[c].cut /= None

Spec == /\ Init /\ [][Next]_vars /\ WF_vars(CutBack)
        /\ []<>~RunReady \/ []<><<Run>>_vars
        /\ \A c \in Clients : []<>~ServeReady(c) \/ []<><<Serve(c)>>_vars

(***************************************************************************)
(* Properties.                                                             *)
(***************************************************************************)
Sessions == [ents : Seq(1..made), leaf : 0..made, fmt : {0, 1}]

\* The state's types: a follower, its events and its clients hold sessions, or none.
TypeOK ==
  /\ kind \in Kinds /\ failing \in BOOLEAN /\ made \in Nat
  /\ log = None \/ SessionOf(log.recs, log.fmt) \in Sessions
  /\ hub /= None => hub.rep \in Sessions \cup {None} /\ hub.f.sess \in Sessions /\ Len(hub.ring) <= Replay
  /\ \A c \in Clients :
       /\ cl[c].st \in {"off", "asking", "resuming", "live", "own", "failed"}
       /\ cl[c].rep \in Sessions \cup {None} /\ Len(cl[c].chan) <= Buffer
       /\ cl[c].st = "own" <=> cl[c].own /= None

Content(s) == <<s.ents, s.leaf>>

\* A client with nothing on its way, whose follower has nothing to read.
AtRest(c) ==
  /\ cl[c].first \o cl[c].chan = <<>> /\ cl[c].cut = None /\ log /= None
  /\ \/ cl[c].st = "live" /\ hub /= None /\ hub.out = <<>> /\ Waits(hub.f)
     \/ cl[c].st = "own" /\ Waits(cl[c].own)

\* The replica the hub serves snapshots from is the session the store holds
\* whenever its follower waits, through appends, branches and head moves the
\* events fold into one another, cut-back appends and replaced logs (hub.go's
\* publish, internal/follow's Run).
HubAgrees ==
  hub /= None /\ hub.out = <<>> /\ log /= None /\ Waits(hub.f)
    => Content(hub.rep) = Content(SessionOf(log.recs, log.fmt))

\* Cut, resumed, replayed or reset, a client at rest holds the session the
\* store holds: follow.go's "never with a silent skip".
ClientAgrees ==
  \A c \in Clients : AtRest(c) => Content(cl[c].rep) = Content(SessionOf(log.recs, log.fmt))

\* No client's replica refuses an event, by its number or by the head it
\* names, so no follow ends for what the server sent (replica.go's appended
\* and place).
NeverFails == \A c \in Clients : cl[c].st /= "failed"

ReadRight(s) == Set(s.ents) \ {1} /= {} => s.fmt = 1

\* An entry appended after the header's format was raised is read under the
\* raised format, by every follower and by the hub's replica; and by a
\* client's where the cursor holds the header (internal/follow/follow.go's
\* Item.Format).
FormatRight ==
  /\ hub /= None => ReadRight(hub.f.sess) /\ (hub.rep /= None => ReadRight(hub.rep))
  /\ \A c \in Clients : /\ cl[c].own /= None => ReadRight(cl[c].own.sess)
                        /\ kind = "jsonl" /\ cl[c].rep /= None => ReadRight(cl[c].rep)

\* A fresh follow's first session holds every entry the store held when it
\* was asked for, but those its log has lost since, however far behind the
\* hub's follower was (hub.go's catchUp).
FreshHoldsAll ==
  \A c \in Clients :
    (cl[c].st = "live" /\ cl[c].rep /= None /\ log /= None)
      => cl[c].asked \cap Set(SessionOf(log.recs, log.fmt).ents) \subseteq Set(cl[c].rep.ents)

\* Whoever follows a session, the hub or a client of it, holds at rest what the
\* store holds, under the format it was written in; it is refused no event on
\* the way, and starts with no less than there was (internal/follow, hub,
\* replica).
FollowersAgree ==
  /\ TypeOK /\ HubAgrees /\ ClientAgrees
  /\ NeverFails /\ FormatRight /\ FreshHoldsAll

\* A client that keeps its follow comes, time and again, to hold the session
\* the store holds with nothing left to read, whatever was cut, replayed or
\* reset: nothing wedges it, and none of its resumes goes round for ever.
CatchesUp ==
  \A c \in Clients :
    []<>(cl[c].st \in {"resuming", "live", "own"}
           => AtRest(c) /\ Content(cl[c].rep) = Content(SessionOf(log.recs, log.fmt)))
=============================================================================
