------------------------------ MODULE Exchange ------------------------------
(***************************************************************************)
(* One session between stores that exchange it.  A store holds a copy as   *)
(* the record, which alone writes, or as a mirror.  A push sends the       *)
(* record's copy and moves the receiver's head by compare-and-swap; a      *)
(* handover makes the receiver the record and then the sender a mirror; a  *)
(* fetch takes a copy from any holder; TakeBack fetches, has the server    *)
(* give the record up and declares it here.  Local stores exchange by      *)
(* calls; Server is reached over the wire, where a push uploads objects    *)
(* first.  An exchange is several steps, each under one store's lock of    *)
(* the session; writers, deletions and failures come between them.         *)
(*                                                                         *)
(* The session has no base, and an entry stands for its two objects.       *)
(***************************************************************************)
EXTENDS Integers, Sequences, FiniteSets

CONSTANTS
  Stores, Server,
  Entries,
  ParentOf,     \* each entry's parent, or Root
  CallOf,       \* the call ID of a function call, or None
  Root, None,
  Procs,        \* exchanges in flight at a time
  WritersWait,  \* a store's callers do not write while its Push hands over,
                \* nor move the head while the session is handed over
  OneHandover,  \* handovers and takes back do not overlap
  MaxOps,       \* exchanges in a behaviour
  MaxEvents     \* head moves by writers, deletions, exchanges given up midway, uploads lapsed

\* What a store keeps of the session.
Copies == [entries : SUBSET Entries, head : Entries \cup {Root}, mark : {"record", "mirror"}]

ASSUME ExchangeAssumption ==
  /\ Server \in Stores /\ Root \notin Entries /\ None \notin Copies
  /\ ParentOf \in [Entries -> Entries \cup {Root}]

Locals == Stores \ {Server}

VARIABLES
  copy,     \* each store's copy of the session, or None
  ups,      \* the objects each local store uploaded that still wait for a push
  written,  \* the entries written so far, each at one store
  xs,       \* the exchange each process runs
  count     \* operations so far

vars == <<copy, ups, written, xs, count>>

Holds(s) == copy[s] /= None

IsRecord(s) == Holds(s) /\ copy[s].mark = "record"

Records == {s \in Stores : IsRecord(s)}

Idle == [kind |-> "idle"]

\* The path up from e, itself first.
Line(e) ==
  LET up[n \in 0..Cardinality(Entries)] ==
        IF n = 0 THEN {e} ELSE up[n-1] \cup {ParentOf[x] : x \in up[n-1] \ {Root}}
  IN  up[Cardinality(Entries)]

Descends(head, anc) == anc \in Line(head)

Events == count.moves + count.fails + count.deletes + count.lapses

Count(what) == count' = [count EXCEPT ![what] = @ + 1]

(***************************************************************************)
(* The record's own writers, and deletion.                                 *)
(***************************************************************************)
HandsOver(x) == x.kind = "takeback" \/ (x.kind = "push" /\ x.handover)

MayWrite(s) ==
  /\ IsRecord(s)
  /\ WritersWait => \A p \in Procs :
       HandsOver(xs[p]) => ~(xs[p].kind = "push" /\ xs[p].from = s /\ xs[p].to /= Server)

Carries(entries, e) == CallOf[e] /= None /\ \E x \in entries : CallOf[x] = CallOf[e]

Append1(s, e) ==
  /\ MayWrite(s) /\ e \notin written
  /\ ParentOf[e] \in copy[s].entries \cup {Root}
  /\ ~Carries(copy[s].entries, e)
  /\ copy' = [copy EXCEPT ![s].entries = @ \cup {e}, ![s].head = IF @ = ParentOf[e] THEN e ELSE @]
  /\ written' = written \cup {e}
  /\ UNCHANGED <<ups, xs, count>>

SetHead(s, to) ==
  /\ MayWrite(s) /\ (WritersWait => \A p \in Procs : ~HandsOver(xs[p]))
  /\ Events < MaxEvents /\ Count("moves")
  /\ to \in copy[s].entries \cup {Root} /\ to /= copy[s].head
  /\ copy' = [copy EXCEPT ![s].head = to]
  /\ UNCHANGED <<ups, written, xs>>

Delete(s) ==
  /\ Holds(s) /\ Events < MaxEvents /\ Count("deletes")
  /\ copy' = [copy EXCEPT ![s] = None]
  /\ UNCHANGED <<ups, written, xs>>

(***************************************************************************)
(* What a receiver does with a bundle.                                     *)
(***************************************************************************)
\* Mutant: the calls of the bundle are held against nothing.
CallIDsMeetNone(held, b) == FALSE

\* A fresh call's ID at another entry the receiver holds and the sender does not.
CallIDsMeet(held, b) == \E e \in b.entries \ held : Carries(held \ b.entries, e)

\* The head a receiver that holds the session ends with.
NewHead(c, b, o) ==
  CASE b.head = c.head -> c.head
    [] o.push -> IF o.expected = c.head \/ o.force THEN b.head ELSE c.head
    [] OTHER -> IF c.mark /= "record" /\ (c.head = Root \/ Descends(b.head, c.head)) THEN b.head ELSE c.head

FreshHead(b, o) == IF ~o.push \/ o.expected = Root \/ o.force THEN b.head ELSE Root

\* The copy afterwards, the same when the bundle is refused.
Received(c, b, o) ==
  IF c = None
  THEN IF o.handover /\ FreshHead(b, o) /= b.head THEN None
       ELSE [entries |-> b.entries, head |-> FreshHead(b, o),
             mark |-> IF o.handover THEN "record" ELSE "mirror"]
  ELSE IF CallIDsMeet(c.entries, b) THEN c
       ELSE [entries |-> c.entries \cup b.entries, head |-> NewHead(c, b, o),
             mark |-> IF o.handover /\ NewHead(c, b, o) = b.head THEN "record" ELSE c.mark]

\* What the sender is answered: a handover whose head did not move failed.
Accepted(c, b, o) ==
  /\ c /= None => ~CallIDsMeet(c.entries, b)
  /\ o.handover => b.head = (IF c = None THEN FreshHead(b, o) ELSE NewHead(c, b, o))

NoPush == [push |-> FALSE, expected |-> Root, force |-> FALSE, handover |-> FALSE]

Options(x) == [push |-> TRUE, expected |-> x.expected, force |-> x.force, handover |-> x.handover]

(***************************************************************************)
(* An exchange begins by reading the sender's copy, committed first.       *)
(***************************************************************************)
Begin(p, x) ==
  /\ xs[p] = Idle /\ count.ops < MaxOps /\ Count("ops")
  /\ OneHandover /\ HandsOver(x) => \A q \in Procs : ~HandsOver(xs[q])
  /\ xs' = [xs EXCEPT ![p] = x]
  /\ UNCHANGED <<copy, ups, written>>

\* The head the sender expects: the receiver's, or none.
HeadAt(s) == IF Holds(s) THEN copy[s].head ELSE Root

StartPush(p, from, to, expected, force, handover) ==
  /\ from \in Locals /\ from /= to /\ IsRecord(from)
  /\ expected \in {HeadAt(to), Root} /\ (force => expected = Root)   \* a forced push expects nothing
  /\ Begin(p, [kind |-> "push", from |-> from, to |-> to, b |-> copy[from],
               expected |-> expected, force |-> force, handover |-> handover,
               step |-> IF to = Server THEN "missing" ELSE "receive"])

StartFetch(p, to, from) ==
  /\ to \in Locals /\ from /= to /\ Holds(from)
  /\ Begin(p, [kind |-> "fetch", from |-> from, to |-> to, b |-> copy[from], step |-> "receive"])

StartTakeBack(p, to) ==
  /\ to \in Locals /\ Holds(Server)
  /\ Begin(p, [kind |-> "takeback", from |-> Server, to |-> to, b |-> copy[Server], step |-> "receive"])

Advance(p, step) == xs' = [xs EXCEPT ![p].step = step]

Finish(p) == xs' = [xs EXCEPT ![p] = Idle]

At(p, kinds, step) == xs[p].kind \in kinds /\ xs[p].step = step

(***************************************************************************)
(* Over the wire: what the server lacks for this caller is asked for and   *)
(* uploaded, and the push names objects.  An upload waits for its grace.   *)
(***************************************************************************)
Reachable(who) == ups[who] \cup (IF Holds(Server) THEN copy[Server].entries ELSE {})

Missing(p) ==
  /\ At(p, {"push"}, "missing")
  /\ xs' = [xs EXCEPT ![p] = [k \in DOMAIN xs[p] \cup {"lacks"} |->
              CASE k = "lacks" -> xs[p].b.entries \ Reachable(xs[p].from)
                [] k = "step" -> "upload" [] OTHER -> xs[p][k]]]
  /\ UNCHANGED <<copy, ups, written, count>>

Upload(p) ==
  /\ At(p, {"push"}, "upload")
  /\ ups' = [ups EXCEPT ![xs[p].from] = @ \cup xs[p].lacks]
  /\ Advance(p, "post")
  /\ UNCHANGED <<copy, written, count>>

UploadsExpire(who) ==
  /\ ups[who] /= {} /\ Events < MaxEvents /\ Count("lapses")
  /\ ups' = [ups EXCEPT ![who] = {}]
  /\ UNCHANGED <<copy, written, xs>>

\* What the push names, refused whole while any of it is missing.
Closure(p) == IF xs[p].b.entries \subseteq Reachable(xs[p].from) THEN xs[p].b ELSE None

(***************************************************************************)
(* The receiver's step, and the sender's after it.                         *)
(***************************************************************************)
ReceivePush(p) ==
  /\ At(p, {"push"}, "receive") \/ At(p, {"push"}, "post")
  /\ LET x == xs[p]
         b == IF x.step = "post" THEN Closure(p) ELSE x.b
     IN  IF b = None THEN Finish(p) /\ UNCHANGED copy
         ELSE /\ copy' = [copy EXCEPT ![x.to] = Received(@, b, Options(x))]
              /\ IF x.handover /\ Accepted(copy[x.to], b, Options(x)) THEN Advance(p, "clear") ELSE Finish(p)
  /\ UNCHANGED <<ups, written, count>>

\* Mutant: the record is given up whatever head it has come to have.
HandedOverAnyHead(s, head) == IF IsRecord(s) THEN [copy EXCEPT ![s].mark = "mirror"] ELSE copy

\* HandOver: refused unless the head is the one handed over.
HandedOver(s, head) ==
  IF IsRecord(s) /\ copy[s].head = head THEN [copy EXCEPT ![s].mark = "mirror"] ELSE copy

\* A push between local stores clears the mark; one over the wire hands over.
Clear(p) ==
  /\ At(p, {"push"}, "clear")
  /\ LET x == xs[p]
     IN  copy' = IF x.to = Server THEN HandedOver(x.from, x.b.head)
                 ELSE IF Holds(x.from) THEN [copy EXCEPT ![x.from].mark = "mirror"] ELSE copy
  /\ IF copy' = copy THEN Count("fails") ELSE UNCHANGED count
  /\ Finish(p)
  /\ UNCHANGED <<ups, written>>

ReceiveFetch(p) ==
  /\ At(p, {"fetch", "takeback"}, "receive")
  /\ copy' = [copy EXCEPT ![xs[p].to] = Received(@, xs[p].b, NoPush)]
  /\ IF xs[p].kind = "takeback" /\ Accepted(copy[xs[p].to], xs[p].b, NoPush)
     THEN Advance(p, "handover") ELSE Finish(p)
  /\ UNCHANGED <<ups, written, count>>

\* The server gives up the record at the head that was fetched.
ServerHandsOver(p) ==
  /\ At(p, {"takeback"}, "handover")
  /\ copy' = HandedOver(Server, xs[p].b.head)
  /\ IF copy' /= copy THEN Advance(p, "declare") ELSE Finish(p)
  /\ UNCHANGED <<ups, written, count>>

DeclareRecordAt(p) ==
  /\ At(p, {"takeback"}, "declare")
  /\ LET s == xs[p].to
     IN  IF Holds(s) /\ copy[s].head = xs[p].b.head
         THEN copy' = [copy EXCEPT ![s].mark = "record"] /\ UNCHANGED count
         ELSE UNCHANGED copy /\ Count("stranded")
  /\ Finish(p)
  /\ UNCHANGED <<ups, written>>

\* A mirror with no record left declares itself one.
DeclareRecord(s) ==
  /\ Holds(s) /\ Records = {} /\ \A p \in Procs : ~HandsOver(xs[p])
  /\ copy' = [copy EXCEPT ![s].mark = "record"]
  /\ UNCHANGED <<ups, written, xs, count>>

\* A sender whose handover failed half way finishes it by clearing its mark,
\* the other record holding what it has.
FinishHandover(s) ==
  /\ count.fails > 0 /\ IsRecord(s) /\ \A p \in Procs : ~HandsOver(xs[p])
  /\ \E t \in Records \ {s} : copy[s].head \in copy[t].entries \cup {Root}
  /\ copy' = [copy EXCEPT ![s].mark = "mirror"]
  /\ UNCHANGED <<ups, written, xs, count>>

\* An error, a lost answer or a death between two steps.
GiveUp(p) ==
  /\ xs[p] /= Idle /\ Events < MaxEvents
  /\ count' = [count EXCEPT !.fails = @ + 1, !.stranded = IF At(p, {"takeback"}, "declare") THEN @ + 1 ELSE @]
  /\ Finish(p)
  /\ UNCHANGED <<copy, ups, written>>

Init ==
  /\ \E s \in Stores :
       copy = [t \in Stores |-> IF t = s THEN [entries |-> {}, head |-> Root, mark |-> "record"] ELSE None]
  /\ ups = [s \in Locals |-> {}] /\ written = {}
  /\ xs = [p \in Procs |-> Idle]
  /\ count = [ops |-> 0, moves |-> 0, fails |-> 0, stranded |-> 0, deletes |-> 0, lapses |-> 0]

Next ==
  \/ \E s \in Stores :
       \/ \E e \in Entries : Append1(s, e)
       \/ \E to \in Entries \cup {Root} : SetHead(s, to)
       \/ Delete(s) \/ DeclareRecord(s) \/ FinishHandover(s)
  \/ \E s \in Locals : UploadsExpire(s)
  \/ \E p \in Procs :
       \/ \E from, to \in Stores, expected \in Entries \cup {Root}, force, handover \in BOOLEAN :
            StartPush(p, from, to, expected, force, handover)
       \/ \E from, to \in Stores : StartFetch(p, to, from)
       \/ \E to \in Stores : StartTakeBack(p, to)
       \/ Missing(p) \/ Upload(p) \/ ReceivePush(p) \/ Clear(p)
       \/ ReceiveFetch(p) \/ ServerHandsOver(p) \/ DeclareRecordAt(p)
       \/ GiveUp(p)

Spec == Init /\ [][Next]_vars

(***************************************************************************)
(* Properties.                                                             *)
(***************************************************************************)
TypeOK ==
  /\ \A s \in Stores : Holds(s) =>
       /\ copy[s].entries \subseteq written
       /\ copy[s].mark \in {"record", "mirror"}
  /\ ups \in [Locals -> SUBSET written]

(***************************************************************************)
(* Whatever was pushed, fetched, swept from the uploads or refused, a copy *)
(* is a session: it holds each entry's parent, and its head.               *)
(***************************************************************************)
CopiesWhole ==
  \A s \in Stores : Holds(s) =>
    /\ copy[s].head \in copy[s].entries \cup {Root}
    /\ \A e \in copy[s].entries : ParentOf[e] \in copy[s].entries \cup {Root}

(***************************************************************************)
(* No merge of two stores' branches leaves one call ID at two entries of a *)
(* session, though each store could see only its own.                      *)
(***************************************************************************)
CallsUnique ==
  \A s \in Stores : Holds(s) =>
    \A e, f \in copy[s].entries : CallOf[e] /= None /\ CallOf[e] = CallOf[f] => e = f

\* Every store's copy is a session whose calls have one entry each, after every
\* merge and every refusal (receiveBundle, CheckPush).
CopiesAreSessions == TypeOK /\ CopiesWhole /\ CallsUnique

(***************************************************************************)
(* "a failure between the two leaves two records and never none": while no *)
(* copy is deleted, some store is the record, whatever push failed where;  *)
(* but for TakeBack between the server's giving it up and the local        *)
(* declaration, or after it when that step fails.                          *)
(***************************************************************************)
NeverNone ==
  \/ Records /= {} \/ count.deletes > 0
  \/ \E p \in Procs : At(p, {"takeback"}, "declare")
  \/ count.stranded > 0

(***************************************************************************)
(* "a mirror's head follows the record's": with one record, and nothing    *)
(* given up half way or deleted, the record holds every mirror's head.     *)
(***************************************************************************)
MirrorHeadsHeld ==
  count.deletes = 0 /\ count.fails = 0 /\ count.stranded = 0 =>
    \A t \in Records : Records = {t} =>
      \A s \in Stores : Holds(s) => copy[s].head \in copy[t].entries \cup {Root}

\* The record is never lost between stores, and a mirror is never ahead of it
\* (Push with Handover, TakeBack).
OneRecord == NeverNone /\ MirrorHeadsHeld

=============================================================================
