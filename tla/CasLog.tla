------------------------------- MODULE CasLog -------------------------------
(***************************************************************************)
(* One cas store directory as one process writes it: the append-only log   *)
(* of each session, the content-addressed objects the log names, and what  *)
(* a process kill, a power loss or a failed fsync leaves of them.          *)
(*                                                                         *)
(* Every change of a held session goes through appendRecords:              *)
(*                                                                         *)
(*    flush the objects owed -> write the records -> fsync the log         *)
(*                                                                         *)
(* and each arrow is a place where another session of the store, the       *)
(* kernel or the power supply may take a step.  A lazy append only writes  *)
(* its records; it is working state until the next durable call.           *)
(*                                                                         *)
(* A record and an object each say where their bytes are:                  *)
(*    "dirty"  in the page cache only, an fsync would write them;          *)
(*    "disk"   on the disk;                                                *)
(*    "lost"   in the page cache, marked clean by an fsync that failed: a  *)
(*             read returns them, a later fsync succeeds without them.     *)
(***************************************************************************)
EXTENDS Naturals, Sequences, FiniteSets, FiniteSetsExt

CONSTANTS
    Sessions,     \* session IDs, each created and committed before Init
    Entries,      \* entry IDs; an ID is a hash, so it fixes the entry
    Objects,      \* the objects (envelopes and contents) entries are kept as
    Root,         \* the universal root, "" in the code
    None,         \* no entry, no head move
    Names,        \* Names[e]: the objects storeEntry writes for entry e
    Parent,       \* Parent[e]: the entry e hangs from, or Root
    LeafTarget,   \* LeafTarget[l]: the target of leaf label l
    MaxLog,       \* bound: records a session's log grows to
    MaxCrash,     \* bound: kills and power losses in a behaviour
    KillPoints,   \* the steps of appendRecords a process may be killed at
    FsyncMayFail  \* whether an fsync may fail

Labels == DOMAIN LeafTarget
Marks  == {"record", "mirror"}
Steps  == {"idle", "recover", "prepare", "flush", "log", "fsync", "cut"}

ASSUME ConstantsAssumption ==
    /\ None \notin Entries \cup {Root} /\ Root \notin Entries
    /\ Names \in [Entries -> SUBSET Objects]
    /\ Parent \in [Entries -> Entries \cup {Root}]
    /\ Labels \subseteq Entries
    /\ \A l \in Labels : LeafTarget[l] \in Entries \cup {Root}
    /\ MaxLog \in Nat /\ MaxCrash \in Nat
    /\ KillPoints \subseteq Steps
    /\ FsyncMayFail \in BOOLEAN

VARIABLES
    log,      \* log[s]: the records of the session's log file
    obj,      \* obj[o]: where the bytes of object o are
    wrote,    \* objects.checked: the loose files this process wrote
    stopped,  \* objects.failure: an fsync failed in this process
    handle,   \* handle[s]: the session as this process holds it
    call,     \* call[s]: the call in progress under the handle's lock
    acked,    \* acked[s]: entries a durable call reported committed
    served,   \* served[s]: entries Sync or bundleOf reported committed
    may,      \* may[s]: the states of s a recovery is allowed to find
    crashes   \* kills and power losses so far

vars == <<log, obj, wrote, stopped, handle, call, acked, served, may, crashes>>

-----------------------------------------------------------------------------
(* Records.  A run of lost records, which recovery writes in one file, is  *)
(* one record naming the set of entries lost.  "zero" is a line a crash    *)
(* left unwritten or cut short.                                            *)

Rec(op) == [op |-> op, entry |-> None, head |-> None, mark |-> "record",
            gone |-> {}, lazy |-> FALSE, st |-> "dirty"]
AppendRec(e, head, durable) ==
    [Rec("append") EXCEPT !.entry = e, !.head = head, !.lazy = ~durable]
HeadRec(head)  == [Rec("head") EXCEPT !.head = head]
MarkRec(mark)  == [Rec("mark") EXCEPT !.mark = mark]
LostRec(E)     == [Rec("lost") EXCEPT !.gone = E]
SyncRec        == Rec("sync")
ZeroRec        == [Rec("zero") EXCEPT !.st = "disk"]

Records ==
    {r \in [op : {"append", "head", "mark", "sync", "lost", "zero"},
            entry : Entries \cup {None}, head : Entries \cup {Root, None},
            mark : Marks, gone : SUBSET Entries, lazy : BOOLEAN,
            st : {"dirty", "disk", "lost"}] :
        /\ r.op = "append" => r.entry \in Entries
        /\ r.op = "head" => r.head # None}

OnDisk(l) == [i \in DOMAIN l |-> [l[i] EXCEPT !.st = "disk"]]

-----------------------------------------------------------------------------
(* reconcile: what a session's log says of it, given the objects readable. *)

\* Every object of e reads back whole; a phantom ("lost") one still does.
Present(ob, e) == \A o \in Names[e] : ob[o] \in {"dirty", "disk", "lost"}

\* A later lost record says the append at i was taken by a crash.
Gone(l, e, i) == \E k \in DOMAIN l : k > i /\ l[k].op = "lost" /\ e \in l[k].gone

\* Some sync record stands after i.
Covered(l, i) == \E k \in DOMAIN l : k > i /\ l[k].op = "sync"

\* The record at i is working state: a lazy append no sync record covers.
Pending(l, i) == /\ l[i].op = "append" /\ l[i].lazy
                 /\ ~Covered(l, i) /\ ~Gone(l, l[i].entry, i)

\* Reading stops at an unwritten block, at a lazy append whose objects a
\* crash took and, when only what is committed is asked for, at every one.
CutsAt(l, ob, committedOnly, i) ==
    \/ l[i].op = "zero"
    \/ Pending(l, i) /\ (committedOnly \/ ~Present(ob, l[i].entry))

Reached(l, ob, committedOnly, i) ==
    \A j \in 1..i : ~CutsAt(l, ob, committedOnly, j)

\* The append at i is part of the session.
KeptAt(l, ob, committedOnly, i) ==
    /\ l[i].op = "append" /\ ~Gone(l, l[i].entry, i)
    /\ Reached(l, ob, committedOnly, i)

EntriesOf(l, ob, committedOnly) ==
    {l[i].entry : i \in {j \in DOMAIN l : KeptAt(l, ob, committedOnly, j)}}

HeadMoves(l, ob, committedOnly) ==
    {i \in DOMAIN l :
        \/ KeptAt(l, ob, committedOnly, i) /\ l[i].head # None
        \/ /\ l[i].op = "head" /\ ~Gone(l, l[i].head, i)
           /\ Reached(l, ob, committedOnly, i)}

HeadOf(l, ob, committedOnly) ==
    LET moves == HeadMoves(l, ob, committedOnly)
    IN  IF moves = {} THEN Root ELSE l[Max(moves)].head

MarkOf(l, ob, committedOnly) ==
    LET marks == {i \in DOMAIN l : l[i].op = "mark" /\ Reached(l, ob, committedOnly, i)}
    IN  IF marks = {} THEN "record" ELSE l[Max(marks)].mark

View(l, ob, committedOnly) ==
    [own  |-> EntriesOf(l, ob, committedOnly),
     head |-> HeadOf(l, ob, committedOnly),
     mark |-> MarkOf(l, ob, committedOnly)]

reconcile(s)     == View(log[s], obj, FALSE)
committedView(s) == View(log[s], obj, TRUE)

\* Working state recovery keeps, and appends it finds lost.
Adopt(l, ob) ==
    {l[i].entry : i \in {j \in DOMAIN l : Pending(l, j) /\ Reached(l, ob, FALSE, j)}}
Dropped(l, ob) ==
    {l[i].entry : i \in {j \in DOMAIN l :
        /\ l[j].op = "append" /\ ~Gone(l, l[j].entry, j)
        /\ ~Reached(l, ob, FALSE, j)}} \ EntriesOf(l, ob, FALSE)

Zeros(l) == {i \in DOMAIN l : l[i].op = "zero"}
Whole(l) == IF Zeros(l) = {} THEN l ELSE SubSeq(l, 1, Min(Zeros(l)) - 1)

MustRewrite(l, ob) == Zeros(l) # {} \/ Adopt(l, ob) # {} \/ Dropped(l, ob) # {}

\* Mutant: the losses are not recorded.
RecoveredForgetting(l, ob) ==
    OnDisk(Whole(l) \o (IF Adopt(l, ob) # {} THEN <<SyncRec>> ELSE <<>>))

\* writeRecovered: the whole lines, the losses, and a sync record for the
\* working state kept, as a new file that takes the log's place.
Recovered(l, ob) ==
    OnDisk(Whole(l)
           \o (IF Dropped(l, ob) # {} THEN <<LostRec(Dropped(l, ob))>> ELSE <<>>)
           \o (IF Adopt(l, ob) # {} THEN <<SyncRec>> ELSE <<>>))

-----------------------------------------------------------------------------
(* Handles and calls.                                                      *)

States  == [own : SUBSET Entries, head : Entries \cup {Root}, mark : Marks]
Handles == [held : BOOLEAN, own : SUBSET Entries, head : Entries \cup {Root},
            mark : Marks, leaf : Entries \cup {Root}, pend : SUBSET Objects,
            lazy : BOOLEAN]

NoHandle == [held |-> FALSE, own |-> {}, head |-> Root, mark |-> "record",
             leaf |-> Root, pend |-> {}, lazy |-> FALSE]

\* openHeld: the session the view says, its leaf resting on its head.
HandleOf(v, lazy) ==
    [held |-> TRUE, own |-> v.own, head |-> v.head, mark |-> v.mark,
     leaf |-> v.head, pend |-> {}, lazy |-> lazy]

\* The state of the session the handle stands for.
StateOf(h) == [own |-> h.own, head |-> h.head, mark |-> h.mark]

Kinds == {"none", "open", "write", "syncHead", "setHead", "setMark", "commit", "release"}
Calls ==
    {c \in [pc : Steps, kind : Kinds, durable : BOOLEAN, recs : Seq(Records),
            entry : Entries \cup {None}, head : Entries \cup {Root, None},
            mark : Marks, leaf : Entries \cup {Root}, view : States] :
        /\ c.pc = "prepare" \/ c.kind \in {"write", "syncHead"} => c.entry \in Entries
        /\ c.kind \in {"syncHead", "setHead"} => c.head # None}

NoCall == [pc |-> "idle", kind |-> "none", durable |-> FALSE, recs |-> <<>>,
           entry |-> None, head |-> None, mark |-> "record", leaf |-> Root,
           view |-> StateOf(NoHandle)]

\* withSync: a durable call on a session with working state ends in a sync
\* record.
withSync(s, recs) == IF handle[s].lazy THEN Append(recs, SyncRec) ELSE recs

\* Mutant: an append that branches clears the head.
AfterClearing(h, c) ==
    [h EXCEPT !.own = IF c.kind = "write" THEN @ \cup {c.entry} ELSE @,
              !.lazy = ~c.durable, !.head = c.head, !.leaf = c.leaf]

\* The handle once the records of call c are accepted.
After(h, c) ==
    CASE c.kind = "write" ->
            [h EXCEPT !.own = @ \cup {c.entry}, !.lazy = ~c.durable,
                      !.head = IF c.head = None THEN @ ELSE c.head,
                      !.leaf = IF c.head = None THEN c.leaf ELSE c.head]
      [] c.kind = "syncHead" -> [h EXCEPT !.lazy = FALSE, !.head = c.head]
      [] c.kind = "setHead"  -> [h EXCEPT !.lazy = FALSE, !.head = c.head, !.leaf = c.head]
      [] c.kind = "setMark"  -> [h EXCEPT !.lazy = FALSE, !.mark = c.mark,
                                          !.leaf = IF c.mark = "record" THEN h.head ELSE @]
      [] c.kind = "release"  -> NoHandle
      [] OTHER               -> [h EXCEPT !.lazy = FALSE]

\* What the session is once they are: Release changes nothing of it.
StateAfter(h, c) == IF c.kind = "release" THEN StateOf(h) ELSE StateOf(After(h, c))

Idle(s)     == call[s].pc = "idle"
HeldIdle(s) == handle[s].held /\ Idle(s)
Record(s)   == handle[s].mark = "record"

\* mayRestOn: the root, or an own entry that is not a leaf label.
mayRestOn(own, x) == x = Root \/ (x \in own /\ x \notin Labels)

-----------------------------------------------------------------------------
(* Init: every session was created, and its files made durable, before.    *)

Init ==
    /\ log = [s \in Sessions |-> OnDisk(<<MarkRec("record")>>)]
    /\ obj = [o \in Objects |-> "none"]
    /\ wrote = {} /\ stopped = FALSE
    /\ handle = [s \in Sessions |-> NoHandle]
    /\ call = [s \in Sessions |-> NoCall]
    /\ acked = [s \in Sessions |-> {}]
    /\ served = [s \in Sessions |-> {}]
    /\ may = [s \in Sessions |-> {StateOf(NoHandle)}]
    /\ crashes = 0

-----------------------------------------------------------------------------
(* Opening: openHeld, recoverSession, writeRecovered.                      *)

\* Mutant: a stopped store takes the working state it found for committed.
OpenForgettingLazy(s) ==
    /\ Idle(s) /\ ~handle[s].held
    /\ stopped \/ ~MustRewrite(log[s], obj)
    /\ handle' = [handle EXCEPT ![s] = HandleOf(reconcile(s), FALSE)]
    /\ may' = [may EXCEPT ![s] = IF stopped THEN @ ELSE {reconcile(s)}]
    /\ UNCHANGED <<log, obj, wrote, stopped, call, acked, served, crashes>>

\* The log says what recovery would, or the store has stopped and recovers
\* in memory: the handle is built and nothing is written.
Open(s) ==
    /\ Idle(s) /\ ~handle[s].held
    /\ stopped \/ ~MustRewrite(log[s], obj)
    /\ \A e \in reconcile(s).own : Present(obj, e)
    /\ handle' = [handle EXCEPT ![s] =
            HandleOf(reconcile(s), stopped /\ Adopt(log[s], obj) # {})]
    /\ may' = [may EXCEPT ![s] = IF stopped THEN @ ELSE {reconcile(s)}]
    /\ UNCHANGED <<log, obj, wrote, stopped, call, acked, served, crashes>>

\* writeRecovered, first half: the log is read once, and the objects of the
\* working state it keeps are written again as files of their own and flushed.
RecoverObjects(s) ==
    LET fresh == UNION {Names[e] : e \in Adopt(log[s], obj)} IN
    /\ Idle(s) /\ ~handle[s].held /\ ~stopped
    /\ MustRewrite(log[s], obj)
    /\ obj' = [o \in Objects |-> IF o \in fresh THEN "disk" ELSE obj[o]]
    /\ wrote' = wrote \cup fresh
    /\ call' = [call EXCEPT ![s] =
            [NoCall EXCEPT !.pc = "recover", !.kind = "open",
                           !.view = reconcile(s), !.recs = Recovered(log[s], obj)]]
    /\ UNCHANGED <<log, stopped, handle, acked, served, may, crashes>>

\* Second half: the new log replaces the old one and the session is held.
RecoverLog(s) ==
    /\ call[s].pc = "recover" /\ ~stopped
    /\ \A e \in call[s].view.own : Present(obj, e)
    /\ log' = [log EXCEPT ![s] = call[s].recs]
    /\ handle' = [handle EXCEPT ![s] = HandleOf(call[s].view, FALSE)]
    /\ call' = [call EXCEPT ![s] = NoCall]
    /\ may' = [may EXCEPT ![s] = {call[s].view}]
    /\ UNCHANGED <<obj, wrote, stopped, acked, served, crashes>>

\* An fsync of the new file fails, or the store stopped meanwhile: the open
\* is refused and the old log stays.
RecoverFails(s) ==
    /\ call[s].pc = "recover" /\ (stopped \/ FsyncMayFail)
    /\ stopped' = TRUE
    /\ call' = [call EXCEPT ![s] = NoCall]
    /\ UNCHANGED <<log, obj, wrote, handle, acked, served, may, crashes>>

-----------------------------------------------------------------------------
(* The calls on a held session.                                            *)

\* Session.Branch and ResetLeaf move the leaf in memory, whatever the store
\* is doing with the session.
Branch(s, x) ==
    /\ handle[s].held
    /\ x \in handle[s].own \cup {Root} /\ x # handle[s].leaf
    /\ handle' = [handle EXCEPT ![s].leaf = x]
    /\ UNCHANGED <<log, obj, wrote, stopped, call, acked, served, may, crashes>>

\* A durable call of appendRecords begins.
Begin(s, c) == call' = [call EXCEPT ![s] = c]

HeadCall(s, kind, to, e) ==
    [NoCall EXCEPT !.pc = "flush", !.kind = kind, !.durable = TRUE, !.head = to,
                   !.entry = e, !.recs = withSync(s, <<HeadRec(to)>>)]

\* Write, up to syncHead: a leaf moved in memory is logged, durably, before
\* anything builds on it.
Write(s, e) ==
    /\ HeldIdle(s) /\ Record(s) /\ ~stopped
    /\ Len(log[s]) + (IF handle[s].leaf = handle[s].head THEN 2 ELSE 4) <= MaxLog
    /\ IF handle[s].leaf = handle[s].head
       THEN Begin(s, [NoCall EXCEPT !.pc = "prepare", !.kind = "write", !.entry = e])
       ELSE /\ mayRestOn(handle[s].own, handle[s].leaf)
            /\ Begin(s, HeadCall(s, "syncHead", handle[s].leaf, e))
    /\ UNCHANGED <<log, obj, wrote, stopped, handle, acked, served, may, crashes>>

\* outcomeFor: the head an append moves to, or None for a branch.
headFor(own, leaf, e) ==
    IF e \in Labels
    THEN IF mayRestOn(own, LeafTarget[e]) THEN LeafTarget[e] ELSE None
    ELSE IF Parent[e] = leaf THEN e ELSE None

\* writeTo, for each object of e: a file this process wrote is reused as it
\* is; any other is written, and owed to the session's next commit.
storeEntry(e) ==
    [o \in Objects |->
        IF o \in Names[e] /\ obj[o] # "disk"
                          /\ ~(o \in wrote /\ obj[o] \in {"dirty", "lost"})
        THEN "dirty" ELSE obj[o]]

\* The append record of e and, on a durable append over working state, the
\* sync record.
WriteCall(s, e, durable) ==
    LET head == headFor(handle[s].own, handle[s].leaf, e)
        recs == <<AppendRec(e, head, durable)>>
    IN
    [NoCall EXCEPT !.pc = IF durable THEN "flush" ELSE "log", !.kind = "write",
        !.durable = durable, !.entry = e, !.head = head, !.leaf = handle[s].leaf,
        !.recs = IF durable THEN withSync(s, recs) ELSE recs]

\* Write, from Prepare to the object writes.
Prepare(s) ==
    LET e == call[s].entry IN
    /\ call[s].pc = "prepare" /\ ~stopped
    /\ e \notin handle[s].own /\ Parent[e] \in handle[s].own \cup {Root}
    /\ \E durable \in BOOLEAN : call' = [call EXCEPT ![s] = WriteCall(s, e, durable)]
    /\ obj' = storeEntry(e)
    /\ wrote' = wrote \cup Names[e]
    /\ handle' = [handle EXCEPT ![s].pend = @ \cup Names[e]]
    /\ UNCHANGED <<log, stopped, acked, served, may, crashes>>

\* Write returns at Prepare: the entry is held already, hangs from nothing
\* the session holds, or the store stopped.  An fsync of an object written
\* durably may fail too, and stops the store before the object is in place.
PrepareReturns(s) ==
    LET e == call[s].entry IN
    /\ call[s].pc = "prepare"
    /\ \/ /\ e \in handle[s].own \/ Parent[e] \notin handle[s].own \cup {Root} \/ stopped
          /\ UNCHANGED stopped
       \/ FsyncMayFail /\ e \notin handle[s].own /\ stopped' = TRUE
    /\ call' = [call EXCEPT ![s] = NoCall]
    /\ UNCHANGED <<log, obj, wrote, handle, acked, served, may, crashes>>

\* SetHead, from the head the caller read, and moveHead.
SetHead(s, to) ==
    /\ HeldIdle(s) /\ Record(s) /\ ~stopped
    /\ Len(log[s]) + 2 <= MaxLog
    /\ mayRestOn(handle[s].own, to)
    /\ Begin(s, HeadCall(s, "setHead", to, None))
    /\ UNCHANGED <<log, obj, wrote, stopped, handle, acked, served, may, crashes>>

\* setMark: DeclareRecord makes this store the record, a hand-over makes it
\* a mirror.
SetMark(s, mark) ==
    /\ HeldIdle(s) /\ ~stopped
    /\ Len(log[s]) + 2 <= MaxLog
    /\ mark = "mirror" => Record(s)
    /\ Begin(s, [NoCall EXCEPT !.pc = "flush", !.kind = "setMark", !.durable = TRUE,
                               !.mark = mark, !.recs = withSync(s, <<MarkRec(mark)>>)])
    /\ UNCHANGED <<log, obj, wrote, stopped, handle, acked, served, may, crashes>>

CommitCall(kind) ==
    [NoCall EXCEPT !.pc = "flush", !.kind = kind, !.durable = TRUE, !.recs = <<SyncRec>>]

\* commitHandle, as Sync and bundleOf call it: working state is committed;
\* without any, what the handle holds is reported committed as it is.
Commit(s) ==
    /\ HeldIdle(s)
    /\ \/ /\ handle[s].lazy /\ ~stopped /\ Len(log[s]) + 1 <= MaxLog
          /\ Begin(s, CommitCall("commit"))
          /\ UNCHANGED served
       \/ /\ ~handle[s].lazy
          /\ served' = [served EXCEPT ![s] = @ \cup handle[s].own]
          /\ UNCHANGED call
    /\ UNCHANGED <<log, obj, wrote, stopped, handle, acked, may, crashes>>

\* releaseHandle: the working state is committed if the store still writes,
\* and the session is let go either way.
Release(s) ==
    /\ HeldIdle(s)
    /\ \/ /\ handle[s].lazy /\ ~stopped /\ Len(log[s]) + 1 <= MaxLog
          /\ Begin(s, CommitCall("release"))
          /\ UNCHANGED handle
       \/ /\ ~handle[s].lazy \/ stopped
          /\ handle' = [handle EXCEPT ![s] = NoHandle]
          /\ UNCHANGED call
    /\ UNCHANGED <<log, obj, wrote, stopped, acked, served, may, crashes>>

-----------------------------------------------------------------------------
(* appendRecords.                                                          *)

Dirty(P) == {o \in P : obj[o] = "dirty"}

\* dropHandle and the error returned to the caller.
Drop(s) ==
    /\ handle' = [handle EXCEPT ![s] = NoHandle]
    /\ call' = [call EXCEPT ![s] = NoCall]

\* Mutant: the log is committed before the objects.
FlushSkipping(s) ==
    /\ call[s].pc = "flush"
    /\ handle' = [handle EXCEPT ![s].pend = {}]
    /\ call' = [call EXCEPT ![s].pc = "log"]
    /\ UNCHANGED <<log, obj, wrote, stopped, acked, served, may, crashes>>

\* flushSet: every object owed is fsynced, unless the store has stopped.
Flush(s) ==
    /\ call[s].pc = "flush"
    /\ IF stopped
       THEN Drop(s) /\ UNCHANGED obj
       ELSE /\ obj' = [o \in Objects |->
                        IF o \in Dirty(handle[s].pend) THEN "disk" ELSE obj[o]]
            /\ handle' = [handle EXCEPT ![s].pend = {}]
            /\ call' = [call EXCEPT ![s].pc = "log"]
    /\ UNCHANGED <<log, wrote, stopped, acked, served, may, crashes>>

\* Some of the fsyncs fail: those pages are marked clean, the store stops.
FlushFails(s) ==
    /\ call[s].pc = "flush" /\ FsyncMayFail /\ ~stopped
    /\ \E failed \in SUBSET Dirty(handle[s].pend) \ {{}} :
         obj' = [o \in Objects |->
                    IF o \in failed THEN "lost"
                    ELSE IF o \in Dirty(handle[s].pend) THEN "disk" ELSE obj[o]]
    /\ stopped' = TRUE
    /\ Drop(s)
    /\ UNCHANGED <<log, wrote, acked, served, may, crashes>>

\* The call succeeds: the handle follows the log, and a durable call reports
\* everything the session holds committed.  syncHead goes on to Prepare.
Complete(s) ==
    LET c == call[s]
        state == StateAfter(handle[s], c)
    IN
    /\ handle' = [handle EXCEPT ![s] = After(@, c)]
    /\ call' = [call EXCEPT ![s] =
            IF c.kind = "syncHead"
            THEN [NoCall EXCEPT !.pc = "prepare", !.kind = "write", !.entry = c.entry]
            ELSE NoCall]
    /\ acked' = [acked EXCEPT ![s] = IF c.durable THEN @ \cup state.own ELSE @]
    /\ served' = [served EXCEPT ![s] = IF c.kind = "commit" THEN @ \cup state.own ELSE @]
    /\ may' = [may EXCEPT ![s] = IF c.durable THEN {state} ELSE @ \cup {state}]

\* The records are written, visible to any reader; a lazy call is done.
LogWrite(s) ==
    /\ call[s].pc = "log"
    /\ log' = [log EXCEPT ![s] = @ \o call[s].recs]
    /\ IF call[s].durable
       THEN /\ call' = [call EXCEPT ![s].pc = "fsync"]
            /\ may' = [may EXCEPT ![s] = @ \cup {StateAfter(handle[s], call[s])}]
            /\ UNCHANGED <<handle, acked, served>>
       ELSE Complete(s)
    /\ UNCHANGED <<obj, wrote, stopped, crashes>>

\* The write fails and is cut back: the caller is told, the session is held
\* on, its objects flushed, unless the call was letting it go.
LogWriteFails(s) ==
    /\ call[s].pc = "log"
    /\ IF call[s].kind = "release"
       THEN Drop(s)
       ELSE call' = [call EXCEPT ![s] = NoCall] /\ UNCHANGED handle
    /\ UNCHANGED <<log, obj, wrote, stopped, acked, served, may, crashes>>

MarkedAs(l, st) ==
    [i \in DOMAIN l |-> IF l[i].st = "dirty" THEN [l[i] EXCEPT !.st = st] ELSE l[i]]

LogFsync(s) ==
    /\ call[s].pc = "fsync" /\ ~stopped
    /\ log' = [log EXCEPT ![s] = MarkedAs(@, "disk")]
    /\ Complete(s)
    /\ UNCHANGED <<obj, wrote, stopped, crashes>>

\* The fsync of the log fails, or another session's stopped the store first.
LogFsyncFails(s) ==
    /\ call[s].pc = "fsync"
    /\ \/ stopped /\ UNCHANGED <<log, stopped>>
       \/ /\ FsyncMayFail /\ ~stopped
          /\ log' = [log EXCEPT ![s] = MarkedAs(@, "lost")]
          /\ stopped' = TRUE
    /\ call' = [call EXCEPT ![s].pc = "cut"]
    /\ UNCHANGED <<obj, wrote, handle, acked, served, may, crashes>>

\* Mutant: the failed record stays in the log.
CutLeaving(s) ==
    /\ call[s].pc = "cut"
    /\ Drop(s)
    /\ UNCHANGED <<log, obj, wrote, stopped, acked, served, may, crashes>>

\* The log is cut back to where it was, and the session let go.
Cut(s) ==
    /\ call[s].pc = "cut"
    /\ log' = [log EXCEPT ![s] = SubSeq(@, 1, Len(@) - Len(call[s].recs))]
    /\ Drop(s)
    /\ UNCHANGED <<obj, wrote, stopped, acked, served, may, crashes>>

-----------------------------------------------------------------------------
(* The environment: the process dies, the machine loses power.             *)

ProcessGone ==
    /\ crashes < MaxCrash /\ crashes' = crashes + 1
    /\ wrote' = {} /\ stopped' = FALSE
    /\ handle' = [s \in Sessions |-> NoHandle]
    /\ call' = [s \in Sessions |-> NoCall]

\* The process is killed, or closes the store without committing, and another
\* opens the directory: the page cache outlives it.
Kill ==
    /\ \A s \in Sessions : call[s].pc \in KillPoints
    /\ ProcessGone
    /\ UNCHANGED <<log, obj, acked, served, may>>

\* What a power loss may leave of a log: everything on disk, and of the rest,
\* in any order, some lines written, some not, the file cut short anywhere.
OffDisk(l) == {i \in DOMAIN l : l[i].st # "disk"}
Left(l, n, Z) ==
    [i \in 1..n |-> IF i \in Z THEN ZeroRec ELSE [l[i] EXCEPT !.st = "disk"]]
LogRemains(l) ==
    UNION {{Left(l, n, Z) : Z \in SUBSET OffDisk(l)} :
           n \in {m \in 0..Len(l) : DOMAIN l \ OffDisk(l) \subseteq 1..m}}

Volatile == {o \in Objects : obj[o] \in {"dirty", "lost"}}

PowerLoss ==
    /\ ProcessGone
    /\ \E left \in [Sessions -> UNION {LogRemains(log[s]) : s \in Sessions}] :
         /\ \A s \in Sessions : left[s] \in LogRemains(log[s])
         /\ log' = left
    /\ \E left \in [Volatile -> {"none", "torn", "disk"}] :
         obj' = [o \in Objects |-> IF o \in Volatile THEN left[o] ELSE obj[o]]
    /\ UNCHANGED <<acked, served, may>>

-----------------------------------------------------------------------------
Next ==
    \/ \E s \in Sessions :
         \/ Open(s) \/ RecoverObjects(s) \/ RecoverLog(s) \/ RecoverFails(s)
         \/ \E x \in Entries \cup {Root} : Branch(s, x) \/ SetHead(s, x)
         \/ \E e \in Entries : Write(s, e)
         \/ Prepare(s) \/ PrepareReturns(s)
         \/ \E mark \in Marks : SetMark(s, mark)
         \/ Commit(s) \/ Release(s)
         \/ Flush(s) \/ FlushFails(s) \/ LogWrite(s) \/ LogWriteFails(s)
         \/ LogFsync(s) \/ LogFsyncFails(s) \/ Cut(s)
    \/ Kill \/ PowerLoss

Spec == Init /\ [][Next]_vars

-----------------------------------------------------------------------------
(* Properties.                                                             *)

\* Every variable keeps its type: records, handles and calls are the ones
\* the code builds.
TypeOK ==
    /\ log \in [Sessions -> Seq(Records)]
    /\ obj \in [Objects -> {"none", "torn", "dirty", "disk", "lost"}]
    /\ wrote \in SUBSET Objects /\ stopped \in BOOLEAN
    /\ handle \in [Sessions -> Handles]
    /\ call \in [Sessions -> Calls]
    /\ acked \in [Sessions -> SUBSET Entries]
    /\ served \in [Sessions -> SUBSET Entries]
    /\ may \in [Sessions -> SUBSET States]
    /\ crashes \in 0..MaxCrash

\* An entry a durable call reported committed is found by any recovery, its
\* objects whole, whatever crashed since (RFC 0002: "every append it
\* acknowledged as committed is present in full").
AckedSurvive ==
    \A s \in Sessions : \A e \in acked[s] :
        e \in reconcile(s).own /\ Present(obj, e)

\* What Sync or bundleOf reported committed survives as well: a receiver
\* never holds what a crash here could take back.
ServedSurvive ==
    \A s \in Sessions : \A e \in served[s] : e \in reconcile(s).own

\* No log entry without its entry, no child without its parent, no head on an
\* entry the log lacks or on a leaf label: what a recovery finds is a session.
RecoversASession ==
    \A s \in Sessions :
        LET v == reconcile(s) IN
        /\ \A e \in v.own : Present(obj, e) /\ Parent[e] \in v.own \cup {Root}
        /\ mayRestOn(v.own, v.head)

\* A recovery after any crash finds a session, and in it every entry that was
\* acknowledged as committed.
SurvivesCrashes == AckedSurvive /\ RecoversASession

\* A recovery finds the session as some call left it, no older than the last
\* commit: a crash takes a suffix of what was accepted, head moves and marks
\* with it, and brings back nothing it was once found to have taken.
RecoversAnAcceptedState ==
    \A s \in Sessions : reconcile(s) \in may[s]

\* It finds so much after failed fsyncs too, every entry that was served, and
\* a state some call left.
SurvivesFailures ==
  /\ SurvivesCrashes /\ ServedSurvive /\ RecoversAnAcceptedState

\* Between calls the handle says what the log says.
HandleFollowsLog ==
    \A s \in Sessions : HeldIdle(s) => StateOf(handle[s]) = reconcile(s)

\* What was reported committed is in the committed view, which a read-only
\* store serves and a durable read of the log ends with.
AckedReadAsCommitted ==
    \A s \in Sessions : acked[s] \subseteq committedView(s).own

=============================================================================
