------------------------------ MODULE RefStore -------------------------------
(***************************************************************************)
(* Refs as the stores keep them.  The content-addressed store ("cas") has  *)
(* a file and a log per name, the JSON lines store ("jsonl") one document  *)
(* and one log for all of them; in both the log is written ahead of the    *)
(* file and readers take no lock.  The memory and SQLite stores ("atomic") *)
(* make an update under one mutex or in one transaction.                   *)
(***************************************************************************)
EXTENDS Integers, Sequences, FiniteSets, SequencesExt

CONSTANTS Procs,      \* callers of UpdateRef
          Readers,    \* callers of ResolveRef
          Names, Sessions,
          Conflicts,  \* names that may not both exist, one being under the other
          Layouts,    \* subset of {"cas", "jsonl", "atomic"}
          Failures,   \* what may fail: subset of {"fsync", "place", "cut"}
          MaxUpdates, \* bound: updates begun
          MaxFaults,  \* bound: kills and failures, or one power loss
          MaxIdent    \* bound: incarnations of a session under one id

NoTarget == [session |-> "none", ident |-> 0]
Targets  == [session : Sessions, ident : 1..MaxIdent]
Free     == "free"
AllNames == "all"    \* refs.lock: held by a creation, which looks at every name

ASSUME RefAssumption ==
  /\ MaxUpdates \in Nat /\ MaxFaults \in Nat /\ MaxIdent \in Nat \ {0}
  /\ Layouts \subseteq {"cas", "jsonl", "atomic"}
  /\ Free \notin Procs /\ AllNames \notin Names /\ "none" \notin Sessions
  /\ \A n, m \in Names : <<n, m>> \in Conflicts => n /= m /\ <<m, n>> \in Conflicts

VARIABLES
  layout,
  ident,   \* the incarnation of each session, negative while it is deleted
  doc,     \* the target each name's file, or the one document, holds, and in
           \* the document the number of the last record made
  disk,    \* what of doc a power loss leaves
  log,     \* every update recorded, in order, and whether it is fsynced
  lock,    \* holders of the names' locks and of AllNames
  up,      \* per process: its update and how far it is
  rd,      \* per reader: what it has read
  pending, \* per name: an update recorded and not answered, and what it moved
  seen,    \* history: what a read may answer since its reader began
  updates, faults

vars == <<layout, ident, doc, disk, log, lock, up, rd, pending, seen, updates, faults>>
files == <<doc, disk, log>>
bounds == <<updates, faults>>

Idle == [pc |-> "idle", name |-> Free, expected |-> NoTarget, next |-> NoTarget, cur |-> NoTarget]
NotReading == [pc |-> "idle", name |-> Free, file |-> NoTarget, seq |-> 0, got |-> NoTarget]
Settled == [held |-> TRUE, from |-> NoTarget]
Open(t) == [held |-> FALSE, from |-> t]

Init ==
  /\ layout \in Layouts
  /\ ident = [s \in Sessions |-> 1]
  /\ doc = [held |-> [n \in Names |-> NoTarget], seq |-> 0] /\ disk = doc
  /\ log = <<>>
  /\ lock = [x \in Names \cup {AllNames} |-> Free]
  /\ up = [p \in Procs |-> Idle] /\ rd = [r \in Readers |-> NotReading]
  /\ pending = [n \in Names |-> Settled]
  /\ seen = [r \in Readers |-> {}]
  /\ updates = 0 /\ faults = 0

------------------------------------------------------------------------------
(***************************************************************************)
(* What a ref holds, as its file and the end of its log say together.      *)
(***************************************************************************)
Same(v, w) == v = w

\* The last record of n's log, if there is one, and the last of the one log.
RefTail(n) == {i \in 1..Len(log) : log[i].name = n /\ \A j \in i+1..Len(log) : log[j].name /= n}
RefLogTail == {i \in 1..Len(log) : i = Len(log)}
LastOf(n) == IF layout = "jsonl" THEN RefLogTail ELSE RefTail(n)

\* Records committed that what was read of the file does not hold: one that
\* moves the target the file holds, one numbered past the document.
CasLag(n, f) == {i \in RefTail(n) : Same(log[i].old, f) /\ ~Same(log[i].new, f)}
JsonlLag(n, seq) == {i \in RefLogTail : i > seq /\ log[i].name = n}

\* f and seq are what was read of the file; the log is read after it.
EffectiveFrom(n, f, seq) ==
  LET lagged == IF layout = "jsonl" THEN JsonlLag(n, seq) ELSE CasLag(n, f)
  IN  IF lagged = {} THEN f ELSE log[CHOOSE i \in lagged : TRUE].new

Effective(n) == EffectiveFrom(n, doc.held[n], doc.seq)

HeldNow == [n \in Names |-> Effective(n)]

Incarnation(t) == t.session \in Sessions /\ ident[t.session] = t.ident

------------------------------------------------------------------------------
(***************************************************************************)
(* UpdateRef, step by step.  up[p] carries the arguments; expected is      *)
(* compared by session alone, since no caller sees the incarnation.        *)
(***************************************************************************)
Begin(p) ==
  /\ up[p].pc = "idle" /\ updates < MaxUpdates
  /\ updates' = updates + 1
  /\ \E n \in Names, e \in Sessions \cup {"none"}, s \in Sessions \cup {"none"} :
       up' = [up EXCEPT ![p] = [pc |-> "lock", name |-> n, cur |-> NoTarget,
                                expected |-> [session |-> e, ident |-> 0],
                                next |-> [session |-> s, ident |-> 0]]]
  /\ UNCHANGED <<layout, ident, files, lock, rd, pending, faults>>

Creating(p) == up[p].expected.session = "none" /\ up[p].next.session /= "none"

\* What the update locks: its name, and ahead of it every name when it
\* creates; the jsonl and atomic stores have one lock.
Wanted(p) ==
  CASE layout /= "cas" -> {AllNames}
    [] Creating(p)     -> {AllNames, up[p].name}
    [] OTHER           -> {up[p].name}

TakeLock(p) ==
  /\ up[p].pc = "lock"
  /\ LET missing == {x \in Wanted(p) : lock[x] /= p}
         first == IF AllNames \in missing THEN AllNames ELSE CHOOSE x \in missing : TRUE
     IN  /\ lock[first] = Free
         /\ lock' = [lock EXCEPT ![first] = p]
         /\ up' = [up EXCEPT ![p].pc = IF missing = {first} THEN "mend" ELSE "lock"]
  /\ UNCHANGED <<layout, ident, files, rd, pending, bounds>>

Unlocked(p) == [x \in DOMAIN lock |-> IF lock[x] = p THEN Free ELSE lock[x]]

\* The update ends, answered or refused, and lets its locks go.
Finish(p) == up' = [up EXCEPT ![p] = Idle] /\ lock' = Unlocked(p)

\* n's file, or the one document, replaced; a power loss may yet undo it.
Replaced(n, t) ==
  doc' = [held |-> [doc.held EXCEPT ![n] = t], seq |-> IF layout = "jsonl" THEN Len(log) ELSE 0]

Record(p, durable) == [name |-> up[p].name, old |-> up[p].cur, new |-> up[p].next, durable |-> durable]

\* Mutant: a record the file does not hold is taken as made.
MendNotMade(p) ==
  /\ up[p].pc = "mend"
  /\ up' = [up EXCEPT ![p].pc = "compare", ![p].cur = Effective(up[p].name)]
  /\ pending' = [pending EXCEPT ![up[p].name] = Settled]
  /\ UNCHANGED <<layout, ident, files, lock, rd, bounds>>

\* The ref and its log brought in step: a record the file does not hold yet is
\* made, a file the log does not account for is recorded.
MendRef(n) ==
  LET last == IF RefTail(n) = {} THEN NoTarget ELSE log[CHOOSE i \in RefTail(n) : TRUE].new IN
  /\ pending' = [pending EXCEPT ![n] = Settled]
  /\ CASE CasLag(n, doc.held[n]) /= {} ->
            Replaced(n, Effective(n)) /\ disk' = doc' /\ UNCHANGED log
       [] ~Same(last, doc.held[n]) /\ CasLag(n, doc.held[n]) = {} ->
            /\ log' = Append(log, [name |-> n, old |-> last, new |-> doc.held[n], durable |-> TRUE])
            /\ UNCHANGED <<doc, disk>>
       [] OTHER -> UNCHANGED files

\* The one record the document lacks is made, whichever name it moves.
MendDoc(n) ==
  LET made == IF doc.seq < Len(log) THEN log[Len(log)].name ELSE n IN
  /\ pending' = [pending EXCEPT ![made] = Settled, ![n] = Settled]
  /\ IF doc.seq < Len(log) THEN Replaced(made, Effective(made)) /\ disk' = doc' ELSE UNCHANGED <<doc, disk>>
  /\ UNCHANGED log

Mend(p) ==
  LET n == up[p].name IN
  /\ up[p].pc = "mend"
  /\ up' = [up EXCEPT ![p].pc = "compare", ![p].cur = Effective(n)]
  /\ CASE layout = "cas"   -> MendRef(n)
       [] layout = "jsonl" -> MendDoc(n)
       [] OTHER -> pending' = [pending EXCEPT ![n] = Settled] /\ UNCHANGED files
  /\ UNCHANGED <<layout, ident, lock, rd, bounds>>

\* The names a creation may not stand beside.
RefConflict(n) == \E m \in Names : <<n, m>> \in Conflicts /\ Effective(m) /= NoTarget

Refused(p) ==
  LET u == up[p] IN
  \/ u.cur.session /= u.expected.session                              \* RefMovedError
  \/ u.next.session /= "none" /\ ident[u.next.session] < 0            \* ErrNoSession
  \/ u.cur.session = u.next.session                                   \* nothing to change
  \/ u.cur = NoTarget /\ RefConflict(u.name)                          \* ErrRefName

Compare(p) ==
  /\ up[p].pc = "compare"
  /\ IF Refused(p) THEN Finish(p)
     ELSE LET s == up[p].next.session IN
          /\ up' = [up EXCEPT ![p].pc = IF layout = "atomic" THEN "atomic" ELSE "log",
                              ![p].next = IF s = "none" THEN NoTarget ELSE [session |-> s, ident |-> ident[s]]]
          /\ UNCHANGED lock
  /\ UNCHANGED <<layout, ident, files, rd, pending, bounds>>

\* One transaction: the target and its log record together.
Commit(p) ==
  LET u == up[p] IN
  /\ u.pc = "atomic"
  /\ Replaced(u.name, u.next) /\ disk' = doc'
  /\ log' = Append(log, Record(p, TRUE))
  /\ pending' = [pending EXCEPT ![u.name] = Open(u.cur)]
  /\ up' = [up EXCEPT ![p].pc = "answer"]
  /\ UNCHANGED <<layout, ident, lock, rd, bounds>>

AppendRefRecord(p) ==
  LET u == up[p] IN
  /\ u.pc = "log"
  /\ log' = Append(log, Record(p, FALSE))
  /\ pending' = [pending EXCEPT ![u.name] = Open(u.cur)]
  /\ up' = [up EXCEPT ![p].pc = "fsync"]
  /\ UNCHANGED <<layout, ident, doc, disk, lock, rd, bounds>>

\* n's record cut off the log; it is the last of n's, and of the one log.
CutBack(n) == log' = RemoveAt(log, CHOOSE j \in LastOf(n) : TRUE)

FsyncRecord(p) ==
  /\ up[p].pc = "fsync"
  /\ log' = [i \in DOMAIN log |-> [log[i] EXCEPT !.durable = @ \/ layout = "jsonl" \/ log[i].name = up[p].name]]
  /\ up' = [up EXCEPT ![p].pc = "place"]
  /\ UNCHANGED <<layout, ident, doc, disk, lock, rd, pending, bounds>>

Fault == faults < MaxFaults /\ faults' = faults + 1

FsyncFails(p) ==
  /\ up[p].pc = "fsync" /\ "fsync" \in Failures /\ Fault
  /\ CutBack(up[p].name)
  /\ pending' = [pending EXCEPT ![up[p].name] = Settled]
  /\ Finish(p)
  /\ UNCHANGED <<layout, ident, doc, disk, rd, updates>>

PlaceRef(p) ==
  /\ up[p].pc = "place"
  /\ Replaced(up[p].name, up[p].next)
  /\ up' = [up EXCEPT ![p].pc = "dirsync"]
  /\ UNCHANGED <<layout, ident, disk, log, lock, rd, pending, bounds>>

\* Every ref file is in one directory, so its fsync makes them all durable.
FsyncDir(p) ==
  /\ up[p].pc = "dirsync"
  /\ disk' = doc
  /\ up' = [up EXCEPT ![p].pc = "answer"]
  /\ UNCHANGED <<layout, ident, doc, log, lock, rd, pending, bounds>>

\* The file could not be replaced, or its directory not synced: the record is
\* cut back, or, where that fails too, stays for the next update to make.
PlaceFails(p) ==
  LET n == up[p].name IN
  /\ "place" \in Failures /\ Fault
  /\ UNCHANGED <<layout, ident, doc, disk, rd, updates>>
  /\ up[p].pc = "place" \/ (up[p].pc = "dirsync" /\ layout = "cas")
  /\ \/ /\ CutBack(n)
        /\ pending' = IF HeldNow'[n] = HeldNow[n] THEN pending ELSE [pending EXCEPT ![n] = Settled]
     \/ "cut" \in Failures /\ UNCHANGED <<log, pending>>
  /\ Finish(p)

Answer(p) ==
  /\ up[p].pc = "answer"
  /\ pending' = [pending EXCEPT ![up[p].name] = Settled]
  /\ Finish(p)
  /\ UNCHANGED <<layout, ident, files, rd, bounds>>

------------------------------------------------------------------------------
(***************************************************************************)
(* ResolveRef takes no lock: the file, then the end of the log.            *)
(***************************************************************************)
ReadRefFile(r) ==
  /\ rd[r].pc = "idle"
  /\ \E n \in Names :
       rd' = [rd EXCEPT ![r] = [pc |-> "reading", name |-> n, file |-> doc.held[n], seq |-> doc.seq, got |-> NoTarget]]
  /\ UNCHANGED <<layout, ident, files, lock, up, pending, bounds>>

\* Mutant: the last record is taken for the name's without looking.
ReadRefTailAnyName(r) ==
  /\ rd[r].pc = "reading"
  /\ rd' = [rd EXCEPT ![r].pc = "resolved",
                      ![r].got = IF log /= <<>> /\ Len(log) > rd[r].seq THEN log[Len(log)].new ELSE rd[r].file]
  /\ UNCHANGED <<layout, ident, files, lock, up, pending, bounds>>

\* A session created again since the ref was set is refused, ErrNoSession.
ReadRefTail(r) ==
  /\ rd[r].pc = "reading"
  /\ LET got == EffectiveFrom(rd[r].name, rd[r].file, rd[r].seq)
     IN  rd' = IF got = NoTarget \/ Incarnation(got)
               THEN [rd EXCEPT ![r].pc = "resolved", ![r].got = got]
               ELSE [rd EXCEPT ![r] = NotReading]
  /\ UNCHANGED <<layout, ident, files, lock, up, pending, bounds>>

ResolveDone(r) ==
  /\ rd[r].pc = "resolved"
  /\ rd' = [rd EXCEPT ![r] = NotReading]
  /\ UNCHANGED <<layout, ident, files, lock, up, pending, bounds>>

\* A session is deleted, and may be created again under its id.
DeleteSession(s) ==
  /\ ident[s] > 0 /\ ident[s] < MaxIdent
  /\ ident' = [ident EXCEPT ![s] = -@]
  /\ UNCHANGED <<layout, files, lock, up, rd, pending, bounds>>

CreateSession(s) ==
  /\ ident[s] < 0
  /\ ident' = [ident EXCEPT ![s] = 1 - @]
  /\ UNCHANGED <<layout, files, lock, up, rd, pending, bounds>>

------------------------------------------------------------------------------
Kill(p) ==
  /\ up[p].pc /= "idle" /\ Fault
  /\ Finish(p)
  /\ UNCHANGED <<layout, ident, files, rd, pending, updates>>

\* at lists the places in kept in their order.
InTheirOrder(at, kept) ==
  /\ \A i, j \in DOMAIN at : i < j => at[i] < at[j]
  /\ \A k \in kept : \E i \in DOMAIN at : at[i] = k

\* Records not fsynced may be lost, of the one log the last ones, and so may
\* the replacements of files whose directory was not.  A loss of power comes
\* alone, not after a failure.
PowerLoss ==
  /\ faults = 0 /\ MaxFaults > 0 /\ faults' = MaxFaults
  /\ UNCHANGED <<layout, ident, updates>>
  /\ \E kept \in {k \in SUBSET DOMAIN log : \A i \in DOMAIN log : log[i].durable => i \in k} :
       \E at \in [1..Cardinality(kept) -> kept] :
         /\ InTheirOrder(at, kept)
         /\ log' = [i \in DOMAIN at |-> [log[at[i]] EXCEPT !.durable = TRUE]]
  /\ doc' \in IF layout = "cas"
               THEN [held : {h \in [Names -> {doc.held[n] : n \in Names} \cup {disk.held[n] : n \in Names}] :
                               \A n \in Names : h[n] \in {doc.held[n], disk.held[n]}}, seq : {0}]
               ELSE {doc, disk}
  /\ disk' = doc'
  /\ up' = [p \in Procs |-> Idle] /\ lock' = [x \in DOMAIN lock |-> Free]
  /\ rd' = [r \in Readers |-> NotReading]
  /\ pending' = [n \in Names |-> IF HeldNow'[n] = HeldNow[n] THEN pending[n] ELSE Settled]

Step ==
  \/ \E p \in Procs :
       \/ Begin(p) \/ TakeLock(p) \/ Mend(p) \/ Compare(p) \/ Commit(p)
       \/ AppendRefRecord(p) \/ FsyncRecord(p) \/ FsyncFails(p)
       \/ PlaceRef(p) \/ FsyncDir(p) \/ PlaceFails(p) \/ Answer(p) \/ Kill(p)
  \/ \E r \in Readers : ReadRefFile(r) \/ ReadRefTail(r) \/ ResolveDone(r)
  \/ \E s \in Sessions : DeleteSession(s) \/ CreateSession(s)
  \/ PowerLoss

\* What a read may answer: what the ref holds and, until the update that moved
\* it is answered, what it held before; and once something has failed, what a
\* failed update left in the file, which the log may have taken back.
Current ==
  [n \in Names |-> {HeldNow[n]} \cup (IF pending[n] = Settled THEN {} ELSE {pending[n].from})
                               \cup (IF faults = 0 THEN {} ELSE {doc.held[n]})]

Observed ==
  seen' = [r \in Readers |->
    CASE rd'[r].pc = "idle"    -> {}
      [] rd[r].pc = "idle"     -> Current'[rd'[r].name]
      [] rd[r].pc = "reading"  -> seen[r] \cup Current'[rd[r].name]
      [] OTHER                 -> seen[r]]

Next == Step /\ Observed

Spec == Init /\ [][Next]_vars

------------------------------------------------------------------------------
(***************************************************************************)
(* Properties.                                                             *)
(***************************************************************************)

\* A reader that takes no lock gets a target the ref held at some moment of
\* the read, or that an update not yet answered was moving it from, whatever
\* updates, failures and recoveries ran between its two looks; after a failure,
\* perhaps the target a failed update left in the file.
ResolvesAHeldTarget == \A r \in Readers : rd[r].pc = "resolved" => rd[r].got \in seen[r]

\* A ref's log accounts for it: each record starts where the one before ended.
LogIsAChain ==
  \A i, j \in 1..Len(log) :
    (/\ i < j /\ log[i].name = log[j].name
     /\ \A k \in i+1..j-1 : log[k].name /= log[i].name) => log[j].old = log[i].new

\* Of two names one of which is under the other, at most one is a ref.
NoRefUnderARef ==
  \A n, m \in Names : <<n, m>> \in Conflicts => Effective(n) = NoTarget \/ Effective(m) = NoTarget

\* The stores with one lock for every name keep conflicting names apart through
\* every failure and crash.
NamesApart == layout /= "cas" => NoRefUnderARef

\* What a lock-free reader resolves, what a ref's log records and which names
\* exist side by side agree with the updates made (ResolveRef, UpdateRef).
RefsAccountedFor == ResolvesAHeldTarget /\ LogIsAChain /\ NamesApart

\* The ref of Refs is what the store would resolve it to now.
Held == INSTANCE Refs WITH refs <- HeldNow, pending <- pending

\* The stores implement Refs: an update is one step of one name, one that was
\* answered is never taken back, and nothing else moves a ref (UpdateRef,
\* mendRef, refsLocked).
Implements == Held!Spec
==============================================================================
