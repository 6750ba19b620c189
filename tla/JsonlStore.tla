----------------------------- MODULE JsonlStore ------------------------------
(***************************************************************************)
(* The JSON lines store: one append-only file per session, guarded across  *)
(* processes by a lock file beside it.  One session's file is modelled,    *)
(* with the processes that create, open, append to, read back and delete   *)
(* it, process kills at every step, a write cut short by one, and power    *)
(* loss of the lines no fsync covered.                                     *)
(***************************************************************************)
EXTENDS SessionTree, SequencesExt

CONSTANTS Procs,       \* the processes that open the store
          Bases,       \* lengths of the prefixes a create may fork at (0: no fork)
          MaxLines,    \* bound: appends stop once the file has this many lines
          MaxFaults,   \* bound: kills, torn writes and power losses
          Kinds,       \* entry types the hosts append: subset of {"item", "output", "leaf", "clear"}
          Tails,       \* where a cut may fall: subset of {"clean", "torn", "open"}
          Synchronous, \* entry types the sync policy, or the header's records, fsync
          Formats      \* formats the stored header may name: subset of {"old", "new"}

ASSUME BoundsAssumption == Bases \subseteq Nat /\ MaxLines \in Nat /\ MaxFaults \in Nat

VARIABLES
  file,    \* [lines, tail]: whole lines, and what follows the last newline;
           \* a line is an entry, or Bad for one no reader decodes
  base,    \* the header's base; None while there is no file
  format,  \* the format the stored header names
  synced,  \* how many lines a power loss leaves
  lock,    \* the lock file: who made it, and whether its holder is in it yet
  guard,   \* who holds the flock lock takers go through, or None
  proc,    \* per process: alive, where it is, and the session it holds
  acked,   \* how many lines an Append or SetHead has answered for,
  firm,    \* and how many of those after an fsync
  heads,   \* history: the heads a reader may find with each number of lines
  faults

vars == <<file, base, format, synced, lock, guard, proc, acked, firm, heads, faults>>

None == -9
Bad   == [type |-> "bad", parent |-> None, target |-> None]
NoLock == [by |-> None, written |-> FALSE]

ASSUME ProcsAssumption == None \notin Procs
Empty == [lines |-> <<>>, tail |-> "clean"]

Exists  == base /= None
Alive(p) == proc[p].pc /= "dead"

Gone  == [pc |-> "dead", sess |-> NewSession]
Idle  == [pc |-> "out", sess |-> NewSession]
Holds(p) == proc[p].pc \in {"open", "syncing"}

Prefix(n) == [i \in 1..n |-> [type |-> "item", parent |-> i - 1, target |-> Root]]

Init ==
  /\ file = Empty /\ base = None /\ format = "new" /\ synced = 0
  /\ lock = NoLock /\ guard = None
  /\ proc = [p \in Procs |-> Idle]
  /\ acked = 0 /\ firm = 0 /\ heads = <<>> /\ faults = 0

------------------------------------------------------------------------------
(***************************************************************************)
(* The lock file.  Takers go one at a time through the guard; a lock whose *)
(* holder is a dead process of this host is taken over, one with no holder *)
(* written in it yet, or a live one, refuses.                              *)
(***************************************************************************)
\* Mutant: the holder's process is not looked up.
StaleUnasked(l) == l.written

Stale(l) == l.written /\ ~Alive(l.by)

TakeLock(p, next) ==
  /\ proc[p].pc = "out" /\ guard = None
  /\ lock = NoLock \/ Stale(lock)
  /\ lock' = [by |-> p, written |-> FALSE]
  /\ guard' = p
  /\ proc' = [proc EXCEPT ![p].pc = next]

\* The holder is written into the lock file and the guard let go.
WriteLock(p) ==
  /\ proc[p].pc \in {"opening", "placing"} /\ guard = p
  /\ lock' = [lock EXCEPT !.written = TRUE]
  /\ guard' = None
  /\ UNCHANGED <<file, base, format, synced, proc, acked, firm, heads, faults>>

ReleaseLock(p) == lock' = NoLock

\* An operator removes the lock of a holder that is gone.
BreakLock(p) ==
  /\ Alive(p) /\ lock /= NoLock /\ ~Alive(lock.by)
  /\ ReleaseLock(p)
  /\ UNCHANGED <<file, base, format, synced, guard, proc, acked, firm, heads, faults>>

------------------------------------------------------------------------------
(***************************************************************************)
(* Create: the file is written beside its place, synced, and linked in.    *)
(***************************************************************************)
Create(p) == ~Exists /\ TakeLock(p, "placing") /\ UNCHANGED <<file, base, format, synced, acked, firm, heads, faults>>

Place(p) ==
  /\ proc[p].pc = "placing" /\ guard /= p
  /\ \/ Exists   \* the link fails: another create came first
        /\ proc' = [proc EXCEPT ![p] = Idle] /\ ReleaseLock(p)
        /\ UNCHANGED <<file, base, format, synced, acked, firm, heads>>
     \/ /\ ~Exists
        /\ \E n \in Bases, f \in Formats :
             /\ base' = n /\ format' = f
             /\ file' = [lines |-> Prefix(n), tail |-> "clean"]
             /\ synced' = n /\ acked' = n /\ firm' = n
             /\ heads' = [i \in 1..n |-> {n}]
             /\ proc' = [proc EXCEPT ![p] = [pc |-> "open", sess |->
                  [NewSession EXCEPT !.ents = Prefix(n), !.base = n, !.leaf = n]]]
        /\ UNCHANGED lock
  /\ UNCHANGED <<guard, faults>>

------------------------------------------------------------------------------
(***************************************************************************)
(* Open: the lock, then the file read, a torn last line cut off it.  A     *)
(* last line whole but for its newline reads as any other and stays.       *)
(***************************************************************************)
Open(p) == Exists /\ TakeLock(p, "opening") /\ UNCHANGED <<file, base, format, synced, acked, firm, heads, faults>>

LoadHandle(p) ==
  /\ proc[p].pc = "opening" /\ guard /= p
  /\ IF Exists /\ Readable(file.lines, base)
     THEN /\ proc' = [proc EXCEPT ![p] = [pc |-> "open", sess |-> ReadSession(file.lines, base)]]
          /\ file' = [file EXCEPT !.tail = IF @ = "torn" THEN "clean" ELSE @]
          /\ UNCHANGED lock
     ELSE /\ proc' = [proc EXCEPT ![p] = Idle]
          /\ ReleaseLock(p) /\ UNCHANGED file
  /\ UNCHANGED <<base, format, synced, guard, acked, firm, heads, faults>>

Release(p) ==
  /\ proc[p].pc = "open"
  /\ synced' = Len(file.lines)
  /\ proc' = [proc EXCEPT ![p] = Idle] /\ ReleaseLock(p)
  /\ UNCHANGED <<file, base, format, guard, acked, firm, heads, faults>>

\* The file is removed, then the lock.
Delete(p) ==
  /\ proc[p].pc = "open"
  /\ file' = Empty /\ base' = None /\ synced' = 0 /\ acked' = 0 /\ firm' = 0 /\ heads' = <<>>
  /\ proc' = [proc EXCEPT ![p] = [Idle EXCEPT !.pc = "removing"]]
  /\ UNCHANGED <<format, lock, guard, faults>>

Removed(p) ==
  /\ proc[p].pc = "removing"
  /\ proc' = [proc EXCEPT ![p] = Idle] /\ ReleaseLock(p)
  /\ UNCHANGED <<file, base, format, synced, guard, acked, firm, heads, faults>>

------------------------------------------------------------------------------
(***************************************************************************)
(* Append.  Written(s, e) is the session once e and the leaf labels that   *)
(* keep its head have been appended to it, in the order the lines go out.  *)
(***************************************************************************)
Labelled(s, labels) == IF labels = {} THEN s ELSE Commit(s, CHOOSE l \in labels : TRUE)

CaughtUp(s) == IF s.ents /= <<>> /\ MayRestOn(s, s.leaf) THEN [s EXCEPT !.read = ReadCaughtUp(s)] ELSE s

Settled(s) == Labelled(s, LeafMarkNeeded(s))

Written(s, e) == Settled(CaughtUp(Commit(Labelled(s, LeafMarkBefore(s, e)), e)))

\* The entries a host may append: an item under the leaf or a parent of its
\* choice, a leaf label or a null label on any entry.
Appendable(s) ==
  LET parents == {q \in 0..Len(s.ents) : CheckParentRule(s, q)}
  IN  [type : Kinds \cap {"item", "output"}, parent : parents, target : {Root}]
      \cup [type : Kinds \cap {"leaf", "clear"}, parent : parents \cap {s.leaf}, target : {Nowhere} \cup 0..Len(s.ents)]

\* The heads a reader may find after k of the lines e's append writes: once
\* they are all there the session's leaf, and before that the head they had,
\* the one they are getting, or e itself when it descends from the head.
HeadsOf(s, e, done, was) ==
  LET eAt  == CHOOSE i \in Len(s.ents) + 1 .. Len(done.ents) : done.ents[i] = e
      any  == 0..Len(done.ents)   \* nothing is promised of a leaf a host put on a label
      part == IF ~MayRestOn(s, s.leaf) THEN any
              ELSE {was, s.leaf, done.leaf}
                   \cup (IF s.leaf = Root \/ s.leaf \in PathTo(s, e.parent) THEN {eAt} ELSE {})
      whole == IF MayRestOn(done, done.leaf) THEN {done.leaf} ELSE any
  IN  [k \in 1..Len(done.ents) - Len(s.ents) |->
         IF k = Len(done.ents) - Len(s.ents) THEN whole ELSE part]

\* The file once k of the lines of new are written at its end, t being what
\* follows the last newline: nothing, part of a line, or, for "open", a line
\* that lacks only its newline.  A line written after an open one joins it.
Cut(f, new, k, t) ==
  IF f.tail = "clean" THEN [lines |-> f.lines \o SubSeq(new, 1, k), tail |-> t]
  ELSE [lines |-> Front(f.lines) \o (IF k = 0 THEN <<>> ELSE <<Bad>> \o SubSeq(new, 2, k)),
        tail  |-> IF k = 0 THEN "torn" ELSE t]

CutHeads(f, new, k) == (IF f.tail = "clean" THEN heads ELSE Front(heads)) \o SubSeq(new, 1, k)

New(s, done) == SubSeq(done.ents, Len(s.ents) + 1, Len(done.ents))

\* raiseFormat: the first append to a file of an earlier minor rewrites it
\* under the raised header, whole and synced, before anything else.
Raised == format' = "new" /\ synced' = IF format = "old" THEN Len(file.lines) ELSE synced

CanAppend(p) == proc[p].pc = "open" /\ Exists /\ Len(file.lines) < MaxLines

Was == ResolveLeaf(ReadSession(file.lines, base))

\* The first k of the new lines go out, with the heads a reader may find.
WriteLines(f, new, hs, k, tail) ==
  file' = Cut(f, new, k, tail) /\ heads' = CutHeads(f, hs, k)

\* e's lines go out in one write, the session s coming to done; the answer
\* waits for the fsync when the policy, or a head move, asks for one.
AppendAs(p, e, s, done, sync) ==
  /\ WriteLines(file, New(s, done), HeadsOf(s, e, done, Was), Len(New(s, done)), "clean")
  /\ proc' = [proc EXCEPT ![p] = [pc |-> IF sync THEN "syncing" ELSE "open", sess |-> done]]
  /\ acked' = IF sync THEN acked ELSE Len(file'.lines)

AppendLocked(p, e, sync) ==
  /\ CanAppend(p)
  /\ Raised
  /\ AppendAs(p, e, proc[p].sess, Written(proc[p].sess, e), sync)
  /\ UNCHANGED <<base, lock, guard, firm, faults>>

StoreAppend(p) ==
  \E e \in Appendable(proc[p].sess) : AppendLocked(p, e, e.type \in Synchronous)

SetHead(p) ==
  \E to \in 0..Len(proc[p].sess.ents) :
    \E label \in HeadLabel(proc[p].sess, proc[p].sess.leaf, to) : AppendLocked(p, label, TRUE)

Synced(p) ==
  /\ proc[p].pc = "syncing"
  /\ synced' = Len(file.lines) /\ acked' = Len(file.lines) /\ firm' = Len(file.lines)
  /\ proc' = [proc EXCEPT ![p].pc = "open"]
  /\ UNCHANGED <<file, base, format, lock, guard, heads, faults>>

\* The host moves the leaf of the session it was handed; no line is written.
\* Session.Branch refuses no entry; hosts are taken to branch to the entries a
\* head may rest on and to the leaf labels.
Branch(p) ==
  /\ CanAppend(p)
  /\ \E id \in 0..Len(proc[p].sess.ents) :
       /\ id /= proc[p].sess.leaf /\ id >= base
       /\ proc' = [proc EXCEPT ![p].sess.leaf = id]
  /\ UNCHANGED <<file, base, format, synced, lock, guard, acked, firm, heads, faults>>

------------------------------------------------------------------------------
(***************************************************************************)
(* Faults.                                                                 *)
(***************************************************************************)
Guarded(p) == guard' = IF guard = p THEN None ELSE guard

Kill(p) ==
  /\ Alive(p) /\ faults < MaxFaults
  /\ faults' = faults + 1
  /\ proc' = [proc EXCEPT ![p] = Gone] /\ Guarded(p)
  /\ UNCHANGED <<file, base, format, synced, lock, acked, firm, heads>>

Restart(p) ==
  /\ proc[p].pc = "dead"
  /\ lock.by /= p    \* a new process is another holder; the dead one's lock stays its own
  /\ proc' = [proc EXCEPT ![p] = Idle]
  /\ UNCHANGED <<file, base, format, synced, lock, guard, acked, firm, heads, faults>>

\* A kill in the middle of an append's write leaves the first k of its lines
\* and, in a cut inside the next one, part of it.
Torn(new, hs) ==
  \E k \in 0..Len(new), t \in Tails :
    /\ t \in {"clean", "torn"} => k < Len(new)
    /\ t \in {"clean", "open"} => k > 0
    /\ WriteLines(file, new, hs, k, t)

TornAs(e, s, done) == Torn(New(s, done), HeadsOf(s, e, done, Was))

TornAppend(p) ==
  /\ CanAppend(p) /\ faults < MaxFaults
  /\ \E e \in Appendable(proc[p].sess) : TornAs(e, proc[p].sess, Written(proc[p].sess, e))
  /\ Raised
  /\ faults' = faults + 1
  /\ proc' = [proc EXCEPT ![p] = Gone] /\ Guarded(p)
  /\ UNCHANGED <<base, lock, acked, firm>>

\* Every process dies and the file keeps what was synced, and any prefix of
\* what was not.
PowerLoss ==
  /\ faults < MaxFaults /\ Exists
  /\ \E k \in synced..Len(file.lines), t \in Tails :
       /\ t = "torn" => k < Len(file.lines)
       /\ t = "open" => k > synced
       /\ file' = [lines |-> SubSeq(file.lines, 1, k), tail |-> t]
       /\ heads' = SubSeq(heads, 1, k)
       /\ synced' = k
       /\ acked' = IF acked < k THEN acked ELSE k
  /\ proc' = [p \in Procs |-> Gone] /\ guard' = None
  /\ faults' = faults + 1
  \* the lock file is never synced: it may be there, empty, or gone
  /\ lock' \in {lock, NoLock, [lock EXCEPT !.written = FALSE]}
  /\ UNCHANGED <<base, format, firm>>

Next ==
  \/ \E p \in Procs :
       \/ Create(p) \/ Place(p) \/ Open(p) \/ WriteLock(p) \/ LoadHandle(p)
       \/ Release(p) \/ Delete(p) \/ Removed(p) \/ BreakLock(p)
       \/ StoreAppend(p) \/ SetHead(p) \/ Synced(p) \/ Branch(p)
       \/ Kill(p) \/ Restart(p) \/ TornAppend(p)
  \/ PowerLoss

Spec == Init /\ [][Next]_vars

------------------------------------------------------------------------------
(***************************************************************************)
(* Properties.                                                             *)
(***************************************************************************)

\* The lock file keeps one writer: of the processes that run, at most one
\* holds the session's file for append, whatever was killed and taken over.
OneWriter == \A p, q \in Procs : Holds(p) /\ Holds(q) => p = q

\* What appends, cut-short writes and recoveries leave is a file a reader
\* takes: every line decodes and hangs where it may, so the next append
\* continues a valid file ("drops that line so later appends produce a valid
\* file", jsonl.go).
FileReads == Exists => Readable(file.lines, base)

\* A line an Append answered for stays through process kills, and one it
\* answered for after an fsync stays through power loss.
AckedKept ==
  /\ acked <= Len(file.lines) /\ firm <= Len(file.lines)
  /\ \A i \in 1..acked : file.lines[i] /= Bad

\* The head reads back: with the lines of whole appends a reader resolves the
\* leaf the writer had, and with the lines of one cut short at any point the
\* head before it, the head after it, or the entry itself when it descends
\* from the head; a branch never reads back as the head on its own.
HeadReadsBack ==
  \A k \in 1..Len(file.lines) : k >= base =>
    ResolveLeaf(ReadSession(SubSeq(file.lines, 1, k), base)) \in heads[k]

\* The session a writer holds is the file's lines, and the reader's leaf state
\* it keeps entry by entry is the one a reader computes from the whole file.
HandleHasLines ==
  \A p \in Procs : Holds(p) => proc[p].sess.ents = file.lines /\ proc[p].sess.base = base
HandleIsFile ==
  HandleHasLines /\ \A p \in Procs : Holds(p) => ReadCaughtUp(proc[p].sess) = ReadLeafState(proc[p].sess)

\* The session of a follower that opened with the prefix and took every line
\* since one at a time.
Followed(lines, b) ==
  LET followed[i \in b..Len(lines)] ==
        IF i = b THEN ReadSession(SubSeq(lines, 1, b), b) ELSE Extend(followed[i-1], lines[i])
  IN  followed

\* A follower has the session a reader of the whole file has, its leaf too.
FollowerAgrees ==
  Exists /\ Readable(file.lines, base) =>
    Followed(file.lines, base)[Len(file.lines)].leaf = ResolveLeaf(ReadSession(file.lines, base))

\* The file is the session: it reads, it keeps what was answered for, its head
\* is the writer's, and the writer's handle and a follower agree with it
\* (loadHandle, appendLocked, Session.Append).
FileKeepsTheSession ==
  /\ FileReads /\ AckedKept /\ HeadReadsBack
  /\ HandleIsFile /\ FollowerAgrees

==============================================================================
