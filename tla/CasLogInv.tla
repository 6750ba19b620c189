----------------------------- MODULE CasLogInv ------------------------------
(***************************************************************************)
(* The inductive invariant behind AckedSurvive.  An acknowledged entry     *)
(* survives because its append lies in a prefix of the log that is on the  *)
(* disk and in which nothing a crash can do makes a reader stop.  The rest *)
(* says why a durable call extends that prefix over all the session holds. *)
(***************************************************************************)
EXTENDS CasLog

\* No process dies between writing a durable record and the fsync's outcome.
NoDoubtLeft == KillPoints \cap {"fsync", "cut"} = {}

\* None does, or no fsync fails: the two together leave a phantom record in the log.
NoPhantomLeft == FsyncMayFail => NoDoubtLeft

AllOnDisk(e) == \A o \in Names[e] : obj[o] = "disk"

\* The append at i is of e and no loss was recorded of it since.
AppendAt(l, e, i) ==
    i \in DOMAIN l /\ l[i].op = "append" /\ l[i].entry = e /\ ~Gone(l, e, i)

\* The handle can still commit, or is in a call that may.
Live(s) == handle[s].held /\ (~stopped \/ ~Idle(s))

\* The records of s less those a call has written and not yet fsynced.
Accepted(s) ==
    Len(log[s]) - (IF call[s].pc \in {"fsync", "cut"} THEN Len(call[s].recs) ELSE 0)

-----------------------------------------------------------------------------
\* What this process wrote reads back, and is dirty or on disk until it stops.
WroteInv ==
    /\ ~stopped => \A o \in wrote : obj[o] \in {"dirty", "disk"}
    /\ \A s \in Sessions : handle[s].pend \subseteq wrote

\* A call runs on a held session; a durable one owes nothing past its flush.
CallInv(s) ==
    LET c == call[s] IN
    /\ c.pc \in {"prepare", "flush", "log", "fsync", "cut"} => handle[s].held
    /\ c.pc = "recover" => ~handle[s].held
    /\ c.pc \in {"flush", "fsync", "cut"} => c.durable
    /\ c.pc \in {"log", "fsync", "cut"} /\ c.durable => handle[s].pend = {}
    /\ c.pc \in {"fsync", "cut"} => Len(c.recs) <= Len(log[s])

\* The records a call is about to write: at most one append, first, of an
\* entry the session lacks, its objects owed or on disk.
RecsInv(s) ==
    LET c == call[s] IN
    /\ c.pc \in {"flush", "log"} =>
         \A k \in DOMAIN c.recs :
            /\ c.recs[k].op \in {"append", "head", "mark", "sync"}
            /\ c.recs[k].st = "dirty"
            /\ c.recs[k].op = "append" =>
                 /\ k = 1 /\ c.kind = "write" /\ c.recs[k].entry = c.entry
                 /\ c.recs[k].lazy = ~c.durable
            /\ c.recs[k].op = "sync" => c.durable
            /\ ~c.durable => k = 1 /\ c.recs[k].op = "append"
    /\ c.pc \in {"flush", "log"} /\ c.kind = "write" =>
         /\ c.recs # <<>> /\ c.recs[1].op = "append"
         /\ c.entry \notin handle[s].own
         /\ \A o \in Names[c.entry] : obj[o] = "disk" \/ o \in handle[s].pend
    /\ c.pc \in {"flush", "log"} => c.durable \/ c.kind = "write"
    /\ c.pc = "fsync" /\ c.kind = "write" => \E i \in DOMAIN log[s] : AppendAt(log[s], c.entry, i)
    /\ c.pc \in {"fsync", "cut"} =>
         \A k \in DOMAIN log[s] : k > Accepted(s) => log[s][k].op # "lost"

\* An append that is not working state has its objects on disk.
StoredInv(s) ==
    \A i \in DOMAIN log[s] :
        log[s][i].op = "append" /\ ~Gone(log[s], log[s][i].entry, i) /\ ~Pending(log[s], i)
            => AllOnDisk(log[s][i].entry)

\* The objects of working state are on disk or owed to the next commit.
OwedInv(s) ==
    Live(s) => \A i \in DOMAIN log[s] : Pending(log[s], i) =>
        \A o \in Names[log[s][i].entry] : obj[o] = "disk" \/ o \in handle[s].pend

\* A lost record and all before it are on disk, none of it unwritten.
LostInv(l) ==
    \A k \in DOMAIN l : l[k].op = "lost" =>
        \A j \in 1..k : l[j].st = "disk" /\ l[j].op # "zero"

\* An entry is appended again only once its earlier append was found lost.
OnceInv(l) ==
    \A i, j \in DOMAIN l :
        i < j /\ l[i].op = "append" /\ l[j].op = "append" /\ l[i].entry = l[j].entry
            => Gone(l, l[i].entry, i)

\* The handle's entries are the log's, and its log has no hole.
OwnInv(s) ==
    Live(s) =>
        /\ \A e \in handle[s].own : \E i \in DOMAIN log[s] : AppendAt(log[s], e, i)
        /\ \A i \in DOMAIN log[s] :
              /\ log[s][i].op # "zero"
              /\ log[s][i].op = "append" /\ ~Gone(log[s], log[s][i].entry, i)
                   => \/ log[s][i].entry \in handle[s].own
                      \/ /\ call[s].pc \in {"fsync", "cut"} /\ call[s].kind = "write"
                         /\ log[s][i].entry = call[s].entry

\* But for a record left in doubt, one off the disk is working state.  A phantom is
\* in the log of no handle that can commit.
PhantomInv(s) ==
    /\ ~FsyncMayFail => \A i \in DOMAIN log[s] : log[s][i].st # "lost"
    /\ FsyncMayFail \/ NoDoubtLeft => \A i \in DOMAIN log[s] : i <= Accepted(s) /\ log[s][i].st # "disk" =>
         /\ log[s][i].op = "append" /\ log[s][i].lazy
         /\ \A k \in DOMAIN log[s] : i < k /\ k <= Accepted(s) => log[s][k].op # "sync"
    /\ handle[s].held /\ ~stopped => \A i \in DOMAIN log[s] : log[s][i].st # "lost"

\* The log a recovery is about to put in place: it holds what the recovery
\* found, and everything acknowledged, with its objects on disk.
PlanInv(s) ==
    LET c == call[s] IN
    c.pc = "recover" =>
        /\ \A i \in DOMAIN c.recs :
              /\ c.recs[i].st = "disk" /\ c.recs[i].op # "zero"
              /\ c.recs[i].op = "append" /\ ~Gone(c.recs, c.recs[i].entry, i)
                   => c.recs[i].entry \in c.view.own /\ AllOnDisk(c.recs[i].entry)
        /\ \A e \in c.view.own \cup acked[s] : \E i \in DOMAIN c.recs : AppendAt(c.recs, e, i)
        /\ OnceInv(c.recs)

\* Up to i the log is on disk, without a hole, its objects on disk.
Firm(s, i) ==
    \A j \in 1..i :
        /\ log[s][j].st = "disk" /\ log[s][j].op # "zero"
        /\ Pending(log[s], j) => AllOnDisk(log[s][j].entry)

\* e is appended in the firm part of the log, among the accepted records.
FirmAt(s, e) ==
    \E i \in DOMAIN log[s] : AppendAt(log[s], e, i) /\ i <= Accepted(s) /\ Firm(s, i)

\* Every acknowledged entry is.
AckedInv(s) == \A e \in acked[s] : FirmAt(s, e)

\* All that is said of one session.
SessionInv(s) ==
    /\ CallInv(s) /\ RecsInv(s) /\ StoredInv(s) /\ OwedInv(s)
    /\ LostInv(log[s]) /\ OnceInv(log[s]) /\ OwnInv(s)
    /\ PhantomInv(s) /\ PlanInv(s) /\ AckedInv(s)

\* The invariant: what the log, the objects and the handle owe one another at
\* every step of appendRecords and of recovery, for the acknowledged to last.
LogInv == TypeOK /\ WroteInv /\ \A s \in Sessions : SessionInv(s)

-----------------------------------------------------------------------------
(* What makes the log a session: behind RecoversASession.                  *)

\* The append at i stands: no loss was recorded of it since.
Standing(l, i) == l[i].op = "append" /\ ~Gone(l, l[i].entry, i)

\* A reader meets no unwritten line up to i.
NoHole(l, i) == \A j \in 1..i : l[j].op # "zero"

\* The record at i moves the head.
Moves(l, i) ==
    \/ Standing(l, i) /\ l[i].head # None
    \/ l[i].op = "head" /\ ~Gone(l, l[i].head, i)

\* A standing append hangs from one before it, and a head rests on one.
TreeIn(l) ==
    \A i \in DOMAIN l : NoHole(l, i) =>
        /\ Standing(l, i) /\ Parent[l[i].entry] # Root =>
             \E j \in DOMAIN l : j < i /\ AppendAt(l, Parent[l[i].entry], j)
        /\ Moves(l, i) /\ l[i].head # Root =>
             l[i].head \notin Labels /\ \E j \in DOMAIN l : j <= i /\ AppendAt(l, l[i].head, j)

\* What a call is about to write hangs from, and moves to, what the session
\* holds.
RestInv(s) ==
    LET c == call[s]  own == handle[s].own IN
    c.pc \in {"flush", "log"} => \A k \in DOMAIN c.recs :
        /\ c.recs[k].op = "head" => mayRestOn(own, c.recs[k].head)
        /\ c.recs[k].op = "append" =>
             /\ Parent[c.recs[k].entry] \in own \cup {Root}
             /\ c.recs[k].head # None => mayRestOn(own \cup {c.recs[k].entry}, c.recs[k].head)

\* The records of a call are those of its kind, a sync record after them.
KindInv(s) ==
    LET c == call[s] IN
    c.pc \in {"flush", "log"} =>
        /\ c.recs # <<>>
        /\ c.kind \in {"write", "syncHead", "setHead", "setMark", "commit", "release"}
        /\ c.kind = "write" => c.recs[1].head = c.head
        /\ c.kind \in {"syncHead", "setHead"} => c.recs[1].op = "head" /\ c.recs[1].head = c.head
        /\ c.kind = "setMark" => c.recs[1].op = "mark" /\ c.recs[1].mark = c.mark
        /\ c.kind \in {"commit", "release"} => c.recs[1].op = "sync"
        /\ \A k \in DOMAIN c.recs : k > 1 => c.recs[k].op = "sync"

TreeInv(s) ==
    /\ TreeIn(log[s]) /\ RestInv(s) /\ KindInv(s)
    /\ call[s].pc = "recover" => TreeIn(call[s].recs)

-----------------------------------------------------------------------------
(* What the handle follows: behind HandleFollowsLog.                       *)

\* The state the first m records of a log say.
OwnAt(l, m)   == {l[i].entry : i \in {j \in DOMAIN l : j <= m /\ Standing(l, j)}}
MovesTo(l, m) == {i \in DOMAIN l : i <= m /\ Moves(l, i)}
MarksTo(l, m) == {i \in DOMAIN l : i <= m /\ l[i].op = "mark"}
StateAt(l, m) ==
    [own  |-> OwnAt(l, m),
     head |-> IF MovesTo(l, m) = {} THEN Root ELSE l[Max(MovesTo(l, m))].head,
     mark |-> IF MarksTo(l, m) = {} THEN "record" ELSE l[Max(MarksTo(l, m))].mark]

\* What this process wrote reads back, whether or not it will last.
ReadInv == \A o \in wrote : obj[o] \in {"dirty", "disk", "lost"}

\* What follows working state a crash can take is working state too.
TailInv(s) ==
    \A i \in DOMAIN log[s] : Pending(log[s], i) /\ ~AllOnDisk(log[s][i].entry) =>
        \A k \in DOMAIN log[s] : k > i =>
            log[s][k].op = "zero" \/ (log[s][k].op = "append" /\ log[s][k].lazy)

\* The handle says what the accepted records say, the records a call has
\* written what it will say, and those a recovery plans what it found.
FollowInv(s) ==
    LET c == call[s] IN
    /\ Live(s) => StateAt(log[s], Accepted(s)) = StateOf(handle[s])
    /\ c.pc = "fsync" => StateAt(log[s], Len(log[s])) = StateAfter(handle[s], c)
    /\ handle[s].held /\ stopped /\ Idle(s) => StateOf(handle[s]) = reconcile(s)
    /\ c.pc = "recover" => StateAt(c.recs, Len(c.recs)) = c.view

\* The invariant: LogInv, every log a session's, and every handle the log's.
DirectoryInv ==
    /\ LogInv /\ ReadInv
    /\ \A s \in Sessions : TreeInv(s) /\ TailInv(s) /\ FollowInv(s)

-----------------------------------------------------------------------------
(* What a recovery may find: behind ServedSurvive and                      *)
(* RecoversAnAcceptedState.                                                *)

\* A handle without working state holds what is firm, and so is what was
\* served from one.
ServedInv(s) ==
    /\ handle[s].held /\ ~handle[s].lazy => \A e \in handle[s].own : FirmAt(s, e)
    /\ \A e \in served[s] : FirmAt(s, e)
    /\ call[s].pc = "recover" => served[s] \subseteq call[s].view.own

\* Past the first m records of l nothing is sure to be read.
EndsAt(l, m) == m = Len(l) \/ l[m + 1].st # "disk" \/ l[m + 1].op = "zero"

\* A crash may leave a reader the first m records of s and no more.
MayStop(s, m) ==
    \/ EndsAt(log[s], m)
    \/ Pending(log[s], m + 1) /\ ~AllOnDisk(log[s][m + 1].entry)

\* Wherever it does, it leaves a state that is allowed.
AllowedInv(s) ==
    \A m \in 0..Len(log[s]) :
        NoHole(log[s], m) /\ MayStop(s, m) => StateAt(log[s], m) \in may[s]

\* What a call has written and not fsynced, a crash may take.
LateInv(s) ==
    call[s].pc \in {"fsync", "cut"} =>
        \A k \in DOMAIN log[s] : k > Accepted(s) => log[s][k].st # "disk"

\* What is said of the recovery of one session.
FoundInv(s) == ServedInv(s) /\ AllowedInv(s) /\ LateInv(s)

\* The invariant: DirectoryInv, and every recovery to come one that is allowed.
RecoveryInv == DirectoryInv /\ \A s \in Sessions : FoundInv(s)

=============================================================================
