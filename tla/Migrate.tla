------------------------------- MODULE Migrate -------------------------------
(***************************************************************************)
(* A content store's move off its journal.  An earlier release committed   *)
(* every session's appends through one journal and then wrote each         *)
(* session's own files, which the journal could run ahead of.  The first   *)
(* writing open of such a store reads the journal, recovers each session   *)
(* as that release would have, rewrites its log, and puts a tombstone in   *)
(* the journal's place.  It may be killed between any two of its steps, a  *)
(* session may fail to migrate, a line of the journal may be damaged, and  *)
(* a writer of the earlier release may still run.                          *)
(*                                                                         *)
(* The earlier release is not in the repository: its writer is modelled    *)
(* from what this migration reads of it.                                   *)
(***************************************************************************)
EXTENDS Integers, Sequences, FiniteSets, SequencesExt

CONSTANTS
    LegacySessions, LegacyEntries,
    MayHold,     \* MayHold[s]: the entries s may come to hold
    Begun,         \* the sessions there at the start, empty, compacted away
    NoHead,        \* the root, and no entry
    Nobody,        \* no session
    MaxRecords,    \* bound: records the earlier release writes
    MaxKills,      \* bound: kills of the migration, power losses
    MaxLost,       \* bound: damaged lines, sessions that fail
    MaxNew         \* bound: what this release writes

VARIABLES
    journal,  \* the journal's records
    retired,  \* the tombstone is in its place
    dir,      \* dir[s]: the session's files
    object,   \* object[e]: "none", "lazy" until a sync, "durable"
    old,      \* the earlier release's writer
    mig,      \* the migration
    opened,   \* a store of this release is open
    promised,    \* promised[s]: the entries acknowledged as durable
    firm,     \* firm[s]: the head every acknowledged write of s is durable with
    damaged,  \* a line of the journal was damaged
    spent     \* records, kills, faults and new writes so far

migVars == <<journal, retired, dir, object, old, mig, opened, promised, firm, damaged, spent>>

NoDir == [kind |-> "none", header |-> FALSE, log |-> <<>>, head |-> NoHead]
Resting == [at |-> "idle", s |-> Nobody, guard |-> FALSE, rec |-> <<>>]
NotMigrating == [at |-> "idle", scan |-> <<>>, todo |-> {}, failed |-> FALSE]
Unknown == [known |-> FALSE, head |-> NoHead]

JournalRec(op, s, e, lazy) == [op |-> op, s |-> s, e |-> e, lazy |-> lazy, n |-> 0]

MigInit ==
    /\ journal = <<>> /\ retired = FALSE
    /\ dir = [s \in LegacySessions |->
                IF s \in Begun THEN [NoDir EXCEPT !.kind = "legacy", !.header = TRUE] ELSE NoDir]
    /\ object = [e \in LegacyEntries |-> "none"]
    /\ old = Resting /\ mig = NotMigrating /\ opened = FALSE
    /\ promised = [s \in LegacySessions |-> {}]
    /\ firm = [s \in LegacySessions |-> Unknown]
    /\ damaged = FALSE
    /\ spent = [records |-> 0, kills |-> 0, faults |-> 0, writes |-> 0]

-----------------------------------------------------------------------------
(* legacyReconcile: a session as its journal records and its files say.    *)

\* sessionState: what the journal says since the session's last create or
\* delete.
Boundary(scan, s) ==
    LET at == {i \in DOMAIN scan : scan[i].s = s /\ scan[i].op \in {"create", "delete"}}
    IN IF at = {} THEN 0 ELSE CHOOSE i \in at : \A j \in at : j <= i
StateRecs(scan, s) ==
    SelectSeq(SubSeq(scan, Boundary(scan, s) + 1, Len(scan)), LAMBDA r : r.s = s)
Mentioned(scan, s) == \E i \in DOMAIN scan : scan[i].s = s
SaysDeleted(scan, s) == Boundary(scan, s) # 0 /\ scan[Boundary(scan, s)].op = "delete"
SaysCreated(scan, s) == Boundary(scan, s) # 0 /\ scan[Boundary(scan, s)].op = "create"

Highest(S) == IF S = {} THEN 0 ELSE CHOOSE i \in S : \A j \in S : j <= i

\* Where a lost record last names e: an append before it is gone.
GoneAt(recs, e, i) ==
    Highest({j \in DOMAIN recs : recs[j].op = "lost" /\ recs[j].e = e}) > i
SyncedTo(recs) == Highest({i \in DOMAIN recs : recs[i].op = "sync"})

\* The first lazy append, past the last sync, whose object a crash took.
CutAt(recs) ==
    LET at == {i \in DOMAIN recs :
                 /\ recs[i].op = "append" /\ ~GoneAt(recs, recs[i].e, i)
                 /\ recs[i].lazy /\ i > SyncedTo(recs) /\ object[recs[i].e] = "none"}
    IN IF at = {} THEN Len(recs) + 1 ELSE CHOOSE i \in at : \A j \in at : i <= j

AppendsKept(recs) ==
    {i \in DOMAIN recs : recs[i].op = "append" /\ i < CutAt(recs) /\ ~GoneAt(recs, recs[i].e, i)}

\* adopt: the lazy appends that survived, in any order.
Adopted(s, scan) ==
    LET recs == StateRecs(scan, s) IN
    SetToSeq({recs[i].e : i \in {j \in AppendsKept(recs) : recs[j].lazy /\ j > SyncedTo(recs)}})

\* The elements of seq at the places in S.
InOrder(seq, S) ==
    [k \in 1..Cardinality(S) |-> seq[CHOOSE i \in S : Cardinality({j \in S : j <= i}) = k]]

\* The entries appended at the places in kept, each where it is first.
FirstAppends(recs, kept) ==
    InOrder([i \in DOMAIN recs |-> recs[i].e],
            {i \in kept : \A j \in kept : j < i => recs[j].e # recs[i].e})

\* jEntries: what the journal says the log holds, in its order.
JournalLog(recs) == FirstAppends(recs, AppendsKept(recs))

\* lost: appended, cut or recorded lost, and not appended again.
JournalLost(recs) ==
    {recs[i].e : i \in {j \in DOMAIN recs : recs[j].op = "append"} \ AppendsKept(recs)}
        \ ToSet(JournalLog(recs))

\* The last head the journal names, of an append kept, a head move or a
\* settled record.
HeadRecs(recs) ==
    {i \in DOMAIN recs : i < CutAt(recs) /\
        \/ i \in AppendsKept(recs)
        \/ recs[i].op = "head" /\ ~GoneAt(recs, recs[i].e, i)
        \/ recs[i].op = "settled"}

\* A log line stands if the journal has it, or it is one of those settled
\* before the journal held anything of the session, or its object is held.
SettledTo(recs, created) ==
    LET at == Highest({i \in DOMAIN recs : recs[i].op = "settled"})
    IN IF created \/ at = 0 THEN 0 ELSE recs[at].n

\* readLegacyLog: a line of this release's log is no hash, and is passed over.
LegacyLines(s) == IF dir[s].kind = "legacy" THEN dir[s].log ELSE <<>>
LegacyFiles(s) == [log |-> LegacyLines(s), head |-> dir[s].head]

Merged(files, jlog) == files \o SelectSeq(jlog, LAMBDA e : e \notin ToSet(files))

\* What the journal says of the session: its log, what was lost, and where it
\* names a head.
JournalSays(recs) ==
    [log   |-> JournalLog(recs), lost |-> JournalLost(recs),
     heads |-> [i \in HeadRecs(recs) |-> recs[i].e]]

\* The lines that stand, in their order, and behind them what only the
\* journal holds; the head the journal names last, or the files' where they
\* hold what it does not, and never one that went.
Reconcile(d, j, settled) ==
    LET lines == {i \in DOMAIN d.log :
                    /\ d.log[i] \notin j.lost
                    /\ d.log[i] \in ToSet(j.log) \/ i <= settled \/ object[d.log[i]] # "none"}
        odd   == \E i \in lines : i > settled /\ d.log[i] \notin ToSet(j.log)
        log   == Merged(InOrder(d.log, lines), j.log)
        gone  == j.lost \cup (ToSet(d.log) \ ToSet(log))
        jhead == IF j.heads = <<>> THEN NoHead ELSE j.heads[Highest(DOMAIN j.heads)]
        taken == IF j.heads # <<>> /\ ~(odd /\ d.head \in ToSet(log)) THEN jhead ELSE d.head
    IN [log |-> log, head |-> IF taken \in gone THEN jhead ELSE taken]

Reconciled(s, scan) ==
    IF ~Mentioned(scan, s) THEN LegacyFiles(s)
    ELSE Reconcile(LegacyFiles(s), JournalSays(StateRecs(scan, s)),
                   SettledTo(StateRecs(scan, s), SaysCreated(scan, s)))

\* Deleted, as a journal that can vouch for it says: one with damage, or with
\* records after the delete, leaves the session to its own files.
VouchesForDelete(s, scan) ==
    /\ SaysDeleted(scan, s)
    /\ ~((\E i \in DOMAIN scan : scan[i].op = "damage") \/ StateRecs(scan, s) # <<>>) \/ ~dir[s].header

\* What migrateSession makes of the session, and what the earlier release's
\* recovery would: gone, or its log and head.
Absent == [log |-> <<>>, head |-> NoHead, here |-> FALSE]
Here(v) == [log |-> v.log, head |-> v.head, here |-> TRUE]
LegacyView(s, scan) ==
    IF VouchesForDelete(s, scan) \/ ~dir[s].header THEN Absent
    ELSE Here(Reconciled(s, IF SaysDeleted(scan, s) THEN <<>> ELSE scan))

\* The session as the next open finds it.
Opens(s) ==
    CASE dir[s].kind = "none"   -> Absent
      [] dir[s].kind = "legacy" -> LegacyView(s, journal)
      [] OTHER -> Here(dir[s])

-----------------------------------------------------------------------------
(* The earlier release's writer: one session at a time under its lock, the *)
(* sweep's lock shared from an append's objects through its commit.        *)

OldAt(at) == old.at = at
Locked(s) == old.s = s \/ mig.at = "go"
SweepLocked == mig.at # "idle"
Recorded(n) == spent.records + n <= MaxRecords /\ spent' = [spent EXCEPT !.records = @ + n]

\* The sweep's lock, shared.
MayGuard == ~SweepLocked

\* The objects of a log made durable.
Settle(log) ==
    [e \in LegacyEntries |-> IF e \in ToSet(log) /\ object[e] = "lazy" THEN "durable" ELSE object[e]]

\* The recovery of a session found as v brings its files up to the journal,
\* and records what it lost; one a compaction dropped begins with a settled
\* record.
OldRecover(s, v, lost) ==
    /\ v.here
    /\ dir' = [dir EXCEPT ![s].log = v.log, ![s].head = v.head]
    /\ object' = Settle(v.log)
    /\ journal' = journal
         \o (IF Mentioned(journal, s) THEN <<>>
             ELSE <<[JournalRec("settled", s, dir[s].head, FALSE) EXCEPT !.n = Len(dir[s].log)]>>)
         \o [i \in DOMAIN lost |-> JournalRec("lost", s, lost[i], FALSE)]
    /\ journal' # journal => ~retired /\ MayGuard

OldOpen(s) ==
    /\ OldAt("idle") /\ old.s = Nobody /\ ~Locked(s) /\ dir[s].kind = "legacy"
    /\ OldRecover(s, Opens(s),
         SetToSeq(JournalLost(StateRecs(journal, s))
           \ {r.e : r \in {journal[i] : i \in {j \in DOMAIN journal : journal[j].op = "lost"}}}))
    /\ Recorded(Len(journal') - Len(journal))
    /\ old' = [old EXCEPT !.s = s]
    /\ UNCHANGED <<retired, mig, opened, promised, firm, damaged>>

\* The session's directory and its journal record; killed between them, a
\* directory without a header.
OldCreate(s) ==
    /\ OldAt("idle") /\ old.s = Nobody /\ ~Locked(s) /\ dir[s].kind = "none" /\ MayGuard
    /\ ~retired /\ Recorded(1)
    /\ \/ /\ dir' = [dir EXCEPT ![s] = [NoDir EXCEPT !.kind = "legacy", !.header = TRUE]]
          /\ journal' = Append(journal, JournalRec("create", s, NoHead, FALSE))
          /\ firm' = [firm EXCEPT ![s] = [known |-> TRUE, head |-> NoHead]]
       \/ /\ dir' = [dir EXCEPT ![s] = [NoDir EXCEPT !.kind = "legacy"]]
          /\ UNCHANGED <<journal, firm>>
    /\ UNCHANGED <<retired, object, old, mig, opened, promised, damaged>>

\* A commit begins: its object is written under the guard, a durable one
\* behind those of the lazy appends before it.
OldBegin(op, e, lazy) ==
    /\ OldAt("idle") /\ old.s # Nobody /\ MayGuard /\ Recorded(1)
    /\ op = "append" => e \in MayHold[old.s] \ ToSet(dir[old.s].log)
    /\ op = "head" => e \in ToSet(dir[old.s].log) \ {dir[old.s].head}
    /\ object' = IF op # "append" THEN object
                 ELSE IF ~lazy THEN [Settle(dir[old.s].log) EXCEPT ![e] = "durable"]
                 ELSE IF object[e] = "durable" THEN object ELSE [object EXCEPT ![e] = "lazy"]
    /\ old' = [old EXCEPT !.at = "commit", !.guard = TRUE, !.rec = <<JournalRec(op, old.s, e, lazy)>>]
    /\ UNCHANGED <<journal, retired, dir, mig, opened, promised, firm, damaged>>

\* It is in the journal, and acknowledged; through the tombstone it fails.
OldCommit ==
    LET r == old.rec[1]
        s == old.s
        syncs == r.op = "sync"
    IN
    /\ OldAt("commit")
    /\ IF retired
       THEN /\ old' = [old EXCEPT !.at = "idle", !.guard = FALSE, !.rec = <<>>]
            /\ UNCHANGED <<journal, object, promised, firm>>
       ELSE /\ journal' = Append(journal, r)
            /\ old' = [old EXCEPT !.at = "files", !.guard = FALSE]
            /\ object' = IF syncs THEN Settle(dir[s].log) ELSE object
            /\ promised' = [promised EXCEPT ![s] =
                    CASE r.op = "delete" -> {}
                      [] r.op = "append" /\ ~r.lazy -> @ \cup {r.e} \cup ToSet(dir[s].log)
                      [] syncs -> @ \cup ToSet(dir[s].log)
                      [] OTHER -> @]
            /\ firm' = [firm EXCEPT ![s] =
                    CASE r.op = "delete" \/ r.lazy -> Unknown
                      [] r.op \in {"append", "head"} /\ @.known -> [@ EXCEPT !.head = r.e]
                      [] OTHER -> @]
    /\ UNCHANGED <<retired, dir, mig, opened, damaged, spent>>

\* The session's own files follow.
OldFiles ==
    LET r == old.rec[1]
        s == old.s
    IN
    /\ OldAt("files")
    /\ dir' = [dir EXCEPT ![s] =
            CASE r.op = "append" -> [@ EXCEPT !.log = Append(@, r.e), !.head = r.e]
              [] r.op = "head"   -> [@ EXCEPT !.head = r.e]
              [] r.op = "delete" -> NoDir
              [] OTHER -> @]
    /\ old' = IF r.op = "delete" THEN Resting ELSE [old EXCEPT !.at = "idle", !.rec = <<>>]
    /\ UNCHANGED <<journal, retired, object, mig, opened, promised, firm, damaged, spent>>

OldRelease ==
    /\ OldAt("idle") /\ old.s # Nobody /\ old' = Resting
    /\ UNCHANGED <<journal, retired, dir, object, mig, opened, promised, firm, damaged, spent>>

\* A compaction of the journal drops a session its files are up to date with.
OldCompacts(s, v) ==
    /\ v.here /\ \A e \in ToSet(v.log) : object[e] = "durable"
    /\ dir' = [dir EXCEPT ![s].log = v.log, ![s].head = v.head]

OldCompact(s) ==
    /\ old = Resting /\ ~retired /\ ~SweepLocked /\ Mentioned(journal, s)
    /\ OldCompacts(s, Opens(s))
    /\ journal' = SelectSeq(journal, LAMBDA r : r.s # s)
    /\ UNCHANGED <<retired, object, old, mig, opened, promised, firm, damaged, spent>>

-----------------------------------------------------------------------------
(* The migration.                                                          *)

\* Mutant: a session this release has rewritten is migrated again.
UnmigratedAny(s) == dir[s].kind # "none"

\* unmigrated: no line of the log opens as a record of this release.
Unmigrated(s) == dir[s].kind = "legacy"

\* The gc lock, and the sweep's exclusive, behind every commit under way;
\* readJournal, and which sessions are still to migrate.
MigStart ==
    /\ mig.at = "idle" /\ ~retired /\ ~old.guard /\ ~opened
    /\ mig' = [at |-> "lock", scan |-> journal, todo |-> {s \in LegacySessions : Unmigrated(s)}, failed |-> FALSE]
    /\ UNCHANGED <<journal, retired, dir, object, old, opened, promised, firm, damaged, spent>>

\* Every such session is locked, or a writer has one and the open fails.
MigLock ==
    /\ mig.at = "lock"
    /\ mig' = IF old.s \in mig.todo THEN NotMigrating ELSE [mig EXCEPT !.at = "go"]
    /\ UNCHANGED <<journal, retired, dir, object, old, opened, promised, firm, damaged, spent>>

\* discard: renamed into the trash.
Discarded == NoDir

\* The records the recovered state comes to, in the log's place, and HEAD.
Rewritten(v) == [kind |-> "new", header |-> TRUE, log |-> v.log, head |-> v.head]

\* migrateSession: discarded, or its lazy objects made durable and its log
\* written in one rename; or it fails and is left as it was.
MigrateAs(s, v) ==
    /\ \/ /\ dir' = [dir EXCEPT ![s] = IF v.here THEN Rewritten(v) ELSE Discarded]
          /\ object' = IF v.here THEN Settle(Adopted(s, mig.scan)) ELSE object
          /\ mig' = [mig EXCEPT !.todo = @ \ {s}]
          /\ UNCHANGED spent
       \/ /\ spent.faults < MaxLost /\ spent' = [spent EXCEPT !.faults = @ + 1]
          /\ mig' = [mig EXCEPT !.todo = @ \ {s}, !.failed = TRUE]
          /\ UNCHANGED <<dir, object>>

MigSession(s) ==
    /\ mig.at = "go" /\ s \in mig.todo
    /\ MigrateAs(s, LegacyView(s, mig.scan))
    /\ UNCHANGED <<journal, retired, old, opened, promised, firm, damaged>>

\* With a session that failed the journal stays; otherwise the layout is
\* written, a damaged journal kept aside, and the tombstone renamed over it.
MigEnd ==
    /\ mig.at = "go" /\ mig.todo = {}
    /\ retired' = ~mig.failed /\ mig' = NotMigrating /\ opened' = TRUE
    /\ UNCHANGED <<journal, dir, object, old, promised, firm, damaged, spent>>

-----------------------------------------------------------------------------
(* This release's writes, in sessions of its own layout.                   *)
NewWrites == opened /\ spent.writes < MaxNew /\ spent' = [spent EXCEPT !.writes = @ + 1]

NewAppend(s, e) ==
    /\ NewWrites /\ dir[s].kind = "new" /\ ~Locked(s) /\ e \in MayHold[s] \ ToSet(dir[s].log)
    /\ dir' = [dir EXCEPT ![s].log = Append(@, e), ![s].head = e]
    /\ object' = [object EXCEPT ![e] = "durable"]
    /\ promised' = [promised EXCEPT ![s] = @ \cup {e}]
    /\ firm' = [firm EXCEPT ![s] = [known |-> TRUE, head |-> e]]
    /\ UNCHANGED <<journal, retired, old, mig, opened, damaged>>

NewDelete(s) ==
    /\ NewWrites /\ dir[s].kind = "new" /\ ~Locked(s)
    /\ dir' = [dir EXCEPT ![s] = NoDir]
    /\ promised' = [promised EXCEPT ![s] = {}] /\ firm' = [firm EXCEPT ![s] = Unknown]
    /\ UNCHANGED <<journal, retired, object, old, mig, opened, damaged>>

NewCreate(s) ==
    /\ NewWrites /\ dir[s].kind = "none" /\ ~Locked(s)
    /\ dir' = [dir EXCEPT ![s] = [NoDir EXCEPT !.kind = "new", !.header = TRUE]]
    /\ firm' = [firm EXCEPT ![s] = [known |-> TRUE, head |-> NoHead]]
    /\ UNCHANGED <<journal, retired, object, old, mig, opened, promised, damaged>>

-----------------------------------------------------------------------------
(* Faults.                                                                 *)
Spend == spent.kills < MaxKills /\ spent' = [spent EXCEPT !.kills = @ + 1]

KillOld ==
    /\ old # Resting /\ Spend /\ old' = Resting
    /\ UNCHANGED <<journal, retired, dir, object, mig, opened, promised, firm, damaged>>

KillMigration ==
    /\ (mig.at # "idle" \/ opened) /\ Spend /\ mig' = NotMigrating /\ opened' = FALSE
    /\ UNCHANGED <<journal, retired, dir, object, old, promised, firm, damaged>>

\* What was lazy may be gone: objects, and records at the journal's end.
LegacyPowerLoss ==
    LET tail == Len(journal) > 0 /\ journal[Len(journal)].lazy IN
    /\ mig.at = "idle" /\ Spend
    /\ old' = Resting /\ mig' = NotMigrating /\ opened' = FALSE
    /\ \E gone \in SUBSET {e \in LegacyEntries : object[e] = "lazy"} :
         object' = [e \in LegacyEntries |-> CASE e \in gone -> "none"
                                              [] object[e] = "lazy" -> "durable"
                                              [] OTHER -> object[e]]
    /\ \E cut \in {FALSE, tail} : journal' = IF cut THEN Front(journal) ELSE journal
    /\ UNCHANGED <<retired, dir, promised, firm, damaged>>

\* A line of the journal fails its checksum.
Damage(i) ==
    /\ ~damaged /\ spent.faults < MaxLost /\ mig.at = "idle" /\ old = Resting /\ ~retired
    /\ spent' = [spent EXCEPT !.faults = @ + 1]
    /\ journal' = [journal EXCEPT ![i] = JournalRec("damage", Nobody, NoHead, FALSE)]
    /\ damaged' = TRUE
    /\ UNCHANGED <<retired, dir, object, old, mig, opened, promised, firm>>

-----------------------------------------------------------------------------
OldNext ==
    \/ \E s \in LegacySessions : OldOpen(s) \/ OldCreate(s) \/ OldCompact(s)
    \/ \E e \in LegacyEntries, lazy \in BOOLEAN : OldBegin("append", e, lazy)
    \/ \E e \in LegacyEntries : OldBegin("head", e, FALSE)
    \/ OldBegin("sync", NoHead, FALSE) \/ OldBegin("delete", NoHead, FALSE)
    \/ OldCommit \/ OldFiles \/ OldRelease

MigNext ==
    \/ OldNext
    \/ MigStart \/ MigLock \/ MigEnd \/ \E s \in LegacySessions : MigSession(s)
    \/ \E s \in LegacySessions : NewDelete(s) \/ NewCreate(s) \/ \E e \in LegacyEntries : NewAppend(s, e)
    \/ KillOld \/ KillMigration \/ LegacyPowerLoss \/ \E i \in DOMAIN journal : Damage(i)

-----------------------------------------------------------------------------
(* Properties.                                                             *)

\* What was acknowledged as durable, by either release, is in the session the
\* next open finds, at every step of a migration and after every kill of it;
\* a damaged journal line costs what no file of the session holds, and more
\* only where the journal holds a lazy append.
MigrationKeepsPromised ==
    \A s \in LegacySessions : \A e \in promised[s] :
        \/ e \in ToSet(Opens(s).log)
        \/ /\ damaged
           /\ \/ e \notin ToSet(dir[s].log)
              \/ \E i \in DOMAIN journal : journal[i].lazy

\* A head every acknowledged write made durable is the head the next open
\* finds.
MigrationKeepsHead ==
    \A s \in LegacySessions :
        firm[s].known /\ ~damaged /\ old = Resting => Opens(s).here /\ Opens(s).head = firm[s].head

\* A log the migration wrote, from a journal with no damage, names only
\* entries whose objects are durable, and its head is one of them.
MigratedIsWhole ==
    \A s \in LegacySessions : dir[s].kind = "new" /\ ~damaged =>
        /\ \A e \in ToSet(dir[s].log) : object[e] = "durable"
        /\ dir[s].head \in ToSet(dir[s].log) \cup {NoHead}

\* Nothing still legacy is left behind the tombstone: its journal is gone.
TombstoneIsLast == retired => \A s \in LegacySessions : dir[s].kind # "legacy"

\* Wherever a migration stops, the next open finds the entries and the head
\* that were acknowledged, in a log whose objects are durable, and nothing
\* stays in the old layout once the tombstone says it is done (migrate,
\* migrateSession).
MigrationIsSafe ==
  /\ MigrationKeepsPromised /\ MigrationKeepsHead /\ MigratedIsWhole
  /\ TombstoneIsLast

=============================================================================
