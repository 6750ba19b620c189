# A TLA+ model of agentsession

agentsession keeps the sessions of coding agents: trees of entries, each named
by the hash of what it says, in stores that several programs read, write,
follow and exchange. This directory models the parts of it whose correctness
depends on crashes, on delayed messages and on the order in which several
actors take their steps, checks the models with TLC on small instances, and
proves with TLAPS what matters most for every instance.

## The system

| Part | State it keeps | Operations | Talks to | What is hard |
|---|---|---|---|---|
| Session (`session.go`, `entry.go`) | a tree of entries, a leaf, the reader's leaf state | Append, Branch, Fork, Extend | every store holds one per open session | what an append makes of the leaf; which entries an append may follow |
| Calls and runs (`run.go`, `lifecycle.go`) | none: computed from a path | Calls, Runs, Queued, EndRun, VerifyRecords | harnesses | a harness killed between a hand-off and its result; rewinds and forks |
| Context (`context.go`, `record.go`) | none: computed from a path | Apply, InstructionsDelta, OmitDelta, BuildContext, SetRequestHash | harnesses | deltas over long histories; compactions of compactions |
| In-memory store (`store.go`) | sessions, refs, blobs | Create, Open, Append, Delete, UpdateRef, blobs | the reference for the others | a lock let go for a callback |
| cas: session log (`cas/cas.go`, `sessionlog.go`, `records.go`, `objects.go`) | a log per session, loose objects, a handle per held session | Create, Open, Write, SetHead, DeclareRecord, Sync, Release, recovery | the file system | crashes, failed fsyncs, torn and reordered blocks, objects shared by sessions |
| cas: sweep, packs (`sweep.go`, `pack.go`) | packs, loose objects, media types | Sweep, Pack | every writer of the directory | removing what a concurrent writer is about to name |
| cas: locks (`lock_unix.go`) | three flocks | lockShared, lockExclusive | processes | a sweep that never gets the lock; a stopped holder |
| cas: refs (`refs.go`) | a file and a log per ref | UpdateRef, ResolveRef | sessions, sweep | a crash between the log and the file; readers without a lock |
| cas: exchange (`exchange.go`, `protocol.go`) | record and mirror marks | Push, Fetch, handover, TakeBack | other stores, a server | one writable record among several copies |
| cas: migration, repair (`migrate.go`, `repair.go`) | an older layout; a damaged log | migrate, Repair | the file system | kills half way; what damage left legible |
| jsonl, sqlite stores | a file or rows per session, locks, blobs | as the store interface | file system, database | lock files of dead processes; cached sessions that outlive their hold |
| Following (`follow.go`, `internal/follow`, the stores' `follow.go`) | a cursor and a session per follower | Load, Tail | stores | logs cut back, replaced and grown again |
| remote: writes (`lease.go`, `write.go`) | a lease and a last token per session, kept answers | acquire, renew, release, break, create, append, delete | a store, clients, the network | late, lost and repeated requests; timers; restarts |
| remote: client (`clientwrite.go`) | holdings, a session and a head per holding, two kinds of lock | Create, Write, SetHead, Release, Close | the server | calls made at once; lost answers |
| remote: following (`hub.go`, `client.go`, `replica.go`) | a replica, a replay buffer, subscribers | attach, publish, detach | the store's follow, HTTP streams | events missed or repeated around a reconnect |
| JSON, exports, redaction, rewrites, command line | none | conversions | | bytes; tested by the repository's fuzz tests |

What makes each part correct, in short: a store never loses what it
acknowledged and never shows a session nobody wrote; a session has one writer at
a time, and a writer that lost its place changes nothing; a sweep removes nothing
that is named; a follower comes to hold what the store holds; of several copies
one is the record; what a record says of a call is true of its tool.

## Modules

| Module | Models | Run |
|---|---|---|
| `CasLog`, `CasLogInv`, `CasLogProofs`, `MCCasLog` | `cas/`: a session's log, its objects, the handle, appendRecords step by step, fsyncs, kills, power losses, recovery; the inductive invariants; proofs | `crash`, `fsync` |
| `Migrate`, `Repair` | `cas/migrate.go`: the move off an earlier release's journal; `cas/repair.go`: the repair of a damaged log | `refs`, `stores` |
| `Sweep`, `SweepProofs`, `MCSweep` | `cas/sweep.go`, `pack.go`: the sweep of a content store against its writers; proofs | `sweep` |
| `BlobStore` | the sidecar blobs of the other stores and their sweep; its proofs are in `SweepProofs` | `sweep` |
| `Turnstile`, `RemoteClient`, `RemoteClientProofs`, `MCLocks` | `cas/lock_unix.go`; `remote/clientwrite.go` with the client's locks; proofs about the client | `locks` |
| `Refs`, `RefStore`, `RefProofs`, `MCRefStore` | what a store promises of refs; how the four stores keep them; proofs, the refinement among them | `refs` |
| `Exchange`, `ExchangeProofs`, `MCExchange` | `cas/exchange.go`, `protocol.go` and the remote side of them; proofs | `exchange` |
| `SessionTree` | `session.go`: the tree, the leaf, the reader's leaf rule, as values | `stores` |
| `JsonlStore`, `SqliteStore`, `StoreProofs`, `MCStores` | the two stores that keep a session as lines; proofs about both, `ForkOrigin` and `Repair` | `stores` |
| `SessionCalls`, `SessionRecord`, `RecordProofs`, `MCSessionRecord` | `run.go`, `lifecycle.go` and the append rules of `session.go`; a harness that uses them; proofs | `calls` |
| `ForkOrigin` | which held session a fork continues from (`internal/origin` and the stores' use of it) | `calls` |
| `SessionContext`, `ContextRecord`, `MCContextRecord` | `context.go`, `record.go`; a writer that uses them | `context` |
| `Follow`, `MCFollow` | `internal/follow`, the stores' `follow.go`, `remote/hub.go`, `replica.go` | `follow` |
| `RemoteLease`, `RemoteLeaseInv`, `RemoteLeaseProofs`, `MCRemoteLease` | `remote/`: the handler's leases, tokens, kept answers and the store's holds; the clients; the network, time and restarts; inductive invariants; proofs | `lease`, `lease_expiry` |

Where one run checks two modules, its MC module has a variable `part` that says
which of the two a behaviour is of; the other module's variables do not change.

### CasLog

`log[s]` is the session's log file, a sequence of records. Each record, and each
object in `obj`, says where its bytes are: `dirty` in the page cache, on `disk`,
or `lost`, in the page cache but marked clean by an fsync that failed, so a read
returns it and no later fsync writes it. `handle[s]` is the session as the
process holds it (its entries, head, mark and the objects it owes an fsync),
`call[s]` the call in progress, at the step of `appendRecords` it has reached:
flush the owed objects, write the records, fsync the log, and, when that fails,
cut the records back. `wrote` is the set of files this process wrote, which it
may commit without writing again, and `stopped` that an fsync failed.

`reconcile` is the reader: it stops at an unwritten block or at a lazy append
whose objects are gone, drops what a `lost` record names, and gives the session's
entries, head and mark. Recovery (`Open`, `RecoverObjects`, `RecoverLog`) rewrites
the log as a new file when something was dropped, adopted or torn, which is
exactly when the code does (`recoverSession`).

`Kill` ends the process at any of the steps in `KillPoints`. `PowerLoss` also
takes the page cache: any set of records that were not on disk may be left as
unwritten blocks, any suffix may be gone, and any object that was not on disk may
be absent or torn. `acked` and `served` are history: what callers were told.

Objects are model values and an entry names a fixed set of them; a pack is an
object on disk; the directory's fsyncs are part of an object's; HEAD and index
files are recomputed from the log and left out. Sessions exist from the start, and
a truncate that fails after a failed fsync is left out.

### Migrate and Repair

`Migrate`: an earlier release committed through one journal and wrote each
session's files after it. The first writing open reads the journal, settles each
session (`Reconciled` is `legacyReconcile`), rewrites its log and puts a tombstone
in the journal's place. Kills between any two steps, a session that fails, a
damaged journal line and a writer of that release that is still running are
actions. That release is not in the repository; its writer is external.

`Repair`: a writer fills a log, losing lazy entries to crashes; one line is then
damaged, in its op, a hash or elsewhere; `Planned` is `planRepair` (salvage of spelled hashes,
hidden parents, losses by position, the head and whether it is vouched for), and
the steps after it flush, copy the damaged log aside, fsync the directory and rename.

### Sweep, BlobStore, Turnstile

`Sweep` has a step for each stage of `Store.Sweep` (keep set, loose scan, repack,
lock, second look and rescue, removal of packs, of duplicates, of media types) and
of each writer that shares the directory: appends with freshening, forks that freshen their
base's path entry by entry, pins by a ref, blob puts, deletions, commits that pack. A behaviour
begins in a store at rest (`StartsAssumption`). `BlobStore` is the counterpart for the
stores with sidecar blobs: the jsonl store's calls are series of file steps under
the media guard, with kills and a power loss; SQLite's and the memory store's are
one step each. A call is assumed to last no longer than the grace. `Turnstile` is
the protocol of the three flocks, with holders that may be stopped.

### Refs and RefStore

`Refs` is the abstract specification: each name holds one target or none, an
update moves one name in one step, and only an update nobody was told of may be
taken back. `RefStore` has the cas layout (a file and a log per name), the jsonl one
(one document, one log) and the atomic one (memory, SQLite), with lock-free readers,
failures of each write, kills and a power loss; `Implements` is `Refs!Spec` under
the mapping of `refs` to what the store would resolve now. The run has one fault per
behaviour; the model and the proofs have any number of failures and kills, or one power loss
with none before it.
`Current` is what a read may answer: once something has failed, also what the file holds (see the
disagreements).

### SessionTree, JsonlStore, SqliteStore

`SessionTree` gives the session as a value: Append, Branch, Extend (a follower's
append) and the reader's leaf rule both as it is kept entry by entry and as a whole file
is read. `JsonlStore` is one session's file with its lock file: creation, takeover of
stale locks under the guard, opening with trimming of a torn tail, appends with the
leaf label that keeps the head over a branch, head moves, syncs, deletion,
kills and power loss. `SqliteStore` has the same calls as transactions over rows and a
holder's row, with failed transactions, breaks, and a cached session per process.

### SessionCalls, SessionRecord, ForkOrigin

`SessionCalls` folds a path into its calls, runs and queued inputs and states the
rules of `checkCallRules`; `SessionRecord` is a harness that appends anything the rules let
in, at any leaf, with rewinds, forks and crashes, and runs tools only after their dispatch is
on record where the header promises it.

`checkCallRules` (`session.go:787-796`) does not hold an output to that promise: it admits one of a
call that was never handed off, answered or rejected, which `VerifyRecords` then reports as
`ErrRecordMissing` (`run.go:1160`). So it is the harness that keeps it: `Output` waits for the
call's record (`Recorded`), except under an agenda with `"unrecorded"`, where it writes outputs the
rules let in and the promise forbids. `RecordMissing` and `AnswerNotDispatched` are the two rules
`VerifyRecords` rests on the promise; the others are the names in a call's `faults`. `ForkOrigin` is one create with a base, over
sessions that come and go, with the lock let go while the caller's read check runs.

### SessionContext, ContextRecord

`SessionContext` has both directions of a settings delta (`InstructionsDelta`,
`OmittedDelta`, `OmitDelta`; `Apply`), the compaction's checkpoint and window, and the context and
request a path stands for. `ContextRecord` is a writer that only says what it wants in
force, with responses recorded output by output, attempts that stop half way, and
compactions over compactions.

### Exchange, Follow, RemoteClient

`Exchange` has two local stores and a server; a push asks what is
missing, uploads it, is received and, in a handover, clears the sender's mark; a fetch reads and receives; TakeBack fetches, hands over and declares.
Each is a step under one store's lock of the session, with writers, deletions, lapsed uploads
and abandoned exchanges between. `Follow` has a writer, the hub's follower, its
replica and ring, and a client, over the cursor of each of the four stores. `RemoteClient`
has goroutines calling one client, `holdMu` and each holding's `mu`, and requests
that fail before or after the server acts; a write that failed may be made again with its
entry. Two members of a holding are history: `behind`, an answer that told of the head was
lost, and `stirred`, the caller moved the session's leaf while a call had the lock.

### RemoteLease

`held[s]` is the handler's write state of a session ID: the lease, the last token
and the store's session. `store[s]` is the store underneath, of which the model
keeps whether the session exists, who holds it, a number for the session in memory,
the entries and whose header it has. Every handler runs under its session's lock
and is one action; only `create` reads its Idempotency-Key before the lock, and
is two. `net` and `answers` are sets, so requests are delivered in any order and at
any time; a client may stop waiting for any of them (`GiveUp`), and the HTTP
transport may send again a request that has a key. A timer firing and the call it
starts are two steps, so a renewal or another lease may come between.

`Restart` loses leases, tokens and kept answers, and happens at a time later than
any token issued: the code says it relies on the clock for that (`nextToken`).
The clients and the server read one clock; the network's delay is what separates
them.

## Runs

A property that is a conjunction is named for what its parts say together; each
part has its own definition and comment in the module.

| Run | Properties | Shows |
|---|---|---|
| `crash` | `TypeOK`, `SurvivesCrashes`, `HandleFollowsLog` | One session with a leaf label, kills at every step and power losses, fsyncs that work: every acknowledged entry survives, a recovery finds a well-formed session, and between calls the handle says what the log says. |
| `fsync` | `RecoveryInv`, `SurvivesFailures` | Two sessions that share objects, any fsync of which may fail: the inductive invariant holds, neither commit rests on the other's fsync, what was served survives, and a recovery finds a state some call left. |
| `sweep` | `SweepInv`, `GarbageGoes`, `TypedStaysTyped`, `BlobsKept`, `FirstTypeStays` | Nothing named is taken by a sweep, however its steps and the writers' interleave, and a sweep alone takes all that is garbage; in the other stores a blob named while held stays, a put lasts its grace, and types stay with what they were given. |
| `locks` | `ClientInStep`, `WaitsEnd`, `HeadIsLeaf`, `TurnstilePasses` | Calls made at once on one client keep its session and head in step with the server and wait on one another for ever only where Create crosses a drop; at the turnstile neither the sweep nor the writers wait for ever. |
| `refs` | `RefsAccountedFor`, `Implements`, `MigrationIsSafe` | In every store an update is one step of one ref, and what was answered is never taken back; a reader without a lock gets a target the ref held. A migration, cut off at every step, keeps what was promised. |
| `exchange` | `CopiesAreSessions`, `OneRecord` | Three pushes, fetches, handovers and takes back, two at a time: every copy is a session with one entry per call, some store stays the record, and the record holds every mirror's head. |
| `stores` | `OneWriter`, `FileKeepsTheSession`, `RowsKeepTheSession`, `RepairIsSafe`, `DamagedLogKept` | Two processes take the lock from one another, write, branch, delete and are killed: one writes at a time, what was answered stays, and whoever opens the session next finds the head its writer left. A repair, cut off at every step, keeps what is legible, and a damaged log is replaced only once its copy would survive. |
| `calls` | `CallsInv`, `CallsTold`, `RunsTold`, `OriginsRight`, `ForkIsOfAHeldOrigin` | What the append rules let in verifies call by call on every path, and the rule they do not enforce (`ErrRecordMissing`) does where the harness keeps its promise; a call said never to have started has not run; a run's end names what is pending; a queued input is drained once. A fork's origin is picked by the readable sessions alone. |
| `context` | `ContextInv`, `RequestsRebuild`, `CompactionKeeps` | The settings replayed are the settings wanted, every recorded request is rebuilt, and a compaction changes nothing but what its summary stands for. |
| `follow` | `FollowersAgree`, `CatchesUp` | The hub and a client at rest hold what the store holds, through cuts, replays, resets, cut-back appends, replaced logs and a restart; a client that keeps its follow comes to rest time and again. |
| `lease` | `TypeOK`, `OneBeliever`, `LeaseIsTheHold`, `LandsInLeaseOrder` | With delayed writes and deletes, breaks and a restart, writes land in the order of the leases they were made under, a lease stands on the store's hold, and a client stops writing before the server can have given its lease away. |
| `lease_expiry` | `LeaseIsTheHold`, `ExpiredLeasesEnd` | A lease past its time is ended by its timer although renewals race it; the hold follows the lease through creations, deletions and another process's holds. |

### Bounds

* `crash`, `fsync`: two entries, one hanging from the other, show every dependency
  between appends (a parent, a shared object, a working entry under a durable one); with
  a third, the leaf label, heads move elsewhere than to the last append. `MaxLog` 5
  holds a creation, two appends, a sync or a head move, and a loss; with two sessions
  3 holds each one's creation, append and a sync around the object both name. Two
  crashes are enough for a crash during the recovery from a crash. In `fsync` no process
  dies between a log write and its fsync's outcome (see the disagreements).
* `sweep`: two entries, of which one has a blob; three operations of two writers around one
  sweep, so that one may be before, one during and one after each of its steps. Blobs: one
  blob, since blobs do not interact; two sessions; two calls beside one sweep; two
  grace periods; one cut.
* `locks`: three calls of two goroutines with two faults; two writers and a sweep that
  comes again and again.
* `refs`: three updates of two names one of which is under the other, a reader, one fault. Migration:
  two legacy entries and two sessions, one already begun, four journal records, one kill, one
  new append.
* `exchange`: three entries, of which two make one call; three exchanges, two at a time, one
  event (a deletion, a lapse or an abandonment). That the record holds every mirror's head
  is true within these bounds and not beyond: see below.
* `stores`: three lines or two rows, with and without a prefix; enough for an entry, a
  branch and the label that follows it. Repair: three entries, one of which converges another,
  five lines, one of them damaged, one crash that loses entries.
* `calls`: five entries for one call, with one rewind or fork; a behaviour draws on one of five
  agendas of entry types, since the rules do not mix the others; one of them has the harness
  break the promise its header makes. 1,943,768 distinct states. Forks: three
  sessions, of which two changes are made during the call.
* `context`: an agenda fixes which settings a behaviour changes, since they are independent:
  three changes of a list of up to three parts, or of omitted parts; two of what a request
  leaves out; four entries under a model whose reasoning is left out of another's requests,
  enough for an output, a change of model and the next response; five with outputs, images
  and compactions.
* `follow`: two writes, one fault and one cut after the first entry; a ring of two events and a buffer
  of one, so that both overflow.
* `lease`: two clients contend for one session; two requests each are enough to take a
  lease and write under it; the clock runs past the end of one lease and into the next; one
  break and one restart. `lease_expiry` has one client and three requests.

Every run stops where its bounds are reached, which is no deadlock of the
system's, so deadlock is not checked; `WaitsEnd` says what it would of the client's locks.

### Fairness

* `ExpiredLeasesEnd`: weak fairness of timers and of the expiry calls they start. The Go
  runtime fires timers and runs every goroutine, and a session's lock is held only while
  a handler runs. Nothing is assumed of clients or of the network.
* `CatchesUp`: the hub's goroutine and each client's take a step when they stay able to,
  and a failed append is cut back. Writers and faults are bounded; reconnecting is a step of the
  client that keeps its follow.
* `TurnstilePasses`: every poll comes round and every hold of a running process ends; a
  poll of `next` is granted if the lock is free again and again (strong fairness), as
  flock's queue is not first-come; two tries, of microseconds each and milliseconds
  apart, do not overlap for ever.

### What the models assume

Four constants leave out what the code does not guard against; the runs hold with them as
set in the cfg files, and the next section says what happens without.
`CommitsGuarded` (Sweep): a commit's pack and the removal of its loose copies happen
under the guard an append takes. `WritersWait` (Exchange): a store's callers
do not write while its Push hands over, nor move the head while the session is handed over. `OneHandover` (Exchange):
handovers and takes back do not overlap. `SettledLoads` (Follow): no append is cut back while a
follower loads.

## Where the code falls short of its documents

Met while modelling; each is left out of the properties by the condition named, and is
described here for the code's maintainers.

Session log and refs:
* A process killed between a log write and its fsync leaves the record in the page cache; the next
  process serves it as committed without an fsync of its own (`cas/cas.go:2699`,
  against `cas/exchange.go:122`, "a receiver never holds what a crash here could take back").
  A process killed while it cuts a failed record back leaves a record recovery keeps in place; a
  later acknowledged append is lost behind it (`cas/cas.go:1880`, RFC 0002:676). A sync record
  that survives beyond an unwritten block keeps recovery from committing what it keeps
  (`cas/cas.go:1768`, RFC 0002:651). `KillPoints` in `CasLogFsync.cfg` leaves these out.
* A ref's deletion is read by a creation under its name before its record is fsynced; a power loss
  leaves both (`cas/refs.go:567`, RFC 0002:400): `NamesApart` is of the layouts with one
  lock. A rename no fsync covered is taken for settled by the next update, so a kill and then a power
  loss can take two updates (`cas/refs.go:690`): a power loss comes only where nothing failed before it.
* An update of a ref whose directory fsync fails after its rename cuts its record back
  (`cas/refs.go:655`) and leaves its target in the file, which stands until the next update mends the log
  by it. A lock-free `effectiveRef` (`cas/refs.go:296`) that reads the file then, and the log
  only after a further update, answers that target, which the ref may no longer hold at any later moment
  of the read: `Current` admits it once something has failed.

Sweep and blobs:
* `packPending` (`cas/objects.go:888`) removes loose copies with no lock a sweep waits on
  when the commit is not an append's own; a sweep may remove the pack between:
  `CommitsGuarded = FALSE` reproduces it. A fork's `freshenPath` freshens no blobs
  (`cas/cas.go:1052`), nor does a fork in jsonl and SQLite (`jsonl/jsonl.go:271`): one placed after its
  origin was deleted may name a blob that was swept, and so may a fork placed while a sweep reads
  the sessions it listed, when the listed session it descends from is deleted before it is read;
  `NamedBlobsStay` leaves such forks out (`Rested`, `Unrested`), and `NamedIsHeld` the blobs no append found held.
* `SetSessionBlobTypes` (jsonl) takes no lock between finding the session and linking; a
  deletion between leaves a type the next session of that ID would take. `sweepTypes` may
  remove a stray type under a put that has just found it; a put that loses a race to link a
  blob does not freshen it; `ImportMedia` may report a blob resolved that a sweep removes
  before the import lands. The memory store's `heldOrigin` looks a session up by ID alone.

Exchange: TakeBack can leave no record if the server's head moved back meanwhile
(`remote/clientreads.go:508`), and its head comparison does not see a head that moved away and back;
Push with Handover clears the mark without looking at the head (`cas/exchange.go:231`); two
handovers that cross leave no record. Forced pushes begun before a handover and received
after it can move the new record's head back and forth while it hands over in turn; a
mirror that fetched in between is then left with a head the record does not hold. It takes
five exchanges, three of them under way at once.

Follow: a cas log cut back and grown again to the same length and last line is not told from
the old one (`cas/follow.go:46` says it is): after an append and a head move lost together, another append of that size and the same
head move make such a log, and a client that resumes skips the append; a Load overtaken by that takes the new line's checksum for the old session; jsonl and SQLite
cursors hold no content and are accepted after a power loss and regrowth; a remote client that
resumes across a raise of the format gets no Reset; a fresh follow of a session deleted and
created again can be served the old one by a hub that has not noticed.

Stores: a jsonl write cut just before its newline leaves a whole last line, onto which the next
append is glued (`jsonl/jsonl.go:668`; `Tails` leaves it out); a lock file whose holder was
never written is never stale and stands until it is broken (`jsonl/lock.go:55`). SQLite's Release
and Close after a failed append leave the holder's row, and Delete does not clear `refused`.

Remote client: Create (`holdMu`, then an old holding's `mu`, `clientwrite.go:209`) and drop
(`mu`, then `holdMu`) deadlock; a call waiting for a dropped holding's lock takes a lease the
client lists nowhere; a lost answer followed by a different entry leaves the record's head on the
unacknowledged one, and a lost answer to a head move makes every later write fail until
Release. A root the server took as a branch is moved onto after its append; when that move
fails the write fails, and made again it finds the entry held and succeeds without moving the
head (`clientwrite.go:274`). An entry the server has from a lost answer, written again after a
Branch, leaves the record's head behind the session's leaf; so does a Branch away and back while a
Write of the same session runs, which `session.go:24` allows ("safe for concurrent use").
`HeadIsLeaf` leaves these three out. A client that asks for a longer lease than the server grants believes in it too long
(`clientwrite.go:102`): `TTL = MaxTTL` in the runs.

Remote server: two deliveries of one create both miss the key, which is looked up before the
lock, and make two sessions (`write.go:118`, RFC 0003:166); a create without a lease of a
session that exists lets the store's hold go under someone's lease (`write.go:219`; `PlainCreates`).

Repair: a readable head record that a later lost record took back still counts as the last
head (`repair.go:345`); a damaged, illegible lost record makes a lazy append made again look committed
(`repair.go:549`); `hidden` consults damaged lost records only (`repair.go:577`); with two damaged lines, an
entry spelled before a lost record is not salvaged after it. Migration: a damaged journal line can
drop later acknowledged entries where the journal holds a lazy append.

## Proofs

For any constants that satisfy the assumptions in the modules:

* `CasLogProofs!TypeCorrect`: `Spec => []TypeOK`. It rests on lemmas about the
  reader (`ViewType`), recovery (`RecoveredType`) and what a crash leaves of a
  log (`RemainsType`).
* `CasLogProofs!CrashesSurvived` and `HandleFollows`: `Spec => []SurvivesCrashes` and `Spec => []HandleFollowsLog`, for any
  sessions, entries and bounds, if `NoPhantomLeft`: either no fsync fails, or no process dies between writing a durable record and
  learning the outcome of its fsync. Both runs have constants that satisfy it (`crash` has no failed fsyncs, `fsync` no
  such kills), and without it an acknowledged append can be lost behind a phantom, as described above.
* `CasLogProofs!FailuresSurvived`: `Spec => []SurvivesFailures`, if `NoDoubtLeft`: no process dies at that point, as in
  `fsync`. It is needed: a record killed in doubt is served from the page cache by the next process, and a power loss takes it.

  The three rest on `RecoveryInv`, which has four layers (`CasLogInv`), each inductive with those before it; one lemma per action.
  `LogInv` (`CasLogProofs`) is for the acknowledged. `AckedSurvive` is not inductive: it says what a reader finds now, not what one
  would find after the next crash. `AckedInv` says that an acknowledged entry's append lies in a prefix of the log that is on disk,
  without a hole, with the objects of its working state on disk. `StoredInv`, `OwedInv` and `CallInv` say why a durable call extends that
  prefix over the whole log (what is not yet on disk is owed, and a call past its flush owes nothing); `LostInv`, `OnceInv` and
  `PlanInv` why a recovery's rewrite keeps it; `PhantomInv` why an fsync that succeeds says something of every record before it.
  `TreeInv` is for `RecoversASession`: up to a hole, a standing append hangs from one before it and a head rests on one.
  `TailInv` and `FollowInv` are for the handle: what follows working state a crash can take is working state too, and the handle's
  state is `StateAt` of the log, what its accepted records say. `FoundInv` is for what was served and for the state found: a handle
  without working state holds what is firm (`ServedInv`), and wherever a crash may end the log, what is left says a state in `may`
  (`AllowedInv`). The step proofs come down to two facts about logs: one that shrinks leaves a reader nothing it might not have been left
  before (`AllowedShrinks`), and what a call writes says one thing more, wherever it is cut (`SaysMore`).
* `RemoteLeaseProofs!LeaseTypeCorrect`: `Spec => []TypeOK`, among it that a set
  timer is set for its lease's end.
* `RemoteLeaseProofs!WritesLandInLeaseOrder`: `Spec => LandsInLeaseOrder`. The
  property is not inductive: a request on its way says nothing of the leases
  granted since. `FenceInv` says that every lease a client, a request, an answer or a
  kept answer carries was granted, that its token is at most the last issued or
  older than the clock, and that it equals the current lease's token only if it
  is that lease. Each action is shown to be a `FenceStep`: it moves a lease in
  one of three ways and takes every lease it passes on from another place or
  from the grant it makes. A `FenceStep` keeps `FenceInv` because `nextToken` is greater
  than the last token and not less than the clock.
* `RemoteLeaseProofs!LeaseStandsOnHold`: if no create comes without a lease,
  `Spec => []LeaseIsTheHold`, by `HoldInv`, which extends the property to expired
  leases that nobody has ended yet. The assumption is needed: a create without a lease
  of a session that exists lets its hold go.

* `RemoteLeaseProofs!OneClientBelieves`: `Spec => []OneBeliever`, by four invariants in
  `RemoteLeaseInv`. `NumberedInv`: requests and answers are numbered and dated as they were sent, and no lease
  runs longer than one granted now would. `OwnedInv`: a lease is one request's and one client's.
  `SpentInv`: a lease on offer was never had, and one a client has is not being released.
  `BeliefInv`: until an admin breaks a lease or the server restarts, what a client believes, or an answer
  on its way would have it believe, ends before the server's lease does. Hypotheses:
  `TTL <= MaxTTL` (the client asks for 30 s, the server grants up to 5 min; a client that asks for more
  believes too long), `0 < Margin` (a fifth of the lease, `clientwrite.go:42`), and not both creates
  and deletes of sessions: a client whose delete landed unanswered and one that creates the
  session anew both believe, as TLC shows.
* `RemoteClientProofs!ClientStaysInStep`, `CallsNeverAllWait`, `HeadFollowsLeaf`: `ClientInStep`,
  `WaitsEnd` and `HeadIsLeaf`, for any number of callers, calls, entries, faults and events.
  One inductive invariant, `ClientInv`, serves the three. `LocksInv`: a call past the lock has it, and
  whoever has `holdMu` is replacing. `CallsInv`: what a call carries from step to step is true of
  its holding (an entry on its way is not in the session; a move's target is the leaf unless the
  caller stirred it). `LeaseInv`: no two holdings have one lease, so a change the server
  makes under a lease is told to the holding that has it. `MakingInv`: a holding Create is making is
  no other call's. `ListInv`, while no holding was dropped under a waiting call: every call works on the
  listed holding, and the session of a holding with a current lease is on the server. Every action is shown to be
  a `LockStep`, of a call that has or takes the lock, or a `FreeStep`, of one that does not. `WaitsEnd` follows
  because a lock's owner waits for nothing but `holdMu`, and only in `drop`.
* `StoreProofs!OneWriterHolds`: `OneWriter` of the JSON lines store, by `LockInv`: whoever is past
  taking the lock is who the lock file names, and a lock found free or stale is of none of them.
* `StoreProofs!FileIsTheSession`: `Spec => []FileKeepsTheSession` of the JSON lines store, for any processes, entries, faults and bases, if a torn
  tail is one recovery can tell (`Tails`, without the glued line described above). `FileInv`: the file has every line answered for,
  and a process that holds it has its lines. `TreeInv`: those lines are a tree (`Lines`), the session of whoever holds the file is
  `Sound` (its leaf and the leaf state it keeps are of its own lines), and the file `ReadsBack`: every session of a prefix of its
  lines, not only the one a reader makes, has its head among those that prefix may leave. It rests on lemmas of
  `SessionTree`. The recursive functions over entries (`Ancestry`, `NotOnLabel`, `LeafMarks`, `ReadUpTo`, a follower's session) are what
  they say of each entry, since a function stepping from 1 to `n` exists (`Recursion`, by the least number without one). The state a
  reader keeps up line by line is the one it would compute anew (`StateAt`, `NearStep`, `ReadCaughtUpIs`). A label
  put before a branch, or after an append, leaves the head where the writer has it (`HeadAfter`, `BranchKeepsHead`, `SettledHead`, `WrittenHeads`).
* `StoreProofs!RowsAreTheSession`: `RowsKeepTheSession` of the SQLite store, by `RowsInv` and the same lemmas, if formats are the older or the current minor.
* `StoreProofs!OriginsAreRight`: `Spec => []OriginsRight` of `ForkOrigin`, for any sessions, lengths of the walk and changes, if
  `LooksOften`. That a pick is blind to what the caller may not read rests on `WalksAlike`, by the walk's length (`Counting`: each walk is
  one step and a shorter one, `UpwardStep`): the walk of a store without those sessions ends only where the
  whole store's does, and is the same chain if all of that is readable. `RefusedOnlyWithoutBase` is by `OriginInv`: what held the base all the while
  is among what was gathered, and a try fails only for a change made during it (`StillThere`). The hypothesis, fewer changes
  than tries, is needed: `lockOrigin` and `forkOrigin` give up after eight and three, with a readable session holding the base.
* `StoreProofs!ForksHaveHeldOrigins`: `ForkIsOfAHeldOrigin` of the same, with no hypothesis.
* `StoreProofs!DamagedLogsAreKept`: `DamagedLogKept` of `Repair`, by `CopyInv`: a repair under way works on the log it read; past its
  copy, the last log kept aside is that one, and once the directory is synced it is durable.
* `SweepProofs!BlobsStayKept` and `FirstTypeHolds`: `BlobsKept` and `FirstTypeStays` of the three stores with
  sidecar blobs, for any number of sessions, callers, calls, kills and power losses, by `BlobInv`. Of a call (`CallOK`): since it freshened or
  linked the blob, the blob is there and no older than the call. Of a sweep (`SweepOK`): while it reads the
  sessions it listed, whatever counts on the blob is listed, descends from a listed session that
  counts on it, or freshened the blob since; from its second look to its removal the blob is older than
  its cutoff, so nothing counts on it. Looking for that invariant showed that a fork of a
  fork can be left behind as its origin can, which two sessions did not show; `held[s].of` is the whole line of descent
  for that reason.
* `SweepProofs!NothingNamedIsSwept`: `Spec => []SweepInv`, if `CommitsGuarded`, for any sessions, refs, writers, entries,
  packs and sweeps. That what is named is held is not inductive: a sweep removes some steps after it chose what to remove, and a
  writer names some steps after it wrote. `IInv` speaks of what is `Kept` (held, and by something none of the running sweep's removals to come
  takes) and says it of what a call under way has `Promised` as of what is `Named`. `MarksOK` and `FoundOK` say why the second look
  is enough: what the log marks stand for is in the new pack, so what is named and not in it was named since, and the rescue
  finds a copy that stays or makes one. `CallsOK` and `PackingOK` say that nobody is between writing and recording in the steps
  the sweep takes alone. The hypothesis is needed: `CommitsGuarded = FALSE` loses an object.
* `SweepProofs!GarbageIsSwept`: `Spec => []GarbageGoes`, if `CommitsGuarded`, by `QuietInv`: while nothing else runs,
  what was old and unneeded is not kept, then is listed for removal, then is gone (`Unneeded`); what a sweep keeps, reads again or a commit packs is
  needed. `SweepProofs!BlobsKeepTheirTypes`: `Spec => TypedStaysTyped`.
* `RefProofs!StoresImplementRefs`: `Spec => Implements`, so that each of the three layouts implements `Refs`, for any
  callers, readers, names, sessions, updates, failures and kills, or a power loss. The argument is about the last record of each name.
  A ref is where its log ends (`HeldOf`), unless its file is `Ahead`: it holds neither end of the last record, because an
  update that failed after placing it took its record back; then that update is still open (`AheadOpen`). So an update moves its ref
  when its record is appended (`Commit`, in one transaction); placing the file, fsyncs and mending move nothing; and a
  record cut back, or lost with the power, takes back an update nobody was told of, since each record starts where its name's
  last one ended (`Chained`). `CallOK` says how far log and file are apart at each step of an update, `Fits` the same of the
  one document, and `DiskOK` that until something fails the disk lacks only what updates in progress wrote.
* `RefProofs!RefsAreAccountedFor`: `Spec => []RefsAccountedFor`, by `RefInv`, which adds to that invariant that what a reader has
  read of the file it may answer (`ReadOK`): if the log then moves the ref on from it, it answers where the log ends.
* `RecordProofs!CallsVerifyOnEveryPath`: `Spec => []CallsInv`, for any calls, arguments, agendas and bounds: none
  of the rules in the loop of `VerifyRecords` over the calls (`run.go:1121-1163`) is broken, but that an output under the
  promise may lack its dispatch (`ErrRecordMissing`) when the agenda has `"unrecorded"`. Append checks
  an entry on the path it extends, by a reading of the call that is a fold over that path; the property is about every path of the
  session and of its forks. `RecordInv` adds to it the shape of a session and what the harness has handed off. An append leaves every older path
  as it was, and the reading on the new path is one step past the old leaf's (`CallUpTo`, step by step as the fold is); a fork's
  entries are the origin's ancestry renumbered, so a call reads alike on both (`Copies`, `Places`, `Like`, carried along the two
  folds together). An entry `MayDispatch`, `MayResult`, `MayDecide` or `MayOutput` lets in adds no fault to such a reading, and an answer
  with no hand-off keeps `DispatchedOff` true, since branches only grow and a fork puts them before its base.
  `Owed`, of a harness that keeps its promise: a call with an output stays accounted for, since a hand-off is withdrawn only
  before there is one (`StepAccounts`), and a fork's outputs lie in its prefix. The rules of `VerifyRecords` outside that loop
  (targets, callees, links, copies) are no part of it; its drains are `DrainedOnce`, its runs `RunEndsTell`.
* `ExchangeProofs!CopiesStaySessions`: `CopiesAreSessions`, by `SessionsInv`, which says the same
  of every bundle under way: an exchange carries what was a session when it was read and
  is checked against the copy as it is when it arrives.
* `ExchangeProofs!RecordNeverLost`: if one handover is under way at a time, `NeverNone`, the part of `OneRecord`
  that says some store is the record. `RecordInv`: while a handover is past its receiver's
  step the receiver is the record. The hypothesis is needed: two stores that hand over to each other both clear.

Every hypothesis above is a constant's value some run has. The module `CasLogInv`, the
invariants of `RemoteLeaseInv`, `IInv` and `QuietInv` of `SweepProofs` and `RefInv` of `RefProofs` were checked by TLC before their
proofs. Looking for `RefInv` found the reader that answers a failed update's target, which one fault and one session
did not show.

Only model-checked, and why:

* `RepairIsSafe`, `MigrationIsSafe`: a repair's plan and a migration's are `FoldLeft` and `SelectSeq` over a log, which the prover has
  no definition of.
* `FollowersAgree`: not true of every instance. With two faults that take an append and the head move after it,
  and writes after them, the same head record can stand again at the place a client's cursor names, behind another
  entry: the client resumes there and skips that entry. TLC finds it with `MaxFaults = 2`, `MaxWrites = 4`; the run's one fault leaves it out.
* Liveness under fairness (`ExpiredLeasesEnd`, `CatchesUp`, `TurnstilePasses`): out of the proof system's reach.
* `CallsTold`, `RunsTold`: of the reading of a call, `RecordProofs` has what an entry further on does to it; these are about what
  is left when an entry is taken back, and about runs.
* What the recursions of `SessionContext` compute for every input (`ContextInv`, `RequestsRebuild`, `CompactionKeeps`):
  folds over sequences and sets, which the library states no fact of.
* `MirrorHeadsHeld`, the other part of `OneRecord`: not true of every instance.

## Not modelled

* Byte-level JSON, its canonical form and hashing; exports, OpenTelemetry, ATIF; the command
  line; the conformance tests: conversions and printing, no state.
* Rewrites, remaps, normalisation, imports of other formats; redaction: functions of one file's
  or one entry's JSON.
* Reads, lists, searches, continuations, costs, summaries (caches checked against their log),
  verification.
* Of modelled parts: of Sweep, damaged and corrupt objects, torn logs and what a power loss leaves
  of a sweep; of Exchange, refs, blob types and raises of the format; of cas refs, RepairRef; of Repair, damaged
  headers, bases and marks; of Migrate, marks, entries two sessions share and file systems
  without links; of the SQLite store, the database's own durability; of sessions, field validation; of
  runs, workspaces, triggers and copies between sessions; of blobs, checks of media types and
  blob reads; of jsonl, a write that fails and leaves the process running; of Follow,
  the stat, open and read of one look at a log as separate steps (`follow.go:320-355`; the next look reads what one missed);
  of Turnstile, the bound of a poll as time (`lock_unix.go:126`): it is taken to be longer than a live hold.

## What comes next

Proofs: the migration's and the repair's safety; `Turnstile`'s
exclusion. Models:
RepairRef, refs that travel with a push, a failed write in the jsonl store.
