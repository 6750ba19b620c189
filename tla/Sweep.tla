------------------------------- MODULE Sweep -------------------------------
(***************************************************************************)
(* The content-addressed store's collector beside live writers.  Objects   *)
(* are held loose or in packs; sessions' logs and refs name entries, an    *)
(* entry its content and a content its blobs.  A sweep reads what is named *)
(* with no lock a writer waits on, repacks it, and under the sweep's lock  *)
(* takes what was named since before it removes the packs it replaced and, *)
(* batch by batch, the loose objects nothing names.                        *)
(*                                                                         *)
(* A pack's name is the hash of what it holds, so a pack is its set of     *)
(* objects.  An age is "old" or "young" against the running sweep's grace: *)
(* what is written or freshened is young, and grows old between sweeps.    *)
(***************************************************************************)
EXTENDS Integers, Sequences, FiniteSets

CONSTANTS
  Sessions, Refs, Writers,
  Entries, Blobs,
  ContentOf,   \* each entry's content object
  BlobsOf,     \* the blobs each content names
  ParentOf,    \* each entry's parent, or NoEntry
  NoEntry,
  Starts,      \* the states of the disk behaviours begin in
  CommitsGuarded,  \* every commit is one its append's guard still covers
  MaxOps,      \* writer operations and deletions in a behaviour
  MaxSweeps

Contents == {ContentOf[e] : e \in Entries}
Objects  == Entries \cup Contents \cup Blobs

ASSUME NamesAssumption ==
  /\ ContentOf \in [Entries -> Contents] /\ BlobsOf \in [Contents -> SUBSET Blobs]
  /\ ParentOf \in [Entries -> Entries \cup {NoEntry}] /\ NoEntry \notin Entries
  /\ MaxOps \in Nat

VARIABLES
  loose,    \* each object's loose copy: its age, or "none"
  packs,    \* the packs on disk, each with its age
  fresh,    \* the packs freshened since the sweep read them
  types,    \* the blobs whose media type is recorded
  logs,     \* each session: its incarnation (0: none), base, and records
  refs,     \* the entry each ref pins, or NoEntry
  pc,       \* what each writer is doing
  packing,  \* objects a pack was written of, whose loose copies still go, and for what
  sw,       \* the sweep
  ops, sweeps

disk == <<loose, packs, fresh>>
vars == <<disk, types, logs, refs, pc, packing, sw, ops, sweeps>>

HeldIn(l, ps, o) == l[o] /= "none" \/ \E p \in DOMAIN ps : o \in p
Held(o) == HeldIn(loose, packs, o)

\* An entry and its content.
Whole(e) == {e, ContentOf[e]}

\* From e up to the root: what is in every set that has e and, with an
\* entry, its parent.
Upward(S) == \A y \in S : ParentOf[y] \in S \cup {NoEntry}
PathTo(e) == {x \in Entries : \A S \in SUBSET Entries : e \in S /\ Upward(S) => x \in S}

\* A log's entries, its base's path with them, and the objects it names:
\* theirs and the blobs its appends found held.
EntriesOf(log) == {log.recs[i].entry : i \in DOMAIN log.recs}
                  \cup (IF log.base = NoEntry THEN {} ELSE PathTo(log.base))
NamedBy(log) == (UNION {Whole(e) : e \in EntriesOf(log)})
                \cup UNION {log.recs[i].blobs : i \in DOMAIN log.recs}

Records == {r \in [entry : Entries, blobs : SUBSET Blobs] : r.blobs \subseteq BlobsOf[ContentOf[r.entry]]}
Logs    == [inc : Nat, base : Entries \cup {NoEntry}, recs : Seq(Records)]

\* A start is a store at rest: of its sessions, the first of their IDs, each
\* holds an entry's parent with the entry, and all they name is on disk.
Sound(d) ==
  /\ d.loose \in [Objects -> {"none", "old", "young"}]
  /\ DOMAIN d.packs \subseteq SUBSET Objects /\ d.packs \in [DOMAIN d.packs -> {"old", "young"}]
  /\ d.logs \in [Sessions -> Logs]
  /\ \A s \in Sessions :
       LET log == d.logs[s]
       IN  /\ log.inc \in {0, 1} /\ (log.inc = 0 => log.base = NoEntry /\ log.recs = <<>>)
           /\ Upward(EntriesOf(log))
           /\ \A o \in NamedBy(log) : HeldIn(d.loose, d.packs, o)

ASSUME StartsAssumption == \A d \in Starts : Sound(d)

Idle == [op |-> "idle"]
Asleep == [phase |-> "idle"]

Guards == {"write", "blobs", "record", "place", "put", "type"}   \* steps under the sweep's lock shared

Guarded(w) == pc[w].op /= "idle" /\ pc[w].step \in Guards

NobodyGuarded == (\A w \in Writers : ~Guarded(w)) /\ (CommitsGuarded => packing.by /= "commit")

Exclusive == sw.phase \in {"since", "remove", "prune"}

(***************************************************************************)
(* Writing an object: a loose copy is freshened or written again, else a   *)
(* pack that holds it is freshened, else it is written loose.              *)
(***************************************************************************)
WriteTo(o) ==
  LET at == {p \in DOMAIN packs : o \in p}
  IN  IF loose[o] /= "none" \/ at = {}
      THEN loose' = [loose EXCEPT ![o] = "young"] /\ UNCHANGED <<packs, fresh>>
      ELSE \E p \in at : /\ packs' = [packs EXCEPT ![p] = "young"]
                         /\ fresh' = fresh \cup {p}
                         /\ UNCHANGED loose

WithPack(p) == [q \in DOMAIN packs \cup {p} |-> IF q = p THEN "young" ELSE packs[q]]

Begin(w, step) ==
  /\ pc[w] = Idle /\ ops < MaxOps
  /\ pc' = [pc EXCEPT ![w] = step]
  /\ ops' = ops + 1
  /\ UNCHANGED <<disk, types, logs, refs, packing, sw, sweeps>>

HeldBy(s, e) == logs[s].inc > 0 /\ e \in EntriesOf(logs[s])

Appending(s) == \E w \in Writers : pc[w].op = "append" /\ pc[w].s = s

(***************************************************************************)
(* An append: the content, the entry, the blobs the content names, then    *)
(* the record, all with the sweep's lock held shared.                      *)
(***************************************************************************)
StartAppend(w, s, e) ==
  /\ ~Exclusive
  /\ logs[s].inc > 0 /\ ~Appending(s)
  /\ ~HeldBy(s, e) /\ (ParentOf[e] = NoEntry \/ HeldBy(s, ParentOf[e]))
  /\ Begin(w, [op |-> "append", step |-> "write", s |-> s, e |-> e,
               todo |-> <<ContentOf[e], e>>, blobs |-> {}])

\* An append's next object.
WriteObject(w) ==
  /\ pc[w].op = "append" /\ pc[w].step = "write"
  /\ WriteTo(Head(pc[w].todo))
  /\ pc' = [pc EXCEPT ![w].todo = Tail(@),
                      ![w].step = IF Len(pc[w].todo) > 1 THEN "write" ELSE "blobs"]
  /\ UNCHANGED <<types, logs, refs, packing, sw, ops, sweeps>>

\* A blob the store does not hold is reported unresolved, not refused.
FreshenBlobs(w) ==
  /\ pc[w].op = "append" /\ pc[w].step = "blobs"
  /\ LET rest == BlobsOf[ContentOf[pc[w].e]] \ pc[w].blobs
         held == {b \in rest : Held(b)}
     IN  IF held = {} THEN pc' = [pc EXCEPT ![w].step = "record"] /\ UNCHANGED disk
         ELSE \E b \in held : WriteTo(b) /\ pc' = [pc EXCEPT ![w].blobs = @ \cup {b}]
  /\ UNCHANGED <<types, logs, refs, packing, sw, ops, sweeps>>

AppendRecord(w) ==
  /\ pc[w].op = "append" /\ pc[w].step = "record"
  /\ logs' = [logs EXCEPT ![pc[w].s].recs = Append(@, [entry |-> pc[w].e, blobs |-> pc[w].blobs])]
  /\ pc' = [pc EXCEPT ![w] = Idle]
  /\ UNCHANGED <<disk, types, refs, packing, sw, ops, sweeps>>

(***************************************************************************)
(* A blob, and its media type after it.                                    *)
(***************************************************************************)
StartPutBlob(w, b) ==
  /\ ~Exclusive
  /\ Begin(w, [op |-> "put", step |-> "put", b |-> b])

PutBlob(w) ==
  /\ pc[w].op = "put" /\ pc[w].step = "put"
  /\ WriteTo(pc[w].b)
  /\ pc' = [pc EXCEPT ![w].step = "type"]
  /\ UNCHANGED <<types, logs, refs, packing, sw, ops, sweeps>>

PutMediaType(w) ==
  /\ pc[w].op = "put" /\ pc[w].step = "type"
  /\ types' = types \cup {pc[w].b}
  /\ pc' = [pc EXCEPT ![w] = Idle]
  /\ UNCHANGED <<disk, logs, refs, packing, sw, ops, sweeps>>

(***************************************************************************)
(* A fork: the base is looked up before the sweep's lock is taken, and     *)
(* its path freshened, with its contents, under it.                        *)
(***************************************************************************)
StartFork(w, s, base) ==
  /\ logs[s].inc = 0
  /\ ~\E v \in Writers : pc[v].op = "fork" /\ pc[v].s = s
  /\ \E o \in Sessions : HeldBy(o, base)
  /\ Begin(w, [op |-> "fork", step |-> "checked", s |-> s, e |-> base, at |-> base, todo |-> <<>>])

\* An entry's envelope, then its content.
Pair(x) == <<x, ContentOf[x]>>

ForkGuard(w) ==
  /\ pc[w].op = "fork" /\ pc[w].step = "checked"
  /\ ~Exclusive
  /\ pc' = [pc EXCEPT ![w].step = "write", ![w].todo = Pair(pc[w].e)]
  /\ UNCHANGED <<disk, types, logs, refs, packing, sw, ops, sweeps>>

\* The path's next object, which must still read; after an entry's content
\* its parent, up to the root.
FreshenPath(w) ==
  /\ pc[w].op = "fork" /\ pc[w].step = "write"
  /\ LET up == ParentOf[pc[w].at]
     IN  IF ~Held(Head(pc[w].todo))
         THEN /\ pc' = [pc EXCEPT ![w] = Idle]
              /\ UNCHANGED disk
         ELSE /\ WriteTo(Head(pc[w].todo))
              /\ pc' = IF Len(pc[w].todo) > 1 THEN [pc EXCEPT ![w].todo = Tail(@)]
                       ELSE IF up = NoEntry THEN [pc EXCEPT ![w].todo = <<>>, ![w].step = "place"]
                       ELSE [pc EXCEPT ![w].todo = Pair(up), ![w].at = up]
  /\ UNCHANGED <<types, logs, refs, packing, sw, ops, sweeps>>

PlaceSession(w) ==
  /\ pc[w].op = "fork" /\ pc[w].step = "place"
  /\ logs' = [logs EXCEPT ![pc[w].s] = [inc |-> ops + 1, base |-> pc[w].e, recs |-> <<>>]]
  /\ pc' = [pc EXCEPT ![w] = Idle]
  /\ UNCHANGED <<disk, types, refs, packing, sw, ops, sweeps>>

(***************************************************************************)
(* A ref pinning an entry its session holds when it is checked.            *)
(***************************************************************************)
StartPin(w, r, e) ==
  /\ ~Exclusive
  /\ \E s \in Sessions : HeldBy(s, e)
  /\ \A o \in {e, ContentOf[e]} : Held(o)
  /\ Begin(w, [op |-> "pin", step |-> "place", r |-> r, e |-> e])

PlaceRef(w) ==
  /\ pc[w].op = "pin" /\ pc[w].step = "place"
  /\ refs' = [refs EXCEPT ![pc[w].r] = pc[w].e]
  /\ pc' = [pc EXCEPT ![w] = Idle]
  /\ UNCHANGED <<disk, types, logs, packing, sw, ops, sweeps>>

DeleteRef(r) ==
  /\ refs[r] /= NoEntry /\ ops < MaxOps
  /\ \A w \in Writers : pc[w].op = "pin" => pc[w].r /= r
  /\ refs' = [refs EXCEPT ![r] = NoEntry] /\ ops' = ops + 1
  /\ UNCHANGED <<disk, types, logs, pc, packing, sw, sweeps>>

\* Delete waits for the session's writer and takes no sweep lock.
DeleteSession(s) ==
  /\ logs[s].inc > 0 /\ ~Appending(s) /\ ops < MaxOps
  /\ logs' = [logs EXCEPT ![s] = [inc |-> 0, base |-> NoEntry, recs |-> <<>>]]
  /\ ops' = ops + 1
  /\ UNCHANGED <<disk, types, refs, pc, packing, sw, sweeps>>

(***************************************************************************)
(* Packs beside the sweep's: a commit's pending objects, and, with no      *)
(* sweep running, every loose object; then merged.  The loose copies go    *)
(* once the pack is one a reader finds.                                    *)
(***************************************************************************)
NotPacking == [by |-> "none", objs |-> {}]

PackObjects(by, objs) ==
  /\ packing = NotPacking /\ Cardinality(objs) > 1
  /\ packs' = WithPack(objs) /\ fresh' = fresh \cup {objs}
  /\ packing' = [by |-> by, objs |-> objs]
  /\ UNCHANGED <<loose, types, logs, refs, pc, sw, ops, sweeps>>

PackPending(s) ==
  /\ CommitsGuarded => ~Exclusive
  /\ PackObjects("commit",
       {o \in UNION {{logs[s].recs[i].entry, ContentOf[logs[s].recs[i].entry]} :
                       i \in DOMAIN logs[s].recs} : loose[o] = "young"})

PackLoose ==
  /\ sw = Asleep
  /\ PackObjects("pack", {o \in Objects : loose[o] /= "none"})

RemovePacked ==
  /\ packing /= NotPacking
  /\ loose' = [o \in Objects |-> IF o \in packing.objs THEN "none" ELSE loose[o]]
  /\ packing' = NotPacking
  /\ UNCHANGED <<packs, fresh, types, logs, refs, pc, sw, ops, sweeps>>

Consolidate ==
  /\ sw = Asleep /\ packing = NotPacking /\ Cardinality(DOMAIN packs) > 1
  /\ packs' = [p \in {UNION DOMAIN packs} |-> "young"]
  /\ fresh' = {}
  /\ UNCHANGED <<loose, types, logs, refs, pc, packing, sw, ops, sweeps>>

\* The grace passes for what no writer is between writing and recording.
Age ==
  /\ sw = Asleep /\ \A w \in Writers : ~Guarded(w)
  /\ loose' = [o \in Objects |-> IF loose[o] = "none" THEN "none" ELSE "old"]
  /\ packs' = [p \in DOMAIN packs |-> "old"]
  /\ fresh' = {}
  /\ UNCHANGED <<types, logs, refs, pc, packing, sw, ops, sweeps>>

(***************************************************************************)
(* What logs and refs name.                                                *)
(***************************************************************************)
KeepEntry(e) ==
  {e} \cup (IF ~Held(e) THEN {}
            ELSE {ContentOf[e]} \cup (IF Held(ContentOf[e]) THEN BlobsOf[ContentOf[e]] ELSE {}))

KeepPath(e) == IF e = NoEntry THEN {} ELSE UNION {KeepEntry(x) : x \in PathTo(e)}

\* A pin whose entry no longer reads keeps nothing.
KeepPin(e) ==
  IF e = NoEntry \/ ~Held(e) \/ ~Held(ContentOf[e]) THEN {} ELSE KeepPath(e)

KeepRefs == UNION {KeepPin(refs[r]) : r \in Refs}

\* The log beyond its mark, or whole when it is another file since.
KeepLog(s, mark) ==
  LET from == IF mark.inc = logs[s].inc THEN mark.n ELSE 0
  IN  (IF mark.inc = logs[s].inc THEN {} ELSE KeepPath(logs[s].base))
      \cup UNION {KeepEntry(logs[s].recs[i].entry) : i \in from + 1..Len(logs[s].recs)}

NoMark == [inc |-> 0, n |-> 0]

MarkOf(s) == [inc |-> logs[s].inc, n |-> Len(logs[s].recs)]

Live == {s \in Sessions : logs[s].inc > 0}

(***************************************************************************)
(* What must stay: the two objects of every entry a record, a path or a    *)
(* pin names and the blobs an append found held; and what a sweep keeps    *)
(* besides, the blobs of every content among them.                         *)
(***************************************************************************)
Named ==
  (UNION {NamedBy(logs[s]) : s \in Sessions})
  \cup UNION {UNION {Whole(e) : e \in PathTo(refs[r])} : r \in {q \in Refs : refs[q] /= NoEntry}}

Needed == Named \cup UNION {BlobsOf[c] : c \in Named \cap Contents}

(***************************************************************************)
(* The sweep.                                                              *)
(***************************************************************************)
Step(next) == sw' = next /\ UNCHANGED <<types, logs, refs, pc, packing, ops>>

StartSweep ==
  /\ sw = Asleep /\ packing.by /= "pack" /\ sweeps < MaxSweeps
  /\ sweeps' = sweeps + 1
  /\ Step([phase |-> "keep", list |-> Live, keep |-> {}, marks |-> [s \in Sessions |-> NoMark],
           quiet |-> IF \A w \in Writers : pc[w] = Idle THEN ops ELSE MaxOps + 1,
           garbage |-> {o \in Objects \ Needed : /\ loose[o] /= "young"
                                                 /\ \A p \in DOMAIN packs : o \in p => packs[p] = "old"}])
  /\ UNCHANGED disk

\* A session deleted since the directory was listed fails the sweep.
KeepSession(s) ==
  /\ sw.phase = "keep" /\ s \in sw.list
  /\ Step(IF logs[s].inc = 0 THEN Asleep
          ELSE [sw EXCEPT !.list = @ \ {s}, !.keep = @ \cup KeepLog(s, NoMark), !.marks[s] = MarkOf(s)])
  /\ UNCHANGED <<disk, sweeps>>

\* The refs, then the loose objects by where they are.
ScanLoose ==
  /\ sw.phase = "keep" /\ sw.list = {}
  /\ LET keep == sw.keep \cup KeepRefs
     IN  Step([phase |-> "scanned", keep |-> keep, marks |-> sw.marks, quiet |-> sw.quiet, garbage |-> sw.garbage,
               take  |-> {o \in keep : loose[o] /= "none"},
               prune |-> {o \in Objects \ keep : loose[o] = "old"}])
  /\ UNCHANGED <<disk, sweeps>>

\* Mutant: what nothing needs is spared whatever its pack's age.
SparedPacksAll == DOMAIN packs

\* The packs whose unneeded objects are spared.
SparedPacks == {p \in DOMAIN packs : packs[p] = "young"}

\* The new pack: what is kept, where it still reads; young objects of a
\* replaced pack that nothing needs go back loose with the pack's age.
Repack ==
  /\ sw.phase = "scanned"
  /\ LET old == DOMAIN packs
         new == {o \in sw.take : loose[o] /= "none"} \cup (sw.keep \cap UNION old)
         orphans == {o \in (UNION SparedPacks) \ sw.keep : loose[o] = "none"}
     IN  /\ packs' = IF new = {} THEN packs ELSE WithPack(new)
         /\ fresh' = {}
         /\ loose' = [o \in Objects |-> IF o \in orphans THEN "young" ELSE loose[o]]
         /\ Step([phase |-> "packed", marks |-> sw.marks, prune |-> sw.prune, old |-> old, new |-> new,
                  dup |-> sw.take \cap new, quiet |-> sw.quiet, garbage |-> sw.garbage])
  /\ UNCHANGED sweeps

LockSweep ==
  /\ sw.phase \in {"packed", "duplicates"}
  /\ NobodyGuarded
  /\ Step([sw EXCEPT !.phase = IF @ = "packed" THEN "since" ELSE "prune"])
  /\ UNCHANGED <<disk, sweeps>>

\* Mutant: what was named since the keep set was taken is not read again.
SinceNone == {}

\* What was accepted or pinned since the keep set was taken.
Since == (UNION {KeepLog(s, sw.marks[s]) : s \in Live}) \cup KeepRefs

\* What was named since, and what a writer found in a pack it freshened,
\* goes back loose unless another copy stays.
Rescue ==
  /\ sw.phase = "since"
  /\ LET since == Since
         staying == sw.new \cup UNION (DOMAIN packs \ sw.old)
         named == {o \in since : o \notin staying /\ loose[o] = "none" /\ Held(o)}
         touched == (UNION (fresh \cap (sw.old \ {sw.new}))) \ sw.new
     IN  /\ loose' = [o \in Objects |-> IF o \in named \/ (o \in touched /\ loose[o] = "none")
                                        THEN "young" ELSE loose[o]]
         /\ Step([phase |-> "remove", prune |-> sw.prune, old |-> sw.old, new |-> sw.new, dup |-> sw.dup,
                  since |-> since, quiet |-> sw.quiet, garbage |-> sw.garbage])
  /\ UNCHANGED <<packs, fresh, sweeps>>

RemoveOld ==
  /\ sw.phase = "remove"
  /\ packs' = [p \in DOMAIN packs \ (sw.old \ {sw.new}) |-> packs[p]]
  /\ fresh' = fresh \cap DOMAIN packs'
  /\ Step([phase |-> "dups", prune |-> sw.prune, dup |-> sw.dup, since |-> sw.since, quiet |-> sw.quiet, garbage |-> sw.garbage])
  /\ UNCHANGED <<loose, sweeps>>

\* Loose copies of what the new pack holds go, under no lock.
RemoveDuplicates ==
  /\ sw.phase = "dups"
  /\ loose' = [o \in Objects |-> IF o \in sw.dup THEN "none" ELSE loose[o]]
  /\ Step([phase |-> "duplicates", prune |-> sw.prune, since |-> sw.since, quiet |-> sw.quiet, garbage |-> sw.garbage])
  /\ UNCHANGED <<packs, fresh, sweeps>>

Pruned(o) == o \in sw.prune /\ loose[o] = "old" /\ o \notin sw.since

Prune ==
  /\ sw.phase = "prune"
  /\ loose' = [o \in Objects |-> IF Pruned(o) THEN "none" ELSE loose[o]]
  /\ Step([phase |-> "types", quiet |-> sw.quiet, garbage |-> sw.garbage])
  /\ UNCHANGED <<packs, fresh, sweeps>>

\* Mutant: the types of the blobs found gone go without the sweep's lock.
SweepMediaTypesUnlocked ==
  /\ sw.phase = "types"
  /\ types' \in {types, {}}
  /\ sw' = Asleep
  /\ UNCHANGED <<disk, logs, refs, pc, packing, ops, sweeps>>

\* The types of blobs no longer held, under the lock again.
SweepMediaTypes ==
  /\ sw.phase = "types" /\ NobodyGuarded
  /\ types' = {b \in types : Held(b)}
  /\ sw' = Asleep
  /\ UNCHANGED <<disk, logs, refs, pc, packing, ops, sweeps>>

\* The process dies: files stay as they are.
SweepStops ==
  /\ sw /= Asleep
  /\ Step(Asleep)
  /\ UNCHANGED <<disk, sweeps>>

Init ==
  /\ \E s \in Starts :
       /\ loose = s.loose /\ packs = s.packs /\ logs = s.logs
  /\ fresh = {} /\ types = {}
  /\ refs = [r \in Refs |-> NoEntry]
  /\ pc = [w \in Writers |-> Idle]
  /\ packing = NotPacking /\ sw = Asleep /\ ops = 0 /\ sweeps = 0

WriterNext ==
  \E w \in Writers :
    \/ \E s \in Sessions, e \in Entries : StartAppend(w, s, e) \/ StartFork(w, s, e)
    \/ WriteObject(w) \/ FreshenBlobs(w) \/ AppendRecord(w)
    \/ \E b \in Blobs : StartPutBlob(w, b)
    \/ PutBlob(w) \/ PutMediaType(w)
    \/ ForkGuard(w) \/ FreshenPath(w) \/ PlaceSession(w)
    \/ \E r \in Refs, e \in Entries : StartPin(w, r, e)
    \/ PlaceRef(w)

SweepNext ==
  \/ StartSweep \/ \E s \in Sessions : KeepSession(s)
  \/ ScanLoose \/ Repack \/ LockSweep \/ Rescue \/ RemoveOld \/ RemoveDuplicates \/ Prune
  \/ SweepMediaTypes

Next ==
  \/ WriterNext \/ SweepNext \/ SweepStops
  \/ \E r \in Refs : DeleteRef(r)
  \/ \E s \in Sessions : DeleteSession(s) \/ PackPending(s)
  \/ PackLoose \/ RemovePacked \/ Consolidate \/ Age

Spec == Init /\ [][Next]_vars

(***************************************************************************)
(* Properties.                                                             *)
(***************************************************************************)
TypeOK ==
  /\ loose \in [Objects -> {"none", "old", "young"}]
  /\ DOMAIN packs \subseteq SUBSET Objects /\ fresh \subseteq DOMAIN packs
  /\ types \subseteq Blobs
  /\ refs \in [Refs -> Entries \cup {NoEntry}]
  /\ \A s \in Sessions : logs[s].inc = 0 => logs[s].recs = <<>>

(***************************************************************************)
(* No sweep, pack or merge takes an object an accepted record, a fork's    *)
(* base or a ref's pin names, or a blob an append found held, however      *)
(* writers, deletions and the sweep's steps interleave and wherever the    *)
(* sweep stops.                                                            *)
(***************************************************************************)
NamedIsHeld == \A o \in Named : Held(o)

\* The store's types, and that what is named is held (Sweep, packPending).
SweepInv == TypeOK /\ NamedIsHeld

(***************************************************************************)
(* A blob put with its type has the type for as long as it is held.        *)
(***************************************************************************)
TypedStaysTyped ==
  [][\A b \in types : b \in types' \/ ~Held(b)']_vars

(***************************************************************************)
(* A sweep no operation ran beside takes everything that was old and       *)
(* unneeded when it began, loose, packed or both.                          *)
(***************************************************************************)
GarbageGoes == sw.phase = "types" /\ sw.quiet = ops => \A o \in sw.garbage : ~Held(o)
=============================================================================
