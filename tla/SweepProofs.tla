---------------------------- MODULE SweepProofs ----------------------------
(***************************************************************************)
(* Proofs of both sweeps: first the content store's, then that of the      *)
(* other stores' sidecar blobs.                                            *)
(*                                                                         *)
(* Nothing named is swept, and a sweep beside which nothing runs leaves no *)
(* garbage.  That what is named is held is not inductive: a sweep removes  *)
(* packs and loose objects some steps after it chose them, and a writer    *)
(* names an object some steps after it wrote it.  So the invariant speaks  *)
(* of what is Kept, held and not about to be removed, and says it of what  *)
(* a call has Promised as of what is Named.  What makes a rescue enough is *)
(* FoundOK: what the marks stand for is in the new pack, so that what is   *)
(* not in it was named since and is read again.                            *)
(***************************************************************************)
EXTENDS Sweep, BlobStore, TLAPS

-----------------------------------------------------------------------------
(* The inductive invariants, and facts about names.                        *)

\* The calls under way, by their operation.
Appends == [op : {"append"}, step : {"write", "blobs", "record"}, s : Sessions, e : Entries,
            todo : Seq(Objects), blobs : SUBSET Blobs]
Puts    == [op : {"put"}, step : {"put", "type"}, b : Blobs]
Forks   == [op : {"fork"}, step : {"checked", "write", "place"}, s : Sessions, e : Entries,
            at : Entries, todo : Seq(Objects)]
Pins    == [op : {"pin"}, step : {"place"}, r : Refs, e : Entries]
Calls   == {Idle} \cup Appends \cup Puts \cup Forks \cup Pins

\* The sweep, by its phase.
Objs    == SUBSET Objects
Marks   == [Sessions -> [inc : Nat, n : Nat]]
Keeping == [phase : {"keep"}, list : SUBSET Sessions, keep : Objs, marks : Marks, quiet : Nat, garbage : Objs]
Scanned == [phase : {"scanned"}, keep : Objs, marks : Marks, quiet : Nat, garbage : Objs,
            take : Objs, prune : Objs]
Packed  == [phase : {"packed", "since"}, marks : Marks, prune : Objs, old : SUBSET Objs, new : Objs,
            dup : Objs, quiet : Nat, garbage : Objs]
Rescued == [phase : {"remove"}, prune : Objs, old : SUBSET Objs, new : Objs, dup : Objs, since : Objs,
            quiet : Nat, garbage : Objs]
Replaced == [phase : {"dups"}, prune : Objs, dup : Objs, since : Objs, quiet : Nat, garbage : Objs]
Pruning  == [phase : {"duplicates", "prune"}, prune : Objs, since : Objs, quiet : Nat, garbage : Objs]
Ending   == [phase : {"types"}, quiet : Nat, garbage : Objs]
Sweeps   == {Asleep} \cup Keeping \cup Scanned \cup Packed \cup Rescued \cup Replaced \cup Pruning \cup Ending

\* What the disk holds.
DiskOK ==
  /\ loose \in [Objects -> {"none", "old", "young"}]
  /\ DOMAIN packs \subseteq Objs /\ packs \in [DOMAIN packs -> {"old", "young"}]
  /\ fresh \subseteq DOMAIN packs

\* Each log is of the session's current incarnation, and with an entry it
\* holds the entry's parent.
LogsOK ==
  /\ logs \in [Sessions -> Logs]
  /\ \A s \in Sessions :
       /\ logs[s].inc <= ops + 1
       /\ logs[s].inc = 0 => logs[s].base = NoEntry /\ logs[s].recs = <<>>
       /\ Upward(EntriesOf(logs[s]))

\* What is being packed is in a pack; nothing is, in the steps a sweep takes
\* alone.
PackingOK ==
  /\ packing \in [by : {"none", "commit", "pack"}, objs : Objs]
  /\ packing.by = "none" => packing = NotPacking
  /\ packing.objs \subseteq UNION DOMAIN packs
  /\ sw /= Asleep => packing.by /= "pack"
  /\ Exclusive => packing = NotPacking

\* An append: its session is there and holds the entry's parent.
AppendOK(c) ==
  /\ c.step = "write" => c.todo \in {<<ContentOf[c.e], c.e>>, <<c.e>>}
  /\ c.step /= "write" => c.todo = <<>>
  /\ c.blobs \subseteq BlobsOf[ContentOf[c.e]]
  /\ logs[c.s].inc > 0
  /\ ParentOf[c.e] \in EntriesOf(logs[c.s]) \cup {NoEntry}

\* A fork: where it is on its base's path; its session is not there yet.
ForkOK(c) ==
  /\ c.step = "checked" => c.at = c.e
  /\ c.step = "write" => c.todo \in {Pair(c.at), <<ContentOf[c.at]>>}
  /\ logs[c.s].inc = 0

\* The calls; none has the sweep's lock shared while the sweep has it alone.
CallsOK ==
  /\ pc \in [Writers -> Calls]
  /\ \A w \in Writers : pc[w].op = "append" => AppendOK(pc[w])
  /\ \A w \in Writers : pc[w].op = "fork" => ForkOK(pc[w])
  /\ \A v, w \in Writers :
       v /= w /\ pc[v].op = pc[w].op /\ pc[v].op \in {"append", "fork"} => pc[v].s /= pc[w].s
  /\ Exclusive => \A w \in Writers : ~Guarded(w)

\* The objects of an entry and of those above it.
WholePath(e) == UNION {Whole(x) : x \in PathTo(e)}

\* What a call has written or freshened, and counts on when it records it.
Promised(c) ==
  IF c.op = "append" THEN (Whole(c.e) \ {c.todo[i] : i \in DOMAIN c.todo}) \cup c.blobs
  ELSE IF c.op = "pin" THEN WholePath(c.e)
  ELSE IF c.op = "fork" /\ c.step = "place" THEN WholePath(c.e)
  ELSE IF c.op = "fork" /\ c.step = "write"
  THEN (UNION {Whole(x) : x \in PathTo(c.e) \ PathTo(c.at)}) \cup (Whole(c.at) \ {c.todo[i] : i \in DOMAIN c.todo})
  ELSE {}

\* After the rescue: the sweep has only removals before it.
Late == sw.phase \in {"remove", "dups", "duplicates", "prune"}

\* The packs the sweep's removals leave.
Remaining == IF sw.phase = "remove" THEN DOMAIN packs \ (sw.old \ {sw.new}) ELSE DOMAIN packs

\* What the sweep's removals leave of an object.
Lasting(o) == (loose[o] /= "none" /\ ~Pruned(o)) \/ \E p \in Remaining : o \in p

\* Held, and to be held whatever of the sweep's removals is still to come.
Kept(o) == IF Late THEN Lasting(o) ELSE Held(o)

\* While the sweep remembers how far it read each log.
Marking == sw.phase \in {"keep", "scanned", "packed", "since"}

\* The mark is of the log as it is, not of one deleted since.
Marked(s) == logs[s].inc > 0 /\ sw.marks[s].inc = logs[s].inc

\* No mark is of an incarnation to come, or beyond its log.
MarksOK ==
  Marking =>
    \A s \in Sessions :
      /\ sw.marks[s].inc <= ops + 1
      /\ logs[s].inc = 0 => sw.marks[s].inc <= ops
      /\ Marked(s) => sw.marks[s].n <= Len(logs[s].recs)

\* What the first n records of a log name, and its base.
MarkedIn(log, n) ==
  (UNION {Whole(log.recs[i].entry) \cup log.recs[i].blobs : i \in 1..n})
  \cup (IF log.base = NoEntry THEN {} ELSE WholePath(log.base))
MarkedObjs(s) == MarkedIn(logs[s], sw.marks[s].n)

\* The sweep has the object for its new pack.
Found(o) ==
  CASE sw.phase = "keep" -> o \in sw.keep
    [] sw.phase = "scanned" -> o \in sw.keep /\ (o \in sw.take \/ \E p \in DOMAIN packs : o \in p)
    [] OTHER -> o \in sw.new

\* What a mark stands for was found.
FoundOK ==
  /\ Marking => \A s \in Sessions : Marked(s) => \A o \in MarkedObjs(s) : Found(o)
  /\ sw.phase \in {"packed", "since", "remove"} => (sw.new = {} \/ sw.new \in DOMAIN packs) /\ sw.dup \subseteq sw.new
  /\ sw.phase = "dups" => sw.dup \subseteq UNION DOMAIN packs

\* What is named, and what a call promises to name, is kept.
NamedKept == \A o \in Named : Kept(o)
PromisesKept == \A w \in Writers : \A o \in Promised(pc[w]) : Kept(o)

\* The other variables' types.
Typed ==
  /\ types \subseteq Blobs /\ refs \in [Refs -> Entries \cup {NoEntry}]
  /\ ops \in Nat /\ ops <= MaxOps /\ sw \in Sweeps

\* The inductive invariant.
IInv == /\ Typed /\ DiskOK /\ LogsOK /\ PackingOK /\ CallsOK /\ MarksOK /\ FoundOK
        /\ NamedKept /\ PromisesKept

\* An object a sweep alone is to take: it is not needed, the sweep does not
\* keep it, and what holds it is old, then listed for removal, then gone.
Unneeded(o) ==
  /\ o \notin Needed
  /\ sw.phase \in {"keep", "scanned"} =>
       /\ o \notin sw.keep /\ loose[o] /= "young"
       /\ \A p \in DOMAIN packs : o \in p => packs[p] = "old"
  /\ sw.phase = "scanned" => o \notin sw.take /\ (loose[o] = "old" => o \in sw.prune)
  /\ sw.phase \in {"packed", "since", "remove"} =>
       /\ o \notin sw.new
       /\ \A p \in DOMAIN packs : o \in p => p \in sw.old \ {sw.new} /\ p \notin fresh
  /\ sw.phase \in {"packed", "since", "remove", "dups", "duplicates", "prune"} =>
       loose[o] /= "young" /\ (loose[o] = "old" => o \in sw.prune)
  /\ Late => o \notin sw.since
  /\ sw.phase \in {"dups", "duplicates", "prune", "types"} => \A p \in DOMAIN packs : o \notin p
  /\ sw.phase = "types" => loose[o] = "none"

\* While nothing else runs beside a sweep its garbage is still to be taken.
QuietInv ==
  sw /= Asleep =>
    /\ sw.quiet <= ops \/ sw.quiet = MaxOps + 1
    /\ sw.quiet = ops => /\ \A w \in Writers : pc[w] = Idle
                         /\ \A o \in sw.garbage : Unneeded(o)


\* The objects an entry names.
LEMMA NamesAre ==
  /\ \A e \in Entries : ContentOf[e] \in Contents /\ ContentOf[e] \in Objects /\ e \in Objects
  /\ \A e \in Entries : ParentOf[e] \in Entries \cup {NoEntry}
  /\ \A e \in Entries : BlobsOf[ContentOf[e]] \subseteq Blobs
  /\ NoEntry \notin Entries /\ MaxOps \in Nat /\ Blobs \subseteq Objects /\ Entries \subseteq Objects
BY NamesAssumption DEF Objects, Contents

\* An entry and its content are objects.
LEMMA WholeIs == \A e \in Entries : Whole(e) \subseteq Objects /\ e \in Whole(e) /\ ContentOf[e] \in Whole(e)
BY NamesAre DEF Whole

\* An entry is on its path, a path is of entries.
LEMMA PathHas == \A e \in Entries : e \in PathTo(e) /\ PathTo(e) \subseteq Entries
BY DEF PathTo

\* A path is in every upward set that has its end.
LEMMA PathIn ==
  ASSUME NEW e \in Entries, NEW S \in SUBSET Entries, e \in S, Upward(S)
  PROVE  PathTo(e) \subseteq S
BY DEF PathTo

\* A path is upward.
LEMMA PathUp == \A e \in Entries : Upward(PathTo(e))
<1> SUFFICES ASSUME NEW e \in Entries, NEW y \in PathTo(e) PROVE ParentOf[y] \in PathTo(e) \cup {NoEntry}
  BY DEF Upward
<1>1. y \in Entries /\ ParentOf[y] \in Entries \cup {NoEntry}
  BY PathHas, NamesAre
<1>2. CASE ParentOf[y] = NoEntry
  BY <1>2
<1>3. CASE ParentOf[y] \in Entries
  <2>1. ASSUME NEW S \in SUBSET Entries, e \in S, Upward(S) PROVE ParentOf[y] \in S
    <3>1. y \in S
      BY <2>1, PathIn
    <3> QED BY <3>1, <2>1, <1>3, NamesAre DEF Upward
  <2> QED BY <2>1, <1>3 DEF PathTo
<1> QED BY <1>1, <1>2, <1>3

\* A step up the path.
LEMMA PathStep ==
  ASSUME NEW e \in Entries
  PROVE  /\ ParentOf[e] = NoEntry => PathTo(e) \subseteq {e}
         /\ ParentOf[e] /= NoEntry => PathTo(e) \subseteq {e} \cup PathTo(ParentOf[e])
<1>1. ASSUME ParentOf[e] = NoEntry PROVE PathTo(e) \subseteq {e}
  <2>1. Upward({e})
    BY <1>1 DEF Upward
  <2> QED BY <2>1, PathIn
<1>2. ASSUME ParentOf[e] /= NoEntry PROVE PathTo(e) \subseteq {e} \cup PathTo(ParentOf[e])
  <2>0. ParentOf[e] \in Entries
    BY <1>2, NamesAre
  <2>1. PathTo(ParentOf[e]) \subseteq Entries /\ ParentOf[e] \in PathTo(ParentOf[e])
    BY <2>0, PathHas
  <2>2. Upward(PathTo(ParentOf[e]))
    BY <2>0, PathUp
  <2>3. Upward({e} \cup PathTo(ParentOf[e]))
    BY <2>1, <2>2 DEF Upward
  <2> QED BY <2>1, <2>3, PathIn
<1> QED BY <1>1, <1>2

\* A path's objects are objects.
LEMMA WholePathIs == \A e \in Entries : WholePath(e) \subseteq Objects
BY PathHas, WholeIs DEF WholePath

\* What the sweep's record holds at each phase.
LEMMA SweepShape ==
  ASSUME sw \in Sweeps
  PROVE  /\ sw.phase = "idle" => sw = Asleep
         /\ sw = Asleep => sw.phase = "idle"
         /\ sw.phase = "keep" => sw \in Keeping
         /\ sw.phase = "scanned" => sw \in Scanned
         /\ sw.phase \in {"packed", "since"} => sw \in Packed
         /\ sw.phase = "remove" => sw \in Rescued
         /\ sw.phase = "dups" => sw \in Replaced
         /\ sw.phase \in {"duplicates", "prune"} => sw \in Pruning
         /\ sw.phase = "types" => sw \in Ending
         /\ sw.phase \in {"idle", "keep", "scanned", "packed", "since", "remove", "dups", "duplicates",
                          "prune", "types"}
BY DEF Sweeps, Asleep, Keeping, Scanned, Packed, Rescued, Replaced, Pruning, Ending

\* What a call's record holds, by its operation.
LEMMA CallShape ==
  ASSUME NEW c \in Calls
  PROVE  /\ c.op = "idle" => c = Idle
         /\ c = Idle => c.op = "idle"
         /\ c.op = "append" => c \in Appends
         /\ c.op = "put" => c \in Puts
         /\ c.op = "fork" => c \in Forks
         /\ c.op = "pin" => c \in Pins
         /\ c.op \in {"idle", "append", "put", "fork", "pin"}
BY DEF Calls, Idle, Appends, Puts, Forks, Pins

\* What a log names, object by object.
LEMMA InNamedBy ==
  \A log, o : o \in NamedBy(log) <=> \/ \E e \in EntriesOf(log) : o \in Whole(e)
                                   \/ \E i \in DOMAIN log.recs : o \in log.recs[i].blobs
<1> SUFFICES ASSUME NEW log, NEW o
             PROVE  o \in NamedBy(log) <=> \/ \E e \in EntriesOf(log) : o \in Whole(e)
                                          \/ \E i \in DOMAIN log.recs : o \in log.recs[i].blobs
  OBVIOUS
<1> DEFINE A == UNION {Whole(e) : e \in EntriesOf(log)}
           B == UNION {log.recs[i].blobs : i \in DOMAIN log.recs}
<1>1. o \in A <=> \E e \in EntriesOf(log) : o \in Whole(e)
  OBVIOUS
<1>2. o \in B <=> \E i \in DOMAIN log.recs : o \in log.recs[i].blobs
  OBVIOUS
<1>3. NamedBy(log) = A \cup B
  BY Zenon DEF NamedBy
<1> HIDE DEF A, B
<1>4. o \in NamedBy(log) <=> o \in A \/ o \in B
  BY <1>3
<1> QED BY <1>1, <1>2, <1>4, Zenon

\* What a path holds.
LEMMA InWholePath == \A e, o : o \in WholePath(e) <=> \E x \in PathTo(e) : o \in Whole(x)
BY DEF WholePath

\* What the store names, object by object.
LEMMA InNamed ==
  \A o : o \in Named <=> \/ \E s \in Sessions : o \in NamedBy(logs[s])
                         \/ \E r \in Refs : refs[r] /= NoEntry /\ o \in WholePath(refs[r])
<1> SUFFICES ASSUME NEW o
             PROVE  o \in Named <=> \/ \E s \in Sessions : o \in NamedBy(logs[s])
                                   \/ \E r \in Refs : refs[r] /= NoEntry /\ o \in WholePath(refs[r])
  OBVIOUS
<1> DEFINE Logged == UNION {NamedBy(logs[s]) : s \in Sessions}
           Pinned == UNION {WholePath(refs[r]) : r \in {q \in Refs : refs[q] /= NoEntry}}
<1>1. o \in Logged <=> \E s \in Sessions : o \in NamedBy(logs[s])
  OBVIOUS
<1>2. o \in Pinned <=> \E r \in Refs : refs[r] /= NoEntry /\ o \in WholePath(refs[r])
  OBVIOUS
<1>3. Named = Logged \cup Pinned
  BY Zenon DEF Named, WholePath
<1> HIDE DEF Logged, Pinned
<1>4. o \in Named <=> o \in Logged \/ o \in Pinned
  BY <1>3
<1> QED BY <1>1, <1>2, <1>4, Zenon

\* What a log holds is of entries and objects.
LEMMA LogShape ==
  ASSUME NEW log \in Logs
  PROVE  /\ EntriesOf(log) \subseteq Entries
         /\ NamedBy(log) \subseteq Objects
         /\ \A i \in DOMAIN log.recs : log.recs[i] \in Records
<1>1. /\ log.inc \in Nat /\ log.base \in Entries \cup {NoEntry} /\ log.recs \in Seq(Records)
  BY DEF Logs
<1>2. \A i \in DOMAIN log.recs : log.recs[i] \in Records
  BY <1>1
<1>3. \A r \in Records : r.entry \in Entries /\ r.blobs \subseteq Blobs
  BY DEF Records
<1>4. EntriesOf(log) \subseteq Entries
  BY <1>1, <1>2, <1>3, PathHas DEF EntriesOf
<1>5. NamedBy(log) \subseteq Objects
  BY <1>2, <1>3, <1>4, WholeIs, NamesAre, InNamedBy
<1> QED BY <1>2, <1>4, <1>5

\* What is named is of objects.
LEMMA NamedShape ==
  ASSUME LogsOK, refs \in [Refs -> Entries \cup {NoEntry}]
  PROVE  Named \subseteq Objects
<1>1. \A s \in Sessions : NamedBy(logs[s]) \subseteq Objects
  BY LogShape DEF LogsOK
<1>2. \A r \in Refs : refs[r] /= NoEntry => WholePath(refs[r]) \subseteq Objects
  BY WholePathIs
<1> QED BY <1>1, <1>2, InNamed

\* What is promised is of objects.
LEMMA PromisedShape ==
  ASSUME NEW c \in Calls
  PROVE  Promised(c) \subseteq Objects
<1>1. CASE c.op = "append"
  <2>1. c.e \in Entries /\ c.blobs \subseteq Blobs
    BY <1>1, CallShape DEF Appends
  <2>2. Promised(c) \subseteq Whole(c.e) \cup c.blobs
    BY <1>1 DEF Promised
  <2> QED BY <2>1, <2>2, WholeIs, NamesAre
<1>2. CASE c.op = "pin"
  <2>1. c.e \in Entries
    BY <1>2, CallShape DEF Pins
  <2> QED BY <2>1, <1>2, WholePathIs DEF Promised
<1>3. CASE c.op = "fork"
  <2>1. c.e \in Entries /\ c.at \in Entries
    BY <1>3, CallShape DEF Forks
  <2> DEFINE P == UNION {Whole(x) : x \in PathTo(c.e) \ PathTo(c.at)}
             Q == Whole(c.at) \ {c.todo[i] : i \in DOMAIN c.todo}
  <2>2. P \subseteq WholePath(c.e) /\ Q \subseteq Whole(c.at)
    BY DEF WholePath
  <2>4. Promised(c) = IF c.step = "place" THEN WholePath(c.e) ELSE IF c.step = "write" THEN P \cup Q ELSE {}
    BY <1>3 DEF Promised
  <2> HIDE DEF P, Q
  <2>3. Promised(c) \subseteq WholePath(c.e) \cup Whole(c.at)
    BY <2>2, <2>4
  <2> QED BY <2>1, <2>3, WholePathIs, WholeIs
<1> QED BY <1>1, <1>2, <1>3 DEF Promised

-----------------------------------------------------------------------------
(* What keeps what is held.                                                *)

\* A step takes nothing that was to be kept.
KeptStays == \A o \in Objects : Kept(o) => Kept(o)'

\* With the sweep where it was, and not at the removal of packs, an object
\* keeps its place while its loose copy, or a pack, stays.
LEMMA KeepsItsPlace ==
  ASSUME DiskOK, sw' = sw, sw.phase /= "remove", NEW o \in Objects,
         \/ loose'[o] = loose[o]
         \/ loose'[o] = "young"
         \/ \E p \in DOMAIN packs' : o \in p,
         DOMAIN packs \subseteq DOMAIN packs'
  PROVE  Kept(o) => Kept(o)'
<1>1. Remaining = DOMAIN packs /\ Remaining' = DOMAIN packs'
  BY DEF Remaining
<1>2. (\E p \in DOMAIN packs : o \in p) => \E p \in DOMAIN packs' : o \in p
  OBVIOUS
<1>3. Late' = Late
  BY DEF Late
<1>4. Pruned(o) <=> o \in sw.prune /\ loose[o] = "old" /\ o \notin sw.since
  BY DEF Pruned
<1>5. Pruned(o)' <=> o \in sw.prune /\ loose'[o] = "old" /\ o \notin sw.since
  BY DEF Pruned
<1>6. Held(o) <=> loose[o] /= "none" \/ \E p \in DOMAIN packs : o \in p
  BY DEF Held, HeldIn
<1>7. Held(o)' <=> loose'[o] /= "none" \/ \E p \in DOMAIN packs' : o \in p
  BY DEF Held, HeldIn
<1>8. Lasting(o) <=> (loose[o] /= "none" /\ ~Pruned(o)) \/ \E p \in DOMAIN packs : o \in p
  BY <1>1 DEF Lasting
<1>9. Lasting(o)' <=> (loose'[o] /= "none" /\ ~Pruned(o)') \/ \E p \in DOMAIN packs' : o \in p
  BY <1>1 DEF Lasting
<1>10. Kept(o) = IF Late THEN Lasting(o) ELSE Held(o)
  BY DEF Kept
<1>11. Kept(o)' = IF Late' THEN Lasting(o)' ELSE Held(o)'
  BY DEF Kept
<1> QED BY <1>2, <1>3, <1>4, <1>5, <1>6, <1>7, <1>8, <1>9, <1>10, <1>11

\* Writing an object keeps it, and every other.
LEMMA WriteKeeps ==
  ASSUME DiskOK, sw' = sw, sw.phase /= "remove", NEW x \in Objects, WriteTo(x)
  PROVE  DiskOK' /\ KeptStays /\ Kept(x)' /\ DOMAIN packs' = DOMAIN packs
<1> DEFINE at == {p \in DOMAIN packs : x \in p}
<1>1. CASE loose[x] /= "none" \/ at = {}
  <2>1. loose' = [loose EXCEPT ![x] = "young"] /\ packs' = packs /\ fresh' = fresh
    BY <1>1 DEF WriteTo
  <2>2. DiskOK'
    BY <2>1 DEF DiskOK
  <2>3. loose'[x] = "young" /\ \A o \in Objects : loose'[o] = loose[o] \/ loose'[o] = "young"
    BY <2>1 DEF DiskOK
  <2>4. KeptStays
    BY <2>1, <2>3, KeepsItsPlace DEF KeptStays
  <2>5. Held(x)' /\ Lasting(x)'
    BY <2>3 DEF Held, HeldIn, Lasting, Pruned
  <2> QED BY <2>1, <2>2, <2>4, <2>5 DEF Kept
<1>2. CASE ~(loose[x] /= "none" \/ at = {})
  <2>1. PICK p \in DOMAIN packs : x \in p /\ packs' = [packs EXCEPT ![p] = "young"] /\ fresh' = fresh \cup {p} /\ loose' = loose
    BY <1>2 DEF WriteTo
  <2>2. DOMAIN packs' = DOMAIN packs
    BY <2>1
  <2>3. DiskOK'
    BY <2>1, <2>2 DEF DiskOK
  <2>4. KeptStays
    BY <2>1, <2>2, KeepsItsPlace DEF KeptStays
  <2>5. Remaining' = DOMAIN packs'
    BY DEF Remaining
  <2>6. Held(x)' /\ Lasting(x)'
    BY <2>1, <2>2, <2>5 DEF Held, HeldIn, Lasting
  <2> QED BY <2>2, <2>3, <2>4, <2>6 DEF Kept
<1> QED BY <1>1, <1>2

\* A pack more takes nothing.
LEMMA PackKeeps ==
  ASSUME DiskOK, sw.phase /= "remove", NEW by, NEW objs \in Objs, PackObjects(by, objs)
  PROVE  DiskOK' /\ KeptStays /\ DOMAIN packs' = DOMAIN packs \cup {objs}
<1>1. packs' = [q \in DOMAIN packs \cup {objs} |-> IF q = objs THEN "young" ELSE packs[q]]
  BY DEF PackObjects, WithPack
<1>2. fresh' = fresh \cup {objs} /\ loose' = loose /\ sw' = sw
  BY DEF PackObjects
<1>3. DOMAIN packs' = DOMAIN packs \cup {objs}
  BY <1>1
<1>4. DiskOK'
  BY <1>1, <1>2, <1>3 DEF DiskOK
<1>5. KeptStays
  BY <1>2, <1>3, KeepsItsPlace DEF KeptStays
<1> QED BY <1>3, <1>4, <1>5

\* Nor does removing loose copies a pack holds.
LEMMA RemovePackedKeeps ==
  ASSUME DiskOK, PackingOK, RemovePacked
  PROVE  DiskOK' /\ KeptStays
<1>1. loose' = [o \in Objects |-> IF o \in packing.objs THEN "none" ELSE loose[o]]
  BY DEF RemovePacked
<1>2. packs' = packs /\ fresh' = fresh /\ sw' = sw
  BY DEF RemovePacked
<1>3. sw.phase /= "remove"
  BY DEF RemovePacked, PackingOK, Exclusive
<1>4. DiskOK'
  BY <1>1, <1>2 DEF DiskOK
<1>5. \A o \in Objects : loose'[o] = loose[o] \/ \E p \in DOMAIN packs' : o \in p
  BY <1>1, <1>2 DEF PackingOK
<1>6. KeptStays
  BY <1>2, <1>3, <1>5, KeepsItsPlace DEF KeptStays
<1> QED BY <1>4, <1>6

\* Merging packs (Consolidate) takes nothing.
LEMMA MergeKeeps ==
  ASSUME DiskOK, Consolidate
  PROVE  DiskOK' /\ KeptStays /\ UNION DOMAIN packs' = UNION DOMAIN packs
<1>1. packs' = [p \in {UNION DOMAIN packs} |-> "young"] /\ fresh' = {} /\ loose' = loose /\ sw' = sw /\ sw = Asleep
  BY DEF Consolidate
<1>2. DOMAIN packs' = {UNION DOMAIN packs}
  BY <1>1
<1>3. UNION DOMAIN packs \in Objs
  BY DEF DiskOK, Objs
<1>4. DiskOK'
  BY <1>1, <1>2, <1>3 DEF DiskOK
<1>5. ~Late /\ ~Late'
  BY <1>1 DEF Late, Asleep
<1>6. \A o : Held(o) => Held(o)'
  BY <1>1, <1>2 DEF Held, HeldIn
<1>7. KeptStays
  BY <1>5, <1>6 DEF KeptStays, Kept
<1> QED BY <1>2, <1>4, <1>7

\* Nor does the grace's passing.
LEMMA AgeKeeps ==
  ASSUME DiskOK, Age
  PROVE  DiskOK' /\ KeptStays /\ DOMAIN packs' = DOMAIN packs
<1>1. /\ loose' = [o \in Objects |-> IF loose[o] = "none" THEN "none" ELSE "old"]
      /\ packs' = [p \in DOMAIN packs |-> "old"] /\ fresh' = {} /\ sw' = sw /\ sw = Asleep
  BY DEF Age
<1>2. DOMAIN packs' = DOMAIN packs
  BY <1>1
<1>3. DiskOK'
  BY <1>1, <1>2 DEF DiskOK
<1>4. ~Late /\ ~Late'
  BY <1>1 DEF Late, Asleep
<1>5. \A o \in Objects : Held(o) => Held(o)'
  BY <1>1, <1>2 DEF Held, HeldIn
<1>6. KeptStays
  BY <1>4, <1>5 DEF KeptStays, Kept
<1> QED BY <1>2, <1>3, <1>6

\* With disk and sweep as they were.
LEMMA StillKeeps ==
  ASSUME DiskOK, UNCHANGED disk, sw' = sw
  PROVE  DiskOK' /\ KeptStays
<1>1. loose' = loose /\ packs' = packs /\ fresh' = fresh
  BY DEF disk
<1>2. DiskOK'
  BY <1>1 DEF DiskOK
<1>3. \A o \in Objects : Kept(o)' = Kept(o)
  BY <1>1 DEF Kept, Late, Held, HeldIn, Lasting, Pruned, Remaining
<1> QED BY <1>2, <1>3 DEF KeptStays

-----------------------------------------------------------------------------
(* What the sweep's first steps keep.                                      *)

\* What a sweep keeps of an entry or a path is of objects.
LEMMA KeepShape ==
  /\ \A e \in Entries : KeepEntry(e) \subseteq Objects
  /\ \A e \in Entries \cup {NoEntry} : KeepPath(e) \subseteq Objects /\ KeepPin(e) \subseteq Objects
<1>1. \A e \in Entries : KeepEntry(e) \subseteq Objects
  BY NamesAre DEF KeepEntry
<1>2. \A e \in Entries : UNION {KeepEntry(x) : x \in PathTo(e)} \subseteq Objects
  BY <1>1, PathHas
<1>3. \A e \in Entries \cup {NoEntry} : KeepPath(e) \subseteq Objects
  BY <1>2 DEF KeepPath
<1>4. \A e \in Entries \cup {NoEntry} : KeepPin(e) \subseteq Objects
  BY <1>3 DEF KeepPin
<1> QED BY <1>1, <1>3, <1>4

\* What a sweep keeps for the refs is of objects.
LEMMA KeepRefsShape ==
  ASSUME refs \in [Refs -> Entries \cup {NoEntry}]
  PROVE  KeepRefs \subseteq Objects
<1>1. \A r \in Refs : KeepPin(refs[r]) \subseteq Objects
  BY KeepShape
<1> QED BY <1>1 DEF KeepRefs

\* What a log adds: its base's path when it is another file, and the
\* entries beyond the mark.
LEMMA InKeepLog ==
  ASSUME NEW s, NEW m, NEW o
  PROVE  o \in KeepLog(s, m) <=>
           \/ m.inc /= logs[s].inc /\ o \in KeepPath(logs[s].base)
           \/ \E i \in (IF m.inc = logs[s].inc THEN m.n ELSE 0) + 1..Len(logs[s].recs) :
                o \in KeepEntry(logs[s].recs[i].entry)
<1> DEFINE from == IF m.inc = logs[s].inc THEN m.n ELSE 0
           A == IF m.inc = logs[s].inc THEN {} ELSE KeepPath(logs[s].base)
           B == UNION {KeepEntry(logs[s].recs[i].entry) : i \in from + 1..Len(logs[s].recs)}
<1>1. KeepLog(s, m) = A \cup B
  BY Zenon DEF KeepLog
<1>2. o \in A <=> m.inc /= logs[s].inc /\ o \in KeepPath(logs[s].base)
  OBVIOUS
<1>3. o \in B <=> \E i \in from + 1..Len(logs[s].recs) : o \in KeepEntry(logs[s].recs[i].entry)
  OBVIOUS
<1> HIDE DEF A, B
<1>4. o \in KeepLog(s, m) <=> o \in A \/ o \in B
  BY <1>1
<1> QED BY <1>2, <1>3, <1>4, Zenon

\* What a sweep keeps of a log is of objects.
LEMMA KeepLogShape ==
  ASSUME NEW s \in Sessions, LogsOK, NEW m, m.n \in Nat
  PROVE  KeepLog(s, m) \subseteq Objects
<1>1. logs[s] \in Logs
  BY DEF LogsOK
<1>2. logs[s].base \in Entries \cup {NoEntry} /\ logs[s].recs \in Seq(Records)
  BY <1>1 DEF Logs
<1>3. \A r \in Records : r.entry \in Entries
  BY DEF Records
<1>4. \A i \in 1..Len(logs[s].recs) : KeepEntry(logs[s].recs[i].entry) \subseteq Objects
  BY <1>2, <1>3, KeepShape
<1>5. PICK k : k = IF m.inc = logs[s].inc THEN m.n ELSE 0
  OBVIOUS
<1>6. k \in Nat
  BY <1>5
<1>7. \A i \in k + 1..Len(logs[s].recs) : i \in 1..Len(logs[s].recs)
  BY <1>6, <1>2
<1>8. \A i \in k + 1..Len(logs[s].recs) : KeepEntry(logs[s].recs[i].entry) \subseteq Objects
  BY <1>4, <1>7
<1>9. KeepPath(logs[s].base) \subseteq Objects
  BY <1>2, KeepShape
<1> QED BY <1>5, <1>8, <1>9, InKeepLog

\* What was named since the keep set is of objects.
LEMMA SinceShape ==
  ASSUME sw \in Packed, LogsOK, refs \in [Refs -> Entries \cup {NoEntry}]
  PROVE  Since \subseteq Objects
<1>1. \A s \in Sessions : sw.marks[s].n \in Nat
  BY DEF Packed, Marks
<1>2. \A s \in Live : KeepLog(s, sw.marks[s]) \subseteq Objects
  BY <1>1, KeepLogShape DEF Live
<1>3. KeepRefs \subseteq Objects
  BY KeepRefsShape
<1> QED BY <1>2, <1>3 DEF Since

-----------------------------------------------------------------------------
(* Each step of the sweep. *)

\* The sweep's steps up to its lock take nothing: its beginning,
LEMMA StartSweepKeeps ==
  ASSUME DiskOK, ops \in Nat, StartSweep
  PROVE  DiskOK' /\ sw' \in Keeping /\ KeptStays
<1>1. loose' = loose /\ packs' = packs /\ fresh' = fresh
  BY DEF StartSweep, disk
<1>2. sw' = [phase |-> "keep", list |-> Live, keep |-> {}, marks |-> [s \in Sessions |-> NoMark],
           quiet |-> IF \A w \in Writers : pc[w] = Idle THEN ops ELSE MaxOps + 1,
           garbage |-> {o \in Objects \ Needed : /\ loose[o] /= "young"
                                                 /\ \A p \in DOMAIN packs : o \in p => packs[p] = "old"}]
  BY DEF StartSweep, Step
<1>3. [s \in Sessions |-> NoMark] \in Marks
  BY DEF Marks, NoMark
<1>4. (IF \A w \in Writers : pc[w] = Idle THEN ops ELSE MaxOps + 1) \in Nat
  BY NamesAre
<1>5. Live \in SUBSET Sessions
  BY DEF Live
<1>6. sw' \in Keeping
  BY <1>2, <1>3, <1>4, <1>5 DEF Keeping, Objs
<1>7. ~Late /\ ~Late'
  BY <1>6 DEF Late, StartSweep, Asleep, Keeping
<1>8. KeptStays
  BY <1>1, <1>7 DEF KeptStays, Kept, Held, HeldIn
<1>9. DiskOK'
  BY <1>1 DEF DiskOK
<1> QED BY <1>6, <1>8, <1>9

\* a session read,
LEMMA KeepSessionKeeps ==
  ASSUME DiskOK, LogsOK, sw \in Sweeps, NEW s \in Sessions, KeepSession(s)
  PROVE  DiskOK' /\ sw' \in Sweeps /\ KeptStays /\ sw'.phase \in {"idle", "keep"}
<1>1. loose' = loose /\ packs' = packs /\ fresh' = fresh
  BY DEF KeepSession, disk
<1>2. sw \in Keeping
  BY SweepShape DEF KeepSession
<1>3. sw' = IF logs[s].inc = 0 THEN Asleep
            ELSE [sw EXCEPT !.list = @ \ {s}, !.keep = @ \cup KeepLog(s, NoMark), !.marks[s] = MarkOf(s)]
  BY DEF KeepSession, Step
<1>4. KeepLog(s, NoMark) \subseteq Objects
  BY KeepLogShape DEF NoMark
<1>5. logs[s] \in Logs
  BY DEF LogsOK
<1>6. MarkOf(s) \in [inc : Nat, n : Nat]
  BY <1>5 DEF MarkOf, Logs
<1>7. PICK m : m = [sw.marks EXCEPT ![s] = MarkOf(s)]
  OBVIOUS
<1>8. m \in Marks
  BY <1>2, <1>6, <1>7 DEF Keeping, Marks
<1>9. PICK k : k = sw.keep \cup KeepLog(s, NoMark)
  OBVIOUS
<1>10. k \in Objs
  BY <1>2, <1>4, <1>9 DEF Keeping, Objs
<1>11. logs[s].inc /= 0 => sw' = [sw EXCEPT !.list = @ \ {s}, !.keep = k, !.marks = m]
  BY <1>2, <1>3, <1>7, <1>9 DEF Keeping
<1>12. logs[s].inc /= 0 => sw' \in Keeping
  BY <1>2, <1>8, <1>10, <1>11 DEF Keeping
<1>13. sw' \in Sweeps /\ sw'.phase \in {"idle", "keep"}
  BY <1>3, <1>12 DEF Sweeps, Keeping, Asleep
<1>14. ~Late /\ ~Late'
  BY <1>2, <1>13 DEF Late, Keeping
<1>15. KeptStays
  BY <1>1, <1>14 DEF KeptStays, Kept, Held, HeldIn
<1>16. DiskOK'
  BY <1>1 DEF DiskOK
<1> QED BY <1>13, <1>15, <1>16

\* the loose objects listed,
LEMMA ScanLooseKeeps ==
  ASSUME DiskOK, refs \in [Refs -> Entries \cup {NoEntry}], sw \in Sweeps, ScanLoose
  PROVE  DiskOK' /\ sw' \in Scanned /\ KeptStays
<1>1. loose' = loose /\ packs' = packs /\ fresh' = fresh
  BY DEF ScanLoose, disk
<1>2. sw \in Keeping
  BY SweepShape DEF ScanLoose
<1>3. PICK k : k = sw.keep \cup KeepRefs
  OBVIOUS
<1>4. sw' = [phase |-> "scanned", keep |-> k, marks |-> sw.marks, quiet |-> sw.quiet, garbage |-> sw.garbage,
               take  |-> {o \in k : loose[o] /= "none"},
               prune |-> {o \in Objects \ k : loose[o] = "old"}]
  BY <1>3 DEF ScanLoose, Step
<1>5. k \in Objs
  BY <1>2, <1>3, KeepRefsShape DEF Keeping, Objs
<1>6. sw' \in Scanned
  BY <1>2, <1>4, <1>5 DEF Scanned, Keeping, Objs
<1>7. ~Late /\ ~Late'
  BY <1>2, <1>6 DEF Late, Keeping, Scanned
<1>8. KeptStays
  BY <1>1, <1>7 DEF KeptStays, Kept, Held, HeldIn
<1>9. DiskOK'
  BY <1>1 DEF DiskOK
<1> QED BY <1>6, <1>8, <1>9

\* The new pack, and the young objects it leaves out that go back loose.
NewPack == {o \in sw.take : loose[o] /= "none"} \cup (sw.keep \cap UNION DOMAIN packs)
Orphans == {o \in (UNION SparedPacks) \ sw.keep : loose[o] = "none"}

\* the pack written,
LEMMA RepackKeeps ==
  ASSUME DiskOK, sw \in Sweeps, Repack
  PROVE  /\ DiskOK' /\ sw' \in Packed /\ KeptStays
         /\ sw \in Scanned /\ sw'.phase = "packed" /\ sw'.marks = sw.marks /\ sw'.new = NewPack
         /\ sw'.old = DOMAIN packs /\ sw'.prune = sw.prune /\ sw'.dup = sw.take \cap NewPack
         /\ sw'.quiet = sw.quiet /\ sw'.garbage = sw.garbage
         /\ DOMAIN packs' = IF NewPack = {} THEN DOMAIN packs ELSE DOMAIN packs \cup {NewPack}
         /\ fresh' = {}
         /\ loose' = [o \in Objects |-> IF o \in Orphans THEN "young" ELSE loose[o]]
<1>1. sw \in Scanned
  BY SweepShape DEF Repack
<1>2. /\ packs' = IF NewPack = {} THEN packs ELSE WithPack(NewPack)
      /\ fresh' = {}
      /\ loose' = [o \in Objects |-> IF o \in Orphans THEN "young" ELSE loose[o]]
      /\ sw' = [phase |-> "packed", marks |-> sw.marks, prune |-> sw.prune, old |-> DOMAIN packs, new |-> NewPack,
                  dup |-> sw.take \cap NewPack, quiet |-> sw.quiet, garbage |-> sw.garbage]
  BY Zenon DEF Repack, Step, NewPack, Orphans
<1>3. NewPack \in Objs
  BY <1>1 DEF NewPack, Scanned, Objs
<1>4. sw.take \cap NewPack \in Objs
  BY <1>1 DEF Scanned, Objs
<1>5. DOMAIN packs \in SUBSET Objs
  BY DEF DiskOK
<1>6. sw' \in Packed
  BY <1>1, <1>2, <1>3, <1>4, <1>5 DEF Packed, Scanned
<1>7. DOMAIN packs' = IF NewPack = {} THEN DOMAIN packs ELSE DOMAIN packs \cup {NewPack}
  BY <1>2 DEF WithPack
<1>8. \A p \in DOMAIN packs' : packs'[p] \in {"old", "young"}
  BY <1>2, <1>7 DEF WithPack, DiskOK
<1>8a. packs' = [p \in DOMAIN packs' |-> packs'[p]]
  BY <1>2 DEF WithPack, DiskOK
<1>9. DiskOK'
  BY <1>2, <1>3, <1>5, <1>7, <1>8, <1>8a DEF DiskOK
<1>10. \A o \in Objects : loose[o] /= "none" => loose'[o] /= "none"
  BY <1>2
<1>11. ~Late /\ ~Late'
  BY <1>1, <1>2 DEF Late, Scanned
<1>12. KeptStays
  BY <1>7, <1>10, <1>11 DEF KeptStays, Kept, Held, HeldIn
<1> QED BY <1>1, <1>2, <1>6, <1>7, <1>9, <1>12

\* the sweep's lock taken.
LEMMA LockSweepKeeps ==
  ASSUME DiskOK, sw \in Sweeps, LockSweep
  PROVE  /\ DiskOK' /\ KeptStays
         /\ sw.phase = "packed" => /\ sw \in Packed /\ sw' \in Packed /\ sw'.phase = "since"
                                   /\ sw'.marks = sw.marks /\ sw'.new = sw.new /\ sw'.old = sw.old
                                   /\ sw'.prune = sw.prune /\ sw'.dup = sw.dup
         /\ sw.phase /= "packed" => /\ sw \in Pruning /\ sw.phase = "duplicates"
                                    /\ sw' \in Pruning /\ sw'.phase = "prune"
                                    /\ sw'.prune = sw.prune /\ sw'.since = sw.since
         /\ sw'.quiet = sw.quiet /\ sw'.garbage = sw.garbage
<1>1. loose' = loose /\ packs' = packs /\ fresh' = fresh
  BY DEF LockSweep, disk
<1>2. sw' = [sw EXCEPT !.phase = IF @ = "packed" THEN "since" ELSE "prune"]
  BY DEF LockSweep, Step
<1>3. DiskOK'
  BY <1>1 DEF DiskOK
<1>4. ASSUME sw.phase = "packed"
      PROVE  /\ sw \in Packed /\ sw' \in Packed /\ sw'.phase = "since" /\ sw'.marks = sw.marks /\ sw'.new = sw.new
             /\ sw'.old = sw.old /\ sw'.prune = sw.prune /\ sw'.dup = sw.dup
             /\ sw'.quiet = sw.quiet /\ sw'.garbage = sw.garbage
  <2>1. sw \in Packed
    BY <1>4, SweepShape
  <2>2. sw' = [sw EXCEPT !.phase = "since"]
    BY <1>2, <1>4, <2>1 DEF Packed
  <2> QED BY <2>1, <2>2 DEF Packed
<1>5. ASSUME sw.phase /= "packed"
      PROVE  /\ sw \in Pruning /\ sw' \in Pruning /\ sw'.phase = "prune" /\ sw.phase = "duplicates"
             /\ sw'.prune = sw.prune /\ sw'.since = sw.since
             /\ sw'.quiet = sw.quiet /\ sw'.garbage = sw.garbage
  <2>0. sw.phase = "duplicates"
    BY <1>5 DEF LockSweep
  <2>1. sw \in Pruning
    BY <2>0, SweepShape
  <2>2. sw' = [sw EXCEPT !.phase = "prune"]
    BY <1>2, <1>5, <2>1 DEF Pruning
  <2> QED BY <2>0, <2>1, <2>2 DEF Pruning
<1>6. KeptStays
  <2>1. CASE sw.phase = "packed"
    <3>1. ~Late /\ ~Late'
      BY <2>1, <1>4 DEF Late
    <3> QED BY <1>1, <3>1 DEF KeptStays, Kept, Held, HeldIn
  <2>2. CASE sw.phase /= "packed"
    <3>1. Remaining = DOMAIN packs /\ Remaining' = DOMAIN packs
      BY <2>2, <1>5, <1>1 DEF Remaining
    <3>2. \A o : Pruned(o)' = Pruned(o)
      BY <2>2, <1>5, <1>1 DEF Pruned
    <3>3. \A o : Lasting(o)' = Lasting(o)
      BY <1>1, <3>1, <3>2 DEF Lasting
    <3>4. Late /\ Late'
      BY <2>2, <1>5 DEF Late
    <3> QED BY <3>3, <3>4 DEF KeptStays, Kept
  <2> QED BY <2>1, <2>2
<1> QED BY <1>3, <1>4, <1>5, <1>6

-----------------------------------------------------------------------------
(* What a sweep reads.                                                     *)

\* The entry of an object named, with both objects held, is kept whole.
LEMMA KeepEntryHas ==
  ASSUME NEW e \in Entries, Held(e), Held(ContentOf[e])
  PROVE  Whole(e) \cup BlobsOf[ContentOf[e]] \subseteq KeepEntry(e)
BY DEF KeepEntry, Whole

\* A path all of which is held is kept whole.
LEMMA KeepPathHas ==
  ASSUME NEW e \in Entries, \A x \in PathTo(e) : Held(x) /\ Held(ContentOf[x])
  PROVE  WholePath(e) \subseteq KeepPath(e) /\ WholePath(e) \subseteq KeepPin(e)
<1>1. e /= NoEntry
  BY NamesAre
<1>2. KeepPath(e) = UNION {KeepEntry(x) : x \in PathTo(e)}
  BY <1>1 DEF KeepPath
<1>3. \A x \in PathTo(e) : Whole(x) \subseteq KeepEntry(x)
  BY KeepEntryHas, PathHas
<1>4. WholePath(e) \subseteq KeepPath(e)
  BY <1>2, <1>3, InWholePath
<1>5. Held(e) /\ Held(ContentOf[e])
  BY PathHas
<1>6. KeepPin(e) = KeepPath(e)
  BY <1>1, <1>5 DEF KeepPin
<1> QED BY <1>4, <1>6

\* What a log names, all of it held, is in what is kept of the log from no
\* mark, and from a mark but for what the mark stands for.
LEMMA KeepLogHas ==
  ASSUME NEW s \in Sessions, LogsOK, NEW m, m.n \in Nat,
         \A o \in NamedBy(logs[s]) : Held(o), NEW o \in NamedBy(logs[s])
  PROVE  \/ o \in KeepLog(s, m)
         \/ /\ m.inc = logs[s].inc
            /\ \/ \E i \in 1..m.n \cap DOMAIN logs[s].recs :
                    o \in Whole(logs[s].recs[i].entry) \cup logs[s].recs[i].blobs
               \/ logs[s].base /= NoEntry /\ o \in WholePath(logs[s].base)
<1>1. logs[s] \in Logs
  BY DEF LogsOK
<1>2. /\ logs[s].recs \in Seq(Records) /\ logs[s].base \in Entries \cup {NoEntry}
      /\ DOMAIN logs[s].recs = 1..Len(logs[s].recs) /\ Len(logs[s].recs) \in Nat
  BY <1>1 DEF Logs
<1>3. \A i \in DOMAIN logs[s].recs : /\ logs[s].recs[i].entry \in Entries
                                     /\ logs[s].recs[i].blobs \subseteq BlobsOf[ContentOf[logs[s].recs[i].entry]]
                                     /\ logs[s].recs[i].entry \in EntriesOf(logs[s])
  BY <1>1, LogShape DEF Records, EntriesOf
<1>4. \A e \in EntriesOf(logs[s]) : Held(e) /\ Held(ContentOf[e]) /\ e \in Entries
  BY InNamedBy, LogShape, WholeIs, <1>1
<1>5. \A i \in DOMAIN logs[s].recs :
        Whole(logs[s].recs[i].entry) \cup logs[s].recs[i].blobs \subseteq KeepEntry(logs[s].recs[i].entry)
  BY <1>3, <1>4, KeepEntryHas
<1>6. logs[s].base /= NoEntry => WholePath(logs[s].base) \subseteq KeepPath(logs[s].base)
  <2> HAVE logs[s].base /= NoEntry
  <2>1. PathTo(logs[s].base) \subseteq EntriesOf(logs[s])
    BY DEF EntriesOf
  <2> QED BY <2>1, <1>2, <1>4, KeepPathHas
<1>7. \/ \E i \in DOMAIN logs[s].recs : o \in Whole(logs[s].recs[i].entry) \cup logs[s].recs[i].blobs
      \/ logs[s].base /= NoEntry /\ o \in WholePath(logs[s].base)
  <2>1. CASE \E e \in EntriesOf(logs[s]) : o \in Whole(e)
    <3>1. PICK e \in EntriesOf(logs[s]) : o \in Whole(e)
      BY <2>1
    <3>2. (\E i \in DOMAIN logs[s].recs : e = logs[s].recs[i].entry) \/ (logs[s].base /= NoEntry /\ e \in PathTo(logs[s].base))
      BY DEF EntriesOf
    <3> QED BY <3>1, <3>2, InWholePath
  <2>2. CASE \E i \in DOMAIN logs[s].recs : o \in logs[s].recs[i].blobs
    BY <2>2
  <2> QED BY <2>1, <2>2, InNamedBy
<1>8. CASE m.inc = logs[s].inc
  <2>1. CASE logs[s].base /= NoEntry /\ o \in WholePath(logs[s].base)
    BY <2>1, <1>8
  <2>2. CASE \E i \in DOMAIN logs[s].recs : o \in Whole(logs[s].recs[i].entry) \cup logs[s].recs[i].blobs
    <3>1. PICK i \in DOMAIN logs[s].recs : o \in Whole(logs[s].recs[i].entry) \cup logs[s].recs[i].blobs
      BY <2>2
    <3>2. i \in 1..m.n \/ i \in m.n + 1..Len(logs[s].recs)
      BY <1>2
    <3>3. o \in KeepEntry(logs[s].recs[i].entry)
      BY <3>1, <1>5
    <3> QED BY <3>1, <3>2, <3>3, <1>8, InKeepLog
  <2> QED BY <2>1, <2>2, <1>7
<1>9. CASE m.inc /= logs[s].inc
  <2>1. CASE logs[s].base /= NoEntry /\ o \in WholePath(logs[s].base)
    BY <2>1, <1>6, <1>9, InKeepLog
  <2>2. CASE \E i \in DOMAIN logs[s].recs : o \in Whole(logs[s].recs[i].entry) \cup logs[s].recs[i].blobs
    <3>1. PICK i \in DOMAIN logs[s].recs : o \in Whole(logs[s].recs[i].entry) \cup logs[s].recs[i].blobs
      BY <2>2
    <3>2. i \in 0 + 1..Len(logs[s].recs)
      BY <1>2
    <3>3. o \in KeepEntry(logs[s].recs[i].entry)
      BY <3>1, <1>5
    <3> QED BY <3>2, <3>3, <1>9, InKeepLog
  <2> QED BY <2>1, <2>2, <1>7
<1> QED BY <1>8, <1>9

\* So is what a ref pins.
LEMMA KeepRefsHas ==
  ASSUME refs \in [Refs -> Entries \cup {NoEntry}], \A o \in Named : Held(o),
         NEW r \in Refs, refs[r] /= NoEntry
  PROVE  WholePath(refs[r]) \subseteq KeepRefs
<1>1. refs[r] \in Entries
  OBVIOUS
<1>2. \A x \in PathTo(refs[r]) : Held(x) /\ Held(ContentOf[x])
  <2> TAKE x \in PathTo(refs[r])
  <2>1. x \in WholePath(refs[r]) /\ ContentOf[x] \in WholePath(refs[r])
    BY InWholePath, WholeIs, PathHas, <1>1
  <2> QED BY <2>1, InNamed
<1>3. WholePath(refs[r]) \subseteq KeepPin(refs[r])
  BY <1>1, <1>2, KeepPathHas
<1> QED BY <1>3 DEF KeepRefs

\* The marked objects of a session.
LEMMA InMarkedIn ==
  ASSUME NEW log, NEW n, NEW o
  PROVE  o \in MarkedIn(log, n) <=>
           \/ \E i \in 1..n : o \in Whole(log.recs[i].entry) \cup log.recs[i].blobs
           \/ log.base /= NoEntry /\ o \in WholePath(log.base)
<1> DEFINE A == UNION {Whole(log.recs[i].entry) \cup log.recs[i].blobs : i \in 1..n}
           B == IF log.base = NoEntry THEN {} ELSE WholePath(log.base)
<1>1. MarkedIn(log, n) = A \cup B
  BY Zenon DEF MarkedIn
<1>2. o \in A <=> \E i \in 1..n : o \in Whole(log.recs[i].entry) \cup log.recs[i].blobs
  OBVIOUS
<1>3. o \in B <=> log.base /= NoEntry /\ o \in WholePath(log.base)
  OBVIOUS
<1> HIDE DEF A, B
<1>4. o \in MarkedIn(log, n) <=> o \in A \/ o \in B
  BY <1>1
<1> QED BY <1>2, <1>3, <1>4, Zenon

\* Under the lock, what is named is in the new pack or read again.
LEMMA NamedSince ==
  ASSUME LogsOK, refs \in [Refs -> Entries \cup {NoEntry}], sw \in Packed, FoundOK,
         \A o \in Named : Held(o), NEW o \in Named
  PROVE  o \in sw.new \/ o \in Since
<1>1. Since = (UNION {KeepLog(s, sw.marks[s]) : s \in Live}) \cup KeepRefs
  BY DEF Since
<1>2. CASE \E r \in Refs : refs[r] /= NoEntry /\ o \in WholePath(refs[r])
  <2>1. o \in KeepRefs
    BY <1>2, KeepRefsHas
  <2> QED BY <1>1, <2>1
<1>3. CASE \E s \in Sessions : o \in NamedBy(logs[s])
  <2>1. PICK s \in Sessions : o \in NamedBy(logs[s])
    BY <1>3
  <2>2. \A x \in NamedBy(logs[s]) : Held(x)
    BY InNamed
  <2>3. sw.marks[s].n \in Nat /\ sw.phase \in {"packed", "since"}
    BY DEF Packed, Marks
  <2>4. logs[s].inc > 0
    <3>1. logs[s] \in Logs /\ (logs[s].inc = 0 => logs[s].base = NoEntry /\ logs[s].recs = <<>>)
      BY DEF LogsOK
    <3>2. ASSUME logs[s].inc = 0 PROVE FALSE
      <4>1. EntriesOf(logs[s]) = {} /\ DOMAIN logs[s].recs = {}
        BY <3>1, <3>2 DEF EntriesOf
      <4> QED BY <4>1, <2>1, InNamedBy
    <3> QED BY <3>1, <3>2 DEF Logs
  <2>5. CASE o \in KeepLog(s, sw.marks[s])
    BY <2>4, <2>5, <1>1 DEF Live
  <2>6. CASE /\ sw.marks[s].inc = logs[s].inc
             /\ \/ \E i \in 1..sw.marks[s].n \cap DOMAIN logs[s].recs :
                     o \in Whole(logs[s].recs[i].entry) \cup logs[s].recs[i].blobs
                \/ logs[s].base /= NoEntry /\ o \in WholePath(logs[s].base)
    <3>1. Marked(s)
      BY <2>4, <2>6 DEF Marked
    <3>2. o \in MarkedObjs(s)
      BY <2>6, InMarkedIn DEF MarkedObjs
    <3>3. Marking
      BY <2>3 DEF Marking
    <3>4. Found(o)
      BY <3>1, <3>2, <3>3 DEF FoundOK
    <3> QED BY <3>4, <2>3 DEF Found
  <2> QED BY <2>1, <2>2, <2>3, <2>5, <2>6, KeepLogHas
<1> QED BY <1>2, <1>3, InNamed

-----------------------------------------------------------------------------
(* What the removals leave.                                                *)

\* What the rescue finds staying, puts back because it was named since, and
\* puts back because its pack was freshened.
Staying == sw.new \cup UNION (DOMAIN packs \ sw.old)
BackLoose == {o \in Since : o \notin Staying /\ loose[o] = "none" /\ Held(o)}
Touched == (UNION (fresh \cap (sw.old \ {sw.new}))) \ sw.new

\* What the rescue changes.
LEMMA RescueShape ==
  ASSUME DiskOK, LogsOK, refs \in [Refs -> Entries \cup {NoEntry}], sw \in Sweeps, Rescue
  PROVE  /\ sw \in Packed /\ sw.phase = "since" /\ sw' \in Rescued /\ DiskOK'
         /\ sw'.prune = sw.prune /\ sw'.old = sw.old /\ sw'.new = sw.new /\ sw'.dup = sw.dup
         /\ sw'.since = Since /\ sw'.quiet = sw.quiet /\ sw'.garbage = sw.garbage
         /\ packs' = packs /\ fresh' = fresh
         /\ loose' = [o \in Objects |-> IF o \in BackLoose \/ (o \in Touched /\ loose[o] = "none")
                                        THEN "young" ELSE loose[o]]
<1>1. sw \in Packed /\ sw.phase = "since"
  BY SweepShape DEF Rescue
<1>2. /\ loose' = [o \in Objects |-> IF o \in BackLoose \/ (o \in Touched /\ loose[o] = "none")
                                        THEN "young" ELSE loose[o]]
      /\ sw' = [phase |-> "remove", prune |-> sw.prune, old |-> sw.old, new |-> sw.new, dup |-> sw.dup,
                  since |-> Since, quiet |-> sw.quiet, garbage |-> sw.garbage]
      /\ packs' = packs /\ fresh' = fresh
  BY Zenon DEF Rescue, Step, BackLoose, Touched, Staying
<1>3. Since \in Objs
  BY <1>1, SinceShape DEF Objs
<1>4. sw' \in Rescued
  BY <1>1, <1>2, <1>3 DEF Packed, Rescued
<1>5. DiskOK'
  BY <1>2 DEF DiskOK
<1> QED BY <1>1, <1>2, <1>4, <1>5

\* After the rescue what is named outlasts the removals: it is in the new
\* pack, or was named since and has a copy that stays.
LEMMA RescueKeeps ==
  ASSUME DiskOK, LogsOK, refs \in [Refs -> Entries \cup {NoEntry}], sw \in Sweeps, FoundOK,
         \A o \in Named : Kept(o), Rescue, NEW o \in Named
  PROVE  Kept(o)'
<1>1. /\ sw \in Packed /\ sw.phase = "since" /\ sw' \in Rescued
      /\ sw'.prune = sw.prune /\ sw'.old = sw.old /\ sw'.new = sw.new /\ sw'.since = Since
      /\ packs' = packs
      /\ loose' = [x \in Objects |-> IF x \in BackLoose \/ (x \in Touched /\ loose[x] = "none")
                                        THEN "young" ELSE loose[x]]
  BY RescueShape
<1>2. \A x \in Named : Held(x)
  BY <1>1 DEF Kept, Late
<1>3. o \in sw.new \/ o \in Since
  BY <1>1, <1>2, NamedSince
<1>4. o \in Objects
  BY NamedShape
<1>5. sw'.phase = "remove" /\ Late'
  BY <1>1 DEF Rescued, Late
<1>6. Remaining' = DOMAIN packs \ (sw.old \ {sw.new})
  BY <1>1, <1>5 DEF Remaining
<1>7. CASE o \in sw.new
  <2>1. sw.new \in DOMAIN packs
    BY <1>7, <1>1 DEF FoundOK
  <2>2. sw.new \in Remaining'
    BY <2>1, <1>6
  <2>3. Lasting(o)'
    BY <2>2, <1>7 DEF Lasting
  <2> QED BY <2>3, <1>5 DEF Kept
<1>8. CASE o \notin sw.new /\ \E p \in DOMAIN packs \ sw.old : o \in p
  <2>1. \E p \in Remaining' : o \in p
    BY <1>8, <1>6
  <2>2. Lasting(o)'
    BY <2>1 DEF Lasting
  <2> QED BY <2>2, <1>5 DEF Kept
<1>9. CASE o \notin sw.new /\ ~\E p \in DOMAIN packs \ sw.old : o \in p
  <2>1. o \in Since /\ o \notin Staying
    BY <1>9, <1>3 DEF Staying
  <2>2. loose[o] = "none" => o \in BackLoose
    BY <2>1, <1>2 DEF BackLoose
  <2>3. loose'[o] /= "none"
    BY <2>2, <1>1, <1>4
  <2>4. ~Pruned(o)'
    BY <2>1, <1>1 DEF Pruned
  <2>5. Lasting(o)'
    BY <2>3, <2>4 DEF Lasting
  <2> QED BY <2>5, <1>5 DEF Kept
<1> QED BY <1>7, <1>8, <1>9

\* The replaced packs go; what was to be kept is elsewhere.
LEMMA RemoveOldKeeps ==
  ASSUME DiskOK, sw \in Sweeps, FoundOK, RemoveOld
  PROVE  /\ DiskOK' /\ sw' \in Replaced /\ KeptStays
         /\ sw \in Rescued /\ sw'.prune = sw.prune /\ sw'.dup = sw.dup /\ sw'.since = sw.since
         /\ sw'.quiet = sw.quiet /\ sw'.garbage = sw.garbage
         /\ loose' = loose /\ DOMAIN packs' = DOMAIN packs \ (sw.old \ {sw.new})
         /\ sw'.dup \subseteq UNION DOMAIN packs'
<1>1. sw \in Rescued
  BY SweepShape DEF RemoveOld
<1>2. /\ packs' = [p \in DOMAIN packs \ (sw.old \ {sw.new}) |-> packs[p]]
      /\ fresh' = fresh \cap DOMAIN packs' /\ loose' = loose
      /\ sw' = [phase |-> "dups", prune |-> sw.prune, dup |-> sw.dup, since |-> sw.since, quiet |-> sw.quiet,
                garbage |-> sw.garbage]
  BY DEF RemoveOld, Step
<1>3. sw' \in Replaced
  BY <1>1, <1>2 DEF Rescued, Replaced
<1>4. DOMAIN packs' = DOMAIN packs \ (sw.old \ {sw.new})
  BY <1>2
<1>5. \A p \in DOMAIN packs' : packs'[p] \in {"old", "young"}
  BY <1>2, <1>4 DEF DiskOK
<1>5a. packs' = [p \in DOMAIN packs' |-> packs'[p]]
  BY <1>2
<1>6. DiskOK'
  BY <1>2, <1>4, <1>5, <1>5a DEF DiskOK
<1>7. Remaining = DOMAIN packs'
  BY <1>1, <1>4 DEF Remaining, Rescued
<1>8. Remaining' = DOMAIN packs'
  BY <1>2 DEF Remaining
<1>9. Late /\ Late'
  BY <1>1, <1>2 DEF Late, Rescued
<1>10. \A o : Pruned(o)' = Pruned(o)
  BY <1>2 DEF Pruned
<1>11. \A o : Lasting(o)' = Lasting(o)
  BY <1>2, <1>7, <1>8, <1>10 DEF Lasting
<1>12. KeptStays
  BY <1>9, <1>11 DEF KeptStays, Kept
<1>13. sw'.dup \subseteq UNION DOMAIN packs'
  <2>1. sw.dup \subseteq sw.new /\ (sw.new = {} \/ sw.new \in DOMAIN packs)
    BY <1>1 DEF FoundOK, Rescued
  <2> QED BY <2>1, <1>2, <1>4
<1> QED BY <1>1, <1>2, <1>3, <1>4, <1>6, <1>12, <1>13

\* The loose copies of what the new pack holds go.
LEMMA RemoveDuplicatesKeeps ==
  ASSUME DiskOK, sw \in Sweeps, FoundOK, RemoveDuplicates
  PROVE  /\ DiskOK' /\ sw' \in Pruning /\ sw'.phase = "duplicates" /\ KeptStays
         /\ sw \in Replaced /\ sw'.prune = sw.prune /\ sw'.since = sw.since
         /\ sw'.quiet = sw.quiet /\ sw'.garbage = sw.garbage
         /\ packs' = packs /\ loose' = [o \in Objects |-> IF o \in sw.dup THEN "none" ELSE loose[o]]
<1>1. sw \in Replaced
  BY SweepShape DEF RemoveDuplicates
<1>2. /\ loose' = [o \in Objects |-> IF o \in sw.dup THEN "none" ELSE loose[o]]
      /\ sw' = [phase |-> "duplicates", prune |-> sw.prune, since |-> sw.since, quiet |-> sw.quiet,
                garbage |-> sw.garbage]
      /\ packs' = packs /\ fresh' = fresh
  BY DEF RemoveDuplicates, Step
<1>3. sw' \in Pruning
  BY <1>1, <1>2 DEF Replaced, Pruning
<1>4. DiskOK'
  BY <1>2 DEF DiskOK
<1>5. Remaining = DOMAIN packs /\ Remaining' = DOMAIN packs
  BY <1>1, <1>2 DEF Remaining, Replaced
<1>6. Late /\ Late'
  BY <1>1, <1>2 DEF Late, Replaced
<1>7. \A o \in Objects : o \in sw.dup => \E p \in DOMAIN packs : o \in p
  BY <1>1 DEF FoundOK, Replaced
<1>8. \A o \in Objects : o \notin sw.dup => (Pruned(o)' = Pruned(o)) /\ loose'[o] = loose[o]
  BY <1>2 DEF Pruned
<1>9. \A o \in Objects : Lasting(o) => Lasting(o)'
  BY <1>5, <1>7, <1>8 DEF Lasting
<1>10. KeptStays
  BY <1>6, <1>9 DEF KeptStays, Kept
<1> QED BY <1>1, <1>2, <1>3, <1>4, <1>10

\* The loose objects nothing names go.
LEMMA PruneKeeps ==
  ASSUME DiskOK, sw \in Sweeps, Prune
  PROVE  /\ DiskOK' /\ sw' \in Ending /\ KeptStays /\ sw \in Pruning
         /\ sw'.quiet = sw.quiet /\ sw'.garbage = sw.garbage
         /\ packs' = packs /\ loose' = [o \in Objects |-> IF Pruned(o) THEN "none" ELSE loose[o]]
<1>1. sw \in Pruning /\ sw.phase = "prune"
  BY SweepShape DEF Prune
<1>2. /\ loose' = [o \in Objects |-> IF Pruned(o) THEN "none" ELSE loose[o]]
      /\ sw' = [phase |-> "types", quiet |-> sw.quiet, garbage |-> sw.garbage]
      /\ packs' = packs /\ fresh' = fresh
  BY DEF Prune, Step
<1>3. sw' \in Ending
  BY <1>1, <1>2 DEF Pruning, Ending
<1>4. DiskOK'
  BY <1>2 DEF DiskOK
<1>5. Remaining = DOMAIN packs
  BY <1>1 DEF Remaining
<1>6. Late /\ ~Late'
  BY <1>1, <1>2 DEF Late
<1>7. \A o \in Objects : Lasting(o) => Held(o)'
  BY <1>2, <1>5 DEF Lasting, Held, HeldIn
<1>8. KeptStays
  BY <1>6, <1>7 DEF KeptStays, Kept
<1> QED BY <1>1, <1>2, <1>3, <1>4, <1>8

\* However the sweep ends.
LEMMA EndKeeps ==
  ASSUME DiskOK, UNCHANGED disk, sw' = Asleep
  PROVE  DiskOK' /\ KeptStays
<1>1. loose' = loose /\ packs' = packs /\ fresh' = fresh
  BY DEF disk
<1>2. DiskOK'
  BY <1>1 DEF DiskOK
<1>3. ~Late'
  BY DEF Late, Asleep
<1>4. \A o : Lasting(o) \/ Held(o) => Held(o)'
  BY <1>1 DEF Lasting, Held, HeldIn, Remaining
<1>5. KeptStays
  BY <1>3, <1>4 DEF KeptStays, Kept
<1> QED BY <1>2, <1>5

-----------------------------------------------------------------------------
(* What stands while logs change.                                          *)

\* What may become of a session's log in a step.
Appended(s) ==
  /\ logs[s].inc > 0 /\ logs'[s].inc = logs[s].inc /\ logs'[s].base = logs[s].base
  /\ \E r \in Records : logs'[s].recs = Append(logs[s].recs, r)
\* A session deleted, and one placed.
Reset(s)  == logs'[s] = [inc |-> 0, base |-> NoEntry, recs |-> <<>>]
Placed(s) == logs[s].inc = 0 /\ logs'[s].inc = ops + 1 /\ logs'[s].recs = <<>>
\* How a step may change a log.
LogStep(s) == logs'[s] = logs[s] \/ Appended(s) \/ (Reset(s) /\ ops' = ops + 1) \/ Placed(s)

\* An append leaves the records before it.
LEMMA AppendedRecs ==
  ASSUME NEW s \in Sessions, LogsOK, Appended(s)
  PROVE  /\ Len(logs'[s].recs) = Len(logs[s].recs) + 1 /\ Len(logs[s].recs) \in Nat
         /\ \A i \in 1..Len(logs[s].recs) : logs'[s].recs[i] = logs[s].recs[i]
<1>1. logs[s].recs \in Seq(Records)
  BY DEF LogsOK, Logs
<1> QED BY <1>1 DEF Appended

\* Marks stand while logs change beside the sweep.
LEMMA MarksCarry ==
  ASSUME LogsOK, MarksOK, sw' = sw, sw \in Sweeps, ops \in Nat, ops' \in Nat, ops' >= ops,
         \A s \in Sessions : LogStep(s)
  PROVE  MarksOK'
<1> SUFFICES ASSUME Marking', NEW s \in Sessions
             PROVE  /\ sw.marks[s].inc <= ops' + 1
                    /\ logs'[s].inc = 0 => sw.marks[s].inc <= ops'
                    /\ logs'[s].inc > 0 /\ sw.marks[s].inc = logs'[s].inc => sw.marks[s].n <= Len(logs'[s].recs)
  BY DEF MarksOK, Marked
<1>1. Marking
  BY DEF Marking
<1>2. sw.marks[s].inc \in Nat /\ sw.marks[s].n \in Nat
  BY <1>1, SweepShape DEF Marking, Keeping, Scanned, Packed, Marks
<1>3. /\ sw.marks[s].inc <= ops + 1
      /\ logs[s].inc = 0 => sw.marks[s].inc <= ops
      /\ logs[s].inc > 0 /\ sw.marks[s].inc = logs[s].inc => sw.marks[s].n <= Len(logs[s].recs)
  BY <1>1 DEF MarksOK, Marked
<1>4. logs[s].inc \in Nat /\ Len(logs[s].recs) \in Nat
  BY DEF LogsOK, Logs
<1>5. CASE logs'[s] = logs[s]
  BY <1>2, <1>3, <1>4, <1>5
<1>6. CASE Appended(s)
  <2>1. Len(logs'[s].recs) = Len(logs[s].recs) + 1 /\ logs'[s].inc = logs[s].inc
    BY <1>6, AppendedRecs DEF Appended
  <2> QED BY <2>1, <1>2, <1>3, <1>4
<1>7. CASE Reset(s) /\ ops' = ops + 1
  <2>1. logs'[s].inc = 0 /\ logs'[s].recs = <<>>
    BY <1>7 DEF Reset
  <2> QED BY <2>1, <1>2, <1>3, <1>7
<1>8. CASE Placed(s)
  <2>1. logs'[s].inc = ops + 1 /\ sw.marks[s].inc <= ops
    BY <1>8, <1>3 DEF Placed
  <2> QED BY <2>1, <1>2
<1> QED BY <1>5, <1>6, <1>7, <1>8 DEF LogStep

\* So does what was found for them.
LEMMA FoundCarry ==
  ASSUME LogsOK, MarksOK, FoundOK, sw' = sw, sw \in Sweeps, ops \in Nat,
         \A s \in Sessions : LogStep(s), DOMAIN packs \subseteq DOMAIN packs'
  PROVE  FoundOK'
<1>1. ASSUME Marking', NEW s \in Sessions, Marked(s)', NEW o \in MarkedObjs(s)' PROVE Found(o)'
  <2>0. Marking
    BY <1>1 DEF Marking
  <2>1. sw.marks[s].inc \in Nat /\ sw.marks[s].n \in Nat
    BY <2>0, SweepShape DEF Marking, Keeping, Scanned, Packed, Marks
  <2>2. logs'[s].inc > 0 /\ sw.marks[s].inc = logs'[s].inc
    BY <1>1 DEF Marked
  <2>3. \/ \E i \in 1..sw.marks[s].n : o \in Whole(logs'[s].recs[i].entry) \cup logs'[s].recs[i].blobs
        \/ logs'[s].base /= NoEntry /\ o \in WholePath(logs'[s].base)
    BY <1>1, InMarkedIn DEF MarkedObjs
  <2>4. logs[s].inc \in Nat /\ Len(logs[s].recs) \in Nat
    BY DEF LogsOK, Logs
  <2>5. ASSUME logs'[s].inc = logs[s].inc, logs'[s].base = logs[s].base,
               \A i \in 1..sw.marks[s].n : logs'[s].recs[i] = logs[s].recs[i]
        PROVE  o \in MarkedObjs(s) /\ Marked(s)
    <3>1. \/ \E i \in 1..sw.marks[s].n : o \in Whole(logs[s].recs[i].entry) \cup logs[s].recs[i].blobs
          \/ logs[s].base /= NoEntry /\ o \in WholePath(logs[s].base)
      BY <2>3, <2>5
    <3> QED BY <3>1, <2>2, <2>5, InMarkedIn DEF Marked, MarkedObjs
  <2>6. o \in MarkedObjs(s) /\ Marked(s)
    <3>1. CASE logs'[s] = logs[s]
      BY <3>1, <2>5
    <3>2. CASE Appended(s)
      <4>1. Marked(s)
        BY <3>2, <2>2 DEF Appended, Marked
      <4>2. sw.marks[s].n <= Len(logs[s].recs)
        BY <4>1, <2>0 DEF MarksOK
      <4>3. \A i \in 1..sw.marks[s].n : i \in 1..Len(logs[s].recs)
        BY <4>2, <2>1, <2>4
      <4>4. \A i \in 1..sw.marks[s].n : logs'[s].recs[i] = logs[s].recs[i]
        BY <4>3, <3>2, AppendedRecs
      <4> QED BY <4>4, <3>2, <2>5 DEF Appended
    <3>3. CASE Reset(s)
      BY <3>3, <2>2 DEF Reset
    <3>4. CASE Placed(s)
      <4>1. sw.marks[s].inc <= ops /\ sw.marks[s].inc = ops + 1
        BY <3>4, <2>0, <2>2 DEF Placed, MarksOK
      <4> QED BY <4>1, <2>1
    <3> QED BY <3>1, <3>2, <3>3, <3>4 DEF LogStep
  <2>7. Found(o)
    BY <2>0, <2>6 DEF FoundOK
  <2>8. (\E p \in DOMAIN packs : o \in p) => \E p \in DOMAIN packs' : o \in p
    OBVIOUS
  <2> QED BY <2>7, <2>8 DEF Found
<1>2. sw.phase \in {"packed", "since", "remove"} => (sw.new = {} \/ sw.new \in DOMAIN packs') /\ sw.dup \subseteq sw.new
  BY DEF FoundOK
<1>3. sw.phase = "dups" => sw.dup \subseteq UNION DOMAIN packs'
  BY DEF FoundOK
<1> QED BY <1>1, <1>2, <1>3 DEF FoundOK

\* More packs do not disturb what is being packed.
LEMMA PackingCarry ==
  ASSUME PackingOK, packing' = packing, sw' = sw, DOMAIN packs \subseteq DOMAIN packs'
  PROVE  PackingOK'
<1>1. packing.objs \subseteq UNION DOMAIN packs'
  BY DEF PackingOK
<1>2. Exclusive' = Exclusive
  BY DEF Exclusive
<1> QED BY <1>1, <1>2 DEF PackingOK

\* A call moved on, with the logs as they were.
LEMMA CallsSet ==
  ASSUME CallsOK, NEW w \in Writers, NEW c \in Calls, pc' = [pc EXCEPT ![w] = c], logs' = logs, sw' = sw,
         c.op = "append" => AppendOK(c), c.op = "fork" => ForkOK(c),
         c.op \in {"append", "fork"} => \A v \in Writers : v /= w /\ pc[v].op = c.op => pc[v].s /= c.s,
         Exclusive => ~(c.op /= "idle" /\ c.step \in Guards)
  PROVE  CallsOK'
<1>1. pc \in [Writers -> Calls]
  BY DEF CallsOK
<1>2. pc'[w] = c /\ \A v \in Writers : v /= w => pc'[v] = pc[v]
  BY <1>1
<1>3. pc' \in [Writers -> Calls]
  BY <1>1
<1>4. ASSUME NEW v \in Writers, v /= w
      PROVE  (pc[v].op = "append" => AppendOK(pc[v]))' /\ (pc[v].op = "fork" => ForkOK(pc[v]))'
  <2>1. (pc[v].op = "append" => AppendOK(pc[v])) /\ (pc[v].op = "fork" => ForkOK(pc[v]))
    BY DEF CallsOK
  <2>2. pc'[v] = pc[v]
    BY <1>2, <1>4
  <2> QED BY <2>1, <2>2, logs' = logs DEF AppendOK, ForkOK
<1>5. (pc[w].op = "append" => AppendOK(pc[w]))' /\ (pc[w].op = "fork" => ForkOK(pc[w]))'
  BY <1>2, logs' = logs DEF AppendOK, ForkOK
<1>7. \A v \in Writers : (pc[v].op = "append" => AppendOK(pc[v]))'
  BY <1>4, <1>5
<1>8. \A v \in Writers : (pc[v].op = "fork" => ForkOK(pc[v]))'
  BY <1>4, <1>5
<1>9. \A u, v \in Writers : u /= v /\ pc'[u].op = pc'[v].op /\ pc'[u].op \in {"append", "fork"} => pc'[u].s /= pc'[v].s
  <2> SUFFICES ASSUME NEW u \in Writers, NEW v \in Writers, u /= v, pc'[u].op = pc'[v].op, pc'[u].op \in {"append", "fork"}
               PROVE pc'[u].s /= pc'[v].s
    OBVIOUS
  <2>1. CASE u = w
    BY <2>1, <1>2
  <2>2. CASE v = w
    BY <2>2, <1>2
  <2>3. CASE u /= w /\ v /= w
    BY <2>3, <1>2 DEF CallsOK
  <2> QED BY <2>1, <2>2, <2>3
<1>10. Exclusive' => \A v \in Writers : ~(pc'[v].op /= "idle" /\ pc'[v].step \in Guards)
  BY <1>2 DEF CallsOK, Exclusive, Guarded
<1> QED BY <1>3, <1>7, <1>8, <1>9, <1>10 DEF CallsOK, Guarded

-----------------------------------------------------------------------------
(* A call begins.                                                          *)

\* A call that promises what it promised, or what is kept now.
LEMMA PromisesCarry ==
  ASSUME PromisesKept, CallsOK, KeptStays, NEW w \in Writers, NEW c, pc' = [pc EXCEPT ![w] = c],
         \A o \in Promised(c) : o \in Promised(pc[w]) \/ Kept(o)'
  PROVE  PromisesKept'
<1>1. pc \in [Writers -> Calls]
  BY DEF CallsOK
<1>2. \A v \in Writers : Promised(pc[v]) \subseteq Objects
  BY <1>1, PromisedShape
<1>3. \A v \in Writers : \A o \in Promised(pc[v]) : Kept(o)'
  BY <1>2 DEF PromisesKept, KeptStays
<1>4. pc'[w] = c /\ \A v \in Writers : v /= w => pc'[v] = pc[v]
  BY <1>1
<1>5. ASSUME NEW v \in Writers, NEW o \in Promised(pc'[v]) PROVE Kept(o)'
  <2>1. CASE v = w
    BY <2>1, <1>3, <1>4, <1>5
  <2>2. CASE v /= w
    BY <2>2, <1>3, <1>4, <1>5
  <2> QED BY <2>1, <2>2
<1>6. \A v \in Writers : Promised(pc[v])' = Promised(pc'[v])
  BY DEF Promised
<1> QED BY <1>5, <1>6 DEF PromisesKept

\* The calls as they were.
LEMMA PromisesStay ==
  ASSUME PromisesKept, CallsOK, KeptStays, pc' = pc
  PROVE  PromisesKept'
<1>1. pc \in [Writers -> Calls]
  BY DEF CallsOK
<1>2. \A v \in Writers : Promised(pc[v]) \subseteq Objects
  BY <1>1, PromisedShape
<1>3. \A v \in Writers : \A o \in Promised(pc[v]) : Kept(o)'
  BY <1>2 DEF PromisesKept, KeptStays
<1> QED BY <1>3 DEF PromisesKept

\* Names that were, or that are kept now.
LEMMA NamedCarry ==
  ASSUME NamedKept, LogsOK, Typed, KeptStays, \A o \in Named' : o \in Named \/ Kept(o)'
  PROVE  NamedKept'
<1>1. Named \subseteq Objects
  BY NamedShape DEF Typed
<1>2. \A o \in Named : Kept(o)'
  BY <1>1 DEF NamedKept, KeptStays
<1> QED BY <1>2 DEF NamedKept

\* The logs as they were.
LEMMA LogsStay ==
  ASSUME LogsOK, logs' = logs, ops \in Nat, ops' \in Nat, ops' >= ops
  PROVE  LogsOK' /\ \A s \in Sessions : LogStep(s)
<1>1. \A s \in Sessions : logs[s].inc \in Nat
  BY DEF LogsOK, Logs
<1> QED BY <1>1 DEF LogsOK, LogStep

\* A call moves on: what it promises it promised, or keeps by this step.
LEMMA CallStep ==
  ASSUME IInv, NEW w \in Writers, NEW c \in Calls, pc' = [pc EXCEPT ![w] = c],
         logs' = logs, sw' = sw, packing' = packing, refs' = refs,
         types' \subseteq Blobs, ops' \in Nat, ops' >= ops, ops' <= MaxOps,
         DiskOK', KeptStays, DOMAIN packs' = DOMAIN packs,
         c.op = "append" => AppendOK(c), c.op = "fork" => ForkOK(c),
         c.op \in {"append", "fork"} => \A v \in Writers : v /= w /\ pc[v].op = c.op => pc[v].s /= c.s,
         Exclusive => ~(c.op /= "idle" /\ c.step \in Guards),
         \A o \in Promised(c) : o \in Promised(pc[w]) \/ Kept(o)'
  PROVE  IInv'
<1>1. Typed'
  BY DEF IInv, Typed
<1>2. LogsOK' /\ \A s \in Sessions : LogStep(s)
  BY LogsStay DEF IInv, Typed
<1>3. PackingOK'
  BY PackingCarry DEF IInv
<1>4. CallsOK'
  BY CallsSet DEF IInv
<1>5. MarksOK'
  BY <1>2, MarksCarry DEF IInv, Typed
<1>6. FoundOK'
  BY <1>2, FoundCarry DEF IInv, Typed
<1>7. Named' = Named
  BY DEF Named
<1>8. NamedKept'
  BY <1>7, NamedCarry DEF IInv
<1>9. PromisesKept'
  BY PromisesCarry DEF IInv
<1> QED BY <1>1, <1>2, <1>3, <1>4, <1>5, <1>6, <1>8, <1>9 DEF IInv

-----------------------------------------------------------------------------
(* The calls begun. *)

\* Each action keeps IInv.  An append begins: it promises nothing yet.
LEMMA StartAppendStep ==
  ASSUME IInv, NEW w \in Writers, NEW s \in Sessions, NEW e \in Entries, StartAppend(w, s, e)
  PROVE  IInv'
<1>1. PICK c : c = [op |-> "append", step |-> "write", s |-> s, e |-> e, todo |-> <<ContentOf[e], e>>, blobs |-> {}]
  OBVIOUS
<1>2. pc' = [pc EXCEPT ![w] = c] /\ ops' = ops + 1 /\ ops < MaxOps /\ pc[w] = Idle
  BY <1>1 DEF StartAppend, Begin
<1>3. UNCHANGED disk /\ UNCHANGED <<types, logs, refs, packing, sw, sweeps>>
  BY DEF StartAppend, Begin
<1>4. /\ c.op = "append" /\ c.step = "write" /\ c.s = s /\ c.e = e /\ c.todo = <<ContentOf[e], e>> /\ c.blobs = {}
  BY <1>1
<1>5. c \in Calls
  <2>1. <<ContentOf[e], e>> \in Seq(Objects)
    BY NamesAre
  <2> QED BY <1>1, <2>1 DEF Calls, Appends
<1>6. AppendOK(c)
  BY <1>4, NamesAre DEF AppendOK, StartAppend, HeldBy
<1>7. \A v \in Writers : v /= w /\ pc[v].op = "append" => pc[v].s /= s
  BY DEF StartAppend, Appending
<1>8. DiskOK' /\ KeptStays
  BY <1>3, StillKeeps DEF IInv
<1>9. Promised(c) = {}
  <2>1. {c.todo[i] : i \in DOMAIN c.todo} = {ContentOf[e], e}
    BY <1>4
  <2>2. Whole(e) \ {ContentOf[e], e} = {}
    BY DEF Whole
  <2> QED BY <1>4, <2>1, <2>2 DEF Promised
<1>10. packs' = packs
  BY <1>3 DEF disk
<1>11. ~Exclusive
  BY DEF StartAppend
<1>12. ops' \in Nat /\ ops' >= ops /\ ops' <= MaxOps
  BY <1>2, NamesAre DEF IInv, Typed
<1>13. types' \subseteq Blobs
  BY <1>3 DEF IInv, Typed
<1> QED BY <1>2, <1>3, <1>4, <1>5, <1>6, <1>7, <1>8, <1>9, <1>10, <1>11, <1>12, <1>13, CallStep

\* A blob's put begins.
LEMMA StartPutBlobStep ==
  ASSUME IInv, NEW w \in Writers, NEW b \in Blobs, StartPutBlob(w, b)
  PROVE  IInv'
<1>1. PICK c : c = [op |-> "put", step |-> "put", b |-> b]
  OBVIOUS
<1>2. pc' = [pc EXCEPT ![w] = c] /\ ops' = ops + 1 /\ ops < MaxOps /\ pc[w] = Idle
  BY <1>1 DEF StartPutBlob, Begin
<1>3. UNCHANGED disk /\ UNCHANGED <<types, logs, refs, packing, sw, sweeps>>
  BY DEF StartPutBlob, Begin
<1>4. c.op = "put" /\ c.step = "put"
  BY <1>1
<1>5. c \in Calls
  BY <1>1 DEF Calls, Puts
<1>8. DiskOK' /\ KeptStays
  BY <1>3, StillKeeps DEF IInv
<1>9. Promised(c) = {}
  BY <1>4 DEF Promised
<1>10. packs' = packs
  BY <1>3 DEF disk
<1>11. ~Exclusive
  BY DEF StartPutBlob
<1>12. ops' \in Nat /\ ops' >= ops /\ ops' <= MaxOps
  BY <1>2, NamesAre DEF IInv, Typed
<1>13. types' \subseteq Blobs
  BY <1>3 DEF IInv, Typed
<1> QED BY <1>2, <1>3, <1>4, <1>5, <1>8, <1>9, <1>10, <1>11, <1>12, <1>13, CallStep

\* A fork begins, without the sweep's lock.
LEMMA StartForkStep ==
  ASSUME IInv, NEW w \in Writers, NEW s \in Sessions, NEW e \in Entries, StartFork(w, s, e)
  PROVE  IInv'
<1>1. PICK c : c = [op |-> "fork", step |-> "checked", s |-> s, e |-> e, at |-> e, todo |-> <<>>]
  OBVIOUS
<1>2. pc' = [pc EXCEPT ![w] = c] /\ ops' = ops + 1 /\ ops < MaxOps /\ pc[w] = Idle
  BY <1>1 DEF StartFork, Begin
<1>3. UNCHANGED disk /\ UNCHANGED <<types, logs, refs, packing, sw, sweeps>>
  BY DEF StartFork, Begin
<1>4. c.op = "fork" /\ c.step = "checked" /\ c.s = s /\ c.e = e /\ c.at = e
  BY <1>1
<1>5. c \in Calls
  BY <1>1 DEF Calls, Forks
<1>6. ForkOK(c)
  BY <1>4 DEF ForkOK, StartFork
<1>7. \A v \in Writers : v /= w /\ pc[v].op = "fork" => pc[v].s /= s
  BY DEF StartFork
<1>8. DiskOK' /\ KeptStays
  BY <1>3, StillKeeps DEF IInv
<1>9. Promised(c) = {}
  BY <1>4 DEF Promised
<1>10. packs' = packs
  BY <1>3 DEF disk
<1>11. c.step \notin Guards
  BY <1>4 DEF Guards
<1>12. ops' \in Nat /\ ops' >= ops /\ ops' <= MaxOps
  BY <1>2, NamesAre DEF IInv, Typed
<1>13. types' \subseteq Blobs
  BY <1>3 DEF IInv, Typed
<1> QED BY <1>2, <1>3, <1>4, <1>5, <1>6, <1>7, <1>8, <1>9, <1>10, <1>11, <1>12, <1>13, CallStep

\* A session that holds an entry holds its path.
LEMMA HeldPath ==
  ASSUME LogsOK, Typed, NamedKept, NEW s \in Sessions, NEW e \in Entries, HeldBy(s, e)
  PROVE  WholePath(e) \subseteq Named
<1>1. logs[s] \in Logs /\ Upward(EntriesOf(logs[s])) /\ e \in EntriesOf(logs[s])
  BY DEF LogsOK, HeldBy
<1>2. PathTo(e) \subseteq EntriesOf(logs[s])
  BY <1>1, LogShape, PathIn
<1>3. \A o \in WholePath(e) : o \in NamedBy(logs[s])
  BY <1>2, InWholePath, InNamedBy
<1> QED BY <1>3, InNamed

\* A pin begins: what it promises its session names.
LEMMA StartPinStep ==
  ASSUME IInv, NEW w \in Writers, NEW r \in Refs, NEW e \in Entries, StartPin(w, r, e)
  PROVE  IInv'
<1>1. PICK c : c = [op |-> "pin", step |-> "place", r |-> r, e |-> e]
  OBVIOUS
<1>2. pc' = [pc EXCEPT ![w] = c] /\ ops' = ops + 1 /\ ops < MaxOps /\ pc[w] = Idle
  BY <1>1 DEF StartPin, Begin
<1>3. UNCHANGED disk /\ UNCHANGED <<types, logs, refs, packing, sw, sweeps>>
  BY DEF StartPin, Begin
<1>4. c.op = "pin" /\ c.step = "place" /\ c.e = e
  BY <1>1
<1>5. c \in Calls
  BY <1>1 DEF Calls, Pins
<1>8. DiskOK' /\ KeptStays
  BY <1>3, StillKeeps DEF IInv
<1>9. \A o \in Promised(c) : Kept(o)'
  <2>1. PICK s \in Sessions : HeldBy(s, e)
    BY DEF StartPin
  <2>2. Promised(c) \subseteq Named
    BY <1>4, <2>1, HeldPath DEF Promised, IInv
  <2>3. Named \subseteq Objects
    BY NamedShape DEF IInv, Typed
  <2> QED BY <2>2, <2>3, <1>8 DEF IInv, NamedKept, KeptStays
<1>10. packs' = packs
  BY <1>3 DEF disk
<1>11. ~Exclusive
  BY DEF StartPin
<1>12. ops' \in Nat /\ ops' >= ops /\ ops' <= MaxOps
  BY <1>2, NamesAre DEF IInv, Typed
<1>13. types' \subseteq Blobs
  BY <1>3 DEF IInv, Typed
<1> QED BY <1>2, <1>3, <1>4, <1>5, <1>8, <1>9, <1>10, <1>11, <1>12, <1>13, CallStep

-----------------------------------------------------------------------------
(* A call moves on.                                                        *)

\* A guarded call's sweep is not in its exclusive steps.
LEMMA GuardedIsShared ==
  ASSUME CallsOK, NEW w \in Writers, pc[w].op /= "idle", pc[w].step \in Guards
  PROVE  ~Exclusive /\ sw.phase /= "remove"
BY DEF CallsOK, Guarded, Exclusive

\* A call that moves on by writing an object, or none.
LEMMA WriteStep ==
  ASSUME IInv, NEW w \in Writers, NEW c \in Calls, pc' = [pc EXCEPT ![w] = c],
         pc[w].op /= "idle", pc[w].step \in Guards,
         UNCHANGED <<types, logs, refs, packing, sw, ops, sweeps>>,
         NEW new, \/ new = {} /\ UNCHANGED disk
                  \/ \E x \in Objects : new = {x} /\ WriteTo(x),
         c.op = "append" => AppendOK(c), c.op = "fork" => ForkOK(c),
         c.op \in {"append", "fork"} => c.op = pc[w].op /\ c.s = pc[w].s,
         Promised(c) \subseteq Promised(pc[w]) \cup new
  PROVE  IInv'
<1>1. ~Exclusive /\ sw.phase /= "remove"
  BY GuardedIsShared DEF IInv
<1>2. DiskOK' /\ KeptStays /\ DOMAIN packs' = DOMAIN packs /\ \A o \in new : Kept(o)'
  <2>1. CASE new = {} /\ UNCHANGED disk
    <3>1. packs' = packs
      BY <2>1 DEF disk
    <3> QED BY <2>1, <3>1, StillKeeps DEF IInv
  <2>2. CASE \E x \in Objects : new = {x} /\ WriteTo(x)
    <3>1. PICK x \in Objects : new = {x} /\ WriteTo(x)
      BY <2>2
    <3> QED BY <3>1, <1>1, WriteKeeps DEF IInv
  <2> QED BY <2>1, <2>2
<1>3. c.op \in {"append", "fork"} => \A v \in Writers : v /= w /\ pc[v].op = c.op => pc[v].s /= c.s
  BY DEF IInv, CallsOK
<1>4. \A o \in Promised(c) : o \in Promised(pc[w]) \/ Kept(o)'
  BY <1>2
<1>5. ops' \in Nat /\ ops' >= ops /\ ops' <= MaxOps /\ types' \subseteq Blobs
  BY DEF IInv, Typed
<1> QED BY <1>1, <1>2, <1>3, <1>4, <1>5, CallStep

\* Taking a pair apart.
LEMMA PairTail ==
  ASSUME NEW a, NEW b
  PROVE  /\ Head(<<a, b>>) = a /\ Tail(<<a, b>>) = <<b>> /\ Len(<<a, b>>) = 2
         /\ Head(<<b>>) = b /\ Tail(<<b>>) = <<>> /\ Len(<<b>>) = 1
<1>1. Tail(<<a, b>>) = <<b>>
  OBVIOUS
<1>2. Tail(<<b>>) = <<>>
  OBVIOUS
<1> QED BY <1>1, <1>2

\* An append's object is written, and promised.
LEMMA WriteObjectStep ==
  ASSUME IInv, NEW w \in Writers, WriteObject(w)
  PROVE  IInv'
<1>1. pc[w] \in Calls /\ pc[w].op = "append" /\ pc[w].step = "write" /\ AppendOK(pc[w])
  BY DEF IInv, CallsOK, WriteObject
<1>2. pc[w] \in Appends
  BY <1>1, CallShape
<1>3. PICK d : d = pc[w]
  OBVIOUS
<1>4. /\ d \in Appends /\ d.op = "append" /\ d.step = "write" /\ d.s \in Sessions /\ d.e \in Entries
      /\ d.blobs \in SUBSET Blobs /\ d.todo \in {<<ContentOf[d.e], d.e>>, <<d.e>>} /\ AppendOK(d)
  BY <1>1, <1>2, <1>3 DEF Appends, AppendOK
<1>5. PICK c : c = [d EXCEPT !.todo = Tail(d.todo), !.step = IF Len(d.todo) > 1 THEN "write" ELSE "blobs"]
  OBVIOUS
<1>6. pc' = [pc EXCEPT ![w] = c]
  BY <1>3, <1>5 DEF WriteObject, IInv, CallsOK
<1>7. WriteTo(Head(d.todo))
  BY <1>3 DEF WriteObject
<1>8. /\ c.op = "append" /\ c.s = d.s /\ c.e = d.e /\ c.blobs = d.blobs /\ c.todo = Tail(d.todo)
      /\ c.step = IF Len(d.todo) > 1 THEN "write" ELSE "blobs"
  BY <1>4, <1>5 DEF Appends
<1>9. \/ /\ d.todo = <<ContentOf[d.e], d.e>> /\ Head(d.todo) = ContentOf[d.e] /\ Tail(d.todo) = <<d.e>> /\ Len(d.todo) = 2
      \/ /\ d.todo = <<d.e>> /\ Head(d.todo) = d.e /\ Tail(d.todo) = <<>> /\ Len(d.todo) = 1
  <2>1. CASE d.todo = <<ContentOf[d.e], d.e>>
    BY <2>1, PairTail
  <2>2. CASE d.todo = <<d.e>>
    BY <2>2, PairTail
  <2> QED BY <1>4, <2>1, <2>2
<1>10. c \in Calls
  <2>1. <<>> \in Seq(Objects) /\ <<d.e>> \in Seq(Objects)
    BY <1>4, NamesAre
  <2>2. c \in Appends
    BY <2>1, <1>4, <1>5, <1>9 DEF Appends
  <2> QED BY <2>2 DEF Calls
<1>11. AppendOK(c)
  <2>1. (c.step = "write" /\ c.todo = <<c.e>>) \/ (c.step = "blobs" /\ c.todo = <<>>)
    <3>1. CASE Tail(d.todo) = <<d.e>> /\ Len(d.todo) = 2
      BY <3>1, <1>8
    <3>2. CASE Tail(d.todo) = <<>> /\ Len(d.todo) = 1
      BY <3>2, <1>8
    <3> QED BY <1>9, <3>1, <3>2
  <2>2. /\ d.blobs \subseteq BlobsOf[ContentOf[d.e]] /\ logs[d.s].inc > 0
        /\ ParentOf[d.e] \in EntriesOf(logs[d.s]) \cup {NoEntry}
    BY <1>4 DEF AppendOK
  <2>3. /\ c.blobs \subseteq BlobsOf[ContentOf[c.e]] /\ logs[c.s].inc > 0
        /\ ParentOf[c.e] \in EntriesOf(logs[c.s]) \cup {NoEntry}
    BY <2>2, <1>8
  <2>4. /\ c.step = "write" => c.todo \in {<<ContentOf[c.e], c.e>>, <<c.e>>}
        /\ c.step /= "write" => c.todo = <<>>
    BY <2>1, Zenon
  <2> QED BY <2>3, <2>4, Zenon DEF AppendOK
<1>12. Head(d.todo) \in Objects
  BY <1>9, <1>4, NamesAre
<1>13. Promised(c) \subseteq Promised(d) \cup {Head(d.todo)}
  <2>1. Promised(c) = (Whole(d.e) \ {c.todo[i] : i \in DOMAIN c.todo}) \cup d.blobs
    BY <1>8 DEF Promised
  <2>2. Promised(d) = (Whole(d.e) \ {d.todo[i] : i \in DOMAIN d.todo}) \cup d.blobs
    BY <1>4 DEF Promised
  <2>3. {d.todo[i] : i \in DOMAIN d.todo} \subseteq {c.todo[i] : i \in DOMAIN c.todo} \cup {Head(d.todo)}
    <3>1. CASE d.todo = <<ContentOf[d.e], d.e>>
      <4>1. c.todo = <<d.e>> /\ Head(d.todo) = ContentOf[d.e]
        BY <3>1, <1>8
      <4>2. d.e \in {c.todo[i] : i \in DOMAIN c.todo}
        BY <4>1
      <4>3. {d.todo[i] : i \in DOMAIN d.todo} = {ContentOf[d.e], d.e}
        BY <3>1
      <4> QED BY <4>1, <4>2, <4>3
    <3>2. CASE d.todo = <<d.e>>
      BY <3>2, <1>9
    <3> QED BY <3>1, <3>2, <1>4
  <2> QED BY <2>1, <2>2, <2>3
<1>14. d.op /= "idle" /\ d.step \in Guards
  BY <1>4 DEF Guards
<1>15. UNCHANGED <<types, logs, refs, packing, sw, ops, sweeps>>
  BY DEF WriteObject
<1>16. \E x \in Objects : {Head(d.todo)} = {x} /\ WriteTo(x)
  BY <1>7, <1>12
<1> QED BY <1>3, <1>4, <1>6, <1>8, <1>10, <1>11, <1>13, <1>14, <1>15, <1>16, WriteStep

\* An append's blob is freshened if it is held, and promised.
LEMMA FreshenBlobsStep ==
  ASSUME IInv, NEW w \in Writers, FreshenBlobs(w)
  PROVE  IInv'
<1>1. pc[w] \in Calls /\ pc[w].op = "append" /\ pc[w].step = "blobs" /\ AppendOK(pc[w])
  BY DEF IInv, CallsOK, FreshenBlobs
<1>2. pc[w] \in Appends
  BY <1>1, CallShape
<1>3. PICK d : d = pc[w]
  OBVIOUS
<1>4. /\ d \in Appends /\ d.op = "append" /\ d.step = "blobs" /\ d.s \in Sessions /\ d.e \in Entries
      /\ d.blobs \in SUBSET Blobs /\ d.todo = <<>> /\ AppendOK(d)
  BY <1>1, <1>2, <1>3 DEF Appends, AppendOK
<1>5. d.op /= "idle" /\ d.step \in Guards
  BY <1>4 DEF Guards
<1>6. UNCHANGED <<types, logs, refs, packing, sw, ops, sweeps>>
  BY DEF FreshenBlobs
<1>7. CASE pc' = [pc EXCEPT ![w].step = "record"] /\ UNCHANGED disk
  <2>1. PICK c : c = [d EXCEPT !.step = "record"]
    OBVIOUS
  <2>2. pc' = [pc EXCEPT ![w] = c]
    BY <1>7, <1>3, <2>1 DEF IInv, CallsOK
  <2>3. /\ c.op = "append" /\ c.s = d.s /\ c.e = d.e /\ c.blobs = d.blobs /\ c.todo = d.todo /\ c.step = "record"
    BY <2>1, <1>4 DEF Appends
  <2>4. c \in Calls
    <3>1. c \in Appends
      BY <2>1, <1>4 DEF Appends
    <3> QED BY <3>1 DEF Calls
  <2>5. AppendOK(c)
    BY <2>3, <1>4 DEF AppendOK
  <2>6. Promised(c) \subseteq Promised(d)
    BY <2>3, <1>4 DEF Promised
  <2> QED BY <1>3, <1>4, <1>5, <1>6, <1>7, <2>2, <2>3, <2>4, <2>5, <2>6, WriteStep
<1>8. ASSUME NEW b \in BlobsOf[ContentOf[d.e]], WriteTo(b), pc' = [pc EXCEPT ![w].blobs = @ \cup {b}]
      PROVE  IInv'
  <2>0. b \in Blobs /\ b \in Objects
    BY <1>8, <1>4, NamesAre
  <2>1. PICK c : c = [d EXCEPT !.blobs = d.blobs \cup {b}]
    OBVIOUS
  <2>2. pc' = [pc EXCEPT ![w] = c]
    BY <1>8, <1>3, <2>1 DEF IInv, CallsOK
  <2>3. /\ c.op = "append" /\ c.s = d.s /\ c.e = d.e /\ c.blobs = d.blobs \cup {b} /\ c.todo = d.todo /\ c.step = "blobs"
    BY <2>1, <1>4 DEF Appends
  <2>4. c \in Calls
    <3>0. d.blobs \cup {b} \in SUBSET Blobs
      BY <2>0, <1>4
    <3>1. c \in Appends
      BY <2>1, <1>4, <3>0 DEF Appends
    <3> QED BY <3>1 DEF Calls
  <2>5. AppendOK(c)
    BY <2>3, <1>4, <1>8 DEF AppendOK
  <2>6. Promised(c) \subseteq Promised(d) \cup {b}
    BY <2>3, <1>4 DEF Promised
  <2>7. \E x \in Objects : {b} = {x} /\ WriteTo(x)
    BY <2>0, <1>8
  <2> QED BY <1>3, <1>4, <1>5, <1>6, <2>2, <2>3, <2>4, <2>5, <2>6, <2>7, WriteStep
<1> QED BY <1>3, <1>7, <1>8 DEF FreshenBlobs

\* A blob is put.
LEMMA PutBlobStep ==
  ASSUME IInv, NEW w \in Writers, PutBlob(w)
  PROVE  IInv'
<1>1. pc[w] \in Puts /\ pc[w].op = "put" /\ pc[w].step = "put"
  BY CallShape DEF IInv, CallsOK, PutBlob
<1>2. PICK c : c = [pc[w] EXCEPT !.step = "type"]
  OBVIOUS
<1>3. pc' = [pc EXCEPT ![w] = c]
  BY <1>2 DEF PutBlob, IInv, CallsOK
<1>4. c \in Puts /\ c.op = "put"
  BY <1>1, <1>2 DEF Puts
<1>5. c \in Calls
  BY <1>4 DEF Calls
<1>6. Promised(c) = {}
  BY <1>4 DEF Promised
<1>7. pc[w].b \in Objects
  BY <1>1, NamesAre DEF Puts
<1>8. \E x \in Objects : {pc[w].b} = {x} /\ WriteTo(x)
  BY <1>7 DEF PutBlob
<1>9. UNCHANGED <<types, logs, refs, packing, sw, ops, sweeps>>
  BY DEF PutBlob
<1>10. PICK new : new = {pc[w].b}
  OBVIOUS
<1>11. pc[w].op /= "idle" /\ pc[w].step \in Guards
  BY <1>1 DEF Guards
<1>12. \E x \in Objects : new = {x} /\ WriteTo(x)
  BY <1>8, <1>10
<1> QED BY <1>3, <1>4, <1>5, <1>6, <1>9, <1>11, <1>12, WriteStep

\* A call that is over promises nothing.
LEMMA IdleIs == Idle \in Calls /\ Idle.op = "idle" /\ Promised(Idle) = {}
BY DEF Idle, Calls, Promised

\* A blob's type is put.
LEMMA PutMediaTypeStep ==
  ASSUME IInv, NEW w \in Writers, PutMediaType(w)
  PROVE  IInv'
<1>1. pc[w] \in Puts
  BY CallShape DEF IInv, CallsOK, PutMediaType
<1>2. types' \subseteq Blobs
  BY <1>1 DEF PutMediaType, Puts, IInv, Typed
<1>3. pc' = [pc EXCEPT ![w] = Idle] /\ UNCHANGED disk /\ UNCHANGED <<logs, refs, packing, sw, ops, sweeps>>
  BY DEF PutMediaType
<1>4. DiskOK' /\ KeptStays
  BY <1>3, StillKeeps DEF IInv
<1>5. packs' = packs
  BY <1>3 DEF disk
<1>6. ops' \in Nat /\ ops' >= ops /\ ops' <= MaxOps
  BY <1>3 DEF IInv, Typed
<1> QED BY <1>2, <1>3, <1>4, <1>5, <1>6, IdleIs, CallStep

\* A fork takes the sweep's lock shared.
LEMMA ForkGuardStep ==
  ASSUME IInv, NEW w \in Writers, ForkGuard(w)
  PROVE  IInv'
<1>1. pc[w] \in Forks /\ pc[w].op = "fork" /\ pc[w].step = "checked" /\ ForkOK(pc[w])
  BY CallShape DEF IInv, CallsOK, ForkGuard
<1>2. PICK d : d = pc[w]
  OBVIOUS
<1>3. d \in Forks /\ d.op = "fork" /\ d.at = d.e /\ d.e \in Entries /\ d.s \in Sessions /\ ForkOK(d)
  BY <1>1, <1>2 DEF Forks, ForkOK
<1>4. PICK c : c = [d EXCEPT !.step = "write", !.todo = Pair(d.e)]
  OBVIOUS
<1>5. pc' = [pc EXCEPT ![w] = c]
  BY <1>2, <1>4 DEF ForkGuard, IInv, CallsOK
<1>6. c.op = "fork" /\ c.step = "write" /\ c.s = d.s /\ c.e = d.e /\ c.at = d.e /\ c.todo = Pair(d.e)
  BY <1>3, <1>4 DEF Forks
<1>7. c \in Calls
  <2>1. Pair(d.e) \in Seq(Objects)
    BY <1>3, NamesAre DEF Pair
  <2>2. c \in Forks
    BY <1>3, <1>4, <2>1 DEF Forks
  <2> QED BY <2>2 DEF Calls
<1>8. ForkOK(c)
  BY <1>3, <1>6 DEF ForkOK
<1>9. Promised(c) = {}
  <2>1. PathTo(c.e) \ PathTo(c.at) = {}
    BY <1>6
  <2>2. {c.todo[i] : i \in DOMAIN c.todo} = Whole(c.at)
    BY <1>6 DEF Pair, Whole
  <2> QED BY <1>6, <2>1, <2>2 DEF Promised
<1>10. UNCHANGED disk /\ UNCHANGED <<types, logs, refs, packing, sw, ops, sweeps>> /\ ~Exclusive
  BY DEF ForkGuard
<1>11. DiskOK' /\ KeptStays
  BY <1>10, StillKeeps DEF IInv
<1>12. packs' = packs
  BY <1>10 DEF disk
<1>13. ops' \in Nat /\ ops' >= ops /\ ops' <= MaxOps /\ types' \subseteq Blobs
  BY <1>10 DEF IInv, Typed
<1>14. \A v \in Writers : v /= w /\ pc[v].op = c.op => pc[v].s /= c.s
  BY <1>2, <1>3, <1>6 DEF IInv, CallsOK
<1> QED BY <1>5, <1>6, <1>7, <1>8, <1>9, <1>10, <1>11, <1>12, <1>13, <1>14, CallStep

\* What a fork has freshened: the path below where it is, and there what it
\* has not still to do.
LEMMA InForkPromise ==
  ASSUME NEW c, c.op = "fork", c.step = "write", NEW o
  PROVE  o \in Promised(c) <=> \/ \E x \in PathTo(c.e) : x \notin PathTo(c.at) /\ o \in Whole(x)
                               \/ o \in Whole(c.at) /\ \A i \in DOMAIN c.todo : o /= c.todo[i]
<1> DEFINE A == UNION {Whole(x) : x \in PathTo(c.e) \ PathTo(c.at)}
           B == Whole(c.at) \ {c.todo[i] : i \in DOMAIN c.todo}
<1>1. Promised(c) = A \cup B
  BY DEF Promised
<1>2. o \in A <=> \E x \in PathTo(c.e) : x \notin PathTo(c.at) /\ o \in Whole(x)
  OBVIOUS
<1>3. o \in B <=> o \in Whole(c.at) /\ \A i \in DOMAIN c.todo : o /= c.todo[i]
  OBVIOUS
<1> HIDE DEF A, B
<1>4. o \in Promised(c) <=> o \in A \/ o \in B
  BY <1>1
<1> QED BY <1>2, <1>3, <1>4, Zenon

\* A fork freshens the next object of its path.
LEMMA FreshenPathStep ==
  ASSUME IInv, NEW w \in Writers, FreshenPath(w)
  PROVE  IInv'
<1>1. pc[w] \in Forks /\ pc[w].op = "fork" /\ pc[w].step = "write" /\ ForkOK(pc[w])
  BY CallShape DEF IInv, CallsOK, FreshenPath
<1>2. PICK d : d = pc[w]
  OBVIOUS
<1>3. /\ d \in Forks /\ d.op = "fork" /\ d.step = "write" /\ d.at \in Entries /\ d.e \in Entries /\ d.s \in Sessions
      /\ d.todo \in {Pair(d.at), <<ContentOf[d.at]>>} /\ logs[d.s].inc = 0
  BY <1>1, <1>2 DEF Forks, ForkOK
<1>4. d.op /= "idle" /\ d.step \in Guards
  BY <1>3 DEF Guards
<1>5. UNCHANGED <<types, logs, refs, packing, sw, ops, sweeps>>
  BY DEF FreshenPath
<1>6. PICK up : up = ParentOf[d.at]
  OBVIOUS
<1>7. up \in Entries \cup {NoEntry}
  BY <1>3, <1>6, NamesAre
<1>8. \/ d.todo = Pair(d.at) /\ Head(d.todo) = d.at /\ Tail(d.todo) = <<ContentOf[d.at]>> /\ Len(d.todo) = 2
      \/ d.todo = <<ContentOf[d.at]>> /\ Head(d.todo) = ContentOf[d.at] /\ Len(d.todo) = 1
  <2>1. CASE d.todo = Pair(d.at)
    BY <2>1, PairTail DEF Pair
  <2>2. CASE d.todo = <<ContentOf[d.at]>>
    BY <2>2, PairTail
  <2> QED BY <1>3, <2>1, <2>2
<1>9. Head(d.todo) \in Objects
  BY <1>8, <1>3, NamesAre
<1>10. \A o \in Whole(d.at) : o = d.at \/ o = ContentOf[d.at]
  BY DEF Whole
<1>11. CASE ~Held(Head(d.todo))
  <2>1. pc' = [pc EXCEPT ![w] = Idle] /\ UNCHANGED disk
    BY <1>2, <1>11 DEF FreshenPath
  <2>2. PICK none : none = {}
    OBVIOUS
  <2> QED BY <2>1, <2>2, <1>2, <1>4, <1>5, IdleIs, WriteStep
<1>12. ASSUME Held(Head(d.todo)) PROVE IInv'
  <2>0. /\ WriteTo(Head(d.todo))
        /\ pc' = IF Len(d.todo) > 1 THEN [pc EXCEPT ![w].todo = Tail(@)]
                 ELSE IF up = NoEntry THEN [pc EXCEPT ![w].todo = <<>>, ![w].step = "place"]
                 ELSE [pc EXCEPT ![w].todo = Pair(up), ![w].at = up]
    BY <1>2, <1>6, <1>12 DEF FreshenPath
  <2>1. PICK new : new = {Head(d.todo)}
    OBVIOUS
  <2>2. \E x \in Objects : new = {x} /\ WriteTo(x)
    BY <2>0, <2>1, <1>9
  <2>3. ASSUME NEW c \in Forks, pc' = [pc EXCEPT ![w] = c], c.s = d.s, ForkOK(c), Promised(c) \subseteq Promised(d) \cup new
        PROVE  IInv'
    <3>1. c \in Calls /\ c.op = "fork"
      BY <2>3 DEF Calls, Forks
    <3> QED BY <3>1, <2>2, <2>3, <1>2, <1>3, <1>4, <1>5, WriteStep
  <2>4. CASE d.todo = Pair(d.at) /\ Head(d.todo) = d.at /\ Tail(d.todo) = <<ContentOf[d.at]>> /\ Len(d.todo) = 2
    <3>1. PICK c : c = [d EXCEPT !.todo = <<ContentOf[d.at]>>]
      OBVIOUS
    <3>2. pc' = [pc EXCEPT ![w] = c]
      <4>1. pc' = [pc EXCEPT ![w].todo = Tail(@)]
        BY <2>0, <2>4
      <4>2. pc' = [pc EXCEPT ![w] = [pc[w] EXCEPT !.todo = Tail(pc[w].todo)]]
        BY <4>1, <1>1 DEF IInv, CallsOK, Forks
      <4> QED BY <4>2, <3>1, <1>2, <2>4
    <3>3. <<ContentOf[d.at]>> \in Seq(Objects)
      BY <1>3, NamesAre
    <3>4. c \in Forks /\ c.op = "fork" /\ c.step = "write" /\ c.s = d.s /\ c.e = d.e /\ c.at = d.at /\ c.todo = <<ContentOf[d.at]>>
      BY <3>1, <3>3, <1>3 DEF Forks
    <3>5. ForkOK(c)
      BY <3>4, <1>3 DEF ForkOK
    <3>6. \A o \in Promised(c) : o \in Promised(d) \cup new
      <4> TAKE o \in Promised(c)
      <4>1. CASE \E x \in PathTo(c.e) : x \notin PathTo(c.at) /\ o \in Whole(x)
        BY <4>1, <3>4, <1>3, InForkPromise
      <4>2. CASE o \in Whole(c.at) /\ \A i \in DOMAIN c.todo : o /= c.todo[i]
        <5>1. o /= ContentOf[d.at]
          BY <4>2, <3>4
        <5> QED BY <5>1, <4>2, <3>4, <1>10, <2>1, <2>4
      <4> QED BY <4>1, <4>2, <3>4, InForkPromise
    <3> QED BY <3>2, <3>4, <3>5, <3>6, <2>3
  <2>5. CASE d.todo = <<ContentOf[d.at]>> /\ Head(d.todo) = ContentOf[d.at] /\ Len(d.todo) = 1
    <3>0. ASSUME NEW x \in PathTo(d.e), NEW o \in Whole(x), x \notin PathTo(d.at) \/ x = d.at
          PROVE  o \in Promised(d) \cup new
      <4>1. CASE x \notin PathTo(d.at)
        BY <4>1, <3>0, <1>3, InForkPromise
      <4>2. CASE x = d.at /\ o = d.at /\ d.at /= ContentOf[d.at]
        <5>1. \A i \in DOMAIN d.todo : o /= d.todo[i]
          BY <4>2, <2>5
        <5> QED BY <5>1, <4>2, <3>0, <1>3, InForkPromise
      <4>3. CASE x = d.at /\ o = ContentOf[d.at]
        BY <4>3, <2>1, <2>5
      <4> QED BY <4>1, <4>2, <4>3, <3>0, <1>10
    <3>1. CASE up = NoEntry
      <4>1. PICK c : c = [d EXCEPT !.todo = <<>>, !.step = "place"]
        OBVIOUS
      <4>2. pc' = [pc EXCEPT ![w] = c]
        <5>1. pc' = [pc EXCEPT ![w].todo = <<>>, ![w].step = "place"]
          BY <2>0, <2>5, <3>1
        <5>2. pc' = [pc EXCEPT ![w] = [pc[w] EXCEPT !.todo = <<>>, !.step = "place"]]
          BY <5>1, <1>1 DEF IInv, CallsOK, Forks
        <5> QED BY <5>2, <4>1, <1>2
      <4>2a. <<>> \in Seq(Objects)
        OBVIOUS
      <4>3. c \in Forks /\ c.op = "fork" /\ c.step = "place" /\ c.s = d.s /\ c.e = d.e
        BY <4>1, <4>2a, <1>3 DEF Forks
      <4>4. ForkOK(c)
        BY <4>3, <1>3 DEF ForkOK
      <4>5. PathTo(d.at) \subseteq {d.at}
        BY <3>1, <1>3, <1>6, PathStep
      <4>6. Promised(c) = WholePath(d.e)
        BY <4>3 DEF Promised
      <4>7. \A o \in Promised(c) : o \in Promised(d) \cup new
        <5> TAKE o \in Promised(c)
        <5>1. PICK x \in PathTo(d.e) : o \in Whole(x)
          BY <4>6, InWholePath
        <5> QED BY <5>1, <4>5, <3>0
      <4> QED BY <4>2, <4>3, <4>4, <4>7, <2>3
    <3>2. CASE up /= NoEntry
      <4>0. up \in Entries
        BY <3>2, <1>7
      <4>1. PICK c : c = [d EXCEPT !.todo = Pair(up), !.at = up]
        OBVIOUS
      <4>2. pc' = [pc EXCEPT ![w] = c]
        <5>1. pc' = [pc EXCEPT ![w].todo = Pair(up), ![w].at = up]
          BY <2>0, <2>5, <3>2
        <5>2. pc' = [pc EXCEPT ![w] = [pc[w] EXCEPT !.todo = Pair(up), !.at = up]]
          BY <5>1, <1>1 DEF IInv, CallsOK, Forks
        <5> QED BY <5>2, <4>1, <1>2
      <4>3. Pair(up) \in Seq(Objects)
        BY <4>0, NamesAre DEF Pair
      <4>4. c \in Forks /\ c.op = "fork" /\ c.step = "write" /\ c.s = d.s /\ c.e = d.e /\ c.at = up /\ c.todo = Pair(up)
        BY <4>0, <4>1, <4>3, <1>3 DEF Forks
      <4>5. ForkOK(c)
        BY <4>4, <1>3 DEF ForkOK
      <4>6. PathTo(d.at) \subseteq {d.at} \cup PathTo(up)
        BY <3>2, <1>3, <1>6, PathStep
      <4>7. \A o \in Promised(c) : o \in Promised(d) \cup new
        <5> TAKE o \in Promised(c)
        <5>1. CASE \E x \in PathTo(c.e) : x \notin PathTo(c.at) /\ o \in Whole(x)
          <6>1. PICK x \in PathTo(d.e) : x \notin PathTo(up) /\ o \in Whole(x)
            BY <5>1, <4>4
          <6>2. x \notin PathTo(d.at) \/ x = d.at
            BY <6>1, <4>6
          <6> QED BY <6>1, <6>2, <3>0
        <5>2. CASE o \in Whole(c.at) /\ \A i \in DOMAIN c.todo : o /= c.todo[i]
          <6>1. o /= up /\ o /= ContentOf[up]
            BY <5>2, <4>4 DEF Pair
          <6> QED BY <6>1, <5>2, <4>4 DEF Whole
        <5> QED BY <5>1, <5>2, <4>4, InForkPromise
      <4> QED BY <4>2, <4>4, <4>5, <4>7, <2>3
    <3> QED BY <3>1, <3>2
  <2> QED BY <2>4, <2>5, <1>8
<1> QED BY <1>11, <1>12

-----------------------------------------------------------------------------
(* What comes to be named, or no longer is.                                *)

\* What the store names after a step.
LEMMA InNamedNext ==
  \A o : o \in Named' <=> \/ \E s \in Sessions : o \in NamedBy(logs'[s])
                          \/ \E r \in Refs : refs'[r] /= NoEntry /\ o \in WholePath(refs'[r])
<1> SUFFICES ASSUME NEW o
             PROVE  o \in Named' <=> \/ \E s \in Sessions : o \in NamedBy(logs'[s])
                                    \/ \E r \in Refs : refs'[r] /= NoEntry /\ o \in WholePath(refs'[r])
  OBVIOUS
<1> DEFINE Logged == UNION {NamedBy(logs'[s]) : s \in Sessions}
           Pinned == UNION {WholePath(refs'[r]) : r \in {q \in Refs : refs'[q] /= NoEntry}}
<1>1. o \in Logged <=> \E s \in Sessions : o \in NamedBy(logs'[s])
  OBVIOUS
<1>2. o \in Pinned <=> \E r \in Refs : refs'[r] /= NoEntry /\ o \in WholePath(refs'[r])
  OBVIOUS
<1>3. Named' = Logged \cup Pinned
  BY Zenon DEF Named, WholePath
<1> HIDE DEF Logged, Pinned
<1>4. o \in Named' <=> o \in Logged \/ o \in Pinned
  BY <1>3
<1> QED BY <1>1, <1>2, <1>4, Zenon

\* A step that changes logs or refs, with disk, sweep and packs as they were.
LEMMA NameStep ==
  ASSUME IInv, UNCHANGED disk, sw' = sw, packing' = packing, types' = types,
         ops' \in Nat, ops' >= ops, ops' <= MaxOps, refs' \in [Refs -> Entries \cup {NoEntry}],
         LogsOK', \A s \in Sessions : LogStep(s), CallsOK',
         NEW w \in Writers, pc' = [pc EXCEPT ![w] = Idle] \/ pc' = pc,
         \A o \in Named' : o \in Named \/ o \in Promised(pc[w])
  PROVE  IInv'
<1>1. Typed'
  BY DEF IInv, Typed
<1>2. packs' = packs /\ DOMAIN packs \subseteq DOMAIN packs'
  BY DEF disk
<1>3. DiskOK' /\ KeptStays
  BY StillKeeps DEF IInv
<1>4. PackingOK'
  BY <1>2, PackingCarry DEF IInv
<1>5. MarksOK'
  BY MarksCarry DEF IInv, Typed
<1>6. FoundOK'
  BY <1>2, FoundCarry DEF IInv, Typed
<1>7. \A o \in Promised(pc[w]) : Kept(o)'
  <2>1. pc[w] \in Calls
    BY DEF IInv, CallsOK
  <2>2. Promised(pc[w]) \subseteq Objects
    BY <2>1, PromisedShape
  <2> QED BY <2>2, <1>3 DEF IInv, PromisesKept, KeptStays
<1>8. NamedKept'
  BY <1>3, <1>7, NamedCarry DEF IInv
<1>9. PromisesKept'
  <2>1. CASE pc' = pc
    BY <2>1, <1>3, PromisesStay DEF IInv
  <2>2. CASE pc' = [pc EXCEPT ![w] = Idle]
    BY <2>2, <1>3, IdleIs, PromisesCarry DEF IInv
  <2> QED BY <2>1, <2>2
<1> QED BY <1>1, <1>3, <1>4, <1>5, <1>6, <1>8, <1>9 DEF IInv

\* A call ended, logs changed so that the other calls' facts stand.
LEMMA CallsEnd ==
  ASSUME CallsOK, sw' = sw, NEW w \in Writers, pc' = [pc EXCEPT ![w] = Idle] \/ pc' = pc,
         \A v \in Writers : v /= w \/ pc' = pc =>
           /\ pc[v].op = "append" => /\ logs'[pc[v].s].inc > 0
                                     /\ EntriesOf(logs[pc[v].s]) \subseteq EntriesOf(logs'[pc[v].s])
           /\ pc[v].op = "fork" => logs'[pc[v].s].inc = 0
  PROVE  CallsOK'
<1>1. pc \in [Writers -> Calls]
  BY DEF CallsOK
<1>2. pc' \in [Writers -> Calls]
  BY <1>1, IdleIs
<1>3. \A v \in Writers : (pc'[v] = pc[v] /\ (v /= w \/ pc' = pc)) \/ pc'[v] = Idle
  BY <1>1
<1>4. ASSUME NEW v \in Writers
      PROVE  (pc[v].op = "append" => AppendOK(pc[v]))' /\ (pc[v].op = "fork" => ForkOK(pc[v]))'
  <2>1. CASE pc'[v] = Idle
    BY <2>1, IdleIs
  <2>2. CASE pc'[v] = pc[v] /\ (v /= w \/ pc' = pc)
    <3>1. (pc[v].op = "append" => AppendOK(pc[v])) /\ (pc[v].op = "fork" => ForkOK(pc[v]))
      BY DEF CallsOK
    <3>2. PICK d : d = pc[v]
      OBVIOUS
    <3>3. /\ d.op = "append" => logs'[d.s].inc > 0 /\ EntriesOf(logs[d.s]) \subseteq EntriesOf(logs'[d.s])
          /\ d.op = "fork" => logs'[d.s].inc = 0
      BY <2>2, <3>2
    <3>4. (d.op = "append" => AppendOK(d)) /\ (d.op = "fork" => ForkOK(d))
      BY <3>1, <3>2
    <3>5. (d.op = "append" => AppendOK(d)') /\ (d.op = "fork" => ForkOK(d)')
      BY <3>3, <3>4 DEF AppendOK, ForkOK
    <3>6. pc'[v] = d
      BY <2>2, <3>2
    <3> QED BY <3>5, <3>6 DEF AppendOK, ForkOK
  <2> QED BY <1>3, <2>1, <2>2
<1>5. \A u, v \in Writers : u /= v /\ pc'[u].op = pc'[v].op /\ pc'[u].op \in {"append", "fork"} => pc'[u].s /= pc'[v].s
  BY <1>3, IdleIs DEF CallsOK
<1>6. Exclusive' => \A v \in Writers : ~(pc'[v].op /= "idle" /\ pc'[v].step \in Guards)
  BY <1>3, IdleIs DEF CallsOK, Exclusive, Guarded
<1> QED BY <1>2, <1>4, <1>5, <1>6 DEF CallsOK, Guarded

\* An append's record names what the append promised.
LEMMA AppendRecordStep ==
  ASSUME IInv, NEW w \in Writers, AppendRecord(w)
  PROVE  IInv'
<1>1. pc[w] \in Appends /\ pc[w].op = "append" /\ pc[w].step = "record" /\ AppendOK(pc[w])
  BY CallShape DEF IInv, CallsOK, AppendRecord
<1>2. PICK d : d = pc[w]
  OBVIOUS
<1>3. /\ d.op = "append" /\ d.s \in Sessions /\ d.e \in Entries /\ d.blobs \in SUBSET Blobs /\ d.todo = <<>>
      /\ d.blobs \subseteq BlobsOf[ContentOf[d.e]] /\ logs[d.s].inc > 0
      /\ ParentOf[d.e] \in EntriesOf(logs[d.s]) \cup {NoEntry}
  BY <1>1, <1>2 DEF Appends, AppendOK
<1>4. PICK r : r = [entry |-> d.e, blobs |-> d.blobs]
  OBVIOUS
<1>5. r \in Records /\ r.entry = d.e /\ r.blobs = d.blobs
  BY <1>3, <1>4 DEF Records
<1>6. /\ logs' = [logs EXCEPT ![d.s].recs = Append(@, r)] /\ pc' = [pc EXCEPT ![w] = Idle] /\ UNCHANGED disk
      /\ UNCHANGED <<types, refs, packing, sw, ops, sweeps>>
  BY <1>2, <1>4 DEF AppendRecord
<1>7. logs \in [Sessions -> Logs]
  BY DEF IInv, LogsOK
<1>8. PICK l : l = logs[d.s]
  OBVIOUS
<1>9. l \in Logs /\ l.inc \in Nat /\ l.base \in Entries \cup {NoEntry} /\ l.recs \in Seq(Records)
  BY <1>3, <1>7, <1>8 DEF Logs
<1>10. PICK m : m = [l EXCEPT !.recs = Append(l.recs, r)]
  OBVIOUS
<1>10a. Append(l.recs, r) \in Seq(Records)
  BY <1>5, <1>9
<1>10b. m = [inc |-> l.inc, base |-> l.base, recs |-> Append(l.recs, r)]
  BY <1>9, <1>10 DEF Logs
<1>11. m \in Logs /\ m.inc = l.inc /\ m.base = l.base /\ m.recs = Append(l.recs, r)
  BY <1>9, <1>10a, <1>10b DEF Logs
<1>12. logs'[d.s] = m /\ \A s \in Sessions : s /= d.s => logs'[s] = logs[s]
  BY <1>3, <1>6, <1>7, <1>8, <1>10
<1>13. logs' \in [Sessions -> Logs]
  BY <1>3, <1>6, <1>7, <1>8, <1>10, <1>11
<1>14. /\ DOMAIN m.recs = DOMAIN l.recs \cup {Len(l.recs) + 1} /\ m.recs[Len(l.recs) + 1] = r
       /\ \A i \in DOMAIN l.recs : m.recs[i] = l.recs[i]
  BY <1>5, <1>9, <1>11
<1>15. EntriesOf(m) = EntriesOf(l) \cup {d.e}
  <2>1. {m.recs[i].entry : i \in DOMAIN m.recs} = {l.recs[i].entry : i \in DOMAIN l.recs} \cup {d.e}
    BY <1>5, <1>14
  <2> QED BY <2>1, <1>11 DEF EntriesOf
<1>16. Upward(EntriesOf(m))
  <2>1. Upward(EntriesOf(l))
    BY <1>3, <1>8 DEF IInv, LogsOK
  <2> QED BY <2>1, <1>15, <1>3, <1>8 DEF Upward
<1>17. LogsOK'
  <2>1. \A s \in Sessions : /\ logs[s].inc <= ops + 1
                            /\ logs[s].inc = 0 => logs[s].base = NoEntry /\ logs[s].recs = <<>>
                            /\ Upward(EntriesOf(logs[s]))
    BY DEF IInv, LogsOK
  <2>2. \A s \in Sessions : /\ logs'[s].inc <= ops' + 1
                            /\ logs'[s].inc = 0 => logs'[s].base = NoEntry /\ logs'[s].recs = <<>>
                            /\ Upward(EntriesOf(logs'[s]))
    <3> TAKE s \in Sessions
    <3>1. CASE s = d.s
      <4>1. logs'[s] = m /\ logs[s] = l /\ ops' = ops /\ l.inc > 0
        BY <3>1, <1>3, <1>6, <1>8, <1>12
      <4>2. m.inc <= ops + 1 /\ m.inc /= 0
        BY <4>1, <2>1, <1>9, <1>11
      <4> QED BY <4>1, <4>2, <1>16
    <3>2. CASE s /= d.s
      BY <3>2, <2>1, <1>6, <1>12
    <3> QED BY <3>1, <3>2
  <2> QED BY <2>2, <1>13 DEF LogsOK
<1>18. Appended(d.s)
  BY <1>3, <1>5, <1>8, <1>11, <1>12 DEF Appended
<1>19. \A s \in Sessions : LogStep(s)
  BY <1>12, <1>18 DEF LogStep
<1>20. CallsOK'
  <2>1. \A v \in Writers : v /= w =>
           /\ pc[v].op = "append" => /\ logs'[pc[v].s].inc > 0
                                     /\ EntriesOf(logs[pc[v].s]) \subseteq EntriesOf(logs'[pc[v].s])
           /\ pc[v].op = "fork" => logs'[pc[v].s].inc = 0
    <3> SUFFICES ASSUME NEW v \in Writers, v /= w
                 PROVE  /\ pc[v].op = "append" => /\ logs'[pc[v].s].inc > 0
                                                  /\ EntriesOf(logs[pc[v].s]) \subseteq EntriesOf(logs'[pc[v].s])
                        /\ pc[v].op = "fork" => logs'[pc[v].s].inc = 0
      OBVIOUS
    <3>1. pc[v] \in Calls /\ (pc[v].op = "append" => AppendOK(pc[v])) /\ (pc[v].op = "fork" => ForkOK(pc[v]))
      BY DEF IInv, CallsOK
    <3>2. pc[v].op \in {"append", "fork"} => pc[v].s \in Sessions
      BY <3>1, CallShape DEF Appends, Forks
    <3>3. /\ pc[v].op = "append" => logs[pc[v].s].inc > 0
          /\ pc[v].op = "fork" => logs[pc[v].s].inc = 0
      BY <3>1 DEF AppendOK, ForkOK
    <3>4. ASSUME pc[v].op \in {"append", "fork"} PROVE pc[v].s /= d.s
      <4>1. CASE pc[v].op = "append"
        BY <4>1, <1>2, <1>3 DEF IInv, CallsOK
      <4>2. CASE pc[v].op = "fork"
        BY <4>2, <3>3, <1>3
      <4> QED BY <4>1, <4>2, <3>4
    <3> QED BY <3>2, <3>3, <3>4, <1>12
  <2>2. pc' /= pc
    <3>1. pc'[w] = Idle /\ Idle.op /= "append"
      BY <1>6, IdleIs DEF IInv, CallsOK
    <3> QED BY <3>1, <1>2, <1>3
  <2> QED BY <2>1, <2>2, <1>6, CallsEnd DEF IInv
<1>21. \A o \in Named' : o \in Named \/ o \in Promised(pc[w])
  <2> TAKE o \in Named'
  <2>0. Promised(d) = Whole(d.e) \cup d.blobs
    BY <1>3 DEF Promised
  <2>1. \/ \E s \in Sessions : o \in NamedBy(logs'[s])
        \/ \E r1 \in Refs : refs[r1] /= NoEntry /\ o \in WholePath(refs[r1])
    BY <1>6, InNamedNext
  <2>2. CASE \E r1 \in Refs : refs[r1] /= NoEntry /\ o \in WholePath(refs[r1])
    BY <2>2, InNamed
  <2>3. ASSUME NEW s \in Sessions, o \in NamedBy(logs'[s]) PROVE o \in Named \/ o \in Promised(d)
    <3>1. CASE s /= d.s
      BY <3>1, <2>3, <1>12, InNamed
    <3>2. CASE s = d.s
      <4>1. o \in NamedBy(m)
        BY <2>3, <3>2, <1>12
      <4>2. CASE \E e \in EntriesOf(m) : o \in Whole(e)
        <5>1. PICK e \in EntriesOf(m) : o \in Whole(e)
          BY <4>2
        <5>2. CASE e = d.e
          BY <5>1, <5>2, <2>0
        <5>3. CASE e \in EntriesOf(l)
          BY <5>1, <5>3, <1>8, <1>3, InNamedBy, InNamed
        <5> QED BY <5>2, <5>3, <1>15
      <4>3. CASE \E i \in DOMAIN m.recs : o \in m.recs[i].blobs
        <5>1. PICK i \in DOMAIN m.recs : o \in m.recs[i].blobs
          BY <4>3
        <5>2. CASE i \in DOMAIN l.recs
          <6>1. o \in l.recs[i].blobs
            BY <5>1, <5>2, <1>14
          <6> QED BY <6>1, <5>2, <1>8, <1>3, InNamedBy, InNamed
        <5>3. CASE i = Len(l.recs) + 1
          BY <5>1, <5>3, <1>14, <1>5, <2>0
        <5> QED BY <5>2, <5>3, <1>14
      <4> QED BY <4>1, <4>2, <4>3, InNamedBy
    <3> QED BY <3>1, <3>2
  <2> QED BY <2>1, <2>2, <2>3, <1>2
<1>22. ops' \in Nat /\ ops' >= ops /\ ops' <= MaxOps /\ refs' \in [Refs -> Entries \cup {NoEntry}]
  BY <1>6 DEF IInv, Typed
<1> QED BY <1>6, <1>17, <1>19, <1>20, <1>21, <1>22, NameStep

\* A step that drops names, with disk, sweep, calls and packs as they were.
LEMMA NamesLess ==
  ASSUME IInv, UNCHANGED disk, sw' = sw, packing' = packing, types' = types, pc' = pc,
         ops' \in Nat, ops' >= ops, ops' <= MaxOps, refs' \in [Refs -> Entries \cup {NoEntry}],
         LogsOK', \A s \in Sessions : LogStep(s), CallsOK', Named' \subseteq Named
  PROVE  IInv'
<1>1. Typed'
  BY DEF IInv, Typed
<1>2. packs' = packs /\ DOMAIN packs \subseteq DOMAIN packs'
  BY DEF disk
<1>3. DiskOK' /\ KeptStays
  BY StillKeeps DEF IInv
<1>4. PackingOK'
  BY <1>2, PackingCarry DEF IInv
<1>5. MarksOK'
  BY MarksCarry DEF IInv, Typed
<1>6. FoundOK'
  BY <1>2, FoundCarry DEF IInv, Typed
<1>8. NamedKept'
  BY <1>3, NamedCarry DEF IInv
<1>9. PromisesKept'
  BY <1>3, PromisesStay DEF IInv
<1> QED BY <1>1, <1>3, <1>4, <1>5, <1>6, <1>8, <1>9 DEF IInv

\* Where another call is not the fork of s, nor an append to it, its facts
\* stand whatever s becomes.
LEMMA OtherCalls ==
  ASSUME CallsOK, LogsOK, NEW s \in Sessions, NEW v \in Writers,
         \A t \in Sessions : t /= s => logs'[t] = logs[t],
         pc[v].op \in {"append", "fork"} => pc[v].s /= s
  PROVE  /\ pc[v].op = "append" => /\ logs'[pc[v].s].inc > 0
                                   /\ EntriesOf(logs[pc[v].s]) \subseteq EntriesOf(logs'[pc[v].s])
         /\ pc[v].op = "fork" => logs'[pc[v].s].inc = 0
<1>1. pc[v] \in Calls /\ (pc[v].op = "append" => AppendOK(pc[v])) /\ (pc[v].op = "fork" => ForkOK(pc[v]))
  BY DEF CallsOK
<1>2. pc[v].op \in {"append", "fork"} => pc[v].s \in Sessions
  BY <1>1, CallShape DEF Appends, Forks
<1>3. /\ pc[v].op = "append" => logs[pc[v].s].inc > 0
      /\ pc[v].op = "fork" => logs[pc[v].s].inc = 0
  BY <1>1 DEF AppendOK, ForkOK
<1> QED BY <1>2, <1>3

\* A fork's session names its base's path, all of it freshened.
LEMMA PlaceSessionStep ==
  ASSUME IInv, NEW w \in Writers, PlaceSession(w)
  PROVE  IInv'
<1>1. pc[w] \in Forks /\ pc[w].op = "fork" /\ pc[w].step = "place" /\ ForkOK(pc[w])
  BY CallShape DEF IInv, CallsOK, PlaceSession
<1>2. PICK d : d = pc[w]
  OBVIOUS
<1>3. d.op = "fork" /\ d.step = "place" /\ d.s \in Sessions /\ d.e \in Entries /\ logs[d.s].inc = 0
  BY <1>1, <1>2 DEF Forks, ForkOK
<1>4. PICK m : m = [inc |-> ops + 1, base |-> d.e, recs |-> <<>>]
  OBVIOUS
<1>5. ops \in Nat /\ ops <= MaxOps /\ refs \in [Refs -> Entries \cup {NoEntry}]
  BY DEF IInv, Typed
<1>5a. <<>> \in Seq(Records)
  OBVIOUS
<1>6. m \in Logs /\ m.inc = ops + 1 /\ m.base = d.e /\ m.recs = <<>>
  BY <1>3, <1>4, <1>5, <1>5a DEF Logs
<1>7. /\ logs' = [logs EXCEPT ![d.s] = m] /\ pc' = [pc EXCEPT ![w] = Idle] /\ UNCHANGED disk
      /\ UNCHANGED <<types, refs, packing, sw, ops, sweeps>>
  BY <1>2, <1>4 DEF PlaceSession
<1>8. logs \in [Sessions -> Logs]
  BY DEF IInv, LogsOK
<1>9. logs' \in [Sessions -> Logs] /\ logs'[d.s] = m /\ \A s \in Sessions : s /= d.s => logs'[s] = logs[s]
  BY <1>3, <1>6, <1>7, <1>8
<1>10. EntriesOf(m) = PathTo(d.e)
  <2>1. {m.recs[i].entry : i \in DOMAIN m.recs} = {}
    BY <1>6
  <2> QED BY <2>1, <1>3, <1>6, NamesAre DEF EntriesOf
<1>11. LogsOK'
  <2>1. \A s \in Sessions : /\ logs[s].inc <= ops + 1
                            /\ logs[s].inc = 0 => logs[s].base = NoEntry /\ logs[s].recs = <<>>
                            /\ Upward(EntriesOf(logs[s]))
    BY DEF IInv, LogsOK
  <2>2. ASSUME NEW s \in Sessions
        PROVE  /\ logs'[s].inc <= ops' + 1
               /\ logs'[s].inc = 0 => logs'[s].base = NoEntry /\ logs'[s].recs = <<>>
               /\ Upward(EntriesOf(logs'[s]))
    <3>1. CASE s = d.s
      <4>1. logs'[s] = m /\ ops' = ops
        BY <3>1, <1>7, <1>9
      <4>2. m.inc <= ops + 1 /\ m.inc /= 0
        BY <1>5, <1>6
      <4>3. Upward(EntriesOf(m))
        BY <1>3, <1>10, PathUp
      <4> QED BY <4>1, <4>2, <4>3
    <3>2. CASE s /= d.s
      BY <3>2, <2>1, <1>7, <1>9
    <3> QED BY <3>1, <3>2
  <2> QED BY <2>2, <1>9 DEF LogsOK
<1>12. \A s \in Sessions : LogStep(s)
  <2>1. Placed(d.s)
    BY <1>3, <1>6, <1>9 DEF Placed
  <2> QED BY <2>1, <1>9 DEF LogStep
<1>13. CallsOK'
  <2>1. ASSUME NEW v \in Writers, v /= w, pc[v].op \in {"append", "fork"} PROVE pc[v].s /= d.s
    <3>1. CASE pc[v].op = "append"
      BY <3>1, <1>3 DEF IInv, CallsOK, AppendOK
    <3>2. CASE pc[v].op = "fork"
      BY <2>1, <3>2, <1>2, <1>3 DEF IInv, CallsOK
    <3> QED BY <2>1, <3>1, <3>2
  <2>2. \A v \in Writers : v /= w =>
           /\ pc[v].op = "append" => /\ logs'[pc[v].s].inc > 0
                                     /\ EntriesOf(logs[pc[v].s]) \subseteq EntriesOf(logs'[pc[v].s])
           /\ pc[v].op = "fork" => logs'[pc[v].s].inc = 0
    BY <2>1, <1>3, <1>9, OtherCalls DEF IInv
  <2>3. pc' /= pc
    <3>1. pc'[w] = Idle /\ Idle.op /= "fork"
      BY <1>7, IdleIs DEF IInv, CallsOK
    <3> QED BY <3>1, <1>2, <1>3
  <2> QED BY <2>2, <2>3, <1>7, CallsEnd DEF IInv
<1>14. \A o \in Named' : o \in Named \/ o \in Promised(pc[w])
  <2> TAKE o \in Named'
  <2>0. Promised(d) = WholePath(d.e)
    BY <1>3 DEF Promised
  <2>1. \/ \E s \in Sessions : o \in NamedBy(logs'[s])
        \/ \E r1 \in Refs : refs[r1] /= NoEntry /\ o \in WholePath(refs[r1])
    BY <1>7, InNamedNext
  <2>2. CASE \E r1 \in Refs : refs[r1] /= NoEntry /\ o \in WholePath(refs[r1])
    BY <2>2, InNamed
  <2>3. ASSUME NEW s \in Sessions, o \in NamedBy(logs'[s]) PROVE o \in Named \/ o \in Promised(d)
    <3>1. CASE s /= d.s
      BY <3>1, <2>3, <1>9, InNamed
    <3>2. CASE s = d.s
      <4>1. o \in NamedBy(m)
        BY <2>3, <3>2, <1>9
      <4>2. DOMAIN m.recs = {}
        BY <1>6
      <4>3. \E e \in PathTo(d.e) : o \in Whole(e)
        BY <4>1, <4>2, <1>10, InNamedBy
      <4> QED BY <4>3, <2>0, InWholePath
    <3> QED BY <3>1, <3>2
  <2> QED BY <2>1, <2>2, <2>3, <1>2
<1>15. ops' \in Nat /\ ops' >= ops /\ ops' <= MaxOps /\ refs' \in [Refs -> Entries \cup {NoEntry}]
  BY <1>5, <1>7
<1> QED BY <1>7, <1>11, <1>12, <1>13, <1>14, <1>15, NameStep

\* A ref names its entry's path.
LEMMA PlaceRefStep ==
  ASSUME IInv, NEW w \in Writers, PlaceRef(w)
  PROVE  IInv'
<1>1. pc[w] \in Pins /\ pc[w].op = "pin"
  BY CallShape DEF IInv, CallsOK, PlaceRef
<1>2. PICK d : d = pc[w]
  OBVIOUS
<1>3. d.op = "pin" /\ d.r \in Refs /\ d.e \in Entries
  BY <1>1, <1>2 DEF Pins
<1>4. /\ refs' = [refs EXCEPT ![d.r] = d.e] /\ pc' = [pc EXCEPT ![w] = Idle] /\ UNCHANGED disk
      /\ UNCHANGED <<types, logs, packing, sw, ops, sweeps>>
  BY <1>2 DEF PlaceRef
<1>5. ops \in Nat /\ ops <= MaxOps /\ refs \in [Refs -> Entries \cup {NoEntry}]
  BY DEF IInv, Typed
<1>6. refs' \in [Refs -> Entries \cup {NoEntry}]
  BY <1>3, <1>4, <1>5
<1>7. LogsOK' /\ \A s \in Sessions : LogStep(s)
  BY <1>4, <1>5, LogsStay DEF IInv
<1>8. CallsOK'
  BY <1>4, IdleIs, CallsSet DEF IInv
<1>9. \A o \in Named' : o \in Named \/ o \in Promised(pc[w])
  <2> TAKE o \in Named'
  <2>0. Promised(d) = WholePath(d.e)
    BY <1>3 DEF Promised
  <2>1. \/ \E s \in Sessions : o \in NamedBy(logs[s])
        \/ \E r1 \in Refs : refs'[r1] /= NoEntry /\ o \in WholePath(refs'[r1])
    BY <1>4, InNamedNext
  <2>2. CASE \E s \in Sessions : o \in NamedBy(logs[s])
    BY <2>2, InNamed
  <2>3. ASSUME NEW r1 \in Refs, refs'[r1] /= NoEntry, o \in WholePath(refs'[r1]) PROVE o \in Named \/ o \in Promised(d)
    <3>1. CASE r1 = d.r
      <4>1. refs'[r1] = d.e
        BY <3>1, <1>4, <1>5
      <4> QED BY <4>1, <2>0, <2>3
    <3>2. CASE r1 /= d.r
      <4>1. refs'[r1] = refs[r1]
        BY <3>2, <1>4, <1>5
      <4> QED BY <4>1, <2>3, InNamed
    <3> QED BY <3>1, <3>2
  <2> QED BY <2>1, <2>2, <2>3, <1>2
<1>10. ops' \in Nat /\ ops' >= ops /\ ops' <= MaxOps
  BY <1>4, <1>5
<1> QED BY <1>4, <1>6, <1>7, <1>8, <1>9, <1>10, NameStep

\* A ref deleted.
LEMMA DeleteRefStep ==
  ASSUME IInv, NEW r \in Refs, DeleteRef(r)
  PROVE  IInv'
<1>4. /\ refs' = [refs EXCEPT ![r] = NoEntry] /\ ops < MaxOps /\ ops' = ops + 1 /\ UNCHANGED disk
      /\ UNCHANGED <<types, logs, pc, packing, sw, sweeps>>
  BY DEF DeleteRef
<1>5. ops \in Nat /\ ops <= MaxOps /\ refs \in [Refs -> Entries \cup {NoEntry}] /\ MaxOps \in Nat
  BY NamesAre DEF IInv, Typed
<1>6. refs' \in [Refs -> Entries \cup {NoEntry}] /\ ops' \in Nat /\ ops' >= ops /\ ops' <= MaxOps
  BY <1>4, <1>5
<1>7. LogsOK' /\ \A s \in Sessions : LogStep(s)
  BY <1>4, <1>6, <1>5, LogsStay DEF IInv
<1>8. CallsOK'
  BY <1>4 DEF IInv, CallsOK, AppendOK, ForkOK, Exclusive, Guarded
<1>9. Named' \subseteq Named
  <2> SUFFICES ASSUME NEW o \in Named' PROVE o \in Named
    OBVIOUS
  <2>1. \/ \E s \in Sessions : o \in NamedBy(logs[s])
        \/ \E r1 \in Refs : refs'[r1] /= NoEntry /\ o \in WholePath(refs'[r1])
    BY <1>4, InNamedNext
  <2>2. CASE \E s \in Sessions : o \in NamedBy(logs[s])
    BY <2>2, InNamed
  <2>3. ASSUME NEW r1 \in Refs, refs'[r1] /= NoEntry, o \in WholePath(refs'[r1]) PROVE o \in Named
    <3>1. r1 /= r /\ refs'[r1] = refs[r1]
      BY <2>3, <1>4, <1>5
    <3> QED BY <3>1, <2>3, InNamed
  <2> QED BY <2>1, <2>2, <2>3
<1> QED BY <1>4, <1>6, <1>7, <1>8, <1>9, NamesLess

\* A session deleted: none appends to it, and a fork of its ID has not begun.
LEMMA DeleteSessionStep ==
  ASSUME IInv, NEW s \in Sessions, DeleteSession(s)
  PROVE  IInv'
<1>1. PICK m : m = [inc |-> 0, base |-> NoEntry, recs |-> <<>>]
  OBVIOUS
<1>1a. <<>> \in Seq(Records)
  OBVIOUS
<1>2. m \in Logs /\ m.inc = 0 /\ m.base = NoEntry /\ m.recs = <<>>
  BY <1>1, <1>1a DEF Logs
<1>3. /\ logs[s].inc > 0 /\ ~Appending(s) /\ ops < MaxOps /\ logs' = [logs EXCEPT ![s] = m] /\ ops' = ops + 1
      /\ UNCHANGED disk /\ UNCHANGED <<types, refs, pc, packing, sw, sweeps>>
  BY <1>1 DEF DeleteSession
<1>4. ops \in Nat /\ ops <= MaxOps /\ refs \in [Refs -> Entries \cup {NoEntry}] /\ MaxOps \in Nat
  BY NamesAre DEF IInv, Typed
<1>5. refs' \in [Refs -> Entries \cup {NoEntry}] /\ ops' \in Nat /\ ops' >= ops /\ ops' <= MaxOps
  BY <1>3, <1>4
<1>6. logs \in [Sessions -> Logs]
  BY DEF IInv, LogsOK
<1>7. logs' \in [Sessions -> Logs] /\ logs'[s] = m /\ \A t \in Sessions : t /= s => logs'[t] = logs[t]
  BY <1>2, <1>3, <1>6
<1>8. EntriesOf(m) = {}
  <2>1. {m.recs[i].entry : i \in DOMAIN m.recs} = {}
    BY <1>2
  <2> QED BY <2>1, <1>2 DEF EntriesOf
<1>9. LogsOK'
  <2>1. \A t \in Sessions : /\ logs[t].inc <= ops + 1 /\ logs[t].inc \in Nat
                            /\ logs[t].inc = 0 => logs[t].base = NoEntry /\ logs[t].recs = <<>>
                            /\ Upward(EntriesOf(logs[t]))
    BY DEF IInv, LogsOK, Logs
  <2>2. ASSUME NEW t \in Sessions
        PROVE  /\ logs'[t].inc <= ops' + 1
               /\ logs'[t].inc = 0 => logs'[t].base = NoEntry /\ logs'[t].recs = <<>>
               /\ Upward(EntriesOf(logs'[t]))
    <3>1. CASE t = s
      <4>1. logs'[t] = m
        BY <3>1, <1>7
      <4>2. m.inc <= ops' + 1
        <5>1. PICK n \in Nat : n = ops'
          BY <1>5
        <5>2. 0 <= n + 1
          OBVIOUS
        <5> QED BY <5>1, <5>2, <1>2
      <4>3. Upward(EntriesOf(m))
        BY <1>8 DEF Upward
      <4> QED BY <4>1, <4>2, <4>3, <1>2
    <3>2. CASE t /= s
      <4>1. logs'[t] = logs[t] /\ ops' = ops + 1
        BY <3>2, <1>3, <1>7
      <4>2. logs[t].inc <= ops' + 1
        BY <4>1, <2>1, <1>4
      <4> QED BY <4>1, <4>2, <2>1
    <3> QED BY <3>1, <3>2
  <2> QED BY <2>2, <1>7 DEF LogsOK
<1>10. \A t \in Sessions : LogStep(t)
  <2>1. Reset(s)
    BY <1>1, <1>7 DEF Reset
  <2> QED BY <2>1, <1>3, <1>7 DEF LogStep
<1>11. CallsOK'
  <2>1. ASSUME NEW v \in Writers, pc[v].op \in {"append", "fork"} PROVE pc[v].s /= s
    <3>1. CASE pc[v].op = "append"
      BY <3>1, <1>3 DEF Appending
    <3>2. CASE pc[v].op = "fork"
      <4>1. logs[pc[v].s].inc = 0
        BY <3>2 DEF IInv, CallsOK, ForkOK
      <4> QED BY <4>1, <1>3
    <3> QED BY <2>1, <3>1, <3>2
  <2>2. \A v \in Writers :
           /\ pc[v].op = "append" => /\ logs'[pc[v].s].inc > 0
                                     /\ EntriesOf(logs[pc[v].s]) \subseteq EntriesOf(logs'[pc[v].s])
           /\ pc[v].op = "fork" => logs'[pc[v].s].inc = 0
    BY <2>1, <1>7, OtherCalls DEF IInv
  <2>3. CASE Writers = {}
    <3>1. pc' \in [Writers -> Calls]
      BY <1>3 DEF IInv, CallsOK
    <3> QED BY <2>3, <3>1 DEF CallsOK
  <2>4. CASE Writers /= {}
    <3>1. PICK w \in Writers : TRUE
      BY <2>4
    <3> QED BY <3>1, <2>2, <1>3, CallsEnd DEF IInv
  <2> QED BY <2>3, <2>4
<1>12. Named' \subseteq Named
  <2> SUFFICES ASSUME NEW o \in Named' PROVE o \in Named
    OBVIOUS
  <2>1. \/ \E t \in Sessions : o \in NamedBy(logs'[t])
        \/ \E r1 \in Refs : refs[r1] /= NoEntry /\ o \in WholePath(refs[r1])
    BY <1>3, InNamedNext
  <2>2. CASE \E r1 \in Refs : refs[r1] /= NoEntry /\ o \in WholePath(refs[r1])
    BY <2>2, InNamed
  <2>3. ASSUME NEW t \in Sessions, o \in NamedBy(logs'[t]) PROVE o \in Named
    <3>1. CASE t /= s
      BY <3>1, <2>3, <1>7, InNamed
    <3>2. CASE t = s
      <4>1. o \in NamedBy(m)
        BY <2>3, <3>2, <1>7
      <4>2. DOMAIN m.recs = {}
        BY <1>2
      <4> QED BY <4>1, <4>2, <1>8, InNamedBy
    <3> QED BY <3>1, <3>2
  <2> QED BY <2>1, <2>2, <2>3
<1> QED BY <1>3, <1>5, <1>9, <1>10, <1>11, <1>12, NamesLess

-----------------------------------------------------------------------------
(* Packs beside the sweep's.                                               *)

\* Objects packed or unpacked, calls, names and sweep as they were.
LEMMA PackStep ==
  ASSUME IInv, UNCHANGED <<types, logs, refs, pc, sw, ops, sweeps>>, DiskOK', KeptStays, PackingOK',
         sw = Asleep \/ DOMAIN packs \subseteq DOMAIN packs'
  PROVE  IInv'
<1>1. Typed'
  BY DEF IInv, Typed
<1>2. ops \in Nat /\ sw \in Sweeps
  BY DEF IInv, Typed
<1>3. LogsOK' /\ \A s \in Sessions : LogStep(s)
  BY <1>2, LogsStay DEF IInv
<1>4. CallsOK'
  BY DEF IInv, CallsOK, AppendOK, ForkOK, Exclusive, Guarded
<1>5. MarksOK'
  BY <1>2, <1>3, MarksCarry DEF IInv
<1>6. FoundOK'
  <2>1. CASE sw = Asleep
    <3>1. sw'.phase = "idle"
      BY <2>1 DEF Asleep
    <3> QED BY <3>1 DEF FoundOK, Marking
  <2>2. CASE DOMAIN packs \subseteq DOMAIN packs'
    BY <2>2, <1>2, <1>3, FoundCarry DEF IInv
  <2> QED BY <2>1, <2>2
<1>7. Named' = Named
  BY DEF Named
<1>8. NamedKept'
  BY <1>7, NamedCarry DEF IInv
<1>9. PromisesKept'
  BY PromisesStay DEF IInv
<1> QED BY <1>1, <1>3, <1>4, <1>5, <1>6, <1>8, <1>9 DEF IInv

\* A commit's objects packed, under the guard of its append.
LEMMA PackPendingStep ==
  ASSUME CommitsGuarded, IInv, NEW s \in Sessions, PackPending(s)
  PROVE  IInv'
<1>1. PICK objs : /\ objs \subseteq UNION {{logs[s].recs[i].entry, ContentOf[logs[s].recs[i].entry]} : i \in DOMAIN logs[s].recs}
                  /\ PackObjects("commit", objs)
  BY DEF PackPending
<1>2. \A i \in DOMAIN logs[s].recs : logs[s].recs[i].entry \in Entries
  BY LogShape DEF IInv, LogsOK, Records
<1>3. objs \in Objs
  BY <1>1, <1>2, NamesAre DEF Objs
<1>4. ~Exclusive /\ sw.phase /= "remove"
  BY DEF PackPending, Exclusive
<1>5. DiskOK' /\ KeptStays /\ DOMAIN packs' = DOMAIN packs \cup {objs}
  BY <1>1, <1>3, <1>4, PackKeeps DEF IInv
<1>6. packing' = [by |-> "commit", objs |-> objs] /\ UNCHANGED <<types, logs, refs, pc, sw, ops, sweeps>>
  BY <1>1 DEF PackObjects
<1>7. PackingOK'
  <2>1. packing'.by = "commit" /\ packing'.objs = objs
    BY <1>6
  <2>2. packing' \in [by : {"none", "commit", "pack"}, objs : Objs]
    BY <1>3, <1>6
  <2>3. objs \subseteq UNION DOMAIN packs'
    BY <1>5
  <2>4. ~Exclusive'
    BY <1>4, <1>6 DEF Exclusive
  <2> QED BY <2>1, <2>2, <2>3, <2>4 DEF PackingOK
<1> QED BY <1>5, <1>6, <1>7, PackStep

\* The loose objects packed, with no sweep running.
LEMMA PackLooseStep ==
  ASSUME IInv, PackLoose
  PROVE  IInv'
<1>1. PICK objs : objs \in Objs /\ PackObjects("pack", objs)
  BY DEF PackLoose, Objs
<1>4. sw = Asleep /\ sw.phase = "idle" /\ ~Exclusive /\ sw.phase /= "remove"
  BY DEF PackLoose, Exclusive, Asleep
<1>5. DiskOK' /\ KeptStays /\ DOMAIN packs' = DOMAIN packs \cup {objs}
  BY <1>1, <1>4, PackKeeps DEF IInv
<1>6. packing' = [by |-> "pack", objs |-> objs] /\ UNCHANGED <<types, logs, refs, pc, sw, ops, sweeps>>
  BY <1>1 DEF PackObjects
<1>7. PackingOK'
  <2>1. packing'.by = "pack" /\ packing'.objs = objs
    BY <1>6
  <2>2. packing' \in [by : {"none", "commit", "pack"}, objs : Objs]
    BY <1>1, <1>6
  <2>3. objs \subseteq UNION DOMAIN packs'
    BY <1>5
  <2>4. ~Exclusive' /\ sw' = Asleep
    BY <1>4, <1>6 DEF Exclusive
  <2> QED BY <2>1, <2>2, <2>3, <2>4 DEF PackingOK
<1> QED BY <1>5, <1>6, <1>7, PackStep

\* Nothing being packed.
LEMMA NotPackingIs == NotPacking \in [by : {"none", "commit", "pack"}, objs : Objs] /\ NotPacking.objs = {} /\ NotPacking.by = "none"
BY DEF NotPacking, Objs

\* The loose copies of what was packed removed.
LEMMA RemovePackedStep ==
  ASSUME IInv, RemovePacked
  PROVE  IInv'
<1>1. DiskOK' /\ KeptStays
  BY RemovePackedKeeps DEF IInv
<1>2. packs' = packs /\ packing' = NotPacking /\ UNCHANGED <<types, logs, refs, pc, sw, ops, sweeps>>
  BY DEF RemovePacked
<1>3. PackingOK'
  BY <1>2, NotPackingIs DEF PackingOK
<1> QED BY <1>1, <1>2, <1>3, PackStep

\* The packs merged.
LEMMA ConsolidateStep ==
  ASSUME IInv, Consolidate
  PROVE  IInv'
<1>1. DiskOK' /\ KeptStays
  BY MergeKeeps DEF IInv
<1>2. sw = Asleep /\ packing' = NotPacking /\ UNCHANGED <<types, logs, refs, pc, sw, ops, sweeps>>
  BY DEF Consolidate
<1>3. PackingOK'
  BY <1>2, NotPackingIs DEF PackingOK
<1> QED BY <1>1, <1>2, <1>3, PackStep

\* The grace passes.
LEMMA AgeStep ==
  ASSUME IInv, Age
  PROVE  IInv'
<1>1. DiskOK' /\ KeptStays /\ DOMAIN packs' = DOMAIN packs
  BY AgeKeeps DEF IInv
<1>2. sw = Asleep /\ packing' = packing /\ UNCHANGED <<types, logs, refs, pc, sw, ops, sweeps>>
  BY DEF Age
<1>3. PackingOK'
  BY <1>1, <1>2, PackingCarry DEF IInv
<1> QED BY <1>1, <1>2, <1>3, PackStep

-----------------------------------------------------------------------------
(* The sweep's steps.                                                      *)

\* A call outside the sweep's lock promises nothing.
LEMMA UnguardedPromise ==
  ASSUME CallsOK, NEW w \in Writers, ~Guarded(w)
  PROVE  Promised(pc[w]) = {}
<1>1. PICK d : d = pc[w]
  OBVIOUS
<1>2. d \in Calls /\ (d.op = "idle" \/ d.step \notin Guards)
  BY <1>1 DEF CallsOK, Guarded
<1>3. d.op /= "append" /\ d.op /= "pin"
  BY <1>2, CallShape DEF Appends, Pins, Guards
<1>4. d.op = "fork" => d.step \notin {"write", "place"}
  BY <1>2 DEF Guards
<1>5. Promised(d) = {}
  BY <1>3, <1>4 DEF Promised
<1> QED BY <1>1, <1>5

\* What a sweep's step must leave of what is being packed.
LEMMA PackingSwept ==
  ASSUME PackingOK, packing' = packing, packing.objs \subseteq UNION DOMAIN packs',
         sw' /= Asleep => packing.by /= "pack", Exclusive' => packing = NotPacking
  PROVE  PackingOK'
BY DEF PackingOK

\* A step of the sweep.
LEMMA SweepStep ==
  ASSUME IInv, UNCHANGED <<logs, refs, pc, packing, ops>>, types' \subseteq types, DiskOK', sw' \in Sweeps,
         PackingOK', MarksOK', FoundOK',
         Exclusive' => \A w \in Writers : ~Guarded(w),
         \A o \in Named : Kept(o)',
         KeptStays \/ \A w \in Writers : ~Guarded(w)
  PROVE  IInv'
<1>1. Typed'
  BY DEF IInv, Typed
<1>2. ops \in Nat
  BY DEF IInv, Typed
<1>3. LogsOK'
  BY <1>2, LogsStay DEF IInv
<1>4. CallsOK'
  BY DEF IInv, CallsOK, AppendOK, ForkOK, Guarded
<1>7. Named' = Named
  BY DEF Named
<1>8. NamedKept'
  BY <1>7 DEF NamedKept
<1>9. PromisesKept'
  <2>1. CASE KeptStays
    BY <2>1, PromisesStay DEF IInv
  <2>2. CASE \A w \in Writers : ~Guarded(w)
    <3>1. \A w \in Writers : Promised(pc[w]) = {}
      BY <2>2, UnguardedPromise DEF IInv
    <3>2. \A w \in Writers : Promised(pc'[w]) = {}
      BY <3>1
    <3> QED BY <3>2 DEF PromisesKept
  <2> QED BY <2>1, <2>2
<1> QED BY <1>1, <1>3, <1>4, <1>8, <1>9 DEF IInv

\* What KeptStays gives of the names.
LEMMA NamedStays ==
  ASSUME IInv, KeptStays
  PROVE  \A o \in Named : Kept(o)'
BY NamedShape DEF IInv, Typed, NamedKept, KeptStays

\* What a mark stands for is named.
LEMMA MarkedIsNamed ==
  ASSUME LogsOK, MarksOK, Marking, sw \in Sweeps, NEW s \in Sessions, Marked(s)
  PROVE  MarkedObjs(s) \subseteq NamedBy(logs[s])
<1>1. PICK n, l : n = sw.marks[s].n /\ l = logs[s]
  OBVIOUS
<1>2. n \in Nat /\ n <= Len(l.recs)
  BY <1>1, SweepShape DEF MarksOK, Marking, Keeping, Scanned, Packed, Marks
<1>3. l \in Logs /\ l.recs \in Seq(Records)
  BY <1>1 DEF LogsOK, Logs
<1>4. \A i \in 1..n : i \in DOMAIN l.recs
  BY <1>2, <1>3
<1>5. ASSUME NEW o \in MarkedIn(l, n) PROVE o \in NamedBy(l)
  <2>1. CASE \E i \in 1..n : o \in Whole(l.recs[i].entry) \cup l.recs[i].blobs
    <3>1. PICK i \in DOMAIN l.recs : o \in Whole(l.recs[i].entry) \cup l.recs[i].blobs
      BY <2>1, <1>4
    <3>2. l.recs[i].entry \in EntriesOf(l)
      BY DEF EntriesOf
    <3> QED BY <3>1, <3>2, InNamedBy
  <2>2. CASE l.base /= NoEntry /\ o \in WholePath(l.base)
    <3>1. PathTo(l.base) \subseteq EntriesOf(l)
      BY <2>2 DEF EntriesOf
    <3> QED BY <2>2, <3>1, InWholePath, InNamedBy
  <2> QED BY <1>5, <2>1, <2>2, InMarkedIn
<1> QED BY <1>1, <1>5 DEF MarkedObjs

\* Before the removal of packs what a mark stands for is held.
LEMMA MarkedIsHeld ==
  ASSUME IInv, Marking, NEW s \in Sessions, Marked(s)
  PROVE  \A o \in MarkedObjs(s) : Held(o)
<1>1. MarkedObjs(s) \subseteq Named
  BY MarkedIsNamed, InNamed DEF IInv, Typed
<1>2. ~Late
  BY DEF Marking, Late
<1> QED BY <1>1, <1>2 DEF IInv, NamedKept, Kept

\* A sweep begins with no marks.
LEMMA StartSweepStep ==
  ASSUME IInv, StartSweep
  PROVE  IInv'
<1>1. DiskOK' /\ sw' \in Keeping /\ KeptStays
  BY StartSweepKeeps DEF IInv, Typed
<1>2. UNCHANGED <<types, logs, refs, pc, packing, ops>> /\ packs' = packs /\ packing.by /= "pack"
  BY DEF StartSweep, Step, disk
<1>3. sw'.phase = "keep" /\ sw' \in Sweeps /\ ~Exclusive'
  BY <1>1 DEF Keeping, Sweeps, Exclusive
<1>4. sw'.marks = [s \in Sessions |-> NoMark]
  BY DEF StartSweep, Step
<1>4a. \A s \in Sessions : sw'.marks[s].inc = 0
  BY <1>4 DEF NoMark
<1>5. PackingOK'
  BY <1>2, <1>3, PackingSwept DEF IInv, PackingOK
<1>6. \A s \in Sessions : ~Marked(s)'
  BY <1>2, <1>4a DEF Marked
<1>7. MarksOK'
  BY <1>2, <1>4a, <1>6 DEF MarksOK, IInv, Typed
<1>8. FoundOK'
  BY <1>3, <1>6 DEF FoundOK
<1> QED BY <1>1, <1>2, <1>3, <1>5, <1>7, <1>8, NamedStays, SweepStep

\* The sweep ends or stops.
LEMMA EndStep ==
  ASSUME IInv, UNCHANGED <<logs, refs, pc, packing, ops>>, types' \subseteq types, UNCHANGED disk, sw' = Asleep
  PROVE  IInv'
<1>1. DiskOK' /\ KeptStays
  BY EndKeeps DEF IInv
<1>2. sw'.phase = "idle" /\ sw' \in Sweeps /\ ~Exclusive' /\ ~Marking' /\ packs' = packs
  BY DEF Asleep, Sweeps, Exclusive, Marking, disk
<1>3. PackingOK'
  BY <1>2, PackingSwept DEF IInv, PackingOK
<1>4. MarksOK' /\ FoundOK'
  BY <1>2 DEF MarksOK, FoundOK
<1> QED BY <1>1, <1>2, <1>3, <1>4, NamedStays, SweepStep

\* A session is read and marked: all it names is held, so it is found.
LEMMA KeepSessionStep ==
  ASSUME IInv, NEW s \in Sessions, KeepSession(s)
  PROVE  IInv'
<1>1. DiskOK' /\ sw' \in Sweeps /\ KeptStays /\ sw'.phase \in {"idle", "keep"}
  BY KeepSessionKeeps DEF IInv, Typed
<1>2. UNCHANGED <<types, logs, refs, pc, packing, ops>> /\ UNCHANGED disk /\ packs' = packs
  BY DEF KeepSession, Step, disk
<1>3. CASE logs[s].inc = 0
  <2>1. sw' = Asleep
    BY <1>3 DEF KeepSession, Step
  <2> QED BY <2>1, <1>2, EndStep
<1>4. CASE logs[s].inc /= 0
  <2>1. PICK a, b : a = sw /\ b = sw'
    OBVIOUS
  <2>2. a \in Keeping /\ a.phase = "keep"
    BY <2>1, SweepShape DEF KeepSession, IInv, Typed
  <2>3. b = [a EXCEPT !.list = @ \ {s}, !.keep = @ \cup KeepLog(s, NoMark), !.marks[s] = MarkOf(s)]
    BY <2>1, <1>4 DEF KeepSession, Step
  <2>4. /\ b.phase = "keep" /\ b.keep = a.keep \cup KeepLog(s, NoMark)
        /\ b.marks = [a.marks EXCEPT ![s] = MarkOf(s)] /\ a.marks \in Marks
    BY <2>2, <2>3 DEF Keeping
  <2>5. b.marks[s] = MarkOf(s) /\ \A t \in Sessions : t /= s => b.marks[t] = a.marks[t]
    BY <2>4 DEF Marks
  <2>6. ~Exclusive' /\ b /= Asleep /\ a /= Asleep /\ Marking
    BY <2>1, <2>2, <2>4 DEF Exclusive, Asleep, Marking
  <2>7. PackingOK'
    BY <1>2, <2>1, <2>6, PackingSwept DEF IInv, PackingOK
  <2>8. /\ MarkOf(s).inc = logs[s].inc /\ MarkOf(s).n = Len(logs[s].recs)
        /\ logs[s].inc \in Nat /\ logs[s].inc <= ops + 1 /\ Len(logs[s].recs) \in Nat /\ logs[s].recs \in Seq(Records)
    BY DEF MarkOf, IInv, LogsOK, Logs
  <2>9. MarksOK'
    <3>1. ASSUME NEW t \in Sessions
          PROVE  /\ b.marks[t].inc <= ops + 1
                 /\ logs[t].inc = 0 => b.marks[t].inc <= ops
                 /\ logs[t].inc > 0 /\ b.marks[t].inc = logs[t].inc => b.marks[t].n <= Len(logs[t].recs)
      <4>1. CASE t = s
        BY <4>1, <1>4, <2>5, <2>8
      <4>2. CASE t /= s
        BY <4>2, <2>1, <2>5, <2>6 DEF IInv, MarksOK, Marked
      <4> QED BY <4>1, <4>2
    <3> QED BY <3>1, <1>2, <2>1 DEF MarksOK, Marked
  <2>10. FoundOK'
    <3>0. \A o \in NamedBy(logs[s]) : Held(o)
      <4>1. ~Late
        BY <2>1, <2>2 DEF Late
      <4> QED BY <4>1, InNamed DEF IInv, NamedKept, Kept
    <3>1. ASSUME NEW t \in Sessions, Marked(t)', NEW o \in MarkedIn(logs[t], b.marks[t].n) PROVE o \in b.keep
      <4>1. CASE t /= s
        <5>1. Marked(t) /\ o \in MarkedObjs(t)
          BY <4>1, <3>1, <1>2, <2>1, <2>5 DEF Marked, MarkedObjs
        <5>2. o \in a.keep
          BY <5>1, <2>1, <2>2, <2>6 DEF IInv, FoundOK, Found
        <5> QED BY <5>2, <2>4
      <4>2. CASE t = s
        <5>1. o \in MarkedIn(logs[s], Len(logs[s].recs))
          BY <4>2, <3>1, <2>5, <2>8
        <5>2. \A i \in 1..Len(logs[s].recs) : i \in DOMAIN logs[s].recs
          BY <2>8
        <5>3. o \in NamedBy(logs[s])
          <6>1. CASE \E i \in 1..Len(logs[s].recs) : o \in Whole(logs[s].recs[i].entry) \cup logs[s].recs[i].blobs
            <7>1. PICK i \in DOMAIN logs[s].recs : o \in Whole(logs[s].recs[i].entry) \cup logs[s].recs[i].blobs
              BY <6>1, <5>2
            <7>2. logs[s].recs[i].entry \in EntriesOf(logs[s])
              BY DEF EntriesOf
            <7> QED BY <7>1, <7>2, InNamedBy
          <6>2. CASE logs[s].base /= NoEntry /\ o \in WholePath(logs[s].base)
            <7>1. PathTo(logs[s].base) \subseteq EntriesOf(logs[s])
              BY <6>2 DEF EntriesOf
            <7> QED BY <6>2, <7>1, InWholePath, InNamedBy
          <6> QED BY <5>1, <6>1, <6>2, InMarkedIn
        <5>4. NoMark.n \in Nat /\ NoMark.inc = 0
          BY DEF NoMark
        <5>5. o \in KeepLog(s, NoMark)
          BY <5>3, <5>4, <1>4, <3>0, KeepLogHas DEF IInv
        <5> QED BY <5>5, <2>4
      <4> QED BY <4>1, <4>2
    <3>2. \A t \in Sessions : Marked(t)' => \A o \in MarkedObjs(t)' : Found(o)'
      BY <3>1, <1>2, <2>1, <2>4 DEF MarkedObjs, Found
    <3> QED BY <3>2, <2>1, <2>4 DEF FoundOK
  <2> QED BY <1>1, <1>2, <2>6, <2>7, <2>9, <2>10, NamedStays, SweepStep
<1> QED BY <1>3, <1>4

\* The marks stay where they were, with the logs.
LEMMA MarksKept ==
  ASSUME MarksOK, UNCHANGED <<logs, ops>>, Marking' => Marking /\ sw'.marks = sw.marks
  PROVE  MarksOK' /\ \A s \in Sessions : Marking' => (Marked(s)' <=> Marked(s)) /\ MarkedObjs(s)' = MarkedObjs(s)
<1>1. ASSUME Marking', NEW s \in Sessions PROVE (Marked(s)' <=> Marked(s)) /\ MarkedObjs(s)' = MarkedObjs(s)
  BY <1>1 DEF Marked, MarkedObjs
<1>2. MarksOK'
  BY <1>1 DEF MarksOK
<1> QED BY <1>1, <1>2

\* The loose objects are listed: what was found is loose or packed.
LEMMA ScanLooseStep ==
  ASSUME IInv, ScanLoose
  PROVE  IInv'
<1>1. DiskOK' /\ sw' \in Scanned /\ KeptStays
  BY ScanLooseKeeps DEF IInv, Typed
<1>2. UNCHANGED <<types, logs, refs, pc, packing, ops>> /\ UNCHANGED disk /\ packs' = packs /\ loose' = loose
  BY DEF ScanLoose, Step, disk
<1>3. sw'.phase = "scanned" /\ sw' \in Sweeps /\ ~Exclusive' /\ sw' /= Asleep /\ sw /= Asleep /\ sw.phase = "keep" /\ Marking
  BY <1>1 DEF Scanned, Sweeps, Exclusive, Asleep, ScanLoose, Marking
<1>4. /\ sw'.marks = sw.marks /\ sw'.keep = sw.keep \cup KeepRefs
      /\ sw'.take = {o \in sw.keep \cup KeepRefs : loose[o] /= "none"}
  BY DEF ScanLoose, Step
<1>5. PackingOK'
  BY <1>2, <1>3, PackingSwept DEF IInv, PackingOK
<1>6. MarksOK' /\ \A s \in Sessions : Marking' => (Marked(s)' <=> Marked(s)) /\ MarkedObjs(s)' = MarkedObjs(s)
  BY <1>2, <1>3, <1>4, MarksKept DEF IInv
<1>7. FoundOK'
  <2>1. ASSUME NEW s \in Sessions, Marking', Marked(s)', NEW o \in MarkedObjs(s)' PROVE Found(o)'
    <3>1. Marked(s) /\ o \in MarkedObjs(s)
      BY <2>1, <1>6
    <3>2. Held(o)
      BY <3>1, <1>3, MarkedIsHeld
    <3>3. o \in sw.keep
      BY <3>1, <1>3 DEF IInv, FoundOK, Found
    <3>4. o \in sw'.keep /\ (o \in sw'.take \/ \E p \in DOMAIN packs' : o \in p)
      BY <3>2, <3>3, <1>2, <1>4 DEF Held, HeldIn
    <3> QED BY <3>4, <1>3 DEF Found
  <2> QED BY <2>1, <1>3 DEF FoundOK
<1> QED BY <1>1, <1>2, <1>3, <1>5, <1>6, <1>7, NamedStays, SweepStep

\* The new pack is written: what was found is still held, so it is in it.
LEMMA RepackStep ==
  ASSUME IInv, Repack
  PROVE  IInv'
<1>1. /\ DiskOK' /\ sw' \in Packed /\ KeptStays
      /\ sw \in Scanned /\ sw'.phase = "packed" /\ sw'.marks = sw.marks /\ sw'.new = NewPack
      /\ sw'.dup = sw.take \cap NewPack
      /\ DOMAIN packs' = IF NewPack = {} THEN DOMAIN packs ELSE DOMAIN packs \cup {NewPack}
  BY RepackKeeps DEF IInv, Typed
<1>2. UNCHANGED <<types, logs, refs, pc, packing, ops>>
  BY DEF Repack, Step
<1>3. sw' \in Sweeps /\ ~Exclusive' /\ sw' /= Asleep /\ sw /= Asleep /\ sw.phase = "scanned" /\ Marking
  BY <1>1 DEF Sweeps, Exclusive, Asleep, Scanned, Marking
<1>4. DOMAIN packs \subseteq DOMAIN packs' /\ (NewPack = {} \/ NewPack \in DOMAIN packs')
  BY <1>1
<1>5. PackingOK'
  <2>1. packing.objs \subseteq UNION DOMAIN packs'
    BY <1>4 DEF IInv, PackingOK
  <2> QED BY <2>1, <1>2, <1>3, PackingSwept DEF IInv, PackingOK
<1>6. MarksOK' /\ \A s \in Sessions : Marking' => (Marked(s)' <=> Marked(s)) /\ MarkedObjs(s)' = MarkedObjs(s)
  BY <1>1, <1>2, <1>3, MarksKept DEF IInv
<1>7. FoundOK'
  <2>1. ASSUME NEW s \in Sessions, Marking', Marked(s)', NEW o \in MarkedObjs(s)' PROVE Found(o)'
    <3>1. Marked(s) /\ o \in MarkedObjs(s)
      BY <2>1, <1>6
    <3>2. loose[o] /= "none" \/ \E p \in DOMAIN packs : o \in p
      BY <3>1, <1>3, MarkedIsHeld DEF Held, HeldIn
    <3>3. o \in sw.keep /\ (o \in sw.take \/ \E p \in DOMAIN packs : o \in p)
      BY <3>1, <1>3 DEF IInv, FoundOK, Found
    <3>4. o \in NewPack
      BY <3>2, <3>3 DEF NewPack
    <3> QED BY <3>4, <1>1 DEF Found
  <2>2. (sw'.new = {} \/ sw'.new \in DOMAIN packs') /\ sw'.dup \subseteq sw'.new
    BY <1>1, <1>4
  <2> QED BY <2>1, <2>2, <1>1 DEF FoundOK
<1> QED BY <1>1, <1>2, <1>3, <1>5, <1>6, <1>7, NamedStays, SweepStep

\* The sweep takes its lock: nobody is between writing and recording.
LEMMA LockSweepStep ==
  ASSUME CommitsGuarded, IInv, LockSweep
  PROVE  IInv'
<1>1. DiskOK' /\ KeptStays
  BY LockSweepKeeps DEF IInv, Typed
<1>2. UNCHANGED <<types, logs, refs, pc, packing, ops>> /\ UNCHANGED disk /\ packs' = packs
  BY DEF LockSweep, Step, disk
<1>3. (\A w \in Writers : ~Guarded(w)) /\ packing.by /= "commit"
  BY DEF LockSweep, NobodyGuarded
<1>4. sw /= Asleep
  BY DEF LockSweep, Asleep
<1>5. packing = NotPacking
  BY <1>3, <1>4 DEF IInv, PackingOK
<1>6. PackingOK'
  BY <1>2, <1>5, NotPackingIs, PackingSwept DEF IInv
<1>7. CASE sw.phase = "packed"
  <2>1. /\ sw \in Packed /\ sw' \in Packed /\ sw'.phase = "since"
        /\ sw'.marks = sw.marks /\ sw'.new = sw.new /\ sw'.old = sw.old /\ sw'.dup = sw.dup
    BY <1>7, LockSweepKeeps DEF IInv, Typed
  <2>2. sw' \in Sweeps /\ Marking
    BY <1>7, <2>1 DEF Sweeps, Marking
  <2>3. MarksOK' /\ \A s \in Sessions : Marking' => (Marked(s)' <=> Marked(s)) /\ MarkedObjs(s)' = MarkedObjs(s)
    BY <1>2, <2>1, <2>2, MarksKept DEF IInv
  <2>4. FoundOK'
    <3>1. ASSUME NEW s \in Sessions, Marking', Marked(s)', NEW o \in MarkedObjs(s)' PROVE Found(o)'
      <4>1. Marked(s) /\ o \in MarkedObjs(s)
        BY <3>1, <2>3
      <4>2. o \in sw.new
        BY <4>1, <2>2, <1>7 DEF IInv, FoundOK, Found
      <4> QED BY <4>2, <2>1 DEF Found
    <3>2. (sw'.new = {} \/ sw'.new \in DOMAIN packs') /\ sw'.dup \subseteq sw'.new
      BY <1>2, <1>7, <2>1 DEF IInv, FoundOK
    <3> QED BY <3>1, <3>2, <2>1 DEF FoundOK
  <2> QED BY <1>1, <1>2, <1>3, <1>6, <2>2, <2>3, <2>4, NamedStays, SweepStep
<1>8. CASE sw.phase /= "packed"
  <2>1. sw' \in Pruning /\ sw'.phase = "prune"
    BY <1>8, LockSweepKeeps DEF IInv, Typed
  <2>2. sw' \in Sweeps /\ ~Marking'
    BY <2>1 DEF Sweeps, Marking
  <2>3. MarksOK' /\ FoundOK'
    BY <2>1, <2>2 DEF MarksOK, FoundOK
  <2> QED BY <1>1, <1>2, <1>3, <1>6, <2>2, <2>3, NamedStays, SweepStep
<1> QED BY <1>7, <1>8

\* The exclusive steps find nobody guarded and nothing being packed.
LEMMA ExclusiveIs ==
  ASSUME IInv, Exclusive
  PROVE  (\A w \in Writers : ~Guarded(w)) /\ packing = NotPacking
BY DEF IInv, CallsOK, PackingOK

\* The rescue: what is named is kept for the removals to come.
LEMMA RescueStep ==
  ASSUME IInv, Rescue
  PROVE  IInv'
<1>1. /\ sw \in Packed /\ sw.phase = "since" /\ sw' \in Rescued /\ DiskOK'
      /\ sw'.new = sw.new /\ sw'.dup = sw.dup /\ packs' = packs
  BY RescueShape DEF IInv, Typed
<1>2. UNCHANGED <<types, logs, refs, pc, packing, ops>>
  BY DEF Rescue, Step
<1>3. (\A w \in Writers : ~Guarded(w)) /\ packing = NotPacking
  BY <1>1, ExclusiveIs DEF Exclusive
<1>4. PackingOK'
  BY <1>2, <1>3, NotPackingIs, PackingSwept DEF IInv
<1>5. sw'.phase = "remove" /\ sw' \in Sweeps /\ ~Marking'
  BY <1>1 DEF Rescued, Sweeps, Marking
<1>6. MarksOK' /\ FoundOK'
  BY <1>1, <1>5 DEF MarksOK, FoundOK, IInv
<1>7. \A o \in Named : Kept(o)'
  BY RescueKeeps DEF IInv, Typed, NamedKept
<1> QED BY <1>1, <1>2, <1>3, <1>4, <1>5, <1>6, <1>7, SweepStep

\* The replaced packs are removed.
LEMMA RemoveOldStep ==
  ASSUME IInv, RemoveOld
  PROVE  IInv'
<1>1. DiskOK' /\ sw' \in Replaced /\ KeptStays /\ sw \in Rescued /\ sw'.dup \subseteq UNION DOMAIN packs'
  BY RemoveOldKeeps DEF IInv, Typed
<1>2. UNCHANGED <<types, logs, refs, pc, packing, ops>>
  BY DEF RemoveOld, Step
<1>3. (\A w \in Writers : ~Guarded(w)) /\ packing = NotPacking
  BY <1>1, ExclusiveIs DEF Exclusive, Rescued
<1>4. PackingOK'
  BY <1>2, <1>3, NotPackingIs, PackingSwept DEF IInv
<1>5. sw'.phase = "dups" /\ sw' \in Sweeps /\ ~Marking'
  BY <1>1 DEF Replaced, Sweeps, Marking
<1>6. MarksOK' /\ FoundOK'
  BY <1>1, <1>5 DEF MarksOK, FoundOK
<1> QED BY <1>1, <1>2, <1>3, <1>4, <1>5, <1>6, NamedStays, SweepStep

\* The loose duplicates are removed.
LEMMA RemoveDuplicatesStep ==
  ASSUME IInv, RemoveDuplicates
  PROVE  IInv'
<1>1. DiskOK' /\ sw' \in Pruning /\ sw'.phase = "duplicates" /\ KeptStays /\ sw \in Replaced /\ packs' = packs
  BY RemoveDuplicatesKeeps DEF IInv, Typed
<1>2. UNCHANGED <<types, logs, refs, pc, packing, ops>>
  BY DEF RemoveDuplicates, Step
<1>3. sw' \in Sweeps /\ ~Marking' /\ ~Exclusive' /\ sw /= Asleep
  BY <1>1 DEF Sweeps, Marking, Exclusive, Replaced, Asleep
<1>4. PackingOK'
  BY <1>1, <1>2, <1>3, PackingSwept DEF IInv, PackingOK
<1>5. MarksOK' /\ FoundOK'
  BY <1>1, <1>3 DEF MarksOK, FoundOK
<1> QED BY <1>1, <1>2, <1>3, <1>4, <1>5, NamedStays, SweepStep

\* The loose objects nothing names are removed.
LEMMA PruneStep ==
  ASSUME IInv, Prune
  PROVE  IInv'
<1>1. DiskOK' /\ sw' \in Ending /\ KeptStays /\ packs' = packs
  BY PruneKeeps DEF IInv, Typed
<1>2. UNCHANGED <<types, logs, refs, pc, packing, ops>> /\ sw /= Asleep
  BY DEF Prune, Step, Asleep
<1>3. sw' \in Sweeps /\ ~Marking' /\ ~Exclusive' /\ sw'.phase = "types"
  BY <1>1 DEF Sweeps, Marking, Exclusive, Ending
<1>4. PackingOK'
  BY <1>1, <1>2, <1>3, PackingSwept DEF IInv, PackingOK
<1>5. MarksOK' /\ FoundOK'
  BY <1>3 DEF MarksOK, FoundOK
<1> QED BY <1>1, <1>2, <1>3, <1>4, <1>5, NamedStays, SweepStep

-----------------------------------------------------------------------------
(* Nothing named is swept.                                                 *)

\* A store at rest satisfies IInv.
LEMMA InitOK ==
  ASSUME Init
  PROVE  IInv
<1>1. PICK d \in Starts : loose = d.loose /\ packs = d.packs /\ logs = d.logs
  BY DEF Init
<1>2. Sound(d)
  BY StartsAssumption
<1>3. /\ fresh = {} /\ types = {} /\ refs = [r \in Refs |-> NoEntry] /\ pc = [w \in Writers |-> Idle]
      /\ packing = NotPacking /\ sw = Asleep /\ ops = 0
  BY DEF Init
<1>4. sw.phase = "idle" /\ sw \in Sweeps
  BY <1>3 DEF Asleep, Sweeps
<1>5. Typed
  BY <1>3, <1>4, NamesAre DEF Typed
<1>6. DiskOK
  BY <1>1, <1>2, <1>3 DEF DiskOK, Sound, Objs
<1>7. LogsOK
  <2>1. logs \in [Sessions -> Logs]
    BY <1>1, <1>2 DEF Sound
  <2>2. ASSUME NEW s \in Sessions
        PROVE  /\ logs[s].inc \in {0, 1} /\ (logs[s].inc = 0 => logs[s].base = NoEntry /\ logs[s].recs = <<>>)
               /\ Upward(EntriesOf(logs[s]))
    BY <1>1, <1>2 DEF Sound
  <2> QED BY <2>1, <2>2, <1>3 DEF LogsOK
<1>8. PackingOK
  BY <1>3, <1>4, NotPackingIs DEF PackingOK, Exclusive
<1>9. \A w \in Writers : pc[w] = Idle
  BY <1>3
<1>10. CallsOK
  <2>1. pc \in [Writers -> Calls]
    BY <1>3, IdleIs
  <2> QED BY <2>1, <1>9, IdleIs DEF CallsOK, Guarded
<1>11. MarksOK /\ FoundOK
  BY <1>4 DEF MarksOK, FoundOK, Marking
<1>12. NamedKept
  <2> SUFFICES ASSUME NEW o \in Named PROVE Kept(o)
    BY DEF NamedKept
  <2>1. \A r \in Refs : refs[r] = NoEntry
    BY <1>3
  <2>2. PICK s \in Sessions : o \in NamedBy(logs[s])
    BY <2>1, InNamed
  <2>3. HeldIn(d.loose, d.packs, o)
    BY <2>2, <1>1, <1>2 DEF Sound
  <2> QED BY <2>3, <1>1, <1>4 DEF Kept, Late, Held
<1>13. PromisesKept
  BY <1>9, IdleIs DEF PromisesKept
<1> QED BY <1>5, <1>6, <1>7, <1>8, <1>10, <1>11, <1>12, <1>13 DEF IInv

\* A step that changes nothing.
LEMMA Stutter ==
  ASSUME IInv, UNCHANGED vars
  PROVE  IInv'
<1>1. /\ UNCHANGED <<types, logs, refs, pc, packing, sw, ops, sweeps>> /\ UNCHANGED disk /\ packs' = packs
  BY DEF vars, disk
<1>2. DiskOK' /\ KeptStays
  BY <1>1, StillKeeps DEF IInv
<1>3. PackingOK'
  BY <1>1, PackingCarry DEF IInv
<1> QED BY <1>1, <1>2, <1>3, PackStep

\* Every step of a writer.
LEMMA WriterStep ==
  ASSUME IInv, WriterNext
  PROVE  IInv'
<1>1. PICK w \in Writers :
        \/ \E s \in Sessions, e \in Entries : StartAppend(w, s, e) \/ StartFork(w, s, e)
        \/ WriteObject(w) \/ FreshenBlobs(w) \/ AppendRecord(w)
        \/ \E b \in Blobs : StartPutBlob(w, b)
        \/ PutBlob(w) \/ PutMediaType(w)
        \/ ForkGuard(w) \/ FreshenPath(w) \/ PlaceSession(w)
        \/ \E r \in Refs, e \in Entries : StartPin(w, r, e)
        \/ PlaceRef(w)
  BY DEF WriterNext
<1> QED BY <1>1, StartAppendStep, StartForkStep, WriteObjectStep, FreshenBlobsStep, AppendRecordStep,
           StartPutBlobStep, PutBlobStep, PutMediaTypeStep, ForkGuardStep, FreshenPathStep, PlaceSessionStep,
           StartPinStep, PlaceRefStep, Zenon

\* Every step of the sweep.
LEMMA SweepsStep ==
  ASSUME CommitsGuarded, IInv, SweepNext \/ SweepStops
  PROVE  IInv'
<1>1. CASE SweepMediaTypes
  <2>1. types' \subseteq types /\ sw' = Asleep /\ UNCHANGED disk /\ UNCHANGED <<logs, refs, pc, packing, ops>>
    BY <1>1 DEF SweepMediaTypes
  <2> QED BY <2>1, EndStep
<1>2. CASE SweepStops
  <2>1. types' \subseteq types /\ sw' = Asleep /\ UNCHANGED disk /\ UNCHANGED <<logs, refs, pc, packing, ops>>
    BY <1>2 DEF SweepStops, Step
  <2> QED BY <2>1, EndStep
<1> QED BY <1>1, <1>2, StartSweepStep, KeepSessionStep, ScanLooseStep, RepackStep, LockSweepStep, RescueStep,
           RemoveOldStep, RemoveDuplicatesStep, PruneStep, Zenon DEF SweepNext

\* Every step.
LEMMA NextOK ==
  ASSUME CommitsGuarded, IInv, [Next]_vars
  PROVE  IInv'
BY Stutter, WriterStep, SweepsStep, DeleteRefStep, DeleteSessionStep, PackPendingStep, PackLooseStep,
   RemovePackedStep, ConsolidateStep, AgeStep, Zenon DEF Next

\* What is kept is held.
LEMMA IInvIs ==
  ASSUME IInv
  PROVE  SweepInv
<1>1. TypeOK
  BY DEF IInv, Typed, DiskOK, LogsOK, TypeOK, Objs
<1>2. NamedIsHeld
  <2> SUFFICES ASSUME NEW o \in Named PROVE Held(o)
    BY DEF NamedIsHeld
  <2>1. Kept(o)
    BY DEF IInv, NamedKept
  <2>2. CASE Late
    BY <2>1, <2>2 DEF Kept, Lasting, Remaining, Held, HeldIn
  <2>3. CASE ~Late
    BY <2>1, <2>3 DEF Kept
  <2> QED BY <2>2, <2>3
<1> QED BY <1>1, <1>2 DEF SweepInv

\* IInv is an invariant.
LEMMA AlwaysIInv ==
  ASSUME CommitsGuarded
  PROVE  Spec => []IInv
<1>1. Init => IInv
  BY InitOK
<1>2. IInv /\ [Next]_vars => IInv'
  BY NextOK
<1> QED BY <1>1, <1>2, PTL DEF Spec

\* No sweep, pack or merge takes what an accepted record, a fork's base or a
\* ref names, nor a blob an append found held, however writers, deletions and
\* the sweep's steps interleave and wherever the sweep stops, if a commit
\* packs under its append's guard (Store.Sweep, packPending).
THEOREM NothingNamedIsSwept ==
  ASSUME CommitsGuarded
  PROVE  Spec => []SweepInv
<1>1. IInv => SweepInv
  BY IInvIs
<1>2. Spec => []IInv
  BY AlwaysIInv
<1> QED BY <1>1, <1>2, PTL

-----------------------------------------------------------------------------
(* A sweep alone takes all that is garbage.                                *)

\* What is named is needed, and the blobs of a named content.
LEMMA NeededHas == Named \subseteq Needed /\ \A c \in Named \cap Contents : BlobsOf[c] \subseteq Needed
BY DEF Needed

\* What a sweep keeps of an entry, or a path, that is named is needed.
LEMMA KeepIsNeeded ==
  /\ \A e \in Entries : Whole(e) \subseteq Named => KeepEntry(e) \subseteq Needed
  /\ \A e \in Entries \cup {NoEntry} :
       (e = NoEntry \/ WholePath(e) \subseteq Named) => KeepPath(e) \subseteq Needed /\ KeepPin(e) \subseteq Needed
<1>1. ASSUME NEW e \in Entries, Whole(e) \subseteq Named PROVE KeepEntry(e) \subseteq Needed
  <2>1. e \in Needed /\ ContentOf[e] \in Needed /\ BlobsOf[ContentOf[e]] \subseteq Needed
    BY <1>1, NeededHas, NamesAre, WholeIs
  <2> QED BY <2>1 DEF KeepEntry
<1>2. ASSUME NEW e \in Entries \cup {NoEntry}, e = NoEntry \/ WholePath(e) \subseteq Named
      PROVE  KeepPath(e) \subseteq Needed /\ KeepPin(e) \subseteq Needed
  <2>1. CASE e = NoEntry
    BY <2>1 DEF KeepPath, KeepPin
  <2>2. CASE e /= NoEntry
    <3>1. e \in Entries /\ WholePath(e) \subseteq Named
      BY <1>2, <2>2
    <3>2. \A x \in PathTo(e) : x \in Entries /\ Whole(x) \subseteq Named
      BY <3>1, PathHas, InWholePath
    <3>3. \A x \in PathTo(e) : KeepEntry(x) \subseteq Needed
      BY <3>2, <1>1
    <3>4. KeepPath(e) \subseteq Needed
      BY <3>3 DEF KeepPath
    <3> QED BY <3>4 DEF KeepPin
  <2> QED BY <2>1, <2>2
<1> QED BY <1>1, <1>2

\* What a sweep keeps of a log is needed.
LEMMA KeepLogIsNeeded ==
  ASSUME LogsOK, NEW s \in Sessions, NEW m, m.n \in Nat
  PROVE  KeepLog(s, m) \subseteq Needed
<1> SUFFICES ASSUME NEW o \in KeepLog(s, m) PROVE o \in Needed
  OBVIOUS
<1>1. logs[s] \in Logs /\ logs[s].recs \in Seq(Records) /\ logs[s].base \in Entries \cup {NoEntry}
  BY DEF LogsOK, Logs
<1>2. \A e \in EntriesOf(logs[s]) : e \in Entries /\ Whole(e) \subseteq Named
  BY <1>1, LogShape, InNamedBy, InNamed
<1>3. CASE m.inc /= logs[s].inc /\ o \in KeepPath(logs[s].base)
  <2>1. CASE logs[s].base = NoEntry
    BY <2>1, <1>3, KeepIsNeeded
  <2>2. CASE logs[s].base /= NoEntry
    <3>1. PathTo(logs[s].base) \subseteq EntriesOf(logs[s])
      BY <2>2 DEF EntriesOf
    <3>2. WholePath(logs[s].base) \subseteq Named
      BY <3>1, <1>2, InWholePath
    <3> QED BY <3>2, <1>1, <1>3, KeepIsNeeded
  <2> QED BY <2>1, <2>2
<1>4. CASE \E i \in (IF m.inc = logs[s].inc THEN m.n ELSE 0) + 1..Len(logs[s].recs) :
             o \in KeepEntry(logs[s].recs[i].entry)
  <2>1. PICK from \in Nat : from = IF m.inc = logs[s].inc THEN m.n ELSE 0
    OBVIOUS
  <2>2. PICK i \in from + 1..Len(logs[s].recs) : o \in KeepEntry(logs[s].recs[i].entry)
    BY <2>1, <1>4
  <2>3. i \in DOMAIN logs[s].recs
    BY <1>1, <2>1, <2>2
  <2>4. logs[s].recs[i].entry \in EntriesOf(logs[s])
    BY <2>3 DEF EntriesOf
  <2> QED BY <2>2, <2>4, <1>2, KeepIsNeeded
<1> QED BY <1>3, <1>4, InKeepLog

\* So is what it keeps for the refs,
LEMMA KeepRefsIsNeeded ==
  ASSUME refs \in [Refs -> Entries \cup {NoEntry}]
  PROVE  KeepRefs \subseteq Needed
<1>1. ASSUME NEW r \in Refs PROVE KeepPin(refs[r]) \subseteq Needed
  <2>1. refs[r] = NoEntry \/ WholePath(refs[r]) \subseteq Named
    BY InNamed
  <2> QED BY <2>1, KeepIsNeeded
<1> QED BY <1>1 DEF KeepRefs

\* and what it reads again under its lock.
LEMMA SinceIsNeeded ==
  ASSUME LogsOK, refs \in [Refs -> Entries \cup {NoEntry}], sw \in Packed
  PROVE  Since \subseteq Needed
<1>1. \A s \in Live : s \in Sessions /\ sw.marks[s].n \in Nat
  BY DEF Live, Packed, Marks
<1>2. \A s \in Live : KeepLog(s, sw.marks[s]) \subseteq Needed
  BY <1>1, KeepLogIsNeeded
<1> DEFINE A == UNION {KeepLog(s, sw.marks[s]) : s \in Live}
<1>3. A \subseteq Needed
  BY <1>2
<1>4. KeepRefs \subseteq Needed
  BY KeepRefsIsNeeded
<1>5. Since = A \cup KeepRefs
  BY Zenon DEF Since
<1> HIDE DEF A
<1> QED BY <1>3, <1>4, <1>5

\* A sweep's step beside which nothing else moves.
LEMMA QuietCarry ==
  ASSUME QuietInv, sw /= Asleep, sw'.quiet = sw.quiet, sw'.garbage = sw.garbage, ops' = ops, pc' = pc,
         sw.quiet = ops => \A o \in sw.garbage : Unneeded(o) => Unneeded(o)'
  PROVE  QuietInv'
BY DEF QuietInv

\* An operation begun, or a deletion: the sweep's quiet is over.
LEMMA QuietEnds ==
  ASSUME Typed, QuietInv, sw' = sw, ops' = ops + 1, ops < MaxOps
  PROVE  QuietInv'
<1>1. ops \in Nat /\ MaxOps \in Nat
  BY NamesAre DEF Typed
<1>2. CASE sw = Asleep
  BY <1>2 DEF QuietInv
<1>3. CASE sw /= Asleep
  <2>1. sw.quiet <= ops \/ sw.quiet = MaxOps + 1
    BY <1>3 DEF QuietInv
  <2>2. sw.quiet \in Nat
    BY <1>3, SweepShape DEF Typed, Keeping, Scanned, Packed, Rescued, Replaced, Pruning, Ending
  <2>3. sw.quiet /= ops + 1 /\ (sw.quiet <= ops + 1 \/ sw.quiet = MaxOps + 1)
    BY <2>1, <2>2, <1>1
  <2> QED BY <2>3 DEF QuietInv
<1> QED BY <1>2, <1>3

\* A call that moves was under way.
LEMMA QuietNot ==
  ASSUME QuietInv, sw' = sw, ops' = ops, NEW w \in Writers, pc[w] /= Idle
  PROVE  QuietInv'
BY DEF QuietInv

\* A writer's step ends the quiet, or finds it over.
LEMMA QuietWriter ==
  ASSUME IInv, QuietInv, WriterNext
  PROVE  QuietInv'
<1>1. PICK w \in Writers :
        \/ \E s \in Sessions, e \in Entries : StartAppend(w, s, e) \/ StartFork(w, s, e)
        \/ WriteObject(w) \/ FreshenBlobs(w) \/ AppendRecord(w)
        \/ \E b \in Blobs : StartPutBlob(w, b)
        \/ PutBlob(w) \/ PutMediaType(w)
        \/ ForkGuard(w) \/ FreshenPath(w) \/ PlaceSession(w)
        \/ \E r \in Refs, e \in Entries : StartPin(w, r, e)
        \/ PlaceRef(w)
  BY DEF WriterNext
<1>2. CASE \/ \E s \in Sessions, e \in Entries : StartAppend(w, s, e) \/ StartFork(w, s, e)
           \/ \E b \in Blobs : StartPutBlob(w, b)
           \/ \E r \in Refs, e \in Entries : StartPin(w, r, e)
  <2>1. sw' = sw /\ ops' = ops + 1 /\ ops < MaxOps
    BY <1>2 DEF StartAppend, StartFork, StartPutBlob, StartPin, Begin
  <2> QED BY <2>1, QuietEnds DEF IInv
<1>3. CASE \/ WriteObject(w) \/ FreshenBlobs(w) \/ AppendRecord(w) \/ PutBlob(w) \/ PutMediaType(w)
           \/ ForkGuard(w) \/ FreshenPath(w) \/ PlaceSession(w) \/ PlaceRef(w)
  <2>1. sw' = sw /\ ops' = ops /\ pc[w].op /= "idle"
    BY <1>3 DEF WriteObject, FreshenBlobs, AppendRecord, PutBlob, PutMediaType, ForkGuard, FreshenPath,
                PlaceSession, PlaceRef
  <2>2. pc[w] /= Idle
    BY <2>1, IdleIs
  <2> QED BY <2>1, <2>2, QuietNot
<1> QED BY <1>1, <1>2, <1>3

\* So does a deletion.
LEMMA QuietDelete ==
  ASSUME IInv, QuietInv, (\E r \in Refs : DeleteRef(r)) \/ (\E s \in Sessions : DeleteSession(s))
  PROVE  QuietInv'
<1>1. sw' = sw /\ ops' = ops + 1 /\ ops < MaxOps
  BY DEF DeleteRef, DeleteSession
<1> QED BY <1>1, QuietEnds DEF IInv

\* An object no record names is in no commit's pack.
LEMMA QuietPackPending ==
  ASSUME IInv, QuietInv, NEW s \in Sessions, PackPending(s)
  PROVE  QuietInv'
<1>1. PICK objs : /\ objs \subseteq UNION {{logs[s].recs[i].entry, ContentOf[logs[s].recs[i].entry]} : i \in DOMAIN logs[s].recs}
                  /\ PackObjects("commit", objs)
  BY DEF PackPending
<1>2. /\ packs' = WithPack(objs) /\ fresh' = fresh \cup {objs} /\ loose' = loose
      /\ UNCHANGED <<types, logs, refs, pc, sw, ops, sweeps>>
  BY <1>1 DEF PackObjects
<1>3. objs \subseteq Needed
  <2>1. \A i \in DOMAIN logs[s].recs : logs[s].recs[i].entry \in EntriesOf(logs[s])
    BY DEF EntriesOf
  <2>2. \A i \in DOMAIN logs[s].recs : Whole(logs[s].recs[i].entry) \subseteq Named
    BY <2>1, InNamedBy, InNamed
  <2> QED BY <1>1, <2>2, NeededHas DEF Whole
<1>4. /\ DOMAIN packs' = DOMAIN packs \cup {objs}
      /\ \A p \in DOMAIN packs : p /= objs => packs'[p] = packs[p]
  BY <1>2 DEF WithPack
<1>5. Needed' = Needed
  BY <1>2 DEF Needed, Named
<1>6. ASSUME NEW o, Unneeded(o) PROVE Unneeded(o)'
  <2>1. o \notin objs
    BY <1>3, <1>6 DEF Unneeded
  <2>2. \A p \in DOMAIN packs' : o \in p => p \in DOMAIN packs /\ packs'[p] = packs[p] /\ (p \in fresh' => p \in fresh)
    BY <2>1, <1>2, <1>4
  <2> QED BY <2>2, <1>2, <1>5, <1>6 DEF Unneeded, Late
<1>7. CASE sw = Asleep
  BY <1>7, <1>2 DEF QuietInv
<1>8. CASE sw /= Asleep
  BY <1>2, <1>6, <1>8, QuietCarry
<1> QED BY <1>7, <1>8

\* Loose copies that go hold no garbage the more.
LEMMA QuietRemovePacked ==
  ASSUME IInv, QuietInv, RemovePacked
  PROVE  QuietInv'
<1>1. /\ loose' = [o \in Objects |-> IF o \in packing.objs THEN "none" ELSE loose[o]]
      /\ UNCHANGED <<packs, fresh, types, logs, refs, pc, sw, ops, sweeps>>
  BY DEF RemovePacked
<1>2. CASE sw = Asleep
  BY <1>1, <1>2 DEF QuietInv
<1>3. CASE sw /= Asleep
  <2>1. sw.garbage \subseteq Objects
    BY <1>3, SweepShape DEF IInv, Typed, Keeping, Scanned, Packed, Rescued, Replaced, Pruning, Ending, Objs
  <2>2. ASSUME NEW o \in sw.garbage, Unneeded(o) PROVE Unneeded(o)'
    <3>1. loose'[o] = loose[o] \/ loose'[o] = "none"
      BY <1>1, <2>1
    <3>2. Needed' = Needed
      BY <1>1 DEF Needed, Named
    <3> QED BY <3>1, <3>2, <1>1, <2>2 DEF Unneeded, Late
  <2> QED BY <1>1, <1>3, <2>2, QuietCarry
<1> QED BY <1>2, <1>3

\* A sweep's garbage is of objects.
LEMMA GarbageShape ==
  ASSUME Typed, sw /= Asleep
  PROVE  sw.garbage \subseteq Objects /\ sw.quiet \in Nat
BY SweepShape DEF Typed, Keeping, Scanned, Packed, Rescued, Replaced, Pruning, Ending, Objs

\* What is needed stays while logs and refs do.
LEMMA NeededStays ==
  ASSUME UNCHANGED <<logs, refs>>
  PROVE  Needed' = Needed
BY DEF Needed, Named

\* The sweep's steps keep QuietInv: its beginning,
LEMMA QuietStartSweep ==
  ASSUME IInv, StartSweep
  PROVE  QuietInv'
<1>1. PICK b : b = sw'
  OBVIOUS
<1>2. /\ b.phase = "keep" /\ b.keep = {}
      /\ b.quiet = IF \A w \in Writers : pc[w] = Idle THEN ops ELSE MaxOps + 1
      /\ b.garbage = {o \in Objects \ Needed : /\ loose[o] /= "young"
                                              /\ \A p \in DOMAIN packs : o \in p => packs[p] = "old"}
      /\ UNCHANGED <<types, logs, refs, pc, packing, ops>> /\ UNCHANGED disk
  BY <1>1 DEF StartSweep, Step
<1>3. ops \in Nat /\ ops <= MaxOps /\ MaxOps \in Nat
  BY NamesAre DEF IInv, Typed
<1>4. loose' = loose /\ packs' = packs /\ Needed' = Needed
  BY <1>2, NeededStays DEF disk
<1>5. CASE \A w \in Writers : pc[w] = Idle
  <2>1. \A o \in b.garbage : Unneeded(o)'
    BY <1>1, <1>2, <1>4 DEF Unneeded, Late
  <2> QED BY <1>1, <1>2, <1>3, <1>5, <2>1 DEF QuietInv
<1>6. CASE ~\A w \in Writers : pc[w] = Idle
  <2>1. b.quiet = MaxOps + 1 /\ b.quiet /= ops
    BY <1>2, <1>3, <1>6
  <2> QED BY <1>1, <1>2, <2>1 DEF QuietInv
<1> QED BY <1>5, <1>6

\* a session read, whose objects are needed,
LEMMA QuietKeepSession ==
  ASSUME IInv, QuietInv, NEW s \in Sessions, KeepSession(s)
  PROVE  QuietInv'
<1>1. PICK a, b : a = sw /\ b = sw'
  OBVIOUS
<1>2. /\ a.phase = "keep" /\ a \in Keeping /\ sw /= Asleep
      /\ UNCHANGED <<types, logs, refs, pc, packing, ops>> /\ loose' = loose /\ packs' = packs
  BY <1>1, SweepShape DEF KeepSession, Step, disk, IInv, Typed, Asleep
<1>3. CASE logs[s].inc = 0
  <2>1. sw' = Asleep
    BY <1>3 DEF KeepSession, Step
  <2> QED BY <2>1 DEF QuietInv
<1>4. CASE logs[s].inc /= 0
  <2>1. b = [a EXCEPT !.list = @ \ {s}, !.keep = @ \cup KeepLog(s, NoMark), !.marks[s] = MarkOf(s)]
    BY <1>1, <1>4 DEF KeepSession, Step
  <2>2. b.phase = "keep" /\ b.keep = a.keep \cup KeepLog(s, NoMark) /\ b.quiet = a.quiet /\ b.garbage = a.garbage
    BY <1>2, <2>1 DEF Keeping
  <2>3. KeepLog(s, NoMark) \subseteq Needed
    BY KeepLogIsNeeded DEF NoMark, IInv
  <2>4. ASSUME NEW o \in sw.garbage, Unneeded(o) PROVE Unneeded(o)'
    <3>1. Needed' = Needed
      BY <1>2, NeededStays
    <3>2. o \notin b.keep
      BY <1>1, <1>2, <2>2, <2>3, <2>4 DEF Unneeded
    <3> QED BY <3>1, <3>2, <1>1, <1>2, <2>2, <2>4 DEF Unneeded, Late
  <2> QED BY <1>1, <1>2, <2>2, <2>4, QuietCarry
<1> QED BY <1>3, <1>4

\* the loose objects listed, the garbage among those to prune,
LEMMA QuietScanLoose ==
  ASSUME IInv, QuietInv, ScanLoose
  PROVE  QuietInv'
<1>1. PICK a, b : a = sw /\ b = sw'
  OBVIOUS
<1>2. /\ a.phase = "keep" /\ a \in Keeping /\ sw /= Asleep
      /\ UNCHANGED <<types, logs, refs, pc, packing, ops>> /\ loose' = loose /\ packs' = packs
  BY <1>1, SweepShape DEF ScanLoose, Step, disk, IInv, Typed, Asleep
<1>3. /\ b.phase = "scanned" /\ b.keep = a.keep \cup KeepRefs /\ b.quiet = a.quiet /\ b.garbage = a.garbage
      /\ b.take = {o \in a.keep \cup KeepRefs : loose[o] /= "none"}
      /\ b.prune = {o \in Objects \ (a.keep \cup KeepRefs) : loose[o] = "old"}
  BY <1>1 DEF ScanLoose, Step
<1>4. KeepRefs \subseteq Needed
  BY KeepRefsIsNeeded DEF IInv, Typed
<1>5. ASSUME NEW o \in sw.garbage, Unneeded(o) PROVE Unneeded(o)'
  <2>1. Needed' = Needed /\ o \in Objects
    BY <1>2, NeededStays, GarbageShape DEF IInv
  <2>2. o \notin b.keep
    BY <1>1, <1>2, <1>3, <1>4, <1>5 DEF Unneeded
  <2>3. o \notin b.take /\ (loose[o] = "old" => o \in b.prune)
    BY <2>1, <2>2, <1>3
  <2>4. loose[o] /= "young" /\ \A p \in DOMAIN packs : o \in p => packs[p] = "old"
    BY <1>1, <1>2, <1>5 DEF Unneeded
  <2> QED BY <2>1, <2>2, <2>3, <2>4, <1>1, <1>2, <1>3, <1>5 DEF Unneeded, Late
<1> QED BY <1>1, <1>2, <1>3, <1>5, QuietCarry

\* the new pack, which has none of the garbage,
LEMMA QuietRepack ==
  ASSUME IInv, QuietInv, Repack
  PROVE  QuietInv'
<1>1. PICK a, b : a = sw /\ b = sw'
  OBVIOUS
<1>2. /\ a \in Scanned /\ a.phase = "scanned" /\ b.phase = "packed" /\ b.new = NewPack
      /\ b.old = DOMAIN packs /\ b.prune = a.prune /\ b.quiet = a.quiet /\ b.garbage = a.garbage
      /\ DOMAIN packs' = IF NewPack = {} THEN DOMAIN packs ELSE DOMAIN packs \cup {NewPack}
      /\ fresh' = {}
      /\ loose' = [o \in Objects |-> IF o \in Orphans THEN "young" ELSE loose[o]]
  BY <1>1, RepackKeeps DEF IInv, Typed, Scanned
<1>3. UNCHANGED <<types, logs, refs, pc, packing, ops>> /\ sw /= Asleep
  BY DEF Repack, Step, Asleep
<1>4. ASSUME NEW o \in sw.garbage, Unneeded(o) PROVE Unneeded(o)'
  <2>1. Needed' = Needed /\ o \in Objects
    BY <1>3, NeededStays, GarbageShape DEF IInv
  <2>2. /\ o \notin a.keep /\ o \notin a.take /\ loose[o] /= "young" /\ (loose[o] = "old" => o \in a.prune)
        /\ \A p \in DOMAIN packs : o \in p => packs[p] = "old"
    BY <1>1, <1>2, <1>4 DEF Unneeded
  <2>3. o \notin NewPack
    BY <2>2, <1>1 DEF NewPack
  <2>4. o \notin Orphans
    BY <2>2 DEF Orphans, SparedPacks
  <2>5. loose'[o] = loose[o]
    BY <2>1, <2>4, <1>2
  <2>6. \A p \in DOMAIN packs' : o \in p => p \in b.old \ {b.new}
    BY <2>3, <1>2
  <2> QED BY <2>1, <2>2, <2>3, <2>5, <2>6, <1>1, <1>2, <1>4 DEF Unneeded, Late
<1> QED BY <1>1, <1>2, <1>3, <1>4, QuietCarry

\* the lock,
LEMMA QuietLockSweep ==
  ASSUME IInv, QuietInv, LockSweep
  PROVE  QuietInv'
<1>1. /\ UNCHANGED <<types, logs, refs, pc, packing, ops>> /\ sw /= Asleep
      /\ loose' = loose /\ packs' = packs /\ fresh' = fresh
      /\ sw.phase \in {"packed", "duplicates"}
  BY DEF LockSweep, Step, disk, Asleep
<1>2. sw'.quiet = sw.quiet /\ sw'.garbage = sw.garbage
  BY LockSweepKeeps DEF IInv, Typed
<1>3. ASSUME NEW o \in sw.garbage, Unneeded(o) PROVE Unneeded(o)'
  <2>1. Needed' = Needed
    BY <1>1, NeededStays
  <2>2. CASE sw.phase = "packed"
    <3>1. sw'.phase = "since" /\ sw'.new = sw.new /\ sw'.old = sw.old /\ sw'.prune = sw.prune
      BY <2>2, LockSweepKeeps DEF IInv, Typed
    <3> QED BY <3>1, <2>1, <2>2, <1>1, <1>3 DEF Unneeded, Late
  <2>3. CASE sw.phase = "duplicates"
    <3>1. sw'.phase = "prune" /\ sw'.prune = sw.prune /\ sw'.since = sw.since
      BY <2>3, LockSweepKeeps DEF IInv, Typed
    <3> QED BY <3>1, <2>1, <2>3, <1>1, <1>3 DEF Unneeded, Late
  <2> QED BY <1>1, <2>2, <2>3
<1> QED BY <1>1, <1>2, <1>3, QuietCarry

\* the rescue, which puts none back, its packs not being fresh,
LEMMA QuietRescue ==
  ASSUME IInv, QuietInv, Rescue
  PROVE  QuietInv'
<1>1. PICK a, b : a = sw /\ b = sw'
  OBVIOUS
<1>2. /\ a \in Packed /\ a.phase = "since" /\ b \in Rescued /\ b.phase = "remove"
      /\ b.prune = a.prune /\ b.old = a.old /\ b.new = a.new
      /\ b.since = Since /\ b.quiet = a.quiet /\ b.garbage = a.garbage
      /\ packs' = packs /\ fresh' = fresh
      /\ loose' = [o \in Objects |-> IF o \in BackLoose \/ (o \in Touched /\ loose[o] = "none")
                                     THEN "young" ELSE loose[o]]
  BY <1>1, RescueShape DEF IInv, Typed, Rescued
<1>3. UNCHANGED <<types, logs, refs, pc, packing, ops>> /\ sw /= Asleep
  BY DEF Rescue, Step, Asleep
<1>4. Since \subseteq Needed
  BY <1>1, <1>2, SinceIsNeeded DEF IInv, Typed
<1>5. ASSUME NEW o \in sw.garbage, Unneeded(o) PROVE Unneeded(o)'
  <2>1. Needed' = Needed /\ o \in Objects
    BY <1>3, NeededStays, GarbageShape DEF IInv
  <2>2. /\ o \notin Needed /\ o \notin a.new /\ loose[o] /= "young" /\ (loose[o] = "old" => o \in a.prune)
        /\ \A p \in DOMAIN packs : o \in p => p \in a.old \ {a.new} /\ p \notin fresh
    BY <1>1, <1>2, <1>5 DEF Unneeded
  <2>3. o \notin Since /\ o \notin BackLoose
    BY <2>2, <1>4 DEF BackLoose
  <2>4. o \notin Touched
    <3>1. fresh \subseteq DOMAIN packs
      BY DEF IInv, DiskOK
    <3> QED BY <3>1, <2>2 DEF Touched
  <2>5. loose'[o] = loose[o]
    BY <2>1, <2>3, <2>4, <1>2
  <2> QED BY <2>1, <2>2, <2>3, <2>5, <1>1, <1>2 DEF Unneeded, Late
<1> QED BY <1>1, <1>2, <1>3, <1>5, QuietCarry

\* the replaced packs, the last to hold any packed,
LEMMA QuietRemoveOld ==
  ASSUME IInv, QuietInv, RemoveOld
  PROVE  QuietInv'
<1>1. PICK a, b : a = sw /\ b = sw'
  OBVIOUS
<1>2. /\ a \in Rescued /\ a.phase = "remove" /\ b \in Replaced /\ b.phase = "dups"
      /\ b.prune = a.prune /\ b.since = a.since /\ b.quiet = a.quiet /\ b.garbage = a.garbage
      /\ loose' = loose /\ DOMAIN packs' = DOMAIN packs \ (a.old \ {a.new})
  BY <1>1, RemoveOldKeeps DEF IInv, Typed, Rescued, Replaced
<1>3. UNCHANGED <<types, logs, refs, pc, packing, ops>> /\ sw /= Asleep
  BY DEF RemoveOld, Step, Asleep
<1>4. ASSUME NEW o \in sw.garbage, Unneeded(o) PROVE Unneeded(o)'
  <2>1. Needed' = Needed
    BY <1>3, NeededStays
  <2>2. /\ o \notin Needed /\ loose[o] /= "young" /\ (loose[o] = "old" => o \in a.prune) /\ o \notin a.since
        /\ \A p \in DOMAIN packs : o \in p => p \in a.old \ {a.new}
    BY <1>1, <1>2, <1>4 DEF Unneeded, Late
  <2>3. \A p \in DOMAIN packs' : o \notin p
    BY <2>2, <1>2
  <2> QED BY <2>1, <2>2, <2>3, <1>1, <1>2 DEF Unneeded, Late
<1> QED BY <1>1, <1>2, <1>3, <1>4, QuietCarry

\* the duplicates,
LEMMA QuietRemoveDuplicates ==
  ASSUME IInv, QuietInv, RemoveDuplicates
  PROVE  QuietInv'
<1>1. PICK a, b : a = sw /\ b = sw'
  OBVIOUS
<1>2. /\ a \in Replaced /\ a.phase = "dups" /\ b \in Pruning /\ b.phase = "duplicates"
      /\ b.prune = a.prune /\ b.since = a.since /\ b.quiet = a.quiet /\ b.garbage = a.garbage
      /\ packs' = packs /\ loose' = [o \in Objects |-> IF o \in a.dup THEN "none" ELSE loose[o]]
  BY <1>1, RemoveDuplicatesKeeps DEF IInv, Typed, Replaced
<1>3. UNCHANGED <<types, logs, refs, pc, packing, ops>> /\ sw /= Asleep
  BY DEF RemoveDuplicates, Step, Asleep
<1>4. ASSUME NEW o \in sw.garbage, Unneeded(o) PROVE Unneeded(o)'
  <2>1. Needed' = Needed /\ o \in Objects
    BY <1>3, NeededStays, GarbageShape DEF IInv
  <2>2. /\ o \notin Needed /\ loose[o] /= "young" /\ (loose[o] = "old" => o \in a.prune) /\ o \notin a.since
        /\ \A p \in DOMAIN packs : o \notin p
    BY <1>1, <1>2, <1>4 DEF Unneeded, Late
  <2>3. loose'[o] = loose[o] \/ loose'[o] = "none"
    BY <2>1, <1>2
  <2> QED BY <2>1, <2>2, <2>3, <1>1, <1>2 DEF Unneeded, Late
<1> QED BY <1>1, <1>2, <1>3, <1>4, QuietCarry

\* and the pruning, the last to hold any loose.
LEMMA QuietPrune ==
  ASSUME IInv, QuietInv, Prune
  PROVE  QuietInv'
<1>1. PICK a, b : a = sw /\ b = sw'
  OBVIOUS
<1>2. /\ a \in Pruning /\ a.phase = "prune" /\ b \in Ending /\ b.phase = "types"
      /\ b.quiet = a.quiet /\ b.garbage = a.garbage
      /\ packs' = packs /\ loose' = [o \in Objects |-> IF Pruned(o) THEN "none" ELSE loose[o]]
  <2>1. a.phase = "prune" /\ b.phase = "types"
    BY <1>1 DEF Prune, Step
  <2> QED BY <1>1, <2>1, PruneKeeps DEF IInv, Typed
<1>3. UNCHANGED <<types, logs, refs, pc, packing, ops>> /\ sw /= Asleep
  BY DEF Prune, Step, Asleep
<1>4. ASSUME NEW o \in sw.garbage, Unneeded(o) PROVE Unneeded(o)'
  <2>1. Needed' = Needed /\ o \in Objects /\ loose[o] \in {"none", "old", "young"}
    BY <1>3, NeededStays, GarbageShape DEF IInv, DiskOK
  <2>2. /\ o \notin Needed /\ loose[o] /= "young" /\ (loose[o] = "old" => o \in a.prune) /\ o \notin a.since
        /\ \A p \in DOMAIN packs : o \notin p
    BY <1>1, <1>2, <1>4 DEF Unneeded, Late
  <2>3. loose'[o] = "none"
    BY <2>1, <2>2, <1>1, <1>2 DEF Pruned
  <2> QED BY <2>1, <2>2, <2>3, <1>1, <1>2 DEF Unneeded, Late
<1> QED BY <1>1, <1>2, <1>3, <1>4, QuietCarry

\* Every step keeps QuietInv.
LEMMA QuietStep ==
  ASSUME IInv, QuietInv, [Next]_vars
  PROVE  QuietInv'
<1>1. CASE SweepMediaTypes \/ SweepStops
  <2>1. sw' = Asleep
    BY <1>1 DEF SweepMediaTypes, SweepStops, Step
  <2> QED BY <2>1 DEF QuietInv
<1>2. CASE PackLoose \/ Consolidate \/ Age
  <2>1. sw' = Asleep
    BY <1>2 DEF PackLoose, PackObjects, Consolidate, Age
  <2> QED BY <2>1 DEF QuietInv
<1>3. CASE UNCHANGED vars
  <2>1. UNCHANGED <<loose, packs, fresh, logs, refs, pc, sw, ops>>
    BY <1>3 DEF vars, disk
  <2>2. Needed' = Needed
    BY <2>1, NeededStays
  <2> QED BY <2>1, <2>2 DEF QuietInv, Unneeded, Late
<1>4. CASE Next
  BY <1>1, <1>2, <1>4, QuietWriter, QuietDelete, QuietPackPending, QuietRemovePacked, QuietStartSweep, QuietKeepSession,
     QuietScanLoose, QuietRepack, QuietLockSweep, QuietRescue, QuietRemoveOld, QuietRemoveDuplicates,
     QuietPrune, Zenon DEF Next, SweepNext
<1> QED BY <1>3, <1>4

\* At a sweep's end nothing holds its garbage.
LEMMA QuietIs ==
  ASSUME IInv, QuietInv
  PROVE  GarbageGoes
<1> SUFFICES ASSUME sw.phase = "types", sw.quiet = ops, NEW o \in sw.garbage PROVE ~Held(o)
  BY DEF GarbageGoes
<1>1. sw /= Asleep
  BY DEF Asleep
<1>2. Unneeded(o)
  BY <1>1 DEF QuietInv
<1> QED BY <1>2 DEF Unneeded, Held, HeldIn

\* A sweep no operation ran beside takes everything that was old and unneeded
\* when it began, loose, packed or both (Store.Sweep).
THEOREM GarbageIsSwept ==
  ASSUME CommitsGuarded
  PROVE  Spec => []GarbageGoes
<1>1. Init => QuietInv
  BY DEF Init, QuietInv
<1>2. IInv /\ QuietInv /\ [Next]_vars => QuietInv'
  BY QuietStep
<1>3. IInv /\ QuietInv => GarbageGoes
  BY QuietIs
<1>4. Spec => []IInv
  BY AlwaysIInv
<1> QED BY <1>1, <1>2, <1>3, <1>4, PTL DEF Spec

\* Types go only at the sweep's last step, and only of what is not held.
LEMMA TypesStep ==
  ASSUME [Next]_vars
  PROVE  \A b \in types : b \in types' \/ ~Held(b)'
<1>1. CASE SweepMediaTypes
  <2>1. types' = {b \in types : Held(b)} /\ loose' = loose /\ packs' = packs
    BY <1>1 DEF SweepMediaTypes, disk
  <2>2. \A b : Held(b)' <=> Held(b)
    BY <2>1 DEF Held, HeldIn
  <2> QED BY <2>1, <2>2
<1>2. CASE \E w \in Writers : PutMediaType(w)
  BY <1>2 DEF PutMediaType
<1>3. CASE types' = types
  BY <1>3
<1>4. CASE WriterNext
  <2>1. ASSUME NEW w \in Writers, NEW s \in Sessions, NEW e \in Entries, StartAppend(w, s, e) \/ StartFork(w, s, e)
        PROVE  types' = types
    BY <2>1 DEF StartAppend, StartFork, Begin
  <2>2. ASSUME NEW w \in Writers, \/ WriteObject(w) \/ FreshenBlobs(w) \/ AppendRecord(w) \/ PutBlob(w)
                                  \/ ForkGuard(w) \/ FreshenPath(w) \/ PlaceSession(w) \/ PlaceRef(w)
        PROVE  types' = types
    BY <2>2 DEF WriteObject, FreshenBlobs, AppendRecord, PutBlob, ForkGuard, FreshenPath, PlaceSession, PlaceRef
  <2>3. ASSUME NEW w \in Writers, NEW b \in Blobs, StartPutBlob(w, b) PROVE types' = types
    BY <2>3 DEF StartPutBlob, Begin
  <2>4. ASSUME NEW w \in Writers, NEW r \in Refs, NEW e \in Entries, StartPin(w, r, e) PROVE types' = types
    BY <2>4 DEF StartPin, Begin
  <2> QED BY <1>2, <1>3, <1>4, <2>1, <2>2, <2>3, <2>4, Zenon DEF WriterNext
<1>5. CASE \/ StartSweep \/ (\E s \in Sessions : KeepSession(s)) \/ ScanLoose \/ Repack \/ LockSweep \/ Rescue
           \/ RemoveOld \/ RemoveDuplicates \/ Prune \/ SweepStops
  <2>1. types' = types
    BY <1>5 DEF StartSweep, KeepSession, ScanLoose, Repack, LockSweep, Rescue, RemoveOld, RemoveDuplicates,
                Prune, SweepStops, Step
  <2> QED BY <2>1, <1>3
<1>6. CASE \/ (\E r \in Refs : DeleteRef(r)) \/ (\E s \in Sessions : DeleteSession(s) \/ PackPending(s))
           \/ PackLoose \/ RemovePacked \/ Consolidate \/ Age \/ UNCHANGED vars
  <2>1. types' = types
    BY <1>6 DEF DeleteRef, DeleteSession, PackPending, PackLoose, PackObjects, RemovePacked, Consolidate, Age, vars
  <2> QED BY <2>1, <1>3
<1> QED BY <1>1, <1>4, <1>5, <1>6, Zenon DEF Next, SweepNext

\* A blob put with its type has the type for as long as it is held, whatever
\* sweeps run (sweepMediaTypes).
THEOREM BlobsKeepTheirTypes == Spec => TypedStaysTyped
<1>1. [Next]_vars => [\A b \in types : b \in types' \/ ~Held(b)']_vars
  BY TypesStep
<1> QED BY <1>1, PTL DEF Spec, TypedStaysTyped

-----------------------------------------------------------------------------
(***************************************************************************)
(* BlobsKept and FirstTypeStays hold of every number of sessions, callers, *)
(* calls and cuts, of the three stores.                                    *)
(*                                                                         *)
(* A blob's time and a sweep's cutoff decide: whoever has freshened or     *)
(* linked the blob is still in its grace, so a sweep that takes the blob   *)
(* for old began before and none that counts on it has landed since.  A    *)
(* session the sweep did not list was forked from one it did, or freshened *)
(* the blob.                                                               *)
(***************************************************************************)

IsCall(r) ==
  /\ r = [k \in {"pc", "of", "orig", "t", "from", "ok", "then"} |-> r[k]]
  /\ r.from \in Nat
  /\ r.of \subseteq Holders /\ r.orig \subseteq Holders
  /\ r.then \in {"idle", "given"}
  /\ r.pc \in {"land", "place", "fork", "unlink", "given", "giving"} \/ r.then /= "idle"
       => \E s \in Holders : r.of = {s}

IsSession(h) == h = [k \in {"in", "names", "of"} |-> h[k]] /\ h.of \subseteq Holders

BlobTypes ==
  /\ now \in Nat
  /\ blob \in Int /\ Never <= blob /\ blob <= now
  /\ undo.blob \in Int /\ Never <= undo.blob /\ undo.blob <= now
  /\ held = [s \in Holders |-> held[s]] /\ \A s \in Holders : IsSession(held[s])
  /\ ownTypes = [s \in Holders |-> ownTypes[s]] /\ given = [s \in Holders |-> given[s]]
  /\ call = [c \in Callers |-> call[c]] /\ \A c \in Callers : IsCall(call[c])
  /\ sweep = [k \in {"pc", "cutoff", "old", "listed", "named"} |-> sweep[k]] /\ sweep.cutoff \in Int
  /\ counted \subseteq Holders
  /\ promise \in Int

\* The blob is there and was stored at that time or since.
StoredSince(at) == IsHeld(blob) /\ at <= blob

\* What a call knows of the blob since it looked, and of the origin of its fork.
CallOK(r) ==
  /\ r.pc /= "idle" => now <= r.from + Grace /\ r.from <= now
  /\ r.pc \in {"land", "place"} /\ r.ok => StoredSince(r.from)
  /\ r.pc \in {"again", "link"} => ~IsHeld(blob) \/ StoredSince(r.from)
  /\ r.pc \in {"typed", "typing"} => StoredSince(r.from)
  /\ r.pc = "fork" => r.orig /= {} /\ (r.ok => r.orig \subseteq counted)

\* While a sweep reads the sessions it listed: one that counts on the blob is
\* listed, was forked from one that is, or the blob is not old.
Covered(f) ==
  \/ f \in sweep.listed
  \/ StoredSince(sweep.cutoff)
  \/ held[f].of \cap sweep.listed \cap counted /= {}

SweepOK ==
  /\ ~Files => sweep.pc = "idle"
  /\ sweep.pc /= "idle" => sweep.cutoff + Grace <= now
  /\ sweep.pc = "read" => \A f \in counted : Covered(f)
  /\ sweep.pc = "look" /\ ~sweep.named => counted = {} \/ StoredSince(sweep.cutoff)
  /\ sweep.pc \in {"type", "blob"} => IsHeld(blob) /\ blob < sweep.cutoff /\ counted = {}
  /\ sweep.pc = "blob" => type = NoType
  /\ sweep.pc = "stray" => type = NoType \/ lost

CountedName == \A s \in counted : held[s].in /\ held[s].names

PromiseOK == now <= promise => StoredSince(promise - Grace)

\* A session not held has no types of its own.
OwnOK == \A s \in Holders \ raced :
  IF held[s].in THEN ownTypes[s] \in given[s] \cup {Untyped} ELSE ownTypes[s] = Untyped

BlobInv ==
  /\ BlobTypes
  /\ \A c \in Callers : CallOK(call[c])
  /\ SweepOK
  /\ CountedName /\ NamedBlobsStay
  /\ PromiseOK
  /\ NoStrayTypes
  /\ OwnOK

-----------------------------------------------------------------------------

LEMMA MaxOfTwo ==
  ASSUME NEW a \in Int, NEW b \in Int
  PROVE  /\ Max({a, b}) \in {a, b}
         /\ Max({a, b}) >= a /\ Max({a, b}) >= b
<1>1. \E x \in {a, b} : \A y \in {a, b} : x >= y
  <2>1. CASE a >= b
    BY <2>1
  <2>2. CASE ~(a >= b)
    BY <2>2
  <2> QED BY <2>1, <2>2
<1>2. Max({a, b}) \in {a, b} /\ \A y \in {a, b} : Max({a, b}) >= y
  BY <1>1 DEF Max
<1> QED BY <1>2

\* The session a call is on.
LEMMA OnIs ==
  ASSUME NEW c \in Callers, NEW s \in Holders, call[c].of = {s}
  PROVE  On(c) = s
BY DEF On

-----------------------------------------------------------------------------
(* What a step that is not the call's or the sweep's leaves them.          *)

LEMMA CallKept ==
  ASSUME BlobInv, NEW r, IsCall(r), CallOK(r), now' = now,
         blob' \in {blob, now}, counted \subseteq counted'
  PROVE  CallOK(r)'
<1>1. now \in Nat /\ blob \in Int /\ blob <= now /\ r.from \in Nat
  BY DEF BlobInv, BlobTypes, IsCall
<1> QED BY <1>1 DEF CallOK, StoredSince, IsHeld, Never, Grace

\* What may come to count on the blob: while a sweep runs, a session whose call
\* freshened it, and a fork of one that counts on it.
NewlyCovered(f) ==
  \/ sweep.pc = "idle" /\ IsHeld(blob')
  \/ StoredSince(now - Grace)'
  \/ \E o \in counted : o \in held'[f].of /\ held[o].of \subseteq held'[f].of

LEMMA SweepKept ==
  ASSUME BlobInv, kind' = kind, sweep' = sweep, now' = now, lost' = lost,
         blob' \in {blob, now}, sweep.pc \in {"type", "blob"} => blob' = blob,
         GuardFree \/ type' = type,
         counted \subseteq counted',
         \A f \in counted' : \/ f \in counted /\ held'[f].of = held[f].of
                             \/ NewlyCovered(f)
  PROVE  SweepOK'
<1> DEFINE Types == now \in Nat /\ blob \in Int /\ blob <= now /\ sweep.cutoff \in Int
<1>1. Types /\ SweepOK /\ NamedBlobsStay
  BY DEF BlobInv, BlobTypes
<1>2. StoredSince(sweep.cutoff) => StoredSince(sweep.cutoff)'
  BY <1>1 DEF SweepOK, StoredSince, IsHeld, Never, Grace, Old
<1>3. sweep.pc /= "idle" /\ StoredSince(now - Grace)' => StoredSince(sweep.cutoff)'
  BY <1>1 DEF SweepOK, StoredSince, Grace, IsHeld, Never
<1>4. ASSUME sweep.pc = "read", NEW f \in counted' PROVE Covered(f)'
  <2>0. \A g \in counted : Covered(g)
    BY <1>1, <1>4 DEF SweepOK
  <2>1. CASE StoredSince(now - Grace)'
    BY <1>3, <1>4, <2>1 DEF Covered
  <2>2. CASE f \in counted /\ held'[f].of = held[f].of
    BY <1>2, <2>0, <2>2 DEF Covered
  <2>3. CASE \E o \in counted : o \in held'[f].of /\ held[o].of \subseteq held'[f].of
    <3>1. PICK o \in counted : o \in held'[f].of /\ held[o].of \subseteq held'[f].of
      BY <2>3
    <3>2. Covered(o)
      BY <2>0
    <3> QED BY <1>2, <3>1, <3>2 DEF Covered
  <2> QED BY <1>4, <2>1, <2>2, <2>3 DEF NewlyCovered
<1>5. counted = {} => counted' = {} \/ sweep.pc = "idle" \/ StoredSince(now - Grace)'
  BY DEF NewlyCovered
<1>7. sweep.pc = "look" /\ ~sweep.named => counted' = {} \/ StoredSince(sweep.cutoff)'
  BY <1>1, <1>2, <1>3, <1>5 DEF SweepOK
<1>8. sweep.pc \in {"type", "blob"} => IsHeld(blob') /\ blob' < sweep.cutoff /\ counted' = {}
  <2> SUFFICES ASSUME sweep.pc \in {"type", "blob"} PROVE IsHeld(blob') /\ blob' < sweep.cutoff /\ counted' = {}
    OBVIOUS
  <2>1. IsHeld(blob) /\ blob < sweep.cutoff /\ counted = {} /\ blob' = blob
    BY <1>1 DEF SweepOK
  <2>2. ~StoredSince(sweep.cutoff)'
    BY <1>1, <2>1 DEF StoredSince
  <2> QED BY <1>3, <1>5, <2>1, <2>2
<1>9. /\ sweep.pc = "blob" => type' = NoType
      /\ sweep.pc = "stray" => type' = NoType \/ lost'
  BY <1>1 DEF SweepOK, GuardFree
<1> QED BY <1>1, <1>4, <1>7, <1>8, <1>9 DEF SweepOK, Files

\* A call's step: what it must show to keep the invariant.
BlobCallStep(c, r) ==
  /\ UNCHANGED <<kind, now, sweep, lost>>
  /\ undo' = undo \/ Synced
  /\ blob' \in {blob, now} /\ (sweep.pc \in {"type", "blob"} => blob' = blob)
  /\ type' = type \/ (GuardFree /\ IsHeld(blob'))
  /\ promise' = promise \/ (promise' \in Int /\ StoredSince(promise - Grace)')
  /\ call' = [call EXCEPT ![c] = r] /\ IsCall(r)
  /\ counted \subseteq counted' /\ counted' \subseteq Holders
  /\ \A f \in counted' : (f \in counted /\ held'[f].of = held[f].of) \/ NewlyCovered(f)

SessionsStep ==
  /\ held' = [s \in Holders |-> held'[s]] /\ \A s \in Holders : IsSession(held'[s])
  /\ ownTypes' = [s \in Holders |-> ownTypes'[s]] /\ given' = [s \in Holders |-> given'[s]]
  /\ CountedName' /\ OwnOK'

LEMMA CallStepKeeps ==
  ASSUME BlobInv, NEW c \in Callers, NEW r, BlobCallStep(c, r), CallOK(r)', SessionsStep
  PROVE  BlobInv'
<1>1. BlobTypes /\ NamedBlobsStay /\ PromiseOK /\ NoStrayTypes
  BY DEF BlobInv
<1>0. call'[c] = r /\ \A d \in Callers \ {c} : call'[d] = call[d]
  BY <1>1 DEF BlobCallStep, BlobTypes
<1>2. BlobTypes'
  <2>1. call' = [d \in Callers |-> call'[d]] /\ \A d \in Callers : IsCall(call'[d])
    BY <1>0, <1>1 DEF BlobCallStep, BlobTypes
  <2>2. undo'.blob \in Int /\ Never <= undo'.blob /\ undo'.blob <= now'
    BY <1>1 DEF BlobCallStep, BlobTypes, Synced, Never
  <2> QED BY <1>1, <2>1, <2>2 DEF BlobTypes, BlobCallStep, SessionsStep, Never
<1>3. \A d \in Callers : CallOK(call[d])'
  <2> SUFFICES ASSUME NEW d \in Callers PROVE CallOK(call[d])'
    OBVIOUS
  <2>1. CASE d = c
    BY <2>1, <1>0 DEF CallOK, StoredSince
  <2>2. CASE d /= c
    <3>1. PICK q : q = call[d] OBVIOUS
    <3>2. CallOK(q)'
      BY <3>1, CallKept DEF BlobCallStep, BlobInv, BlobTypes
    <3>3. call'[d] = q
      BY <3>1, <2>2, <1>0
    <3> QED BY <3>2, <3>3 DEF CallOK, StoredSince
  <2> QED BY <2>1, <2>2
<1>4. SweepOK'
  <2>1. GuardFree \/ type' = type
    BY DEF BlobCallStep
  <2> QED BY <2>1, SweepKept DEF BlobCallStep
<1>5. IsHeld(blob) => IsHeld(blob')
  BY <1>1 DEF BlobCallStep, IsHeld, BlobTypes, Never
<1>6. NamedBlobsStay'
  <2> SUFFICES ASSUME NEW f \in counted' PROVE IsHeld(blob')
    BY DEF NamedBlobsStay
  <2>1. CASE counted /= {}
    BY <1>1, <1>5, <2>1 DEF NamedBlobsStay
  <2>2. CASE counted = {}
    BY <2>2 DEF BlobCallStep, NewlyCovered, StoredSince
  <2> QED BY <2>1, <2>2
<1>7. PromiseOK'
  <2>1. CASE promise' = promise
    BY <1>1, <2>1 DEF PromiseOK, BlobCallStep, StoredSince, IsHeld, BlobTypes, Never, Grace
  <2>2. CASE promise' /= promise
    BY <2>2 DEF PromiseOK, BlobCallStep
  <2> QED BY <2>1, <2>2
<1>8. NoStrayTypes'
  BY <1>1, <1>5 DEF NoStrayTypes, BlobCallStep
<1> QED BY <1>2, <1>3, <1>4, <1>6, <1>7, <1>8 DEF BlobInv, SessionsStep

\* A step that leaves the sessions and what counts on the blob alone.
BlobQuietStep ==
  /\ UNCHANGED <<kind, now, type, held, ownTypes, sweep, lost, counted, promise, given, raced>>
  /\ undo' = undo \/ Synced
  /\ blob' \in {blob, now} /\ (sweep.pc \in {"type", "blob"} => blob' = blob)

LEMMA QuietStepKeeps ==
  ASSUME BlobInv, NEW c \in Callers, NEW r, call' = [call EXCEPT ![c] = r], IsCall(r), CallOK(r)', BlobQuietStep
  PROVE  BlobInv'
<1>1. BlobCallStep(c, r)
  BY DEF BlobCallStep, BlobQuietStep, BlobInv, BlobTypes
<1>2. SessionsStep
  <2>1. BlobTypes /\ CountedName /\ OwnOK
    BY DEF BlobInv
  <2>2. CountedName' /\ OwnOK'
    BY <2>1 DEF CountedName, OwnOK, BlobQuietStep
  <2> QED BY <2>1, <2>2 DEF SessionsStep, BlobQuietStep, BlobTypes
<1> QED BY <1>1, <1>2, CallStepKeeps

LEMMA CallFacts ==
  ASSUME BlobInv, NEW c \in Callers
  PROVE  /\ call = [d \in Callers |-> call[d]] /\ IsCall(call[c])
         /\ now \in Nat /\ blob \in Int /\ Never <= blob /\ blob <= now /\ sweep.cutoff \in Int
         /\ CallOK(call[c]) /\ SweepOK /\ NamedBlobsStay /\ CountedName
         /\ counted \subseteq Holders
BY DEF BlobInv, BlobTypes

\* The call after it went on to another step.
LEMMA GoesTo ==
  ASSUME BlobInv, NEW c \in Callers, NEW to, GoTo(c, to),
         to \in {"land", "place", "fork", "unlink", "given", "giving"} => \E s \in Holders : call[c].of = {s}
  PROVE  \E r : /\ call' = [call EXCEPT ![c] = r] /\ IsCall(r)
                /\ r.pc = to /\ r.from = call[c].from
<1>1. PICK b : b = call[c] OBVIOUS
<1>2. PICK r : r = [b EXCEPT !.pc = to] OBVIOUS
<1>3. IsCall(b) BY <1>1, CallFacts
<1>4. /\ r = [k \in {"pc", "of", "orig", "t", "from", "ok", "then"} |-> r[k]]
      /\ r.pc = to /\ r.of = b.of /\ r.orig = b.orig /\ r.from = b.from /\ r.then = b.then
  BY <1>2, <1>3 DEF IsCall
<1>5. call' = [call EXCEPT ![c] = r] BY <1>1, <1>2 DEF GoTo
<1>6. IsCall(r) BY <1>1, <1>3, <1>4 DEF IsCall
<1> QED BY <1>1, <1>4, <1>5, <1>6

\* A call begun.
LEMMA Begun ==
  ASSUME BlobInv, NEW to, NEW of \in SUBSET Holders, NEW orig \in SUBSET Holders, NEW t, NEW ok,
         NEW then \in {"idle", "given"}, NEW r,
         r = [NotCalling EXCEPT !.pc = to, !.of = of, !.orig = orig, !.t = t, !.from = now, !.ok = ok, !.then = then],
         (to \in {"land", "place", "fork", "unlink", "given", "giving"} \/ then /= "idle")
           => \E s \in Holders : of = {s}
  PROVE  /\ IsCall(r) /\ r.pc = to /\ r.of = of /\ r.orig = orig /\ r.from = now /\ r.ok = ok /\ r.then = then
<1>1. PICK n : n = NotCalling OBVIOUS
<1>2. n = [k \in {"pc", "of", "orig", "t", "from", "ok", "then"} |-> n[k]]
  BY <1>1 DEF NotCalling
<1>3. /\ r = [k \in {"pc", "of", "orig", "t", "from", "ok", "then"} |-> r[k]]
      /\ r.pc = to /\ r.of = of /\ r.orig = orig /\ r.from = now /\ r.ok = ok /\ r.then = then
  BY <1>1, <1>2
<1>4. now \in Nat BY DEF BlobInv, BlobTypes
<1> QED BY <1>3, <1>4 DEF IsCall

-----------------------------------------------------------------------------
(* Storing a blob.                                                         *)

LEMMA PutStatKeeps ==
  ASSUME BlobInv, NEW c \in Callers, PutStat(c) PROVE BlobInv'
<1>1. PICK r : /\ call' = [call EXCEPT ![c] = r] /\ IsCall(r)
               /\ r.pc = IF IsHeld(blob) THEN "freshen" ELSE "link"
               /\ r.from = call[c].from
  BY GoesTo DEF PutStat
<1>2. CallOK(r)'
  BY <1>1, CallFacts DEF PutStat, CallOK, StoredSince
<1>3. BlobQuietStep
  BY DEF BlobQuietStep, PutStat, history
<1> QED BY <1>1, <1>2, <1>3, QuietStepKeeps

LEMMA PutFreshenKeeps ==
  ASSUME BlobInv, NEW c \in Callers, PutFreshen(c) PROVE BlobInv'
<1>1. PICK r : /\ call' = [call EXCEPT ![c] = r] /\ IsCall(r)
               /\ r.pc = "again" /\ r.from = call[c].from
  BY GoesTo DEF PutFreshen
<1>2. blob' \in {blob, now} /\ (~IsHeld(blob') \/ blob' = now)
  BY CallFacts DEF PutFreshen, Freshened, IsHeld
<1>3. CallOK(r)'
  BY <1>1, <1>2, CallFacts DEF PutFreshen, CallOK, StoredSince
<1>4. BlobQuietStep
  BY <1>2 DEF BlobQuietStep, PutFreshen, history, GuardFree
<1> QED BY <1>1, <1>3, <1>4, QuietStepKeeps

LEMMA PutAgainKeeps ==
  ASSUME BlobInv, NEW c \in Callers, PutAgain(c) PROVE BlobInv'
<1>1. PICK r : /\ call' = [call EXCEPT ![c] = r] /\ IsCall(r)
               /\ r.pc = IF IsHeld(blob) THEN "typed" ELSE "link"
               /\ r.from = call[c].from
  BY GoesTo DEF PutAgain
<1>2. CallOK(r)'
  BY <1>1, CallFacts DEF PutAgain, CallOK, StoredSince
<1>3. BlobQuietStep
  BY DEF BlobQuietStep, PutAgain, history
<1> QED BY <1>1, <1>2, <1>3, QuietStepKeeps

LEMMA PutLinkKeeps ==
  ASSUME BlobInv, NEW c \in Callers, PutLink(c) PROVE BlobInv'
<1>1. PICK r : /\ call' = [call EXCEPT ![c] = r] /\ IsCall(r)
               /\ r.pc = "typed" /\ r.from = call[c].from
  BY GoesTo DEF PutLink
<1>2. blob' = IF IsHeld(blob) THEN blob ELSE now
  BY DEF PutLink
<1>3. CallOK(r)'
  BY <1>1, <1>2, CallFacts DEF PutLink, CallOK, StoredSince, IsHeld, Never
<1>4. BlobQuietStep
  <2>1. sweep.pc \in {"type", "blob"} => blob' = blob
    BY <1>2, CallFacts DEF SweepOK
  <2> QED BY <1>2, <2>1 DEF BlobQuietStep, PutLink, history
<1> QED BY <1>1, <1>3, <1>4, QuietStepKeeps

LEMMA PutTypedBlobKeeps ==
  ASSUME BlobInv, NEW c \in Callers, PutTypedBlob(c) PROVE BlobInv'
<1>1. PICK t \in Media \cup {Untyped} : Called(c, "stat", {}, t)
  BY DEF PutTypedBlob
<1>2. PICK r : r = [NotCalling EXCEPT !.pc = "stat", !.of = {}, !.t = t, !.from = now]
  OBVIOUS
<1>3. IsCall(r) /\ r.pc = "stat" /\ r.from = now
  BY <1>2, CallFacts DEF NotCalling, IsCall
<1>4. call' = [call EXCEPT ![c] = r]
  BY <1>1, <1>2 DEF Called
<1>5. CallOK(r)'
  BY <1>3, CallFacts DEF PutTypedBlob, CallOK, Grace
<1>6. BlobQuietStep
  BY DEF BlobQuietStep, PutTypedBlob, history
<1> QED BY <1>3, <1>4, <1>5, <1>6, QuietStepKeeps

-----------------------------------------------------------------------------
(* A put returns: the blob was stored since the put began.                 *)

LEMMA StoredKeeps ==
  ASSUME BlobInv, NEW c \in Callers, Stored(c), call[c].pc /= "idle",
         UNCHANGED <<kind, now, held, ownTypes, sweep>>, undo' = undo \/ Synced,
         blob' \in {blob, now}, sweep.pc \in {"type", "blob"} => blob' = blob,
         IsHeld(blob'), call[c].from <= blob',
         type' = type \/ GuardFree
  PROVE  BlobInv'
<1>0. /\ call[c].from \in Nat /\ promise \in Int /\ blob' \in Int /\ now \in Nat
      /\ now <= call[c].from + Grace
  BY CallFacts DEF IsCall, CallOK, BlobInv, BlobTypes
<1>1. promise' \in Int /\ (promise' = promise \/ StoredSince(promise - Grace)')
  <2>0. PICK u : u = call[c].from + Grace
    OBVIOUS
  <2>1. promise' \in {promise, call[c].from + Grace}
    <3>1. u \in Int
      BY <1>0, <2>0 DEF Grace
    <3>2. promise' = Max({promise, u})
      BY <2>0 DEF Stored
    <3> QED BY <1>0, <2>0, <3>1, <3>2, MaxOfTwo
  <2>2. promise' = call[c].from + Grace => StoredSince(promise - Grace)'
    BY <1>0 DEF StoredSince, Grace
  <2> QED BY <1>0, <2>1, <2>2 DEF Grace
<1>2. PICK r : /\ call' = [call EXCEPT ![c] = r] /\ IsCall(r) /\ r.from <= now
               /\ r.pc \in {"idle", "given"} /\ (r.pc = "given" => r.from = call[c].from)
  <2>1. CASE call[c].then = "idle"
    <3>1. IsCall(NotCalling) /\ NotCalling.pc = "idle" /\ NotCalling.from = 0
      BY DEF IsCall, NotCalling
    <3> QED BY <1>0, <2>1, <3>1 DEF Stored, Done
  <2>2. CASE call[c].then /= "idle"
    <3>1. PICK b : b = call[c] OBVIOUS
    <3>2. PICK r : r = [b EXCEPT !.pc = b.then, !.then = "idle"] OBVIOUS
    <3>3. IsCall(b) /\ b.then = "given" /\ CallOK(b)
      BY <2>2, <3>1, CallFacts DEF IsCall
    <3>4. /\ r = [k \in {"pc", "of", "orig", "t", "from", "ok", "then"} |-> r[k]]
          /\ r.pc = "given" /\ r.of = b.of /\ r.orig = b.orig /\ r.from = b.from /\ r.then = "idle"
      BY <3>2, <3>3 DEF IsCall
    <3>5. IsCall(r)
      BY <3>3, <3>4 DEF IsCall
    <3>6. call' = [call EXCEPT ![c] = r]
      BY <2>2, <3>1, <3>2 DEF Stored
    <3>7. r.from <= now
      BY <3>1, <3>3, <3>4 DEF CallOK
    <3> QED BY <3>1, <3>4, <3>5, <3>6, <3>7
  <2> QED BY <2>1, <2>2
<1>3. CallOK(r)'
  BY <1>0, <1>2 DEF CallOK
<1>4. StoredSince(now - Grace)'
  BY <1>0 DEF StoredSince, Grace
<1>5. BlobCallStep(c, r)
  <2>1. counted \subseteq counted' /\ counted' \subseteq Holders
    BY CallFacts DEF Stored, IsCall
  <2>2. \A f \in counted' : NewlyCovered(f)
    BY <1>4 DEF NewlyCovered
  <2>3. lost' = lost
    BY DEF Stored
  <2> QED BY <1>1, <1>2, <2>1, <2>2, <2>3 DEF BlobCallStep
<1>6. SessionsStep
  <2>1. BlobTypes /\ CountedName /\ OwnOK
    BY DEF BlobInv
  <2>2. CountedName' /\ OwnOK'
    BY <2>1 DEF CountedName, OwnOK, Stored
  <2>3. given' = given
    BY DEF Stored
  <2> QED BY <2>1, <2>2, <2>3 DEF SessionsStep, BlobTypes
<1> QED BY <1>3, <1>5, <1>6, CallStepKeeps

LEMMA PutHasTypeKeeps ==
  ASSUME BlobInv, NEW c \in Callers, PutHasType(c) PROVE BlobInv'
<1>1. CASE Stored(c)
  <2>1. IsHeld(blob') /\ call[c].from <= blob' /\ call[c].pc /= "idle"
    BY CallFacts DEF PutHasType, CallOK, StoredSince
  <2> QED BY <1>1, <2>1, StoredKeeps DEF PutHasType
<1>2. CASE GoTo(c, "typing") /\ UNCHANGED history
  <2>1. PICK r : /\ call' = [call EXCEPT ![c] = r] /\ IsCall(r)
                 /\ r.pc = "typing" /\ r.from = call[c].from
    BY <1>2, GoesTo
  <2>2. CallOK(r)'
    BY <2>1, CallFacts DEF PutHasType, CallOK, StoredSince
  <2>3. BlobQuietStep
    BY <1>2 DEF BlobQuietStep, PutHasType, history
  <2> QED BY <2>1, <2>2, <2>3, QuietStepKeeps
<1> QED BY <1>1, <1>2 DEF PutHasType

LEMMA PutTypeKeeps ==
  ASSUME BlobInv, NEW c \in Callers, PutType(c) PROVE BlobInv'
<1>1. IsHeld(blob) /\ call[c].from <= blob /\ call[c].pc /= "idle"
  BY CallFacts DEF PutType, CallOK, StoredSince
<1>2. Stored(c) /\ Synced /\ blob' = blob
  BY <1>1 DEF PutType
<1> QED BY <1>1, <1>2, StoredKeeps DEF PutType

LEMMA PutAtOnceKeeps ==
  ASSUME BlobInv, NEW c \in Callers, PutAtOnce(c), ~Files PROVE BlobInv'
<1>1. sweep.pc = "idle" /\ GuardFree
  BY CallFacts DEF SweepOK, GuardFree
<1>2. blob' = now /\ IsHeld(now) /\ call[c].from <= now /\ call[c].pc /= "idle"
  BY CallFacts DEF PutAtOnce, CallOK, IsHeld, Never
<1> QED BY <1>1, <1>2, StoredKeeps DEF PutAtOnce

-----------------------------------------------------------------------------
(* Naming the blob.                                                        *)

\* What a session becomes that names the blob.
Naming(s, of) == held' = [held EXCEPT ![s] = [in |-> TRUE, names |-> TRUE, of |-> of]]

LEMMA NamingKeeps ==
  ASSUME BlobInv, NEW c \in Callers, NEW r, call' = [call EXCEPT ![c] = r], IsCall(r), CallOK(r)',
         NEW s \in Holders, NEW of \in SUBSET Holders, Naming(s, of),
         counted' \in {counted, counted \cup {s}},
         s \in counted' => (s \in counted /\ of = held[s].of) \/ NewlyCovered(s),
         given' = given \/ (~held[s].in /\ given' = [given EXCEPT ![s] = {}]),
         UNCHANGED <<kind, now, blob, type, ownTypes, sweep, undo, lost, promise, raced>>
  PROVE  BlobInv'
<1>0. BlobTypes /\ CountedName /\ OwnOK
  BY DEF BlobInv
<1>1. PICK h : h = [in |-> TRUE, names |-> TRUE, of |-> of]
  OBVIOUS
<1>2. h.in /\ h.names /\ h.of = of /\ IsSession(h)
  BY <1>1 DEF IsSession
<1>3. held' = [held EXCEPT ![s] = h]
  BY <1>1 DEF Naming
<1>4. held'[s] = h /\ \A f \in Holders \ {s} : held'[f] = held[f]
  BY <1>0, <1>3 DEF BlobTypes
<1>5. BlobCallStep(c, r)
  <2>1. \A f \in counted' : (f \in counted /\ held'[f].of = held[f].of) \/ NewlyCovered(f)
    BY <1>0, <1>2, <1>4 DEF BlobTypes
  <2> QED BY <1>0, <2>1 DEF BlobCallStep, BlobTypes
<1>6. SessionsStep
  <2>1. held' = [f \in Holders |-> held'[f]] /\ \A f \in Holders : IsSession(held'[f])
    BY <1>0, <1>2, <1>3, <1>4 DEF BlobTypes
  <2>2. CountedName'
    BY <1>0, <1>2, <1>4 DEF BlobTypes, CountedName
  <2>3. OwnOK'
    <3> SUFFICES ASSUME NEW f \in Holders \ raced
                 PROVE  IF held'[f].in THEN ownTypes[f] \in given'[f] \cup {Untyped} ELSE ownTypes[f] = Untyped
      BY DEF OwnOK
    <3>1. CASE f /= s
      <4>1. given'[f] = given[f]
        BY <1>0, <3>1 DEF BlobTypes
      <4> QED BY <1>0, <1>4, <3>1, <4>1 DEF OwnOK
    <3>2. CASE f = s
      BY <1>0, <1>2, <1>4, <3>2 DEF OwnOK
    <3> QED BY <3>1, <3>2
  <2>4. given' = [f \in Holders |-> given'[f]]
    BY <1>0 DEF BlobTypes
  <2> QED BY <1>0, <2>1, <2>2, <2>3, <2>4 DEF SessionsStep, BlobTypes
<1> QED BY <1>5, <1>6, CallStepKeeps

LEMMA DoneIs ==
  ASSUME NEW c \in Callers, Done(c)
  PROVE  \E r : call' = [call EXCEPT ![c] = r] /\ IsCall(r) /\ CallOK(r)' /\ r.pc = "idle"
<1>1. PICK r : r = NotCalling OBVIOUS
<1>2. IsCall(r) /\ r.pc = "idle"
  BY <1>1 DEF IsCall, NotCalling
<1>3. CallOK(r)'
  BY <1>2 DEF CallOK
<1> QED BY <1>1, <1>2, <1>3 DEF Done

LEMMA AppendFreshenKeeps ==
  ASSUME BlobInv, NEW c \in Callers, AppendFreshen(c) PROVE BlobInv'
<1>1. PICK s \in Holders :
        call' = [call EXCEPT ![c] = [NotCalling EXCEPT !.pc = "land", !.of = {s}, !.from = now,
                                                !.ok = IsHeld(blob)]]
  BY DEF AppendFreshen
<1>2. PICK r : r = [NotCalling EXCEPT !.pc = "land", !.of = {s}, !.from = now, !.ok = IsHeld(blob)]
  OBVIOUS
<1>3. IsCall(r) /\ r.pc = "land" /\ r.from = now /\ (r.ok <=> IsHeld(blob))
  BY <1>2, CallFacts DEF NotCalling, IsCall
<1>4. blob' \in {blob, now} /\ (IsHeld(blob) => blob' = now)
  BY CallFacts DEF AppendFreshen, Freshened, IsHeld
<1>5. CallOK(r)'
  BY <1>3, <1>4, CallFacts DEF AppendFreshen, CallOK, Grace, StoredSince, IsHeld, Never
<1>6. BlobQuietStep
  BY <1>4 DEF BlobQuietStep, AppendFreshen, history, GuardFree
<1> QED BY <1>1, <1>2, <1>3, <1>5, <1>6, QuietStepKeeps

\* A call that freshened the blob finds it in its grace.
LEMMA LandingStored ==
  ASSUME BlobInv, NEW c \in Callers, call[c].pc \in {"land", "place"}, call[c].ok, blob' = blob, now' = now
  PROVE  StoredSince(now - Grace)'
<1>1. CallOK(call[c]) /\ call[c].from \in Nat /\ now \in Nat /\ blob \in Int
  BY CallFacts DEF IsCall
<1> QED BY <1>1 DEF CallOK, StoredSince, Grace

\* The session a call is on.
LEMMA CallOn ==
  ASSUME BlobInv, NEW c \in Callers,
         call[c].pc \in {"land", "place", "fork", "unlink", "given", "giving"}
  PROVE  On(c) \in Holders /\ call[c].of = {On(c)}
<1>1. PICK s \in Holders : call[c].of = {s}
  BY CallFacts DEF IsCall
<1> QED BY <1>1, OnIs

LEMMA SessionFacts ==
  ASSUME BlobInv, NEW s \in Holders
  PROVE  /\ IsSession(held[s]) /\ held[s].of \in SUBSET Holders
         /\ ~held[s].in => s \notin counted
BY DEF BlobInv, BlobTypes, IsSession, CountedName

LEMMA AppendLandKeeps ==
  ASSUME BlobInv, NEW c \in Callers, AppendLand(c) PROVE BlobInv'
<1>1. PICK s \in Holders : s = On(c)
  BY CallOn DEF AppendLand
<1>2. PICK r : call' = [call EXCEPT ![c] = r] /\ IsCall(r) /\ CallOK(r)'
  BY DoneIs DEF AppendLand
<1>3. Naming(s, held[s].of) /\ counted' = IF call[c].ok THEN counted \cup {s} ELSE counted
  BY <1>1 DEF AppendLand, NamesNow, Naming
<1>4. s \in counted' => s \in counted \/ NewlyCovered(s)
  BY <1>3, LandingStored DEF AppendLand, NewlyCovered
<1> QED BY <1>2, <1>3, <1>4, SessionFacts, NamingKeeps DEF AppendLand

LEMMA AppendAtOnceKeeps ==
  ASSUME BlobInv, NEW c \in Callers, AppendAtOnce(c), ~Files PROVE BlobInv'
<1>1. PICK s \in Holders : NamesNow(s, held[s].of, IsHeld(blob))
  BY DEF AppendAtOnce
<1>2. Naming(s, held[s].of) /\ counted' = IF IsHeld(blob) THEN counted \cup {s} ELSE counted
  BY <1>1 DEF NamesNow, Naming
<1>3. PICK r : r = call[c] OBVIOUS
<1>4. call' = [call EXCEPT ![c] = r] /\ IsCall(r) /\ CallOK(r)
  BY <1>3, CallFacts DEF AppendAtOnce
<1>5. CallOK(r)'
  BY <1>2, <1>4, CallKept DEF AppendAtOnce
<1>6. s \in counted' => s \in counted \/ NewlyCovered(s)
  BY <1>2, CallFacts DEF AppendAtOnce, NewlyCovered, SweepOK
<1> QED BY <1>2, <1>4, <1>5, <1>6, SessionFacts, NamingKeeps DEF AppendAtOnce

LEMMA CreateBareKeeps ==
  ASSUME BlobInv, NEW c \in Callers, CreateBare(c) PROVE BlobInv'
<1>0. BlobTypes /\ CountedName /\ OwnOK
  BY DEF BlobInv
<1>1. PICK s \in Holders :
        /\ ~held[s].in
        /\ held' = [held EXCEPT ![s] = [Nowhere EXCEPT !.in = TRUE]]
        /\ given' = [given EXCEPT ![s] = {}]
  BY DEF CreateBare
<1>2. PICK h : h = [Nowhere EXCEPT !.in = TRUE]
  OBVIOUS
<1>3. h.in /\ h.of = {} /\ IsSession(h)
  BY <1>2 DEF Nowhere, IsSession
<1>4. held' = [held EXCEPT ![s] = h] /\ held'[s] = h /\ \A f \in Holders \ {s} : held'[f] = held[f]
  BY <1>0, <1>1, <1>2 DEF BlobTypes
<1>5. PICK r : r = call[c] OBVIOUS
<1>6. call' = [call EXCEPT ![c] = r] /\ IsCall(r) /\ CallOK(r)
  BY <1>5, CallFacts DEF CreateBare
<1>7. CallOK(r)'
  BY <1>6, CallKept DEF CreateBare
<1>8. s \notin counted /\ counted' = counted
  BY <1>1, SessionFacts DEF CreateBare
<1>9. BlobCallStep(c, r)
  <2>1. \A f \in counted' : f \in counted /\ held'[f].of = held[f].of
    BY <1>0, <1>4, <1>8 DEF BlobTypes
  <2> QED BY <1>0, <1>6, <1>8, <2>1 DEF BlobCallStep, CreateBare, BlobTypes
<1>10. SessionsStep
  <2>1. held' = [f \in Holders |-> held'[f]] /\ \A f \in Holders : IsSession(held'[f])
    BY <1>0, <1>3, <1>4 DEF BlobTypes
  <2>2. CountedName'
    BY <1>0, <1>4, <1>8 DEF BlobTypes, CountedName
  <2>3. given' = [f \in Holders |-> given'[f]] /\ \A f \in Holders \ {s} : given'[f] = given[f]
    BY <1>0, <1>1 DEF BlobTypes
  <2>4. OwnOK'
    <3>1. ownTypes[s] = Untyped \/ s \in raced
      BY <1>0, <1>1 DEF OwnOK
    <3> QED BY <1>0, <1>3, <1>4, <2>3, <3>1 DEF OwnOK, CreateBare
  <2> QED BY <1>0, <2>1, <2>2, <2>3, <2>4 DEF SessionsStep, BlobTypes, CreateBare
<1> QED BY <1>7, <1>9, <1>10, CallStepKeeps

LEMMA ImportFreshenKeeps ==
  ASSUME BlobInv, NEW c \in Callers, ImportFreshen(c) PROVE BlobInv'
<1>1. PICK s \in Holders, t \in OwnMedia \cup {Untyped} :
        call' = [call EXCEPT ![c] = [NotCalling EXCEPT !.pc = "place", !.of = {s}, !.from = now, !.t = t,
                  !.ok = IsHeld(blob), !.then = IF t = Untyped THEN "idle" ELSE "given"]]
  BY DEF ImportFreshen
<1>2. PICK r : r = [NotCalling EXCEPT !.pc = "place", !.of = {s}, !.from = now, !.t = t,
                      !.ok = IsHeld(blob), !.then = IF t = Untyped THEN "idle" ELSE "given"]
  OBVIOUS
<1>3. IsCall(r) /\ r.pc = "place" /\ r.from = now /\ (r.ok <=> IsHeld(blob))
  BY <1>2, CallFacts DEF NotCalling, IsCall
<1>4. blob' \in {blob, now} /\ (IsHeld(blob) => blob' = now)
  BY CallFacts DEF ImportFreshen, Freshened, IsHeld
<1>5. CallOK(r)'
  BY <1>3, <1>4, CallFacts DEF ImportFreshen, CallOK, Grace, StoredSince, IsHeld, Never
<1>6. BlobQuietStep
  BY <1>4 DEF BlobQuietStep, ImportFreshen, history, GuardFree
<1> QED BY <1>1, <1>2, <1>3, <1>5, <1>6, QuietStepKeeps

\* A step at which a call returns and nothing else happens.
LEMMA DoneKeeps ==
  ASSUME BlobInv, NEW c \in Callers, Done(c), BlobQuietStep PROVE BlobInv'
BY DoneIs, QuietStepKeeps

LEMMA ImportPlaceKeeps ==
  ASSUME BlobInv, NEW c \in Callers, ImportPlace(c) PROVE BlobInv'
<1>1. PICK s \in Holders : s = On(c)
  BY CallOn DEF ImportPlace
<1>2. CASE held[s].in
  <2>1. Done(c) /\ BlobQuietStep
    BY <1>1, <1>2 DEF ImportPlace, Imported, BlobQuietStep
  <2> QED BY <2>1, DoneKeeps
<1>3. CASE ~held[s].in
  <2>1. /\ Naming(s, {}) /\ counted' = IF call[c].ok THEN counted \cup {s} ELSE counted
        /\ given' = [given EXCEPT ![s] = {}]
        /\ IF call[c].then = "idle" THEN Done(c) ELSE GoTo(c, "stat")
    BY <1>1, <1>3 DEF ImportPlace, Imported, NamesNow, Naming
  <2>2. PICK r : call' = [call EXCEPT ![c] = r] /\ IsCall(r) /\ CallOK(r)'
    <3>1. CASE Done(c)
      BY <3>1, DoneIs
    <3>2. CASE GoTo(c, "stat")
      <4>1. PICK r : /\ call' = [call EXCEPT ![c] = r] /\ IsCall(r)
                     /\ r.pc = "stat" /\ r.from = call[c].from
        BY <3>2, GoesTo
      <4>2. CallOK(r)'
        BY <4>1, CallFacts DEF ImportPlace, CallOK
      <4> QED BY <4>1, <4>2
    <3> QED BY <2>1, <3>1, <3>2
  <2>3. s \in counted' => NewlyCovered(s)
    BY <1>3, <2>1, LandingStored, SessionFacts DEF ImportPlace, NewlyCovered
  <2> QED BY <1>3, <2>1, <2>2, <2>3, NamingKeeps DEF ImportPlace
<1> QED BY <1>2, <1>3

LEMMA ImportAtOnceKeeps ==
  ASSUME BlobInv, NEW c \in Callers, ImportAtOnce(c), ~Files PROVE BlobInv'
<1>1. PICK s \in Holders, t \in OwnMedia \cup {Untyped} :
        /\ ~held[s].in
        /\ NamesNow(s, {}, IsHeld(blob))
        /\ given' = [given EXCEPT ![s] = {}]
        /\ call' = IF t = Untyped THEN call
                   ELSE [call EXCEPT ![c] = [NotCalling EXCEPT !.pc = "stat", !.of = {s}, !.t = t,
                                               !.from = now, !.then = "given"]]
  BY DEF ImportAtOnce
<1>2. Naming(s, {}) /\ counted' = IF IsHeld(blob) THEN counted \cup {s} ELSE counted
  BY <1>1 DEF NamesNow, Naming
<1>3. PICK r : call' = [call EXCEPT ![c] = r] /\ IsCall(r) /\ CallOK(r)'
  <2>1. CASE t = Untyped
    <3>1. PICK r : r = call[c] OBVIOUS
    <3>2. call' = [call EXCEPT ![c] = r] /\ IsCall(r) /\ CallOK(r)
      BY <1>1, <2>1, <3>1, CallFacts
    <3>3. CallOK(r)'
      BY <1>2, <3>2, CallKept DEF ImportAtOnce
    <3> QED BY <3>2, <3>3
  <2>2. CASE t /= Untyped
    <3>1. PICK r : r = [NotCalling EXCEPT !.pc = "stat", !.of = {s}, !.t = t, !.from = now, !.then = "given"]
      OBVIOUS
    <3>2. IsCall(r) /\ r.pc = "stat" /\ r.from = now
      BY <3>1, CallFacts DEF NotCalling, IsCall
    <3>3. CallOK(r)'
      BY <3>2, CallFacts DEF ImportAtOnce, CallOK, Grace
    <3> QED BY <1>1, <2>2, <3>1, <3>2, <3>3
  <2> QED BY <2>1, <2>2
<1>4. s \in counted' => NewlyCovered(s)
  BY <1>1, <1>2, CallFacts, SessionFacts DEF ImportAtOnce, NewlyCovered, SweepOK
<1> QED BY <1>1, <1>2, <1>3, <1>4, NamingKeeps DEF ImportAtOnce

LEMMA ForkReadKeeps ==
  ASSUME BlobInv, NEW c \in Callers, ForkRead(c) PROVE BlobInv'
<1>1. PICK o \in Holders, s \in Holders :
        call' = [call EXCEPT ![c] = [NotCalling EXCEPT !.pc = "fork", !.of = {s}, !.orig = {o},
                                       !.from = now, !.ok = o \in counted]]
  BY DEF ForkRead
<1>2. PICK r : r = [NotCalling EXCEPT !.pc = "fork", !.of = {s}, !.orig = {o}, !.from = now, !.ok = o \in counted]
  OBVIOUS
<1>3. IsCall(r) /\ r.pc = "fork" /\ r.from = now /\ r.orig = {o} /\ (r.ok <=> o \in counted)
  BY <1>2, CallFacts DEF NotCalling, IsCall
<1>4. BlobQuietStep
  BY DEF BlobQuietStep, ForkRead, history
<1>5. CallOK(r)'
  BY <1>3, <1>4, CallFacts DEF BlobQuietStep, CallOK, Grace
<1> QED BY <1>1, <1>2, <1>3, <1>4, <1>5, QuietStepKeeps

LEMMA ForkPlaceKeeps ==
  ASSUME BlobInv, NEW c \in Callers, ForkPlace(c) PROVE BlobInv'
<1>1. PICK s \in Holders : s = On(c)
  BY CallOn DEF ForkPlace
<1>2. CASE UNCHANGED <<held, counted, given>>
  <2>1. Done(c) /\ BlobQuietStep
    BY <1>2 DEF ForkPlace, BlobQuietStep
  <2> QED BY <2>1, DoneKeeps
<1>3. CASE /\ ~held[s].in /\ given' = [given EXCEPT ![s] = {}]
           /\ NamesNow(s, Descent(call[c].orig),
                       IF kind = "memory" THEN call[c].orig \subseteq counted ELSE call[c].ok)
  <2>1. PICK of : of = Descent(call[c].orig) OBVIOUS
  <2>2. Naming(s, of)
    BY <1>3, <2>1 DEF NamesNow, Naming
  <2>3. counted' \in {counted, counted \cup {s}} /\ (counted' = counted \/ call[c].orig \subseteq counted)
    BY <1>3, CallFacts DEF NamesNow, CallOK, ForkPlace
  <2>4. call[c].orig \subseteq Holders /\ call[c].orig /= {}
    BY CallFacts DEF ForkPlace, CallOK, IsCall
  <2>5. of \in SUBSET Holders /\ call[c].orig \subseteq of /\ \A o \in call[c].orig : held[o].of \subseteq of
    BY <2>1, <2>4, SessionFacts DEF Descent
  <2>6. held'[s].of = of
    BY <2>2 DEF Naming, BlobInv, BlobTypes
  <2>7. s \in counted' => NewlyCovered(s)
    BY <1>3, <2>3, <2>4, <2>5, <2>6, SessionFacts DEF NewlyCovered
  <2>8. PICK r : call' = [call EXCEPT ![c] = r] /\ IsCall(r) /\ CallOK(r)'
    BY DoneIs DEF ForkPlace
  <2> QED BY <1>3, <2>2, <2>3, <2>5, <2>7, <2>8, NamingKeeps DEF ForkPlace
<1> QED BY <1>1, <1>2, <1>3 DEF ForkPlace

-----------------------------------------------------------------------------
(* A session's own types, and its deletion.                                *)

LEMMA SetSessionBlobTypesKeeps ==
  ASSUME BlobInv, NEW c \in Callers, SetSessionBlobTypes(c) PROVE BlobInv'
<1>1. PICK s \in Holders, t \in OwnMedia : Called(c, "given", {s}, t)
  BY DEF SetSessionBlobTypes
<1>2. PICK r : r = [NotCalling EXCEPT !.pc = "given", !.of = {s}, !.t = t, !.from = now]
  OBVIOUS
<1>3. IsCall(r) /\ r.pc = "given" /\ r.from = now
  BY <1>2, CallFacts DEF NotCalling, IsCall
<1>4. call' = [call EXCEPT ![c] = r]
  BY <1>1, <1>2 DEF Called
<1>5. CallOK(r)'
  BY <1>3, CallFacts DEF SetSessionBlobTypes, CallOK, Grace
<1>6. BlobQuietStep
  BY DEF BlobQuietStep, SetSessionBlobTypes, history
<1> QED BY <1>3, <1>4, <1>5, <1>6, QuietStepKeeps

LEMMA TypesFindKeeps ==
  ASSUME BlobInv, NEW c \in Callers, TypesFind(c) PROVE BlobInv'
<1>1. BlobQuietStep
  BY DEF BlobQuietStep, TypesFind, history
<1>2. CASE Done(c)
  BY <1>1, <1>2, DoneKeeps
<1>3. CASE GoTo(c, "giving")
  <2>1. \E s \in Holders : call[c].of = {s}
    BY CallOn DEF TypesFind
  <2>2. PICK r : /\ call' = [call EXCEPT ![c] = r] /\ IsCall(r)
                 /\ r.pc = "giving" /\ r.from = call[c].from
    BY <1>3, <2>1, GoesTo
  <2>3. CallOK(r)'
    BY <1>1, <2>2, CallFacts DEF BlobQuietStep, TypesFind, CallOK
  <2> QED BY <1>1, <2>2, <2>3, QuietStepKeeps
<1> QED BY <1>2, <1>3 DEF TypesFind

\* A step that only gives or takes sessions' types.
LEMMA TypingKeeps ==
  ASSUME BlobInv, NEW c \in Callers, NEW r, call' = [call EXCEPT ![c] = r], IsCall(r), CallOK(r)',
         UNCHANGED <<kind, now, blob, type, held, sweep, undo, lost, counted, promise>>,
         ownTypes' = [s \in Holders |-> ownTypes'[s]], given' = [s \in Holders |-> given'[s]], OwnOK'
  PROVE  BlobInv'
<1>1. BlobCallStep(c, r)
  BY DEF BlobCallStep, BlobInv, BlobTypes
<1>2. SessionsStep
  <2>1. BlobTypes /\ CountedName
    BY DEF BlobInv
  <2>2. CountedName'
    BY <2>1 DEF CountedName
  <2> QED BY <2>1, <2>2 DEF SessionsStep, BlobTypes
<1> QED BY <1>1, <1>2, CallStepKeeps

LEMMA GivingKeeps ==
  ASSUME BlobInv, NEW c \in Callers, NEW s \in Holders, Gives(c, s), Done(c),
         UNCHANGED <<kind, now, blob, type, held, sweep, undo, lost, counted, promise>>
  PROVE  BlobInv'
<1>0. BlobTypes /\ OwnOK
  BY DEF BlobInv
<1>1. PICK r : call' = [call EXCEPT ![c] = r] /\ IsCall(r) /\ CallOK(r)'
  BY DoneIs
<1>2. PICK t : t = call[c].t OBVIOUS
<1>3. /\ ownTypes' = [f \in Holders |-> ownTypes'[f]] /\ given' = [f \in Holders |-> given'[f]]
      /\ \A f \in Holders \ {s} : ownTypes'[f] = ownTypes[f] /\ given'[f] = given[f]
      /\ ownTypes'[s] = IF ownTypes[s] = Untyped THEN t ELSE ownTypes[s]
      /\ given'[s] = given[s] \cup {t}
  BY <1>0, <1>2 DEF Gives, BlobTypes
<1>4. OwnOK'
  <2> SUFFICES ASSUME NEW f \in Holders \ raced'
               PROVE  IF held[f].in THEN ownTypes'[f] \in given'[f] \cup {Untyped} ELSE ownTypes'[f] = Untyped
    BY DEF OwnOK
  <2>1. f \notin raced /\ (f = s => held[s].in)
    BY DEF Gives
  <2> QED BY <1>0, <1>3, <2>1 DEF OwnOK
<1> QED BY <1>1, <1>3, <1>4, TypingKeeps

LEMMA TypesLinkKeeps ==
  ASSUME BlobInv, NEW c \in Callers, TypesLink(c) PROVE BlobInv'
BY CallOn, GivingKeeps DEF TypesLink

LEMMA TypesAtOnceKeeps ==
  ASSUME BlobInv, NEW c \in Callers, TypesAtOnce(c) PROVE BlobInv'
<1>1. CASE Gives(c, On(c))
  BY <1>1, CallOn, GivingKeeps DEF TypesAtOnce
<1>2. CASE UNCHANGED <<ownTypes, given, raced>>
  <2>1. BlobQuietStep
    BY <1>2 DEF TypesAtOnce, BlobQuietStep
  <2> QED BY <2>1, DoneKeeps DEF TypesAtOnce
<1> QED BY <1>1, <1>2 DEF TypesAtOnce

LEMMA DeleteTypesKeeps ==
  ASSUME BlobInv, NEW c \in Callers, DeleteTypes(c) PROVE BlobInv'
<1>0. BlobTypes /\ OwnOK
  BY DEF BlobInv
<1>1. PICK s \in Holders : ownTypes' = [ownTypes EXCEPT ![s] = Untyped] /\ Called(c, "unlink", {s}, Untyped)
  BY DEF DeleteTypes
<1>2. PICK r : r = [NotCalling EXCEPT !.pc = "unlink", !.of = {s}, !.t = Untyped, !.from = now]
  OBVIOUS
<1>3. IsCall(r) /\ r.pc = "unlink" /\ r.from = now
  BY <1>2, CallFacts DEF NotCalling, IsCall
<1>4. call' = [call EXCEPT ![c] = r]
  BY <1>1, <1>2 DEF Called
<1>5. CallOK(r)'
  BY <1>3, CallFacts DEF DeleteTypes, CallOK, Grace
<1>6. /\ ownTypes' = [f \in Holders |-> ownTypes'[f]]
      /\ ownTypes'[s] = Untyped /\ \A f \in Holders \ {s} : ownTypes'[f] = ownTypes[f]
  BY <1>0, <1>1 DEF BlobTypes
<1>7. UNCHANGED <<kind, now, blob, type, held, sweep, undo, lost, counted, promise, given, raced>>
  BY DEF DeleteTypes, history
<1>8. OwnOK'
  BY <1>0, <1>6, <1>7 DEF OwnOK
<1> QED BY <1>0, <1>3, <1>4, <1>5, <1>6, <1>7, <1>8, TypingKeeps DEF BlobTypes

\* A call under way when a session goes.
LEMMA UnrestedCall ==
  ASSUME BlobInv, NEW s \in Holders, Departs(s), NEW d \in Callers, now' = now, blob' = blob
  PROVE  \E q : q = Unrested(s)[d] /\ IsCall(q) /\ CallOK(q)'
<1>1. PICK b : b = call[d] OBVIOUS
<1>2. IsCall(b) /\ CallOK(b)
  BY <1>1, CallFacts
<1>3. CASE b.orig \cap ({s} \cup Rested(s)) = {}
  <2>1. Unrested(s)[d] = b
    BY <1>1, <1>3 DEF Unrested
  <2>2. b.orig \subseteq counted => b.orig \subseteq counted'
    BY <1>3 DEF Departs
  <2>3. CallOK(b)'
    BY <1>2, <2>2 DEF CallOK, StoredSince
  <2> QED BY <1>2, <2>1, <2>3
<1>4. CASE b.orig \cap ({s} \cup Rested(s)) /= {}
  <2>1. PICK q : q = [b EXCEPT !.ok = FALSE] OBVIOUS
  <2>2. Unrested(s)[d] = q
    BY <1>1, <1>4, <2>1 DEF Unrested
  <2>3. /\ q = [k \in {"pc", "of", "orig", "t", "from", "ok", "then"} |-> q[k]]
        /\ q.pc = b.pc /\ q.of = b.of /\ q.orig = b.orig /\ q.from = b.from /\ q.then = b.then /\ ~q.ok
    BY <1>2, <2>1 DEF IsCall
  <2>4. IsCall(q)
    BY <1>2, <2>3 DEF IsCall
  <2>5. CallOK(q)'
    BY <1>2, <2>3 DEF CallOK, StoredSince
  <2> QED BY <2>2, <2>4, <2>5
<1> QED BY <1>3, <1>4

LEMMA DepartureKeeps ==
  ASSUME BlobInv, NEW c \in Callers, NEW s \in Holders, Departs(s),
         call' = Unrested(s) \/ call' = [Unrested(s) EXCEPT ![c] = NotCalling],
         UNCHANGED <<kind, now, blob, type, sweep, undo, lost, promise, given>>,
         ownTypes' = [f \in Holders |-> ownTypes'[f]], OwnOK'
  PROVE  BlobInv'
<1>0. BlobTypes /\ SweepOK /\ CountedName /\ NamedBlobsStay /\ PromiseOK /\ NoStrayTypes
  BY DEF BlobInv
<1>1. /\ held' = [f \in Holders |-> held'[f]]
      /\ held'[s] = Nowhere /\ \A f \in Holders \ {s} : held'[f] = held[f]
  BY <1>0 DEF Departs, BlobTypes
<1>2. counted' \subseteq counted \ {s}
  BY DEF Departs
<1>3. ASSUME NEW d \in Callers PROVE IsCall(call'[d]) /\ CallOK(call[d])'
  <2>1. PICK q : q = Unrested(s)[d] /\ IsCall(q) /\ CallOK(q)'
    BY UnrestedCall
  <2>2. PICK r : r = NotCalling OBVIOUS
  <2>3. IsCall(r) /\ r.pc = "idle"
    BY <2>2 DEF IsCall, NotCalling
  <2>4. CallOK(r)'
    BY <2>3 DEF CallOK
  <2>5. call'[d] = q \/ call'[d] = r
    BY <2>1, <2>2 DEF Unrested
  <2> QED BY <2>1, <2>3, <2>4, <2>5 DEF CallOK, StoredSince
<1>4. BlobTypes'
  <2>1. call' = [d \in Callers |-> call'[d]]
    BY DEF Unrested
  <2>2. IsSession(Nowhere)
    BY DEF IsSession, Nowhere
  <2>3. \A f \in Holders : IsSession(held'[f])
    BY <1>0, <1>1, <2>2 DEF BlobTypes
  <2> QED BY <1>0, <1>1, <1>2, <1>3, <2>1, <2>3 DEF BlobTypes
<1>5. SweepOK'
  <2>1. ASSUME sweep.pc = "read", NEW f \in counted' PROVE Covered(f)'
    <3>1. f \in counted /\ f /= s /\ f \in Holders /\ held'[f] = held[f] /\ f \notin Rested(s)
      BY <1>0, <1>1, <1>2 DEF Departs, BlobTypes
    <3>2. Covered(f)
      BY <1>0, <2>1, <3>1 DEF SweepOK
    <3>3. CASE f \in sweep.listed \/ StoredSince(sweep.cutoff)
      BY <3>3 DEF Covered, StoredSince
    <3>4. CASE f \notin sweep.listed /\ held[f].of \cap sweep.listed \cap counted /= {}
      <4>1. PICK a : a \in held[f].of /\ a \in sweep.listed /\ a \in counted
        BY <3>4
      <4>2. s \notin held[f].of
        BY <2>1, <3>1, <3>4 DEF Rested
      <4>3. a \in counted'
        BY <4>1, <4>2 DEF Departs, Rested
      <4> QED BY <3>1, <4>1, <4>3 DEF Covered
    <3> QED BY <3>2, <3>3, <3>4 DEF Covered
  <2> QED BY <1>0, <1>2, <2>1 DEF SweepOK, StoredSince, Files
<1>6. CountedName' /\ NamedBlobsStay'
  BY <1>0, <1>1, <1>2 DEF CountedName, NamedBlobsStay, BlobTypes
<1>7. PromiseOK' /\ NoStrayTypes'
  BY <1>0 DEF PromiseOK, StoredSince, NoStrayTypes
<1> QED BY <1>3, <1>4, <1>5, <1>6, <1>7 DEF BlobInv

LEMMA DeleteFileKeeps ==
  ASSUME BlobInv, NEW c \in Callers, DeleteFile(c) PROVE BlobInv'
<1>0. BlobTypes /\ OwnOK
  BY DEF BlobInv
<1>1. PICK s \in Holders : s = On(c)
  BY CallOn DEF DeleteFile
<1>2. OwnOK'
  <2>1. held'[s].in = FALSE /\ \A f \in Holders \ {s} : held'[f] = held[f]
    BY <1>0, <1>1 DEF DeleteFile, Departs, BlobTypes, Nowhere
  <2>2. raced' = (IF ownTypes[s] = Untyped THEN raced ELSE raced \cup {s}) /\ ownTypes' = ownTypes /\ given' = given
    BY <1>1 DEF DeleteFile
  <2> QED BY <1>0, <2>1, <2>2 DEF OwnOK
<1> QED BY <1>0, <1>1, <1>2, DepartureKeeps DEF DeleteFile, BlobTypes

LEMMA DeleteAtOnceKeeps ==
  ASSUME BlobInv, NEW c \in Callers, DeleteAtOnce(c) PROVE BlobInv'
<1>0. BlobTypes /\ OwnOK
  BY DEF BlobInv
<1>1. PICK s \in Holders : /\ ownTypes' = [ownTypes EXCEPT ![s] = Untyped]
                           /\ Departs(s) /\ call' = Unrested(s)
  BY DEF DeleteAtOnce
<1>2. /\ ownTypes' = [f \in Holders |-> ownTypes'[f]]
      /\ ownTypes'[s] = Untyped /\ \A f \in Holders \ {s} : ownTypes'[f] = ownTypes[f]
  BY <1>0, <1>1 DEF BlobTypes
<1>3. OwnOK'
  <2>1. \A f \in Holders \ {s} : held'[f] = held[f]
    BY <1>0, <1>1 DEF Departs, BlobTypes
  <2>2. raced' = raced /\ given' = given
    BY DEF DeleteAtOnce
  <2> QED BY <1>0, <1>2, <2>1, <2>2 DEF OwnOK
<1> QED BY <1>1, <1>2, <1>3, DepartureKeeps DEF DeleteAtOnce

-----------------------------------------------------------------------------
(* The sweep, kills, power losses and time.                                *)

\* A step that leaves the calls and the sessions alone.
LEMMA SweepStepKeeps ==
  ASSUME BlobInv,
         UNCHANGED <<kind, now, held, ownTypes, call, history>>,
         blob' = blob \/ (blob' = Never /\ blob < now - Grace /\ counted = {} /\ (type' = NoType \/ lost)),
         type' = type \/ type' = NoType,
         undo' = undo \/ undo'.blob = blob \/ Synced,
         sweep' = [k \in {"pc", "cutoff", "old", "listed", "named"} |-> sweep'[k]], sweep'.cutoff \in Int,
         SweepOK'
  PROVE  BlobInv'
<1>0. BlobTypes /\ CountedName /\ NamedBlobsStay /\ PromiseOK /\ NoStrayTypes /\ OwnOK
  BY DEF BlobInv
<1>1. UNCHANGED <<lost, counted, promise, given, raced>>
  BY DEF history
<1>2. BlobTypes'
  BY <1>0, <1>1 DEF BlobTypes, Synced, Never
<1>3. ASSUME NEW d \in Callers PROVE CallOK(call[d])'
  <2>1. CallOK(call[d]) /\ IsCall(call[d])
    BY CallFacts
  <2>2. call[d].pc /= "idle" /\ blob' /= blob => ~StoredSince(call[d].from)
    BY <1>0, <2>1 DEF CallOK, IsCall, StoredSince, BlobTypes, Grace
  <2>3. blob' /= blob => ~IsHeld(blob')
    BY DEF IsHeld
  <2> QED BY <1>1, <2>1, <2>2, <2>3 DEF CallOK, StoredSince
<1>4. CountedName' /\ NamedBlobsStay' /\ NoStrayTypes' /\ OwnOK'
  BY <1>0, <1>1 DEF CountedName, NamedBlobsStay, NoStrayTypes, OwnOK, IsHeld
<1>5. PromiseOK'
  BY <1>0, <1>1 DEF PromiseOK, StoredSince, BlobTypes, Grace
<1> QED BY <1>2, <1>3, <1>4, <1>5 DEF BlobInv

LEMMA SweepFacts ==
  ASSUME BlobInv
  PROVE  /\ sweep = [k \in {"pc", "cutoff", "old", "listed", "named"} |-> sweep[k]]
         /\ sweep.cutoff \in Int /\ now \in Nat /\ blob \in Int /\ counted \subseteq Holders
         /\ SweepOK /\ CountedName /\ NamedBlobsStay /\ NoStrayTypes /\ PromiseOK
BY DEF BlobInv, BlobTypes

\* The sweep after it went on to another step.
LEMMA SweepGoes ==
  ASSUME BlobInv, NEW to, SweepTo(to)
  PROVE  /\ sweep' = [k \in {"pc", "cutoff", "old", "listed", "named"} |-> sweep'[k]]
         /\ sweep'.cutoff \in Int /\ sweep'.pc = to
         /\ to /= "idle" => /\ sweep'.cutoff = sweep.cutoff /\ sweep'.old = sweep.old
                            /\ sweep'.listed = sweep.listed /\ sweep'.named = sweep.named
<1>1. CASE to = "idle"
  <2>1. sweep' = NoSweep
    BY <1>1 DEF SweepTo
  <2> QED BY <1>1, <2>1 DEF NoSweep
<1>2. CASE to /= "idle"
  <2>1. sweep' = [sweep EXCEPT !.pc = to]
    BY <1>2 DEF SweepTo
  <2> QED BY <1>2, <2>1, SweepFacts
<1> QED BY <1>1, <1>2

\* A sweep on to a step before it reads the sessions, or over.
LEMMA SweepQuietKeeps ==
  ASSUME BlobInv, Files, sweep.pc /= "idle", NEW to \in {"strays", "list", "sync", "idle"}, SweepTo(to),
         UNCHANGED <<kind, now, held, ownTypes, call, history>>,
         blob' = blob \/ (blob' = Never /\ blob < now - Grace /\ counted = {} /\ (type' = NoType \/ lost)),
         type' = type \/ type' = NoType,
         undo' = undo \/ Synced
  PROVE  BlobInv'
<1>1. SweepOK'
  BY SweepFacts, SweepGoes DEF SweepOK, Files
<1> QED BY <1>1, SweepGoes, SweepStepKeeps

LEMMA SweepStartKeeps ==
  ASSUME BlobInv, Files, SweepStart PROVE BlobInv'
<1>1. PICK o : o = Old(blob, now - Grace) OBVIOUS
<1>2. PICK n : n = now - Grace OBVIOUS
<1>3. sweep' = [NoSweep EXCEPT !.pc = "types", !.cutoff = n, !.old = o]
  BY <1>1, <1>2 DEF SweepStart
<1>4. /\ sweep' = [k \in {"pc", "cutoff", "old", "listed", "named"} |-> sweep'[k]]
      /\ sweep'.pc = "types" /\ sweep'.cutoff = n
  BY <1>3 DEF NoSweep
<1>5. n \in Int /\ n + Grace <= now
  BY <1>2, SweepFacts DEF Grace
<1>6. SweepOK'
  BY <1>4, <1>5 DEF SweepOK, SweepStart, Files
<1> QED BY <1>4, <1>5, <1>6, SweepStepKeeps DEF SweepStart

LEMMA SweepTypesKeeps ==
  ASSUME BlobInv, Files, SweepTypes PROVE BlobInv'
<1>1. PICK to : /\ SweepTo(to)
                /\ to = IF ~IsHeld(blob) /\ Old(type.at, sweep.cutoff) THEN "strays" ELSE Onward
  BY DEF SweepTypes
<1>2. to \in {"strays", "list", "sync", "idle"}
  BY <1>1 DEF Onward
<1> QED BY <1>1, <1>2, SweepQuietKeeps DEF SweepTypes

LEMMA SweepStraysKeeps ==
  ASSUME BlobInv, Files, SweepStrays PROVE BlobInv'
<1>1. CASE IsHeld(blob)
  <2>1. PICK to : SweepTo(to) /\ to = Onward
    BY <1>1 DEF SweepStrays
  <2>2. to \in {"strays", "list", "sync", "idle"}
    BY <2>1 DEF Onward
  <2> QED BY <2>1, <2>2, SweepQuietKeeps DEF SweepStrays
<1>2. CASE ~IsHeld(blob)
  <2>1. SweepTo("stray")
    BY <1>2 DEF SweepStrays
  <2>2. type = NoType \/ lost
    BY <1>2, SweepFacts DEF NoStrayTypes
  <2>3. SweepOK'
    BY <2>1, <2>2, SweepFacts, SweepGoes DEF SweepOK, SweepStrays, Files, history
  <2> QED BY <2>1, <2>3, SweepGoes, SweepStepKeeps DEF SweepStrays
<1> QED BY <1>1, <1>2

LEMMA SweepStrayKeeps ==
  ASSUME BlobInv, Files, SweepStray PROVE BlobInv'
<1>1. PICK to : SweepTo(to) /\ to = Onward
  BY DEF SweepStray
<1>2. to \in {"strays", "list", "sync", "idle"}
  BY <1>1 DEF Onward
<1> QED BY <1>1, <1>2, SweepQuietKeeps DEF SweepStray

\* What counts on the blob when the sweep lists the sessions is listed.
LEMMA SweepListKeeps ==
  ASSUME BlobInv, Files, SweepList PROVE BlobInv'
<1>1. PICK L : L = {s \in Holders : held[s].in} OBVIOUS
<1>2. sweep' = [sweep EXCEPT !.pc = "read", !.listed = L]
  BY <1>1 DEF SweepList
<1>3. /\ sweep' = [k \in {"pc", "cutoff", "old", "listed", "named"} |-> sweep'[k]]
      /\ sweep'.pc = "read" /\ sweep'.cutoff = sweep.cutoff /\ sweep'.listed = L
  BY <1>2, SweepFacts
<1>4. \A f \in counted : f \in L
  BY <1>1, SweepFacts DEF CountedName
<1>5. SweepOK'
  BY <1>3, <1>4, SweepFacts DEF SweepOK, SweepList, Files, history, Covered
<1> QED BY <1>3, <1>5, SweepFacts, SweepStepKeeps DEF SweepList

\* A sweep that finds no session naming the blob: what counts on it freshened it.
LEMMA SweepReadKeeps ==
  ASSUME BlobInv, Files, SweepRead PROVE BlobInv'
<1>1. PICK n : n = \E s \in sweep.listed : held[s].names OBVIOUS
<1>2. sweep' = [sweep EXCEPT !.pc = "look", !.listed = {}, !.named = n]
  BY <1>1 DEF SweepRead
<1>3. /\ sweep' = [k \in {"pc", "cutoff", "old", "listed", "named"} |-> sweep'[k]]
      /\ sweep'.pc = "look" /\ sweep'.cutoff = sweep.cutoff /\ sweep'.named = n
  BY <1>2, SweepFacts
<1>4. ~n => counted = {} \/ StoredSince(sweep.cutoff)
  <2> SUFFICES ASSUME ~n, NEW f \in counted PROVE StoredSince(sweep.cutoff)
    OBVIOUS
  <2>1. Covered(f)
    BY SweepFacts DEF SweepOK, SweepRead
  <2>2. \A s \in counted : s \notin sweep.listed
    BY <1>1, SweepFacts DEF CountedName
  <2> QED BY <2>1, <2>2 DEF Covered
<1>5. SweepOK'
  BY <1>3, <1>4, SweepFacts DEF SweepOK, SweepRead, Files, history, StoredSince
<1> QED BY <1>3, <1>5, SweepFacts, SweepStepKeeps DEF SweepRead

LEMMA SweepLookKeeps ==
  ASSUME BlobInv, Files, SweepLook PROVE BlobInv'
<1>1. CASE sweep.named \/ ~Old(blob, sweep.cutoff)
  BY <1>1, SweepQuietKeeps DEF SweepLook
<1>2. CASE ~sweep.named /\ Old(blob, sweep.cutoff)
  <2>1. SweepTo("type")
    BY <1>2 DEF SweepLook
  <2>2. IsHeld(blob) /\ blob < sweep.cutoff
    BY <1>2 DEF Old, IsHeld
  <2>3. counted = {}
    BY <1>2, <2>2, SweepFacts DEF SweepLook, SweepOK, StoredSince
  <2>4. SweepOK'
    BY <2>1, <2>2, <2>3, SweepFacts, SweepGoes DEF SweepOK, SweepLook, Files, history
  <2> QED BY <2>1, <2>4, SweepGoes, SweepStepKeeps DEF SweepLook
<1> QED BY <1>1, <1>2

LEMMA SweepTypeKeeps ==
  ASSUME BlobInv, Files, SweepType PROVE BlobInv'
<1>1. SweepTo("blob") /\ undo'.blob = blob /\ type' = NoType
  BY DEF SweepType
<1>2. SweepOK'
  BY <1>1, SweepFacts, SweepGoes DEF SweepOK, SweepType, Files, history
<1> QED BY <1>1, <1>2, SweepGoes, SweepStepKeeps DEF SweepType

LEMMA SweepBlobKeeps ==
  ASSUME BlobInv, Files, SweepBlob PROVE BlobInv'
<1>1. blob < now - Grace /\ counted = {} /\ type' = NoType
  BY SweepFacts DEF SweepBlob, SweepOK, Grace
<1> QED BY <1>1, SweepQuietKeeps DEF SweepBlob

LEMMA SweepSyncKeeps ==
  ASSUME BlobInv, Files, SweepSync PROVE BlobInv'
BY SweepQuietKeeps DEF SweepSync

LEMMA SweepKilledKeeps ==
  ASSUME BlobInv, Files, SweepKilled PROVE BlobInv'
BY SweepQuietKeeps DEF SweepKilled

LEMMA SweepAtOnceKeeps ==
  ASSUME BlobInv, ~Files, SweepAtOnce PROVE BlobInv'
<1>1. blob < now - Grace /\ counted = {}
  BY SweepFacts DEF SweepAtOnce, Old, CountedName
<1>2. SweepOK'
  BY <1>1, SweepFacts DEF SweepOK, SweepAtOnce, Files
<1> QED BY <1>1, <1>2, SweepFacts, SweepStepKeeps DEF SweepAtOnce

LEMMA CallKilledKeeps ==
  ASSUME BlobInv, NEW c \in Callers, CallKilled(c) PROVE BlobInv'
<1>1. BlobQuietStep
  BY DEF BlobQuietStep, CallKilled, history
<1> QED BY <1>1, DoneKeeps DEF CallKilled

LEMMA PowerLostKeeps ==
  ASSUME BlobInv, PowerLost PROVE BlobInv'
<1>0. BlobTypes /\ CountedName /\ NamedBlobsStay /\ PromiseOK /\ OwnOK
  BY DEF BlobInv
<1>1. sweep' = NoSweep /\ Synced /\ lost' /\ UNCHANGED <<kind, now, held, ownTypes, counted, promise, given, raced>>
  BY DEF PowerLost
<1>2. blob' \in {blob, undo.blob} /\ (IsHeld(blob) => blob' = blob)
  BY DEF PowerLost
<1>3. PICK r : r = NotCalling OBVIOUS
<1>4. IsCall(r) /\ r.pc = "idle"
  BY <1>3 DEF IsCall, NotCalling
<1>5. call' = [c \in Callers |-> r]
  BY <1>3 DEF PowerLost
<1>6. BlobTypes'
  <2>1. call' = [c \in Callers |-> call'[c]] /\ \A c \in Callers : IsCall(call'[c])
    BY <1>4, <1>5
  <2>2. sweep' = [k \in {"pc", "cutoff", "old", "listed", "named"} |-> sweep'[k]] /\ sweep'.cutoff \in Int
    BY <1>1 DEF NoSweep
  <2>3. undo'.blob = Never
    BY <1>1 DEF Synced
  <2> QED BY <1>0, <1>1, <1>2, <2>1, <2>2, <2>3 DEF BlobTypes, Never
<1>7. \A c \in Callers : CallOK(call[c])'
  BY <1>4, <1>5 DEF CallOK
<1>8. SweepOK'
  BY <1>1 DEF SweepOK, NoSweep
<1>9. CountedName' /\ NamedBlobsStay' /\ PromiseOK' /\ NoStrayTypes' /\ OwnOK'
  BY <1>0, <1>1, <1>2 DEF CountedName, NamedBlobsStay, PromiseOK, StoredSince, NoStrayTypes, OwnOK
<1> QED BY <1>6, <1>7, <1>8, <1>9 DEF BlobInv

\* Time passes while no call has lasted its grace.
LEMMA TickKeeps ==
  ASSUME BlobInv, Tick PROVE BlobInv'
<1>0. BlobTypes /\ SweepOK /\ CountedName /\ NamedBlobsStay /\ PromiseOK /\ NoStrayTypes /\ OwnOK
  BY DEF BlobInv
<1>1. now' = now + 1 /\ UNCHANGED <<lost, counted, promise, given, raced>>
  BY DEF Tick, history
<1>2. BlobTypes'
  BY <1>0, <1>1 DEF BlobTypes, Tick, Never
<1>3. ASSUME NEW c \in Callers PROVE CallOK(call[c])'
  <2>1. CallOK(call[c]) /\ IsCall(call[c]) /\ (call[c].pc /= "idle" => call[c].from >= now)
    BY CallFacts DEF Tick
  <2> QED BY <1>0, <1>1, <2>1 DEF CallOK, IsCall, StoredSince, BlobTypes, Grace, Tick
<1>4. SweepOK'
  BY <1>0, <1>1 DEF SweepOK, Tick, BlobTypes, Grace, StoredSince, Covered, Files
<1>5. CountedName' /\ NamedBlobsStay' /\ NoStrayTypes' /\ OwnOK'
  BY <1>0, <1>1 DEF CountedName, NamedBlobsStay, NoStrayTypes, OwnOK, Tick
<1>6. PromiseOK'
  BY <1>0, <1>1 DEF PromiseOK, StoredSince, Tick, BlobTypes
<1> QED BY <1>2, <1>3, <1>4, <1>5, <1>6 DEF BlobInv

-----------------------------------------------------------------------------
(* The theorems.                                                           *)

LEMMA BlobInitInv == BlobInit => BlobInv
<1> SUFFICES ASSUME BlobInit PROVE BlobInv
  OBVIOUS
<1>1. PICK b \in {{}, {AnyOf(Holders)}}, names \in BOOLEAN, t \in OwnMedia \cup {Untyped} :
        /\ held = [s \in Holders |-> [in |-> s \in b, names |-> s \in b /\ names, of |-> {}]]
        /\ ownTypes = [s \in Holders |-> IF held[s].names THEN t ELSE Untyped]
  BY DEF BlobInit
<1>2. ASSUME NEW s \in Holders
      PROVE  /\ IsSession(held[s])
             /\ held[s].names => held[s].in
  <2>1. PICK i : i = (s \in b) OBVIOUS
  <2>2. PICK n : n = (s \in b /\ names) OBVIOUS
  <2>3. held[s] = [in |-> i, names |-> n, of |-> {}]
    BY <1>1, <2>1, <2>2
  <2>4. n => i
    BY <2>1, <2>2
  <2> QED BY <2>3, <2>4 DEF IsSession
<1>3. held = [s \in Holders |-> held[s]] /\ ownTypes = [s \in Holders |-> ownTypes[s]]
  BY <1>1
<1>4. PICK r : r = NotCalling OBVIOUS
<1>5. IsCall(r) /\ r.pc = "idle"
  BY <1>4 DEF IsCall, NotCalling
<1>6. call = [c \in Callers |-> r]
  BY <1>4 DEF BlobInit
<1>7. sweep = [k \in {"pc", "cutoff", "old", "listed", "named"} |-> sweep[k]]
      /\ sweep.cutoff \in Int /\ sweep.pc = "idle"
  BY DEF BlobInit, NoSweep
<1>8. undo.blob = Never
  BY DEF BlobInit
<1>9. now = 0 /\ blob \in {Never, 0} /\ promise = Never /\ lost = FALSE
      /\ given = [s \in Holders |-> {ownTypes[s]}]
      /\ counted = {s \in Holders : held[s].names /\ IsHeld(blob)}
  BY DEF BlobInit
<1>10. BlobTypes
  <2>1. call = [c \in Callers |-> call[c]] /\ \A c \in Callers : IsCall(call[c])
    BY <1>5, <1>6
  <2> QED BY <1>2, <1>3, <1>7, <1>8, <1>9, <2>1 DEF BlobTypes, Never
<1>11. \A c \in Callers : CallOK(call[c])
  BY <1>5, <1>6 DEF CallOK
<1>12. SweepOK
  BY <1>7 DEF SweepOK
<1>13. CountedName /\ NamedBlobsStay /\ PromiseOK
  BY <1>2, <1>9 DEF CountedName, NamedBlobsStay, PromiseOK, Never
<1>14. NoStrayTypes
  BY DEF BlobInit, NoStrayTypes, IsHeld
<1>15. OwnOK
  <2> SUFFICES ASSUME NEW s \in Holders
               PROVE  IF held[s].in THEN ownTypes[s] \in given[s] \cup {Untyped} ELSE ownTypes[s] = Untyped
    BY DEF OwnOK
  <2>1. ~held[s].names => ownTypes[s] = Untyped
    BY <1>1
  <2> QED BY <1>2, <1>9, <2>1
<1> QED BY <1>10, <1>11, <1>12, <1>13, <1>14, <1>15 DEF BlobInv

LEMMA BlobNextInv == BlobInv /\ [BlobNext]_blobVars => BlobInv'
<1> SUFFICES ASSUME BlobInv, [BlobNext]_blobVars PROVE BlobInv'
  OBVIOUS
<1>1. ASSUME NEW c \in Callers,
             \/ PutTypedBlob(c) \/ CreateBare(c) \/ ForkRead(c) \/ ForkPlace(c) \/ SetSessionBlobTypes(c)
             \/ CallKilled(c)
      PROVE  BlobInv'
  BY <1>1, PutTypedBlobKeeps, CreateBareKeeps, ForkReadKeeps, ForkPlaceKeeps, SetSessionBlobTypesKeeps,
     CallKilledKeeps
<1>2. ASSUME NEW c \in Callers, FileSteps(c) PROVE BlobInv'
  BY <1>2, PutStatKeeps, PutFreshenKeeps, PutAgainKeeps, PutLinkKeeps, PutHasTypeKeeps, PutTypeKeeps,
     AppendFreshenKeeps, AppendLandKeeps, ImportFreshenKeeps, ImportPlaceKeeps, TypesFindKeeps,
     TypesLinkKeeps, DeleteTypesKeeps, DeleteFileKeeps DEF FileSteps
<1>3. ASSUME NEW c \in Callers, ~Files, MemorySteps(c) PROVE BlobInv'
  BY <1>3, PutAtOnceKeeps, AppendAtOnceKeeps, ImportAtOnceKeeps, TypesAtOnceKeeps, DeleteAtOnceKeeps
  DEF MemorySteps
<1>4. ASSUME NEW c \in Callers, ~Files, SqliteSteps(c) PROVE BlobInv'
  BY <1>4, PutAtOnceKeeps, AppendAtOnceKeeps, ImportAtOnceKeeps, TypesAtOnceKeeps, DeleteAtOnceKeeps
  DEF SqliteSteps, PutRow, AppendRow, ImportRows, TypeRows, DeleteRows
<1>5. ASSUME Files, SweepSteps PROVE BlobInv'
  BY <1>5, SweepStartKeeps, SweepTypesKeeps, SweepStraysKeeps, SweepStrayKeeps, SweepListKeeps,
     SweepReadKeeps, SweepLookKeeps, SweepTypeKeeps, SweepBlobKeeps, SweepSyncKeeps, SweepKilledKeeps,
     PowerLostKeeps DEF SweepSteps
<1>6. ASSUME ~Files, SweepAtOnce PROVE BlobInv'
  BY <1>6, SweepAtOnceKeeps
<1>7. CASE Tick
  BY <1>7, TickKeeps
<1>8. CASE UNCHANGED blobVars
  BY <1>8 DEF blobVars, BlobInv, BlobTypes, CallOK, StoredSince, SweepOK, Covered, Files, CountedName,
     NamedBlobsStay, PromiseOK, NoStrayTypes, OwnOK
<1>9. (kind = "memory" \/ kind = "sqlite") => ~Files
  BY DEF Files
<1> QED BY <1>1, <1>2, <1>3, <1>4, <1>5, <1>6, <1>7, <1>8, <1>9 DEF BlobNext, SweepRows

LEMMA BlobAlwaysInv == BlobSpec => []BlobInv
BY BlobInitInv, BlobNextInv, PTL DEF BlobSpec

\* Whatever calls and sweeps run at once, are killed or cut short by a power
\* loss, in each of the three stores: a blob stays while a session names it or
\* its put's grace lasts, no type outlives its blob, and a session's types are
\* its own (SweepBlobs, putBlob, freshenBlobs, Delete).
THEOREM BlobsStayKept == BlobSpec => []BlobsKept
<1>1. BlobInv => BlobsKept
  <2> SUFFICES ASSUME BlobInv PROVE BlobsKept
    OBVIOUS
  <2>1. PutsLast
    BY DEF BlobInv, PromiseOK, StoredSince, PutsLast
  <2>2. TypesAreItsOwn
    BY DEF BlobInv, OwnOK, TypesAreItsOwn
  <2> QED BY <2>1, <2>2 DEF BlobInv, BlobsKept
<1> QED BY <1>1, BlobAlwaysInv, PTL

\* What a blob's type becomes in one step.
LEMMA TypeStays ==
  ASSUME BlobInv, [BlobNext]_blobVars, type /= NoType, ~lost, counted /= {} \/ now <= promise
  PROVE  type' = type
<1>0. SweepOK /\ NamedBlobsStay /\ PromiseOK /\ CountedName /\ BlobTypes
  BY DEF BlobInv
<1>1. ASSUME NEW c \in Callers,
             \/ PutTypedBlob(c) \/ CreateBare(c) \/ ForkRead(c) \/ ForkPlace(c) \/ SetSessionBlobTypes(c)
             \/ CallKilled(c)
      PROVE  type' = type
  BY <1>1 DEF PutTypedBlob, CreateBare, ForkRead, ForkPlace, SetSessionBlobTypes, CallKilled
<1>2. ASSUME NEW c \in Callers, FileSteps(c) PROVE type' = type
  BY <1>2 DEF FileSteps, PutStat, PutFreshen, PutAgain, PutLink, PutHasType, PutType, AppendFreshen,
     AppendLand, ImportFreshen, ImportPlace, TypesFind, TypesLink, DeleteTypes, DeleteFile
<1>3. ASSUME NEW c \in Callers, MemorySteps(c) PROVE type' = type
  BY <1>3 DEF MemorySteps, PutAtOnce, AppendAtOnce, ImportAtOnce, TypesAtOnce, DeleteAtOnce
<1>4. ASSUME NEW c \in Callers, SqliteSteps(c) PROVE type' = type
  BY <1>3, <1>4 DEF SqliteSteps, MemorySteps, PutRow, AppendRow, ImportRows, TypeRows, DeleteRows
<1>5. ASSUME SweepSteps PROVE type' = type
  <2>1. ~SweepStray
    BY <1>0 DEF SweepStray, SweepOK
  <2>2. ~SweepType
    <3> SUFFICES ASSUME SweepType PROVE FALSE
      OBVIOUS
    <3>1. counted = {} /\ blob < sweep.cutoff /\ sweep.cutoff + Grace <= now
      BY <1>0 DEF SweepType, SweepOK
    <3>2. now <= promise /\ promise - Grace <= blob
      BY <1>0, <3>1 DEF PromiseOK, StoredSince
    <3> QED BY <1>0, <3>1, <3>2 DEF BlobTypes, Grace
  <2> QED BY <1>5, <2>1, <2>2 DEF SweepSteps, SweepStart, SweepTypes, SweepStrays, SweepList, SweepRead,
             SweepLook, SweepBlob, SweepSync, SweepKilled, PowerLost
<1>6. ~SweepAtOnce
  <2> SUFFICES ASSUME SweepAtOnce PROVE FALSE
    OBVIOUS
  <2>1. counted = {} /\ blob < now - Grace
    BY <1>0 DEF SweepAtOnce, CountedName, Old, BlobTypes
  <2>2. now <= promise /\ promise - Grace <= blob
    BY <1>0, <2>1 DEF PromiseOK, StoredSince
  <2> QED BY <1>0, <2>1, <2>2 DEF BlobTypes, Grace
<1>7. Tick => type' = type
  BY DEF Tick
<1>8. UNCHANGED blobVars => type' = type
  BY DEF blobVars
<1> QED BY <1>1, <1>2, <1>3, <1>4, <1>5, <1>6, <1>7, <1>8 DEF BlobNext, SweepRows

\* The first type given a blob is the one it keeps while it is named or in its
\* grace, of any number of puts that all found it without one (putType).
THEOREM FirstTypeHolds == BlobSpec => FirstTypeStays
<1>1. BlobInv /\ [BlobNext]_blobVars
        => [type /= NoType /\ ~lost /\ (counted /= {} \/ now <= promise) => type'.is = type.is]_blobVars
  BY TypeStays
<1> QED BY <1>1, BlobAlwaysInv, PTL DEF BlobSpec, FirstTypeStays
=============================================================================
