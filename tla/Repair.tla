------------------------------- MODULE Repair -------------------------------
(***************************************************************************)
(* The repair of a session's damaged log.  A writer appends entries, lazily *)
(* or durably, moves the head, and loses to a crash what it wrote lazily,  *)
(* which recovery records; then lines of the log fail their checksums.     *)
(* Repair plans what to keep from the records that read, the hashes the    *)
(* damaged lines still spell and the objects held, makes what it keeps     *)
(* durable, keeps the damaged log aside, and renames the new log over it.  *)
(*                                                                         *)
(* A line is one record.  A damaged line keeps what it was, and says where *)
(* the damage is: in its op, in the hash it names as its entry or as its   *)
(* head, or elsewhere.  The session has no base.                           *)
(***************************************************************************)
EXTENDS Integers, Sequences, FiniteSets, SequencesExt

CONSTANTS
    Items,        \* the entries
    ItemParent,   \* each one's parent, or Top
    Converges,    \* the entries each one converges
    Top,          \* the universal root
    NoItem,       \* no entry
    MaxGrown,     \* bound: lines the writer grows the log to
    MaxDamage,    \* bound: damaged lines and rotten objects
    MaxLosses     \* bound: crashes

VARIABLES
    lines,    \* the session's log
    held,     \* held[e]: e's objects: "none", "lazy", "durable" or "rotten"
    aside,    \* the damaged logs kept, each "written" or "durable"
    rep,      \* the repair under way
    worn      \* damage and crashes so far

repairVars == <<lines, held, aside, rep, worn>>

Line(op, e, head, lazy) == [op |-> op, entry |-> e, head |-> head, lazy |-> lazy, bad |-> "no"]
NoRepair == [at |-> "idle", data |-> <<>>]

RepairInit ==
    /\ lines = <<>> /\ held = [e \in Items |-> "none"]
    /\ aside = <<>> /\ rep = NoRepair
    /\ worn = [damage |-> 0, losses |-> 0, rot |-> FALSE]

Damaged(l, i)      == l[i].bad # "no"
DamagedLog(l)  == \E i \in DOMAIN l : Damaged(l, i)
Top1(S)        == IF S = {} THEN 0 ELSE CHOOSE i \in S : \A j \in S : j <= i
FirstOf(S, d)  == IF S = {} THEN d ELSE CHOOSE i \in S : \A j \in S : i <= j

\* What the log said before any damage: the entries it holds, and its head.
TakenBack(l, e, i) == \E j \in DOMAIN l : j > i /\ l[j].op = "lost" /\ l[j].entry = e
HeldIn(l)   == {l[i].entry : i \in {j \in DOMAIN l : l[j].op = "append" /\ ~TakenBack(l, l[j].entry, j)}}
HeadIn(l)  ==
    LET at == {i \in DOMAIN l : l[i].head # NoItem /\ ~TakenBack(l, l[i].head, i)}
    IN IF at = {} THEN Top ELSE l[Top1(at)].head
LastSync(l) == Top1({i \in DOMAIN l : l[i].op = "sync"})
Working(l)  == {i \in DOMAIN l : /\ l[i].op = "append" /\ l[i].lazy /\ i > LastSync(l)
                                /\ ~TakenBack(l, l[i].entry, i)}

-----------------------------------------------------------------------------
(* planRepair.                                                             *)

\* A lost record that reads, or a damaged one that legibly is one.
Legible(l, i)  == l[i].op = "lost" /\ l[i].bad \in {"no", "rest"}
SaysLost(l, i) == l[i].op = "lost" /\ l[i].bad = "rest"

\* Mutant: only a lost record that reads counts.
LostAfterReadable(l, e, i) ==
    \E j \in DOMAIN l : j > i /\ l[j].op = "lost" /\ ~Damaged(l, j) /\ l[j].entry = e

\* gone, lostAfterRecord and lostAfterLine.
LostAfter(l, e, i) == \E j \in DOMAIN l : j > i /\ Legible(l, j) /\ l[j].entry = e

Stands(l, e) ==
    \E i \in DOMAIN l : ~Damaged(l, i) /\ l[i].op = "append" /\ l[i].entry = e /\ ~LostAfter(l, e, i)

\* check: its objects read, and what it converges is kept.
Checks(p, e) == held[e] \in {"lazy", "durable"} /\ Converges[e] \subseteq ToSet(p.kept)

Keep(p, e, committed) ==
    [p EXCEPT !.kept = Append(@, e), !.uncommitted = IF committed THEN @ ELSE @ \cup {e}]
DropItem(p, e) == [p EXCEPT !.listed = @ \cup {e}]

\* From e up, less the root.
UpFrom(e) ==
    LET up[n \in 0..Cardinality(Items)] ==
          IF n = 0 THEN <<e>>
          ELSE LET c == up[n-1] IN IF Last(c) = Top THEN c ELSE Append(c, ItemParent[Last(c)])
    IN  SelectSeq(up[Cardinality(Items)], LAMBDA x : x # Top)

\* hidden: the ancestors no readable record appends, up to a kept one or the
\* root, are kept, unless one of them cannot be.
Hide(l, p, e) ==
    LET all   == UpFrom(e)
        upTo  == FirstOf({i \in DOMAIN all : all[i] \in ToSet(p.kept)}, Len(all) + 1)
        chain == SubSeq(all, 1, upTo - 1)
        fails == {i \in DOMAIN chain :
                    \/ chain[i] \in p.seen \cup p.listed \cup p.failed
                    \/ \E j \in DOMAIN l : SaysLost(l, j) /\ l[j].entry = chain[i]
                    \/ ~Checks(p, chain[i])}
    IN IF fails # {}
       THEN [ok |-> FALSE, p |-> [p EXCEPT !.failed = @ \cup ToSet(SubSeq(chain, 1, FirstOf(fails, 0) - 1))]]
       ELSE [ok |-> TRUE, p |-> FoldLeft(LAMBDA q, x : Keep(q, x, FALSE), p, Reverse(chain))]

\* The hashes a damaged line still spells, in their order.
Spelled(r) ==
    (IF r.entry # NoItem /\ r.bad # "entry" THEN <<r.entry>> ELSE <<>>)
      \o (IF r.head # NoItem /\ r.bad # "head" THEN <<r.head>> ELSE <<>>)

LastHead(l)    == Top1({i \in DOMAIN l : ~Damaged(l, i) /\ l[i].head # NoItem})
LastDamaged(l) == Top1({i \in DOMAIN l : Damaged(l, i)})

MaySalvage(p, e) == Checks(p, e) /\ ItemParent[e] \in ToSet(p.kept) \cup {Top}

SalvageOne(l, i, p, e) ==
    IF e = Top \/ e \in ToSet(p.kept) \cup p.listed \/ Stands(l, e) THEN p
    ELSE IF LostAfter(l, e, i) \/ ~MaySalvage(p, e) THEN DropItem(p, e)
    ELSE IF l[i].head = e /\ l[i].bad # "head" /\ i > LastHead(l)
    THEN [Keep(p, e, FALSE) EXCEPT !.named = e, !.headAt = i]
    ELSE Keep(p, e, FALSE)

\* salvage: what a damaged line spells, unless it legibly records a loss.
Salvage(l, i, p) ==
    IF SaysLost(l, i) THEN p
    ELSE FoldLeft(LAMBDA q, e : SalvageOne(l, i, q, e), p, Spelled(l[i]))

Committed(l, i) == ~(l[i].lazy /\ i > Top1({j \in DOMAIN l : ~Damaged(l, j) /\ l[j].op = "sync"}))

NamesHead(l, i, p) ==
    IF l[i].head # NoItem /\ ~LostAfter(l, l[i].head, i) THEN [p EXCEPT !.named = l[i].head] ELSE p

\* A child of an entry of the session: kept, if its ancestors are.
TakeBelow(hide, e, committed) ==
    IF hide.ok THEN Keep(hide.p, e, committed) ELSE DropItem(hide.p, e)

\* An append first met: kept, or dropped for what it needs.
TakeAppend(l, p, e, committed) ==
    CASE e \in ToSet(p.kept)    -> p
      [] ~Checks(p, e)          -> DropItem(p, e)
      [] ItemParent[e] = Top    -> Keep(p, e, committed)
      [] OTHER                  -> TakeBelow(Hide(l, p, ItemParent[e]), e, committed)

\* A record that reads.
TakeRecord(l, i, p) ==
    CASE l[i].op = "head" -> NamesHead(l, i, p)
      [] l[i].op # "append" \/ LostAfter(l, l[i].entry, i) -> p
      [] l[i].entry \in p.seen -> NamesHead(l, i, p)
      [] OTHER -> TakeAppend(l, [NamesHead(l, i, p) EXCEPT !.seen = @ \cup {l[i].entry}], l[i].entry, Committed(l, i))

NoPlan == [kept |-> <<>>, uncommitted |-> {}, seen |-> {}, listed |-> {}, failed |-> {},
           named |-> Top, headAt |-> 0]

Planned(l) ==
    FoldLeft(LAMBDA p, i : IF Damaged(l, i) THEN Salvage(l, i, p) ELSE TakeRecord(l, i, p),
             NoPlan, [i \in DOMAIN l |-> i])

\* The latest kept entry with no kept child.
LatestLeaf(kept) ==
    LET leaves == SelectSeq(kept, LAMBDA e : \A c \in ToSet(kept) : ItemParent[c] # e)
    IN IF leaves = <<>> THEN Top ELSE Last(leaves)

PlanHead(p) == IF p.named \in ToSet(p.kept) \cup {Top} THEN p.named ELSE LatestLeaf(p.kept)

Unread(l, p) == LastDamaged(l) > LastHead(l) /\ LastDamaged(l) > p.headAt

\* The records of the new log: every append committed, then the head.
Renewed(p) ==
    [i \in DOMAIN p.kept |-> Line("append", p.kept[i], NoItem, FALSE)]
      \o (IF PlanHead(p) = Top THEN <<>> ELSE <<Line("head", NoItem, PlanHead(p), FALSE)>>)

-----------------------------------------------------------------------------
(* The writer, while the log has no damage.  A behaviour ends with the      *)
(* first log repaired, and a loss of power after it.                       *)
BeforeRepair == rep.at = "idle" /\ aside = <<>>

Writes(more) ==
    /\ BeforeRepair /\ ~DamagedLog(lines)
    /\ lines' = lines \o more /\ Len(lines') <= MaxGrown
    /\ UNCHANGED <<aside, rep, worn>>

Sync == IF Working(lines) = {} THEN <<>> ELSE <<Line("sync", NoItem, NoItem, FALSE)>>
Durably(h) == [e \in Items |-> IF h[e] = "lazy" THEN "durable" ELSE h[e]]

AppendItem(e, lazy, moves) ==
    /\ e \notin HeldIn(lines)
    /\ ({ItemParent[e]} \ {Top}) \cup Converges[e] \subseteq HeldIn(lines)
    /\ LET put == [held EXCEPT ![e] = IF @ = "durable" THEN @ ELSE "lazy"]
       IN held' = IF lazy THEN put ELSE Durably(put)
    /\ Writes(<<Line("append", e, IF moves THEN e ELSE NoItem, lazy)>> \o (IF lazy THEN <<>> ELSE Sync))

HeadItem(e) ==
    /\ e \in HeldIn(lines) \ {HeadIn(lines)}
    /\ held' = Durably(held)
    /\ Writes(<<Line("head", NoItem, e, FALSE)>> \o Sync)

\* A crash takes objects not yet durable; the recovery that follows records
\* lost every append from the first it took, and commits the rest.
Loss(gone) ==
    LET cut  == FirstOf({i \in Working(lines) : lines[i].entry \in gone}, Len(lines) + 1)
        lost == [i \in 1..(Len(lines) - cut + 1) |-> lines[cut + i - 1]]
    IN
    /\ worn.losses < MaxLosses /\ BeforeRepair /\ ~DamagedLog(lines)
    /\ gone # {} /\ gone \subseteq {lines[i].entry : i \in Working(lines)}
    /\ held' = Durably([e \in Items |-> IF e \in gone THEN "none" ELSE held[e]])
    /\ LET dropped == SelectSeq(lost, LAMBDA r : r.op = "append")
       IN lines' = lines \o [i \in DOMAIN dropped |-> Line("lost", dropped[i].entry, NoItem, FALSE)]
                     \o (IF \E i \in Working(lines) : i < cut THEN <<Line("sync", NoItem, NoItem, FALSE)>> ELSE <<>>)
    /\ worn' = [worn EXCEPT !.losses = @ + 1]
    /\ UNCHANGED <<aside, rep>>

-----------------------------------------------------------------------------
(* Damage, and the repair.                                                 *)
Worn(rots) == worn.damage < MaxDamage /\ worn' = [worn EXCEPT !.damage = @ + 1, !.rot = @ \/ rots]

\* A line fails its checksum, for a byte of one of its parts.
DamageLine(i, where) ==
    /\ BeforeRepair /\ ~Damaged(lines, i) /\ Worn(FALSE)
    /\ where = "entry" => lines[i].entry # NoItem
    /\ where = "head" => lines[i].head # NoItem
    /\ lines' = [lines EXCEPT ![i].bad = where]
    /\ UNCHANGED <<held, aside, rep>>

Rot(e) ==
    /\ BeforeRepair /\ held[e] \in {"lazy", "durable"} /\ Worn(TRUE)
    /\ held' = [held EXCEPT ![e] = "rotten"]
    /\ UNCHANGED <<lines, aside, rep>>

\* Repair: the lock, the log read, the plan; something must be kept.
RepairStart ==
    /\ rep.at = "idle" /\ DamagedLog(lines) /\ Planned(lines).kept # <<>>
    /\ rep' = [at |-> "flush", data |-> lines]
    /\ UNCHANGED <<lines, held, aside, worn>>

\* What no readable commit covers is made durable.
RepairFlush ==
    /\ rep.at = "flush" /\ rep' = [rep EXCEPT !.at = "copy"]
    /\ held' = [e \in Items |-> IF e \in Planned(rep.data).uncommitted /\ held[e] = "lazy" THEN "durable" ELSE held[e]]
    /\ UNCHANGED <<lines, aside, worn>>

\* The damaged log is written beside it; then its place in the directory.
RepairCopy ==
    /\ rep.at = "copy" /\ rep' = [rep EXCEPT !.at = "dirsync"]
    /\ aside' = Append(aside, [data |-> rep.data, at |-> "written"])
    /\ UNCHANGED <<lines, held, worn>>

\* Mutant: the directory is not fsynced before the rename.
RepairDirSyncSkipped ==
    /\ rep.at = "dirsync" /\ rep' = [rep EXCEPT !.at = "rename"]
    /\ UNCHANGED <<lines, held, aside, worn>>

RepairDirSync ==
    /\ rep.at = "dirsync" /\ rep' = [rep EXCEPT !.at = "rename"]
    /\ aside' = [i \in DOMAIN aside |-> [aside[i] EXCEPT !.at = "durable"]]
    /\ UNCHANGED <<lines, held, worn>>

\* The new log takes the damaged one's place; or that fails, and the copy goes.
RepairRename ==
    /\ rep.at = "rename" /\ rep' = NoRepair
    /\ \/ lines' = Renewed(Planned(rep.data)) /\ UNCHANGED aside
       \/ aside' = Front(aside) /\ UNCHANGED lines
    /\ UNCHANGED <<held, worn>>

\* The process is killed, or the power fails: what was not durable may go, and
\* copies made since the directory's last fsync go.
RepairKilled(power) ==
    /\ worn.losses < MaxLosses /\ worn' = [worn EXCEPT !.losses = @ + 1]
    /\ rep.at # "idle" \/ (power /\ (DamagedLog(lines) \/ aside # <<>>))
    /\ rep' = NoRepair
    /\ IF power
       THEN /\ aside' = SubSeq(aside, 1, Top1({i \in DOMAIN aside : aside[i].at = "durable"}))
            /\ \E gone \in SUBSET {e \in Items : held[e] = "lazy"} :
                 held' = Durably([e \in Items |-> IF e \in gone THEN "none" ELSE held[e]])
       ELSE UNCHANGED <<aside, held>>
    /\ UNCHANGED lines

RepairNext ==
    \/ \E e \in Items : HeadItem(e) \/ \E lazy, moves \in BOOLEAN : AppendItem(e, lazy, moves)
    \/ \E gone \in SUBSET Items : Loss(gone)
    \/ \E i \in DOMAIN lines, w \in {"op", "entry", "head", "rest"} : DamageLine(i, w)
    \/ \E e \in Items : Rot(e)
    \/ RepairStart \/ RepairFlush \/ RepairCopy \/ RepairDirSync \/ RepairRename
    \/ \E power \in BOOLEAN : RepairKilled(power)

-----------------------------------------------------------------------------
(* Properties.                                                             *)

\* A damaged log no repair has begun on: one under way has read the same.
ToRepair == DamagedLog(lines) /\ rep.at = "idle"

\* What a repair keeps is a session: entries the log appended, whose objects
\* read, each after its parent and what it converges, with a head among them.
RepairKeepsASession(p) ==
    LET at(e) == CHOOSE i \in DOMAIN p.kept : p.kept[i] = e
    IN /\ PlanHead(p) \in ToSet(p.kept) \cup {Top}
       /\ \A i \in DOMAIN p.kept :
            /\ \E j \in DOMAIN lines : lines[j].op = "append" /\ lines[j].entry = p.kept[i]
            /\ held[p.kept[i]] \in {"lazy", "durable"}
            /\ \A e \in ({ItemParent[p.kept[i]]} \ {Top}) \cup Converges[p.kept[i]] :
                 e \in ToSet(p.kept) /\ at(e) < i

\* What e needs kept: its ancestors, and what they and it converge.
Needs(e) ==
    LET own(S) == S \cup UNION {Converges[x] \cup ToSet(UpFrom(x)) : x \in S}
    IN own(own(ToSet(UpFrom(e))))

\* Its append's line does not spell it, and no entry that reads, with what it
\* converges, names it its parent.
Unnamed(e) ==
    /\ \E i \in DOMAIN lines : /\ Damaged(lines, i) /\ lines[i].op = "append" /\ lines[i].entry = e
                               /\ e \notin ToSet(Spelled(lines[i]))
    /\ \A c \in HeldIn(lines) : ItemParent[c] = e =>
         \E x \in {c} \cup Converges[c] : held[x] \notin {"lazy", "durable"}

\* With one line damaged, an entry the log held is kept, unless it is, or
\* needs, one whose objects do not read or whose hash nothing left names.
RepairKeepsLegible(p) ==
    Cardinality({i \in DOMAIN lines : Damaged(lines, i)}) = 1 =>
        \A e \in HeldIn(lines) \ ToSet(p.kept) :
            \E x \in Needs(e) : held[x] \notin {"lazy", "durable"} \/ Unnamed(x)

\* An entry its writer was told is lost is not brought back, unless no line
\* says so any more.
RepairKeepsLosses(p) ==
    \A e \in ToSet(p.kept) \ HeldIn(lines) :
        \E i \in DOMAIN lines : lines[i].op = "lost" /\ ~Legible(lines, i)

\* A head the report does not call unread is the head the log had, where that
\* entry is kept and the last head read is not one a crash took back.
RepairHeadKnown(p) ==
    LET at == LastHead(lines) IN
    (/\ ~Unread(lines, p)
     /\ at # 0 => ~TakenBack(lines, lines[at].head, at)
     /\ HeadIn(lines) \in ToSet(p.kept) \cup {Top}) => PlanHead(p) = HeadIn(lines)

\* A log with no damage has every object it names durable, its pending appends
\* aside, after any kill and any loss of power; but where the damage hid that
\* an append was lost before it was made again.
RepairedIsWhole ==
    (/\ ~DamagedLog(lines) /\ ~worn.rot
     /\ \A i \in DOMAIN aside : \A j \in DOMAIN aside[i].data : aside[i].data[j].op = "lost" => ~Damaged(aside[i].data, j))
    => \A e \in HeldIn(lines) :
         held[e] = "durable" \/ \E i \in Working(lines) : lines[i].entry = e

\* A repair keeps a session: all of it that is legible, none of what its writer
\* was told is lost, a head the log named or none vouched for, and only objects
\* that are durable (planRepair, Repair).
PlanIsSafe(p) ==
    RepairKeepsASession(p) /\ RepairKeepsLegible(p) /\ RepairKeepsLosses(p) /\ RepairHeadKnown(p)
RepairIsSafe == (ToRepair => PlanIsSafe(Planned(lines))) /\ RepairedIsWhole

\* A damaged log is replaced only once a copy of it would survive.
DamagedLogKept ==
    [][DamagedLog(lines) /\ ~DamagedLog(lines')
         => \E i \in DOMAIN aside : aside[i].data = lines /\ aside[i].at = "durable"]_repairVars

=============================================================================
