---------------------------- MODULE CasLogProofs ----------------------------
(***************************************************************************)
(* Proofs about CasLog: what its views and recoveries return, the types of *)
(* its variables, and the survival of the acknowledged: whatever is        *)
(* killed, loses power or fails to reach the disk, a recovery finds every  *)
(* entry a durable call reported committed, in a session whose parents and *)
(* objects are all there, and the handle follows the log.                  *)
(***************************************************************************)
EXTENDS CasLogInv, TLAPS, SequenceTheorems, WellFoundedInduction

-----------------------------------------------------------------------------
(* Bounds of sets of indices.                                              *)

\* The library's relation on the natural numbers is less-than.
LEMMA LessThanRelation == \A x, y \in Nat : <<y, x>> \in OpToRel(<, Nat) <=> y < x
BY DEF OpToRel

\* A set of indices that is not empty has a least element, and Min finds it.
LEMMA MinIndex ==
    ASSUME NEW S \in SUBSET Nat, S # {}
    PROVE  Min(S) \in S /\ \A i \in S : Min(S) <= i
<1>1. PICK x \in S : \A y \in S : ~(<<y, x>> \in OpToRel(<, Nat))
  BY WFMin, NatLessThanWellFounded
<1>2. \A y \in S : ~(y < x)
  BY <1>1, LessThanRelation, Zenon
<1>3. \A y \in S : x <= y
  BY <1>2
<1> QED
  BY <1>3 DEF Min

\* A set of indices of a sequence has a greatest one, and Max finds it.
LEMMA MaxIndex ==
    ASSUME NEW n \in Nat, NEW S \in SUBSET (1..n), S # {}
    PROVE  Max(S) \in S /\ \A i \in S : i <= Max(S)
<1> DEFINE T == {n - i : i \in S}
<1>1. \A i \in S : i \in Nat /\ n - i \in Nat
  OBVIOUS
<1>2. T \in SUBSET Nat
  BY <1>1
<1>3. T # {}
  OBVIOUS
<1>4. Min(T) \in T /\ \A t \in T : Min(T) <= t
  <2> HIDE DEF T
  <2> QED BY <1>2, <1>3, MinIndex
<1>5. PICK x \in S : Min(T) = n - x
  BY <1>4
<1>6. \A y \in S : n - x <= n - y
  BY <1>4, <1>5
<1>7. \A y \in S : x >= y
  BY <1>1, <1>6
<1> QED
  BY <1>7 DEF Max

-----------------------------------------------------------------------------
(* Types of records, sequences of records and views.                       *)

LEMMA RecordTypes ==
    /\ \A e \in Entries, h \in Entries \cup {Root, None}, d \in BOOLEAN :
         AppendRec(e, h, d) \in Records
    /\ \A h \in Entries \cup {Root} : HeadRec(h) \in Records
    /\ \A m \in Marks : MarkRec(m) \in Records
    /\ \A E \in SUBSET Entries : LostRec(E) \in Records
    /\ SyncRec \in Records /\ ZeroRec \in Records
BY ConstantsAssumption
   DEF AppendRec, HeadRec, MarkRec, LostRec, SyncRec, ZeroRec, Rec, Records, Marks

\* A record stays one wherever its bytes are.
LEMMA RestampType ==
    ASSUME NEW r \in Records, NEW st \in {"dirty", "disk", "lost"}
    PROVE  [r EXCEPT !.st = st] \in Records
BY DEF Records

LEMMA OnDiskType ==
    ASSUME NEW l \in Seq(Records)
    PROVE  /\ OnDisk(l) \in Seq(Records) /\ Len(OnDisk(l)) = Len(l)
           /\ DOMAIN OnDisk(l) = DOMAIN l
<1>1. \A i \in 1..Len(l) : [l[i] EXCEPT !.st = "disk"] \in Records
  BY RestampType, ElementOfSeq
<1>2. OnDisk(l) = [i \in 1..Len(l) |-> [l[i] EXCEPT !.st = "disk"]]
  BY LenProperties DEF OnDisk
<1> QED
  BY <1>1, <1>2, LenProperties, SeqDef

LEMMA WholeType ==
    ASSUME NEW l \in Seq(Records)
    PROVE  /\ Whole(l) \in Seq(Records) /\ Len(Whole(l)) \in 0..Len(l)
           /\ \A i \in DOMAIN Whole(l) : i \in DOMAIN l /\ Whole(l)[i] = l[i] /\ l[i].op # "zero"
           /\ \A i \in DOMAIN l : (\A j \in 1..i : l[j].op # "zero") => i \in DOMAIN Whole(l)
<1>1. CASE Zeros(l) = {}
  BY <1>1, LenProperties DEF Whole, Zeros
<1>2. CASE Zeros(l) # {}
  <2> DEFINE m == Min(Zeros(l))
  <2>1. m \in Zeros(l) /\ \A i \in Zeros(l) : m <= i
    <3>1. Zeros(l) \in SUBSET Nat
      BY LenProperties DEF Zeros
    <3> QED
      BY <1>2, <3>1, MinIndex
  <2>2. m \in 1..Len(l) /\ l[m].op = "zero" /\ \A i \in 1..(m-1) : l[i].op # "zero"
    <3>1. m \in 1..Len(l) /\ l[m].op = "zero"
      BY <2>1, LenProperties DEF Zeros
    <3>2. \A i \in 1..(m-1) : i \in DOMAIN l /\ i \notin Zeros(l)
      BY <2>1, <3>1, LenProperties
    <3> QED
      BY <3>1, <3>2 DEF Zeros
  <2>3. \A i \in 1..(m-1) : l[i] \in Records
    BY <2>2, ElementOfSeq
  <2>4. /\ SubSeq(l, 1, m-1) \in Seq(Records)
        /\ Len(SubSeq(l, 1, m-1)) = m-1
        /\ \A i \in 1..(m-1) : SubSeq(l, 1, m-1)[i] = l[i]
    <3>1. 1 \in Int /\ m-1 \in Int
      BY <2>2
    <3>2. /\ SubSeq(l, 1, m-1) \in Seq(Records)
          /\ Len(SubSeq(l, 1, m-1)) = IF 1 <= m-1 THEN (m-1)-1+1 ELSE 0
          /\ \A i \in 1 .. (m-1)-1+1 : SubSeq(l, 1, m-1)[i] = l[1+i-1]
      BY <2>3, <3>1, SubSeqProperties
    <3> QED
      BY <2>2, <3>2
  <2>5. Whole(l) = SubSeq(l, 1, m-1)
    BY <1>2 DEF Whole
  <2> HIDE DEF m
  <2>6. DOMAIN Whole(l) = 1..(m-1) /\ DOMAIN l = 1..Len(l) /\ Len(l) \in Nat
    BY <2>4, <2>5, LenProperties
  <2>7. \A i \in DOMAIN l : (\A j \in 1..i : l[j].op # "zero") => i <= m-1
    BY <2>2, <2>6
  <2> QED
    BY <2>2, <2>4, <2>5, <2>6, <2>7
<1> QED
  BY <1>1, <1>2

\* What a log says of a session is a state of one.
LEMMA ViewType ==
    ASSUME NEW l \in Seq(Records), NEW ob, NEW co
    PROVE  View(l, ob, co) \in States
<1> DEFINE moves == HeadMoves(l, ob, co)
           marks == {i \in DOMAIN l : l[i].op = "mark" /\ Reached(l, ob, co, i)}
<1>1. Len(l) \in Nat /\ DOMAIN l = 1..Len(l) /\ \A i \in DOMAIN l : l[i] \in Records
  BY LenProperties, ElementOfSeq
<1>2. EntriesOf(l, ob, co) \in SUBSET Entries
  BY <1>1 DEF EntriesOf, KeptAt, Records
<1>3. HeadOf(l, ob, co) \in Entries \cup {Root}
  <2>1. \A i \in moves : i \in 1..Len(l) /\ l[i].head \in Entries \cup {Root}
    BY <1>1 DEF HeadMoves, KeptAt, Records
  <2> HIDE DEF moves
  <2>2. moves # {} => Max(moves) \in moves
    BY <1>1, <2>1, MaxIndex
  <2> QED
    BY <2>1, <2>2 DEF HeadOf, moves
<1>4. MarkOf(l, ob, co) \in Marks
  <2>1. \A i \in marks : i \in 1..Len(l) /\ l[i].mark \in Marks
    BY <1>1 DEF Records
  <2>2. MarkOf(l, ob, co) = IF marks = {} THEN "record" ELSE l[Max(marks)].mark
    BY DEF MarkOf
  <2> HIDE DEF marks
  <2>3. marks # {} => Max(marks) \in marks
    BY <1>1, <2>1, MaxIndex
  <2> QED
    BY <2>1, <2>2, <2>3 DEF Marks
<1> QED
  BY <1>2, <1>3, <1>4 DEF View, States

LEMMA SetsOfEntries ==
    ASSUME NEW l \in Seq(Records), NEW ob
    PROVE  Adopt(l, ob) \in SUBSET Entries /\ Dropped(l, ob) \in SUBSET Entries
<1>1. \A i \in DOMAIN l : l[i] \in Records
  BY LenProperties, ElementOfSeq
<1> QED
  BY <1>1 DEF Adopt, Dropped, Pending, Records

\* A log a recovery writes: the whole lines of the old one, then the losses
\* and the commit.
LEMMA RecoveredType ==
    ASSUME NEW l \in Seq(Records), NEW ob
    PROVE  Recovered(l, ob) \in Seq(Records)
<1> DEFINE losses == IF Dropped(l, ob) # {} THEN <<LostRec(Dropped(l, ob))>> ELSE <<>>
           commit == IF Adopt(l, ob) # {} THEN <<SyncRec>> ELSE <<>>
<1>1. losses \in Seq(Records) /\ commit \in Seq(Records)
  BY RecordTypes, SetsOfEntries
<1>2. Whole(l) \o losses \o commit \in Seq(Records)
  <2> HIDE DEF losses, commit
  <2> QED BY <1>1, WholeType, ConcatProperties
<1> QED
  BY <1>2, OnDiskType DEF Recovered

LEMMA HandleTypes ==
    /\ NoHandle \in Handles /\ StateOf(NoHandle) \in States
    /\ \A v \in States, lazy \in BOOLEAN : HandleOf(v, lazy) \in Handles
    /\ \A h \in Handles : StateOf(h) \in States
BY DEF NoHandle, Handles, HandleOf, StateOf, States, Marks

LEMMA NoCallType == NoCall \in Calls
BY ConstantsAssumption, HandleTypes, EmptySeq DEF NoCall, Calls, Steps, Kinds, Marks

\* A call goes on to its next step with what it carries.
LEMMA NextStepType ==
    ASSUME NEW c \in Calls
    PROVE  \A pc \in {"log", "fsync", "cut"} : [c EXCEPT !.pc = pc] \in Calls
BY DEF Calls, Steps

\* The call an append makes of its records.
LEMMA WriteCallType ==
    ASSUME NEW e \in Entries, NEW head \in Entries \cup {Root, None},
           NEW leaf \in Entries \cup {Root}, NEW recs \in Seq(Records),
           NEW pc \in {"flush", "log"}, NEW durable \in BOOLEAN
    PROVE  [NoCall EXCEPT !.pc = pc, !.kind = "write", !.durable = durable, !.entry = e,
                          !.head = head, !.leaf = leaf, !.recs = recs] \in Calls
BY NoCallType DEF Calls, Steps, Kinds

\* Completing a call leaves a handle, and a session in a state.
LEMMA AfterType ==
    ASSUME NEW h \in Handles, NEW c \in Calls
    PROVE  After(h, c) \in Handles /\ StateAfter(h, c) \in States
<1>1. After(h, c) \in Handles
  <2>1. CASE c.kind = "write"
    BY <2>1, ConstantsAssumption DEF After, Handles, Calls
  <2>2. CASE c.kind = "syncHead"
    BY <2>2, ConstantsAssumption DEF After, Handles, Calls
  <2>3. CASE c.kind = "setHead"
    BY <2>3, ConstantsAssumption DEF After, Handles, Calls
  <2>4. CASE c.kind = "setMark"
    BY <2>4 DEF After, Handles, Calls
  <2>5. CASE c.kind = "release"
    BY <2>5, HandleTypes DEF After
  <2>6. CASE c.kind \notin {"write", "syncHead", "setHead", "setMark", "release"}
    BY <2>6 DEF After, Handles
  <2> QED
    BY <2>1, <2>2, <2>3, <2>4, <2>5, <2>6
<1> QED
  BY <1>1, HandleTypes DEF StateAfter

-----------------------------------------------------------------------------
(* Type correctness.                                                       *)

\* What appendRecords' callers begin with is a call.
LEMMA BegunCalls ==
    ASSUME TypeOK, NEW s \in Sessions
    PROVE  /\ \A recs \in Seq(Records) : withSync(s, recs) \in Seq(Records)
           /\ \A to \in Entries \cup {Root} :
                /\ \A e \in Entries : HeadCall(s, "syncHead", to, e) \in Calls
                /\ HeadCall(s, "setHead", to, None) \in Calls
           /\ \A e \in Entries :
                [NoCall EXCEPT !.pc = "prepare", !.kind = "write", !.entry = e] \in Calls
           /\ \A kind \in {"commit", "release"} : CommitCall(kind) \in Calls
<1>1. \A recs \in Seq(Records) : withSync(s, recs) \in Seq(Records)
  BY RecordTypes, AppendProperties DEF withSync
<1>2. \A to \in Entries \cup {Root} : <<HeadRec(to)>> \in Seq(Records)
  BY RecordTypes
<1>3. <<SyncRec>> \in Seq(Records)
  BY RecordTypes
<1>4. \A to \in Entries \cup {Root} : withSync(s, <<HeadRec(to)>>) \in Seq(Records)
  BY <1>1, <1>2
<1>5. \A to \in Entries \cup {Root} :
        /\ \A e \in Entries : HeadCall(s, "syncHead", to, e) \in Calls
        /\ HeadCall(s, "setHead", to, None) \in Calls
  <2> SUFFICES ASSUME NEW to \in Entries \cup {Root}
               PROVE  /\ \A e \in Entries : HeadCall(s, "syncHead", to, e) \in Calls
                      /\ HeadCall(s, "setHead", to, None) \in Calls
    OBVIOUS
  <2>1. to # None /\ withSync(s, <<HeadRec(to)>>) \in Seq(Records)
    BY <1>4, ConstantsAssumption
  <2>2. \A e \in Entries : HeadCall(s, "syncHead", to, e) \in Calls
    BY <2>1, NoCallType DEF HeadCall, Calls, Steps, Kinds
  <2>3. HeadCall(s, "setHead", to, None) \in Calls
    BY <2>1, NoCallType DEF HeadCall, Calls, Steps, Kinds
  <2> QED
    BY <2>2, <2>3
<1>6. \A e \in Entries :
        [NoCall EXCEPT !.pc = "prepare", !.kind = "write", !.entry = e] \in Calls
  BY NoCallType DEF Calls, Steps, Kinds
<1>7. \A kind \in {"commit", "release"} : CommitCall(kind) \in Calls
  BY <1>3, NoCallType DEF CommitCall, Calls, Steps, Kinds
<1> QED
  BY <1>1, <1>5, <1>6, <1>7

LEMMA TypeInit == Init => TypeOK
<1> SUFFICES ASSUME Init PROVE TypeOK
  OBVIOUS
<1>1. <<MarkRec("record")>> \in Seq(Records)
  BY RecordTypes DEF Marks
<1>2. OnDisk(<<MarkRec("record")>>) \in Seq(Records)
  BY <1>1, OnDiskType
<1>3. log \in [Sessions -> Seq(Records)]
  BY <1>2 DEF Init
<1>4. may \in [Sessions -> SUBSET States]
  BY HandleTypes DEF Init
<1>5. handle \in [Sessions -> Handles] /\ call \in [Sessions -> Calls]
  BY HandleTypes, NoCallType DEF Init
<1>6. /\ obj \in [Objects -> {"none", "torn", "dirty", "disk", "lost"}]
      /\ wrote \in SUBSET Objects /\ stopped \in BOOLEAN
      /\ acked \in [Sessions -> SUBSET Entries] /\ served \in [Sessions -> SUBSET Entries]
  BY DEF Init
<1>7. crashes \in 0..MaxCrash
  BY ConstantsAssumption DEF Init
<1> QED
  BY <1>3, <1>4, <1>5, <1>6, <1>7 DEF TypeOK

\* The part of TypeOK about what a completed call leaves in memory.
LEMMA CompleteType ==
    ASSUME TypeOK, NEW s \in Sessions, Complete(s)
    PROVE  /\ handle' \in [Sessions -> Handles] /\ call' \in [Sessions -> Calls]
           /\ acked' \in [Sessions -> SUBSET Entries]
           /\ served' \in [Sessions -> SUBSET Entries]
           /\ may' \in [Sessions -> SUBSET States]
<1>1. /\ handle[s] \in Handles /\ call[s] \in Calls
      /\ handle \in [Sessions -> Handles] /\ call \in [Sessions -> Calls]
      /\ acked \in [Sessions -> SUBSET Entries] /\ served \in [Sessions -> SUBSET Entries]
      /\ may \in [Sessions -> SUBSET States]
  BY DEF TypeOK
<1>2. /\ After(handle[s], call[s]) \in Handles
      /\ StateAfter(handle[s], call[s]) \in States
      /\ StateAfter(handle[s], call[s]).own \in SUBSET Entries
  BY <1>1, AfterType DEF States
<1>3. call[s].kind = "syncHead" =>
        [NoCall EXCEPT !.pc = "prepare", !.kind = "write", !.entry = call[s].entry] \in Calls
  BY <1>1, BegunCalls DEF Calls
<1>4. handle' \in [Sessions -> Handles]
  BY <1>1, <1>2 DEF Complete
<1>5. call' \in [Sessions -> Calls]
  BY <1>1, <1>3, NoCallType DEF Complete
<1>6. /\ acked' \in [Sessions -> SUBSET Entries]
      /\ served' \in [Sessions -> SUBSET Entries]
  BY <1>1, <1>2 DEF Complete
<1>7. may' \in [Sessions -> SUBSET States]
  BY <1>1, <1>2 DEF Complete
<1> QED
  BY <1>4, <1>5, <1>6, <1>7

\* What a power loss leaves of a log is a log.
LEMMA RemainsType ==
    ASSUME NEW l \in Seq(Records), NEW r \in LogRemains(l)
    PROVE  /\ r \in Seq(Records) /\ Len(r) <= Len(l)
           /\ \A i \in DOMAIN r : i \in DOMAIN l /\ r[i] \in {ZeroRec, [l[i] EXCEPT !.st = "disk"]}
           /\ \A i \in DOMAIN l : l[i].st = "disk" => i \in DOMAIN r /\ r[i] = [l[i] EXCEPT !.st = "disk"]
<1>1. Len(l) \in Nat /\ DOMAIN l = 1..Len(l) /\ \A i \in DOMAIN l : l[i] \in Records
  BY LenProperties, ElementOfSeq
<1>2. PICK n \in {m \in 0..Len(l) : DOMAIN l \ OffDisk(l) \subseteq 1..m}, Z \in SUBSET OffDisk(l) :
        r = Left(l, n, Z)
  BY DEF LogRemains
<1>3. \A i \in 1..n : i \in DOMAIN l /\ [l[i] EXCEPT !.st = "disk"] \in Records
  <2>1. n \in 0..Len(l)
    BY <1>2
  <2>2. \A i \in 1..n : i \in DOMAIN l /\ l[i] \in Records
    BY <1>1, <2>1
  <2> QED
    BY <2>2, RestampType
<1>4. /\ DOMAIN r = 1..n /\ n \in Nat
      /\ \A i \in 1..n : r[i] = IF i \in Z THEN ZeroRec ELSE [l[i] EXCEPT !.st = "disk"]
  BY <1>1, <1>2 DEF Left
<1>5. r \in Seq(Records) /\ Len(r) = n
  <2>1. \A i \in 1..n : r[i] \in Records
    BY <1>3, <1>4, RecordTypes
  <2>2. r \in [1..n -> Records]
    BY <1>2, <1>4, <2>1 DEF Left
  <2> QED
    BY <1>4, <2>2, SeqDef
<1>6. \A i \in DOMAIN l : l[i].st = "disk" => i \in 1..n /\ i \notin Z
  BY <1>2 DEF OffDisk
<1> QED
  BY <1>1, <1>2, <1>3, <1>4, <1>5, <1>6

LEMMA MarkedAsType ==
    ASSUME NEW l \in Seq(Records), NEW st \in {"disk", "lost"}
    PROVE  /\ MarkedAs(l, st) \in Seq(Records) /\ Len(MarkedAs(l, st)) = Len(l)
           /\ DOMAIN MarkedAs(l, st) = DOMAIN l
<1>1. \A i \in 1..Len(l) : l[i] \in Records /\ [l[i] EXCEPT !.st = st] \in Records
  BY RestampType, ElementOfSeq
<1>2. MarkedAs(l, st) =
        [i \in 1..Len(l) |-> IF l[i].st = "dirty" THEN [l[i] EXCEPT !.st = st] ELSE l[i]]
  BY LenProperties DEF MarkedAs
<1> QED
  BY <1>1, <1>2, LenProperties, SeqDef

\* Every step keeps the types.
LEMMA TypeNext == TypeOK /\ [Next]_vars => TypeOK'
<1> SUFFICES ASSUME TypeOK, [Next]_vars PROVE TypeOK'
  OBVIOUS
<1>0. /\ log \in [Sessions -> Seq(Records)]
      /\ obj \in [Objects -> {"none", "torn", "dirty", "disk", "lost"}]
      /\ wrote \in SUBSET Objects /\ stopped \in BOOLEAN
      /\ handle \in [Sessions -> Handles] /\ call \in [Sessions -> Calls]
      /\ acked \in [Sessions -> SUBSET Entries] /\ served \in [Sessions -> SUBSET Entries]
      /\ may \in [Sessions -> SUBSET States] /\ crashes \in 0..MaxCrash
  BY DEF TypeOK
<1>a. ASSUME NEW s \in Sessions
      PROVE  /\ log[s] \in Seq(Records) /\ handle[s] \in Handles /\ call[s] \in Calls
             /\ reconcile(s) \in States
  BY <1>0, ViewType DEF reconcile
<1>b. ASSUME NEW s \in Sessions, Drop(s)
      PROVE  handle' \in [Sessions -> Handles] /\ call' \in [Sessions -> Calls]
  BY <1>0, <1>b, HandleTypes, NoCallType DEF Drop
<1>1. ASSUME NEW s \in Sessions, Open(s) PROVE TypeOK'
  <2>1. handle' \in [Sessions -> Handles]
    <3>1. (stopped /\ Adopt(log[s], obj) # {}) \in BOOLEAN
      BY <1>0
    <3> QED
      BY <1>0, <1>1, <1>a, <3>1, HandleTypes DEF Open
  <2>2. may' \in [Sessions -> SUBSET States]
    BY <1>0, <1>1, <1>a DEF Open
  <2> QED
    BY <1>0, <1>1, <2>1, <2>2 DEF Open, TypeOK
<1>2. ASSUME NEW s \in Sessions, RecoverObjects(s) PROVE TypeOK'
  <2>1. [NoCall EXCEPT !.pc = "recover", !.kind = "open",
            !.view = reconcile(s), !.recs = Recovered(log[s], obj)] \in Calls
    <3>1. Recovered(log[s], obj) \in Seq(Records)
      BY <1>a, RecoveredType
    <3> QED
      BY <1>a, <3>1, NoCallType DEF Calls, Steps, Kinds
  <2>2. call' \in [Sessions -> Calls]
    BY <1>0, <1>2, <2>1 DEF RecoverObjects
  <2>3. obj' \in [Objects -> {"none", "torn", "dirty", "disk", "lost"}]
    BY <1>0, <1>2 DEF RecoverObjects
  <2>4. wrote' \in SUBSET Objects
    <3>1. \A e \in Adopt(log[s], obj) : Names[e] \in SUBSET Objects
      BY <1>a, SetsOfEntries, ConstantsAssumption
    <3> QED
      BY <1>0, <1>2, <3>1 DEF RecoverObjects
  <2> QED
    BY <1>0, <1>2, <2>2, <2>3, <2>4 DEF RecoverObjects, TypeOK
<1>3. ASSUME NEW s \in Sessions, RecoverLog(s) PROVE TypeOK'
  <2>1. call[s].recs \in Seq(Records) /\ call[s].view \in States
    BY <1>a DEF Calls
  <2>2. /\ log' \in [Sessions -> Seq(Records)]
        /\ handle' \in [Sessions -> Handles] /\ call' \in [Sessions -> Calls]
        /\ may' \in [Sessions -> SUBSET States]
    BY <1>0, <1>3, <2>1, HandleTypes, NoCallType DEF RecoverLog
  <2> QED
    BY <1>0, <1>3, <2>2 DEF RecoverLog, TypeOK
<1>4. ASSUME NEW s \in Sessions, RecoverFails(s) PROVE TypeOK'
  BY <1>0, <1>4, NoCallType DEF RecoverFails, TypeOK
<1>5. ASSUME NEW s \in Sessions, NEW x \in Entries \cup {Root}, Branch(s, x) PROVE TypeOK'
  <2>1. handle' \in [Sessions -> Handles]
    BY <1>0, <1>5, <1>a DEF Branch, Handles
  <2> QED
    BY <1>0, <1>5, <2>1 DEF Branch, TypeOK
<1>6. ASSUME NEW s \in Sessions, NEW x \in Entries \cup {Root}, SetHead(s, x) PROVE TypeOK'
  <2>1. call' \in [Sessions -> Calls]
    BY <1>0, <1>6, BegunCalls DEF SetHead, Begin
  <2> QED
    BY <1>0, <1>6, <2>1 DEF SetHead, TypeOK
<1>7. ASSUME NEW s \in Sessions, NEW e \in Entries, Write(s, e) PROVE TypeOK'
  <2>1. handle[s].leaf \in Entries \cup {Root}
    BY <1>a DEF Handles
  <2>2. call' \in [Sessions -> Calls]
    <3>1. CASE handle[s].leaf = handle[s].head
      <4>1. [NoCall EXCEPT !.pc = "prepare", !.kind = "write", !.entry = e] \in Calls
        BY BegunCalls
      <4> QED
        BY <1>0, <1>7, <3>1, <4>1 DEF Write, Begin
    <3>2. CASE handle[s].leaf # handle[s].head
      <4>1. HeadCall(s, "syncHead", handle[s].leaf, e) \in Calls
        BY <2>1, BegunCalls
      <4> QED
        BY <1>0, <1>7, <3>2, <4>1 DEF Write, Begin
    <3> QED
      BY <3>1, <3>2
  <2> QED
    BY <1>0, <1>7, <2>2 DEF Write, TypeOK
<1>8. ASSUME NEW s \in Sessions, Prepare(s) PROVE TypeOK'
  <2> DEFINE e == call[s].entry
  <2>1. e \in Entries /\ Names[e] \in SUBSET Objects /\ handle[s].leaf \in Entries \cup {Root}
    <3>1. call[s].pc = "prepare" /\ call[s] \in Calls /\ handle[s] \in Handles
      BY <1>8, <1>a DEF Prepare
    <3>2. e \in Entries /\ handle[s].leaf \in Entries \cup {Root}
      BY <3>1 DEF Calls, Handles
    <3> QED
      BY <3>2, ConstantsAssumption
  <2> HIDE DEF e
  <2>2. PICK durable \in BOOLEAN : call' = [call EXCEPT ![s] = WriteCall(s, e, durable)]
    BY <1>8 DEF Prepare, e
  <2>3. WriteCall(s, e, durable) \in Calls
    <3> DEFINE head == headFor(handle[s].own, handle[s].leaf, e)
               recs == <<AppendRec(e, head, durable)>>
    <3>1. head \in Entries \cup {Root, None}
      BY <2>1, ConstantsAssumption DEF headFor
    <3> HIDE DEF head
    <3>2. recs \in Seq(Records)
      BY <2>1, <3>1, RecordTypes
    <3> HIDE DEF recs
    <3>3. withSync(s, recs) \in Seq(Records)
      BY <3>2, BegunCalls
    <3>4. WriteCall(s, e, durable) =
            [NoCall EXCEPT !.pc = IF durable THEN "flush" ELSE "log", !.kind = "write",
               !.durable = durable, !.entry = e, !.head = head, !.leaf = handle[s].leaf,
               !.recs = IF durable THEN withSync(s, recs) ELSE recs]
      BY DEF WriteCall, head, recs
    <3>5. CASE durable
      <4>1. [NoCall EXCEPT !.pc = "flush", !.kind = "write", !.durable = durable, !.entry = e,
               !.head = head, !.leaf = handle[s].leaf, !.recs = withSync(s, recs)] \in Calls
        BY <2>1, <3>1, <3>3, WriteCallType
      <4> QED
        BY <3>4, <3>5, <4>1
    <3>6. CASE ~durable
      <4>1. [NoCall EXCEPT !.pc = "log", !.kind = "write", !.durable = durable, !.entry = e,
               !.head = head, !.leaf = handle[s].leaf, !.recs = recs] \in Calls
        BY <2>1, <3>1, <3>2, WriteCallType
      <4> QED
        BY <3>4, <3>6, <4>1
    <3> QED
      BY <3>5, <3>6
  <2>4. call' \in [Sessions -> Calls]
    BY <1>0, <2>2, <2>3
  <2>5. obj' \in [Objects -> {"none", "torn", "dirty", "disk", "lost"}]
    <3>1. obj' = storeEntry(e)
      BY <1>8 DEF Prepare, e
    <3>2. storeEntry(e) \in [Objects -> {"none", "torn", "dirty", "disk", "lost"}]
      BY <1>0 DEF storeEntry
    <3> QED
      BY <3>1, <3>2
  <2>6. handle' \in [Sessions -> Handles]
    <3>1. [handle[s] EXCEPT !.pend = @ \cup Names[e]] \in Handles
      BY <1>a, <2>1 DEF Handles
    <3> QED
      BY <1>0, <1>8, <3>1 DEF Prepare, e
  <2>7. wrote' \in SUBSET Objects
    BY <1>0, <1>8, <2>1 DEF Prepare, e
  <2> QED
    BY <1>0, <1>8, <2>4, <2>5, <2>6, <2>7 DEF Prepare, TypeOK
<1>9. ASSUME NEW s \in Sessions, PrepareReturns(s) PROVE TypeOK'
  BY <1>0, <1>9, NoCallType DEF PrepareReturns, TypeOK
<1>10. ASSUME NEW s \in Sessions, NEW mark \in Marks, SetMark(s, mark) PROVE TypeOK'
  <2>1. withSync(s, <<MarkRec(mark)>>) \in Seq(Records)
    <3>1. <<MarkRec(mark)>> \in Seq(Records)
      BY RecordTypes
    <3> QED
      BY <3>1, BegunCalls
  <2>2. [NoCall EXCEPT !.pc = "flush", !.kind = "setMark", !.durable = TRUE,
           !.mark = mark, !.recs = withSync(s, <<MarkRec(mark)>>)] \in Calls
    BY <2>1, NoCallType DEF Calls, Steps, Kinds
  <2>3. call' \in [Sessions -> Calls]
    BY <1>0, <1>10, <2>2 DEF SetMark, Begin
  <2> QED
    BY <1>0, <1>10, <2>3 DEF SetMark, TypeOK
<1>11. ASSUME NEW s \in Sessions, Commit(s) PROVE TypeOK'
  <2>1. call' \in [Sessions -> Calls]
    BY <1>0, <1>11, BegunCalls DEF Commit, Begin
  <2>2. served' \in [Sessions -> SUBSET Entries]
    <3>1. handle[s].own \in SUBSET Entries
      BY <1>a DEF Handles
    <3> QED
      BY <1>0, <1>11, <3>1 DEF Commit
  <2> QED
    BY <1>0, <1>11, <2>1, <2>2 DEF Commit, TypeOK
<1>12. ASSUME NEW s \in Sessions, Release(s) PROVE TypeOK'
  <2>1. call' \in [Sessions -> Calls]
    BY <1>0, <1>12, BegunCalls DEF Release, Begin
  <2>2. handle' \in [Sessions -> Handles]
    BY <1>0, <1>12, HandleTypes DEF Release
  <2> QED
    BY <1>0, <1>12, <2>1, <2>2 DEF Release, TypeOK
<1>13. ASSUME NEW s \in Sessions, Flush(s) PROVE TypeOK'
  <2>1. obj' \in [Objects -> {"none", "torn", "dirty", "disk", "lost"}]
    BY <1>0, <1>13 DEF Flush
  <2>2. handle' \in [Sessions -> Handles] /\ call' \in [Sessions -> Calls]
    <3>1. CASE stopped
      BY <1>13, <1>b, <3>1 DEF Flush
    <3>2. CASE ~stopped
      <4>1. [handle[s] EXCEPT !.pend = {}] \in Handles
        BY <1>a DEF Handles
      <4>2. [call[s] EXCEPT !.pc = "log"] \in Calls
        BY <1>a, NextStepType
      <4> QED
        BY <1>0, <1>13, <3>2, <4>1, <4>2 DEF Flush
    <3> QED
      BY <3>1, <3>2
  <2> QED
    BY <1>0, <1>13, <2>1, <2>2 DEF Flush, TypeOK
<1>14. ASSUME NEW s \in Sessions, FlushFails(s) PROVE TypeOK'
  <2>1. obj' \in [Objects -> {"none", "torn", "dirty", "disk", "lost"}]
    BY <1>0, <1>14 DEF FlushFails
  <2>2. handle' \in [Sessions -> Handles] /\ call' \in [Sessions -> Calls]
    BY <1>14, <1>b DEF FlushFails
  <2> QED
    BY <1>0, <1>14, <2>1, <2>2 DEF FlushFails, TypeOK
<1>15. ASSUME NEW s \in Sessions, LogWrite(s) PROVE TypeOK'
  <2>1. log' \in [Sessions -> Seq(Records)]
    <3>1. log[s] \o call[s].recs \in Seq(Records)
      BY <1>a, ConcatProperties DEF Calls
    <3> QED
      BY <1>0, <1>15, <3>1 DEF LogWrite
  <2>2. CASE call[s].durable
    <3>1. call' \in [Sessions -> Calls]
      <4>1. [call[s] EXCEPT !.pc = "fsync"] \in Calls
        BY <1>a, NextStepType
      <4> QED
        BY <1>0, <1>15, <2>2, <4>1 DEF LogWrite
    <3>2. may' \in [Sessions -> SUBSET States]
      <4>1. StateAfter(handle[s], call[s]) \in States
        BY <1>a, AfterType
      <4>2. may' = [may EXCEPT ![s] = @ \cup {StateAfter(handle[s], call[s])}]
        BY <1>15, <2>2 DEF LogWrite
      <4> QED
        BY <1>0, <4>1, <4>2
    <3> QED
      BY <1>0, <1>15, <2>1, <2>2, <3>1, <3>2 DEF LogWrite, TypeOK
  <2>3. CASE ~call[s].durable
    BY <1>0, <1>15, <2>1, <2>3, CompleteType DEF LogWrite, TypeOK
  <2> QED
    BY <2>2, <2>3
<1>16. ASSUME NEW s \in Sessions, LogWriteFails(s) PROVE TypeOK'
  <2>1. handle' \in [Sessions -> Handles] /\ call' \in [Sessions -> Calls]
    BY <1>0, <1>16, <1>b, NoCallType DEF LogWriteFails
  <2> QED
    BY <1>0, <1>16, <2>1 DEF LogWriteFails, TypeOK
<1>17. ASSUME NEW s \in Sessions, LogFsync(s) PROVE TypeOK'
  <2>1. log' \in [Sessions -> Seq(Records)]
    BY <1>0, <1>17, <1>a, MarkedAsType DEF LogFsync
  <2> QED
    BY <1>0, <1>17, <2>1, CompleteType DEF LogFsync, TypeOK
<1>18. ASSUME NEW s \in Sessions, LogFsyncFails(s) PROVE TypeOK'
  <2>1. log' \in [Sessions -> Seq(Records)] /\ stopped' \in BOOLEAN
    <3>1. MarkedAs(log[s], "lost") \in Seq(Records)
      BY <1>a, MarkedAsType
    <3> QED
      BY <1>0, <1>18, <3>1 DEF LogFsyncFails
  <2>2. call' \in [Sessions -> Calls]
    <3>1. [call[s] EXCEPT !.pc = "cut"] \in Calls
      BY <1>a, NextStepType
    <3> QED
      BY <1>0, <1>18, <3>1 DEF LogFsyncFails
  <2> QED
    BY <1>0, <1>18, <2>1, <2>2 DEF LogFsyncFails, TypeOK
<1>19. ASSUME NEW s \in Sessions, Cut(s) PROVE TypeOK'
  <2>1. log' \in [Sessions -> Seq(Records)]
    <3>1. Len(log[s]) - Len(call[s].recs) \in Int
      BY <1>a, LenProperties DEF Calls
    <3> QED
      BY <1>0, <1>19, <1>a, <3>1 DEF Cut
  <2> QED
    BY <1>0, <1>19, <1>b, <2>1 DEF Cut, TypeOK
<1>20. ASSUME ProcessGone
       PROVE  /\ wrote' \in SUBSET Objects /\ stopped' \in BOOLEAN
              /\ handle' \in [Sessions -> Handles] /\ call' \in [Sessions -> Calls]
              /\ crashes' \in 0..MaxCrash
  <2>1. crashes' \in 0..MaxCrash
    BY <1>0, <1>20, ConstantsAssumption DEF ProcessGone
  <2>2. handle' \in [Sessions -> Handles] /\ call' \in [Sessions -> Calls]
    BY <1>20, HandleTypes, NoCallType DEF ProcessGone
  <2> QED
    BY <1>20, <2>1, <2>2 DEF ProcessGone
<1>21. CASE Kill
  BY <1>0, <1>20, <1>21 DEF Kill, TypeOK
<1>22. CASE PowerLoss
  <2>1. log' \in [Sessions -> Seq(Records)]
    BY <1>0, <1>22, RemainsType DEF PowerLoss
  <2>2. obj' \in [Objects -> {"none", "torn", "dirty", "disk", "lost"}]
    BY <1>0, <1>22 DEF PowerLoss
  <2> QED
    BY <1>0, <1>20, <1>22, <2>1, <2>2 DEF PowerLoss, TypeOK
<1>23. CASE UNCHANGED vars
  BY <1>0, <1>23 DEF vars, TypeOK
<1> QED
  BY <1>1, <1>2, <1>3, <1>4, <1>5, <1>6, <1>7, <1>8, <1>9, <1>10, <1>11, <1>12, <1>13,
     <1>14, <1>15, <1>16, <1>17, <1>18, <1>19, <1>21, <1>22, <1>23 DEF Next

\* Every variable keeps its type, whatever fails and whenever the store is
\* killed or the power lost.
THEOREM TypeCorrect == Spec => []TypeOK
<1>1. TypeOK /\ [Next]_vars => TypeOK'
  BY TypeNext
<1> QED
  BY TypeInit, <1>1, PTL DEF Spec

-----------------------------------------------------------------------------
(* LogInv is an invariant, and with it AckedSurvive.  One lemma per action *)
(* says that the action keeps LogInv; the lemmas before it say what the    *)
(* action makes of the log.                                                *)

\* What is on disk stays there.
DiskStays == \A o \in Objects : obj[o] = "disk" => obj'[o] = "disk"

\* The indices of a log, and its records.
LEMMA LogIndices ==
    ASSUME NEW l \in Seq(Records)
    PROVE  /\ Len(l) \in Nat /\ DOMAIN l = 1..Len(l)
           /\ \A i \in DOMAIN l : i \in Nat /\ l[i] \in Records
BY LenProperties, ElementOfSeq

\* What TypeOK says of one session.
LEMMA SessionTypes ==
    ASSUME TypeOK, NEW s \in Sessions
    PROVE  /\ log[s] \in Seq(Records) /\ handle[s] \in Handles /\ call[s] \in Calls
           /\ acked[s] \in SUBSET Entries
           /\ Len(log[s]) \in Nat /\ DOMAIN log[s] = 1..Len(log[s])
           /\ call[s].recs \in Seq(Records) /\ Len(call[s].recs) \in Nat
           /\ DOMAIN call[s].recs = 1..Len(call[s].recs)
<1>1. /\ log[s] \in Seq(Records) /\ handle[s] \in Handles /\ call[s] \in Calls
      /\ acked[s] \in SUBSET Entries
  BY DEF TypeOK
<1>2. call[s].recs \in Seq(Records)
  BY <1>1 DEF Calls
<1> QED
  BY <1>1, <1>2, LogIndices

\* Records a call has written and not fsynced are not accepted yet.
LEMMA AcceptedIs ==
    ASSUME TypeOK, NEW s \in Sessions
    PROVE  /\ call[s].pc \in {"fsync", "cut"} => Accepted(s) = Len(log[s]) - Len(call[s].recs)
           /\ call[s].pc \notin {"fsync", "cut"} => Accepted(s) = Len(log[s])
           /\ Accepted(s) \in Int /\ Accepted(s) <= Len(log[s])
<1>1. Len(log[s]) \in Nat /\ Len(call[s].recs) \in Nat
  BY SessionTypes
<1>2. CASE call[s].pc \in {"fsync", "cut"}
  <2>1. Accepted(s) = Len(log[s]) - Len(call[s].recs)
    BY <1>2 DEF Accepted
  <2>2. \A x, y \in Nat : x - y \in Int /\ x - y <= x
    OBVIOUS
  <2>3. Accepted(s) \in Int /\ Accepted(s) <= Len(log[s])
    BY <1>1, <2>1, <2>2, Zenon
  <2> QED
    BY <1>2, <2>1, <2>3
<1>3. CASE call[s].pc \notin {"fsync", "cut"}
  <2>1. Accepted(s) = Len(log[s]) - 0
    BY <1>3 DEF Accepted
  <2>2. Accepted(s) = Len(log[s]) /\ Accepted(s) \in Int /\ Accepted(s) <= Len(log[s])
    BY <1>1, <2>1
  <2> QED
    BY <1>3, <2>2
<1> QED
  BY <1>2, <1>3

LEMMA EntriesOfRecords ==
    ASSUME NEW r \in Records
    PROVE  /\ r.op = "append" => r.entry \in Entries
           /\ r.st \in {"dirty", "disk", "lost"} /\ r.lazy \in BOOLEAN
BY DEF Records

LEMMA DiskStaysFor ==
    ASSUME DiskStays, NEW e \in Entries, AllOnDisk(e)
    PROVE  AllOnDisk(e)'
BY ConstantsAssumption DEF DiskStays, AllOnDisk

\* A step that leaves a session's log and what was acknowledged of it alone
\* keeps what is said of the log, so long as what is on disk stays there.
LEMMA LogStays ==
    ASSUME TypeOK, NEW s \in Sessions, SessionInv(s), DiskStays,
           log'[s] = log[s], acked'[s] = acked[s], Accepted(s)' = Accepted(s)
    PROVE  /\ StoredInv(s)' /\ LostInv(log[s])' /\ OnceInv(log[s])' /\ AckedInv(s)'
           /\ (handle'[s].held /\ ~stopped' =>
                 \/ handle[s].held /\ ~stopped
                 \/ \A i \in DOMAIN log[s] : log[s][i].st # "lost") => PhantomInv(s)'
<1>1. \A i \in DOMAIN log[s] : log[s][i].op = "append" => log[s][i].entry \in Entries
  BY SessionTypes, LogIndices, EntriesOfRecords
<1>2. \A e \in Entries : AllOnDisk(e) => AllOnDisk(e)'
  BY DiskStaysFor
<1>3. StoredInv(s)'
  BY <1>1, <1>2 DEF SessionInv, StoredInv
<1>4. LostInv(log[s])' /\ OnceInv(log[s])'
  BY DEF SessionInv
<1>5. AckedInv(s)'
  <2>1. \A i \in DOMAIN log[s] : Firm(s, i) => Firm(s, i)'
    <3>1. \A i \in DOMAIN log[s] : \A j \in 1..i : j \in DOMAIN log[s]
      BY SessionTypes
    <3> QED
      BY <1>1, <1>2, <3>1 DEF Firm, Pending
  <2> QED
    BY <2>1 DEF SessionInv, AckedInv, FirmAt
<1>6. ASSUME handle'[s].held /\ ~stopped' =>
                 \/ handle[s].held /\ ~stopped
                 \/ \A i \in DOMAIN log[s] : log[s][i].st # "lost"
      PROVE  PhantomInv(s)'
  BY <1>6 DEF SessionInv, PhantomInv
<1> QED
  BY <1>3, <1>4, <1>5, <1>6

\* A session no step touches keeps its invariant, whatever other sessions do.
LEMMA SessionStays ==
    ASSUME TypeOK, NEW s \in Sessions, SessionInv(s), DiskStays,
           stopped => stopped', log'[s] = log[s], call'[s] = call[s], acked'[s] = acked[s],
           handle'[s].held = handle[s].held, handle'[s].own = handle[s].own,
           handle'[s].pend = handle[s].pend
    PROVE  SessionInv(s)'
<1>1. /\ \A i \in DOMAIN log[s] : log[s][i].op = "append" => log[s][i].entry \in Entries
      /\ \A i \in DOMAIN call[s].recs :
            call[s].recs[i].op = "append" => call[s].recs[i].entry \in Entries
      /\ call[s].kind = "write" => call[s].entry \in Entries
  BY SessionTypes, LogIndices, EntriesOfRecords DEF Calls
<1>2. /\ \A e \in Entries : AllOnDisk(e) => AllOnDisk(e)'
      /\ \A e \in Entries : \A o \in Names[e] : obj[o] = "disk" => obj'[o] = "disk"
  BY DiskStaysFor, ConstantsAssumption DEF DiskStays
<1>3. Live(s)' => Live(s)
  BY DEF Live, Idle
<1>4. Accepted(s)' = Accepted(s)
  BY DEF Accepted
<1>5. CallInv(s)'
  BY DEF SessionInv, CallInv
<1>6. RecsInv(s)'
  BY <1>1, <1>2, <1>4 DEF SessionInv, RecsInv
<1>7. OwedInv(s)'
  BY <1>1, <1>2, <1>3 DEF SessionInv, OwedInv, Pending
<1>8. OwnInv(s)'
  BY <1>3 DEF SessionInv, OwnInv
<1>9. PlanInv(s)'
  BY <1>1, <1>2 DEF SessionInv, PlanInv
<1>10. StoredInv(s)' /\ LostInv(log[s])' /\ OnceInv(log[s])' /\ AckedInv(s)' /\ PhantomInv(s)'
  BY <1>4, LogStays
<1> QED
  BY <1>5, <1>6, <1>7, <1>8, <1>9, <1>10 DEF SessionInv

\* A call that ends before its records are written, the session held on or
\* let go.
LEMMA CallEnds ==
    ASSUME TypeOK, NEW s \in Sessions, SessionInv(s), DiskStays,
           stopped => stopped', log'[s] = log[s], acked'[s] = acked[s],
           call[s].pc \notin {"fsync", "cut"}, call'[s] = NoCall,
           handle'[s] = handle[s] \/ handle'[s] = NoHandle
    PROVE  SessionInv(s)'
<1>1. call'[s].pc = "idle"
  BY DEF NoCall
<1>2. Accepted(s)' = Accepted(s)
  BY <1>1 DEF Accepted
<1>3. handle'[s].held => handle'[s] = handle[s] /\ handle[s].held
  BY DEF NoHandle
<1>4. Live(s)' => Live(s) /\ handle'[s] = handle[s]
  BY <1>1, <1>3 DEF Live, Idle
<1>5. \A e \in Entries : \A o \in Names[e] : obj[o] = "disk" => obj'[o] = "disk"
  BY ConstantsAssumption DEF DiskStays
<1>6. \A i \in DOMAIN log[s] : log[s][i].op = "append" => log[s][i].entry \in Entries
  BY SessionTypes, LogIndices, EntriesOfRecords
<1>7. CallInv(s)' /\ RecsInv(s)' /\ PlanInv(s)'
  BY <1>1 DEF CallInv, RecsInv, PlanInv
<1>8. OwedInv(s)'
  BY <1>4, <1>5, <1>6 DEF SessionInv, OwedInv, Pending
<1>9. OwnInv(s)'
  BY <1>4 DEF SessionInv, OwnInv
<1>10. StoredInv(s)' /\ LostInv(log[s])' /\ OnceInv(log[s])' /\ AckedInv(s)' /\ PhantomInv(s)'
  BY <1>2, <1>3, LogStays
<1> QED
  BY <1>7, <1>8, <1>9, <1>10 DEF SessionInv

\* A call that begins on a held session or goes on to its next step, short of
\* writing its records.
LEMMA CallGoesOn ==
    ASSUME TypeOK, NEW s \in Sessions, SessionInv(s), DiskStays,
           ~stopped, log'[s] = log[s], acked'[s] = acked[s], handle[s].held,
           call[s].pc \notin {"fsync", "cut"}, call'[s].pc \in {"prepare", "flush", "log"},
           handle'[s].held = handle[s].held, handle'[s].own = handle[s].own,
           CallInv(s)', RecsInv(s)', OwedInv(s)'
    PROVE  SessionInv(s)'
<1>1. Accepted(s)' = Accepted(s)
  BY DEF Accepted
<1>2. PlanInv(s)'
  BY DEF PlanInv
<1>3. OwnInv(s)'
  BY DEF SessionInv, OwnInv, Live
<1>4. StoredInv(s)' /\ LostInv(log[s])' /\ OnceInv(log[s])' /\ AckedInv(s)' /\ PhantomInv(s)'
  BY <1>1, LogStays
<1> QED
  BY <1>2, <1>3, <1>4 DEF SessionInv

-----------------------------------------------------------------------------
(* One action after another.                                               *)

\* The step is of s: it leaves the other sessions as they are.
OnlyOf(s) ==
    \A t \in Sessions \ {s} :
        /\ log'[t] = log[t] /\ handle'[t] = handle[t]
        /\ call'[t] = call[t] /\ acked'[t] = acked[t]

\* A step of one session that keeps its invariant keeps everyone's.
LEMMA OneMoves ==
    ASSUME LogInv, TypeOK', NEW s \in Sessions, OnlyOf(s), DiskStays, stopped => stopped',
           WroteInv', SessionInv(s)'
    PROVE  LogInv'
<1>1. ASSUME NEW t \in Sessions, t # s PROVE SessionInv(t)'
  BY <1>1, SessionStays DEF LogInv, OnlyOf
<1> QED
  BY <1>1 DEF LogInv

\* A step that writes no object and owes none keeps WroteInv.
LEMMA WroteStays ==
    ASSUME WroteInv, UNCHANGED <<obj, wrote>>, stopped => stopped',
           \A s \in Sessions : handle'[s].pend \subseteq handle[s].pend
    PROVE  WroteInv'
BY DEF WroteInv

\* A durable call that writes no append begins.
LEMMA CallBegins ==
    ASSUME LogInv, TypeOK', NEW s \in Sessions, HeldIdle(s), ~stopped, NEW c,
           call' = [call EXCEPT ![s] = c],
           UNCHANGED <<log, obj, wrote, stopped, handle, acked>>,
           \/ c.pc = "prepare"
           \/ /\ c.pc = "flush" /\ c.durable /\ c.kind # "write"
              /\ \A k \in DOMAIN c.recs :
                    c.recs[k].op \in {"head", "mark", "sync"} /\ c.recs[k].st = "dirty"
    PROVE  LogInv'
<1>1. TypeOK /\ SessionInv(s) /\ WroteInv /\ call'[s] = c
  BY DEF LogInv, TypeOK
<1>2. DiskStays /\ OnlyOf(s) /\ WroteInv'
  BY <1>1, WroteStays DEF DiskStays, OnlyOf, TypeOK
<1>3. CallInv(s)'
  BY <1>1 DEF CallInv, HeldIdle
<1>4. RecsInv(s)'
  BY <1>1 DEF RecsInv
<1>5. OwedInv(s)'
  BY <1>1 DEF SessionInv, OwedInv, HeldIdle, Live
<1>6. SessionInv(s)'
  BY <1>1, <1>2, <1>3, <1>4, <1>5, CallGoesOn DEF HeldIdle, Idle
<1> QED
  BY <1>2, <1>6, OneMoves

LEMMA WithSyncShape ==
    ASSUME NEW s \in Sessions, NEW r \in Records, r.op \in {"head", "mark"}, r.st = "dirty"
    PROVE  \A k \in DOMAIN withSync(s, <<r>>) :
             /\ withSync(s, <<r>>)[k].op \in {"head", "mark", "sync"}
             /\ withSync(s, <<r>>)[k].st = "dirty"
<1>1. SyncRec.op = "sync" /\ SyncRec.st = "dirty"
  BY DEF SyncRec, Rec
<1>2. CASE handle[s].lazy
  <2>1. <<r>> \in Seq(Records) /\ Len(<<r>>) = 1 /\ <<r>>[1] = r /\ SyncRec \in Records
    BY RecordTypes
  <2>2. PICK q : q = Append(<<r>>, SyncRec)
    OBVIOUS
  <2>3. q \in Seq(Records) /\ Len(q) = 2 /\ q[1] = r /\ q[2] = SyncRec
    BY <2>1, <2>2, AppendProperties
  <2>4. \A k \in DOMAIN q : k = 1 \/ k = 2
    BY <2>3, LogIndices
  <2>5. withSync(s, <<r>>) = q
    BY <1>2, <2>2 DEF withSync
  <2> QED
    BY <1>1, <2>3, <2>4, <2>5
<1>3. CASE ~handle[s].lazy
  BY <1>3 DEF withSync
<1> QED
  BY <1>2, <1>3

LEMMA WriteKeeps ==
    ASSUME LogInv, TypeOK', NEW s \in Sessions, NEW e \in Entries, Write(s, e)
    PROVE  LogInv'
<1>1. CASE handle[s].leaf = handle[s].head
  <2>1. PICK c : c = [NoCall EXCEPT !.pc = "prepare", !.kind = "write", !.entry = e]
    OBVIOUS
  <2>2. c.pc = "prepare"
    BY <2>1 DEF NoCall
  <2>3. call' = [call EXCEPT ![s] = c]
    BY <1>1, <2>1 DEF Write, Begin
  <2> QED
    BY <2>2, <2>3, CallBegins DEF Write
<1>2. CASE handle[s].leaf # handle[s].head
  <2>1. PICK q : q = withSync(s, <<HeadRec(handle[s].leaf)>>)
    OBVIOUS
  <2>2. \A k \in DOMAIN q : q[k].op \in {"head", "mark", "sync"} /\ q[k].st = "dirty"
    <3>1. HeadRec(handle[s].leaf).op = "head" /\ HeadRec(handle[s].leaf).st = "dirty"
      BY DEF HeadRec, Rec
    <3>2. handle[s].leaf \in Entries \cup {Root}
      BY SessionTypes DEF LogInv, Handles
    <3>3. HeadRec(handle[s].leaf) \in Records
      BY <3>2, RecordTypes
    <3> QED
      BY <2>1, <3>1, <3>3, WithSyncShape
  <2>3. PICK c : c = HeadCall(s, "syncHead", handle[s].leaf, e)
    OBVIOUS
  <2>4. c.pc = "flush" /\ c.durable /\ c.kind # "write" /\ c.recs = q
    BY <2>1, <2>3 DEF HeadCall, NoCall
  <2>5. call' = [call EXCEPT ![s] = c]
    BY <1>2, <2>3 DEF Write, Begin
  <2> QED
    BY <2>2, <2>4, <2>5, CallBegins DEF Write
<1> QED
  BY <1>1, <1>2

LEMMA SetHeadKeeps ==
    ASSUME LogInv, TypeOK', NEW s \in Sessions, NEW to \in Entries \cup {Root}, SetHead(s, to)
    PROVE  LogInv'
<1>1. PICK q : q = withSync(s, <<HeadRec(to)>>)
  OBVIOUS
<1>2. \A k \in DOMAIN q : q[k].op \in {"head", "mark", "sync"} /\ q[k].st = "dirty"
  <2>1. HeadRec(to).op = "head" /\ HeadRec(to).st = "dirty"
    BY DEF HeadRec, Rec
  <2> QED
    BY <1>1, <2>1, WithSyncShape, RecordTypes
<1>3. PICK c : c = HeadCall(s, "setHead", to, None)
  OBVIOUS
<1>4. c.pc = "flush" /\ c.durable /\ c.kind # "write" /\ c.recs = q
  BY <1>1, <1>3 DEF HeadCall, NoCall
<1>5. call' = [call EXCEPT ![s] = c]
  BY <1>3 DEF SetHead, Begin
<1> QED
  BY <1>2, <1>4, <1>5, CallBegins DEF SetHead

LEMMA SetMarkKeeps ==
    ASSUME LogInv, TypeOK', NEW s \in Sessions, NEW mark \in Marks, SetMark(s, mark)
    PROVE  LogInv'
<1>1. PICK q : q = withSync(s, <<MarkRec(mark)>>)
  OBVIOUS
<1>2. \A k \in DOMAIN q : q[k].op \in {"head", "mark", "sync"} /\ q[k].st = "dirty"
  <2>1. MarkRec(mark).op = "mark" /\ MarkRec(mark).st = "dirty"
    BY DEF MarkRec, Rec
  <2> QED
    BY <1>1, <2>1, WithSyncShape, RecordTypes
<1>3. PICK c : c = [NoCall EXCEPT !.pc = "flush", !.kind = "setMark", !.durable = TRUE,
                                   !.mark = mark, !.recs = q]
  OBVIOUS
<1>4. c.pc = "flush" /\ c.durable /\ c.kind # "write" /\ c.recs = q
  BY <1>3 DEF NoCall
<1>5. call' = [call EXCEPT ![s] = c]
  BY <1>1, <1>3 DEF SetMark, Begin
<1> QED
  BY <1>2, <1>4, <1>5, CallBegins DEF SetMark

\* Sync, a bundle and Release of a session with working state.
LEMMA CommitBegins ==
    ASSUME LogInv, TypeOK', NEW s \in Sessions, HeldIdle(s), ~stopped,
           NEW kind \in {"commit", "release"}, Begin(s, CommitCall(kind)),
           UNCHANGED <<log, obj, wrote, stopped, handle, acked>>
    PROVE  LogInv'
<1>1. PICK c : c = CommitCall(kind)
  OBVIOUS
<1>2. c.pc = "flush" /\ c.durable /\ c.kind # "write" /\ c.recs = <<SyncRec>>
  BY <1>1 DEF CommitCall, NoCall
<1>3. \A k \in DOMAIN c.recs : c.recs[k].op = "sync" /\ c.recs[k].st = "dirty"
  BY <1>2 DEF SyncRec, Rec
<1>4. call' = [call EXCEPT ![s] = c]
  BY <1>1 DEF Begin
<1> QED
  BY <1>2, <1>3, <1>4, CallBegins

\* A call that ends with nothing written.
LEMMA EndKeeps ==
    ASSUME LogInv, TypeOK', NEW s \in Sessions, DiskStays, stopped => stopped',
           ~stopped' => obj' = obj, UNCHANGED <<log, wrote, acked>>,
           call[s].pc \notin {"fsync", "cut"}, call' = [call EXCEPT ![s] = NoCall],
           handle' = handle \/ handle' = [handle EXCEPT ![s] = NoHandle]
    PROVE  LogInv'
<1>1. TypeOK /\ SessionInv(s) /\ WroteInv
  BY DEF LogInv
<1>2. /\ call'[s] = NoCall /\ OnlyOf(s)
      /\ handle'[s] = handle[s] \/ handle'[s] = NoHandle
  BY <1>1 DEF TypeOK, OnlyOf
<1>3. WroteInv'
  <2>1. \A t \in Sessions : handle'[t].pend \subseteq handle[t].pend
    BY <1>1, <1>2 DEF OnlyOf, NoHandle
  <2> QED
    BY <1>1, <2>1 DEF WroteInv
<1>4. SessionInv(s)'
  BY <1>1, <1>2, CallEnds
<1> QED
  BY <1>2, <1>3, <1>4, OneMoves

LEMMA PrepareReturnsKeeps ==
    ASSUME LogInv, TypeOK', NEW s \in Sessions, PrepareReturns(s)
    PROVE  LogInv'
<1>1. DiskStays
  BY DEF PrepareReturns, DiskStays
<1>2. stopped => stopped'
  BY DEF PrepareReturns
<1>3. /\ call[s].pc = "prepare" /\ call' = [call EXCEPT ![s] = NoCall]
      /\ UNCHANGED <<log, obj, wrote, handle, acked>>
  BY DEF PrepareReturns
<1> QED
  BY <1>1, <1>2, <1>3, EndKeeps

LEMMA RecoverFailsKeeps ==
    ASSUME LogInv, TypeOK', NEW s \in Sessions, RecoverFails(s)
    PROVE  LogInv'
<1>1. DiskStays
  BY DEF RecoverFails, DiskStays
<1> QED
  BY <1>1, EndKeeps DEF RecoverFails

LEMMA LogWriteFailsKeeps ==
    ASSUME LogInv, TypeOK', NEW s \in Sessions, LogWriteFails(s)
    PROVE  LogInv'
<1>1. DiskStays
  BY DEF LogWriteFails, DiskStays
<1>2. /\ call' = [call EXCEPT ![s] = NoCall]
      /\ handle' = handle \/ handle' = [handle EXCEPT ![s] = NoHandle]
  BY DEF LogWriteFails, Drop
<1> QED
  BY <1>1, <1>2, EndKeeps DEF LogWriteFails

LEMMA FlushFailsKeeps ==
    ASSUME LogInv, TypeOK', NEW s \in Sessions, FlushFails(s)
    PROVE  LogInv'
<1>1. DiskStays
  BY DEF FlushFails, Dirty, DiskStays
<1> QED
  BY <1>1, EndKeeps DEF FlushFails, Drop

\* A step that only lets a session go, or serves it, or moves its leaf.
LEMMA ReleaseKeeps ==
    ASSUME LogInv, TypeOK', NEW s \in Sessions, Release(s)
    PROVE  LogInv'
<1>1. CASE Begin(s, CommitCall("release")) /\ ~stopped /\ UNCHANGED handle
  BY <1>1, CommitBegins DEF Release
<1>2. CASE handle' = [handle EXCEPT ![s] = NoHandle] /\ UNCHANGED call
  <2>1. TypeOK /\ SessionInv(s) /\ WroteInv
    BY DEF LogInv
  <2>2. handle'[s] = NoHandle /\ OnlyOf(s) /\ DiskStays /\ call'[s].pc = "idle"
    BY <1>2, <2>1 DEF Release, TypeOK, OnlyOf, DiskStays, HeldIdle, Idle
  <2>3. ~handle'[s].held /\ handle'[s].pend = {}
    BY <2>2 DEF NoHandle
  <2>4. WroteInv'
    BY <2>1, <2>2, <2>3 DEF Release, WroteInv, OnlyOf
  <2>5. CallInv(s)' /\ RecsInv(s)' /\ PlanInv(s)' /\ OwedInv(s)' /\ OwnInv(s)'
    BY <2>2, <2>3 DEF CallInv, RecsInv, PlanInv, OwedInv, OwnInv, Live
  <2>6. Accepted(s)' = Accepted(s)
    BY <1>2 DEF Release, Accepted
  <2>7. StoredInv(s)' /\ LostInv(log[s])' /\ OnceInv(log[s])' /\ AckedInv(s)' /\ PhantomInv(s)'
    BY <2>1, <2>2, <2>3, <2>6, LogStays DEF Release
  <2>8. SessionInv(s)'
    BY <2>5, <2>7 DEF SessionInv
  <2> QED
    BY <2>2, <2>4, <2>8, OneMoves DEF Release
<1> QED
  BY <1>1, <1>2 DEF Release

\* A session whose handle keeps all but its leaf.
LEMMA LeafMoves ==
    ASSUME LogInv, TypeOK', UNCHANGED <<log, obj, wrote, stopped, call, acked>>,
           \A s \in Sessions : /\ handle'[s].held = handle[s].held
                               /\ handle'[s].own = handle[s].own
                               /\ handle'[s].pend = handle[s].pend
    PROVE  LogInv'
<1>1. WroteInv'
  BY WroteStays DEF LogInv
<1>2. DiskStays
  BY DEF DiskStays
<1>3. ASSUME NEW s \in Sessions PROVE SessionInv(s)'
  BY <1>2, SessionStays DEF LogInv
<1> QED
  BY <1>1, <1>3 DEF LogInv

LEMMA BranchKeeps ==
    ASSUME LogInv, TypeOK', NEW s \in Sessions, NEW x \in Entries \cup {Root}, Branch(s, x)
    PROVE  LogInv'
<1>1. \A t \in Sessions : /\ handle'[t].held = handle[t].held
                          /\ handle'[t].own = handle[t].own
                          /\ handle'[t].pend = handle[t].pend
  BY SessionTypes DEF Branch, LogInv, TypeOK, Handles
<1> QED
  BY <1>1, LeafMoves DEF Branch

LEMMA CommitKeeps ==
    ASSUME LogInv, TypeOK', NEW s \in Sessions, Commit(s)
    PROVE  LogInv'
<1>1. CASE Begin(s, CommitCall("commit")) /\ ~stopped
  BY <1>1, CommitBegins DEF Commit
<1>2. CASE UNCHANGED call
  BY <1>2, LeafMoves DEF Commit
<1> QED
  BY <1>1, <1>2 DEF Commit

\* Prepare: the entry's objects are owed before its append is written.
LEMMA PrepareKeeps ==
    ASSUME LogInv, TypeOK', NEW s \in Sessions, Prepare(s)
    PROVE  LogInv'
<1>1. TypeOK /\ SessionInv(s) /\ WroteInv /\ call[s].pc = "prepare" /\ ~stopped
  BY DEF LogInv, Prepare
<1>2. PICK e : e = call[s].entry
  OBVIOUS
<1>3. e \in Entries /\ Names[e] \subseteq Objects /\ e \notin handle[s].own /\ handle[s].held
  BY <1>1, <1>2, SessionTypes, ConstantsAssumption DEF Calls, Prepare, SessionInv, CallInv
<1>4. /\ obj' = storeEntry(e) /\ wrote' = wrote \cup Names[e]
      /\ handle' = [handle EXCEPT ![s].pend = @ \cup Names[e]]
      /\ UNCHANGED <<log, stopped, acked>>
  BY <1>2 DEF Prepare
<1>5. PICK durable \in BOOLEAN : call' = [call EXCEPT ![s] = WriteCall(s, e, durable)]
  BY <1>2 DEF Prepare
<1>6. DiskStays /\ OnlyOf(s)
  BY <1>1, <1>4, <1>5 DEF DiskStays, storeEntry, OnlyOf, TypeOK
<1>7. /\ handle'[s].held = handle[s].held /\ handle'[s].own = handle[s].own
      /\ handle'[s].pend = handle[s].pend \cup Names[e]
  BY <1>1, <1>4, SessionTypes DEF TypeOK, Handles
<1>8. WroteInv'
  <2>1. \A o \in wrote \cup Names[e] : obj'[o] \in {"dirty", "disk"}
    BY <1>1, <1>3, <1>4 DEF WroteInv, storeEntry, TypeOK
  <2>2. \A t \in Sessions : handle'[t].pend \subseteq wrote'
    BY <1>1, <1>4, <1>6, <1>7 DEF WroteInv, OnlyOf
  <2> QED
    BY <1>4, <2>1, <2>2 DEF WroteInv
<1>9. PICK h : h = headFor(handle[s].own, handle[s].leaf, e)
  OBVIOUS
<1>10. PICK r : r = AppendRec(e, h, durable)
  OBVIOUS
<1>11. r \in Records /\ r.op = "append" /\ r.entry = e /\ r.lazy = ~durable /\ r.st = "dirty"
  <2>1. handle[s].leaf \in Entries \cup {Root}
    BY <1>1, SessionTypes DEF Handles
  <2>2. h \in Entries \cup {Root, None}
    BY <1>3, <1>9, <2>1, ConstantsAssumption DEF headFor
  <2> QED
    BY <1>3, <1>10, <2>2, RecordTypes DEF AppendRec, Rec
<1>12. PICK q : q = IF durable THEN withSync(s, <<r>>) ELSE <<r>>
  OBVIOUS
<1>13. /\ q # <<>> /\ q[1] = r /\ 1 \in DOMAIN q
       /\ \A k \in DOMAIN q : k = 1 \/ (durable /\ q[k] = SyncRec)
  <2>1. <<r>> \in Seq(Records) /\ Len(<<r>>) = 1 /\ <<r>>[1] = r /\ SyncRec \in Records
    BY <1>11, RecordTypes
  <2>2. CASE durable /\ handle[s].lazy
    <3>1. q = Append(<<r>>, SyncRec)
      BY <1>12, <2>2 DEF withSync
    <3>2. q \in Seq(Records) /\ Len(q) = 2 /\ q[1] = r /\ q[2] = SyncRec
      BY <2>1, <3>1, AppendProperties
    <3>3. DOMAIN q = 1..2
      BY <3>2, LogIndices
    <3> QED
      BY <2>2, <3>2, <3>3
  <2>3. CASE ~(durable /\ handle[s].lazy)
    <3>1. q = <<r>>
      BY <1>12, <2>3 DEF withSync
    <3> QED
      BY <3>1
  <2> QED
    BY <2>2, <2>3
<1>14. SyncRec.op = "sync" /\ SyncRec.st = "dirty"
  BY DEF SyncRec, Rec
<1>15. PICK c : c = call'[s]
  OBVIOUS
<1>16. /\ c.pc = IF durable THEN "flush" ELSE "log"
       /\ c.kind = "write" /\ c.durable = durable /\ c.entry = e /\ c.recs = q
  <2>1. c = WriteCall(s, e, durable)
    BY <1>1, <1>5, <1>15 DEF TypeOK
  <2> QED
    BY <1>9, <1>10, <1>12, <2>1 DEF WriteCall, NoCall
<1>17. CallInv(s)'
  BY <1>3, <1>7, <1>15, <1>16 DEF CallInv
<1>18. RecsInv(s)'
  BY <1>3, <1>7, <1>11, <1>13, <1>14, <1>15, <1>16 DEF RecsInv
<1>19. OwedInv(s)'
  <2>1. \A i \in DOMAIN log[s] : Pending(log[s], i) => Names[log[s][i].entry] \subseteq Objects
    BY <1>1, SessionTypes, LogIndices, EntriesOfRecords, ConstantsAssumption DEF Pending
  <2>2. Live(s)
    BY <1>1, <1>3 DEF Live
  <2> QED
    BY <1>1, <1>4, <1>6, <1>7, <2>1, <2>2 DEF SessionInv, OwedInv, DiskStays
<1>20. SessionInv(s)'
  <2>1. call'[s].pc \in {"prepare", "flush", "log"}
    BY <1>15, <1>16
  <2> QED
    BY <1>1, <1>3, <1>4, <1>6, <1>7, <1>17, <1>18, <1>19, <2>1, CallGoesOn
<1> QED
  BY <1>4, <1>6, <1>8, <1>20, OneMoves

\* Flush: what the call owes is on disk before its records are written.
LEMMA FlushKeeps ==
    ASSUME LogInv, TypeOK', NEW s \in Sessions, Flush(s)
    PROVE  LogInv'
<1>1. TypeOK /\ SessionInv(s) /\ WroteInv /\ call[s].pc = "flush"
  BY DEF LogInv, Flush
<1>2. CASE stopped
  <2>1. DiskStays
    BY <1>2 DEF Flush, DiskStays
  <2> QED
    BY <1>1, <1>2, <2>1, EndKeeps DEF Flush, Drop
<1>3. CASE ~stopped
  <2>1. /\ obj' = [o \in Objects |-> IF o \in Dirty(handle[s].pend) THEN "disk" ELSE obj[o]]
        /\ handle' = [handle EXCEPT ![s].pend = {}]
        /\ call' = [call EXCEPT ![s].pc = "log"]
        /\ UNCHANGED <<log, wrote, stopped, acked>>
    BY <1>3 DEF Flush
  <2>2. DiskStays /\ OnlyOf(s)
    BY <1>1, <2>1 DEF DiskStays, OnlyOf, TypeOK, Dirty
  <2>3. /\ handle'[s].held = handle[s].held /\ handle'[s].own = handle[s].own
        /\ handle'[s].pend = {}
    BY <1>1, <2>1, SessionTypes DEF TypeOK, Handles
  <2>4. PICK b : b = call[s] OBVIOUS
  <2>5. b \in Calls /\ b.pc = "flush" /\ handle[s].held
    BY <1>1, <2>4, SessionTypes DEF SessionInv, CallInv
  <2>6. PICK c : c = [b EXCEPT !.pc = "log"] OBVIOUS
  <2>7. /\ call'[s] = c /\ c.pc = "log" /\ c.kind = b.kind /\ c.durable = b.durable
        /\ c.recs = b.recs /\ c.entry = b.entry
    BY <1>1, <2>1, <2>4, <2>5, <2>6 DEF TypeOK, Calls
  <2>8. \A o \in Objects : obj[o] = "disk" \/ o \in handle[s].pend => obj'[o] = "disk"
    BY <1>1, <1>3, <2>1 DEF WroteInv, Dirty, TypeOK
  <2>9. WroteInv'
    <3>1. \A o \in wrote : obj'[o] \in {"dirty", "disk"}
      BY <1>1, <1>3, <2>1 DEF WroteInv, TypeOK
    <3>2. \A t \in Sessions : handle'[t].pend \subseteq wrote
      BY <1>1, <2>2, <2>3 DEF WroteInv, OnlyOf
    <3> QED
      BY <2>1, <3>1, <3>2 DEF WroteInv
  <2>10. CallInv(s)'
    BY <1>1, <2>3, <2>4, <2>5, <2>7 DEF CallInv
  <2>11. RecsInv(s)'
    <3>1. RecsInv(s)
      BY <1>1 DEF SessionInv
    <3>2. b.kind = "write" => Names[b.entry] \subseteq Objects
      BY <2>5, ConstantsAssumption DEF Calls
    <3> QED
      BY <2>3, <2>4, <2>5, <2>7, <2>8, <3>1, <3>2 DEF RecsInv
  <2>12. OwedInv(s)'
    <3>1. \A i \in DOMAIN log[s] : Pending(log[s], i) => Names[log[s][i].entry] \subseteq Objects
      BY <1>1, SessionTypes, LogIndices, EntriesOfRecords, ConstantsAssumption DEF Pending
    <3>2. Live(s)
      BY <1>3, <2>5 DEF Live
    <3> QED
      BY <1>1, <2>1, <2>8, <3>1, <3>2 DEF SessionInv, OwedInv
  <2>13. SessionInv(s)'
    BY <1>1, <1>3, <2>1, <2>2, <2>3, <2>5, <2>7, <2>10, <2>11, <2>12, CallGoesOn
  <2> QED
    BY <2>1, <2>2, <2>9, <2>13, OneMoves
<1> QED
  BY <1>2, <1>3

\* Records written at the end of a log, with no loss among them.
LEMMA Grown ==
    ASSUME NEW l \in Seq(Records), NEW q \in Seq(Records), NEW r, r = l \o q,
           \A k \in DOMAIN q : q[k].op # "lost"
    PROVE  /\ r \in Seq(Records) /\ Len(r) = Len(l) + Len(q) /\ DOMAIN r = 1..Len(r)
           /\ \A i \in DOMAIN l : i \in DOMAIN r /\ r[i] = l[i]
           /\ \A i \in DOMAIN r \ DOMAIN l :
                i > Len(l) /\ i - Len(l) \in DOMAIN q /\ r[i] = q[i - Len(l)]
           /\ \A e : \A i \in Nat : Gone(r, e, i) <=> Gone(l, e, i)
           /\ \A e : \A i \in DOMAIN r \ DOMAIN l : ~Gone(r, e, i)
           /\ \A i \in DOMAIN l : Covered(l, i) => Covered(r, i)
           /\ (\A k \in DOMAIN q : q[k].op # "sync") =>
                \A i \in DOMAIN l : Covered(r, i) => Covered(l, i)
<1>1. /\ Len(l) \in Nat /\ DOMAIN l = 1..Len(l) /\ Len(q) \in Nat /\ DOMAIN q = 1..Len(q)
  BY LogIndices
<1>2. /\ r \in Seq(Records) /\ Len(r) = Len(l) + Len(q)
      /\ \A i \in 1..Len(r) : r[i] = IF i <= Len(l) THEN l[i] ELSE q[i - Len(l)]
  BY ConcatProperties, <1>1
<1>3. DOMAIN r = 1..Len(r)
  BY <1>2, LogIndices
<1>4. \A i \in DOMAIN l : i \in DOMAIN r /\ r[i] = l[i]
  BY <1>1, <1>2, <1>3
<1>5. \A i \in DOMAIN r \ DOMAIN l :
         i > Len(l) /\ i - Len(l) \in DOMAIN q /\ r[i] = q[i - Len(l)]
  BY <1>1, <1>2, <1>3
<1>6. \A k \in DOMAIN r : r[k].op = "lost" => k \in DOMAIN l
  BY <1>5
<1>7. \A e : \A i \in Nat : Gone(r, e, i) <=> Gone(l, e, i)
  BY <1>4, <1>6 DEF Gone
<1>8. \A e : \A i \in DOMAIN r \ DOMAIN l : ~Gone(r, e, i)
  BY <1>1, <1>3, <1>5, <1>6 DEF Gone
<1>9. \A i \in DOMAIN l : Covered(l, i) => Covered(r, i)
  BY <1>4 DEF Covered
<1>10. ASSUME \A k \in DOMAIN q : q[k].op # "sync"
       PROVE  \A i \in DOMAIN l : Covered(r, i) => Covered(l, i)
  BY <1>4, <1>5, <1>10 DEF Covered
<1> QED
  BY <1>2, <1>3, <1>4, <1>5, <1>7, <1>8, <1>9, <1>10

\* What a completed call leaves of the handle, the call and the acknowledged.
LEMMA Completed ==
    ASSUME TypeOK, NEW s \in Sessions, Complete(s)
    PROVE  /\ call[s].kind = "release" => ~handle'[s].held /\ handle'[s].pend = {}
           /\ call[s].kind # "release" =>
                /\ handle'[s].held = handle[s].held /\ handle'[s].pend = handle[s].pend
                /\ handle'[s].own = handle[s].own \cup
                     (IF call[s].kind = "write" THEN {call[s].entry} ELSE {})
           /\ call'[s].pc \in {"idle", "prepare"}
           /\ call'[s].pc = "prepare" => call[s].kind = "syncHead"
           /\ acked'[s] = IF call[s].durable
                          THEN acked[s] \cup handle[s].own \cup
                                 (IF call[s].kind = "write" THEN {call[s].entry} ELSE {})
                          ELSE acked[s]
           /\ \A t \in Sessions \ {s} :
                handle'[t] = handle[t] /\ call'[t] = call[t] /\ acked'[t] = acked[t]
<1>1. PICK h : h = handle[s] OBVIOUS
<1>2. PICK c : c = call[s] OBVIOUS
<1>3. h \in Handles /\ c \in Calls
  BY <1>1, <1>2, SessionTypes
<1>4. PICK g : g = After(h, c) OBVIOUS
<1>5. c.kind = "release" => ~g.held /\ g.pend = {}
  BY <1>4 DEF After, NoHandle
<1>6. c.kind # "release" =>
         /\ g.held = h.held /\ g.pend = h.pend
         /\ g.own = h.own \cup (IF c.kind = "write" THEN {c.entry} ELSE {})
  <2>1. CASE c.kind = "write"
    BY <1>3, <1>4, <2>1 DEF After, Handles
  <2>2. CASE c.kind = "syncHead"
    BY <1>3, <1>4, <2>2 DEF After, Handles
  <2>3. CASE c.kind = "setHead"
    BY <1>3, <1>4, <2>3 DEF After, Handles
  <2>4. CASE c.kind = "setMark"
    BY <1>3, <1>4, <2>4 DEF After, Handles
  <2>5. CASE c.kind \notin {"write", "syncHead", "setHead", "setMark", "release"}
    BY <1>3, <1>4, <2>5 DEF After, Handles
  <2> QED
    BY <2>1, <2>2, <2>3, <2>4, <2>5
<1>7. StateAfter(h, c).own = h.own \cup (IF c.kind = "write" THEN {c.entry} ELSE {})
  BY <1>4, <1>6 DEF StateAfter, StateOf
<1>8. handle'[s] = g
  BY <1>1, <1>2, <1>4 DEF Complete, TypeOK
<1>9. acked'[s] = IF c.durable THEN acked[s] \cup StateAfter(h, c).own ELSE acked[s]
  BY <1>1, <1>2 DEF Complete, TypeOK
<1>10. call'[s] = IF c.kind = "syncHead"
                  THEN [NoCall EXCEPT !.pc = "prepare", !.kind = "write", !.entry = c.entry]
                  ELSE NoCall
  BY <1>2 DEF Complete, TypeOK
<1>11. /\ call'[s].pc \in {"idle", "prepare"}
       /\ call'[s].pc = "prepare" => c.kind = "syncHead"
  BY <1>10 DEF NoCall
<1>12. \A t \in Sessions \ {s} :
         handle'[t] = handle[t] /\ call'[t] = call[t] /\ acked'[t] = acked[t]
  BY DEF Complete, TypeOK
<1> QED
  BY <1>1, <1>2, <1>5, <1>6, <1>7, <1>8, <1>9, <1>11, <1>12

\* The records are written: a durable call owes nothing by now, so what its
\* sync record covers is on disk; a lazy one adds working state.
LEMMA LogWriteKeeps ==
    ASSUME LogInv, TypeOK', NEW s \in Sessions, LogWrite(s)
    PROVE  LogInv'
<1>1. TypeOK /\ SessionInv(s) /\ WroteInv /\ UNCHANGED <<obj, wrote, stopped>>
  BY DEF LogInv, LogWrite
<1>2. PICK l : l = log[s] OBVIOUS
<1>3. PICK c : c = call[s] OBVIOUS
<1>4. PICK q : q = c.recs OBVIOUS
<1>5. PICK r : r = l \o q OBVIOUS
<1>6. /\ l \in Seq(Records) /\ q \in Seq(Records) /\ c \in Calls /\ handle[s] \in Handles
      /\ Len(l) \in Nat /\ DOMAIN l = 1..Len(l) /\ Len(q) \in Nat /\ DOMAIN q = 1..Len(q)
  BY <1>1, <1>2, <1>3, <1>4, SessionTypes
<1>7. c.pc = "log" /\ handle[s].held /\ (c.durable => handle[s].pend = {})
  BY <1>1, <1>3 DEF LogWrite, SessionInv, CallInv
<1>8. /\ \A k \in DOMAIN q :
            /\ q[k].op \in {"append", "head", "mark", "sync"} /\ q[k].st = "dirty"
            /\ q[k].op = "append" => /\ k = 1 /\ c.kind = "write" /\ q[k].entry = c.entry
                                     /\ q[k].lazy = ~c.durable
            /\ q[k].op = "sync" => c.durable
            /\ ~c.durable => k = 1 /\ q[k].op = "append"
      /\ c.kind = "write" =>
            /\ q # <<>> /\ q[1].op = "append" /\ c.entry \notin handle[s].own
            /\ \A o \in Names[c.entry] : obj[o] = "disk" \/ o \in handle[s].pend
      /\ c.durable \/ c.kind = "write"
  BY <1>1, <1>3, <1>4, <1>7 DEF SessionInv, RecsInv
<1>9. \A k \in DOMAIN q : q[k].op # "lost"
  BY <1>8
<1>10. /\ r \in Seq(Records) /\ Len(r) = Len(l) + Len(q) /\ DOMAIN r = 1..Len(r)
       /\ \A i \in DOMAIN l : i \in DOMAIN r /\ r[i] = l[i]
       /\ \A i \in DOMAIN r \ DOMAIN l :
            i > Len(l) /\ i - Len(l) \in DOMAIN q /\ r[i] = q[i - Len(l)]
       /\ \A e : \A i \in Nat : Gone(r, e, i) <=> Gone(l, e, i)
       /\ \A e : \A i \in DOMAIN r \ DOMAIN l : ~Gone(r, e, i)
       /\ \A i \in DOMAIN l : Covered(l, i) => Covered(r, i)
       /\ (\A k \in DOMAIN q : q[k].op # "sync") =>
            \A i \in DOMAIN l : Covered(r, i) => Covered(l, i)
  <2>1. l \in Seq(Records) /\ q \in Seq(Records) /\ r = l \o q
    BY <1>5, <1>6
  <2>2. /\ r \in Seq(Records) /\ Len(r) = Len(l) + Len(q) /\ DOMAIN r = 1..Len(r)
        /\ \A i \in DOMAIN l : i \in DOMAIN r /\ r[i] = l[i]
    BY <2>1, <1>9, Grown
  <2>3. \A i \in DOMAIN r \ DOMAIN l :
            i > Len(l) /\ i - Len(l) \in DOMAIN q /\ r[i] = q[i - Len(l)]
    BY <2>1, <1>9, Grown
  <2>4. \A e : \A i \in Nat : Gone(r, e, i) <=> Gone(l, e, i)
    BY <2>1, <1>9, Grown
  <2>6. \A e : \A i \in DOMAIN r \ DOMAIN l : ~Gone(r, e, i)
    BY <2>1, <1>9, Grown
  <2>5. /\ \A i \in DOMAIN l : Covered(l, i) => Covered(r, i)
        /\ (\A k \in DOMAIN q : q[k].op # "sync") =>
             \A i \in DOMAIN l : Covered(r, i) => Covered(l, i)
    BY <2>1, <1>9, Grown
  <2> QED
    BY <2>2, <2>3, <2>4, <2>5, <2>6
<1>11. log'[s] = r /\ \A t \in Sessions \ {s} : log'[t] = log[t]
  BY <1>1, <1>2, <1>3, <1>4, <1>5 DEF LogWrite, TypeOK
<1>12. /\ handle'[s].held = handle[s].held /\ handle'[s].pend = handle[s].pend
       /\ c.durable => /\ handle'[s] = handle[s] /\ call'[s].pc = "fsync" /\ call'[s].kind = c.kind
                       /\ call'[s].recs = q /\ call'[s].entry = c.entry /\ call'[s].durable
       /\ ~c.durable => handle'[s].own = handle[s].own \cup {c.entry} /\ call'[s].pc = "idle"
       /\ acked'[s] = acked[s]
       /\ OnlyOf(s)
  <2>1. CASE c.durable
    <3>1. /\ call' = [call EXCEPT ![s].pc = "fsync"]
          /\ UNCHANGED <<handle, acked>>
      BY <1>3, <2>1 DEF LogWrite
    <3>2. PICK d : d = [c EXCEPT !.pc = "fsync"] OBVIOUS
    <3>3. d.pc = "fsync" /\ d.kind = c.kind /\ d.recs = q /\ d.entry = c.entry /\ d.durable
      BY <1>4, <1>6, <2>1, <3>2 DEF Calls
    <3>4. call'[s] = d /\ \A t \in Sessions \ {s} : call'[t] = call[t]
      BY <1>1, <1>3, <3>1, <3>2 DEF TypeOK
    <3> QED
      BY <1>11, <2>1, <3>1, <3>3, <3>4 DEF OnlyOf
  <2>2. CASE ~c.durable
    <3>1. Complete(s) /\ c.kind = "write"
      BY <1>3, <1>8, <2>2 DEF LogWrite
    <3> QED
      BY <1>1, <1>3, <1>11, <2>2, <3>1, Completed DEF OnlyOf
  <2> QED
    BY <2>1, <2>2
<1>13. Live(s) /\ (Live(s)' => TRUE)
  BY <1>3, <1>7 DEF Live, Idle
<1>14. \A i \in DOMAIN l : l[i].op = "append" => l[i].entry \in Entries
  BY <1>6, LogIndices, EntriesOfRecords
<1>15. \A i \in DOMAIN l : Pending(r, i) => Pending(l, i)
  BY <1>6, <1>10 DEF Pending
<1>16. ~c.durable => \A i \in DOMAIN l : Pending(l, i) => Pending(r, i)
  <2>1. ~c.durable => \A k \in DOMAIN q : q[k].op # "sync"
    BY <1>8
  <2> QED
    <3>1. ASSUME ~c.durable, NEW i \in DOMAIN l, Pending(l, i) PROVE Pending(r, i)
      <4>1. r[i] = l[i] /\ i \in Nat
        BY <1>6, <1>10
      <4>2. ~Covered(r, i)
        BY <1>10, <2>1, <3>1 DEF Pending
      <4>3. ~Gone(r, r[i].entry, i)
        BY <1>10, <3>1, <4>1 DEF Pending
      <4> QED
        BY <3>1, <4>1, <4>2, <4>3 DEF Pending
    <3> QED
      BY <3>1
<1>17. /\ Accepted(s) = Len(l)
       /\ Accepted(s)' = IF c.durable THEN Len(l) ELSE Len(r)
  <2>1. Accepted(s) = Len(l)
    BY <1>2, <1>3, <1>6, <1>7 DEF Accepted
  <2>2. c.durable => Accepted(s)' = Len(r) - Len(q)
    BY <1>11, <1>12 DEF Accepted
  <2>3. Len(r) = Len(l) + Len(q) /\ Len(l) \in Nat /\ Len(q) \in Nat /\ Len(r) \in Nat
    BY <1>6, <1>10
  <2>4. ~c.durable => Accepted(s)' = Len(r)
    <3>1. ~c.durable => call'[s].pc = "idle"
      BY <1>12
    <3>2. log'[s] = r
      BY <1>11
    <3>3. ASSUME ~c.durable PROVE Accepted(s)' = Len(r) - 0
      BY <3>1, <3>2, <3>3 DEF Accepted
    <3> QED
      BY <2>3, <3>3
  <2> QED
    BY <2>1, <2>2, <2>3, <2>4
<1>18. CallInv(s)'
  BY <1>6, <1>7, <1>10, <1>11, <1>12 DEF CallInv
<1>19. RecsInv(s)'
  <2>1. CASE c.durable
    <3>1. c.kind = "write" => AppendAt(r, c.entry, Len(l) + 1)
      <4>1. c.kind = "write" => Len(q) # 0
        BY <1>6, <1>8, EmptySeq
      <4>2. c.kind = "write" => Len(l) + 1 \in DOMAIN r \ DOMAIN l
        BY <1>6, <1>10, <4>1
      <4>3. c.kind = "write" => r[Len(l) + 1] = q[1] /\ 1 \in DOMAIN q
        BY <1>6, <1>10, <4>1, <4>2
      <4> QED
        BY <1>8, <1>10, <4>2, <4>3 DEF AppendAt
    <3>2. \A k \in DOMAIN r : k > Len(l) => r[k].op # "lost"
      BY <1>6, <1>9, <1>10
    <3>3. c.kind = "write" => \E i \in DOMAIN r : AppendAt(r, c.entry, i)
      BY <3>1 DEF AppendAt
    <3> QED
      BY <1>11, <1>12, <1>17, <2>1, <3>2, <3>3 DEF RecsInv
  <2>2. CASE ~c.durable
    BY <1>12, <2>2 DEF RecsInv
  <2> QED
    BY <2>1, <2>2
<1>20. StoredInv(s)'
  <2>1. ASSUME NEW i \in DOMAIN l, r[i].op = "append", ~Gone(r, r[i].entry, i), ~Pending(r, i)
        PROVE  AllOnDisk(r[i].entry)
    <3>1. r[i] = l[i] /\ l[i].op = "append" /\ ~Gone(l, l[i].entry, i) /\ i \in Nat
      BY <1>6, <1>10, <2>1
    <3>2. CASE ~Pending(l, i)
      BY <1>1, <1>2, <3>1, <3>2 DEF SessionInv, StoredInv
    <3>3. CASE Pending(l, i)
      <4>1. c.durable
        BY <1>16, <2>1, <3>3
      <4> QED
        BY <1>1, <1>2, <1>7, <1>13, <3>1, <3>3, <4>1 DEF SessionInv, OwedInv, AllOnDisk
    <3> QED
      BY <3>2, <3>3
  <2>2. ASSUME NEW i \in DOMAIN r \ DOMAIN l, r[i].op = "append", ~Gone(r, r[i].entry, i),
               ~Pending(r, i)
        PROVE  AllOnDisk(r[i].entry)
    <3>1. /\ i - Len(l) \in DOMAIN q /\ r[i] = q[i - Len(l)]
      BY <1>10
    <3>2. c.kind = "write" /\ r[i].entry = c.entry /\ r[i].lazy = ~c.durable /\ i - Len(l) = 1
      BY <1>8, <2>2, <3>1
    <3>3. c.durable
      <4>1. SUFFICES ASSUME ~c.durable PROVE FALSE
        OBVIOUS
      <4>2. ~Covered(r, i)
        <5>1. \A k \in DOMAIN r : k <= Len(r) /\ Len(r) = Len(l) + Len(q)
          BY <1>10
        <5>2. \A k \in DOMAIN q : k = 1
          BY <1>8, <4>1
        <5>3. Len(q) <= 1
          <6>1. Len(q) >= 2 => 2 \in DOMAIN q
            BY <1>6
          <6> QED
            <7>1. Len(q) \in Nat /\ 2 \notin DOMAIN q
              BY <1>6, <5>2
            <7> QED
              BY <6>1, <7>1
        <5> QED
          <6>1. \A k \in DOMAIN r : ~(k > i)
            BY <1>6, <1>10, <3>2, <5>1, <5>3
          <6> QED
            BY <6>1 DEF Covered
      <4> QED
        BY <2>2, <3>2, <4>1, <4>2 DEF Pending
    <3> QED
      BY <1>7, <1>8, <3>2, <3>3 DEF AllOnDisk
  <2>3. \A e : AllOnDisk(e)' <=> AllOnDisk(e)
    BY <1>1 DEF AllOnDisk
  <2> QED
    BY <1>11, <2>1, <2>2, <2>3 DEF StoredInv
<1>21. OwedInv(s)'
  <2>1. ASSUME NEW i \in DOMAIN l, Pending(r, i)
        PROVE  \A o \in Names[r[i].entry] : obj[o] = "disk" \/ o \in handle[s].pend
    <3>1. r[i] = l[i] /\ Pending(l, i)
      BY <1>10, <1>15, <2>1
    <3> QED
      BY <1>1, <1>2, <1>13, <3>1 DEF SessionInv, OwedInv
  <2>2. ASSUME NEW i \in DOMAIN r \ DOMAIN l, Pending(r, i)
        PROVE  \A o \in Names[r[i].entry] : obj[o] = "disk" \/ o \in handle[s].pend
    <3>1. i - Len(l) \in DOMAIN q /\ r[i] = q[i - Len(l)] /\ r[i].op = "append"
      BY <1>10, <2>2 DEF Pending
    <3> QED
      BY <1>8, <3>1
  <2> QED
    BY <1>1, <1>11, <1>12, <2>1, <2>2 DEF OwedInv
<1>22. LostInv(r)
  <2>1. \A k \in DOMAIN r : r[k].op = "lost" => k \in DOMAIN l
    BY <1>9, <1>10
  <2>2. \A k \in DOMAIN l : \A j \in 1..k : j \in DOMAIN l
    BY <1>6
  <2> QED
    BY <1>1, <1>2, <1>10, <2>1, <2>2 DEF SessionInv, LostInv
<1>23. OnceInv(r)
  <2> SUFFICES ASSUME NEW i \in DOMAIN r, NEW j \in DOMAIN r, i < j,
                      r[i].op = "append", r[j].op = "append", r[i].entry = r[j].entry
               PROVE  Gone(r, r[i].entry, i)
    BY DEF OnceInv
  <2>1. CASE j \in DOMAIN l
    <3>1. i \in DOMAIN l /\ i \in Nat
      BY <1>6, <1>10, <2>1
    <3> QED
      BY <1>1, <1>2, <1>10, <2>1, <3>1 DEF SessionInv, OnceInv
  <2>2. CASE j \notin DOMAIN l
    <3>1. j - Len(l) = 1 /\ c.kind = "write" /\ r[j].entry = c.entry
      BY <1>8, <1>10, <2>2
    <3>2. i \in DOMAIN l /\ i \in Nat
      BY <1>6, <1>10, <3>1
    <3>3. r[i] = l[i] /\ l[i].entry \notin handle[s].own
      BY <1>8, <1>10, <3>1, <3>2
    <3>4. Gone(l, l[i].entry, i)
      BY <1>1, <1>2, <1>3, <1>7, <1>13, <3>2, <3>3 DEF SessionInv, OwnInv
    <3> QED
      BY <1>10, <3>2, <3>3, <3>4
  <2> QED
    BY <2>1, <2>2
<1>24. OwnInv(s)'
  <2>1. OwnInv(s)
    BY <1>1 DEF SessionInv
  <2>2. \A e \in handle[s].own : \E i \in DOMAIN r : AppendAt(r, e, i)
    <3> SUFFICES ASSUME NEW e \in handle[s].own PROVE \E i \in DOMAIN r : AppendAt(r, e, i)
      OBVIOUS
    <3>1. PICK i \in DOMAIN l : AppendAt(l, e, i)
      BY <1>2, <1>13, <2>1 DEF OwnInv
    <3> QED
      BY <1>6, <1>10, <3>1 DEF AppendAt
  <2>3. ~c.durable => \E i \in DOMAIN r : AppendAt(r, c.entry, i)
    <3> SUFFICES ASSUME ~c.durable PROVE \E i \in DOMAIN r : AppendAt(r, c.entry, i)
      OBVIOUS
    <3>1. c.kind = "write" /\ Len(q) # 0
      BY <1>6, <1>8, EmptySeq
    <3>2. Len(l) + 1 \in DOMAIN r \ DOMAIN l
      BY <1>6, <1>10, <3>1
    <3>3. r[Len(l) + 1] = q[1] /\ 1 \in DOMAIN q
      BY <1>6, <1>10, <3>1, <3>2
    <3> QED
      BY <1>8, <1>10, <3>1, <3>2, <3>3 DEF AppendAt
  <2>4. ASSUME NEW i \in DOMAIN l
        PROVE  /\ r[i].op # "zero"
               /\ r[i].op = "append" /\ ~Gone(r, r[i].entry, i) => r[i].entry \in handle[s].own
    <3>1. r[i] = l[i] /\ i \in Nat
      BY <1>6, <1>10
    <3> QED
      BY <1>2, <1>3, <1>7, <1>10, <1>13, <2>1, <3>1 DEF OwnInv
  <2>5. ASSUME NEW i \in DOMAIN r \ DOMAIN l
        PROVE  /\ r[i].op # "zero"
               /\ r[i].op = "append" => c.kind = "write" /\ r[i].entry = c.entry
    BY <1>8, <1>10
  <2>6. c.durable => handle'[s].own = handle[s].own
    BY <1>12
  <2>7. CASE c.durable
    BY <1>11, <1>12, <2>2, <2>4, <2>5, <2>7 DEF OwnInv
  <2>8. CASE ~c.durable
    BY <1>11, <1>12, <2>2, <2>3, <2>4, <2>5, <2>8 DEF OwnInv
  <2> QED
    BY <2>7, <2>8
<1>25. PhantomInv(s)'
  <2>1. PhantomInv(s)
    BY <1>1 DEF SessionInv
  <2>2. \A i \in DOMAIN r \ DOMAIN l : r[i].st = "dirty"
    BY <1>8, <1>10
  <2>3. ~FsyncMayFail => \A i \in DOMAIN r : r[i].st # "lost"
    BY <1>2, <1>10, <2>1, <2>2 DEF PhantomInv
  <2>4. handle'[s].held /\ ~stopped' => \A i \in DOMAIN r : r[i].st # "lost"
    BY <1>1, <1>2, <1>10, <1>12, <2>1, <2>2 DEF PhantomInv
  <2>5. ASSUME FsyncMayFail \/ NoDoubtLeft, NEW i \in DOMAIN r, i <= Accepted(s)', r[i].st # "disk"
        PROVE  /\ r[i].op = "append" /\ r[i].lazy
               /\ \A k \in DOMAIN r : i < k /\ k <= Accepted(s)' => r[k].op # "sync"
    <3>1. \A k \in DOMAIN r \ DOMAIN l : k <= Accepted(s)' =>
             ~c.durable /\ r[k].op = "append" /\ r[k].lazy
      <4>1. \A k \in DOMAIN r \ DOMAIN l :
               k > Len(l) /\ k \in Nat /\ k - Len(l) \in DOMAIN q /\ r[k] = q[k - Len(l)]
        BY <1>10
      <4>2. \A k \in DOMAIN r \ DOMAIN l : k <= Accepted(s)' => ~c.durable
        BY <1>6, <1>17, <4>1
      <4> QED
        BY <1>8, <4>1, <4>2
    <3>2. \A k \in DOMAIN l : k <= Accepted(s) /\ r[k] = l[k]
      <4>1. DOMAIN l = 1..Len(l) /\ Len(l) \in Nat /\ \A k \in DOMAIN l : r[k] = l[k]
        BY <1>6, <1>10
      <4> QED
        BY <1>17, <4>1
    <3>3. CASE i \in DOMAIN l
      BY <1>2, <2>1, <2>5, <3>1, <3>2, <3>3 DEF PhantomInv
    <3>4. CASE i \notin DOMAIN l
      <4>1. \A k \in DOMAIN r : i < k => k \notin DOMAIN l
        BY <1>6, <1>10, <3>4
      <4> QED
        BY <2>5, <3>1, <3>4, <4>1
    <3> QED
      BY <3>3, <3>4
  <2> QED
    BY <1>11, <2>3, <2>4, <2>5 DEF PhantomInv
<1>26. PlanInv(s)'
  BY <1>12 DEF PlanInv
<1>27. AckedInv(s)'
  <2> SUFFICES ASSUME NEW e \in acked[s]
               PROVE  \E i \in DOMAIN r : AppendAt(r, e, i) /\ i <= Accepted(s)' /\ Firm(s, i)'
    BY <1>11, <1>12 DEF AckedInv, FirmAt
  <2>1. PICK i \in DOMAIN l : AppendAt(l, e, i) /\ i <= Accepted(s) /\ Firm(s, i)
    BY <1>1, <1>2 DEF SessionInv, AckedInv, FirmAt
  <2>2. i \in DOMAIN r /\ AppendAt(r, e, i) /\ i <= Accepted(s)'
    BY <1>6, <1>10, <1>17, <2>1 DEF AppendAt
  <2>3. \A j \in 1..i : j \in DOMAIN l /\ r[j] = l[j]
    BY <1>6, <1>10
  <2>4. Firm(s, i)'
    BY <1>1, <1>2, <1>11, <1>15, <2>1, <2>3 DEF Firm, AllOnDisk
  <2> QED
    BY <2>2, <2>4
<1>28. SessionInv(s)'
  BY <1>11, <1>18, <1>19, <1>20, <1>21, <1>22, <1>23, <1>24, <1>25, <1>26, <1>27 DEF SessionInv
<1>29. WroteInv'
  BY <1>1, <1>12 DEF WroteInv, OnlyOf
<1>30. DiskStays
  BY <1>1 DEF DiskStays
<1> QED
  BY <1>1, <1>12, <1>28, <1>29, <1>30, OneMoves

\* r is l with records cut off, unwritten or their bytes moved, but no loss
\* forgotten.
Shrinks(l, r) ==
    /\ \A i \in DOMAIN r :
         /\ i \in DOMAIN l
         /\ r[i].op # "zero" => /\ r[i].op = l[i].op /\ r[i].entry = l[i].entry
                                /\ r[i].lazy = l[i].lazy /\ r[i].gone = l[i].gone
                                /\ r[i].head = l[i].head /\ r[i].mark = l[i].mark
    /\ \A k \in DOMAIN l : l[k].op = "lost" =>
         k \in DOMAIN r /\ r[k].op = "lost" /\ r[k].gone = l[k].gone

\* What is lost, covered and working state in such a log.
LEMMA Shrunk ==
    ASSUME NEW l, NEW r, Shrinks(l, r)
    PROVE  /\ \A e : \A i \in Nat : Gone(r, e, i) <=> Gone(l, e, i)
           /\ \A i \in Nat : Covered(r, i) => Covered(l, i)
           /\ \A i \in DOMAIN r : i \in Nat /\ Pending(l, i) /\ r[i].op # "zero" => Pending(r, i)
<1>1. ASSUME NEW e, NEW i \in Nat PROVE Gone(r, e, i) <=> Gone(l, e, i)
  BY DEF Shrinks, Gone
<1>2. ASSUME NEW i \in Nat, Covered(r, i) PROVE Covered(l, i)
  BY <1>2 DEF Shrinks, Covered
<1>3. ASSUME NEW i \in DOMAIN r, i \in Nat, Pending(l, i), r[i].op # "zero" PROVE Pending(r, i)
  <2>1. r[i].op = l[i].op /\ r[i].entry = l[i].entry /\ r[i].lazy = l[i].lazy
    BY <1>3 DEF Shrinks
  <2> QED
    BY <1>1, <1>2, <1>3, <2>1 DEF Pending
<1> QED
  BY <1>1, <1>2, <1>3

\* No loss is among the records not yet accepted.
LEMMA LossAccepted ==
    ASSUME TypeOK, NEW s \in Sessions, RecsInv(s), NEW k \in DOMAIN log[s], log[s][k].op = "lost"
    PROVE  k <= Accepted(s)
<1>1. k \in Nat /\ Len(log[s]) \in Nat /\ k <= Len(log[s])
  BY SessionTypes
<1>2. CASE call[s].pc \in {"fsync", "cut"}
  <2>1. ~(k > Accepted(s)) /\ Accepted(s) \in Int
    BY <1>2, AcceptedIs DEF RecsInv
  <2> QED
    BY <1>1, <2>1
<1>3. CASE call[s].pc \notin {"fsync", "cut"}
  BY <1>1, <1>3, AcceptedIs
<1> QED
  BY <1>2, <1>3

\* A log that shrinks keeps what is said of it: a record is working state
\* again when its sync record goes, and its objects were on disk by then.
LEMMA LogShrinks ==
    ASSUME TypeOK, TypeOK', NEW s \in Sessions, SessionInv(s), DiskStays,
           Shrinks(log[s], log'[s]), acked'[s] = acked[s],
           \A i \in DOMAIN log[s] : i <= Accepted(s) /\ log[s][i].st = "disk" =>
             i \in DOMAIN log'[s] /\ i <= Accepted(s)' /\ log'[s][i] = log[s][i]
    PROVE  StoredInv(s)' /\ LostInv(log[s])' /\ OnceInv(log[s])' /\ AckedInv(s)'
<1>1. PICK l : l = log[s] OBVIOUS
<1>2. PICK r : r = log'[s] OBVIOUS
<1>3. /\ l \in Seq(Records) /\ Len(l) \in Nat /\ DOMAIN l = 1..Len(l)
      /\ \A i \in DOMAIN l : i \in Nat /\ (l[i].op = "append" => l[i].entry \in Entries)
  BY <1>1, SessionTypes, LogIndices, EntriesOfRecords
<1>4. /\ \A e : \A i \in Nat : Gone(r, e, i) <=> Gone(l, e, i)
      /\ \A i \in DOMAIN r : i \in Nat /\ Pending(l, i) /\ r[i].op # "zero" => Pending(r, i)
  BY <1>1, <1>2, Shrunk
<1>5. /\ \A i \in DOMAIN r :
           /\ i \in DOMAIN l
           /\ r[i].op # "zero" => /\ r[i].op = l[i].op /\ r[i].entry = l[i].entry
                                  /\ r[i].lazy = l[i].lazy
  BY <1>1, <1>2 DEF Shrinks
<1>6. \A e \in Entries : AllOnDisk(e) => AllOnDisk(e)'
  BY DiskStaysFor
<1>7. StoredInv(s) /\ LostInv(l) /\ OnceInv(l) /\ AckedInv(s)
  BY <1>1 DEF SessionInv
<1>8. \A i \in DOMAIN l : l[i].op = "append" /\ ~Gone(l, l[i].entry, i) /\ ~Pending(l, i)
         => AllOnDisk(l[i].entry)'
  BY <1>1, <1>3, <1>6, <1>7 DEF StoredInv
<1>9. StoredInv(s)'
  <2> SUFFICES ASSUME NEW i \in DOMAIN r, r[i].op = "append", ~Gone(r, r[i].entry, i),
                      ~Pending(r, i)
               PROVE  AllOnDisk(r[i].entry)'
    BY <1>2 DEF StoredInv
  <2>1. i \in DOMAIN l /\ i \in Nat /\ l[i].op = "append" /\ r[i].entry = l[i].entry
    BY <1>3, <1>5
  <2>2. ~Gone(l, l[i].entry, i) /\ ~Pending(l, i)
    BY <1>4, <2>1
  <2> QED
    BY <1>8, <2>1, <2>2
<1>10. \A i \in DOMAIN l : i <= Accepted(s) /\ l[i].st = "disk" =>
         i \in DOMAIN r /\ i <= Accepted(s)' /\ r[i] = l[i]
  BY <1>1, <1>2
<1>11. LostInv(r)
  <2> SUFFICES ASSUME NEW k \in DOMAIN r, r[k].op = "lost", NEW j \in 1..k
               PROVE  r[j].st = "disk" /\ r[j].op # "zero"
    BY DEF LostInv
  <2>1. k \in DOMAIN l /\ l[k].op = "lost"
    BY <1>5
  <2>2. k <= Accepted(s)
    BY <1>1, <2>1, LossAccepted DEF SessionInv
  <2>3. j \in DOMAIN l /\ j <= k /\ j \in Nat /\ k \in Nat
    BY <1>3, <2>1
  <2>4. Accepted(s) \in Int
    BY SessionTypes DEF Accepted
  <2>5. j <= Accepted(s)
    BY <2>2, <2>3, <2>4
  <2>6. l[j].st = "disk" /\ l[j].op # "zero"
    BY <1>7, <2>1 DEF LostInv
  <2> QED
    BY <1>10, <2>3, <2>5, <2>6
<1>12. OnceInv(r)
  <2> SUFFICES ASSUME NEW i \in DOMAIN r, NEW j \in DOMAIN r, i < j, r[i].op = "append",
                      r[j].op = "append", r[i].entry = r[j].entry
               PROVE  Gone(r, r[i].entry, i)
    BY DEF OnceInv
  <2>1. /\ i \in DOMAIN l /\ i \in Nat /\ l[i].op = "append" /\ r[i].entry = l[i].entry
        /\ j \in DOMAIN l /\ l[j].op = "append" /\ r[j].entry = l[j].entry
    BY <1>3, <1>5
  <2>2. Gone(l, l[i].entry, i)
    BY <1>7, <2>1 DEF OnceInv
  <2> QED
    BY <1>4, <2>1, <2>2
<1>13. AckedInv(s)'
  <2> SUFFICES ASSUME NEW e \in acked[s]
               PROVE  \E i \in DOMAIN r : AppendAt(r, e, i) /\ i <= Accepted(s)' /\ Firm(s, i)'
    BY <1>2 DEF AckedInv, FirmAt
  <2>1. PICK i \in DOMAIN l : AppendAt(l, e, i) /\ i <= Accepted(s) /\ Firm(s, i)
    BY <1>1, <1>7 DEF AckedInv, FirmAt
  <2>2. \A j \in 1..i : j \in DOMAIN l /\ j \in Nat /\ j <= Accepted(s) /\ l[j].st = "disk"
    <3>1. Accepted(s) \in Int
      BY SessionTypes DEF Accepted
    <3> QED
      BY <1>1, <1>3, <2>1, <3>1 DEF Firm
  <2>3. \A j \in 1..i : j \in DOMAIN r /\ r[j] = l[j]
    BY <1>10, <2>2
  <2>4. i \in DOMAIN r /\ i \in 1..i /\ i <= Accepted(s)' /\ AppendAt(r, e, i)
    <3>1. i \in 1..i
      BY <1>3
    <3> QED
      BY <1>4, <1>10, <2>1, <2>2, <2>3, <3>1 DEF AppendAt
  <2>5. ASSUME NEW j \in 1..i
        PROVE  /\ r[j].st = "disk" /\ r[j].op # "zero"
               /\ Pending(r, j) => AllOnDisk(r[j].entry)'
    <3>1. r[j] = l[j] /\ j \in DOMAIN l /\ j \in Nat
      BY <2>2, <2>3
    <3>2. l[j].st = "disk" /\ l[j].op # "zero" /\ (Pending(l, j) => AllOnDisk(l[j].entry))
      BY <1>1, <2>1 DEF Firm
    <3>3. Pending(r, j) => l[j].op = "append" /\ ~Gone(l, l[j].entry, j)
      BY <1>4, <3>1 DEF Pending
    <3>4. Pending(r, j) => AllOnDisk(l[j].entry)'
      BY <1>3, <1>6, <1>8, <3>1, <3>2, <3>3
    <3> QED
      BY <3>1, <3>2, <3>4
  <2>6. Firm(s, i)'
    BY <1>2, <2>5 DEF Firm
  <2> QED
    BY <2>4, <2>6
<1> QED
  BY <1>2, <1>9, <1>11, <1>12, <1>13

\* Marking a log's unwritten bytes changes nothing a reader sees.
LEMMA MarkedShrinks ==
    ASSUME NEW l \in Seq(Records), NEW st \in {"disk", "lost"}, NEW r, r = MarkedAs(l, st)
    PROVE  /\ DOMAIN r = DOMAIN l /\ Len(r) = Len(l)
           /\ \A i \in DOMAIN l :
                /\ r[i].op = l[i].op /\ r[i].entry = l[i].entry /\ r[i].gone = l[i].gone
                /\ r[i].lazy = l[i].lazy /\ r[i].head = l[i].head /\ r[i].mark = l[i].mark
                /\ r[i].st = IF l[i].st = "dirty" THEN st ELSE l[i].st
                /\ l[i].st # "dirty" => r[i] = l[i]
           /\ Shrinks(l, r)
           /\ \A e : \A i \in Nat : Gone(r, e, i) <=> Gone(l, e, i)
           /\ \A i \in DOMAIN l : Pending(r, i) <=> Pending(l, i)
<1>1. DOMAIN r = DOMAIN l /\ Len(r) = Len(l)
  BY MarkedAsType
<1>2. ASSUME NEW i \in DOMAIN l
      PROVE  /\ r[i].op = l[i].op /\ r[i].entry = l[i].entry /\ r[i].gone = l[i].gone
             /\ r[i].lazy = l[i].lazy /\ r[i].head = l[i].head /\ r[i].mark = l[i].mark
             /\ r[i].st = IF l[i].st = "dirty" THEN st ELSE l[i].st
             /\ l[i].st # "dirty" => r[i] = l[i]
  <2>1. PICK a : a = l[i] OBVIOUS
  <2>2. a \in Records
    BY <2>1, LogIndices
  <2>3. r[i] = IF a.st = "dirty" THEN [a EXCEPT !.st = st] ELSE a
    BY <2>1 DEF MarkedAs
  <2> QED
    BY <2>1, <2>2, <2>3 DEF Records
<1>3. Shrinks(l, r) /\ Shrinks(r, l)
  BY <1>1, <1>2 DEF Shrinks
<1>4. \A e : \A i \in Nat : Gone(r, e, i) <=> Gone(l, e, i)
  BY <1>3, Shrunk
<1>5. \A i \in DOMAIN l : i \in Nat
  BY LogIndices
<1>6. \A i \in DOMAIN l : Pending(r, i) <=> Pending(l, i)
  <2>1. \A i \in Nat : Covered(r, i) <=> Covered(l, i)
    BY <1>3, Shrunk
  <2> QED
    BY <1>2, <1>4, <1>5, <2>1 DEF Pending
<1> QED
  BY <1>1, <1>2, <1>3, <1>4, <1>6

\* The fsync of the log succeeds: all the session holds is on disk, and is
\* acknowledged.
LEMMA LogFsyncKeeps ==
    ASSUME LogInv, TypeOK', NEW s \in Sessions, LogFsync(s)
    PROVE  LogInv'
<1>1. /\ TypeOK /\ SessionInv(s) /\ WroteInv /\ UNCHANGED <<obj, wrote, stopped>> /\ ~stopped
      /\ Complete(s)
  BY DEF LogInv, LogFsync
<1>2. PICK l : l = log[s] OBVIOUS
<1>3. PICK c : c = call[s] OBVIOUS
<1>4. PICK r : r = MarkedAs(l, "disk") OBVIOUS
<1>5. /\ l \in Seq(Records) /\ Len(l) \in Nat /\ DOMAIN l = 1..Len(l)
      /\ \A i \in DOMAIN l : i \in Nat /\ l[i].st \in {"dirty", "disk", "lost"}
  BY <1>1, <1>2, SessionTypes, LogIndices, EntriesOfRecords
<1>6. /\ c.pc = "fsync" /\ handle[s].held /\ c.durable /\ handle[s].pend = {} /\ Live(s)
  BY <1>1, <1>3 DEF LogFsync, SessionInv, CallInv, Live
<1>7. /\ DOMAIN r = DOMAIN l /\ Len(r) = Len(l)
      /\ \A i \in DOMAIN l :
           /\ r[i].op = l[i].op /\ r[i].entry = l[i].entry
           /\ r[i].st = IF l[i].st = "dirty" THEN "disk" ELSE l[i].st
  BY <1>4, <1>5, MarkedShrinks
<1>8. \A e : \A i \in Nat : Gone(r, e, i) <=> Gone(l, e, i)
  BY <1>4, <1>5, MarkedShrinks
<1>9. \A i \in DOMAIN l : Pending(r, i) <=> Pending(l, i)
  BY <1>4, <1>5, MarkedShrinks
<1>10. log'[s] = r /\ \A t \in Sessions \ {s} : log'[t] = log[t]
  BY <1>1, <1>2, <1>4 DEF LogFsync, TypeOK
<1>11. /\ c.kind = "release" => ~handle'[s].held /\ handle'[s].pend = {}
       /\ c.kind # "release" =>
            /\ handle'[s].held = handle[s].held /\ handle'[s].pend = handle[s].pend
            /\ handle'[s].own = handle[s].own \cup (IF c.kind = "write" THEN {c.entry} ELSE {})
       /\ call'[s].pc \in {"idle", "prepare"}
       /\ call'[s].pc = "prepare" => c.kind = "syncHead"
       /\ acked'[s] = acked[s] \cup handle[s].own \cup (IF c.kind = "write" THEN {c.entry} ELSE {})
  BY <1>1, <1>3, <1>6, Completed
<1>12. OnlyOf(s)
  BY <1>1, <1>10, Completed DEF OnlyOf
<1>13. \A i \in DOMAIN r : r[i].st = "disk" /\ r[i].op # "zero"
  <2>1. \A i \in DOMAIN l : l[i].st # "lost"
    BY <1>1, <1>2, <1>6 DEF SessionInv, PhantomInv
  <2>2. \A i \in DOMAIN l : l[i].op # "zero"
    BY <1>1, <1>2, <1>6 DEF SessionInv, OwnInv
  <2> QED
    BY <1>5, <1>7, <2>1, <2>2
<1>14. \A i \in DOMAIN l : l[i].op = "append" /\ ~Gone(l, l[i].entry, i) => AllOnDisk(l[i].entry)'
  <2>1. \A i \in DOMAIN l : Pending(l, i) => AllOnDisk(l[i].entry)
    BY <1>1, <1>2, <1>6 DEF SessionInv, OwedInv, AllOnDisk
  <2>2. \A i \in DOMAIN l : l[i].op = "append" /\ ~Gone(l, l[i].entry, i) => AllOnDisk(l[i].entry)
    BY <1>1, <1>2, <2>1 DEF SessionInv, StoredInv
  <2> QED
    BY <1>1, <2>2 DEF AllOnDisk
<1>15. \A i \in DOMAIN r : r[i].op = "append" /\ ~Gone(r, r[i].entry, i) => AllOnDisk(r[i].entry)'
  BY <1>5, <1>7, <1>8, <1>14
<1>16. CallInv(s)' /\ RecsInv(s)' /\ PlanInv(s)'
  BY <1>6, <1>11 DEF CallInv, RecsInv, PlanInv
<1>17. StoredInv(s)'
  BY <1>10, <1>15 DEF StoredInv
<1>18. OwedInv(s)'
  BY <1>10, <1>15 DEF OwedInv, Pending, AllOnDisk
<1>19. LostInv(r)
  <2>1. \A k \in DOMAIN r : \A j \in 1..k : j \in DOMAIN r
    BY <1>5, <1>7
  <2> QED
    BY <1>13, <2>1 DEF LostInv
<1>20. OnceInv(r)
  <2> SUFFICES ASSUME NEW i \in DOMAIN r, NEW j \in DOMAIN r, i < j, r[i].op = "append",
                      r[j].op = "append", r[i].entry = r[j].entry
               PROVE  Gone(r, r[i].entry, i)
    BY DEF OnceInv
  <2>1. Gone(l, l[i].entry, i)
    BY <1>1, <1>2, <1>7 DEF SessionInv, OnceInv
  <2> QED
    BY <1>5, <1>7, <1>8, <2>1
<1>21. \A e \in handle[s].own \cup (IF c.kind = "write" THEN {c.entry} ELSE {}) :
         \E i \in DOMAIN r : AppendAt(r, e, i)
  <2> SUFFICES ASSUME NEW e \in handle[s].own \cup (IF c.kind = "write" THEN {c.entry} ELSE {})
               PROVE  \E i \in DOMAIN r : AppendAt(r, e, i)
    OBVIOUS
  <2>1. \E i \in DOMAIN l : AppendAt(l, e, i)
    <3>1. CASE e \in handle[s].own
      BY <1>1, <1>2, <1>6, <3>1 DEF SessionInv, OwnInv
    <3>2. CASE e \notin handle[s].own
      BY <1>1, <1>2, <1>3, <1>6, <3>2 DEF SessionInv, RecsInv
    <3> QED
      BY <3>1, <3>2
  <2>2. PICK i \in DOMAIN l : AppendAt(l, e, i)
    BY <2>1
  <2> QED
    BY <1>5, <1>7, <1>8, <2>2 DEF AppendAt
<1>22. OwnInv(s)'
  <2>1. \A i \in DOMAIN r : r[i].op = "append" /\ ~Gone(r, r[i].entry, i) =>
           r[i].entry \in handle[s].own \cup (IF c.kind = "write" THEN {c.entry} ELSE {})
    <3> SUFFICES ASSUME NEW i \in DOMAIN r, r[i].op = "append", ~Gone(r, r[i].entry, i)
                 PROVE  r[i].entry \in handle[s].own \cup (IF c.kind = "write" THEN {c.entry} ELSE {})
      OBVIOUS
    <3>1. i \in DOMAIN l /\ l[i].op = "append" /\ r[i].entry = l[i].entry
          /\ ~Gone(l, l[i].entry, i)
      BY <1>5, <1>7, <1>8
    <3> QED
      BY <1>1, <1>2, <1>3, <1>6, <3>1 DEF SessionInv, OwnInv
  <2>2. Live(s)' => c.kind # "release"
    BY <1>11 DEF Live
  <2>3. Live(s)' => handle'[s].own = handle[s].own \cup (IF c.kind = "write" THEN {c.entry} ELSE {})
    BY <1>11, <2>2
  <2> QED
    BY <1>10, <1>13, <1>21, <2>1, <2>3 DEF OwnInv
<1>23. PhantomInv(s)'
  BY <1>10, <1>13 DEF PhantomInv
<1>24. AckedInv(s)'
  <2>1. Accepted(s)' = Len(r) - 0
    <3>1. call'[s].pc \notin {"fsync", "cut"}
      BY <1>11
    <3> QED
      BY <1>10, <3>1 DEF Accepted
  <2>2. \A i \in DOMAIN r : i <= Accepted(s)'
    BY <1>5, <1>7, <2>1
  <2>3. \A i \in DOMAIN r : Firm(s, i)'
    <3>1. \A k \in DOMAIN r : \A j \in 1..k : j \in DOMAIN r
      BY <1>5, <1>7
    <3> QED
      BY <1>10, <1>13, <1>15, <3>1 DEF Firm, Pending
  <2>4. \A e \in acked[s] : \E i \in DOMAIN r : AppendAt(r, e, i)
    <3> SUFFICES ASSUME NEW e \in acked[s] PROVE \E i \in DOMAIN r : AppendAt(r, e, i)
      OBVIOUS
    <3>1. PICK i \in DOMAIN l : AppendAt(l, e, i)
      BY <1>1, <1>2 DEF SessionInv, AckedInv, FirmAt
    <3> QED
      BY <1>5, <1>7, <1>8, <3>1 DEF AppendAt
  <2>5. \A e \in acked'[s] : \E i \in DOMAIN r : AppendAt(r, e, i)
    BY <1>11, <1>21, <2>4
  <2> QED
    BY <1>10, <2>2, <2>3, <2>5 DEF AckedInv, FirmAt
<1>25. SessionInv(s)'
  BY <1>10, <1>16, <1>17, <1>18, <1>19, <1>20, <1>22, <1>23, <1>24 DEF SessionInv
<1>26. WroteInv'
  <2>1. \A t \in Sessions : handle'[t].pend \subseteq wrote
    BY <1>1, <1>6, <1>11, <1>12 DEF WroteInv, OnlyOf
  <2> QED
    BY <1>1, <2>1 DEF WroteInv
<1>27. DiskStays
  BY <1>1 DEF DiskStays
<1> QED
  BY <1>1, <1>12, <1>25, <1>26, <1>27, OneMoves

\* The fsync fails or the store stopped before it: the records the call wrote
\* are doubtful, and nothing acknowledged is among them.
LEMMA LogFsyncFailsKeeps ==
    ASSUME LogInv, TypeOK', NEW s \in Sessions, LogFsyncFails(s)
    PROVE  LogInv'
<1>1. TypeOK /\ SessionInv(s) /\ WroteInv /\ UNCHANGED <<obj, wrote, handle, acked>>
  BY DEF LogInv, LogFsyncFails
<1>2. PICK l : l = log[s] OBVIOUS
<1>3. PICK c : c = call[s] OBVIOUS
<1>4. PICK d : d = [c EXCEPT !.pc = "cut"] OBVIOUS
<1>5. /\ c \in Calls /\ l \in Seq(Records) /\ Len(l) \in Nat /\ DOMAIN l = 1..Len(l)
      /\ Len(c.recs) \in Nat
  BY <1>1, <1>2, <1>3, SessionTypes
<1>6. /\ d.pc = "cut" /\ d.kind = c.kind /\ d.durable = c.durable /\ d.recs = c.recs
      /\ d.entry = c.entry
  BY <1>4, <1>5 DEF Calls
<1>7. c.pc = "fsync" /\ call' = [call EXCEPT ![s].pc = "cut"]
  BY <1>3 DEF LogFsyncFails
<1>8. call'[s] = d
  BY <1>1, <1>3, <1>4, <1>7 DEF TypeOK
<1>9. PICK r : r = log'[s] OBVIOUS
<1>10. stopped' /\ (r = l \/ (FsyncMayFail /\ r = MarkedAs(l, "lost")))
  BY <1>1, <1>2, <1>9 DEF LogFsyncFails, TypeOK
<1>11. OnlyOf(s) /\ DiskStays
  BY <1>1, <1>7 DEF LogFsyncFails, OnlyOf, DiskStays, TypeOK
<1>12. /\ DOMAIN r = DOMAIN l /\ Len(r) = Len(l)
       /\ \A i \in DOMAIN l :
            /\ r[i].op = l[i].op /\ r[i].entry = l[i].entry /\ r[i].gone = l[i].gone
            /\ r[i].lazy = l[i].lazy /\ r[i].head = l[i].head /\ r[i].mark = l[i].mark
            /\ l[i].st = "disk" => r[i] = l[i]
            /\ r[i].st = "disk" => l[i].st = "disk"
            /\ ~FsyncMayFail => r[i] = l[i]
  <2>1. CASE r = l
    BY <2>1
  <2>2. CASE FsyncMayFail /\ r = MarkedAs(l, "lost")
    BY <1>5, <2>2, MarkedShrinks
  <2> QED
    BY <1>10, <2>1, <2>2
<1>13. /\ \A e : \A i \in Nat : Gone(r, e, i) <=> Gone(l, e, i)
       /\ \A i \in DOMAIN l : Pending(r, i) <=> Pending(l, i)
  <2>1. CASE r = l
    BY <2>1
  <2>2. CASE FsyncMayFail /\ r = MarkedAs(l, "lost")
    <3>1. \A e : \A i \in Nat : Gone(r, e, i) <=> Gone(l, e, i)
      BY <1>5, <2>2, MarkedShrinks
    <3>2. \A i \in DOMAIN l : Pending(r, i) <=> Pending(l, i)
      BY <1>5, <2>2, MarkedShrinks
    <3> QED
      BY <3>1, <3>2
  <2> QED
    BY <1>10, <2>1, <2>2
<1>14. Accepted(s)' = Accepted(s) /\ Accepted(s) \in Int
  <2>1. Accepted(s) = Len(l) - Len(c.recs)
    BY <1>2, <1>3, <1>7 DEF Accepted
  <2>2. Accepted(s)' = Len(r) - Len(c.recs)
    BY <1>6, <1>8, <1>9 DEF Accepted
  <2> QED
    BY <1>5, <1>12, <2>1, <2>2
<1>15. CallInv(s)'
  BY <1>1, <1>2, <1>3, <1>6, <1>7, <1>8, <1>9, <1>12 DEF SessionInv, CallInv
<1>16. RecsInv(s)'
  <2>1. \A k \in DOMAIN r : k > Accepted(s)' => r[k].op # "lost"
    BY <1>1, <1>2, <1>3, <1>7, <1>12, <1>14 DEF SessionInv, RecsInv
  <2> QED
    BY <1>6, <1>8, <1>9, <2>1 DEF RecsInv
<1>17. PlanInv(s)'
  BY <1>6, <1>8 DEF PlanInv
<1>18. Live(s)
  BY <1>1, <1>3, <1>7 DEF SessionInv, CallInv, Live, Idle
<1>19. OwedInv(s)'
  <2>1. \A i \in DOMAIN r : Pending(r, i) => Pending(l, i) /\ r[i].entry = l[i].entry
    BY <1>12, <1>13
  <2> QED
    BY <1>1, <1>2, <1>9, <1>12, <1>18, <2>1 DEF SessionInv, OwedInv
<1>20. OwnInv(s)'
  <2>1. \A e : \A i \in DOMAIN l : AppendAt(l, e, i) => AppendAt(r, e, i)
    BY <1>5, <1>12, <1>13 DEF AppendAt
  <2>2. \A e \in handle[s].own : \E i \in DOMAIN r : AppendAt(r, e, i)
    BY <1>1, <1>2, <1>12, <1>18, <2>1 DEF SessionInv, OwnInv
  <2>3. \A i \in DOMAIN r : r[i].op # "zero"
    BY <1>1, <1>2, <1>12, <1>18 DEF SessionInv, OwnInv
  <2>4. \A i \in DOMAIN r : r[i].op = "append" /\ ~Gone(r, r[i].entry, i) =>
           r[i].entry \in handle[s].own \/ (c.kind = "write" /\ r[i].entry = c.entry)
    <3> SUFFICES ASSUME NEW i \in DOMAIN r, r[i].op = "append", ~Gone(r, r[i].entry, i)
                 PROVE  r[i].entry \in handle[s].own \/ (c.kind = "write" /\ r[i].entry = c.entry)
      OBVIOUS
    <3>1. i \in DOMAIN l /\ l[i].op = "append" /\ r[i].entry = l[i].entry
          /\ ~Gone(l, l[i].entry, i)
      BY <1>5, <1>12, <1>13
    <3> QED
      BY <1>1, <1>2, <1>3, <1>18, <3>1 DEF SessionInv, OwnInv
  <2> QED
    BY <1>1, <1>6, <1>8, <1>9, <2>2, <2>3, <2>4 DEF OwnInv
<1>21. PhantomInv(s)'
  <2>1. PhantomInv(s)
    BY <1>1 DEF SessionInv
  <2>2. ~FsyncMayFail => \A i \in DOMAIN r : r[i].st # "lost"
    BY <1>2, <1>12, <2>1 DEF PhantomInv
  <2>3. FsyncMayFail \/ NoDoubtLeft => \A i \in DOMAIN r : i <= Accepted(s) /\ r[i].st # "disk" =>
          /\ r[i].op = "append" /\ r[i].lazy
          /\ \A k \in DOMAIN r : i < k /\ k <= Accepted(s) => r[k].op # "sync"
    BY <1>2, <1>12, <2>1 DEF PhantomInv
  <2> QED
    BY <1>9, <1>10, <1>14, <2>2, <2>3 DEF PhantomInv
<1>22. StoredInv(s)' /\ LostInv(log[s])' /\ OnceInv(log[s])' /\ AckedInv(s)'
  <2>1. Shrinks(l, r)
    BY <1>12 DEF Shrinks
  <2>2. \A i \in DOMAIN log[s] : i <= Accepted(s) /\ log[s][i].st = "disk" =>
             i \in DOMAIN log'[s] /\ i <= Accepted(s)' /\ log'[s][i] = log[s][i]
    BY <1>2, <1>9, <1>12, <1>14
  <2> QED
    BY <1>1, <1>2, <1>9, <1>11, <2>1, <2>2, LogShrinks
<1>23. SessionInv(s)'
  BY <1>15, <1>16, <1>17, <1>19, <1>20, <1>21, <1>22 DEF SessionInv
<1>24. WroteInv'
  BY <1>1, <1>10 DEF WroteInv
<1> QED
  BY <1>10, <1>11, <1>23, <1>24, OneMoves

\* A session let go, its log shrunk or left: nothing is promised of a handle.
LEMMA LetGo ==
    ASSUME NEW s \in Sessions, ~handle'[s].held, call'[s].pc = "idle",
           StoredInv(s)', LostInv(log[s])', OnceInv(log[s])', AckedInv(s)', PhantomInv(s)'
    PROVE  SessionInv(s)'
<1>1. CallInv(s)' /\ RecsInv(s)' /\ PlanInv(s)'
  BY DEF CallInv, RecsInv, PlanInv
<1>2. OwedInv(s)' /\ OwnInv(s)'
  BY DEF OwedInv, OwnInv, Live
<1> QED
  BY <1>1, <1>2 DEF SessionInv

\* A log cut back is its accepted records.
LEMMA CutLeaves ==
    ASSUME TypeOK, NEW s \in Sessions, SessionInv(s), Cut(s)
    PROVE  /\ Len(log'[s]) = Accepted(s) /\ DOMAIN log'[s] = 1..Accepted(s)
           /\ Accepted(s) \in Nat /\ Accepted(s)' = Accepted(s)
           /\ \A i \in DOMAIN log'[s] : i \in DOMAIN log[s] /\ log'[s][i] = log[s][i]
           /\ Shrinks(log[s], log'[s])
<1>1. PICK l : l = log[s] OBVIOUS
<1>2. PICK m : m = Len(call[s].recs) OBVIOUS
<1>3. PICK r : r = log'[s] OBVIOUS
<1>4. /\ call[s].pc = "cut" /\ l \in Seq(Records) /\ Len(l) \in Nat /\ DOMAIN l = 1..Len(l)
      /\ m \in Nat /\ m <= Len(l) /\ \A i \in DOMAIN l : i \in Nat /\ l[i] \in Records
  BY <1>1, <1>2, SessionTypes, LogIndices DEF Cut, SessionInv, CallInv
<1>5. PICK n : n = Len(l) - m OBVIOUS
<1>6. Accepted(s) = n
  BY <1>1, <1>2, <1>4, <1>5 DEF Accepted
<1>7. n \in Nat /\ n <= Len(l)
  BY <1>4, <1>5
<1>8. r = SubSeq(l, 1, n)
  BY <1>1, <1>2, <1>3, <1>5 DEF Cut, TypeOK
<1>9. Len(r) = n /\ DOMAIN r = 1..n /\ \A i \in 1..n : r[i] = l[i]
  <2>1. \A i \in 1..n : l[i] \in Records
    BY <1>4, <1>7
  <2>2. 1 \in Int /\ n \in Int
    BY <1>7
  <2>3. /\ r \in Seq(Records)
        /\ Len(r) = IF 1 <= n THEN n - 1 + 1 ELSE 0
        /\ \A i \in 1 .. n - 1 + 1 : r[i] = l[1 + i - 1]
    BY <1>8, <2>1, <2>2, SubSeqProperties
  <2>4. Len(r) = n /\ \A i \in 1..n : r[i] = l[i]
    BY <1>7, <2>3
  <2> QED
    BY <2>3, <2>4, LogIndices
<1>10. \A i \in 1..n : i \in DOMAIN l
  BY <1>4, <1>7
<1>11. Shrinks(l, r)
  <2>1. \A k \in DOMAIN l : l[k].op = "lost" => k \in 1..n
    <3>1. ASSUME NEW k \in DOMAIN l, l[k].op = "lost" PROVE k <= n
      BY <1>1, <1>6, <3>1, LossAccepted DEF SessionInv
    <3> QED
      BY <1>4, <1>7, <3>1
  <2> QED
    BY <1>9, <1>10, <2>1 DEF Shrinks
<1>12. Accepted(s)' = n
  <2>1. call'[s] = NoCall
    BY DEF Cut, Drop, TypeOK
  <2>2. Accepted(s)' = Len(r) - 0
    BY <1>3, <2>1 DEF Accepted, NoCall
  <2> QED
    BY <1>7, <1>9, <2>2
<1> QED
  BY <1>1, <1>3, <1>6, <1>7, <1>9, <1>10, <1>11, <1>12

\* The log is cut back to the accepted records: working state the doubtful
\* sync record covered is working state again.
LEMMA CutKeeps ==
    ASSUME LogInv, TypeOK', NEW s \in Sessions, Cut(s)
    PROVE  LogInv'
<1>1. TypeOK /\ SessionInv(s) /\ WroteInv /\ UNCHANGED <<obj, wrote, stopped, acked>>
  BY DEF LogInv, Cut
<1>2. PICK l : l = log[s] OBVIOUS
<1>3. PICK r : r = log'[s] OBVIOUS
<1>4. PICK n : n = Accepted(s) OBVIOUS
<1>5. /\ n \in Nat /\ DOMAIN r = 1..n /\ Accepted(s)' = n /\ Shrinks(l, r)
      /\ \A i \in DOMAIN r : i \in DOMAIN l /\ r[i] = l[i]
  BY <1>1, <1>2, <1>3, <1>4, CutLeaves
<1>6. handle'[s] = NoHandle /\ call'[s] = NoCall
  BY <1>1 DEF Cut, Drop, TypeOK
<1>7. OnlyOf(s) /\ DiskStays
  BY <1>1 DEF Cut, Drop, OnlyOf, DiskStays, TypeOK
<1>8. ~handle'[s].held /\ handle'[s].pend = {} /\ call'[s].pc = "idle"
  BY <1>6 DEF NoHandle, NoCall
<1>9. StoredInv(s)' /\ LostInv(log[s])' /\ OnceInv(log[s])' /\ AckedInv(s)'
  <2>1. \A i \in DOMAIN l : i \in Nat /\ i >= 1
    BY <1>1, <1>2, SessionTypes
  <2>2. \A i \in DOMAIN log[s] : i <= Accepted(s) /\ log[s][i].st = "disk" =>
             i \in DOMAIN log'[s] /\ i <= Accepted(s)' /\ log'[s][i] = log[s][i]
    BY <1>2, <1>3, <1>4, <1>5, <2>1
  <2> QED
    BY <1>1, <1>2, <1>3, <1>5, <1>7, <2>2, LogShrinks
<1>10. PhantomInv(s)'
  <2>1. \A i \in DOMAIN r : i <= n
    BY <1>5
  <2>2. PhantomInv(s)
    BY <1>1 DEF SessionInv
  <2> QED
    BY <1>2, <1>3, <1>4, <1>5, <1>8, <2>1, <2>2 DEF PhantomInv
<1>11. SessionInv(s)'
  BY <1>8, <1>9, <1>10, LetGo
<1>12. WroteInv'
  <2>1. \A t \in Sessions : handle'[t].pend \subseteq handle[t].pend
    BY <1>7, <1>8 DEF OnlyOf
  <2> QED
    BY <1>1, <2>1, WroteStays
<1> QED
  BY <1>1, <1>7, <1>11, <1>12, OneMoves

\* The process is gone, and every handle and call with it.
LEMMA AllLetGo ==
    ASSUME ProcessGone
    PROVE  /\ WroteInv'
           /\ \A s \in Sessions : /\ ~handle'[s].held /\ call'[s].pc = "idle"
                                  /\ Accepted(s)' = Len(log[s])' - 0
<1>1. \A s \in Sessions : handle'[s] = NoHandle /\ call'[s] = NoCall
  BY DEF ProcessGone
<1>2. \A s \in Sessions : ~handle'[s].held /\ handle'[s].pend = {} /\ call'[s].pc = "idle"
  BY <1>1 DEF NoHandle, NoCall
<1>3. WroteInv'
  BY <1>2 DEF ProcessGone, WroteInv
<1>4. \A s \in Sessions : Accepted(s)' = Len(log[s])' - 0
  BY <1>2 DEF Accepted
<1> QED
  BY <1>2, <1>3, <1>4

LEMMA KillKeeps ==
    ASSUME NoPhantomLeft, LogInv, TypeOK', Kill
    PROVE  LogInv'
<1>1. TypeOK /\ UNCHANGED <<log, obj, acked>>
  BY DEF LogInv, Kill
<1>2. /\ WroteInv'
      /\ \A s \in Sessions : /\ ~handle'[s].held /\ call'[s].pc = "idle"
                             /\ Accepted(s)' = Len(log[s])' - 0
  BY AllLetGo DEF Kill
<1>3. ASSUME NEW s \in Sessions PROVE SessionInv(s)'
  <2>1. SessionInv(s) /\ Len(log[s]) \in Nat /\ Len(call[s].recs) \in Nat
    BY <1>1, SessionTypes DEF LogInv
  <2>2. Accepted(s)' = Len(log[s])
    BY <1>1, <1>2, <2>1
  <2>3. FsyncMayFail \/ NoDoubtLeft => call[s].pc \notin {"fsync", "cut"}
    <3>1. call[s].pc \in KillPoints
      BY DEF Kill
    <3> QED
      BY <3>1 DEF NoPhantomLeft, NoDoubtLeft
  <2>4. FsyncMayFail \/ NoDoubtLeft => Accepted(s) = Len(log[s])
    BY <1>1, <2>3, AcceptedIs
  <2>5. Accepted(s) \in Int /\ Accepted(s) <= Len(log[s])
    BY <1>1, AcceptedIs
  <2>6. DiskStays
    BY <1>1 DEF DiskStays
  <2>7. Shrinks(log[s], log'[s])
    BY <1>1 DEF Shrinks
  <2>8. \A i \in DOMAIN log[s] : i <= Accepted(s) => i <= Accepted(s)'
    BY <1>1, <2>1, <2>2, <2>5, SessionTypes
  <2>9. StoredInv(s)' /\ LostInv(log[s])' /\ OnceInv(log[s])' /\ AckedInv(s)'
    BY <1>1, <2>1, <2>6, <2>7, <2>8, LogShrinks
  <2>10. PhantomInv(s)'
    <3>1. FsyncMayFail \/ NoDoubtLeft => Accepted(s)' = Accepted(s)
      BY <2>1, <2>2, <2>4
    <3>2. PhantomInv(s)
      BY <2>1 DEF SessionInv
    <3> QED
      BY <1>1, <1>2, <3>1, <3>2 DEF PhantomInv
  <2> QED
    BY <1>2, <2>9, <2>10, LetGo
<1> QED
  BY <1>2, <1>3 DEF LogInv

\* What a power loss leaves of a log: what was on disk, and of the rest some
\* lines, the others unwritten or cut off.
LEMMA PowerLossLeaves ==
    ASSUME TypeOK, NEW s \in Sessions, LostInv(log[s]), PowerLoss
    PROVE  /\ log'[s] \in Seq(Records) /\ Len(log'[s]) \in Nat
           /\ DOMAIN log'[s] = 1..Len(log'[s])
           /\ \A i \in DOMAIN log'[s] : i \in DOMAIN log[s] /\ log'[s][i].st = "disk"
           /\ \A i \in DOMAIN log[s] : log[s][i].st = "disk" =>
                i \in DOMAIN log'[s] /\ log'[s][i] = log[s][i]
           /\ Shrinks(log[s], log'[s])
<1>1. PICK l : l = log[s] OBVIOUS
<1>2. PICK r : r = log'[s] OBVIOUS
<1>3. r \in LogRemains(l)
  BY <1>1, <1>2 DEF PowerLoss
<1>4. /\ l \in Seq(Records) /\ Len(l) \in Nat /\ DOMAIN l = 1..Len(l)
      /\ \A i \in DOMAIN l : i \in Nat /\ l[i] \in Records
  BY <1>1, SessionTypes, LogIndices
<1>5. /\ r \in Seq(Records)
      /\ \A i \in DOMAIN r : i \in DOMAIN l /\ r[i] \in {ZeroRec, [l[i] EXCEPT !.st = "disk"]}
      /\ \A i \in DOMAIN l : l[i].st = "disk" =>
           i \in DOMAIN r /\ r[i] = [l[i] EXCEPT !.st = "disk"]
  BY <1>3, <1>4, RemainsType
<1>6. Len(r) \in Nat /\ DOMAIN r = 1..Len(r)
  BY <1>5, LogIndices
<1>7. ASSUME NEW a \in Records
      PROVE  \A b : b = [a EXCEPT !.st = "disk"] =>
               /\ b.op = a.op /\ b.entry = a.entry /\ b.lazy = a.lazy /\ b.gone = a.gone
               /\ b.head = a.head /\ b.mark = a.mark
               /\ b.st = "disk" /\ (a.st = "disk" => b = a)
  BY DEF Records
<1>8. ZeroRec.op = "zero" /\ ZeroRec.st = "disk"
  BY DEF ZeroRec, Rec
<1>9. ASSUME NEW i \in DOMAIN r
      PROVE  /\ i \in DOMAIN l /\ r[i].st = "disk"
             /\ r[i].op # "zero" => /\ r[i].op = l[i].op /\ r[i].entry = l[i].entry
                                    /\ r[i].lazy = l[i].lazy /\ r[i].gone = l[i].gone
                                    /\ r[i].head = l[i].head /\ r[i].mark = l[i].mark
  BY <1>4, <1>5, <1>7, <1>8
<1>10. ASSUME NEW i \in DOMAIN l, l[i].st = "disk"
       PROVE  i \in DOMAIN r /\ r[i] = l[i]
  BY <1>4, <1>5, <1>7, <1>10
<1>11. ASSUME NEW k \in DOMAIN l, l[k].op = "lost"
       PROVE  k \in DOMAIN r /\ r[k] = l[k]
  <2>1. l[k].st = "disk"
    BY <1>1, <1>4, <1>11 DEF LostInv
  <2> QED
    BY <1>10, <2>1
<1>12. Shrinks(l, r)
  BY <1>9, <1>11 DEF Shrinks
<1> QED
  BY <1>1, <1>2, <1>5, <1>6, <1>9, <1>10, <1>12

\* A power loss takes nothing that was on disk.
LEMMA PowerLossKeeps ==
    ASSUME LogInv, TypeOK', PowerLoss
    PROVE  LogInv'
<1>1. TypeOK /\ UNCHANGED acked
  BY DEF LogInv, PowerLoss
<1>2. /\ WroteInv'
      /\ \A s \in Sessions : /\ ~handle'[s].held /\ call'[s].pc = "idle"
                             /\ Accepted(s)' = Len(log[s])' - 0
  BY AllLetGo DEF PowerLoss
<1>3. DiskStays
  BY DEF PowerLoss, Volatile, DiskStays
<1>4. ASSUME NEW s \in Sessions PROVE SessionInv(s)'
  <2>1. SessionInv(s)
    BY DEF LogInv
  <2>2. LostInv(log[s])
    BY <2>1 DEF SessionInv
  <2>3. PICK l : l = log[s] OBVIOUS
  <2>4. PICK r : r = log'[s] OBVIOUS
  <2>5. Len(r) \in Nat /\ DOMAIN r = 1..Len(r) /\ \A i \in DOMAIN r : r[i].st = "disk"
    BY <1>1, <2>2, <2>4, PowerLossLeaves
  <2>6. \A i \in DOMAIN l : l[i].st = "disk" => i \in DOMAIN r /\ r[i] = l[i]
    BY <1>1, <2>2, <2>3, <2>4, PowerLossLeaves
  <2>7. Shrinks(l, r)
    BY <1>1, <2>2, <2>3, <2>4, PowerLossLeaves
  <2>8. \A i \in DOMAIN r : i <= Accepted(s)'
    BY <1>2, <2>4, <2>5
  <2>9. StoredInv(s)' /\ LostInv(log[s])' /\ OnceInv(log[s])' /\ AckedInv(s)'
    <3>1. \A i \in DOMAIN log[s] : i <= Accepted(s) /\ log[s][i].st = "disk" =>
             i \in DOMAIN log'[s] /\ i <= Accepted(s)' /\ log'[s][i] = log[s][i]
      BY <2>3, <2>4, <2>6, <2>8
    <3> QED
      BY <1>1, <1>3, <2>1, <2>3, <2>4, <2>7, <3>1, LogShrinks
  <2>10. PhantomInv(s)'
    BY <2>4, <2>5 DEF PhantomInv
  <2> QED
    BY <1>2, <2>9, <2>10, LetGo
<1> QED
  BY <1>2, <1>4 DEF LogInv

\* What an entry's append says of its objects, when the log is read so far.
LEMMA KeptIsWhole ==
    ASSUME TypeOK, NEW s \in Sessions, StoredInv(s), NEW i \in DOMAIN log[s],
           KeptAt(log[s], obj, FALSE, i)
    PROVE  Present(obj, log[s][i].entry)
<1>1. i \in 1..i
  BY SessionTypes
<1>2. CASE Pending(log[s], i)
  BY <1>1, <1>2 DEF KeptAt, Reached, CutsAt
<1>3. CASE ~Pending(log[s], i)
  BY <1>3 DEF KeptAt, StoredInv, AllOnDisk, Present
<1> QED
  BY <1>2, <1>3

\* A reader gets through the firm part of a log.
LEMMA FirmIsReached ==
    ASSUME NEW s \in Sessions, NEW i \in DOMAIN log[s], Firm(s, i)
    PROVE  Reached(log[s], obj, FALSE, i)
BY DEF Firm, Reached, CutsAt, AllOnDisk, Present

\* The acknowledged is in the session a recovery finds.
LEMMA AckedAreFound ==
    ASSUME NEW s \in Sessions, AckedInv(s)
    PROVE  acked[s] \subseteq EntriesOf(log[s], obj, FALSE)
<1> SUFFICES ASSUME NEW e \in acked[s] PROVE e \in EntriesOf(log[s], obj, FALSE)
  OBVIOUS
<1>1. PICK i \in DOMAIN log[s] : AppendAt(log[s], e, i) /\ Firm(s, i)
  BY DEF AckedInv, FirmAt
<1>2. KeptAt(log[s], obj, FALSE, i) /\ log[s][i].entry = e
  BY <1>1, FirmIsReached DEF KeptAt, AppendAt
<1> QED
  BY <1>2 DEF EntriesOf

\* Two appends of an entry that stand are one.
LEMMA StandsOnce ==
    ASSUME NEW l \in Seq(Records), OnceInv(l), NEW i \in DOMAIN l, NEW j \in DOMAIN l,
           l[i].op = "append", l[j].op = "append", l[i].entry = l[j].entry,
           ~Gone(l, l[i].entry, i), ~Gone(l, l[j].entry, j)
    PROVE  i = j
<1>1. i \in Nat /\ j \in Nat
  BY LogIndices
<1>2. ~(i < j) /\ ~(j < i)
  BY DEF OnceInv
<1> QED
  BY <1>1, <1>2

\* A log recovery leaves as it is has no hole and no working state, and all
\* its standing appends are the session's.
LEMMA NothingToRewrite ==
    ASSUME NEW l \in Seq(Records), NEW ob, OnceInv(l), ~MustRewrite(l, ob)
    PROVE  \A i \in DOMAIN l :
             /\ l[i].op # "zero" /\ ~Pending(l, i)
             /\ l[i].op = "append" /\ ~Gone(l, l[i].entry, i) => KeptAt(l, ob, FALSE, i)
<1>1. \A i \in DOMAIN l : l[i].op # "zero"
  BY DEF MustRewrite, Zeros
<1>2. ASSUME NEW i \in DOMAIN l, Pending(l, i) PROVE FALSE
  <2>1. ~Reached(l, ob, FALSE, i)
    BY <1>2 DEF MustRewrite, Adopt
  <2>2. l[i].op = "append" /\ ~Gone(l, l[i].entry, i)
    BY <1>2 DEF Pending
  <2>3. l[i].entry \in EntriesOf(l, ob, FALSE)
    BY <2>1, <2>2 DEF MustRewrite, Dropped
  <2>4. PICK j \in DOMAIN l : KeptAt(l, ob, FALSE, j) /\ l[j].entry = l[i].entry
    BY <2>3 DEF EntriesOf
  <2>5. i = j
    BY <2>2, <2>4, StandsOnce DEF KeptAt
  <2> QED
    BY <2>1, <2>4, <2>5 DEF KeptAt
<1>3. \A i \in DOMAIN l : \A j \in 1..i : j \in DOMAIN l
  BY LogIndices
<1>4. \A i \in DOMAIN l : Reached(l, ob, FALSE, i)
  BY <1>1, <1>2, <1>3 DEF Reached, CutsAt
<1> QED
  BY <1>1, <1>2, <1>4 DEF KeptAt

\* A session opened as its log is: the handle holds what the log says.
LEMMA OpenKeeps ==
    ASSUME LogInv, TypeOK', NEW s \in Sessions, Open(s)
    PROVE  LogInv'
<1>1. /\ TypeOK /\ SessionInv(s) /\ WroteInv /\ UNCHANGED <<log, obj, wrote, stopped, call, acked>>
      /\ call[s].pc = "idle"
  BY DEF LogInv, Open, Idle
<1>2. PICK l : l = log[s] OBVIOUS
<1>3. l \in Seq(Records) /\ OnceInv(l) /\ LostInv(l) /\ \A i \in DOMAIN l : i \in Nat /\ i \in 1..i
  BY <1>1, <1>2, SessionTypes, LogIndices DEF SessionInv
<1>4. /\ handle'[s].held /\ handle'[s].own = EntriesOf(l, obj, FALSE) /\ handle'[s].pend = {}
  <2>1. PICK z : handle'[s] = HandleOf(reconcile(s), z)
    BY <1>1 DEF Open, TypeOK
  <2> QED
    BY <1>2, <2>1 DEF HandleOf, reconcile, View
<1>5. OnlyOf(s) /\ DiskStays
  BY <1>1 DEF Open, OnlyOf, DiskStays, TypeOK
<1>6. Accepted(s)' = Accepted(s) /\ Accepted(s) = Len(l) - 0
  BY <1>1, <1>2 DEF Accepted
<1>7. CallInv(s)' /\ RecsInv(s)' /\ PlanInv(s)'
  BY <1>1 DEF CallInv, RecsInv, PlanInv
<1>8. Live(s)' => ~stopped
  BY <1>1 DEF Live, Idle
<1>9. ~stopped => \A i \in DOMAIN l :
         /\ l[i].op # "zero" /\ ~Pending(l, i)
         /\ l[i].op = "append" /\ ~Gone(l, l[i].entry, i) => KeptAt(l, obj, FALSE, i)
  <2>1. ~stopped => ~MustRewrite(l, obj)
    BY <1>2 DEF Open
  <2> QED
    BY <1>3, <2>1, NothingToRewrite
<1>10. OwedInv(s)'
  BY <1>1, <1>2, <1>8, <1>9 DEF OwedInv
<1>11. OwnInv(s)'
  <2>1. \A e \in EntriesOf(l, obj, FALSE) : \E i \in DOMAIN l : AppendAt(l, e, i)
    BY DEF EntriesOf, KeptAt, AppendAt
  <2>2. \A i \in DOMAIN l : KeptAt(l, obj, FALSE, i) => l[i].entry \in EntriesOf(l, obj, FALSE)
    BY DEF EntriesOf
  <2> QED
    BY <1>1, <1>2, <1>4, <1>8, <1>9, <2>1, <2>2 DEF OwnInv
<1>12. ~stopped => \A i \in DOMAIN l : l[i].st # "lost"
  <2> SUFFICES ASSUME ~stopped, NEW i \in DOMAIN l, l[i].st = "lost" PROVE FALSE
    OBVIOUS
  <2>1. FsyncMayFail
    BY <1>1, <1>2 DEF SessionInv, PhantomInv
  <2>2. Len(l) \in Nat /\ DOMAIN l = 1..Len(l)
    BY <1>3, LogIndices
  <2>3. \A k \in DOMAIN l : k <= Accepted(s)
    BY <1>6, <2>2
  <2>4. /\ l[i].op = "append" /\ l[i].lazy
        /\ \A k \in DOMAIN l : i < k /\ k <= Accepted(s) => l[k].op # "sync"
    BY <1>1, <1>2, <2>1, <2>3 DEF SessionInv, PhantomInv
  <2>5. ~Covered(l, i)
    BY <1>3, <2>3, <2>4 DEF Covered
  <2>6. ~Gone(l, l[i].entry, i)
    <3>1. ASSUME NEW k \in DOMAIN l, k > i, l[k].op = "lost" PROVE FALSE
      <4>1. i \in 1..k
        BY <1>3, <2>2, <3>1
      <4> QED
        BY <1>3, <3>1, <4>1 DEF LostInv
    <3> QED
      BY <3>1 DEF Gone
  <2>7. Pending(l, i)
    BY <2>4, <2>5, <2>6 DEF Pending
  <2> QED
    BY <1>9, <2>7
<1>13. StoredInv(s)' /\ LostInv(log[s])' /\ OnceInv(log[s])' /\ AckedInv(s)' /\ PhantomInv(s)'
  <2>1. handle'[s].held /\ ~stopped' => \A i \in DOMAIN log[s] : log[s][i].st # "lost"
    BY <1>1, <1>2, <1>12
  <2> QED
    BY <1>1, <1>5, <1>6, <2>1, LogStays
<1>14. SessionInv(s)'
  BY <1>7, <1>10, <1>11, <1>13 DEF SessionInv
<1>15. WroteInv'
  BY <1>1, <1>4, <1>5 DEF WroteInv, OnlyOf
<1> QED
  BY <1>1, <1>5, <1>14, <1>15, OneMoves

\* The new log takes the old one's place.
LEMMA RecoverLogKeeps ==
    ASSUME LogInv, TypeOK', NEW s \in Sessions, RecoverLog(s)
    PROVE  LogInv'
<1>1. /\ TypeOK /\ SessionInv(s) /\ WroteInv /\ UNCHANGED <<obj, wrote, stopped, acked>>
      /\ call[s].pc = "recover"
  BY DEF LogInv, RecoverLog
<1>2. PICK c : c = call[s] OBVIOUS
<1>3. PICK r : r = c.recs OBVIOUS
<1>4. /\ r \in Seq(Records) /\ Len(r) \in Nat /\ DOMAIN r = 1..Len(r)
      /\ \A i \in DOMAIN r : \A j \in 1..i : j \in DOMAIN r
  BY <1>1, <1>2, <1>3, SessionTypes
<1>5. /\ \A i \in DOMAIN r :
            /\ r[i].st = "disk" /\ r[i].op # "zero"
            /\ r[i].op = "append" /\ ~Gone(r, r[i].entry, i)
                 => r[i].entry \in c.view.own /\ AllOnDisk(r[i].entry)
      /\ \A e \in c.view.own \cup acked[s] : \E i \in DOMAIN r : AppendAt(r, e, i)
      /\ OnceInv(r)
  BY <1>1, <1>2, <1>3 DEF SessionInv, PlanInv
<1>6. log'[s] = r /\ call'[s] = NoCall /\ handle'[s] = HandleOf(c.view, FALSE)
  BY <1>1, <1>2, <1>3 DEF RecoverLog, TypeOK
<1>7. call'[s].pc = "idle" /\ handle'[s].own = c.view.own /\ handle'[s].pend = {}
  BY <1>6 DEF NoCall, HandleOf
<1>8. OnlyOf(s) /\ DiskStays
  BY <1>1 DEF RecoverLog, OnlyOf, DiskStays, TypeOK
<1>9. CallInv(s)' /\ RecsInv(s)' /\ PlanInv(s)'
  BY <1>7 DEF CallInv, RecsInv, PlanInv
<1>10. \A e : AllOnDisk(e) <=> AllOnDisk(e)'
  BY <1>1 DEF AllOnDisk
<1>11. StoredInv(s)'
  BY <1>5, <1>6, <1>10 DEF StoredInv
<1>12. OwedInv(s)'
  BY <1>1, <1>5, <1>6 DEF OwedInv, Pending, AllOnDisk
<1>13. LostInv(r)
  BY <1>4, <1>5 DEF LostInv
<1>14. OwnInv(s)'
  BY <1>5, <1>6, <1>7 DEF OwnInv
<1>15. PhantomInv(s)'
  BY <1>5, <1>6 DEF PhantomInv
<1>16. AckedInv(s)'
  <2>1. Accepted(s)' = Len(r) - 0
    BY <1>6, <1>7 DEF Accepted
  <2>2. \A i \in DOMAIN r : i <= Accepted(s)'
    BY <1>4, <2>1
  <2>3. \A i \in DOMAIN r : Firm(s, i)'
    BY <1>4, <1>5, <1>6, <1>10 DEF Firm, Pending
  <2> QED
    BY <1>1, <1>5, <1>6, <2>2, <2>3 DEF AckedInv, FirmAt
<1>17. SessionInv(s)'
  BY <1>5, <1>6, <1>9, <1>11, <1>12, <1>13, <1>14, <1>15, <1>16 DEF SessionInv
<1>18. WroteInv'
  BY <1>1, <1>7, <1>8 DEF WroteInv, OnlyOf
<1> QED
  BY <1>1, <1>8, <1>17, <1>18, OneMoves

\* The log a recovery writes: the old one's whole lines, and after them the
\* losses it found and the commit of what it kept.
LEMMA RecoveredShape ==
    ASSUME NEW l \in Seq(Records), NEW ob, NEW r, r = Recovered(l, ob)
    PROVE  /\ r \in Seq(Records)
           /\ \A i \in DOMAIN r : r[i].st = "disk" /\ r[i].op # "zero"
           /\ \A i \in DOMAIN Whole(l) :
                /\ i \in DOMAIN r /\ r[i].op = l[i].op /\ r[i].entry = l[i].entry
                /\ r[i].gone = l[i].gone /\ r[i].lazy = l[i].lazy /\ r[i].head = l[i].head
                /\ r[i].mark = l[i].mark
           /\ \A i \in DOMAIN r \ DOMAIN Whole(l) :
                /\ i > Len(Whole(l))
                /\ \/ r[i].op = "lost" /\ r[i].gone = Dropped(l, ob)
                   \/ r[i].op = "sync" /\ Adopt(l, ob) # {}
           /\ Dropped(l, ob) # {} =>
                \E k \in DOMAIN r \ DOMAIN Whole(l) : r[k].op = "lost" /\ r[k].gone = Dropped(l, ob)
           /\ Adopt(l, ob) # {} => \E k \in DOMAIN r \ DOMAIN Whole(l) : r[k].op = "sync"
<1>1. PICK w : w = Whole(l) OBVIOUS
<1>2. PICK D : D = Dropped(l, ob) OBVIOUS
<1>3. PICK a : a = (IF D # {} THEN <<LostRec(D)>> ELSE <<>>) OBVIOUS
<1>4. PICK b : b = (IF Adopt(l, ob) # {} THEN <<SyncRec>> ELSE <<>>) OBVIOUS
<1>5. /\ w \in Seq(Records) /\ D \in SUBSET Entries
      /\ \A i \in DOMAIN w : w[i] = l[i] /\ l[i].op # "zero"
  BY <1>1, <1>2, WholeType, SetsOfEntries
<1>6. /\ a \in Seq(Records) /\ \A i \in DOMAIN a : i = 1 /\ a[i] = LostRec(D)
      /\ D # {} => Len(a) = 1 /\ a[1] = LostRec(D)
  <2>1. LostRec(D) \in Records
    BY <1>5, RecordTypes
  <2> QED
    BY <1>3, <2>1
<1>7. /\ b \in Seq(Records) /\ \A i \in DOMAIN b : i = 1 /\ b[i] = SyncRec /\ Adopt(l, ob) # {}
      /\ Adopt(l, ob) # {} => Len(b) = 1 /\ b[1] = SyncRec
  <2>1. SyncRec \in Records
    BY RecordTypes
  <2> QED
    BY <1>4, <2>1
<1>8. PICK u : u = w \o a OBVIOUS
<1>9. PICK v : v = u \o b OBVIOUS
<1>10. r = OnDisk(v)
  BY <1>1, <1>2, <1>3, <1>4, <1>8, <1>9 DEF Recovered
<1>11. /\ u \in Seq(Records) /\ Len(u) = Len(w) + Len(a)
       /\ \A i \in 1..Len(u) : u[i] = IF i <= Len(w) THEN w[i] ELSE a[i - Len(w)]
  BY <1>5, <1>6, <1>8, ConcatProperties
<1>12. /\ v \in Seq(Records) /\ Len(v) = Len(u) + Len(b)
       /\ \A i \in 1..Len(v) : v[i] = IF i <= Len(u) THEN u[i] ELSE b[i - Len(u)]
  BY <1>7, <1>9, <1>11, ConcatProperties
<1>13. /\ Len(w) \in Nat /\ Len(a) \in Nat /\ Len(b) \in Nat /\ Len(u) \in Nat /\ Len(v) \in Nat
       /\ DOMAIN w = 1..Len(w) /\ DOMAIN a = 1..Len(a) /\ DOMAIN b = 1..Len(b)
       /\ DOMAIN v = 1..Len(v)
  BY <1>5, <1>6, <1>7, <1>11, <1>12, LogIndices
<1>14. r \in Seq(Records) /\ DOMAIN r = DOMAIN v
  BY <1>10, <1>12, OnDiskType
<1>15. \A i \in DOMAIN v :
         /\ r[i].op = v[i].op /\ r[i].entry = v[i].entry /\ r[i].gone = v[i].gone
         /\ r[i].lazy = v[i].lazy /\ r[i].head = v[i].head /\ r[i].mark = v[i].mark
         /\ r[i].st = "disk"
  <2> SUFFICES ASSUME NEW i \in DOMAIN v
               PROVE  /\ r[i].op = v[i].op /\ r[i].entry = v[i].entry /\ r[i].gone = v[i].gone
                      /\ r[i].lazy = v[i].lazy /\ r[i].head = v[i].head /\ r[i].mark = v[i].mark
                      /\ r[i].st = "disk"
    OBVIOUS
  <2>1. PICK x : x = v[i] OBVIOUS
  <2>2. x \in Records
    BY <1>12, <2>1, LogIndices
  <2>3. r[i] = [x EXCEPT !.st = "disk"]
    BY <1>10, <2>1 DEF OnDisk
  <2> QED
    BY <2>1, <2>2, <2>3 DEF Records
<1>16. \A i \in DOMAIN w : i \in DOMAIN v /\ v[i] = w[i]
  <2>1. \A i \in DOMAIN w : i \in 1..Len(u) /\ i \in 1..Len(v) /\ i <= Len(w) /\ i <= Len(u)
    BY <1>11, <1>12, <1>13
  <2> QED
    BY <1>11, <1>12, <1>13, <2>1
<1>17. \A i \in DOMAIN v \ DOMAIN w :
         /\ i > Len(w)
         /\ \/ i - Len(w) \in DOMAIN a /\ v[i] = a[i - Len(w)]
            \/ i - Len(u) \in DOMAIN b /\ v[i] = b[i - Len(u)]
  <2> SUFFICES ASSUME NEW i \in DOMAIN v \ DOMAIN w
               PROVE  /\ i > Len(w)
                      /\ \/ i - Len(w) \in DOMAIN a /\ v[i] = a[i - Len(w)]
                         \/ i - Len(u) \in DOMAIN b /\ v[i] = b[i - Len(u)]
    OBVIOUS
  <2>1. i \in Nat /\ i > Len(w) /\ i <= Len(v) /\ i \in 1..Len(v)
    BY <1>13
  <2>2. CASE i <= Len(u)
    <3>1. i \in 1..Len(u) /\ v[i] = u[i]
      BY <1>12, <1>13, <2>1, <2>2
    <3>2. u[i] = a[i - Len(w)]
      BY <1>11, <1>13, <2>1, <3>1
    <3>3. i - Len(w) \in 1..Len(a)
      BY <1>11, <1>13, <2>1, <2>2
    <3> QED
      BY <1>13, <2>1, <3>1, <3>2, <3>3
  <2>3. CASE ~(i <= Len(u))
    <3>1. v[i] = b[i - Len(u)]
      BY <1>12, <2>1, <2>3
    <3>2. i - Len(u) \in 1..Len(b)
      BY <1>12, <1>13, <2>1, <2>3
    <3> QED
      BY <1>13, <2>1, <3>1, <3>2
  <2> QED
    BY <2>2, <2>3
<1>18. LostRec(D).op = "lost" /\ LostRec(D).gone = D /\ SyncRec.op = "sync"
  BY DEF LostRec, SyncRec, Rec
<1>19. \A i \in DOMAIN r \ DOMAIN w :
         /\ i > Len(w)
         /\ \/ r[i].op = "lost" /\ r[i].gone = D
            \/ r[i].op = "sync" /\ Adopt(l, ob) # {}
  <2> SUFFICES ASSUME NEW i \in DOMAIN r \ DOMAIN w
               PROVE  /\ i > Len(w)
                      /\ \/ r[i].op = "lost" /\ r[i].gone = D
                         \/ r[i].op = "sync" /\ Adopt(l, ob) # {}
    OBVIOUS
  <2>1. i \in DOMAIN v \ DOMAIN w /\ r[i].op = v[i].op /\ r[i].gone = v[i].gone
    BY <1>14, <1>15
  <2>2. CASE i - Len(w) \in DOMAIN a /\ v[i] = a[i - Len(w)]
    <3>1. v[i] = LostRec(D)
      BY <1>6, <2>2
    <3> QED
      BY <1>17, <1>18, <2>1, <3>1
  <2>3. CASE i - Len(u) \in DOMAIN b /\ v[i] = b[i - Len(u)]
    <3>1. v[i] = SyncRec /\ Adopt(l, ob) # {}
      BY <1>7, <2>3
    <3> QED
      BY <1>17, <1>18, <2>1, <3>1
  <2> QED
    BY <1>17, <2>1, <2>2, <2>3
<1>20. D # {} => \E k \in DOMAIN r \ DOMAIN w : r[k].op = "lost" /\ r[k].gone = D
  <2> SUFFICES ASSUME D # {}
               PROVE  \E k \in DOMAIN r \ DOMAIN w : r[k].op = "lost" /\ r[k].gone = D
    OBVIOUS
  <2>1. PICK k : k = Len(w) + 1 OBVIOUS
  <2>2. Len(a) = 1 /\ a[1] = LostRec(D)
    BY <1>6
  <2>3. k \in 1..Len(u) /\ k \in 1..Len(v) /\ k \notin DOMAIN w /\ k - Len(w) = 1 /\ ~(k <= Len(w))
        /\ k <= Len(u)
    BY <1>11, <1>12, <1>13, <2>1, <2>2
  <2>4. v[k] = u[k] /\ u[k] = LostRec(D)
    <3>1. v[k] = u[k]
      BY <1>12, <2>3
    <3>2. u[k] = a[k - Len(w)]
      BY <1>11, <2>3
    <3> QED
      BY <2>2, <2>3, <3>1, <3>2
  <2>5. k \in DOMAIN v /\ k \in DOMAIN r \ DOMAIN w
    BY <1>13, <1>14, <2>3
  <2>6. r[k].op = v[k].op /\ r[k].gone = v[k].gone
    BY <1>15, <2>5
  <2> QED
    BY <1>18, <2>4, <2>5, <2>6
<1>21. Adopt(l, ob) # {} => \E k \in DOMAIN r \ DOMAIN w : r[k].op = "sync"
  <2> SUFFICES ASSUME Adopt(l, ob) # {}
               PROVE  \E k \in DOMAIN r \ DOMAIN w : r[k].op = "sync"
    OBVIOUS
  <2>1. PICK k : k = Len(u) + 1 OBVIOUS
  <2>2. Len(b) = 1 /\ b[1] = SyncRec
    BY <1>7
  <2>3. k \in 1..Len(v) /\ k \notin DOMAIN w /\ k - Len(u) = 1 /\ ~(k <= Len(u))
    BY <1>11, <1>12, <1>13, <2>1, <2>2
  <2>4. v[k] = SyncRec
    BY <1>12, <2>2, <2>3
  <2>5. k \in DOMAIN v /\ k \in DOMAIN r \ DOMAIN w
    BY <1>13, <1>14, <2>3
  <2>6. r[k].op = v[k].op /\ r[k].gone = v[k].gone
    BY <1>15, <2>5
  <2> QED
    BY <1>18, <2>4, <2>5, <2>6
<1>22. \A i \in DOMAIN r : r[i].st = "disk" /\ r[i].op # "zero"
  <2>1. \A i \in DOMAIN w : r[i].op # "zero"
    BY <1>5, <1>15, <1>16
  <2> QED
    BY <1>14, <1>15, <1>19, <2>1
<1>23. \A i \in DOMAIN w :
         /\ i \in DOMAIN r /\ r[i].op = l[i].op /\ r[i].entry = l[i].entry
         /\ r[i].gone = l[i].gone /\ r[i].lazy = l[i].lazy /\ r[i].head = l[i].head
         /\ r[i].mark = l[i].mark
  BY <1>5, <1>14, <1>15, <1>16
<1> QED
  BY <1>1, <1>2, <1>14, <1>19, <1>20, <1>21, <1>22, <1>23

\* A recovered log says of each whole line what the old one said of it, the
\* losses it found aside.
LEMMA RecoveredSays ==
    ASSUME NEW l \in Seq(Records), LostInv(l), NEW ob, NEW r, r = Recovered(l, ob),
           NEW e, NEW i \in DOMAIN Whole(l)
    PROVE  Gone(r, e, i) <=> Gone(l, e, i) \/ e \in Dropped(l, ob)
<1>1. PICK w : w = Whole(l) OBVIOUS
<1>2. /\ w \in Seq(Records) /\ Len(w) \in 0..Len(l)
      /\ \A k \in DOMAIN w : k \in DOMAIN l /\ w[k] = l[k] /\ l[k].op # "zero"
      /\ \A k \in DOMAIN l : (\A j \in 1..k : l[j].op # "zero") => k \in DOMAIN w
  BY <1>1, WholeType
<1>3. /\ \A k \in DOMAIN w : k \in DOMAIN r /\ r[k].op = l[k].op /\ r[k].gone = l[k].gone
      /\ \A k \in DOMAIN r \ DOMAIN w :
           /\ k > Len(w)
           /\ \/ r[k].op = "lost" /\ r[k].gone = Dropped(l, ob)
              \/ r[k].op = "sync" /\ Adopt(l, ob) # {}
      /\ Dropped(l, ob) # {} =>
           \E k \in DOMAIN r \ DOMAIN w : r[k].op = "lost" /\ r[k].gone = Dropped(l, ob)
  BY <1>1, RecoveredShape
<1>4. Len(w) \in Nat /\ DOMAIN w = 1..Len(w) /\ r \in Seq(Records) /\ \A k \in DOMAIN r : k \in Nat
  BY <1>2, LogIndices, RecoveredType
<1>5. ASSUME Gone(r, e, i) PROVE Gone(l, e, i) \/ e \in Dropped(l, ob)
  <2>1. PICK k \in DOMAIN r : k > i /\ r[k].op = "lost" /\ e \in r[k].gone
    BY <1>5 DEF Gone
  <2>2. CASE k \in DOMAIN w
    BY <1>2, <1>3, <2>1, <2>2 DEF Gone
  <2>3. CASE k \notin DOMAIN w
    BY <1>3, <2>1, <2>3
  <2> QED
    BY <2>2, <2>3
<1>6. ASSUME Gone(l, e, i) PROVE Gone(r, e, i)
  <2>1. PICK k \in DOMAIN l : k > i /\ l[k].op = "lost" /\ e \in l[k].gone
    BY <1>6 DEF Gone
  <2>2. k \in DOMAIN w
    BY <1>2, <2>1 DEF LostInv
  <2> QED
    BY <1>3, <2>1, <2>2 DEF Gone
<1>7. ASSUME e \in Dropped(l, ob) PROVE Gone(r, e, i)
  <2>1. PICK k \in DOMAIN r \ DOMAIN w : r[k].op = "lost" /\ r[k].gone = Dropped(l, ob)
    BY <1>3, <1>7
  <2>2. k > i
    <3>1. k > Len(w) /\ i <= Len(w) /\ i \in Nat /\ k \in Nat
      BY <1>1, <1>3, <1>4, <2>1
    <3> QED
      BY <1>4, <3>1
  <2> QED
    BY <1>7, <2>1, <2>2 DEF Gone
<1> QED
  BY <1>5, <1>6, <1>7

\* Recovery plans a log that holds exactly what it found, the acknowledged
\* with it, and writes again the objects of the working state it keeps.
LEMMA RecoverObjectsKeeps ==
    ASSUME LogInv, TypeOK', NEW s \in Sessions, RecoverObjects(s)
    PROVE  LogInv'
<1>1. /\ TypeOK /\ SessionInv(s) /\ WroteInv /\ UNCHANGED <<log, stopped, handle, acked>>
      /\ call[s].pc = "idle" /\ ~handle[s].held
  BY DEF LogInv, RecoverObjects, Idle
<1>2. PICK l : l = log[s] OBVIOUS
<1>3. PICK r : r = Recovered(l, obj) OBVIOUS
<1>4. PICK E : E = EntriesOf(l, obj, FALSE) OBVIOUS
<1>5. PICK fresh : fresh = UNION {Names[e] : e \in Adopt(l, obj)} OBVIOUS
<1>6. /\ obj' = [o \in Objects |-> IF o \in fresh THEN "disk" ELSE obj[o]]
      /\ wrote' = wrote \cup fresh
  BY <1>2, <1>5 DEF RecoverObjects
<1>7. call'[s].pc = "recover" /\ call'[s].recs = r /\ call'[s].view.own = E
  <2>1. PICK v : v = reconcile(s) OBVIOUS
  <2>2. v.own = E
    BY <1>2, <1>4, <2>1 DEF reconcile, View
  <2>3. PICK c : c = [NoCall EXCEPT !.pc = "recover", !.kind = "open", !.view = v, !.recs = r]
    OBVIOUS
  <2>4. c.pc = "recover" /\ c.recs = r /\ c.view = v
    BY <2>3 DEF NoCall
  <2>5. call'[s] = c
    BY <1>1, <1>2, <1>3, <2>1, <2>3 DEF RecoverObjects, TypeOK
  <2> QED
    BY <2>2, <2>4, <2>5
<1>8. DiskStays /\ OnlyOf(s)
  BY <1>1, <1>6 DEF RecoverObjects, DiskStays, OnlyOf, TypeOK
<1>9. /\ l \in Seq(Records) /\ Len(l) \in Nat /\ DOMAIN l = 1..Len(l)
      /\ \A i \in DOMAIN l : /\ i \in Nat /\ i \in 1..i
                             /\ l[i].op = "append" => l[i].entry \in Entries
                             /\ \A j \in 1..i : j \in DOMAIN l
  BY <1>1, <1>2, SessionTypes, LogIndices, EntriesOfRecords
<1>10. OnceInv(l) /\ LostInv(l) /\ StoredInv(s) /\ AckedInv(s)
  BY <1>1, <1>2 DEF SessionInv
<1>11. PICK w : w = Whole(l) OBVIOUS
<1>12. /\ \A i \in DOMAIN w : i \in DOMAIN l /\ l[i].op # "zero"
       /\ \A i \in DOMAIN l : (\A j \in 1..i : l[j].op # "zero") => i \in DOMAIN w
  BY <1>9, <1>11, WholeType
<1>13. /\ \A i \in DOMAIN r : r[i].st = "disk" /\ r[i].op # "zero"
       /\ \A i \in DOMAIN w : i \in DOMAIN r /\ r[i].op = l[i].op /\ r[i].entry = l[i].entry
       /\ \A i \in DOMAIN r \ DOMAIN w : r[i].op # "append"
  <2>1. \A i \in DOMAIN r : r[i].st = "disk" /\ r[i].op # "zero"
    BY <1>3, <1>9, RecoveredShape
  <2>2. \A i \in DOMAIN w : i \in DOMAIN r /\ r[i].op = l[i].op /\ r[i].entry = l[i].entry
    BY <1>3, <1>9, <1>11, RecoveredShape
  <2>3. \A i \in DOMAIN r \ DOMAIN w : r[i].op # "append"
    BY <1>3, <1>9, <1>11, RecoveredShape
  <2> QED
    BY <2>1, <2>2, <2>3
<1>14. \A e : \A i \in DOMAIN w : Gone(r, e, i) <=> Gone(l, e, i) \/ e \in Dropped(l, obj)
  BY <1>3, <1>9, <1>10, <1>11, RecoveredSays
<1>15. ASSUME NEW i \in DOMAIN r, r[i].op = "append", ~Gone(r, r[i].entry, i)
       PROVE  r[i].entry \in E /\ AllOnDisk(r[i].entry)'
  <2>1. /\ i \in DOMAIN w /\ i \in DOMAIN l /\ r[i].op = l[i].op /\ r[i].entry = l[i].entry
    BY <1>12, <1>13, <1>15
  <2>2. ~Gone(l, l[i].entry, i) /\ l[i].entry \notin Dropped(l, obj) /\ l[i].op = "append"
    BY <1>14, <1>15, <2>1
  <2>3. l[i].entry \in E
    <3>1. CASE Reached(l, obj, FALSE, i)
      BY <1>4, <2>1, <2>2, <3>1 DEF EntriesOf, KeptAt
    <3>2. CASE ~Reached(l, obj, FALSE, i)
      BY <1>4, <2>1, <2>2, <3>2 DEF Dropped
    <3> QED
      BY <3>1, <3>2
  <2>4. CASE ~Pending(l, i)
    <3>1. AllOnDisk(l[i].entry)
      BY <1>2, <1>10, <2>1, <2>2, <2>4 DEF StoredInv
    <3> QED
      BY <1>8, <1>9, <2>1, <2>2, <2>3, <3>1, DiskStaysFor
  <2>5. CASE Pending(l, i)
    <3>1. PICK j \in DOMAIN l : KeptAt(l, obj, FALSE, j) /\ l[j].entry = l[i].entry
      BY <1>4, <2>3 DEF EntriesOf
    <3>2. i = j
      BY <1>9, <1>10, <2>1, <2>2, <3>1, StandsOnce DEF KeptAt
    <3>3. l[i].entry \in Adopt(l, obj)
      BY <2>1, <2>5, <3>1, <3>2 DEF KeptAt, Adopt
    <3>4. Names[l[i].entry] \subseteq fresh
      BY <1>5, <3>3
    <3>5. Names[l[i].entry] \subseteq Objects
      BY <1>9, <2>1, <2>2, ConstantsAssumption
    <3>6. AllOnDisk(l[i].entry)'
      BY <1>6, <3>4, <3>5 DEF AllOnDisk
    <3> QED
      BY <2>1, <2>3, <3>6
  <2> QED
    BY <2>4, <2>5
<1>16. acked[s] \subseteq E
  BY <1>2, <1>4, <1>10, AckedAreFound
<1>17. ASSUME NEW e \in E PROVE \E i \in DOMAIN r : AppendAt(r, e, i)
  <2>1. PICK i \in DOMAIN l : KeptAt(l, obj, FALSE, i) /\ l[i].entry = e
    BY <1>4, <1>17 DEF EntriesOf
  <2>2. i \in DOMAIN w
    <3>1. \A j \in 1..i : l[j].op # "zero"
      BY <2>1 DEF KeptAt, Reached, CutsAt
    <3> QED
      BY <1>12, <3>1
  <2>3. e \notin Dropped(l, obj)
    BY <1>4, <1>17 DEF Dropped
  <2>4. ~Gone(r, e, i)
    BY <1>14, <2>1, <2>2, <2>3 DEF KeptAt
  <2>5. i \in DOMAIN r /\ r[i].op = "append" /\ r[i].entry = e
    BY <1>13, <2>1, <2>2 DEF KeptAt
  <2> QED
    BY <2>4, <2>5 DEF AppendAt
<1>18. OnceInv(r)
  <2> SUFFICES ASSUME NEW i \in DOMAIN r, NEW j \in DOMAIN r, i < j, r[i].op = "append",
                      r[j].op = "append", r[i].entry = r[j].entry
               PROVE  Gone(r, r[i].entry, i)
    BY DEF OnceInv
  <2>1. /\ i \in DOMAIN w /\ i \in DOMAIN l /\ l[i].op = "append" /\ r[i].entry = l[i].entry
        /\ j \in DOMAIN l /\ l[j].op = "append" /\ r[j].entry = l[j].entry
    BY <1>12, <1>13
  <2>2. Gone(l, l[i].entry, i)
    BY <1>10, <2>1 DEF OnceInv
  <2> QED
    BY <1>14, <2>1, <2>2
<1>19. PlanInv(s)'
  BY <1>1, <1>7, <1>13, <1>15, <1>16, <1>17, <1>18 DEF PlanInv
<1>20. CallInv(s)' /\ RecsInv(s)'
  BY <1>1, <1>7 DEF CallInv, RecsInv
<1>21. OwedInv(s)' /\ OwnInv(s)'
  BY <1>1 DEF OwedInv, OwnInv, Live
<1>22. StoredInv(s)' /\ LostInv(log[s])' /\ OnceInv(log[s])' /\ AckedInv(s)' /\ PhantomInv(s)'
  <2>1. Accepted(s)' = Accepted(s)
    BY <1>1, <1>7 DEF Accepted
  <2> QED
    BY <1>1, <1>8, <2>1, LogStays
<1>23. SessionInv(s)'
  BY <1>19, <1>20, <1>21, <1>22 DEF SessionInv
<1>24. WroteInv'
  <2>1. fresh \subseteq Objects
    <3>1. \A e \in Adopt(l, obj) : Names[e] \subseteq Objects
      BY <1>9, SetsOfEntries, ConstantsAssumption
    <3> QED
      BY <1>5, <3>1
  <2>2. \A o \in wrote : o \in Objects
    BY <1>1 DEF TypeOK
  <2> QED
    BY <1>1, <1>6, <2>1, <2>2 DEF WroteInv
<1> QED
  BY <1>1, <1>8, <1>23, <1>24, OneMoves

-----------------------------------------------------------------------------
(* The log's invariant.                                                    *)

LEMMA LogInit == Init => LogInv
<1> SUFFICES ASSUME Init PROVE LogInv
  OBVIOUS
<1>1. TypeOK
  BY TypeInit
<1>2. WroteInv
  BY DEF Init, WroteInv, NoHandle
<1>3. ASSUME NEW s \in Sessions PROVE SessionInv(s)
  <2>1. ~handle[s].held /\ call[s].pc = "idle" /\ acked[s] = {}
    BY DEF Init, NoHandle, NoCall
  <2>2. PICK l : l = log[s] OBVIOUS
  <2>3. MarkRec("record").op = "mark" /\ MarkRec("record") \in Records
    BY RecordTypes DEF MarkRec, Rec, Marks
  <2>4. PICK q : q = <<MarkRec("record")>> OBVIOUS
  <2>5. q \in Seq(Records) /\ \A i \in DOMAIN q : q[i].op = "mark" /\ q[i] \in Records
    BY <2>3, <2>4
  <2>6. l = OnDisk(q)
    BY <2>2, <2>4 DEF Init
  <2>7. \A i \in DOMAIN l : l[i].op = "mark" /\ l[i].st = "disk"
    BY <2>5, <2>6 DEF OnDisk, Records
  <2>8. StoredInv(s) /\ LostInv(l) /\ OnceInv(l) /\ PhantomInv(s)
    BY <2>2, <2>7 DEF StoredInv, LostInv, OnceInv, PhantomInv
  <2>9. CallInv(s) /\ RecsInv(s) /\ PlanInv(s) /\ OwedInv(s) /\ OwnInv(s) /\ AckedInv(s)
    BY <2>1 DEF CallInv, RecsInv, PlanInv, OwedInv, OwnInv, AckedInv, FirmAt, Live
  <2> QED
    BY <2>2, <2>8, <2>9 DEF SessionInv
<1> QED
  BY <1>1, <1>2, <1>3 DEF LogInv

LEMMA LogNext ==
    ASSUME NoPhantomLeft, LogInv, [Next]_vars
    PROVE  LogInv'
<1>1. TypeOK'
  BY TypeNext DEF LogInv
<1>2. ASSUME NEW s \in Sessions, Open(s) \/ RecoverObjects(s) \/ RecoverLog(s) \/ RecoverFails(s)
      PROVE  LogInv'
  BY <1>1, <1>2, OpenKeeps, RecoverObjectsKeeps, RecoverLogKeeps, RecoverFailsKeeps
<1>3. ASSUME NEW s \in Sessions, NEW x \in Entries \cup {Root}, Branch(s, x) \/ SetHead(s, x)
      PROVE  LogInv'
  BY <1>1, <1>3, BranchKeeps, SetHeadKeeps
<1>4. ASSUME NEW s \in Sessions, NEW e \in Entries, Write(s, e)
      PROVE  LogInv'
  BY <1>1, <1>4, WriteKeeps
<1>5. ASSUME NEW s \in Sessions, NEW mark \in Marks, SetMark(s, mark)
      PROVE  LogInv'
  BY <1>1, <1>5, SetMarkKeeps
<1>6. ASSUME NEW s \in Sessions, Prepare(s) \/ PrepareReturns(s) \/ Commit(s) \/ Release(s)
      PROVE  LogInv'
  BY <1>1, <1>6, PrepareKeeps, PrepareReturnsKeeps, CommitKeeps, ReleaseKeeps
<1>7. ASSUME NEW s \in Sessions, Flush(s) \/ FlushFails(s) \/ LogWrite(s) \/ LogWriteFails(s)
      PROVE  LogInv'
  BY <1>1, <1>7, FlushKeeps, FlushFailsKeeps, LogWriteKeeps, LogWriteFailsKeeps
<1>8. ASSUME NEW s \in Sessions, LogFsync(s) \/ LogFsyncFails(s) \/ Cut(s)
      PROVE  LogInv'
  BY <1>1, <1>8, LogFsyncKeeps, LogFsyncFailsKeeps, CutKeeps
<1>9. CASE Kill \/ PowerLoss
  BY <1>1, <1>9, KillKeeps, PowerLossKeeps
<1>10. CASE UNCHANGED vars
  BY <1>1, <1>10, LeafMoves DEF vars
<1> QED
  BY <1>2, <1>3, <1>4, <1>5, <1>6, <1>7, <1>8, <1>9, <1>10 DEF Next

\* The log, the objects and the handles keep their invariant at every step of
\* every call, for any sessions and entries, through kills, power losses and
\* failed fsyncs, provided no phantom record is left by a kill.
THEOREM LogInvariant ==
    ASSUME NoPhantomLeft
    PROVE  Spec => []LogInv
<1>1. LogInv /\ [Next]_vars => LogInv'
  BY LogNext
<1> QED
  BY LogInit, <1>1, PTL DEF Spec

\* An acknowledged entry is found by every recovery, its objects whole.
THEOREM AcknowledgedSurvive ==
    ASSUME NoPhantomLeft
    PROVE  Spec => []AckedSurvive
<1>1. LogInv => AckedSurvive
  <2> SUFFICES ASSUME LogInv, NEW s \in Sessions, NEW e \in acked[s]
               PROVE  e \in reconcile(s).own /\ Present(obj, e)
    BY DEF AckedSurvive
  <2>1. TypeOK /\ StoredInv(s) /\ AckedInv(s)
    BY DEF LogInv, SessionInv
  <2>2. e \in EntriesOf(log[s], obj, FALSE)
    BY <2>1, AckedAreFound
  <2>3. PICK i \in DOMAIN log[s] : KeptAt(log[s], obj, FALSE, i) /\ log[s][i].entry = e
    BY <2>2 DEF EntriesOf
  <2>4. Present(obj, e)
    BY <2>1, <2>3, KeptIsWhole
  <2> QED
    BY <2>2, <2>4 DEF reconcile, View
<1> QED
  BY <1>1, LogInvariant, PTL

-----------------------------------------------------------------------------
(***************************************************************************)
(* What a recovery finds, proved beyond the survival of the acknowledged:  *)
(* the log is a session's, the handle says what the log says, what was     *)
(* served is found, and the state found is one some call left.             *)
(*                                                                         *)
(* A log is read up to the first record a reader stops at, so what it says *)
(* is StateAt(l, m), the state its first m records say, for some m.  Every *)
(* step either leaves those records, shrinks the log (Shrinks), or writes  *)
(* one thing at its end (SaysMore); the rest is which m a crash may leave. *)
(***************************************************************************)

-----------------------------------------------------------------------------
(* The log is a session's.                                                 *)

\* A log that shrinks stays one: where no line is missing, what an append
\* hangs from is before it.
LEMMA TreeShrinks ==
    ASSUME NEW l \in Seq(Records), NEW r \in Seq(Records), Shrinks(l, r), TreeIn(l)
    PROVE  TreeIn(r)
<1> SUFFICES ASSUME NEW i \in DOMAIN r, NoHole(r, i)
             PROVE  /\ Standing(r, i) /\ Parent[r[i].entry] # Root =>
                         \E j \in DOMAIN r : j < i /\ AppendAt(r, Parent[r[i].entry], j)
                    /\ Moves(r, i) /\ r[i].head # Root =>
                         r[i].head \notin Labels /\ \E j \in DOMAIN r : j <= i /\ AppendAt(r, r[i].head, j)
  BY DEF TreeIn
<1>1. /\ DOMAIN r = 1..Len(r) /\ Len(r) \in Nat /\ i \in Nat
      /\ \A j \in 1..i : j \in DOMAIN r
  BY LogIndices
<1>2. \A j \in DOMAIN l : j \in Nat /\ j >= 1
  <2>1. DOMAIN l = 1..Len(l) /\ Len(l) \in Nat
    BY LogIndices
  <2> QED
    BY <2>1
<1>3. \A j \in 1..i : /\ r[j].op # "zero" /\ j \in DOMAIN l /\ r[j].op = l[j].op
                      /\ r[j].entry = l[j].entry /\ r[j].head = l[j].head
  BY <1>1 DEF NoHole, Shrinks
<1>4. i \in DOMAIN l /\ i \in 1..i /\ NoHole(l, i)
  BY <1>1, <1>3 DEF NoHole
<1>5. \A e : \A j \in Nat : Gone(r, e, j) <=> Gone(l, e, j)
  BY Shrunk
<1>6. (Standing(r, i) => Standing(l, i)) /\ (Moves(r, i) => Moves(l, i))
  BY <1>1, <1>3, <1>4, <1>5 DEF Standing, Moves
<1>7. ASSUME NEW e, NEW j \in DOMAIN l, j <= i, AppendAt(l, e, j)
      PROVE  j \in DOMAIN r /\ AppendAt(r, e, j)
  <2>1. j \in 1..i /\ j \in Nat
    BY <1>1, <1>2, <1>7
  <2> QED
    BY <1>1, <1>3, <1>5, <1>7, <2>1 DEF AppendAt
<1>8. ASSUME Standing(r, i), Parent[r[i].entry] # Root
      PROVE  \E j \in DOMAIN r : j < i /\ AppendAt(r, Parent[r[i].entry], j)
  <2>1. PICK j \in DOMAIN l : j < i /\ AppendAt(l, Parent[l[i].entry], j)
    BY <1>3, <1>4, <1>6, <1>8 DEF TreeIn
  <2>2. j \in DOMAIN r /\ AppendAt(r, Parent[l[i].entry], j)
    BY <1>1, <1>2, <1>7, <2>1
  <2> QED
    BY <1>3, <1>4, <2>1, <2>2
<1>9. ASSUME Moves(r, i), r[i].head # Root
      PROVE  r[i].head \notin Labels /\ \E j \in DOMAIN r : j <= i /\ AppendAt(r, r[i].head, j)
  <2>1. l[i].head \notin Labels
    BY <1>3, <1>4, <1>6, <1>9 DEF TreeIn
  <2>2. PICK j \in DOMAIN l : j <= i /\ AppendAt(l, l[i].head, j)
    BY <1>3, <1>4, <1>6, <1>9 DEF TreeIn
  <2>3. j \in DOMAIN r /\ AppendAt(r, l[i].head, j)
    BY <1>7, <2>2
  <2> QED
    BY <1>3, <1>4, <2>1, <2>2, <2>3
<1> QED
  BY <1>8, <1>9

\* The log stays, and so does what the call is about to write, if anything.
LEMMA TreeStays ==
    ASSUME NEW s \in Sessions, TreeInv(s), log'[s] = log[s],
           \/ call'[s] = call[s] /\ handle'[s].own = handle[s].own
           \/ call'[s].pc \in {"idle", "prepare"}
    PROVE  TreeInv(s)'
<1>1. TreeIn(log[s])'
  BY DEF TreeInv
<1>2. RestInv(s)' /\ KindInv(s)'
  BY DEF TreeInv, RestInv, KindInv
<1>3. call'[s].pc = "recover" => TreeIn(call'[s].recs)
  BY DEF TreeInv
<1> QED
  BY <1>1, <1>2, <1>3 DEF TreeInv

\* The log shrinks and no call is about to write.
LEMMA TreeLetGo ==
    ASSUME TypeOK, TypeOK', NEW s \in Sessions, TreeInv(s), Shrinks(log[s], log'[s]),
           call'[s].pc \notin {"flush", "log", "recover"}
    PROVE  TreeInv(s)'
<1>1. log[s] \in Seq(Records) /\ log'[s] \in Seq(Records)
  BY DEF TypeOK
<1>2. TreeIn(log[s])'
  BY <1>1, TreeShrinks DEF TreeInv
<1> QED
  BY <1>2 DEF TreeInv, RestInv, KindInv

\* A call begins: what it will write rests on what the session holds.
LEMMA TreeBegins ==
    ASSUME NEW s \in Sessions, TreeInv(s), log'[s] = log[s], call'[s].pc # "recover",
           RestInv(s)', KindInv(s)'
    PROVE  TreeInv(s)'
BY DEF TreeInv

\* The records are written: they hang from what the session holds, which is
\* in the log before them.
LEMMA TreeGrows ==
    ASSUME LogInv, NEW s \in Sessions, TreeInv(s), LogWrite(s)
    PROVE  TreeInv(s)'
<1>1. TypeOK /\ SessionInv(s)
  BY DEF LogInv
<1>2. PICK l : l = log[s] OBVIOUS
<1>3. PICK q : q = call[s].recs OBVIOUS
<1>4. PICK r : r = l \o q OBVIOUS
<1>5. call[s].pc = "log" /\ log'[s] = r
  BY <1>1, <1>2, <1>3, <1>4 DEF LogWrite, TypeOK
<1>6. call'[s].pc \in {"idle", "prepare", "fsync"}
  <2>1. CASE call[s].durable
    <3>1. call[s] \in Calls /\ call'[s] = [call[s] EXCEPT !.pc = "fsync"]
      BY <1>1, <2>1 DEF LogWrite, TypeOK
    <3> QED
      BY <3>1 DEF Calls
  <2>2. CASE ~call[s].durable
    <3>1. Complete(s)
      BY <2>2 DEF LogWrite
    <3>2. call'[s].pc \in {"idle", "prepare"}
      BY <1>1, <3>1, Completed
    <3> QED
      BY <3>2
  <2> QED
    BY <2>1, <2>2
<1>7. /\ l \in Seq(Records) /\ q \in Seq(Records) /\ Len(l) \in Nat /\ DOMAIN l = 1..Len(l)
  BY <1>1, <1>2, <1>3, SessionTypes
<1>8. \A k \in DOMAIN q : q[k].op # "lost"
  BY <1>1, <1>3, <1>5 DEF SessionInv, RecsInv
<1>9. /\ DOMAIN r = 1..Len(r) /\ Len(r) \in Nat
      /\ \A i \in DOMAIN l : i \in DOMAIN r /\ r[i] = l[i]
      /\ \A i \in DOMAIN r \ DOMAIN l :
           i > Len(l) /\ i - Len(l) \in DOMAIN q /\ r[i] = q[i - Len(l)]
  <2>1. r \in Seq(Records)
    BY <1>4, <1>7, <1>8, Grown
  <2>2. DOMAIN r = 1..Len(r) /\ Len(r) \in Nat
    BY <2>1, LogIndices
  <2>3. \A i \in DOMAIN l : i \in DOMAIN r /\ r[i] = l[i]
    BY <1>4, <1>7, <1>8, Grown
  <2>4. \A i \in DOMAIN r \ DOMAIN l :
          i > Len(l) /\ i - Len(l) \in DOMAIN q /\ r[i] = q[i - Len(l)]
    BY <1>4, <1>7, <1>8, Grown
  <2> QED
    BY <2>2, <2>3, <2>4
<1>10. \A e : \A i \in Nat : Gone(r, e, i) <=> Gone(l, e, i)
  BY <1>4, <1>7, <1>8, Grown
<1>11. \A e : \A i \in DOMAIN r \ DOMAIN l : ~Gone(r, e, i)
  <2>1. \A i \in DOMAIN r \ DOMAIN l : i \in Nat /\ \A k \in DOMAIN l : ~(k > i)
    BY <1>7, <1>9
  <2> QED
    BY <1>10, <2>1 DEF Gone
<1>12. ASSUME NEW e, NEW j \in DOMAIN l, AppendAt(l, e, j)
       PROVE  j \in DOMAIN r /\ AppendAt(r, e, j)
  BY <1>7, <1>9, <1>10, <1>12 DEF AppendAt
<1>13. ASSUME NEW i \in DOMAIN l, NoHole(r, i)
       PROVE  /\ Standing(r, i) /\ Parent[r[i].entry] # Root =>
                   \E j \in DOMAIN r : j < i /\ AppendAt(r, Parent[r[i].entry], j)
              /\ Moves(r, i) /\ r[i].head # Root =>
                   r[i].head \notin Labels /\ \E j \in DOMAIN r : j <= i /\ AppendAt(r, r[i].head, j)
  <2>1. i \in Nat /\ r[i] = l[i] /\ \A j \in 1..i : j \in DOMAIN l /\ r[j] = l[j]
    BY <1>7, <1>9
  <2>2. NoHole(l, i)
    BY <1>13, <2>1 DEF NoHole
  <2>3. (Standing(r, i) => Standing(l, i)) /\ (Moves(r, i) => Moves(l, i))
    BY <1>10, <2>1 DEF Standing, Moves
  <2>4. /\ Standing(l, i) /\ Parent[l[i].entry] # Root =>
             \E j \in DOMAIN l : j < i /\ AppendAt(l, Parent[l[i].entry], j)
        /\ Moves(l, i) /\ l[i].head # Root =>
             l[i].head \notin Labels /\ \E j \in DOMAIN l : j <= i /\ AppendAt(l, l[i].head, j)
    BY <1>2, <2>2 DEF TreeInv, TreeIn
  <2> QED
    BY <1>12, <2>1, <2>3, <2>4
<1>14. ASSUME NEW e \in handle[s].own, NEW i \in DOMAIN r \ DOMAIN l
       PROVE  \E j \in DOMAIN r : j < i /\ AppendAt(r, e, j)
  <2>1. Live(s)
    BY <1>1, <1>5 DEF Live, Idle, SessionInv, CallInv
  <2>2. PICK j \in DOMAIN l : AppendAt(l, e, j)
    BY <1>1, <1>2, <2>1 DEF SessionInv, OwnInv
  <2>3. j < i
    BY <1>7, <1>9
  <2> QED
    BY <1>12, <2>2, <2>3
<1>15. ASSUME NEW i \in DOMAIN r \ DOMAIN l
       PROVE  /\ Standing(r, i) /\ Parent[r[i].entry] # Root =>
                   \E j \in DOMAIN r : j < i /\ AppendAt(r, Parent[r[i].entry], j)
              /\ Moves(r, i) /\ r[i].head # Root =>
                   r[i].head \notin Labels /\ \E j \in DOMAIN r : j <= i /\ AppendAt(r, r[i].head, j)
  <2>1. PICK own : own = handle[s].own OBVIOUS
  <2>2. /\ r[i].op = "head" => mayRestOn(own, r[i].head)
        /\ r[i].op = "append" =>
             /\ Parent[r[i].entry] \in own \cup {Root}
             /\ r[i].head # None => mayRestOn(own \cup {r[i].entry}, r[i].head)
    BY <1>3, <1>5, <1>9, <2>1 DEF TreeInv, RestInv
  <2>3. \A e \in own : \E j \in DOMAIN r : j < i /\ AppendAt(r, e, j)
    BY <1>14, <2>1
  <2>4. \A e \in own : \E j \in DOMAIN r : j <= i /\ AppendAt(r, e, j)
    <3>1. \A j \in DOMAIN r : j < i => j <= i
      BY <1>9
    <3> QED
      BY <2>3, <3>1
  <2>5. r[i].op = "append" => AppendAt(r, r[i].entry, i)
    BY <1>11 DEF AppendAt
  <2>6. i <= i
    BY <1>9
  <2>7. ASSUME Standing(r, i), Parent[r[i].entry] # Root
        PROVE  \E j \in DOMAIN r : j < i /\ AppendAt(r, Parent[r[i].entry], j)
    BY <2>2, <2>3, <2>7 DEF Standing
  <2>8. ASSUME Moves(r, i), r[i].head # Root
        PROVE  r[i].head \notin Labels /\ \E j \in DOMAIN r : j <= i /\ AppendAt(r, r[i].head, j)
    <3>1. CASE r[i].op = "head"
      BY <2>2, <2>4, <2>8, <3>1 DEF mayRestOn
    <3>2. CASE r[i].op = "append" /\ r[i].head # None
      BY <2>2, <2>4, <2>5, <2>6, <2>8, <3>2 DEF mayRestOn
    <3> QED
      BY <2>8, <3>1, <3>2 DEF Moves, Standing
  <2> QED
    BY <2>7, <2>8
<1>16. TreeIn(r)
  BY <1>13, <1>15 DEF TreeIn
<1> QED
  BY <1>5, <1>6, <1>16 DEF TreeInv, RestInv, KindInv

\* A record with its sync record, if the session has working state.
LEMMA WithSyncIs ==
    ASSUME NEW s \in Sessions, NEW r \in Records, NEW q, q \in {withSync(s, <<r>>), <<r>>}
    PROVE  /\ q # <<>> /\ 1 \in DOMAIN q /\ q[1] = r
           /\ \A k \in DOMAIN q : k = 1 \/ (k = 2 /\ q[k] = SyncRec)
<1>1. CASE q = <<r>>
  BY <1>1
<1>2. CASE q = Append(<<r>>, SyncRec)
  <2>1. <<r>> \in Seq(Records) /\ Len(<<r>>) = 1 /\ <<r>>[1] = r /\ SyncRec \in Records
    BY RecordTypes
  <2>2. q \in Seq(Records) /\ Len(q) = 2 /\ q[1] = r /\ q[2] = SyncRec
    BY <1>2, <2>1, AppendProperties
  <2>3. DOMAIN q = 1..2
    BY <2>2, LogIndices
  <2> QED
    BY <2>2, <2>3, EmptySeq
<1> QED
  BY <1>1, <1>2 DEF withSync

\* A call that moves the head or the mark, or commits, begins.
LEMMA CallOf ==
    ASSUME TypeOK, NEW s \in Sessions, NEW r \in Records, NEW c,
           call' = [call EXCEPT ![s] = c], handle' = handle, c.pc = "flush",
           c.recs \in {withSync(s, <<r>>), <<r>>},
           \/ c.kind \in {"syncHead", "setHead"} /\ r.op = "head" /\ r.head = c.head
              /\ mayRestOn(handle[s].own, r.head)
           \/ c.kind = "setMark" /\ r.op = "mark" /\ r.mark = c.mark
           \/ c.kind \in {"commit", "release"} /\ r.op = "sync"
    PROVE  RestInv(s)' /\ KindInv(s)' /\ call'[s].pc = "flush"
<1>1. PICK q : q = c.recs OBVIOUS
<1>2. /\ q # <<>> /\ 1 \in DOMAIN q /\ q[1] = r
      /\ \A k \in DOMAIN q : k = 1 \/ (k = 2 /\ q[k] = SyncRec)
  BY <1>1, WithSyncIs
<1>3. SyncRec.op = "sync"
  BY DEF SyncRec, Rec
<1>4. call'[s] = c
  BY DEF TypeOK
<1>5. \A k \in DOMAIN q : k > 1 => q[k].op = "sync"
  BY <1>2, <1>3
<1>6. \A k \in DOMAIN q : q[k].op # "append" /\ (q[k].op = "head" => mayRestOn(handle[s].own, q[k].head))
  BY <1>2, <1>3
<1>7. RestInv(s)'
  BY <1>1, <1>4, <1>6 DEF RestInv
<1>8. KindInv(s)'
  BY <1>1, <1>2, <1>4, <1>5 DEF KindInv
<1> QED
  BY <1>4, <1>7, <1>8

\* Moving the head, marking and committing write of what the session holds.
LEMMA TreeWrite ==
    ASSUME TypeOK, NEW s \in Sessions, TreeInv(s), NEW e \in Entries, Write(s, e)
    PROVE  TreeInv(s)'
<1>1. CASE handle[s].leaf = handle[s].head
  <2>1. PICK c : c = [NoCall EXCEPT !.pc = "prepare", !.kind = "write", !.entry = e]
    OBVIOUS
  <2>2. c.pc = "prepare"
    BY <2>1 DEF NoCall
  <2>3. call'[s] = c
    BY <1>1, <2>1 DEF Write, Begin, TypeOK
  <2> QED
    BY <2>2, <2>3, TreeStays DEF Write
<1>2. CASE handle[s].leaf # handle[s].head
  <2>1. PICK to : to = handle[s].leaf OBVIOUS
  <2>2. PICK r : r = HeadRec(to) OBVIOUS
  <2>3. r \in Records /\ r.op = "head" /\ r.head = to
    <3>1. to \in Entries \cup {Root}
      BY <2>1, SessionTypes DEF Handles
    <3> QED
      BY <2>2, <3>1, RecordTypes DEF HeadRec, Rec
  <2>4. PICK c : c = HeadCall(s, "syncHead", to, e)
    OBVIOUS
  <2>5. c.pc = "flush" /\ c.kind = "syncHead" /\ c.head = to /\ c.recs = withSync(s, <<r>>)
    BY <2>2, <2>4 DEF HeadCall, NoCall
  <2>6. call' = [call EXCEPT ![s] = c] /\ mayRestOn(handle[s].own, to) /\ UNCHANGED <<handle, log>>
    BY <1>2, <2>1, <2>4 DEF Write, Begin
  <2>7. RestInv(s)' /\ KindInv(s)' /\ call'[s].pc = "flush"
    BY <2>3, <2>5, <2>6, CallOf
  <2> QED
    BY <2>6, <2>7, TreeBegins
<1> QED
  BY <1>1, <1>2

\* SetHead's record moves to what the session holds.
LEMMA TreeSetHead ==
    ASSUME TypeOK, NEW s \in Sessions, TreeInv(s), NEW to \in Entries \cup {Root}, SetHead(s, to)
    PROVE  TreeInv(s)'
<1>1. PICK r : r = HeadRec(to) OBVIOUS
<1>2. r \in Records /\ r.op = "head" /\ r.head = to
  BY <1>1, RecordTypes DEF HeadRec, Rec
<1>3. PICK c : c = HeadCall(s, "setHead", to, None)
  OBVIOUS
<1>4. c.pc = "flush" /\ c.kind = "setHead" /\ c.head = to /\ c.recs = withSync(s, <<r>>)
  BY <1>1, <1>3 DEF HeadCall, NoCall
<1>5. call' = [call EXCEPT ![s] = c] /\ mayRestOn(handle[s].own, to) /\ UNCHANGED <<handle, log>>
  BY <1>3 DEF SetHead, Begin
<1>6. RestInv(s)' /\ KindInv(s)' /\ call'[s].pc = "flush"
  BY <1>2, <1>4, <1>5, CallOf
<1> QED
  BY <1>5, <1>6, TreeBegins

\* SetMark writes a mark, which rests on nothing.
LEMMA TreeSetMark ==
    ASSUME TypeOK, NEW s \in Sessions, TreeInv(s), NEW mark \in Marks, SetMark(s, mark)
    PROVE  TreeInv(s)'
<1>1. PICK r : r = MarkRec(mark) OBVIOUS
<1>2. r \in Records /\ r.op = "mark" /\ r.mark = mark
  BY <1>1, RecordTypes DEF MarkRec, Rec
<1>3. PICK c : c = [NoCall EXCEPT !.pc = "flush", !.kind = "setMark", !.durable = TRUE,
                                   !.mark = mark, !.recs = withSync(s, <<r>>)]
  OBVIOUS
<1>4. c.pc = "flush" /\ c.kind = "setMark" /\ c.mark = mark /\ c.recs = withSync(s, <<r>>)
  BY <1>3 DEF NoCall
<1>5. call' = [call EXCEPT ![s] = c] /\ UNCHANGED <<handle, log>>
  BY <1>1, <1>3 DEF SetMark, Begin
<1>6. RestInv(s)' /\ KindInv(s)' /\ call'[s].pc = "flush"
  BY <1>2, <1>4, <1>5, CallOf
<1> QED
  BY <1>5, <1>6, TreeBegins

\* Commit and Release write a sync record, which rests on nothing.
LEMMA TreeCommit ==
    ASSUME TypeOK, NEW s \in Sessions, TreeInv(s), NEW kind \in {"commit", "release"},
           Begin(s, CommitCall(kind)), UNCHANGED <<handle, log>>
    PROVE  TreeInv(s)'
<1>1. SyncRec \in Records /\ SyncRec.op = "sync"
  BY RecordTypes DEF SyncRec, Rec
<1>2. PICK c : c = CommitCall(kind)
  OBVIOUS
<1>3. c.pc = "flush" /\ c.kind = kind /\ c.recs = <<SyncRec>>
  BY <1>2 DEF CommitCall, NoCall
<1>4. call' = [call EXCEPT ![s] = c]
  BY <1>2 DEF Begin
<1>5. RestInv(s)' /\ KindInv(s)' /\ call'[s].pc = "flush"
  BY <1>1, <1>3, <1>4, CallOf
<1> QED
  BY <1>5, TreeBegins

\* An append hangs from an entry the session holds, and moves the head to
\* itself or to the target of its label, which may bear it.
LEMMA TreePrepare ==
    ASSUME TypeOK, NEW s \in Sessions, TreeInv(s), Prepare(s)
    PROVE  TreeInv(s)'
<1>1. PICK e : e = call[s].entry OBVIOUS
<1>2. PICK own : own = handle[s].own OBVIOUS
<1>3. /\ e \in Entries /\ Parent[e] \in own \cup {Root} /\ handle[s].leaf \in Entries \cup {Root}
      /\ UNCHANGED log
  BY <1>1, <1>2, SessionTypes DEF Calls, Handles, Prepare
<1>4. PICK durable \in BOOLEAN : call' = [call EXCEPT ![s] = WriteCall(s, e, durable)]
  BY <1>1 DEF Prepare
<1>5. handle'[s].own = own
  BY <1>1, <1>2, SessionTypes DEF Prepare, TypeOK, Handles
<1>6. PICK h : h = headFor(own, handle[s].leaf, e) OBVIOUS
<1>7. h \in Entries \cup {Root, None} /\ (h # None => mayRestOn(own \cup {e}, h))
  BY <1>3, <1>6, ConstantsAssumption DEF headFor, mayRestOn
<1>8. PICK r : r = AppendRec(e, h, durable) OBVIOUS
<1>9. r \in Records /\ r.op = "append" /\ r.entry = e /\ r.head = h
  BY <1>3, <1>7, <1>8, RecordTypes DEF AppendRec, Rec
<1>10. PICK c : c = WriteCall(s, e, durable) OBVIOUS
<1>11. /\ c.pc \in {"flush", "log"} /\ c.kind = "write" /\ c.head = h
       /\ c.recs \in {withSync(s, <<r>>), <<r>>}
  BY <1>2, <1>6, <1>8, <1>10 DEF WriteCall, NoCall
<1>12. call'[s] = c
  BY <1>4, <1>10 DEF TypeOK
<1>13. PICK q : q = c.recs OBVIOUS
<1>14. /\ q # <<>> /\ 1 \in DOMAIN q /\ q[1] = r
       /\ \A k \in DOMAIN q : k = 1 \/ (k = 2 /\ q[k] = SyncRec)
  BY <1>9, <1>11, <1>13, WithSyncIs
<1>15. SyncRec.op = "sync"
  BY DEF SyncRec, Rec
<1>16. RestInv(s)'
  <2>1. ASSUME NEW k \in DOMAIN q
        PROVE  /\ q[k].op # "head"
               /\ q[k].op = "append" => q[k] = r
    BY <1>9, <1>14, <1>15
  <2> QED
    BY <1>3, <1>5, <1>7, <1>9, <1>12, <1>13, <2>1 DEF RestInv
<1>17. KindInv(s)'
  <2>1. \A k \in DOMAIN q : k > 1 => q[k].op = "sync"
    BY <1>14, <1>15
  <2> QED
    BY <1>9, <1>11, <1>12, <1>13, <1>14, <2>1 DEF KindInv
<1> QED
  BY <1>3, <1>11, <1>12, <1>16, <1>17, TreeBegins

\* The records stay what they were while the objects are flushed.
LEMMA TreeFlush ==
    ASSUME TypeOK, NEW s \in Sessions, TreeInv(s), Flush(s)
    PROVE  TreeInv(s)'
<1>1. CASE stopped
  <2>1. call'[s] = NoCall /\ log' = log
    BY <1>1 DEF Flush, Drop, TypeOK
  <2>2. call'[s].pc = "idle"
    BY <2>1 DEF NoCall
  <2> QED
    BY <2>1, <2>2, TreeStays
<1>2. CASE ~stopped
  <2>1. /\ call'[s] = [call[s] EXCEPT !.pc = "log"] /\ log' = log /\ call[s].pc = "flush"
        /\ handle'[s].own = handle[s].own
    BY <1>2, SessionTypes DEF Flush, TypeOK, Handles
  <2>2. PICK b : b = call[s] OBVIOUS
  <2>3. PICK c : c = call'[s] OBVIOUS
  <2>4. /\ c.pc = "log" /\ c.kind = b.kind /\ c.recs = b.recs /\ c.head = b.head
        /\ c.mark = b.mark
    BY <2>1, <2>2, <2>3, SessionTypes DEF Calls
  <2>5. RestInv(s)'
    BY <2>1, <2>2, <2>3, <2>4 DEF TreeInv, RestInv
  <2>6. KindInv(s)'
    BY <2>1, <2>2, <2>3, <2>4 DEF TreeInv, KindInv
  <2> QED
    BY <2>1, <2>3, <2>4, <2>5, <2>6, TreeBegins
<1> QED
  BY <1>1, <1>2

\* Before an entry that is found, every standing append is found.
LEMMA FoundBefore ==
    ASSUME NEW l \in Seq(Records), NEW ob, NEW i \in DOMAIN l, Reached(l, ob, FALSE, i),
           NEW j \in DOMAIN l, j <= i, NEW e, AppendAt(l, e, j)
    PROVE  KeptAt(l, ob, FALSE, j) /\ e \in EntriesOf(l, ob, FALSE)
<1>1. i \in Nat /\ j \in Nat
  BY LogIndices
<1>2. Reached(l, ob, FALSE, j)
  <2>1. \A k \in 1..j : k \in 1..i
    BY <1>1
  <2> QED
    BY <2>1 DEF Reached
<1> QED
  BY <1>2 DEF AppendAt, KeptAt, EntriesOf

\* What recovery keeps hangs from what it keeps: it drops a suffix.
LEMMA TreeRecovers ==
    ASSUME LogInv, NEW s \in Sessions, TreeInv(s), RecoverObjects(s)
    PROVE  TreeInv(s)'
<1>1. TypeOK /\ SessionInv(s) /\ UNCHANGED <<log, handle>>
  BY DEF LogInv, RecoverObjects
<1>2. PICK l : l = log[s] OBVIOUS
<1>3. PICK r : r = Recovered(l, obj) OBVIOUS
<1>4. call'[s].pc = "recover" /\ call'[s].recs = r
  <2>1. PICK c : c = [NoCall EXCEPT !.pc = "recover", !.kind = "open", !.view = reconcile(s), !.recs = r]
    OBVIOUS
  <2>2. c.pc = "recover" /\ c.recs = r
    BY <2>1 DEF NoCall
  <2>3. call'[s] = c
    BY <1>1, <1>2, <1>3, <2>1 DEF RecoverObjects, TypeOK
  <2> QED
    BY <2>2, <2>3
<1>5. /\ l \in Seq(Records) /\ Len(l) \in Nat /\ DOMAIN l = 1..Len(l)
  BY <1>1, <1>2, SessionTypes
<1>6. OnceInv(l) /\ LostInv(l) /\ TreeIn(l)
  BY <1>1, <1>2 DEF SessionInv, TreeInv
<1>7. PICK w : w = Whole(l) OBVIOUS
<1>8. PICK D : D = Dropped(l, obj) OBVIOUS
<1>9. /\ w \in Seq(Records) /\ \A i \in DOMAIN w : i \in DOMAIN l /\ l[i].op # "zero"
  BY <1>5, <1>7, WholeType
<1>10. Len(w) \in Nat /\ DOMAIN w = 1..Len(w)
  BY <1>9, LogIndices
<1>11. \A i \in DOMAIN w : /\ i \in DOMAIN r /\ r[i].op = l[i].op /\ r[i].entry = l[i].entry
                           /\ r[i].head = l[i].head
  BY <1>3, <1>5, <1>7, RecoveredShape
<1>12. \A i \in DOMAIN r \ DOMAIN w : r[i].op \in {"lost", "sync"}
  BY <1>3, <1>5, <1>7, RecoveredShape
<1>13. \A e : \A i \in DOMAIN w : Gone(r, e, i) <=> Gone(l, e, i) \/ e \in D
  BY <1>3, <1>5, <1>6, <1>7, <1>8, RecoveredSays
<1>14. ASSUME NEW e, NEW j \in DOMAIN w, AppendAt(l, e, j), e \notin D
       PROVE  j \in DOMAIN r /\ AppendAt(r, e, j)
  BY <1>11, <1>13, <1>14 DEF AppendAt
<1>15. ASSUME NEW i \in DOMAIN w, Standing(r, i)
       PROVE  Standing(l, i) /\ Reached(l, obj, FALSE, i)
  <2>1. i \in DOMAIN l /\ Standing(l, i) /\ l[i].entry \notin D
    BY <1>9, <1>11, <1>13, <1>15 DEF Standing
  <2>2. ASSUME ~Reached(l, obj, FALSE, i) PROVE FALSE
    <3>1. l[i].entry \in EntriesOf(l, obj, FALSE)
      BY <1>8, <2>1, <2>2 DEF Dropped, Standing
    <3>2. PICK j \in DOMAIN l : KeptAt(l, obj, FALSE, j) /\ l[j].entry = l[i].entry
      BY <3>1 DEF EntriesOf
    <3>3. i = j
      BY <1>5, <1>6, <2>1, <3>2, StandsOnce DEF KeptAt, Standing
    <3> QED
      BY <2>2, <3>2, <3>3 DEF KeptAt
  <2> QED
    BY <2>1, <2>2
<1>16. \A i \in DOMAIN w : NoHole(l, i) /\ i \in Nat /\ \A j \in DOMAIN l : j <= i => j \in DOMAIN w
  <2> SUFFICES ASSUME NEW i \in DOMAIN w
               PROVE  NoHole(l, i) /\ i \in Nat /\ \A j \in DOMAIN l : j <= i => j \in DOMAIN w
    OBVIOUS
  <2>1. i \in Nat /\ \A j \in 1..i : j \in DOMAIN w
    BY <1>10
  <2>2. NoHole(l, i)
    BY <1>9, <2>1 DEF NoHole
  <2>3. \A j \in DOMAIN l : j <= i => j \in DOMAIN w
    BY <1>5, <1>10
  <2> QED
    BY <2>1, <2>2, <2>3
<1>17. ASSUME NEW i \in DOMAIN w, Reached(l, obj, FALSE, i), NEW j \in DOMAIN l, j <= i,
              NEW e, AppendAt(l, e, j)
       PROVE  j \in DOMAIN r /\ AppendAt(r, e, j)
  <2>1. e \in EntriesOf(l, obj, FALSE)
    BY <1>5, <1>9, <1>17, FoundBefore
  <2>2. e \notin D
    BY <1>8, <2>1 DEF Dropped
  <2> QED
    BY <1>14, <1>16, <1>17, <2>2
<1>18. ASSUME NEW i \in DOMAIN w, Standing(r, i), Parent[r[i].entry] # Root
       PROVE  \E j \in DOMAIN r : j < i /\ AppendAt(r, Parent[r[i].entry], j)
  <2>1. Standing(l, i) /\ Reached(l, obj, FALSE, i) /\ r[i].entry = l[i].entry /\ i \in DOMAIN l
    BY <1>9, <1>11, <1>15, <1>18
  <2>2. PICK j \in DOMAIN l : j < i /\ AppendAt(l, Parent[l[i].entry], j)
    BY <1>6, <1>16, <1>18, <2>1 DEF TreeIn
  <2>3. j <= i
    BY <1>5, <1>16, <2>2
  <2>4. j \in DOMAIN r /\ AppendAt(r, Parent[l[i].entry], j)
    BY <1>17, <2>1, <2>2, <2>3
  <2> QED
    BY <2>1, <2>2, <2>4
<1>19. ASSUME NEW i \in DOMAIN w, Moves(r, i), r[i].head # Root
       PROVE  r[i].head \notin Labels /\ \E j \in DOMAIN r : j <= i /\ AppendAt(r, r[i].head, j)
  <2>1. r[i].head = l[i].head /\ r[i].op = l[i].op /\ i \in DOMAIN l /\ NoHole(l, i)
    BY <1>9, <1>11, <1>16
  <2>2. CASE Standing(r, i) /\ r[i].head # None
    <3>1. Moves(l, i) /\ Reached(l, obj, FALSE, i)
      BY <1>15, <2>1, <2>2 DEF Moves
    <3>2. l[i].head \notin Labels
      BY <1>6, <1>19, <2>1, <3>1 DEF TreeIn
    <3>3. PICK j \in DOMAIN l : j <= i /\ AppendAt(l, l[i].head, j)
      BY <1>6, <1>19, <2>1, <3>1 DEF TreeIn
    <3>4. j \in DOMAIN r /\ AppendAt(r, l[i].head, j)
      BY <1>17, <3>1, <3>3
    <3> QED
      BY <2>1, <3>2, <3>3, <3>4
  <2>3. CASE r[i].op = "head" /\ ~Gone(r, r[i].head, i)
    <3>1. Moves(l, i) /\ l[i].head \notin D
      BY <1>13, <2>1, <2>3 DEF Moves
    <3>2. l[i].head \notin Labels
      BY <1>6, <1>19, <2>1, <3>1 DEF TreeIn
    <3>3. PICK j \in DOMAIN l : j <= i /\ AppendAt(l, l[i].head, j)
      BY <1>6, <1>19, <2>1, <3>1 DEF TreeIn
    <3>4. j \in DOMAIN r /\ AppendAt(r, l[i].head, j)
      BY <1>14, <1>16, <3>1, <3>3
    <3> QED
      BY <2>1, <3>2, <3>3, <3>4
  <2> QED
    BY <1>19, <2>2, <2>3 DEF Moves
<1>20. TreeIn(r)
  <2>1. \A i \in DOMAIN r \ DOMAIN w : ~Standing(r, i) /\ ~Moves(r, i)
    BY <1>12 DEF Standing, Moves
  <2> QED
    BY <1>18, <1>19, <2>1 DEF TreeIn
<1> QED
  BY <1>1, <1>4, <1>20 DEF TreeInv, RestInv, KindInv

\* The bytes of the log move, or some are marked lost: it says the same.
LEMMA TreeFsync ==
    ASSUME TypeOK, TypeOK', NEW s \in Sessions, TreeInv(s), LogFsync(s) \/ LogFsyncFails(s)
    PROVE  TreeInv(s)'
<1>1. log[s] \in Seq(Records)
  BY SessionTypes
<1>2. \/ log'[s] = log[s] \/ log'[s] = MarkedAs(log[s], "disk") \/ log'[s] = MarkedAs(log[s], "lost")
  BY DEF LogFsync, LogFsyncFails, TypeOK
<1>3. Shrinks(log[s], log'[s])
  <2>1. CASE log'[s] = log[s]
    BY <2>1 DEF Shrinks
  <2>2. CASE log'[s] = MarkedAs(log[s], "disk")
    BY <1>1, <2>2, MarkedShrinks
  <2>3. CASE log'[s] = MarkedAs(log[s], "lost")
    BY <1>1, <2>3, MarkedShrinks
  <2> QED
    BY <1>2, <2>1, <2>2, <2>3
<1>4. call'[s].pc \in {"idle", "prepare", "cut"}
  <2>1. CASE LogFsync(s)
    BY <2>1, Completed DEF LogFsync
  <2>2. CASE LogFsyncFails(s)
    <3>1. call[s] \in Calls /\ call'[s] = [call[s] EXCEPT !.pc = "cut"]
      BY <2>2 DEF LogFsyncFails, TypeOK
    <3> QED
      BY <3>1 DEF Calls
  <2> QED
    BY <2>1, <2>2
<1> QED
  BY <1>3, <1>4, TreeLetGo

\* Every step keeps every log a session's.
LEMMA TreeNext ==
    ASSUME LogInv, TypeOK', \A s \in Sessions : TreeInv(s), [Next]_vars
    PROVE  \A s \in Sessions : TreeInv(s)'
<1>1. TypeOK
  BY DEF LogInv
<1>2. NoCall.pc = "idle"
  BY DEF NoCall
<1>3. ASSUME NEW s \in Sessions, UNCHANGED <<log, call, handle>>
      PROVE  TreeInv(s)'
  BY <1>3, TreeStays
<1>4. ASSUME NEW s \in Sessions, NEW t \in Sessions, t # s,
             log'[t] = log[t], call'[t] = call[t], handle'[t] = handle[t]
      PROVE  TreeInv(t)'
  BY <1>4, TreeStays
<1>5. ASSUME NEW s \in Sessions, NEW t \in Sessions, t # s,
             log' = log \/ (\E l : log' = [log EXCEPT ![s] = l]),
             call' = call \/ (\E c : call' = [call EXCEPT ![s] = c]),
             handle' = handle \/ (\E h : handle' = [handle EXCEPT ![s] = h])
      PROVE  TreeInv(t)'
  BY <1>1, <1>4, <1>5 DEF TypeOK
<1>6. ASSUME NEW s \in Sessions, log'[s] = log[s], call' = [call EXCEPT ![s] = NoCall]
      PROVE  TreeInv(s)'
  BY <1>1, <1>2, <1>6, TreeStays DEF TypeOK
<1>7. ASSUME NEW s \in Sessions, NEW t \in Sessions,
             Open(s) \/ RecoverObjects(s) \/ RecoverLog(s) \/ RecoverFails(s)
      PROVE  TreeInv(t)'
  <2>1. CASE t # s
    BY <1>5, <1>7, <2>1 DEF Open, RecoverObjects, RecoverLog, RecoverFails
  <2>2. CASE t = s /\ Open(s)
    BY <2>2, TreeStays DEF Open, Idle
  <2>3. CASE t = s /\ RecoverObjects(s)
    BY <2>3, TreeRecovers
  <2>4. CASE t = s /\ RecoverFails(s)
    BY <1>6, <2>4 DEF RecoverFails
  <2>5. CASE t = s /\ RecoverLog(s)
    <3>1. log'[s] = call[s].recs /\ call'[s].pc = "idle" /\ call[s].pc = "recover"
      BY <1>1, <1>2, <2>5 DEF RecoverLog, TypeOK
    <3> QED
      BY <2>5, <3>1 DEF TreeInv, RestInv, KindInv
  <2> QED
    BY <1>7, <2>1, <2>2, <2>3, <2>4, <2>5
<1>8. ASSUME NEW s \in Sessions, NEW t \in Sessions, NEW x \in Entries \cup {Root},
             Branch(s, x) \/ SetHead(s, x)
      PROVE  TreeInv(t)'
  <2>1. CASE Branch(s, x)
    <3>1. UNCHANGED <<log, call>> /\ handle'[t].own = handle[t].own
      BY <1>1, <2>1, SessionTypes DEF Branch, TypeOK, Handles
    <3> QED
      BY <3>1, TreeStays
  <2>2. CASE t # s /\ SetHead(s, x)
    BY <1>5, <2>2 DEF SetHead, Begin
  <2>3. CASE t = s /\ SetHead(s, x)
    BY <1>1, <2>3, TreeSetHead
  <2> QED
    BY <1>8, <2>1, <2>2, <2>3
<1>9. ASSUME NEW s \in Sessions, NEW t \in Sessions, NEW e \in Entries, Write(s, e)
      PROVE  TreeInv(t)'
  <2>1. CASE t # s
    BY <1>5, <1>9, <2>1 DEF Write, Begin
  <2>2. CASE t = s
    BY <1>1, <1>9, <2>2, TreeWrite
  <2> QED
    BY <2>1, <2>2
<1>10. ASSUME NEW s \in Sessions, NEW t \in Sessions, NEW mark \in Marks, SetMark(s, mark)
       PROVE  TreeInv(t)'
  <2>1. CASE t # s
    BY <1>5, <1>10, <2>1 DEF SetMark, Begin
  <2>2. CASE t = s
    BY <1>1, <1>10, <2>2, TreeSetMark
  <2> QED
    BY <2>1, <2>2
<1>11. ASSUME NEW s \in Sessions, NEW t \in Sessions, Commit(s) \/ Release(s)
       PROVE  TreeInv(t)'
  <2>1. CASE t # s
    BY <1>5, <1>11, <2>1 DEF Commit, Release, Begin
  <2>2. CASE t = s /\ Commit(s)
    <3>1. UNCHANGED <<handle, log>> /\ (Begin(s, CommitCall("commit")) \/ UNCHANGED call)
      BY <2>2 DEF Commit
    <3> QED
      BY <1>1, <1>3, <2>2, <3>1, TreeCommit
  <2>3. CASE t = s /\ Release(s)
    <3>1. CASE Begin(s, CommitCall("release")) /\ UNCHANGED handle
      BY <1>1, <2>3, <3>1, TreeCommit DEF Release
    <3>2. CASE UNCHANGED call
      <4>1. call'[s].pc = "idle" /\ UNCHANGED log
        BY <2>3, <3>2 DEF Release, HeldIdle, Idle
      <4> QED
        BY <2>3, <4>1, TreeStays
    <3> QED
      BY <2>3, <3>1, <3>2 DEF Release
  <2> QED
    BY <1>11, <2>1, <2>2, <2>3
<1>12. ASSUME NEW s \in Sessions, NEW t \in Sessions, Prepare(s) \/ PrepareReturns(s)
       PROVE  TreeInv(t)'
  <2>1. CASE t # s /\ Prepare(s)
    <3>1. log'[t] = log[t] /\ call'[t] = call[t] /\ handle'[t] = handle[t]
      BY <1>1, <2>1 DEF Prepare, TypeOK
    <3> QED
      BY <1>4, <2>1, <3>1
  <2>2. CASE t # s /\ PrepareReturns(s)
    BY <1>5, <2>2 DEF PrepareReturns
  <2>3. CASE t = s /\ Prepare(s)
    BY <1>1, <2>3, TreePrepare
  <2>4. CASE t = s /\ PrepareReturns(s)
    BY <1>6, <2>4 DEF PrepareReturns
  <2> QED
    BY <1>12, <2>1, <2>2, <2>3, <2>4
<1>13. ASSUME NEW s \in Sessions, NEW t \in Sessions, Flush(s) \/ FlushFails(s) \/ LogWriteFails(s)
       PROVE  TreeInv(t)'
  <2>1. CASE t # s
    <3>1. log'[t] = log[t] /\ call'[t] = call[t] /\ handle'[t] = handle[t]
      BY <1>1, <1>13, <2>1 DEF Flush, FlushFails, LogWriteFails, Drop, TypeOK
    <3> QED
      BY <1>4, <2>1, <3>1
  <2>2. CASE t = s /\ Flush(s)
    BY <1>1, <2>2, TreeFlush
  <2>3. CASE t = s /\ FlushFails(s)
    BY <1>6, <2>3 DEF FlushFails, Drop
  <2>4. CASE t = s /\ LogWriteFails(s)
    BY <1>6, <2>4 DEF LogWriteFails, Drop
  <2> QED
    BY <1>13, <2>1, <2>2, <2>3, <2>4
<1>14. ASSUME NEW s \in Sessions, NEW t \in Sessions,
              LogWrite(s) \/ LogFsync(s) \/ LogFsyncFails(s) \/ Cut(s)
       PROVE  TreeInv(t)'
  <2>1. CASE t # s
    <3>1. log'[t] = log[t] /\ call'[t] = call[t] /\ handle'[t] = handle[t]
      BY <1>1, <1>14, <2>1 DEF LogWrite, LogFsync, LogFsyncFails, Cut, Complete, Drop, TypeOK
    <3> QED
      BY <1>4, <2>1, <3>1
  <2>2. CASE t = s /\ LogWrite(s)
    BY <2>2, TreeGrows
  <2>3. CASE t = s /\ (LogFsync(s) \/ LogFsyncFails(s))
    BY <1>1, <2>3, TreeFsync
  <2>4. CASE t = s /\ Cut(s)
    <3>1. Shrinks(log[s], log'[s])
      BY <1>1, <2>4, CutLeaves DEF LogInv
    <3>2. call'[s].pc = "idle"
      BY <1>1, <1>2, <2>4 DEF Cut, Drop, TypeOK
    <3> QED
      BY <1>1, <2>4, <3>1, <3>2, TreeLetGo
  <2> QED
    BY <1>14, <2>1, <2>2, <2>3, <2>4
<1>15. ASSUME NEW t \in Sessions, Kill \/ PowerLoss
       PROVE  TreeInv(t)'
  <2>1. call'[t].pc = "idle"
    BY <1>2, <1>15 DEF Kill, PowerLoss, ProcessGone
  <2>2. CASE Kill
    BY <2>1, <2>2, TreeStays DEF Kill
  <2>3. CASE PowerLoss
    <3>1. Shrinks(log[t], log'[t])
      BY <1>1, <2>3, PowerLossLeaves DEF LogInv, SessionInv
    <3> QED
      BY <1>1, <2>1, <3>1, TreeLetGo
  <2> QED
    BY <1>15, <2>2, <2>3
<1>16. CASE UNCHANGED vars
  BY <1>3, <1>16 DEF vars
<1> QED
  BY <1>7, <1>8, <1>9, <1>10, <1>11, <1>12, <1>13, <1>14, <1>15, <1>16 DEF Next

\* A log that is a session's is found as one.
LEMMA FoundIsASession ==
    ASSUME TypeOK, NEW s \in Sessions, SessionInv(s), TreeInv(s),
           NEW v, v = reconcile(s)
    PROVE  /\ \A e \in v.own : Present(obj, e) /\ Parent[e] \in v.own \cup {Root}
           /\ mayRestOn(v.own, v.head)
<1>1. PICK l : l = log[s] OBVIOUS
<1>2. PICK E : E = EntriesOf(l, obj, FALSE) OBVIOUS
<1>3. v.own = E /\ v.head = HeadOf(l, obj, FALSE)
  BY <1>1, <1>2 DEF reconcile, View
<1>4. /\ l \in Seq(Records) /\ Len(l) \in Nat /\ DOMAIN l = 1..Len(l)
      /\ \A i \in DOMAIN l : l[i] \in Records
  BY <1>1, SessionTypes, LogIndices
<1>5. TreeIn(l) /\ StoredInv(s)
  BY <1>1 DEF TreeInv, SessionInv
<1>6. \A i \in DOMAIN l : Reached(l, obj, FALSE, i) => NoHole(l, i)
  BY DEF Reached, CutsAt, NoHole
<1>7. ASSUME NEW e \in E
      PROVE  Present(obj, e) /\ Parent[e] \in E \cup {Root}
  <2>1. PICK i \in DOMAIN l : KeptAt(l, obj, FALSE, i) /\ l[i].entry = e
    BY <1>2 DEF EntriesOf
  <2>2. Present(obj, e)
    BY <1>1, <1>5, <2>1, KeptIsWhole
  <2>3. Standing(l, i) /\ Reached(l, obj, FALSE, i) /\ NoHole(l, i)
    BY <1>6, <2>1 DEF KeptAt, Standing
  <2>4. CASE Parent[e] # Root
    <3>1. PICK j \in DOMAIN l : j < i /\ AppendAt(l, Parent[e], j)
      BY <1>5, <2>1, <2>3, <2>4 DEF TreeIn
    <3>2. j <= i
      BY <1>4, <3>1
    <3> QED
      BY <1>2, <1>4, <2>2, <2>3, <3>1, <3>2, FoundBefore
  <2> QED
    BY <2>2, <2>4
<1>8. mayRestOn(E, v.head)
  <2>1. PICK moves : moves = HeadMoves(l, obj, FALSE) OBVIOUS
  <2>2. CASE moves = {}
    BY <1>3, <2>1, <2>2 DEF HeadOf, mayRestOn
  <2>3. CASE moves # {}
    <3>1. moves \subseteq 1..Len(l)
      BY <1>4, <2>1 DEF HeadMoves
    <3>2. PICK i : i = Max(moves) OBVIOUS
    <3>3. i \in moves
      BY <1>4, <2>3, <3>1, <3>2, MaxIndex
    <3>4. v.head = l[i].head
      BY <1>3, <2>1, <2>3, <3>2 DEF HeadOf
    <3>5. i \in DOMAIN l /\ Reached(l, obj, FALSE, i) /\ Moves(l, i)
      BY <1>4, <2>1, <3>3 DEF HeadMoves, KeptAt, Moves, Standing
    <3>6. CASE l[i].head # Root
      <4>1. l[i].head \notin Labels
        BY <1>5, <1>6, <3>5, <3>6 DEF TreeIn
      <4>2. PICK j \in DOMAIN l : j <= i /\ AppendAt(l, l[i].head, j)
        BY <1>5, <1>6, <3>5, <3>6 DEF TreeIn
      <4>3. l[i].head \in E
        BY <1>2, <1>4, <3>5, <4>2, FoundBefore
      <4> QED
        BY <3>4, <4>1, <4>3 DEF mayRestOn
    <3> QED
      BY <3>4, <3>6 DEF mayRestOn
  <2> QED
    BY <2>2, <2>3
<1> QED
  BY <1>3, <1>7, <1>8

-----------------------------------------------------------------------------
(* The handle follows the log.                                             *)

\* A greatest index is the one Max finds.
LEMMA MaxIs ==
    ASSUME NEW n \in Nat, NEW S \in SUBSET (1..n), NEW i \in S, \A k \in S : k <= i
    PROVE  Max(S) = i
<1>1. Max(S) \in S /\ \A k \in S : k <= Max(S)
  BY MaxIndex
<1>2. PICK j : j = Max(S) OBVIOUS
<1>3. j \in S /\ i <= j /\ j <= i
  BY <1>1, <1>2
<1>4. i \in Int /\ j \in Int
  BY <1>3
<1> QED
  BY <1>2, <1>3, <1>4

\* What the sets of a log's moves and marks are.
LEMMA MovesAndMarks ==
    ASSUME NEW l \in Seq(Records), NEW m
    PROVE  /\ Len(l) \in Nat
           /\ MovesTo(l, m) \subseteq 1..Len(l) /\ MarksTo(l, m) \subseteq 1..Len(l)
           /\ MovesTo(l, m) # {} => Max(MovesTo(l, m)) \in MovesTo(l, m)
           /\ MarksTo(l, m) # {} => Max(MarksTo(l, m)) \in MarksTo(l, m)
<1>1. Len(l) \in Nat /\ DOMAIN l = 1..Len(l)
  BY LogIndices
<1>2. MovesTo(l, m) \subseteq 1..Len(l) /\ MarksTo(l, m) \subseteq 1..Len(l)
  BY <1>1 DEF MovesTo, MarksTo
<1> QED
  BY <1>1, <1>2, MaxIndex

\* Logs with the same moves, marks and standing appends say the same.
LEMMA SameState ==
    ASSUME NEW l \in Seq(Records), NEW r \in Seq(Records), NEW m, NEW n,
           OwnAt(l, m) = OwnAt(r, n),
           MovesTo(l, m) = MovesTo(r, n), \A i \in MovesTo(l, m) : l[i].head = r[i].head,
           MarksTo(l, m) = MarksTo(r, n), \A i \in MarksTo(l, m) : l[i].mark = r[i].mark
    PROVE  StateAt(l, m) = StateAt(r, n)
<1>1. MovesTo(l, m) # {} => l[Max(MovesTo(l, m))].head = r[Max(MovesTo(r, n))].head
  BY MovesAndMarks
<1>2. MarksTo(l, m) # {} => l[Max(MarksTo(l, m))].mark = r[Max(MarksTo(r, n))].mark
  BY MovesAndMarks
<1> QED
  BY <1>1, <1>2 DEF StateAt

\* Logs that say the same record by record, up to m, say the same state.
LEMMA SameSoFar ==
    ASSUME NEW l \in Seq(Records), NEW r \in Seq(Records), NEW m \in Nat,
           m <= Len(l), m <= Len(r),
           \A i \in 1..m : /\ r[i].op = l[i].op /\ r[i].entry = l[i].entry
                           /\ r[i].head = l[i].head /\ r[i].mark = l[i].mark,
           \A e : \A i \in Nat : Gone(r, e, i) <=> Gone(l, e, i)
    PROVE  StateAt(r, m) = StateAt(l, m)
<1>1. /\ Len(l) \in Nat /\ DOMAIN l = 1..Len(l) /\ Len(r) \in Nat /\ DOMAIN r = 1..Len(r)
  BY LogIndices
<1>2. \A i : i \in DOMAIN l /\ i <= m <=> i \in 1..m
  BY <1>1
<1>3. \A i : i \in DOMAIN r /\ i <= m <=> i \in 1..m
  BY <1>1
<1>4. \A i \in 1..m : (Standing(r, i) <=> Standing(l, i)) /\ (Moves(r, i) <=> Moves(l, i))
  BY DEF Standing, Moves
<1>5. OwnAt(l, m) = {l[i].entry : i \in {j \in 1..m : Standing(l, j)}}
  <2>1. {j \in DOMAIN l : j <= m /\ Standing(l, j)} = {j \in 1..m : Standing(l, j)}
    BY <1>2
  <2> QED
    BY <2>1 DEF OwnAt
<1>6. OwnAt(r, m) = {r[i].entry : i \in {j \in 1..m : Standing(r, j)}}
  <2>1. {j \in DOMAIN r : j <= m /\ Standing(r, j)} = {j \in 1..m : Standing(r, j)}
    BY <1>3
  <2> QED
    BY <2>1 DEF OwnAt
<1>7. OwnAt(l, m) = OwnAt(r, m)
  BY <1>4, <1>5, <1>6
<1>8. MovesTo(l, m) = {i \in 1..m : Moves(l, i)}
  BY <1>2 DEF MovesTo
<1>9. MovesTo(r, m) = {i \in 1..m : Moves(r, i)}
  BY <1>3 DEF MovesTo
<1>10. MarksTo(l, m) = {i \in 1..m : l[i].op = "mark"}
  BY <1>2 DEF MarksTo
<1>11. MarksTo(r, m) = {i \in 1..m : r[i].op = "mark"}
  BY <1>3 DEF MarksTo
<1>12. MovesTo(l, m) = MovesTo(r, m) /\ MarksTo(l, m) = MarksTo(r, m)
  BY <1>4, <1>8, <1>9, <1>10, <1>11
<1>13. MovesTo(l, m) \subseteq 1..m /\ MarksTo(l, m) \subseteq 1..m
  BY <1>8, <1>10
<1> QED
  BY <1>7, <1>12, <1>13, SameState

\* What a reader finds who reads the first m records is what they say.
LEMMA ReadsSoFar ==
    ASSUME NEW l \in Seq(Records), NEW ob, NEW m,
           \A i \in DOMAIN l : Reached(l, ob, FALSE, i) <=> i <= m
    PROVE  View(l, ob, FALSE) = StateAt(l, m)
<1>1. \A i \in DOMAIN l : KeptAt(l, ob, FALSE, i) <=> i <= m /\ Standing(l, i)
  BY DEF KeptAt, Standing
<1>2. EntriesOf(l, ob, FALSE) = OwnAt(l, m)
  BY <1>1 DEF EntriesOf, OwnAt
<1>3. HeadMoves(l, ob, FALSE) = MovesTo(l, m)
  BY <1>1 DEF HeadMoves, MovesTo, Moves
<1>4. {i \in DOMAIN l : l[i].op = "mark" /\ Reached(l, ob, FALSE, i)} = MarksTo(l, m)
  BY DEF MarksTo
<1> QED
  BY <1>2, <1>3, <1>4 DEF View, HeadOf, MarkOf, StateAt

\* Nothing stops a reader.
AllFound(l, ob) ==
    \A i \in DOMAIN l : l[i].op # "zero" /\ (Pending(l, i) => Present(ob, l[i].entry))

\* Then what it finds is what all the records say.
LEMMA ReadsAll ==
    ASSUME NEW l \in Seq(Records), NEW ob, AllFound(l, ob)
    PROVE  View(l, ob, FALSE) = StateAt(l, Len(l))
<1>1. Len(l) \in Nat /\ DOMAIN l = 1..Len(l)
  BY LogIndices
<1>2. \A i \in DOMAIN l : ~CutsAt(l, ob, FALSE, i)
  BY DEF AllFound, CutsAt
<1>3. \A i \in DOMAIN l : i <= Len(l) /\ \A j \in 1..i : j \in DOMAIN l
  BY <1>1
<1>4. \A i \in DOMAIN l : Reached(l, ob, FALSE, i) <=> i <= Len(l)
  BY <1>2, <1>3 DEF Reached
<1> QED
  BY <1>4, ReadsSoFar

\* One record, and sync records after it.
OneThing(q) ==
    /\ q # <<>> /\ q[1].op \in {"append", "head", "mark", "sync"}
    /\ \A k \in DOMAIN q : k > 1 => q[k].op = "sync"

\* The state a with what record q says.
Saying(a, q) ==
    [own  |-> a.own \cup (IF q.op = "append" THEN {q.entry} ELSE {}),
     head |-> IF q.op = "head" \/ (q.op = "append" /\ q.head # None) THEN q.head ELSE a.head,
     mark |-> IF q.op = "mark" THEN q.mark ELSE a.mark]

\* Such records, written, say one thing more.
LEMMA SaysMore ==
    ASSUME NEW l \in Seq(Records), NEW q \in Seq(Records), NEW r, r = l \o q, OneThing(q),
           NEW m \in DOMAIN r \ DOMAIN l
    PROVE  StateAt(r, m) = Saying(StateAt(l, Len(l)), q[1])
<1>0. /\ q # <<>> /\ q[1].op \in {"append", "head", "mark", "sync"}
      /\ \A k \in DOMAIN q : k > 1 => q[k].op = "sync"
  BY DEF OneThing
<1>1. PICK n : n = Len(l) OBVIOUS
<1>2. PICK p : p = n + 1 OBVIOUS
<1>3. /\ n \in Nat /\ DOMAIN l = 1..n /\ Len(q) \in Nat /\ DOMAIN q = 1..Len(q) /\ Len(q) # 0
  BY <1>0, <1>1, LogIndices, EmptySeq
<1>4. \A k \in DOMAIN q : q[k].op # "lost"
  <2>1. \A k \in DOMAIN q : k = 1 \/ k > 1
    BY <1>3
  <2> QED
    BY <1>0, <2>1
<1>5. r \in Seq(Records) /\ Len(r) = n + Len(q)
  BY <1>1, <1>4, Grown
<1>6. Len(r) \in Nat /\ DOMAIN r = 1..Len(r)
  BY <1>5, LogIndices
<1>7. \A i \in DOMAIN l : i \in DOMAIN r /\ r[i] = l[i]
  BY <1>4, Grown
<1>8. \A i \in DOMAIN r \ DOMAIN l : i > n /\ i - n \in DOMAIN q /\ r[i] = q[i - n]
  BY <1>1, <1>4, Grown
<1>9. \A e : \A i \in Nat : Gone(r, e, i) <=> Gone(l, e, i)
  BY <1>4, Grown
<1>10a. m \in Nat /\ m > n
  BY <1>3, <1>6
<1>10. m > n /\ p \in DOMAIN r /\ p \notin DOMAIN l /\ p - n = 1 /\ p <= m /\ p \in Nat
  BY <1>1, <1>2, <1>3, <1>5, <1>6, <1>10a
<1>11. r[p] = q[1]
  BY <1>8, <1>10
<1>12. \A e : ~Gone(r, e, p)
  <2>1. \A k \in DOMAIN l : ~(k > p)
    BY <1>2, <1>3
  <2> QED
    BY <1>9, <1>10, <2>1 DEF Gone
<1>13. \A i \in DOMAIN r : i \in DOMAIN l \/ i = p \/ (i # p /\ i \notin DOMAIN l /\ r[i].op = "sync")
  <2> SUFFICES ASSUME NEW i \in DOMAIN r, i \notin DOMAIN l, i # p PROVE r[i].op = "sync"
    OBVIOUS
  <2>1. i > n /\ i - n \in DOMAIN q /\ r[i] = q[i - n] /\ i \in Nat
    BY <1>6, <1>8
  <2>2. i - n > 1
    BY <1>2, <1>3, <2>1
  <2> QED
    BY <1>0, <2>1, <2>2
<1>14. \A i \in DOMAIN l : i \in Nat /\ i <= n /\ i <= m /\ i < p
  BY <1>1, <1>2, <1>3, <1>6, <1>10
<1>15. \A i \in DOMAIN l : /\ Standing(r, i) <=> Standing(l, i)
                           /\ Moves(r, i) <=> Moves(l, i)
  BY <1>7, <1>9, <1>14 DEF Standing, Moves
<1>16. /\ Standing(r, p) <=> q[1].op = "append"
       /\ Moves(r, p) <=> q[1].op = "head" \/ (q[1].op = "append" /\ q[1].head # None)
  BY <1>11, <1>12 DEF Standing, Moves
<1>17. \A i \in DOMAIN r : i \notin DOMAIN l /\ i # p =>
         ~Standing(r, i) /\ ~Moves(r, i) /\ r[i].op # "mark"
  BY <1>13 DEF Standing, Moves
<1>18. PICK x : x = StateAt(l, n) OBVIOUS
<1>19. PICK y : y = StateAt(r, m) OBVIOUS
<1>20. y.own = x.own \cup (IF q[1].op = "append" THEN {q[1].entry} ELSE {})
  <2>1. x.own = {l[i].entry : i \in {j \in DOMAIN l : Standing(l, j)}}
    <3>1. {j \in DOMAIN l : j <= n /\ Standing(l, j)} = {j \in DOMAIN l : Standing(l, j)}
      BY <1>14
    <3> QED
      BY <1>18, <3>1 DEF StateAt, OwnAt
  <2>2. {j \in DOMAIN r : j <= m /\ Standing(r, j)} =
          {j \in DOMAIN l : Standing(l, j)} \cup (IF q[1].op = "append" THEN {p} ELSE {})
    <3>1. CASE q[1].op = "append"
      BY <1>7, <1>10, <1>13, <1>14, <1>15, <1>16, <1>17, <3>1
    <3>2. CASE q[1].op # "append"
      BY <1>7, <1>10, <1>13, <1>14, <1>15, <1>16, <1>17, <3>2
    <3> QED
      BY <3>1, <3>2
  <2>3. y.own = {r[i].entry : i \in {j \in DOMAIN r : j <= m /\ Standing(r, j)}}
    BY <1>19 DEF StateAt, OwnAt
  <2>4. CASE q[1].op = "append"
    <3>1. PICK J : J = {j \in DOMAIN l : Standing(l, j)} OBVIOUS
    <3>2. y.own = {r[i].entry : i \in J \cup {p}}
      BY <2>2, <2>3, <2>4, <3>1
    <3>3. \A i \in J : r[i].entry = l[i].entry
      BY <1>7, <3>1
    <3>4. x.own = {l[i].entry : i \in J} /\ r[p].entry = q[1].entry
      BY <1>11, <2>1, <3>1
    <3>5. {r[i].entry : i \in J \cup {p}} = {r[i].entry : i \in J} \cup {r[p].entry}
      OBVIOUS
    <3>6. {r[i].entry : i \in J} = {l[i].entry : i \in J}
      BY <3>3
    <3> QED
      BY <2>4, <3>2, <3>4, <3>5, <3>6
  <2>5. CASE q[1].op # "append"
    BY <1>7, <1>11, <2>1, <2>2, <2>3, <2>5
  <2> QED
    BY <2>4, <2>5
<1>21. MovesTo(l, n) = {i \in DOMAIN l : Moves(l, i)} /\ MarksTo(l, n) = {i \in DOMAIN l : l[i].op = "mark"}
  BY <1>14 DEF MovesTo, MarksTo
<1>22. y.head = IF q[1].op = "head" \/ (q[1].op = "append" /\ q[1].head # None)
                THEN q[1].head ELSE x.head
  <2>1. CASE Moves(r, p)
    <3>1. p \in MovesTo(r, m)
      BY <1>10, <2>1 DEF MovesTo
    <3>2. \A k \in MovesTo(r, m) : k <= p
      <4>1. \A k \in MovesTo(r, m) : k \in DOMAIN l \/ k = p
        BY <1>17 DEF MovesTo
      <4> QED
        BY <1>10, <1>14, <4>1
    <3>3. Max(MovesTo(r, m)) = p
      BY <1>5, <3>1, <3>2, MaxIs, MovesAndMarks
    <3> QED
      BY <1>11, <1>16, <1>19, <2>1, <3>1, <3>3 DEF StateAt
  <2>2. CASE ~Moves(r, p)
    <3>1. MovesTo(r, m) = MovesTo(l, n)
      BY <1>7, <1>14, <1>15, <1>17, <1>21, <2>2 DEF MovesTo
    <3>2. MovesTo(l, n) # {} => Max(MovesTo(l, n)) \in DOMAIN l
      BY <1>21, MovesAndMarks
    <3> QED
      BY <1>7, <1>16, <1>18, <1>19, <2>2, <3>1, <3>2 DEF StateAt
  <2> QED
    BY <2>1, <2>2
<1>23. y.mark = IF q[1].op = "mark" THEN q[1].mark ELSE x.mark
  <2>1. CASE r[p].op = "mark"
    <3>1. p \in MarksTo(r, m)
      BY <1>10, <2>1 DEF MarksTo
    <3>2. \A k \in MarksTo(r, m) : k <= p
      <4>1. \A k \in MarksTo(r, m) : k \in DOMAIN l \/ k = p
        BY <1>17 DEF MarksTo
      <4> QED
        BY <1>10, <1>14, <4>1
    <3>3. Max(MarksTo(r, m)) = p
      BY <1>5, <3>1, <3>2, MaxIs, MovesAndMarks
    <3> QED
      BY <1>11, <1>19, <2>1, <3>1, <3>3 DEF StateAt
  <2>2. CASE r[p].op # "mark"
    <3>1. MarksTo(r, m) = MarksTo(l, n)
      BY <1>7, <1>14, <1>17, <1>21, <2>2 DEF MarksTo
    <3>2. MarksTo(l, n) # {} => Max(MarksTo(l, n)) \in DOMAIN l
      BY <1>21, MovesAndMarks
    <3> QED
      BY <1>7, <1>11, <1>18, <1>19, <2>2, <3>1, <3>2 DEF StateAt
  <2> QED
    BY <2>1, <2>2
<1>24. y = [own |-> y.own, head |-> y.head, mark |-> y.mark]
  BY <1>19 DEF StateAt
<1>25. y = Saying(x, q[1])
  BY <1>20, <1>22, <1>23, <1>24 DEF Saying
<1> QED
  BY <1>1, <1>18, <1>19, <1>25

\* What is found of an object stays found, but for a power loss.
ReadStays ==
    \A o \in Objects : obj[o] \in {"dirty", "disk", "lost"} => obj'[o] \in {"dirty", "disk", "lost"}

\* Every step but a power loss leaves readable what was, and what this
\* process wrote.
LEMMA ReadNext ==
    ASSUME TypeOK, ReadInv, [Next]_vars
    PROVE  ReadInv' /\ (PowerLoss \/ ReadStays)
<1>1. wrote \in SUBSET Objects /\ obj \in [Objects -> {"none", "torn", "dirty", "disk", "lost"}]
  BY DEF TypeOK
<1>2. CASE UNCHANGED <<obj, wrote>>
  BY <1>2 DEF ReadInv, ReadStays
<1>3. ASSUME NEW s \in Sessions, RecoverObjects(s)
      PROVE  ReadInv' /\ ReadStays
  <2>1. PICK fresh : fresh = UNION {Names[e] : e \in Adopt(log[s], obj)} OBVIOUS
  <2>2. /\ obj' = [o \in Objects |-> IF o \in fresh THEN "disk" ELSE obj[o]]
        /\ wrote' = wrote \cup fresh
    BY <1>3, <2>1 DEF RecoverObjects
  <2>3. fresh \subseteq Objects
    BY <2>1, SetsOfEntries, SessionTypes, ConstantsAssumption
  <2> QED
    BY <1>1, <2>2, <2>3 DEF ReadInv, ReadStays
<1>4. ASSUME NEW s \in Sessions, Prepare(s)
      PROVE  ReadInv' /\ ReadStays
  <2>1. PICK e : e = call[s].entry OBVIOUS
  <2>2. e \in Entries /\ Names[e] \subseteq Objects
    BY <1>4, <2>1, SessionTypes, ConstantsAssumption DEF Calls, Prepare
  <2>3. obj' = storeEntry(e) /\ wrote' = wrote \cup Names[e]
    BY <1>4, <2>1 DEF Prepare
  <2> QED
    BY <1>1, <2>2, <2>3 DEF ReadInv, ReadStays, storeEntry
<1>5. ASSUME NEW s \in Sessions, Flush(s)
      PROVE  ReadInv' /\ ReadStays
  BY <1>1, <1>5 DEF Flush, ReadInv, ReadStays
<1>6. ASSUME NEW s \in Sessions, FlushFails(s)
      PROVE  ReadInv' /\ ReadStays
  BY <1>1, <1>6 DEF FlushFails, ReadInv, ReadStays
<1>7. CASE Kill
  BY <1>7 DEF Kill, ProcessGone, ReadInv, ReadStays
<1>8. CASE PowerLoss
  BY <1>8 DEF PowerLoss, ProcessGone, ReadInv
<1>9. ASSUME NEW s \in Sessions,
             \/ Open(s) \/ RecoverLog(s) \/ RecoverFails(s)
             \/ \E x \in Entries \cup {Root} : Branch(s, x) \/ SetHead(s, x)
             \/ \E e \in Entries : Write(s, e)
             \/ PrepareReturns(s)
             \/ \E mark \in Marks : SetMark(s, mark)
             \/ Commit(s) \/ Release(s) \/ LogWrite(s) \/ LogWriteFails(s)
             \/ LogFsync(s) \/ LogFsyncFails(s) \/ Cut(s)
      PROVE  UNCHANGED <<obj, wrote>>
  BY <1>9 DEF Open, RecoverLog, RecoverFails, Branch, SetHead, Write, PrepareReturns, SetMark,
              Commit, Release, LogWrite, LogWriteFails, LogFsync, LogFsyncFails, Cut
<1> QED
  BY <1>2, <1>3, <1>4, <1>5, <1>6, <1>7, <1>8, <1>9 DEF Next, vars

\* What a step makes of the logs and the objects.
LEMMA LogsStep ==
    ASSUME LogInv, [Next]_vars
    PROVE  /\ DiskStays
           /\ \A s \in Sessions :
                \/ Shrinks(log[s], log'[s])
                \/ LogWrite(s) /\ obj' = obj
                \/ RecoverLog(s) /\ obj' = obj
<1>1. TypeOK
  BY DEF LogInv
<1>2. ASSUME NEW s \in Sessions, log'[s] = log[s] PROVE Shrinks(log[s], log'[s])
  BY <1>2 DEF Shrinks
<1>3. ASSUME NEW s \in Sessions, NEW t \in Sessions,
             LogWrite(s) \/ RecoverLog(s) \/ LogFsync(s) \/ LogFsyncFails(s) \/ Cut(s)
      PROVE  /\ DiskStays
             /\ \/ Shrinks(log[t], log'[t])
                \/ LogWrite(t) /\ obj' = obj
                \/ RecoverLog(t) /\ obj' = obj
  <2>1. obj' = obj
    BY <1>3 DEF LogWrite, RecoverLog, LogFsync, LogFsyncFails, Cut
  <2>2. CASE t # s
    <3>1. log'[t] = log[t]
      BY <1>1, <1>3, <2>2 DEF LogWrite, RecoverLog, LogFsync, LogFsyncFails, Cut, TypeOK
    <3> QED
      BY <1>2, <2>1, <3>1 DEF DiskStays
  <2>3. CASE t = s /\ (LogWrite(s) \/ RecoverLog(s))
    BY <2>1, <2>3 DEF DiskStays
  <2>4. CASE t = s /\ Cut(s)
    <3>1. Shrinks(log[s], log'[s])
      BY <1>1, <2>4, CutLeaves DEF LogInv
    <3> QED
      BY <2>1, <2>4, <3>1 DEF DiskStays
  <2>5. CASE t = s /\ (LogFsync(s) \/ LogFsyncFails(s))
    <3>1. \/ log'[s] = log[s] \/ log'[s] = MarkedAs(log[s], "disk")
          \/ log'[s] = MarkedAs(log[s], "lost")
      BY <1>1, <2>5 DEF LogFsync, LogFsyncFails, TypeOK
    <3>2. log[s] \in Seq(Records)
      BY <1>1, SessionTypes
    <3>3. Shrinks(log[s], log'[s])
      <4>1. CASE log'[s] = MarkedAs(log[s], "disk")
        BY <3>2, <4>1, MarkedShrinks
      <4>2. CASE log'[s] = MarkedAs(log[s], "lost")
        BY <3>2, <4>2, MarkedShrinks
      <4> QED
        BY <1>2, <3>1, <4>1, <4>2
    <3> QED
      BY <2>1, <2>5, <3>3 DEF DiskStays
  <2> QED
    BY <1>3, <2>2, <2>3, <2>4, <2>5
<1>4. ASSUME NEW s \in Sessions, RecoverObjects(s) \/ Prepare(s) \/ Flush(s) \/ FlushFails(s)
      PROVE  DiskStays /\ \A t \in Sessions : Shrinks(log[t], log'[t])
  <2>1. log' = log
    BY <1>4 DEF RecoverObjects, Prepare, Flush, FlushFails
  <2>2. DiskStays
    <3>1. CASE RecoverObjects(s)
      BY <1>1, <3>1 DEF RecoverObjects, DiskStays, TypeOK
    <3>2. CASE Prepare(s)
      BY <1>1, <3>2 DEF Prepare, DiskStays, storeEntry, TypeOK
    <3>3. CASE Flush(s)
      BY <1>1, <3>3 DEF Flush, DiskStays, TypeOK
    <3>4. CASE FlushFails(s)
      BY <1>1, <3>4 DEF FlushFails, DiskStays, Dirty, TypeOK
    <3> QED
      BY <1>4, <3>1, <3>2, <3>3, <3>4
  <2> QED
    BY <1>2, <2>1, <2>2
<1>5. ASSUME NEW s \in Sessions,
             \/ Open(s) \/ RecoverFails(s)
             \/ \E x \in Entries \cup {Root} : Branch(s, x) \/ SetHead(s, x)
             \/ \E e \in Entries : Write(s, e)
             \/ PrepareReturns(s)
             \/ \E mark \in Marks : SetMark(s, mark)
             \/ Commit(s) \/ Release(s) \/ LogWriteFails(s)
      PROVE  UNCHANGED <<log, obj>>
  BY <1>5 DEF Open, RecoverFails, Branch, SetHead, Write, PrepareReturns, SetMark,
              Commit, Release, LogWriteFails
<1>6. CASE PowerLoss
  <2>1. DiskStays
    BY <1>6 DEF PowerLoss, Volatile, DiskStays
  <2>2. \A s \in Sessions : LostInv(log[s])
    BY DEF LogInv, SessionInv
  <2> QED
    BY <1>1, <1>6, <2>1, <2>2, PowerLossLeaves
<1>7. CASE UNCHANGED <<log, obj>>
  BY <1>2, <1>7 DEF DiskStays
<1>8. Kill => UNCHANGED <<log, obj>>
  BY DEF Kill
<1> QED
  BY <1>3, <1>4, <1>5, <1>6, <1>7, <1>8 DEF Next, vars

\* Where the log shrinks, so does what a crash can take.
LEMMA TailShrinks ==
    ASSUME TypeOK, TypeOK', NEW s \in Sessions, StoredInv(s), TailInv(s), DiskStays,
           Shrinks(log[s], log'[s])
    PROVE  TailInv(s)'
<1>1. PICK l : l = log[s] OBVIOUS
<1>2. PICK r : r = log'[s] OBVIOUS
<1>3. /\ l \in Seq(Records) /\ r \in Seq(Records)
      /\ \A i \in DOMAIN l : i \in Nat /\ (l[i].op = "append" => l[i].entry \in Entries)
  <2>1. l \in Seq(Records) /\ r \in Seq(Records)
    BY <1>1, <1>2 DEF TypeOK
  <2> QED
    BY <2>1, LogIndices, EntriesOfRecords
<1>4. \A e : \A i \in Nat : Gone(r, e, i) <=> Gone(l, e, i)
  BY <1>1, <1>2, Shrunk
<1>5. \A i \in DOMAIN r : /\ i \in DOMAIN l
                          /\ r[i].op # "zero" => /\ r[i].op = l[i].op /\ r[i].entry = l[i].entry
                                                 /\ r[i].lazy = l[i].lazy
  BY <1>1, <1>2 DEF Shrinks
<1>6. ASSUME NEW i \in DOMAIN r, Pending(r, i), ~AllOnDisk(r[i].entry)',
             NEW k \in DOMAIN r, k > i
      PROVE  r[k].op = "zero" \/ (r[k].op = "append" /\ r[k].lazy)
  <2>1. i \in DOMAIN l /\ l[i].op = "append" /\ r[i].entry = l[i].entry /\ l[i].lazy
        /\ ~Gone(l, l[i].entry, i)
    BY <1>3, <1>4, <1>5, <1>6 DEF Pending
  <2>2. ~AllOnDisk(l[i].entry)
    BY <1>3, <1>6, <2>1, DiskStaysFor
  <2>3. Pending(l, i)
    BY <1>1, <2>1, <2>2 DEF StoredInv
  <2>4. l[k].op = "zero" \/ (l[k].op = "append" /\ l[k].lazy)
    BY <1>1, <1>5, <1>6, <2>1, <2>2, <2>3 DEF TailInv
  <2> QED
    BY <1>5, <2>4
<1> QED
  BY <1>2, <1>6 DEF TailInv

\* A durable call leaves nothing a crash can take before its records; a lazy
\* one adds working state.
LEMMA TailGrows ==
    ASSUME LogInv, NEW s \in Sessions, TailInv(s), LogWrite(s), obj' = obj
    PROVE  TailInv(s)'
<1>1. TypeOK /\ SessionInv(s)
  BY DEF LogInv
<1>2. PICK l : l = log[s] OBVIOUS
<1>3. PICK c : c = call[s] OBVIOUS
<1>4. PICK q : q = c.recs OBVIOUS
<1>5. PICK r : r = l \o q OBVIOUS
<1>6. c.pc = "log" /\ log'[s] = r
  BY <1>1, <1>2, <1>3, <1>4, <1>5 DEF LogWrite, TypeOK
<1>7. /\ l \in Seq(Records) /\ q \in Seq(Records) /\ Len(l) \in Nat /\ DOMAIN l = 1..Len(l)
  BY <1>1, <1>2, <1>3, <1>4, SessionTypes
<1>8. \A k \in DOMAIN q : /\ q[k].op # "lost"
                          /\ q[k].op = "append" => q[k].lazy = ~c.durable
                          /\ ~c.durable => q[k].op = "append"
  BY <1>1, <1>3, <1>4, <1>6 DEF SessionInv, RecsInv
<1>9. \A i \in DOMAIN l : i \in DOMAIN r /\ r[i] = l[i]
  BY <1>5, <1>7, <1>8, Grown
<1>10. \A i \in DOMAIN r \ DOMAIN l : i > Len(l) /\ i - Len(l) \in DOMAIN q /\ r[i] = q[i - Len(l)]
  BY <1>5, <1>7, <1>8, Grown
<1>11. \A e : \A i \in Nat : Gone(r, e, i) <=> Gone(l, e, i)
  BY <1>5, <1>7, <1>8, Grown
<1>12. \A i \in DOMAIN l : Covered(l, i) => Covered(r, i)
  BY <1>5, <1>7, <1>8, Grown
<1>13. \A i \in DOMAIN l : i \in Nat /\ (Pending(r, i) => Pending(l, i))
  BY <1>7, <1>9, <1>11, <1>12 DEF Pending
<1>14. CASE c.durable
  <2>1. handle[s].pend = {} /\ Live(s)
    BY <1>1, <1>3, <1>6, <1>14 DEF SessionInv, CallInv, Live, Idle
  <2>2. \A i \in DOMAIN l : Pending(r, i) => AllOnDisk(r[i].entry)
    BY <1>1, <1>2, <1>9, <1>13, <2>1 DEF SessionInv, OwedInv, AllOnDisk
  <2>3. \A i \in DOMAIN r \ DOMAIN l : ~Pending(r, i)
    BY <1>8, <1>10, <1>14 DEF Pending
  <2> QED
    BY <1>6, <2>2, <2>3 DEF TailInv, AllOnDisk
<1>15. CASE ~c.durable
  <2>1. \A k \in DOMAIN r \ DOMAIN l : r[k].op = "append" /\ r[k].lazy
    BY <1>8, <1>10, <1>15
  <2>2. ASSUME NEW i \in DOMAIN r, Pending(r, i), ~AllOnDisk(r[i].entry),
               NEW k \in DOMAIN l, k > i
        PROVE  r[k].op = "zero" \/ (r[k].op = "append" /\ r[k].lazy)
    <3>1. i \in DOMAIN l
      <4>1. \A j \in DOMAIN l : j <= Len(l)
        BY <1>7
      <4>2. CASE i \notin DOMAIN l
        <5>1. i > Len(l) /\ k <= Len(l) /\ Len(l) \in Nat /\ k \in Nat
          BY <1>7, <1>10, <4>1, <4>2
        <5>2. i \in Nat
          <6>1. r \in Seq(Records)
            BY <1>5, <1>7, <1>8, Grown
          <6> QED
            BY <6>1, LogIndices
        <5> QED
          BY <2>2, <5>1, <5>2
      <4> QED
        BY <4>2
    <3> QED
      BY <1>1, <1>2, <1>9, <1>13, <2>2, <3>1 DEF TailInv
  <2> QED
    BY <1>6, <2>1, <2>2 DEF TailInv, AllOnDisk
<1> QED
  BY <1>14, <1>15

\* Every step keeps TailInv: a durable call flushes before it writes.
LEMMA TailNext ==
    ASSUME LogInv, TypeOK', \A s \in Sessions : TailInv(s), [Next]_vars
    PROVE  \A s \in Sessions : TailInv(s)'
<1> SUFFICES ASSUME NEW s \in Sessions PROVE TailInv(s)'
  OBVIOUS
<1>1. TypeOK /\ SessionInv(s) /\ DiskStays
  BY LogsStep DEF LogInv
<1>2. CASE Shrinks(log[s], log'[s])
  BY <1>1, <1>2, TailShrinks DEF SessionInv
<1>3. CASE LogWrite(s) /\ obj' = obj
  BY <1>3, TailGrows
<1>4. CASE RecoverLog(s) /\ obj' = obj
  <2>1. PICK r : r = call[s].recs OBVIOUS
  <2>2. log'[s] = r /\ call[s].pc = "recover"
    BY <1>1, <1>4, <2>1 DEF RecoverLog, TypeOK
  <2>3. \A i \in DOMAIN r : Pending(r, i) => AllOnDisk(r[i].entry)
    BY <1>1, <2>1, <2>2 DEF SessionInv, PlanInv, Pending
  <2> QED
    BY <1>4, <2>2, <2>3 DEF TailInv, AllOnDisk
<1> QED
  BY <1>2, <1>3, <1>4, LogsStep

\* What the records of a call make of a session's state.
LEMMA StateAfterIs ==
    ASSUME NEW h \in Handles, NEW c \in Calls
    PROVE  StateAfter(h, c) =
             [own  |-> h.own \cup (IF c.kind = "write" THEN {c.entry} ELSE {}),
              head |-> IF c.kind \in {"syncHead", "setHead"} \/ (c.kind = "write" /\ c.head # None)
                       THEN c.head ELSE h.head,
              mark |-> IF c.kind = "setMark" THEN c.mark ELSE h.mark]
<1>1. CASE c.kind = "write"
  BY <1>1 DEF StateAfter, After, StateOf, Handles
<1>2. CASE c.kind = "syncHead"
  BY <1>2 DEF StateAfter, After, StateOf, Handles
<1>3. CASE c.kind = "setHead"
  BY <1>3 DEF StateAfter, After, StateOf, Handles
<1>4. CASE c.kind = "setMark"
  BY <1>4 DEF StateAfter, After, StateOf, Handles
<1>5. CASE c.kind = "release"
  BY <1>5 DEF StateAfter, StateOf, Handles
<1>6. CASE c.kind \notin {"write", "syncHead", "setHead", "setMark", "release"}
  BY <1>6 DEF StateAfter, After, StateOf, Handles
<1> QED
  BY <1>1, <1>2, <1>3, <1>4, <1>5, <1>6

\* It depends on the state of the handle alone.
LEMMA StateAfterSame ==
    ASSUME NEW g \in Handles, NEW h \in Handles, NEW c \in Calls, StateOf(g) = StateOf(h)
    PROVE  StateAfter(g, c) = StateAfter(h, c)
<1>1. g.own = h.own /\ g.head = h.head /\ g.mark = h.mark
  BY DEF StateOf
<1>2. CASE c.kind = "write"
  BY <1>1, <1>2 DEF StateAfter, After, StateOf, Handles
<1>3. CASE c.kind = "syncHead"
  BY <1>1, <1>3 DEF StateAfter, After, StateOf, Handles
<1>4. CASE c.kind = "setHead"
  BY <1>1, <1>4 DEF StateAfter, After, StateOf, Handles
<1>5. CASE c.kind = "setMark"
  BY <1>1, <1>5 DEF StateAfter, After, StateOf, Handles
<1>6. CASE c.kind = "release"
  BY <1>1, <1>6 DEF StateAfter, StateOf, Handles
<1>7. CASE c.kind \notin {"write", "syncHead", "setHead", "setMark", "release"}
  BY <1>1, <1>7 DEF StateAfter, After, StateOf, Handles
<1> QED
  BY <1>2, <1>3, <1>4, <1>5, <1>6, <1>7

\* Nothing stops a reader of a log its handle can write to.
LEMMA LiveIsFound ==
    ASSUME LogInv, ReadInv, NEW s \in Sessions, Live(s)
    PROVE  AllFound(log[s], obj)
<1>1. TypeOK /\ SessionInv(s) /\ WroteInv
  BY DEF LogInv
<1>2. \A i \in DOMAIN log[s] : log[s][i].op # "zero"
  BY <1>1 DEF SessionInv, OwnInv
<1>3. handle[s].pend \subseteq wrote
  BY <1>1 DEF WroteInv
<1>4. \A i \in DOMAIN log[s] : Pending(log[s], i) => Present(obj, log[s][i].entry)
  BY <1>1, <1>3 DEF SessionInv, OwedInv, ReadInv, Present
<1> QED
  BY <1>2, <1>4 DEF AllFound

\* What was found stays found.
LEMMA FoundStays ==
    ASSUME TypeOK, NEW s \in Sessions, AllFound(log[s], obj), ReadStays
    PROVE  AllFound(log[s], obj')
<1>1. \A i \in DOMAIN log[s] : log[s][i].op = "append" => Names[log[s][i].entry] \subseteq Objects
  BY SessionTypes, LogIndices, EntriesOfRecords, ConstantsAssumption
<1>2. ASSUME NEW i \in DOMAIN log[s], Pending(log[s], i)
      PROVE  Present(obj', log[s][i].entry)
  <2>1. Present(obj, log[s][i].entry) /\ Names[log[s][i].entry] \subseteq Objects
    BY <1>1, <1>2 DEF AllFound, Pending
  <2> QED
    BY <2>1 DEF Present, ReadStays
<1> QED
  BY <1>2 DEF AllFound

\* The log stays and the session is held on by a handle that could write.
LEMMA FollowGoesOn ==
    ASSUME LogInv, ReadInv, TypeOK', NEW s \in Sessions, FollowInv(s), Live(s), ReadStays,
           log'[s] = log[s], StateOf(handle'[s]) = StateOf(handle[s]),
           call[s].pc \notin {"fsync", "cut"}, call'[s].pc \notin {"fsync", "cut", "recover"}
    PROVE  FollowInv(s)'
<1>1. TypeOK
  BY DEF LogInv
<1>2. PICK l : l = log[s] OBVIOUS
<1>3. l \in Seq(Records) /\ Len(l) \in Nat
  BY <1>1, <1>2, SessionTypes
<1>4. Accepted(s) = Len(l) /\ Accepted(s)' = Len(l)
  <2>1. Accepted(s) = Len(l)
    BY <1>1, <1>2, AcceptedIs
  <2>2. Accepted(s)' = Len(l) - 0
    BY <1>2 DEF Accepted
  <2> QED
    BY <1>3, <2>1, <2>2
<1>5. StateAt(l, Len(l)) = StateOf(handle[s])
  BY <1>2, <1>4 DEF FollowInv
<1>6. AllFound(l, obj')
  BY <1>1, <1>2, LiveIsFound, FoundStays
<1>7. reconcile(s)' = StateAt(l, Len(l))
  <2>1. View(l, obj', FALSE) = StateAt(l, Len(l))
    BY <1>3, <1>6, ReadsAll
  <2> QED
    BY <1>2, <2>1 DEF reconcile
<1> QED
  BY <1>2, <1>4, <1>5, <1>7 DEF FollowInv

\* Another session, or the environment, takes the step.
LEMMA FollowStays ==
    ASSUME LogInv, ReadInv, TypeOK', NEW s \in Sessions, FollowInv(s), ReadStays,
           stopped => stopped' /\ obj' = obj, log'[s] = log[s], call'[s] = call[s],
           handle'[s].held = handle[s].held, StateOf(handle'[s]) = StateOf(handle[s])
    PROVE  FollowInv(s)'
<1>1. TypeOK
  BY DEF LogInv
<1>2. PICK l : l = log[s] OBVIOUS
<1>3. PICK c : c = call[s] OBVIOUS
<1>4. l \in Seq(Records) /\ c \in Calls /\ handle[s] \in Handles /\ handle'[s] \in Handles
  BY <1>1, <1>2, <1>3 DEF TypeOK
<1>5. Accepted(s)' = Accepted(s)
  BY DEF Accepted
<1>6. Live(s)' => StateAt(l, Accepted(s)) = StateOf(handle'[s])
  BY <1>2 DEF FollowInv, Live, Idle
<1>7. c.pc = "fsync" => StateAt(l, Len(l)) = StateAfter(handle'[s], c)
  BY <1>2, <1>3, <1>4, StateAfterSame DEF FollowInv
<1>8. ASSUME handle'[s].held, stopped', c.pc = "idle"
      PROVE  StateOf(handle'[s]) = reconcile(s)'
  <2>1. CASE stopped
    BY <1>2, <1>3, <1>8, <2>1 DEF FollowInv, Idle, reconcile
  <2>2. CASE ~stopped
    <3>1. Live(s) /\ Accepted(s) = Len(l)
      BY <1>1, <1>2, <1>3, <1>8, <2>2, AcceptedIs DEF Live
    <3>2. AllFound(l, obj')
      BY <1>1, <1>2, <3>1, LiveIsFound, FoundStays
    <3>3. View(l, obj', FALSE) = StateAt(l, Len(l))
      BY <1>4, <3>2, ReadsAll
    <3>4. StateAt(l, Len(l)) = StateOf(handle[s])
      BY <1>2, <3>1 DEF FollowInv
    <3> QED
      BY <1>2, <3>3, <3>4 DEF reconcile
  <2> QED
    BY <2>1, <2>2
<1>9. c.pc = "recover" => StateAt(c.recs, Len(c.recs)) = c.view
  BY <1>3 DEF FollowInv
<1> QED
  BY <1>2, <1>3, <1>5, <1>6, <1>7, <1>8, <1>9 DEF FollowInv, Idle

\* The session is let go.
LEMMA FollowLetGo ==
    ASSUME NEW s \in Sessions, ~handle'[s].held, call'[s].pc \notin {"fsync", "recover"}
    PROVE  FollowInv(s)'
BY DEF FollowInv, Live

\* The log a recovery plans says what the recovery found: what it did not
\* reach is dropped, and was working state.
LEMMA RecoveredIsFound ==
    ASSUME TypeOK, NEW s \in Sessions, SessionInv(s), TreeInv(s), TailInv(s),
           NEW r, r = Recovered(log[s], obj)
    PROVE  StateAt(r, Len(r)) = reconcile(s)
<1>1. PICK l : l = log[s] OBVIOUS
<1>2. PICK E : E = EntriesOf(l, obj, FALSE) OBVIOUS
<1>3. /\ l \in Seq(Records) /\ Len(l) \in Nat /\ DOMAIN l = 1..Len(l)
      /\ \A i \in DOMAIN l : l[i] \in Records
  BY <1>1, SessionTypes, LogIndices
<1>4. OnceInv(l) /\ LostInv(l) /\ TreeIn(l)
  BY <1>1 DEF SessionInv, TreeInv
<1>5. PICK w : w = Whole(l) OBVIOUS
<1>6. PICK D : D = Dropped(l, obj) OBVIOUS
<1>7. w \in Seq(Records) /\ D \subseteq Entries
  BY <1>3, <1>5, <1>6, WholeType, SetsOfEntries
<1>8. \A i \in DOMAIN w : i \in DOMAIN l /\ l[i].op # "zero"
  BY <1>3, <1>5, WholeType
<1>9. \A i \in DOMAIN l : (\A j \in 1..i : l[j].op # "zero") => i \in DOMAIN w
  BY <1>3, <1>5, WholeType
<1>10. Len(w) \in Nat /\ DOMAIN w = 1..Len(w)
  BY <1>7, LogIndices
<1>11. r \in Seq(Records) /\ \A i \in DOMAIN w :
         /\ i \in DOMAIN r /\ r[i].op = l[i].op /\ r[i].entry = l[i].entry
         /\ r[i].head = l[i].head /\ r[i].mark = l[i].mark
  BY <1>1, <1>3, <1>5, RecoveredShape
<1>12. \A i \in DOMAIN r \ DOMAIN w : r[i].op \in {"lost", "sync"}
  BY <1>1, <1>3, <1>5, RecoveredShape
<1>13. \A e : \A i \in DOMAIN w : Gone(r, e, i) <=> Gone(l, e, i) \/ e \in D
  BY <1>1, <1>3, <1>4, <1>5, <1>6, RecoveredSays
<1>14. Len(r) \in Nat /\ DOMAIN r = 1..Len(r)
  BY <1>11, LogIndices
<1>15. \A i \in DOMAIN r : i <= Len(r)
  BY <1>14
<1>16. \A i \in DOMAIN l : Reached(l, obj, FALSE, i) => i \in DOMAIN w
  BY <1>9 DEF Reached, CutsAt
<1>17. ASSUME NEW i \in DOMAIN w
       PROVE  Standing(r, i) <=> KeptAt(l, obj, FALSE, i)
  <2>1. i \in DOMAIN l /\ r[i].op = l[i].op /\ r[i].entry = l[i].entry
    BY <1>8, <1>11
  <2>2. ASSUME KeptAt(l, obj, FALSE, i) PROVE Standing(r, i)
    <3>1. l[i].entry \in E
      BY <1>2, <2>1, <2>2 DEF EntriesOf
    <3>2. l[i].entry \notin D
      BY <1>2, <1>6, <3>1 DEF Dropped
    <3> QED
      BY <1>13, <2>1, <2>2, <3>2 DEF KeptAt, Standing
  <2>3. ASSUME Standing(r, i) PROVE KeptAt(l, obj, FALSE, i)
    <3>1. Standing(l, i) /\ l[i].entry \notin D
      BY <1>13, <2>1, <2>3 DEF Standing
    <3>2. ASSUME ~Reached(l, obj, FALSE, i) PROVE FALSE
      <4>1. l[i].entry \in E
        BY <1>2, <1>6, <2>1, <3>1, <3>2 DEF Dropped, Standing
      <4>2. PICK j \in DOMAIN l : KeptAt(l, obj, FALSE, j) /\ l[j].entry = l[i].entry
        BY <1>2, <4>1 DEF EntriesOf
      <4>3. i = j
        BY <1>3, <1>4, <2>1, <3>1, <4>2, StandsOnce DEF KeptAt, Standing
      <4> QED
        BY <3>2, <4>2, <4>3 DEF KeptAt
    <3> QED
      BY <3>1, <3>2 DEF KeptAt, Standing
  <2> QED
    BY <2>2, <2>3
<1>18. ASSUME NEW i \in DOMAIN w, l[i].op \in {"head", "mark"}
       PROVE  Reached(l, obj, FALSE, i)
  <2> SUFFICES ASSUME NEW j \in 1..i, CutsAt(l, obj, FALSE, j) PROVE FALSE
    BY DEF Reached
  <2>1. j \in DOMAIN w /\ j \in DOMAIN l /\ i \in DOMAIN l /\ i \in Nat /\ j \in Nat
    BY <1>3, <1>8, <1>10
  <2>2. Pending(l, j) /\ ~Present(obj, l[j].entry)
    BY <1>8, <2>1 DEF CutsAt
  <2>3. ~AllOnDisk(l[j].entry)
    BY <2>2 DEF Present, AllOnDisk
  <2>4. j # i
    BY <1>18, <2>2 DEF Pending
  <2>5. i > j
    BY <2>1, <2>4
  <2>6. l[i].op = "zero" \/ l[i].op = "append"
    BY <1>1, <2>1, <2>2, <2>3, <2>5 DEF TailInv
  <2> QED
    BY <1>18, <2>6
<1>19. ASSUME NEW i \in DOMAIN w, l[i].op = "head"
       PROVE  ~Gone(r, l[i].head, i) <=> ~Gone(l, l[i].head, i)
  <2> SUFFICES ASSUME ~Gone(l, l[i].head, i) PROVE l[i].head \notin D
    BY <1>13
  <2>1. i \in DOMAIN l /\ Reached(l, obj, FALSE, i) /\ Moves(l, i)
    BY <1>8, <1>18, <1>19 DEF Moves
  <2>2. NoHole(l, i)
    BY <2>1 DEF Reached, CutsAt, NoHole
  <2>3. CASE l[i].head = Root
    BY <1>7, <2>3, ConstantsAssumption
  <2>4. CASE l[i].head # Root
    <3>1. PICK j \in DOMAIN l : j <= i /\ AppendAt(l, l[i].head, j)
      BY <1>4, <2>1, <2>2, <2>4 DEF TreeIn
    <3>2. l[i].head \in E
      BY <1>2, <1>3, <2>1, <3>1, FoundBefore
    <3> QED
      BY <1>2, <1>6, <3>2 DEF Dropped
  <2> QED
    BY <2>3, <2>4
<1>20. OwnAt(r, Len(r)) = E
  <2>1. {j \in DOMAIN r : j <= Len(r) /\ Standing(r, j)} = {j \in DOMAIN l : KeptAt(l, obj, FALSE, j)}
    <3>1. \A j \in DOMAIN r : Standing(r, j) => j \in DOMAIN w
      BY <1>12 DEF Standing
    <3>2. \A j \in DOMAIN l : KeptAt(l, obj, FALSE, j) => j \in DOMAIN w
      BY <1>16 DEF KeptAt
    <3> QED
      BY <1>8, <1>11, <1>15, <1>17, <3>1, <3>2
  <2>2. \A j \in DOMAIN l : KeptAt(l, obj, FALSE, j) => r[j].entry = l[j].entry
    BY <1>11, <1>16 DEF KeptAt
  <2> QED
    BY <1>2, <2>1, <2>2 DEF OwnAt, EntriesOf
<1>21. MovesTo(r, Len(r)) = HeadMoves(l, obj, FALSE)
  <2>1. \A i \in DOMAIN r : Moves(r, i) => i \in DOMAIN w
    BY <1>12 DEF Moves, Standing
  <2>2. \A i \in DOMAIN l : i \in HeadMoves(l, obj, FALSE) => i \in DOMAIN w
    BY <1>16 DEF HeadMoves, KeptAt
  <2>3. \A i \in DOMAIN w : Moves(r, i) <=> i \in HeadMoves(l, obj, FALSE)
    BY <1>8, <1>11, <1>17, <1>18, <1>19 DEF Moves, HeadMoves, KeptAt
  <2>4. MovesTo(r, Len(r)) = {i \in DOMAIN w : Moves(r, i)}
    BY <1>11, <1>15, <2>1 DEF MovesTo
  <2>5. HeadMoves(l, obj, FALSE) \subseteq DOMAIN l
    BY DEF HeadMoves
  <2> QED
    BY <2>2, <2>3, <2>4, <2>5
<1>22. MarksTo(r, Len(r)) = {i \in DOMAIN l : l[i].op = "mark" /\ Reached(l, obj, FALSE, i)}
  <2>1. \A i \in DOMAIN r : r[i].op = "mark" => i \in DOMAIN w
    BY <1>12
  <2> QED
    BY <1>8, <1>11, <1>15, <1>16, <1>18, <2>1 DEF MarksTo
<1>23. MovesTo(r, Len(r)) # {} =>
         r[Max(MovesTo(r, Len(r)))].head = l[Max(MovesTo(r, Len(r)))].head
  <2>1. MovesTo(r, Len(r)) \subseteq DOMAIN w
    BY <1>12 DEF MovesTo, Moves, Standing
  <2> QED
    BY <1>11, <2>1, MovesAndMarks
<1>24. MarksTo(r, Len(r)) # {} =>
         r[Max(MarksTo(r, Len(r)))].mark = l[Max(MarksTo(r, Len(r)))].mark
  <2>1. MarksTo(r, Len(r)) \subseteq DOMAIN w
    BY <1>12 DEF MarksTo
  <2> QED
    BY <1>11, <2>1, MovesAndMarks
<1>25. HeadOf(l, obj, FALSE) = StateAt(r, Len(r)).head
  BY <1>21, <1>23 DEF HeadOf, StateAt
<1>26. MarkOf(l, obj, FALSE) = StateAt(r, Len(r)).mark
  BY <1>22, <1>24 DEF MarkOf, StateAt
<1>27. reconcile(s) = [own |-> E, head |-> HeadOf(l, obj, FALSE), mark |-> MarkOf(l, obj, FALSE)]
  BY <1>1, <1>2 DEF reconcile, View
<1> QED
  BY <1>20, <1>25, <1>26, <1>27 DEF StateAt

\* The handle a view makes stands for the view.
LEMMA HandleSays ==
    ASSUME NEW v \in States, NEW lazy
    PROVE  StateOf(HandleOf(v, lazy)) = v
BY DEF States, HandleOf, StateOf

\* The session is held as its log was found.
LEMMA FollowOpens ==
    ASSUME LogInv, TypeOK', NEW s \in Sessions, FollowInv(s), Open(s)
    PROVE  FollowInv(s)'
<1>1. TypeOK /\ SessionInv(s) /\ call[s].pc = "idle" /\ UNCHANGED <<log, obj, stopped, call>>
  BY DEF LogInv, Open, Idle
<1>2. PICK l : l = log[s] OBVIOUS
<1>3. PICK v : v = reconcile(s) OBVIOUS
<1>4. l \in Seq(Records) /\ Len(l) \in Nat
  BY <1>1, <1>2, SessionTypes
<1>5. v \in States /\ v = View(l, obj, FALSE)
  BY <1>2, <1>3, <1>4, ViewType DEF reconcile
<1>6. StateOf(handle'[s]) = v
  <2>1. \E lazy : handle'[s] = HandleOf(v, lazy)
    BY <1>1, <1>3 DEF Open, TypeOK
  <2> QED
    BY <1>5, <2>1, HandleSays
<1>7. reconcile(s)' = v
  BY <1>1, <1>3 DEF reconcile
<1>8. Accepted(s)' = Len(l)
  <2>1. Accepted(s)' = Len(l) - 0
    BY <1>1, <1>2 DEF Accepted
  <2> QED
    BY <1>4, <2>1
<1>9. ASSUME ~stopped PROVE StateAt(l, Len(l)) = v
  <2>1. ~MustRewrite(l, obj) /\ OnceInv(l)
    BY <1>1, <1>2, <1>9 DEF Open, SessionInv
  <2>2. AllFound(l, obj)
    BY <1>4, <2>1, NothingToRewrite DEF AllFound
  <2> QED
    BY <1>4, <1>5, <2>2, ReadsAll
<1> QED
  BY <1>1, <1>2, <1>6, <1>7, <1>8, <1>9 DEF FollowInv, Live, Idle

\* A recovery plans a log that says what it found, and puts it in place.
LEMMA FollowRecovers ==
    ASSUME LogInv, TypeOK', NEW s \in Sessions, FollowInv(s), TreeInv(s), TailInv(s),
           RecoverObjects(s)
    PROVE  FollowInv(s)'
<1>1. TypeOK /\ SessionInv(s) /\ ~handle'[s].held
  BY DEF LogInv, RecoverObjects
<1>2. PICK r : r = Recovered(log[s], obj) OBVIOUS
<1>3. PICK c : c = [NoCall EXCEPT !.pc = "recover", !.kind = "open", !.view = reconcile(s), !.recs = r]
  OBVIOUS
<1>4. c.pc = "recover" /\ c.recs = r /\ c.view = reconcile(s)
  BY <1>3 DEF NoCall
<1>5. call'[s] = c
  BY <1>1, <1>2, <1>3 DEF RecoverObjects, TypeOK
<1>6. StateAt(r, Len(r)) = reconcile(s)
  BY <1>1, <1>2, RecoveredIsFound
<1> QED
  BY <1>1, <1>4, <1>5, <1>6 DEF FollowInv, Live

\* The handle is what the recovery found, which its log says.
LEMMA FollowRecovered ==
    ASSUME LogInv, TypeOK', NEW s \in Sessions, FollowInv(s), RecoverLog(s)
    PROVE  FollowInv(s)'
<1>1. TypeOK /\ ~stopped' /\ call[s].pc = "recover"
  BY DEF LogInv, RecoverLog
<1>2. PICK r : r = call[s].recs OBVIOUS
<1>3. PICK v : v = call[s].view OBVIOUS
<1>4. StateAt(r, Len(r)) = v /\ v \in States
  BY <1>1, <1>2, <1>3, SessionTypes DEF FollowInv, Calls
<1>5. log'[s] = r /\ handle'[s] = HandleOf(v, FALSE) /\ call'[s].pc = "idle"
  BY <1>1, <1>2, <1>3 DEF RecoverLog, TypeOK, NoCall
<1>6. Accepted(s)' = Len(r)
  <2>1. Accepted(s)' = Len(r) - 0
    BY <1>5 DEF Accepted
  <2>2. Len(r) \in Nat
    BY <1>1, <1>2, SessionTypes
  <2> QED
    BY <2>1, <2>2
<1>7. StateOf(handle'[s]) = v
  BY <1>4, <1>5, HandleSays
<1> QED
  BY <1>1, <1>4, <1>5, <1>6, <1>7 DEF FollowInv

\* What the call's records add is what the call makes of the state.
LEMMA WritesTheState ==
    ASSUME LogInv, NEW s \in Sessions, TreeInv(s), call[s].pc = "log",
           StateAt(log[s], Len(log[s])) = StateOf(handle[s]),
           NEW r, r = log[s] \o call[s].recs
    PROVE  /\ r \in Seq(Records) /\ Len(r) = Len(log[s]) + Len(call[s].recs)
           /\ StateAt(r, Len(log[s])) = StateOf(handle[s])
           /\ StateAt(r, Len(r)) = StateAfter(handle[s], call[s])
           /\ \A m \in DOMAIN r \ DOMAIN log[s] : StateAt(r, m) = StateAfter(handle[s], call[s])
<1>1. PICK l : l = log[s] OBVIOUS
<1>2. PICK c : c = call[s] OBVIOUS
<1>3. PICK q : q = c.recs OBVIOUS
<1>4. PICK h : h = handle[s] OBVIOUS
<1>5. TypeOK /\ SessionInv(s) /\ KindInv(s)
  BY DEF LogInv, TreeInv
<1>6. /\ l \in Seq(Records) /\ q \in Seq(Records) /\ c \in Calls /\ h \in Handles
      /\ Len(l) \in Nat /\ Len(q) \in Nat /\ DOMAIN q = 1..Len(q) /\ DOMAIN l = 1..Len(l)
  BY <1>1, <1>2, <1>3, <1>4, <1>5, SessionTypes
<1>7. /\ q # <<>> /\ \A k \in DOMAIN q : k > 1 => q[k].op = "sync"
      /\ \A k \in DOMAIN q : q[k].op \in {"append", "head", "mark", "sync"}
      /\ \A k \in DOMAIN q : q[k].op = "append" => c.kind = "write" /\ q[k].entry = c.entry
      /\ c.kind = "write" => q[1].op = "append" /\ q[1].head = c.head
      /\ c.kind \in {"syncHead", "setHead"} => q[1].op = "head" /\ q[1].head = c.head
      /\ c.kind = "setMark" => q[1].op = "mark" /\ q[1].mark = c.mark
      /\ c.kind \in {"commit", "release"} => q[1].op = "sync"
      /\ c.kind \in {"write", "syncHead", "setHead", "setMark", "commit", "release"}
  BY <1>2, <1>3, <1>5 DEF SessionInv, RecsInv, KindInv
<1>8. 1 \in DOMAIN q /\ Len(q) >= 1
  <2>1. Len(q) # 0
    BY <1>6, <1>7, EmptySeq
  <2> QED
    BY <1>6, <2>1
<1>9. r = l \o q /\ \A k \in DOMAIN q : q[k].op # "lost"
  BY <1>1, <1>2, <1>3, <1>7
<1>10. r \in Seq(Records) /\ Len(r) = Len(l) + Len(q) /\ DOMAIN r = 1..Len(r)
  BY <1>6, <1>9, Grown
<1>11. \A i \in DOMAIN l : r[i] = l[i]
  BY <1>6, <1>9, Grown
<1>12. \A e : \A i \in Nat : Gone(r, e, i) <=> Gone(l, e, i)
  BY <1>6, <1>9, Grown
<1>13. Len(l) <= Len(l) /\ Len(l) <= Len(r) /\ Len(r) \in DOMAIN r /\ Len(r) > Len(l)
  BY <1>6, <1>8, <1>10
<1>14. StateAt(r, Len(l)) = StateAt(l, Len(l))
  <2>1. PICK n : n = Len(l) OBVIOUS
  <2>2. n \in Nat /\ n <= Len(l) /\ n <= Len(r)
    BY <1>6, <1>13, <2>1
  <2>3. \A i \in 1..n : /\ r[i].op = l[i].op /\ r[i].entry = l[i].entry
                        /\ r[i].head = l[i].head /\ r[i].mark = l[i].mark
    BY <1>6, <1>11, <2>1
  <2>4. StateAt(r, n) = StateAt(l, n)
    BY <1>6, <1>10, <1>12, <2>2, <2>3, SameSoFar
  <2> QED
    BY <2>1, <2>4
<1>15. PICK a : a = StateAt(l, Len(l)) OBVIOUS
<1>16. PICK b : b = StateAt(r, Len(r)) OBVIOUS
<1>17. a.own = h.own /\ a.head = h.head /\ a.mark = h.mark
  BY <1>1, <1>4, <1>15 DEF StateOf
<1>18. q[1].op \in {"append", "head", "mark", "sync"}
  BY <1>7, <1>8
<1>19. ASSUME NEW m \in DOMAIN r \ DOMAIN l PROVE StateAt(r, m) = Saying(a, q[1])
  <2>1. OneThing(q)
    BY <1>7, <1>18 DEF OneThing
  <2>2. l \in Seq(Records) /\ q \in Seq(Records) /\ r = l \o q
    BY <1>6, <1>9
  <2>3. StateAt(r, m) = Saying(StateAt(l, Len(l)), q[1])
    BY <2>1, <2>2, SaysMore, Zenon
  <2> QED
    BY <1>15, <2>3
<1>20. b = Saying(a, q[1])
  <2>1. PICK n : n = Len(r) OBVIOUS
  <2>2. n \in DOMAIN r \ DOMAIN l
    BY <1>6, <1>8, <1>10, <2>1
  <2> QED
    BY <1>16, <1>19, <2>1, <2>2
<1>21. b = [own |-> b.own, head |-> b.head, mark |-> b.mark]
  BY <1>16 DEF StateAt
<1>22. PICK x : x = StateAfter(h, c) OBVIOUS
<1>23. x = [own  |-> h.own \cup (IF c.kind = "write" THEN {c.entry} ELSE {}),
            head |-> IF c.kind \in {"syncHead", "setHead"} \/ (c.kind = "write" /\ c.head # None)
                     THEN c.head ELSE h.head,
            mark |-> IF c.kind = "setMark" THEN c.mark ELSE h.mark]
  BY <1>6, <1>22, StateAfterIs
<1>24. b.own = x.own
  BY <1>7, <1>8, <1>17, <1>20, <1>23 DEF Saying
<1>25. b.head = x.head
  BY <1>7, <1>17, <1>20, <1>23 DEF Saying
<1>26. b.mark = x.mark
  BY <1>7, <1>17, <1>20, <1>23 DEF Saying
<1>27. b = x
  <2>1. x = [own |-> x.own, head |-> x.head, mark |-> x.mark]
    BY <1>23
  <2> QED
    BY <1>21, <1>24, <1>25, <1>26, <2>1
<1>28. \A m \in DOMAIN r \ DOMAIN l : StateAt(r, m) = x
  BY <1>19, <1>20, <1>27
<1> QED
  BY <1>1, <1>2, <1>3, <1>4, <1>10, <1>14, <1>16, <1>22, <1>27, <1>28

\* The records are written: a durable call's are not accepted yet, a lazy
\* one's are.
LEMMA FollowWrites ==
    ASSUME LogInv, ReadInv, TypeOK', NEW s \in Sessions, FollowInv(s), TreeInv(s), LogWrite(s)
    PROVE  FollowInv(s)'
<1>1. TypeOK /\ SessionInv(s) /\ WroteInv /\ obj' = obj /\ call[s].pc = "log"
  BY DEF LogInv, LogWrite
<1>2. PICK l : l = log[s] OBVIOUS
<1>3. PICK c : c = call[s] OBVIOUS
<1>4. PICK q : q = c.recs OBVIOUS
<1>5. PICK r : r = l \o q OBVIOUS
<1>6. PICK h : h = handle[s] OBVIOUS
<1>7. log'[s] = r
  BY <1>1, <1>2, <1>3, <1>4, <1>5 DEF LogWrite, TypeOK
<1>8. /\ l \in Seq(Records) /\ q \in Seq(Records) /\ c \in Calls /\ h \in Handles
      /\ Len(l) \in Nat /\ Len(q) \in Nat
  BY <1>1, <1>2, <1>3, <1>4, <1>6, SessionTypes
<1>9. Live(s)
  BY <1>1 DEF SessionInv, CallInv, Live, Idle
<1>10. StateAt(l, Len(l)) = StateOf(h)
  <2>1. Accepted(s) = Len(l)
    BY <1>1, <1>2, AcceptedIs
  <2> QED
    BY <1>2, <1>6, <1>9, <2>1 DEF FollowInv
<1>11. /\ r \in Seq(Records) /\ Len(r) = Len(l) + Len(q)
       /\ StateAt(r, Len(l)) = StateOf(h) /\ StateAt(r, Len(r)) = StateAfter(h, c)
  BY <1>1, <1>2, <1>3, <1>4, <1>5, <1>6, <1>10, WritesTheState
<1>12. CASE c.durable
  <2>1. PICK d : d = [c EXCEPT !.pc = "fsync"] OBVIOUS
  <2>2. d.pc = "fsync" /\ d.recs = q /\ d.kind = c.kind /\ d.entry = c.entry /\ d.head = c.head
        /\ d.mark = c.mark /\ d \in Calls
    BY <1>4, <1>8, <2>1, NextStepType DEF Calls
  <2>3. call'[s] = d /\ handle'[s] = h
    BY <1>1, <1>3, <1>6, <1>12, <2>1 DEF LogWrite, TypeOK
  <2>4. Accepted(s)' = Len(l)
    <3>1. Accepted(s)' = Len(r) - Len(q)
      BY <1>7, <2>2, <2>3 DEF Accepted
    <3> QED
      BY <1>8, <1>11, <3>1
  <2>5. StateAfter(h, d) = StateAfter(h, c)
    <3>1. PICK x : x = StateAfter(h, c) OBVIOUS
    <3>2. PICK y : y = StateAfter(h, d) OBVIOUS
    <3>3. x = [own  |-> h.own \cup (IF c.kind = "write" THEN {c.entry} ELSE {}),
               head |-> IF c.kind \in {"syncHead", "setHead"} \/ (c.kind = "write" /\ c.head # None)
                        THEN c.head ELSE h.head,
               mark |-> IF c.kind = "setMark" THEN c.mark ELSE h.mark]
      BY <1>8, <3>1, StateAfterIs
    <3>4. y = [own  |-> h.own \cup (IF d.kind = "write" THEN {d.entry} ELSE {}),
               head |-> IF d.kind \in {"syncHead", "setHead"} \/ (d.kind = "write" /\ d.head # None)
                        THEN d.head ELSE h.head,
               mark |-> IF d.kind = "setMark" THEN d.mark ELSE h.mark]
      BY <1>8, <2>2, <3>2, StateAfterIs
    <3> QED
      BY <2>2, <3>1, <3>2, <3>3, <3>4
  <2> QED
    BY <1>7, <1>11, <2>2, <2>3, <2>4, <2>5 DEF FollowInv, Idle
<1>13. CASE ~c.durable
  <2>1. c.kind = "write" /\ c.entry \in Entries
    BY <1>1, <1>3, <1>8, <1>13 DEF SessionInv, RecsInv, Calls
  <2>2. handle'[s] = After(h, c) /\ call'[s].pc = "idle"
    BY <1>1, <1>3, <1>6, <1>13, <2>1 DEF LogWrite, Complete, TypeOK, NoCall
  <2>3. StateOf(handle'[s]) = StateAfter(h, c)
    BY <2>1, <2>2 DEF StateAfter
  <2>4. Accepted(s)' = Len(r)
    <3>1. Accepted(s)' = Len(r) - 0
      BY <1>7, <2>2 DEF Accepted
    <3> QED
      BY <1>8, <1>11, <3>1
  <2>5. AllFound(r, obj)
    <3>1. \A k \in DOMAIN q : q[k].op = "append" /\ q[k].entry = c.entry
      BY <1>1, <1>3, <1>4, <1>13 DEF SessionInv, RecsInv
    <3>2. Present(obj, c.entry)
      <4>1. \A o \in Names[c.entry] : obj[o] = "disk" \/ o \in h.pend
        BY <1>1, <1>3, <1>6, <2>1 DEF SessionInv, RecsInv
      <4>2. h.pend \subseteq wrote
        BY <1>1, <1>6 DEF WroteInv
      <4> QED
        BY <4>1, <4>2 DEF Present, ReadInv
    <3>3. AllFound(l, obj)
      BY <1>2, <1>9, LiveIsFound
    <3>4. \A k \in DOMAIN q : q[k].op # "lost"
      BY <3>1
    <3>5. \A i \in DOMAIN l : i \in DOMAIN r /\ r[i] = l[i]
      BY <1>5, <1>8, <3>4, Grown
    <3>6. \A i \in DOMAIN r \ DOMAIN l : i - Len(l) \in DOMAIN q /\ r[i] = q[i - Len(l)]
      BY <1>5, <1>8, <3>4, Grown
    <3>7. \A e : \A i \in Nat : Gone(r, e, i) <=> Gone(l, e, i)
      BY <1>5, <1>8, <3>4, Grown
    <3>8. \A i \in DOMAIN l : Covered(l, i) => Covered(r, i)
      BY <1>5, <1>8, <3>4, Grown
    <3>9. \A i \in DOMAIN l : i \in Nat /\ (Pending(r, i) => Pending(l, i))
      BY <1>8, <3>5, <3>7, <3>8, LogIndices DEF Pending
    <3>10. ASSUME NEW i \in DOMAIN l
           PROVE  r[i].op # "zero" /\ (Pending(r, i) => Present(obj, r[i].entry))
      BY <3>3, <3>5, <3>9 DEF AllFound
    <3>11. ASSUME NEW i \in DOMAIN r \ DOMAIN l
           PROVE  r[i].op # "zero" /\ Present(obj, r[i].entry)
      BY <3>1, <3>2, <3>6
    <3> QED
      BY <3>10, <3>11 DEF AllFound
  <2>6. reconcile(s)' = StateAt(r, Len(r))
    <3>1. View(r, obj, FALSE) = StateAt(r, Len(r))
      BY <1>11, <2>5, ReadsAll
    <3> QED
      BY <1>1, <1>7, <3>1 DEF reconcile
  <2> QED
    BY <1>7, <1>11, <2>2, <2>3, <2>4, <2>6 DEF FollowInv
<1> QED
  BY <1>12, <1>13

\* The fsync moves bytes: the log says the same, and so does the handle once
\* the call is done.
LEMMA FollowFsync ==
    ASSUME LogInv, TypeOK', NEW s \in Sessions, FollowInv(s), LogFsync(s)
    PROVE  FollowInv(s)'
<1>1. TypeOK /\ ~stopped' /\ call[s].pc = "fsync"
  BY DEF LogInv, LogFsync
<1>2. PICK l : l = log[s] OBVIOUS
<1>3. PICK c : c = call[s] OBVIOUS
<1>4. PICK h : h = handle[s] OBVIOUS
<1>5. PICK r : r = MarkedAs(l, "disk") OBVIOUS
<1>6. l \in Seq(Records) /\ Len(l) \in Nat /\ DOMAIN l = 1..Len(l)
  BY <1>1, <1>2, SessionTypes
<1>7. log'[s] = r /\ handle'[s] = After(h, c)
  BY <1>1, <1>2, <1>3, <1>4, <1>5 DEF LogFsync, Complete, TypeOK
<1>8. call'[s].pc \in {"idle", "prepare"}
  BY <1>1, Completed DEF LogFsync
<1>9. CASE c.kind = "release"
  <2>1. ~handle'[s].held
    BY <1>7, <1>9 DEF After, NoHandle
  <2> QED
    BY <1>8, <2>1, FollowLetGo
<1>10. CASE c.kind # "release"
  <2>1. StateOf(handle'[s]) = StateAfter(h, c)
    BY <1>7, <1>10 DEF StateAfter
  <2>2. StateAt(l, Len(l)) = StateAfter(h, c)
    BY <1>1, <1>2, <1>3, <1>4 DEF FollowInv
  <2>3. r \in Seq(Records) /\ Len(r) = Len(l)
    BY <1>5, <1>6, MarkedAsType
  <2>4. \A i \in 1..Len(l) : /\ r[i].op = l[i].op /\ r[i].entry = l[i].entry
                             /\ r[i].head = l[i].head /\ r[i].mark = l[i].mark
    BY <1>5, <1>6, MarkedShrinks
  <2>5. \A e : \A i \in Nat : Gone(r, e, i) <=> Gone(l, e, i)
    BY <1>5, <1>6, MarkedShrinks
  <2>6. Len(l) <= Len(l) /\ Len(l) <= Len(r)
    BY <1>6, <2>3
  <2>7. StateAt(r, Len(l)) = StateAt(l, Len(l))
    BY <1>6, <2>3, <2>4, <2>5, <2>6, SameSoFar
  <2>8. Accepted(s)' = Len(l)
    <3>1. Accepted(s)' = Len(r) - 0
      BY <1>7, <1>8 DEF Accepted
    <3> QED
      BY <1>6, <2>3, <3>1
  <2> QED
    BY <1>1, <1>7, <1>8, <2>1, <2>2, <2>7, <2>8 DEF FollowInv
<1> QED
  BY <1>9, <1>10

\* A call whose fsync failed still has its handle as the accepted records say.
LEMMA FollowFsyncFails ==
    ASSUME LogInv, TypeOK', NEW s \in Sessions, FollowInv(s), LogFsyncFails(s)
    PROVE  FollowInv(s)'
<1>1. TypeOK /\ SessionInv(s) /\ call[s].pc = "fsync" /\ handle' = handle
  BY DEF LogInv, LogFsyncFails
<1>2. PICK l : l = log[s] OBVIOUS
<1>3. PICK c : c = call[s] OBVIOUS
<1>4. PICK r : r = log'[s] OBVIOUS
<1>5. PICK m : m = Accepted(s) OBVIOUS
<1>6. /\ l \in Seq(Records) /\ Len(l) \in Nat /\ DOMAIN l = 1..Len(l)
      /\ c \in Calls /\ Len(c.recs) \in Nat
  BY <1>1, <1>2, <1>3, SessionTypes
<1>7. m = Len(l) - Len(c.recs) /\ Len(c.recs) <= Len(l)
  BY <1>1, <1>2, <1>3, <1>5, AcceptedIs DEF SessionInv, CallInv
<1>8. m \in Nat /\ m <= Len(l)
  <2>1. PICK n : n = Len(c.recs) OBVIOUS
  <2>2. PICK k : k = Len(l) OBVIOUS
  <2>3. n \in Nat /\ k \in Nat /\ m = k - n /\ n <= k
    BY <1>6, <1>7, <2>1, <2>2
  <2>4. m \in Nat /\ m <= k
    BY <2>3
  <2> QED
    BY <2>2, <2>4
<1>9. call'[s].pc = "cut" /\ call'[s].recs = c.recs
  <2>1. call'[s] = [c EXCEPT !.pc = "cut"]
    BY <1>1, <1>3 DEF LogFsyncFails, TypeOK
  <2> QED
    BY <1>6, <2>1 DEF Calls
<1>10. r = l \/ r = MarkedAs(l, "lost")
  BY <1>1, <1>2, <1>4 DEF LogFsyncFails, TypeOK
<1>11. Len(r) = Len(l) /\ StateAt(r, m) = StateAt(l, m)
  <2>1. CASE r = MarkedAs(l, "lost")
    <3>1. r \in Seq(Records) /\ Len(r) = Len(l)
      BY <1>6, <2>1, MarkedAsType
    <3>2. \A i \in 1..Len(l) : /\ r[i].op = l[i].op /\ r[i].entry = l[i].entry
                               /\ r[i].head = l[i].head /\ r[i].mark = l[i].mark
      BY <1>6, <2>1, MarkedShrinks
    <3>3. \A e : \A i \in Nat : Gone(r, e, i) <=> Gone(l, e, i)
      BY <1>6, <2>1, MarkedShrinks
    <3>4. \A i \in 1..m : i \in 1..Len(l)
      BY <1>6, <1>8
    <3>5. \A i \in 1..m : /\ r[i].op = l[i].op /\ r[i].entry = l[i].entry
                          /\ r[i].head = l[i].head /\ r[i].mark = l[i].mark
      BY <3>2, <3>4
    <3> QED
      BY <1>6, <1>8, <3>1, <3>3, <3>5, SameSoFar
  <2> QED
    BY <1>10, <2>1
<1>12. Accepted(s)' = m
  <2>1. Accepted(s)' = Len(r) - Len(c.recs)
    BY <1>4, <1>9 DEF Accepted
  <2> QED
    BY <1>7, <1>11, <2>1
<1>13. Live(s)
  BY <1>1 DEF SessionInv, CallInv, Live, Idle
<1> QED
  BY <1>1, <1>2, <1>4, <1>5, <1>9, <1>11, <1>12, <1>13 DEF FollowInv, Idle

\* A step of one session.
StepOf(s) ==
    \/ Open(s) \/ RecoverObjects(s) \/ RecoverLog(s) \/ RecoverFails(s)
    \/ \E x \in Entries \cup {Root} : Branch(s, x) \/ SetHead(s, x)
    \/ \E e \in Entries : Write(s, e)
    \/ Prepare(s) \/ PrepareReturns(s)
    \/ \E mark \in Marks : SetMark(s, mark)
    \/ Commit(s) \/ Release(s)
    \/ Flush(s) \/ FlushFails(s) \/ LogWrite(s) \/ LogWriteFails(s)
    \/ LogFsync(s) \/ LogFsyncFails(s) \/ Cut(s)

\* It leaves the other sessions alone, and a stopped store stopped.
LEMMA StepsAreOf ==
    ASSUME TypeOK, NEW s \in Sessions, StepOf(s)
    PROVE  /\ \A t \in Sessions \ {s} :
                log'[t] = log[t] /\ call'[t] = call[t] /\ handle'[t] = handle[t]
           /\ stopped => stopped' /\ obj' = obj
<1>1. CASE Open(s) \/ RecoverObjects(s) \/ RecoverLog(s) \/ RecoverFails(s)
  BY <1>1 DEF Open, RecoverObjects, RecoverLog, RecoverFails, TypeOK
<1>2. CASE \E x \in Entries \cup {Root} : Branch(s, x) \/ SetHead(s, x)
  BY <1>2 DEF Branch, SetHead, Begin, TypeOK
<1>3. CASE \E e \in Entries : Write(s, e)
  BY <1>3 DEF Write, Begin, TypeOK
<1>4. CASE Prepare(s) \/ PrepareReturns(s)
  BY <1>4 DEF Prepare, PrepareReturns, TypeOK
<1>5. CASE \E mark \in Marks : SetMark(s, mark)
  BY <1>5 DEF SetMark, Begin, TypeOK
<1>6. CASE Commit(s) \/ Release(s)
  BY <1>6 DEF Commit, Release, Begin, TypeOK
<1>7. CASE Flush(s) \/ FlushFails(s) \/ LogWriteFails(s)
  BY <1>7 DEF Flush, FlushFails, LogWriteFails, Drop, TypeOK
<1>8. CASE LogWrite(s) \/ LogFsync(s) \/ LogFsyncFails(s) \/ Cut(s)
  BY <1>8 DEF LogWrite, LogFsync, LogFsyncFails, Cut, Complete, Drop, TypeOK
<1> QED
  BY <1>1, <1>2, <1>3, <1>4, <1>5, <1>6, <1>7, <1>8 DEF StepOf

\* Where a call begins, goes on or ends, the handle stands for the same.
LEMMA FollowCalls ==
    ASSUME LogInv, ReadInv, TypeOK', NEW s \in Sessions, FollowInv(s), ReadStays,
           \/ \E x \in Entries \cup {Root} : SetHead(s, x)
           \/ \E e \in Entries : Write(s, e)
           \/ \E mark \in Marks : SetMark(s, mark)
           \/ Commit(s) \/ Release(s)
           \/ Prepare(s) \/ PrepareReturns(s) \/ LogWriteFails(s) \/ Flush(s) \/ FlushFails(s)
    PROVE  FollowInv(s)'
<1>1. TypeOK /\ SessionInv(s)
  BY DEF LogInv
<1>2. handle[s] \in Handles /\ call[s] \in Calls
  BY <1>1, SessionTypes
<1>3. NoCall.pc = "idle" /\ ~NoHandle.held
  BY DEF NoCall, NoHandle
<1>4. ASSUME HeldIdle(s), ~stopped, NEW c, c.pc \in {"prepare", "flush"}, Begin(s, c),
             UNCHANGED <<log, handle>>
      PROVE  FollowInv(s)'
  <2>1. Live(s) /\ call[s].pc = "idle"
    BY <1>4 DEF HeldIdle, Live, Idle
  <2>2. call'[s].pc \in {"prepare", "flush"}
    BY <1>1, <1>4 DEF Begin, TypeOK
  <2> QED
    BY <1>4, <2>1, <2>2, FollowGoesOn
<1>5. ASSUME call'[s] = NoCall, handle'[s] = NoHandle PROVE FollowInv(s)'
  BY <1>3, <1>5, FollowLetGo
<1>6. CASE \E x \in Entries \cup {Root} : SetHead(s, x)
  <2>1. PICK x \in Entries \cup {Root} : SetHead(s, x)
    BY <1>6
  <2>2. HeadCall(s, "setHead", x, None).pc = "flush"
    BY DEF HeadCall, NoCall
  <2> QED
    BY <1>4, <2>1, <2>2 DEF SetHead
<1>7. CASE \E e \in Entries : Write(s, e)
  <2>1. PICK e \in Entries : Write(s, e)
    BY <1>7
  <2>2. HeadCall(s, "syncHead", handle[s].leaf, e).pc = "flush"
    BY DEF HeadCall, NoCall
  <2>3. PICK c : c = [NoCall EXCEPT !.pc = "prepare", !.kind = "write", !.entry = e]
    OBVIOUS
  <2>4. c.pc = "prepare"
    BY <2>3 DEF NoCall
  <2>5. HeldIdle(s) /\ ~stopped /\ UNCHANGED <<log, handle>>
    BY <2>1 DEF Write
  <2>6. Begin(s, c) \/ Begin(s, HeadCall(s, "syncHead", handle[s].leaf, e))
    BY <2>1, <2>3 DEF Write
  <2> QED
    BY <1>4, <2>2, <2>4, <2>5, <2>6
<1>8. CASE \E mark \in Marks : SetMark(s, mark)
  <2>1. PICK mark \in Marks : SetMark(s, mark)
    BY <1>8
  <2>2. PICK c : c = [NoCall EXCEPT !.pc = "flush", !.kind = "setMark", !.durable = TRUE,
                                   !.mark = mark, !.recs = withSync(s, <<MarkRec(mark)>>)]
    OBVIOUS
  <2>3. c.pc = "flush"
    BY <2>2 DEF NoCall
  <2>4. HeldIdle(s) /\ ~stopped /\ UNCHANGED <<log, handle>> /\ Begin(s, c)
    BY <2>1, <2>2 DEF SetMark
  <2> QED
    BY <1>4, <2>3, <2>4
<1>9. CommitCall("commit").pc = "flush" /\ CommitCall("release").pc = "flush"
  BY DEF CommitCall, NoCall
<1>10. CASE Commit(s)
  <2>1. CASE Begin(s, CommitCall("commit")) /\ ~stopped
    BY <1>4, <1>9, <1>10, <2>1 DEF Commit
  <2>2. CASE UNCHANGED call
    <3>1. UNCHANGED <<log, obj, stopped, handle, call>>
      BY <1>10, <2>2 DEF Commit
    <3> QED
      BY <3>1, FollowStays
  <2> QED
    BY <1>10, <2>1, <2>2 DEF Commit
<1>11. CASE Release(s)
  <2>1. CASE Begin(s, CommitCall("release")) /\ ~stopped /\ UNCHANGED handle
    BY <1>4, <1>9, <1>11, <2>1 DEF Release
  <2>2. CASE handle' = [handle EXCEPT ![s] = NoHandle] /\ UNCHANGED call
    <3>1. handle'[s] = NoHandle /\ call'[s].pc = "idle"
      BY <1>1, <1>11, <2>2 DEF Release, HeldIdle, Idle, TypeOK
    <3> QED
      BY <1>3, <3>1, FollowLetGo
  <2> QED
    BY <1>11, <2>1, <2>2 DEF Release
<1>12. CASE Prepare(s)
  <2>1. call[s].pc = "prepare" /\ log' = log
    BY <1>12 DEF Prepare
  <2>2. Live(s)
    BY <1>1, <2>1 DEF SessionInv, CallInv, Live, Idle
  <2>3. StateOf(handle'[s]) = StateOf(handle[s])
    BY <1>1, <1>2, <1>12 DEF Prepare, TypeOK, Handles, StateOf
  <2>4. call'[s].pc \in {"flush", "log"}
    <3>1. PICK durable \in BOOLEAN : call' = [call EXCEPT ![s] = WriteCall(s, call[s].entry, durable)]
      BY <1>12 DEF Prepare
    <3>2. WriteCall(s, call[s].entry, durable).pc \in {"flush", "log"}
      BY DEF WriteCall, NoCall
    <3> QED
      BY <1>1, <3>1, <3>2 DEF TypeOK
  <2> QED
    BY <2>1, <2>2, <2>3, <2>4, FollowGoesOn
<1>13. CASE PrepareReturns(s)
  <2>1. call[s].pc = "prepare" /\ UNCHANGED <<log, handle>> /\ call'[s] = NoCall
    BY <1>1, <1>13 DEF PrepareReturns, TypeOK
  <2>2. Live(s)
    BY <1>1, <2>1 DEF SessionInv, CallInv, Live, Idle
  <2> QED
    BY <1>3, <2>1, <2>2, FollowGoesOn
<1>14. CASE LogWriteFails(s)
  <2>1. CASE Drop(s)
    BY <1>1, <1>5, <2>1 DEF Drop, TypeOK
  <2>2. CASE call' = [call EXCEPT ![s] = NoCall] /\ UNCHANGED handle
    <3>1. call[s].pc = "log" /\ log' = log /\ call'[s] = NoCall
      BY <1>1, <1>14, <2>2 DEF LogWriteFails, TypeOK
    <3>2. Live(s)
      BY <1>1, <3>1 DEF SessionInv, CallInv, Live, Idle
    <3> QED
      BY <1>3, <2>2, <3>1, <3>2, FollowGoesOn
  <2> QED
    BY <1>14, <2>1, <2>2 DEF LogWriteFails
<1>15. CASE Flush(s)
  <2>1. CASE stopped
    BY <1>1, <1>5, <1>15, <2>1 DEF Flush, Drop, TypeOK
  <2>2. CASE ~stopped
    <3>1. call[s].pc = "flush" /\ log' = log
      BY <1>15 DEF Flush
    <3>2. Live(s)
      BY <1>1, <3>1 DEF SessionInv, CallInv, Live, Idle
    <3>3. StateOf(handle'[s]) = StateOf(handle[s])
      BY <1>1, <1>2, <1>15, <2>2 DEF Flush, TypeOK, Handles, StateOf
    <3>4. call'[s].pc = "log"
      BY <1>1, <1>2, <1>15, <2>2 DEF Flush, TypeOK, Calls
    <3> QED
      BY <3>1, <3>2, <3>3, <3>4, FollowGoesOn
  <2> QED
    BY <2>1, <2>2
<1>16. CASE FlushFails(s)
  BY <1>1, <1>5, <1>16 DEF FlushFails, Drop, TypeOK
<1> QED
  BY <1>6, <1>7, <1>8, <1>10, <1>11, <1>12, <1>13, <1>14, <1>15, <1>16

\* Every handle goes on following its log.
LEMMA FollowNext ==
    ASSUME DirectoryInv, TypeOK', [Next]_vars
    PROVE  \A s \in Sessions : FollowInv(s)'
<1>1. LogInv /\ ReadInv /\ TypeOK
  BY DEF DirectoryInv, LogInv
<1>2. \A s \in Sessions : TreeInv(s) /\ TailInv(s) /\ FollowInv(s) /\ SessionInv(s)
  BY DEF DirectoryInv, LogInv
<1>3. NoCall.pc = "idle" /\ ~NoHandle.held
  BY DEF NoCall, NoHandle
<1>4. ASSUME NEW t \in Sessions, Kill \/ PowerLoss PROVE FollowInv(t)'
  <2>1. handle'[t] = NoHandle /\ call'[t] = NoCall
    BY <1>4 DEF Kill, PowerLoss, ProcessGone
  <2> QED
    BY <1>3, <2>1, FollowLetGo
<1>5. ASSUME NEW t \in Sessions, UNCHANGED vars PROVE FollowInv(t)'
  <2>1. UNCHANGED <<log, obj, stopped, handle, call>> /\ ReadStays
    BY <1>5 DEF vars, ReadStays
  <2> QED
    BY <1>1, <1>2, <2>1, FollowStays
<1>6. ASSUME NEW s \in Sessions, StepOf(s), ~PowerLoss, NEW t \in Sessions PROVE FollowInv(t)'
  <2>1. ReadStays
    BY <1>1, <1>6, ReadNext DEF Next, StepOf
  <2>2. CASE t # s
    <3>1. /\ log'[t] = log[t] /\ call'[t] = call[t] /\ handle'[t] = handle[t]
          /\ stopped => stopped' /\ obj' = obj
      BY <1>1, <1>6, <2>2, StepsAreOf
    <3> QED
      BY <1>1, <1>2, <2>1, <3>1, FollowStays
  <2>3. CASE t = s
    <3>1. CASE Open(s)
      BY <1>1, <1>2, <2>3, <3>1, FollowOpens
    <3>2. CASE RecoverObjects(s)
      BY <1>1, <1>2, <2>3, <3>2, FollowRecovers
    <3>3. CASE RecoverLog(s)
      BY <1>1, <1>2, <2>3, <3>3, FollowRecovered
    <3>4. CASE RecoverFails(s)
      <4>1. call[s].pc = "recover" /\ handle' = handle /\ call'[s] = NoCall
        BY <1>1, <3>4 DEF RecoverFails, TypeOK
      <4>2. ~handle'[s].held
        BY <1>2, <4>1 DEF SessionInv, CallInv
      <4> QED
        BY <1>3, <2>3, <4>1, <4>2, FollowLetGo
    <3>5. ASSUME NEW x \in Entries \cup {Root}, Branch(s, x) PROVE FollowInv(s)'
      <4>1. UNCHANGED <<log, obj, stopped, call>>
        BY <3>5 DEF Branch
      <4>2. handle'[s].held = handle[s].held /\ StateOf(handle'[s]) = StateOf(handle[s])
        <5>1. handle[s] \in Handles /\ handle'[s] = [handle[s] EXCEPT !.leaf = x]
          BY <1>1, <3>5 DEF Branch, TypeOK
        <5> QED
          BY <5>1 DEF Handles, StateOf
      <4> QED
        BY <1>1, <1>2, <2>1, <4>1, <4>2, FollowStays
    <3>6. CASE \/ \E x \in Entries \cup {Root} : SetHead(s, x)
               \/ \E e \in Entries : Write(s, e)
               \/ \E mark \in Marks : SetMark(s, mark)
               \/ Commit(s) \/ Release(s)
               \/ Prepare(s) \/ PrepareReturns(s) \/ LogWriteFails(s) \/ Flush(s) \/ FlushFails(s)
      BY <1>1, <1>2, <2>1, <2>3, <3>6, FollowCalls
    <3>7. CASE LogWrite(s)
      BY <1>1, <1>2, <2>3, <3>7, FollowWrites
    <3>8. CASE LogFsync(s)
      BY <1>1, <1>2, <2>3, <3>8, FollowFsync
    <3>9. CASE LogFsyncFails(s)
      BY <1>1, <1>2, <2>3, <3>9, FollowFsyncFails
    <3>10. CASE Cut(s)
      <4>1. handle'[s] = NoHandle /\ call'[s] = NoCall
        BY <1>1, <3>10 DEF Cut, Drop, TypeOK
      <4> QED
        BY <1>3, <2>3, <4>1, FollowLetGo
    <3> QED
      BY <1>6, <2>3, <3>1, <3>2, <3>3, <3>4, <3>5, <3>6, <3>7, <3>8, <3>9, <3>10 DEF StepOf
  <2> QED
    BY <2>2, <2>3
<1>7. Next => Kill \/ PowerLoss \/ \E s \in Sessions : StepOf(s)
  BY DEF Next, StepOf
<1> QED
  BY <1>4, <1>5, <1>6, <1>7

\* At first every log is its session's mark, and no handle is held.
LEMMA DirectoryInit == Init => DirectoryInv
<1> SUFFICES ASSUME Init PROVE DirectoryInv
  OBVIOUS
<1>1. LogInv
  BY LogInit
<1>2. ASSUME NEW s \in Sessions PROVE TreeInv(s) /\ TailInv(s) /\ FollowInv(s)
  <2>1. MarkRec("record").op = "mark" /\ MarkRec("record") \in Records
    BY RecordTypes DEF MarkRec, Rec, Marks
  <2>2. PICK q : q = <<MarkRec("record")>> OBVIOUS
  <2>3. PICK l : l = OnDisk(q) OBVIOUS
  <2>4. \A i \in DOMAIN l : l[i].op = "mark"
    <3>1. q \in Seq(Records) /\ \A i \in DOMAIN q : q[i].op = "mark" /\ q[i] \in Records
      BY <2>1, <2>2
    <3> QED
      BY <2>3, <3>1 DEF OnDisk, Records
  <2>5. TreeIn(l)
    BY <2>4 DEF TreeIn, Standing, Moves
  <2>6. log[s] = l /\ call[s].pc = "idle" /\ ~handle[s].held
    BY <2>2, <2>3 DEF Init, NoCall, NoHandle
  <2>7. TailInv(s)
    BY <2>4, <2>6 DEF TailInv, Pending
  <2>8. FollowInv(s)
    BY <2>6 DEF FollowInv, Live
  <2> QED
    BY <2>5, <2>6, <2>7, <2>8 DEF TreeInv, RestInv, KindInv
<1>3. ReadInv
  BY DEF Init, ReadInv
<1> QED
  BY <1>1, <1>2, <1>3 DEF DirectoryInv

\* Every step keeps DirectoryInv.
LEMMA DirectoryNext ==
    ASSUME NoPhantomLeft, DirectoryInv, [Next]_vars
    PROVE  DirectoryInv'
<1>1. LogInv /\ ReadInv /\ TypeOK
  BY DEF DirectoryInv, LogInv
<1>2. LogInv'
  BY <1>1, LogNext
<1>3. TypeOK'
  BY <1>2 DEF LogInv
<1>4. \A s \in Sessions : TreeInv(s)'
  BY <1>1, <1>3, TreeNext DEF DirectoryInv
<1>5. \A s \in Sessions : TailInv(s)'
  BY <1>1, <1>3, TailNext DEF DirectoryInv
<1>6. \A s \in Sessions : FollowInv(s)'
  BY <1>3, FollowNext
<1>7. ReadInv'
  BY <1>1, ReadNext
<1> QED
  BY <1>2, <1>4, <1>5, <1>6, <1>7 DEF DirectoryInv

\* The log, the objects and the handles keep their invariant.
THEOREM DirectoryInvariant ==
    ASSUME NoPhantomLeft
    PROVE  Spec => []DirectoryInv
<1>1. DirectoryInv /\ [Next]_vars => DirectoryInv'
  BY DirectoryNext
<1> QED
  BY DirectoryInit, <1>1, PTL DEF Spec

\* After any crash a recovery finds a session, and in it every entry that was
\* acknowledged as committed (recoverSession, reconcile).
THEOREM CrashesSurvived ==
    ASSUME NoPhantomLeft
    PROVE  Spec => []SurvivesCrashes
<1>1. DirectoryInv => RecoversASession
  BY FoundIsASession DEF DirectoryInv, LogInv, RecoversASession
<1>2. Spec => []AckedSurvive
  BY AcknowledgedSurvive
<1> QED
  BY <1>1, <1>2, DirectoryInvariant, PTL DEF SurvivesCrashes

\* Between calls the handle says what the log says (appendRecords, openHeld).
THEOREM HandleFollows ==
    ASSUME NoPhantomLeft
    PROVE  Spec => []HandleFollowsLog
<1>1. DirectoryInv => HandleFollowsLog
  <2> SUFFICES ASSUME DirectoryInv, NEW s \in Sessions, HeldIdle(s)
               PROVE  StateOf(handle[s]) = reconcile(s)
    BY DEF HandleFollowsLog
  <2>1. LogInv /\ ReadInv /\ TypeOK /\ FollowInv(s)
    BY DEF DirectoryInv, LogInv
  <2>2. CASE stopped
    BY <2>1, <2>2 DEF FollowInv, HeldIdle
  <2>3. CASE ~stopped
    <3>1. Live(s) /\ call[s].pc = "idle" /\ log[s] \in Seq(Records)
      BY <2>1, <2>3, SessionTypes DEF HeldIdle, Live, Idle
    <3>2. Accepted(s) = Len(log[s])
      BY <2>1, <3>1, AcceptedIs
    <3>3. View(log[s], obj, FALSE) = StateAt(log[s], Len(log[s]))
      BY <2>1, <3>1, LiveIsFound, ReadsAll
    <3> QED
      BY <2>1, <3>1, <3>2, <3>3 DEF FollowInv, reconcile
  <2> QED
    BY <2>2, <2>3
<1> QED
  BY <1>1, DirectoryInvariant, PTL

-----------------------------------------------------------------------------
(* What was served survives.                                               *)

\* A step keeps the accepted records that are on disk, and what they say is
\* lost.
KeepsDisk(s) ==
    /\ \A i \in DOMAIN log[s] : i <= Accepted(s) /\ log[s][i].st = "disk" =>
         i \in DOMAIN log'[s] /\ i <= Accepted(s)' /\ log'[s][i] = log[s][i]
    /\ \A e : \A i \in Nat : Gone(log'[s], e, i) <=> Gone(log[s], e, i)

\* Then what is firm stays firm.
LEMMA FirmStays ==
    ASSUME TypeOK, NEW s \in Sessions, StoredInv(s), DiskStays, KeepsDisk(s),
           NEW e, FirmAt(s, e)
    PROVE  FirmAt(s, e)'
<1>1. PICK l : l = log[s] OBVIOUS
<1>2. PICK r : r = log'[s] OBVIOUS
<1>3. /\ l \in Seq(Records) /\ Len(l) \in Nat /\ DOMAIN l = 1..Len(l)
      /\ \A i \in DOMAIN l : i \in Nat /\ (l[i].op = "append" => l[i].entry \in Entries)
  BY <1>1, SessionTypes, LogIndices, EntriesOfRecords
<1>4. \A x : \A i \in Nat : Gone(r, x, i) <=> Gone(l, x, i)
  BY <1>1, <1>2 DEF KeepsDisk
<1>5. \A i \in DOMAIN l : i <= Accepted(s) /\ l[i].st = "disk" =>
         i \in DOMAIN r /\ i <= Accepted(s)' /\ r[i] = l[i]
  BY <1>1, <1>2 DEF KeepsDisk
<1>6. PICK i \in DOMAIN l : AppendAt(l, e, i) /\ i <= Accepted(s) /\ Firm(s, i)
  BY <1>1 DEF FirmAt
<1>7. \A j \in 1..i : j \in DOMAIN l /\ j \in Nat /\ j <= Accepted(s) /\ l[j].st = "disk"
  <2>1. Accepted(s) \in Int
    BY AcceptedIs
  <2> QED
    BY <1>1, <1>3, <1>6, <2>1 DEF Firm
<1>8. \A j \in 1..i : j \in DOMAIN r /\ r[j] = l[j]
  BY <1>5, <1>7
<1>9. i \in DOMAIN r /\ i <= Accepted(s)' /\ AppendAt(r, e, i)
  <2>1. i \in 1..i /\ i \in Nat
    BY <1>3
  <2> QED
    BY <1>4, <1>5, <1>6, <1>7, <1>8, <2>1 DEF AppendAt
<1>10. ASSUME NEW j \in 1..i
       PROVE  /\ r[j].st = "disk" /\ r[j].op # "zero"
              /\ Pending(r, j) => AllOnDisk(r[j].entry)'
  <2>1. r[j] = l[j] /\ j \in DOMAIN l /\ j \in Nat
    BY <1>7, <1>8
  <2>2. l[j].st = "disk" /\ l[j].op # "zero" /\ (Pending(l, j) => AllOnDisk(l[j].entry))
    BY <1>1, <1>6 DEF Firm
  <2>3. Pending(r, j) => l[j].op = "append" /\ ~Gone(l, l[j].entry, j)
    BY <1>4, <2>1 DEF Pending
  <2>4. Pending(r, j) => AllOnDisk(l[j].entry)
    BY <1>1, <2>1, <2>2, <2>3 DEF StoredInv
  <2>5. Pending(r, j) => AllOnDisk(l[j].entry)'
    BY <1>3, <2>1, <2>3, <2>4, DiskStaysFor
  <2> QED
    BY <2>1, <2>2, <2>5
<1>11. Firm(s, i)'
  BY <1>2, <1>10 DEF Firm
<1> QED
  BY <1>2, <1>9, <1>11 DEF FirmAt

\* What is firm is found.
LEMMA FirmIsFound ==
    ASSUME NEW s \in Sessions, NEW e, FirmAt(s, e)
    PROVE  e \in EntriesOf(log[s], obj, FALSE)
<1>1. PICK i \in DOMAIN log[s] : AppendAt(log[s], e, i) /\ Firm(s, i)
  BY DEF FirmAt
<1>2. KeptAt(log[s], obj, FALSE, i) /\ log[s][i].entry = e
  BY <1>1, FirmIsReached DEF KeptAt, AppendAt
<1> QED
  BY <1>2 DEF EntriesOf

\* Where no working state is found, all that is found is firm.
LEMMA FoundIsFirm ==
    ASSUME NoDoubtLeft, TypeOK, NEW s \in Sessions, SessionInv(s), Accepted(s) = Len(log[s]),
           Adopt(log[s], obj) = {}, NEW e \in EntriesOf(log[s], obj, FALSE)
    PROVE  FirmAt(s, e)
<1>1. PICK l : l = log[s] OBVIOUS
<1>2. /\ l \in Seq(Records) /\ Len(l) \in Nat /\ DOMAIN l = 1..Len(l)
      /\ \A i \in DOMAIN l : i \in Nat
  BY <1>1, SessionTypes, LogIndices
<1>3. PICK i \in DOMAIN l : KeptAt(l, obj, FALSE, i) /\ l[i].entry = e
  BY <1>1 DEF EntriesOf
<1>4. AppendAt(l, e, i) /\ i <= Len(l)
  BY <1>2, <1>3 DEF KeptAt, AppendAt
<1>5. ASSUME NEW j \in 1..i
      PROVE  l[j].st = "disk" /\ l[j].op # "zero" /\ ~Pending(l, j)
  <2>1. j \in DOMAIN l /\ j \in Nat /\ i \in Nat /\ \A k \in 1..j : k \in 1..i
    BY <1>2
  <2>2. l[j].op # "zero" /\ Reached(l, obj, FALSE, j)
    BY <1>3, <2>1 DEF KeptAt, Reached, CutsAt
  <2>3. ~Pending(l, j)
    BY <1>1, <2>1, <2>2 DEF Adopt
  <2>4. ASSUME l[j].st # "disk" PROVE FALSE
    <3>1. j <= Accepted(s)
      BY <1>1, <1>2, <2>1
    <3>2. /\ l[j].op = "append" /\ l[j].lazy
          /\ \A k \in DOMAIN l : j < k /\ k <= Accepted(s) => l[k].op # "sync"
      BY <1>1, <2>1, <2>4, <3>1 DEF SessionInv, PhantomInv
    <3>3. ~Covered(l, j)
      <4>1. \A k \in DOMAIN l : k <= Accepted(s) /\ (k > j => j < k)
        BY <1>1, <1>2, <2>1
      <4> QED
        BY <3>2, <4>1 DEF Covered
    <3>4. \A k \in DOMAIN l : k > j /\ l[k].op = "lost" => j \in 1..k
      BY <1>2, <2>1
    <3>5. ~Gone(l, l[j].entry, j)
      BY <1>1, <2>4, <3>4 DEF SessionInv, LostInv, Gone
    <3> QED
      BY <2>3, <3>2, <3>3, <3>5 DEF Pending
  <2> QED
    BY <2>2, <2>3, <2>4
<1>6. Firm(s, i)
  BY <1>1, <1>5 DEF Firm
<1> QED
  BY <1>1, <1>3, <1>4, <1>6 DEF FirmAt

\* The steps that write no log and open no session.
QuietOf(s) ==
    \/ RecoverFails(s)
    \/ \E x \in Entries \cup {Root} : Branch(s, x) \/ SetHead(s, x)
    \/ \E e \in Entries : Write(s, e)
    \/ Prepare(s) \/ PrepareReturns(s)
    \/ \E mark \in Marks : SetMark(s, mark)
    \/ Release(s) \/ Flush(s) \/ FlushFails(s) \/ LogWriteFails(s)

\* They change no log, nor what was served or is allowed; a handle they leave
\* held has the entries it had.
LEMMA QuietSteps ==
    ASSUME TypeOK, NEW s \in Sessions, QuietOf(s)
    PROVE  /\ UNCHANGED <<log, served, may>>
           /\ call'[s] = call[s] \/ call'[s].pc \notin {"fsync", "cut", "recover"}
           /\ handle'[s].held => /\ handle[s].held /\ handle'[s].own = handle[s].own
                                 /\ handle'[s].lazy = handle[s].lazy
<1>1. NoCall.pc = "idle" /\ ~NoHandle.held
  BY DEF NoCall, NoHandle
<1>2. handle[s] \in Handles /\ call[s] \in Calls
  BY SessionTypes
<1>3. CASE RecoverFails(s)
  BY <1>1, <1>3 DEF RecoverFails, TypeOK
<1>4. ASSUME NEW x \in Entries \cup {Root}, Branch(s, x)
      PROVE  /\ UNCHANGED <<log, served, may, call>>
             /\ handle'[s].held = handle[s].held /\ handle'[s].own = handle[s].own
             /\ handle'[s].lazy = handle[s].lazy
  <2>1. handle'[s] = [handle[s] EXCEPT !.leaf = x]
    BY <1>4 DEF Branch, TypeOK
  <2> QED
    BY <1>2, <1>4, <2>1 DEF Branch, Handles
<1>5. ASSUME NEW c, c.pc \in {"prepare", "flush"}, Begin(s, c)
      PROVE  call'[s].pc \notin {"fsync", "cut", "recover"}
  BY <1>5 DEF Begin, TypeOK
<1>6. ASSUME NEW x \in Entries \cup {Root}, SetHead(s, x)
      PROVE  UNCHANGED <<log, served, may, handle>> /\ call'[s].pc \notin {"fsync", "cut", "recover"}
  <2>1. HeadCall(s, "setHead", x, None).pc = "flush"
    BY DEF HeadCall, NoCall
  <2> QED
    BY <1>5, <1>6, <2>1 DEF SetHead
<1>7. ASSUME NEW e \in Entries, Write(s, e)
      PROVE  UNCHANGED <<log, served, may, handle>> /\ call'[s].pc \notin {"fsync", "cut", "recover"}
  <2>1. HeadCall(s, "syncHead", handle[s].leaf, e).pc = "flush"
    BY DEF HeadCall, NoCall
  <2>2. PICK c : c = [NoCall EXCEPT !.pc = "prepare", !.kind = "write", !.entry = e]
    OBVIOUS
  <2>3. c.pc = "prepare"
    BY <2>2 DEF NoCall
  <2>4. Begin(s, c) \/ Begin(s, HeadCall(s, "syncHead", handle[s].leaf, e))
    BY <1>7, <2>2 DEF Write
  <2>5. UNCHANGED <<log, served, may, handle>>
    BY <1>7 DEF Write
  <2> QED
    BY <1>5, <2>1, <2>3, <2>4, <2>5
<1>8. ASSUME NEW mark \in Marks, SetMark(s, mark)
      PROVE  UNCHANGED <<log, served, may, handle>> /\ call'[s].pc \notin {"fsync", "cut", "recover"}
  <2>1. PICK c : c = [NoCall EXCEPT !.pc = "flush", !.kind = "setMark", !.durable = TRUE,
                                   !.mark = mark, !.recs = withSync(s, <<MarkRec(mark)>>)]
    OBVIOUS
  <2>2. c.pc = "flush"
    BY <2>1 DEF NoCall
  <2>3. Begin(s, c) /\ UNCHANGED <<log, served, may, handle>>
    BY <1>8, <2>1 DEF SetMark
  <2> QED
    BY <1>5, <2>2, <2>3
<1>9. CASE Prepare(s)
  <2>1. PICK durable \in BOOLEAN : call' = [call EXCEPT ![s] = WriteCall(s, call[s].entry, durable)]
    BY <1>9 DEF Prepare
  <2>2. WriteCall(s, call[s].entry, durable).pc \in {"flush", "log"}
    BY DEF WriteCall, NoCall
  <2>3. call'[s].pc \in {"flush", "log"}
    BY <2>1, <2>2 DEF TypeOK
  <2>4. handle'[s].held = handle[s].held /\ handle'[s].own = handle[s].own /\ handle'[s].lazy = handle[s].lazy
    BY <1>2, <1>9 DEF Prepare, TypeOK, Handles
  <2> QED
    BY <1>9, <2>3, <2>4 DEF Prepare
<1>10. CASE PrepareReturns(s)
  BY <1>1, <1>10 DEF PrepareReturns, TypeOK
<1>11. CASE Release(s)
  <2>1. CommitCall("release").pc = "flush"
    BY DEF CommitCall, NoCall
  <2>2. UNCHANGED <<log, served, may>>
    BY <1>11 DEF Release
  <2>3. CASE Begin(s, CommitCall("release")) /\ UNCHANGED handle
    BY <1>5, <2>1, <2>2, <2>3
  <2>4. CASE handle' = [handle EXCEPT ![s] = NoHandle] /\ UNCHANGED call
    BY <1>1, <2>2, <2>4 DEF TypeOK
  <2> QED
    BY <1>11, <2>3, <2>4 DEF Release
<1>12. CASE Flush(s)
  <2>1. CASE stopped
    BY <1>1, <1>12, <2>1 DEF Flush, Drop, TypeOK
  <2>2. CASE ~stopped
    <3>1. call'[s].pc = "log"
      BY <1>2, <1>12, <2>2 DEF Flush, TypeOK, Calls
    <3>2. handle'[s].held = handle[s].held /\ handle'[s].own = handle[s].own /\ handle'[s].lazy = handle[s].lazy
      BY <1>2, <1>12, <2>2 DEF Flush, TypeOK, Handles
    <3> QED
      BY <1>12, <3>1, <3>2 DEF Flush
  <2> QED
    BY <2>1, <2>2
<1>13. CASE FlushFails(s)
  BY <1>1, <1>13 DEF FlushFails, Drop, TypeOK
<1>14. CASE LogWriteFails(s)
  BY <1>1, <1>14 DEF LogWriteFails, Drop, TypeOK
<1> QED
  BY <1>3, <1>4, <1>6, <1>7, <1>8, <1>9, <1>10, <1>11, <1>12, <1>13, <1>14 DEF QuietOf

\* The log stays, and no record of it is in doubt that was not.
LEMMA SameLogKeeps ==
    ASSUME TypeOK, NEW s \in Sessions, log'[s] = log[s],
           call'[s] = call[s] \/ call'[s].pc \notin {"fsync", "cut"}
    PROVE  KeepsDisk(s)
<1>1. Len(log[s]) \in Nat /\ DOMAIN log[s] = 1..Len(log[s])
  BY SessionTypes
<1>2. \A i \in DOMAIN log[s] : i <= Accepted(s) => i <= Accepted(s)'
  <2>1. CASE call'[s] = call[s]
    BY <2>1 DEF Accepted
  <2>2. CASE call'[s].pc \notin {"fsync", "cut"}
    <3>1. Accepted(s)' = Len(log[s]) - 0
      BY <2>2 DEF Accepted
    <3> QED
      BY <1>1, <3>1
  <2> QED
    BY <2>1, <2>2
<1> QED
  BY <1>2 DEF KeepsDisk

\* Writing at the log's end keeps what is before.
LEMMA WrittenKeeps ==
    ASSUME LogInv, NEW s \in Sessions, LogWrite(s)
    PROVE  KeepsDisk(s)
<1>1. TypeOK /\ SessionInv(s)
  BY DEF LogInv
<1>2. PICK l : l = log[s] OBVIOUS
<1>3. PICK c : c = call[s] OBVIOUS
<1>4. PICK q : q = c.recs OBVIOUS
<1>5. PICK r : r = l \o q OBVIOUS
<1>6. c.pc = "log" /\ log'[s] = r
  BY <1>1, <1>2, <1>3, <1>4, <1>5 DEF LogWrite, TypeOK
<1>7. /\ l \in Seq(Records) /\ q \in Seq(Records) /\ Len(l) \in Nat /\ DOMAIN l = 1..Len(l)
      /\ Len(q) \in Nat /\ c \in Calls
  BY <1>1, <1>2, <1>3, <1>4, SessionTypes
<1>8. \A k \in DOMAIN q : q[k].op # "lost"
  BY <1>1, <1>3, <1>4, <1>6 DEF SessionInv, RecsInv
<1>9. \A i \in DOMAIN l : i \in DOMAIN r /\ r[i] = l[i]
  BY <1>5, <1>7, <1>8, Grown
<1>10. \A e : \A i \in Nat : Gone(r, e, i) <=> Gone(l, e, i)
  <2>1. l \in Seq(Records) /\ q \in Seq(Records)
    BY <1>7
  <2> QED
    BY <1>5, <1>8, <2>1, Grown, Zenon
<1>11. Len(r) = Len(l) + Len(q)
  BY <1>5, <1>7, <1>8, Grown
<1>12. \A i \in DOMAIN l : i <= Accepted(s)'
  <2>1. CASE c.durable
    <3>1. call'[s].pc = "fsync" /\ call'[s].recs = q
      BY <1>1, <1>3, <1>4, <1>7, <2>1 DEF LogWrite, TypeOK, Calls
    <3>2. Accepted(s)' = Len(r) - Len(q)
      BY <1>6, <3>1 DEF Accepted
    <3> QED
      BY <1>7, <1>11, <3>2
  <2>2. CASE ~c.durable
    <3>1. call'[s].pc \in {"idle", "prepare"}
      BY <1>1, <1>3, <2>2, Completed DEF LogWrite
    <3>2. Accepted(s)' = Len(r) - 0
      BY <1>6, <3>1 DEF Accepted
    <3> QED
      BY <1>7, <1>11, <3>2
  <2> QED
    BY <2>1, <2>2
<1> QED
  BY <1>2, <1>6, <1>9, <1>10, <1>12 DEF KeepsDisk

\* An fsync, whatever its outcome, keeps what is on disk.
LEMMA FsyncedKeeps ==
    ASSUME LogInv, NEW s \in Sessions, LogFsync(s) \/ LogFsyncFails(s)
    PROVE  KeepsDisk(s)
<1>1. TypeOK /\ SessionInv(s)
  BY DEF LogInv
<1>2. PICK l : l = log[s] OBVIOUS
<1>3. PICK r : r = log'[s] OBVIOUS
<1>4. /\ l \in Seq(Records) /\ Len(l) \in Nat /\ DOMAIN l = 1..Len(l) /\ call[s] \in Calls
  BY <1>1, <1>2, SessionTypes
<1>5. r = l \/ r = MarkedAs(l, "disk") \/ r = MarkedAs(l, "lost")
  BY <1>1, <1>2, <1>3 DEF LogFsync, LogFsyncFails, TypeOK
<1>6. Len(r) = Len(l)
  BY <1>4, <1>5, MarkedAsType
<1>7. \A i \in DOMAIN l : l[i].st = "disk" => i \in DOMAIN r /\ r[i] = l[i]
  BY <1>4, <1>5, MarkedShrinks
<1>8. \A e : \A i \in Nat : Gone(r, e, i) <=> Gone(l, e, i)
  BY <1>4, <1>5, MarkedShrinks
<1>9. \A i \in DOMAIN l : i <= Accepted(s) => i <= Accepted(s)'
  <2>1. CASE LogFsync(s)
    <3>1. call'[s].pc \in {"idle", "prepare"}
      BY <1>1, <2>1, Completed DEF LogFsync
    <3>2. Accepted(s)' = Len(r) - 0
      BY <1>3, <3>1 DEF Accepted
    <3> QED
      BY <1>4, <1>6, <3>2
  <2>2. CASE LogFsyncFails(s)
    <3>1. call[s].pc = "fsync" /\ call'[s].pc = "cut" /\ call'[s].recs = call[s].recs
      BY <1>1, <1>4, <2>2 DEF LogFsyncFails, TypeOK, Calls
    <3>2. Accepted(s)' = Accepted(s)
      BY <1>2, <1>3, <1>6, <3>1 DEF Accepted
    <3> QED
      BY <3>2
  <2> QED
    BY <2>1, <2>2
<1> QED
  BY <1>2, <1>3, <1>7, <1>8, <1>9 DEF KeepsDisk

\* Cutting back, or losing power, keeps the accepted records on disk.
LEMMA CrashedKeeps ==
    ASSUME LogInv, TypeOK', NEW s \in Sessions, Cut(s) \/ PowerLoss
    PROVE  KeepsDisk(s)
<1>1. TypeOK /\ SessionInv(s)
  BY DEF LogInv
<1>2. PICK l : l = log[s] OBVIOUS
<1>3. PICK r : r = log'[s] OBVIOUS
<1>4. Len(l) \in Nat /\ DOMAIN l = 1..Len(l) /\ Accepted(s) \in Int
  BY <1>1, <1>2, SessionTypes, AcceptedIs
<1>5. CASE Cut(s)
  <2>1. DOMAIN r = 1..Accepted(s) /\ Accepted(s)' = Accepted(s) /\ Shrinks(l, r)
    BY <1>1, <1>2, <1>3, <1>5, CutLeaves
  <2>2. \A i \in DOMAIN r : r[i] = l[i]
    BY <1>1, <1>2, <1>3, <1>5, CutLeaves
  <2>3. \A i \in DOMAIN l : i <= Accepted(s) => i \in DOMAIN r
    BY <1>4, <2>1
  <2>4. \A e : \A i \in Nat : Gone(r, e, i) <=> Gone(l, e, i)
    BY <2>1, Shrunk
  <2> QED
    BY <1>2, <1>3, <2>1, <2>2, <2>3, <2>4 DEF KeepsDisk
<1>6. CASE PowerLoss
  <2>1. Shrinks(l, r) /\ Len(r) \in Nat /\ DOMAIN r = 1..Len(r)
    BY <1>1, <1>2, <1>3, <1>6, PowerLossLeaves DEF SessionInv
  <2>2. \A i \in DOMAIN l : l[i].st = "disk" => i \in DOMAIN r /\ r[i] = l[i]
    BY <1>1, <1>2, <1>3, <1>6, PowerLossLeaves DEF SessionInv
  <2>3. \A e : \A i \in Nat : Gone(r, e, i) <=> Gone(l, e, i)
    BY <2>1, Shrunk
  <2>4. \A i \in DOMAIN r : i <= Accepted(s)'
    <3>1. Accepted(s)' = Len(r) - 0
      BY <1>3, <1>6, AllLetGo DEF PowerLoss
    <3> QED
      BY <2>1, <3>1
  <2> QED
    BY <1>2, <1>3, <2>2, <2>3, <2>4 DEF KeepsDisk
<1> QED
  BY <1>5, <1>6

\* What was served stays served, by a handle that goes on or none.
LEMMA ServedStays ==
    ASSUME TypeOK, NEW s \in Sessions, StoredInv(s), ServedInv(s), DiskStays, KeepsDisk(s),
           served'[s] = served[s],
           handle'[s].held => /\ handle[s].held /\ handle'[s].own = handle[s].own
                              /\ handle'[s].lazy = handle[s].lazy,
           call'[s].pc = "recover" => call'[s] = call[s]
    PROVE  ServedInv(s)'
<1>1. \A e : FirmAt(s, e) => FirmAt(s, e)'
  BY FirmStays
<1> QED
  BY <1>1 DEF ServedInv

\* A session opened with no working state holds what is firm.
LEMMA ServedOpens ==
    ASSUME NoDoubtLeft, LogInv, NEW s \in Sessions, ServedInv(s), Open(s)
    PROVE  ServedInv(s)'
<1>1. TypeOK /\ SessionInv(s) /\ UNCHANGED <<log, obj, call, served>> /\ call[s].pc = "idle"
  BY DEF LogInv, Open, Idle
<1>2. \A e : FirmAt(s, e) <=> FirmAt(s, e)'
  BY <1>1 DEF FirmAt, Firm, Accepted, AllOnDisk
<1>3. PICK lazy : lazy = (stopped /\ Adopt(log[s], obj) # {}) OBVIOUS
<1>4. handle'[s] = HandleOf(reconcile(s), lazy)
  BY <1>1, <1>3 DEF Open, TypeOK
<1>5. handle'[s].own = EntriesOf(log[s], obj, FALSE) /\ handle'[s].lazy = lazy
  BY <1>4 DEF HandleOf, reconcile, View
<1>6. ~lazy => Adopt(log[s], obj) = {}
  BY <1>3 DEF Open, MustRewrite
<1>7. Accepted(s) = Len(log[s])
  BY <1>1, AcceptedIs
<1>8. ~lazy => \A e \in handle'[s].own : FirmAt(s, e)
  BY <1>1, <1>5, <1>6, <1>7, FoundIsFirm
<1> QED
  BY <1>1, <1>2, <1>5, <1>8 DEF ServedInv

\* A recovery that begins has found what was served.
LEMMA ServedRecovers ==
    ASSUME LogInv, NEW s \in Sessions, ServedInv(s), RecoverObjects(s), DiskStays
    PROVE  ServedInv(s)'
<1>1. TypeOK /\ SessionInv(s) /\ UNCHANGED <<log, handle, served>>
  BY DEF LogInv, RecoverObjects
<1>2. PICK c : c = [NoCall EXCEPT !.pc = "recover", !.kind = "open", !.view = reconcile(s),
                                  !.recs = Recovered(log[s], obj)]
  OBVIOUS
<1>3. c.pc = "recover" /\ c.view = reconcile(s)
  BY <1>2 DEF NoCall
<1>4. call'[s] = c
  BY <1>1, <1>2 DEF RecoverObjects, TypeOK
<1>5. KeepsDisk(s)
  BY <1>1, <1>3, <1>4, SameLogKeeps
<1>6. \A e : FirmAt(s, e) => FirmAt(s, e)'
  BY <1>1, <1>5, FirmStays DEF SessionInv
<1>7. \A e \in served[s] : e \in reconcile(s).own
  BY FirmIsFound DEF ServedInv, reconcile, View
<1> QED
  BY <1>1, <1>3, <1>4, <1>6, <1>7 DEF ServedInv

\* All of a log that recovery put in place is firm.
LEMMA ServedRecovered ==
    ASSUME LogInv, NEW s \in Sessions, ServedInv(s), RecoverLog(s)
    PROVE  ServedInv(s)'
<1>1. TypeOK /\ SessionInv(s) /\ UNCHANGED <<obj, served>> /\ call[s].pc = "recover"
  BY DEF LogInv, RecoverLog
<1>2. PICK r : r = call[s].recs OBVIOUS
<1>3. PICK v : v = call[s].view OBVIOUS
<1>4. r \in Seq(Records) /\ Len(r) \in Nat /\ DOMAIN r = 1..Len(r)
  BY <1>1, <1>2, SessionTypes
<1>5. log'[s] = r /\ handle'[s] = HandleOf(v, FALSE) /\ call'[s].pc = "idle"
  BY <1>1, <1>2, <1>3 DEF RecoverLog, TypeOK, NoCall
<1>6. handle'[s].own = v.own
  BY <1>5 DEF HandleOf
<1>7. \A i \in DOMAIN r : r[i].st = "disk" /\ r[i].op # "zero" /\ (Pending(r, i) => AllOnDisk(r[i].entry))
  BY <1>1, <1>2 DEF SessionInv, PlanInv, Pending
<1>8. \A i \in DOMAIN r : i <= Accepted(s)'
  <2>1. Accepted(s)' = Len(r) - 0
    BY <1>5 DEF Accepted
  <2> QED
    BY <1>4, <2>1
<1>9. \A i \in DOMAIN r : Firm(s, i)'
  <2>1. \A i \in DOMAIN r : \A j \in 1..i : j \in DOMAIN r
    BY <1>4
  <2> QED
    BY <1>1, <1>5, <1>7, <2>1 DEF Firm, AllOnDisk
<1>10. \A e \in v.own : \E i \in DOMAIN r : AppendAt(r, e, i)
  BY <1>1, <1>2, <1>3 DEF SessionInv, PlanInv
<1>11. \A e \in v.own : FirmAt(s, e)'
  BY <1>5, <1>8, <1>9, <1>10 DEF FirmAt
<1>12. served'[s] \subseteq v.own
  BY <1>1, <1>3 DEF ServedInv
<1> QED
  BY <1>5, <1>6, <1>11, <1>12 DEF ServedInv

\* What is served is what a handle without working state holds.
LEMMA ServedCommits ==
    ASSUME LogInv, NEW s \in Sessions, ServedInv(s), Commit(s), DiskStays
    PROVE  ServedInv(s)'
<1>1. TypeOK /\ SessionInv(s) /\ UNCHANGED <<log, handle>> /\ handle[s].held
  BY DEF LogInv, Commit, HeldIdle
<1>2. call'[s] = call[s] \/ call'[s].pc = "flush"
  <2>1. CommitCall("commit").pc = "flush"
    BY DEF CommitCall, NoCall
  <2> QED
    BY <1>1, <2>1 DEF Commit, Begin, TypeOK
<1>3. \A e : FirmAt(s, e) => FirmAt(s, e)'
  BY <1>1, <1>2, SameLogKeeps, FirmStays DEF SessionInv
<1>4. served'[s] = served[s] \/ (served'[s] = served[s] \cup handle[s].own /\ ~handle[s].lazy)
  BY <1>1 DEF Commit, TypeOK
<1>5. \A e \in served'[s] : FirmAt(s, e)
  BY <1>1, <1>4 DEF ServedInv
<1>6. call'[s].pc # "recover"
  BY <1>1, <1>2 DEF SessionInv, CallInv
<1> QED
  BY <1>1, <1>3, <1>5, <1>6 DEF ServedInv

\* A lazy append makes working state of the handle; a durable one waits for its
\* fsync.
LEMMA ServedWrites ==
    ASSUME LogInv, NEW s \in Sessions, ServedInv(s), LogWrite(s), DiskStays
    PROVE  ServedInv(s)'
<1>1. TypeOK /\ SessionInv(s) /\ call[s].pc = "log"
  BY DEF LogInv, LogWrite
<1>2. KeepsDisk(s)
  BY WrittenKeeps
<1>3. CASE call[s].durable
  <2>1. UNCHANGED <<handle, served>> /\ call'[s].pc = "fsync"
    <3>1. call[s] \in Calls
      BY <1>1, SessionTypes
    <3> QED
      BY <1>1, <1>3, <3>1 DEF LogWrite, TypeOK, Calls
  <2> QED
    BY <1>1, <1>2, <2>1, ServedStays DEF SessionInv
<1>4. CASE ~call[s].durable
  <2>1. call[s].kind = "write" /\ handle[s] \in Handles
    BY <1>1, <1>4, SessionTypes DEF SessionInv, RecsInv
  <2>2. handle'[s] = After(handle[s], call[s]) /\ served'[s] = served[s]
    BY <1>1, <1>4, <2>1 DEF LogWrite, Complete, TypeOK
  <2>3. handle'[s].lazy = TRUE
    BY <1>4, <2>1, <2>2 DEF After, Handles
  <2>4. call'[s].pc \in {"idle", "prepare"}
    BY <1>1, <1>4, Completed DEF LogWrite
  <2>5. \A e : FirmAt(s, e) => FirmAt(s, e)'
    BY <1>1, <1>2, FirmStays DEF SessionInv
  <2> QED
    BY <2>2, <2>3, <2>4, <2>5 DEF ServedInv
<1> QED
  BY <1>3, <1>4

\* What a durable call reports committed is firm, and it is all the handle holds.
LEMMA ServedFsync ==
    ASSUME LogInv, LogInv', NEW s \in Sessions, ServedInv(s), LogFsync(s), DiskStays
    PROVE  ServedInv(s)'
<1>1. /\ TypeOK /\ SessionInv(s) /\ AckedInv(s)' /\ Complete(s) /\ call[s].pc = "fsync"
      /\ call[s].durable
  BY DEF LogInv, SessionInv, LogFsync, CallInv
<1>2. \A e : FirmAt(s, e) => FirmAt(s, e)'
  BY <1>1, FsyncedKeeps, FirmStays DEF SessionInv
<1>3. \A e \in acked'[s] : FirmAt(s, e)'
  BY <1>1 DEF AckedInv
<1>4. PICK new : new = handle[s].own \cup (IF call[s].kind = "write" THEN {call[s].entry} ELSE {})
  OBVIOUS
<1>5. new \subseteq acked'[s]
  BY <1>1, <1>4, Completed
<1>6. handle'[s].held => handle'[s].own = new
  BY <1>1, <1>4, Completed
<1>7. call'[s].pc # "recover"
  BY <1>1, Completed
<1>8. served'[s] \subseteq served[s] \cup new
  <2>1. CASE call[s].kind # "commit"
    BY <1>1, <2>1 DEF Complete, TypeOK
  <2>2. CASE call[s].kind = "commit"
    <3>1. handle[s] \in Handles
      BY <1>1, SessionTypes
    <3>2. PICK x : x = StateAfter(handle[s], call[s]) OBVIOUS
    <3>3. x.own = handle[s].own
      BY <2>2, <3>1, <3>2 DEF StateAfter, After, StateOf, Handles
    <3>4. served'[s] = served[s] \cup x.own
      BY <1>1, <2>2, <3>2 DEF Complete, TypeOK
    <3> QED
      BY <1>4, <3>3, <3>4
  <2> QED
    BY <2>1, <2>2
<1>9. \A e \in served'[s] : FirmAt(s, e)'
  BY <1>2, <1>3, <1>5, <1>8 DEF ServedInv
<1> QED
  BY <1>3, <1>5, <1>6, <1>7, <1>9 DEF ServedInv

-----------------------------------------------------------------------------
(* A recovery finds a state that is allowed.                               *)

\* All of the log is on disk, without a hole, its objects on disk.
AllFirm(s) ==
    \A i \in DOMAIN log[s] :
        /\ log[s][i].st = "disk" /\ log[s][i].op # "zero"
        /\ Pending(log[s], i) => AllOnDisk(log[s][i].entry)

\* Then a crash leaves a reader no other state than the whole log's.
LEMMA AllowedFirm ==
    ASSUME TypeOK', NEW s \in Sessions, AllFirm(s)',
           StateAt(log'[s], Len(log'[s])) \in may'[s]
    PROVE  AllowedInv(s)'
<1>1. PICK l : l = log'[s] OBVIOUS
<1>2. PICK n : n = Len(l) OBVIOUS
<1>3. n \in Nat /\ DOMAIN l = 1..n
  <2>1. l \in Seq(Records)
    BY <1>1 DEF TypeOK
  <2> QED
    BY <1>2, <2>1, LogIndices
<1>4. ASSUME NEW m \in 0..n, MayStop(s, m)' PROVE m = n
  <2>1. CASE m # n
    <3>1. m + 1 \in DOMAIN l
      BY <1>3, <2>1
    <3>2. /\ l[m + 1].st = "disk" /\ l[m + 1].op # "zero"
          /\ Pending(l, m + 1) => AllOnDisk(l[m + 1].entry)'
      BY <1>1, <3>1 DEF AllFirm
    <3> QED
      BY <1>1, <1>2, <1>4, <2>1, <3>2 DEF MayStop, EndsAt
  <2> QED
    BY <2>1
<1> QED
  BY <1>1, <1>2, <1>4 DEF AllowedInv

\* What a crash may take, but for the records of a call not yet accepted, is
\* not on the disk.
LEMMA DiskIsAccepted ==
    ASSUME TypeOK, NEW s \in Sessions, LateInv(s), NEW i \in DOMAIN log[s], log[s][i].st = "disk"
    PROVE  i <= Accepted(s)
<1>1. i \in Nat /\ i <= Len(log[s]) /\ Accepted(s) \in Int
  <2>1. Len(log[s]) \in Nat /\ DOMAIN log[s] = 1..Len(log[s])
    BY SessionTypes
  <2>2. Accepted(s) \in Int
    BY AcceptedIs
  <2> QED
    BY <2>1, <2>2
<1>2. CASE call[s].pc \in {"fsync", "cut"}
  <2>1. ~(i > Accepted(s))
    BY <1>2 DEF LateInv
  <2> QED
    BY <1>1, <2>1
<1>3. CASE call[s].pc \notin {"fsync", "cut"}
  BY <1>1, <1>3, AcceptedIs
<1> QED
  BY <1>2, <1>3

\* A log that shrinks leaves a reader nothing it might not have been left.
LEMMA AllowedShrinks ==
    ASSUME TypeOK, TypeOK', NEW s \in Sessions, StoredInv(s), AllowedInv(s), LateInv(s),
           DiskStays, KeepsDisk(s), Shrinks(log[s], log'[s]), may'[s] = may[s]
    PROVE  AllowedInv(s)'
<1>1. PICK l : l = log[s] OBVIOUS
<1>2. PICK r : r = log'[s] OBVIOUS
<1>3. /\ l \in Seq(Records) /\ Len(l) \in Nat /\ DOMAIN l = 1..Len(l)
      /\ \A i \in DOMAIN l : i \in Nat /\ (l[i].op = "append" => l[i].entry \in Entries)
  BY <1>1, SessionTypes, LogIndices, EntriesOfRecords
<1>4. r \in Seq(Records)
  BY <1>2 DEF TypeOK
<1>5. Len(r) \in Nat /\ DOMAIN r = 1..Len(r)
  BY <1>4, LogIndices
<1>6. \A i \in DOMAIN l : l[i].st = "disk" => i \in DOMAIN r /\ r[i] = l[i]
  BY <1>1, <1>2, DiskIsAccepted DEF KeepsDisk
<1>7. \A i \in DOMAIN r :
         /\ i \in DOMAIN l
         /\ r[i].op # "zero" => /\ r[i].op = l[i].op /\ r[i].entry = l[i].entry
                                /\ r[i].lazy = l[i].lazy
                                /\ r[i].head = l[i].head /\ r[i].mark = l[i].mark
  BY <1>1, <1>2 DEF Shrinks
<1>8. \A e : \A i \in Nat : Gone(r, e, i) <=> Gone(l, e, i)
  BY <1>1, <1>2, Shrunk
<1>9. ASSUME NEW m \in 0..Len(r), NoHole(r, m), MayStop(s, m)'
      PROVE  StateAt(r, m) \in may[s]
  <2>1. m \in Nat /\ m <= Len(r) /\ m <= Len(l) /\ \A j \in 1..m : j \in DOMAIN r /\ j \in DOMAIN l
    <3>1. m \in Nat /\ m <= Len(r) /\ \A j \in 1..m : j \in DOMAIN r
      BY <1>5
    <3>2. m # 0 => m \in DOMAIN r
      BY <1>5
    <3>3. m # 0 => m \in DOMAIN l
      BY <1>7, <3>2
    <3>4. m <= Len(l)
      BY <1>3, <3>1, <3>3
    <3> QED
      BY <1>7, <3>1, <3>4
  <2>2. \A j \in 1..m : r[j].op # "zero"
    BY <1>9 DEF NoHole
  <2>3. \A j \in 1..m : /\ r[j].op = l[j].op /\ r[j].entry = l[j].entry
                        /\ r[j].head = l[j].head /\ r[j].mark = l[j].mark
    BY <1>7, <2>1, <2>2
  <2>4. NoHole(l, m)
    BY <2>2, <2>3 DEF NoHole
  <2>5. StateAt(r, m) = StateAt(l, m)
    BY <1>3, <1>4, <1>8, <2>1, <2>3, SameSoFar
  <2>6. /\ m \in Nat /\ m <= Len(r) /\ m <= Len(l) /\ Len(l) \in Nat /\ Len(r) \in Nat
        /\ DOMAIN l = 1..Len(l) /\ DOMAIN r = 1..Len(r)
    BY <1>3, <1>5, <2>1
  <2>7. CASE EndsAt(r, m)
    <3>1. PICK p : p = m + 1 OBVIOUS
    <3>2. ASSUME ~EndsAt(l, m) PROVE FALSE
      <4>1. m # Len(l) /\ l[p].st = "disk" /\ l[p].op # "zero"
        BY <3>1, <3>2 DEF EndsAt
      <4>2. p \in DOMAIN l
        <5>1. \A x, y \in Nat : x <= y /\ x # y => x + 1 \in 1..y
          OBVIOUS
        <5> QED
          BY <2>6, <3>1, <4>1, <5>1, Zenon
      <4>3. p \in DOMAIN r /\ r[p] = l[p]
        BY <1>6, <4>1, <4>2
      <4>4. m # Len(r)
        <5>1. p \in 1..Len(r)
          BY <1>5, <4>3
        <5> QED
          <6>1. \A x, y \in Nat : x + 1 \in 1..y => x # y
            OBVIOUS
          <6> QED
            BY <2>6, <3>1, <5>1, <6>1, Zenon
      <4> QED
        BY <2>7, <3>1, <4>1, <4>3, <4>4 DEF EndsAt
    <3>3. MayStop(s, m)
      BY <1>1, <3>2 DEF MayStop
    <3> QED
      BY <1>1, <2>1, <2>4, <2>5, <3>3 DEF AllowedInv
  <2>8. CASE ~EndsAt(r, m)
    <3>1. PICK p : p = m + 1 OBVIOUS
    <3>2. m # Len(r)
      BY <2>8 DEF EndsAt
    <3>3. p \in DOMAIN r /\ p \in Nat
      <4>1. \A x, y \in Nat : x <= y /\ x # y => x + 1 \in 1..y /\ x + 1 \in Nat
        OBVIOUS
      <4> QED
        BY <2>6, <3>1, <3>2, <4>1, Zenon
    <3>4. Pending(r, p) /\ ~AllOnDisk(r[p].entry)'
      BY <1>2, <1>9, <2>8, <3>1 DEF MayStop
    <3>5. r[p].op = "append" /\ r[p].lazy /\ ~Gone(r, r[p].entry, p)
      BY <3>4 DEF Pending
    <3>6. p \in DOMAIN l /\ l[p].op = "append" /\ l[p].lazy /\ r[p].entry = l[p].entry
      BY <1>7, <3>3, <3>5
    <3>7. ~Gone(l, l[p].entry, p)
      BY <1>8, <3>3, <3>5, <3>6
    <3>8. ~AllOnDisk(l[p].entry)
      BY <1>3, <3>4, <3>6, DiskStaysFor
    <3>9. Pending(l, p)
      BY <1>1, <3>6, <3>7, <3>8 DEF StoredInv
    <3>10. MayStop(s, m)
      BY <1>1, <3>1, <3>8, <3>9 DEF MayStop
    <3> QED
      BY <1>1, <2>1, <2>4, <2>5, <3>10 DEF AllowedInv
  <2> QED
    BY <2>7, <2>8
<1> QED
  BY <1>2, <1>9 DEF AllowedInv

\* A durable call ends with all of the log firm, and saying what it reports.
LEMMA AllowedFsync ==
    ASSUME LogInv, TypeOK', NEW s \in Sessions, FollowInv(s), LogFsync(s)
    PROVE  AllowedInv(s)'
<1>1. /\ TypeOK /\ SessionInv(s) /\ UNCHANGED obj /\ ~stopped /\ Complete(s)
  BY DEF LogInv, LogFsync
<1>2. PICK l : l = log[s] OBVIOUS
<1>3. PICK r : r = MarkedAs(l, "disk") OBVIOUS
<1>4. /\ l \in Seq(Records) /\ Len(l) \in Nat /\ DOMAIN l = 1..Len(l)
      /\ \A i \in DOMAIN l : i \in Nat /\ l[i].st \in {"dirty", "disk", "lost"}
  BY <1>1, <1>2, SessionTypes, LogIndices, EntriesOfRecords
<1>5. /\ call[s].pc = "fsync" /\ call[s].durable /\ handle[s].held /\ handle[s].pend = {} /\ Live(s)
  BY <1>1 DEF LogFsync, SessionInv, CallInv, Live
<1>6. /\ DOMAIN r = DOMAIN l /\ Len(r) = Len(l)
      /\ \A i \in DOMAIN l :
           /\ r[i].op = l[i].op /\ r[i].entry = l[i].entry
           /\ r[i].head = l[i].head /\ r[i].mark = l[i].mark
           /\ r[i].st = IF l[i].st = "dirty" THEN "disk" ELSE l[i].st
  BY <1>3, <1>4, MarkedShrinks
<1>7. \A e : \A i \in Nat : Gone(r, e, i) <=> Gone(l, e, i)
  BY <1>3, <1>4, MarkedShrinks
<1>8. \A i \in DOMAIN l : Pending(r, i) <=> Pending(l, i)
  BY <1>3, <1>4, MarkedShrinks
<1>9. log'[s] = r /\ r \in Seq(Records)
  BY <1>1, <1>2, <1>3, <1>4, MarkedAsType DEF LogFsync, TypeOK
<1>10. \A i \in DOMAIN r : r[i].st = "disk" /\ r[i].op # "zero"
  <2>1. \A i \in DOMAIN l : l[i].st # "lost"
    BY <1>1, <1>2, <1>5 DEF SessionInv, PhantomInv
  <2>2. \A i \in DOMAIN l : l[i].op # "zero"
    BY <1>1, <1>2, <1>5 DEF SessionInv, OwnInv
  <2> QED
    BY <1>4, <1>6, <2>1, <2>2
<1>11. \A i \in DOMAIN r : Pending(r, i) => AllOnDisk(r[i].entry)'
  <2>1. \A i \in DOMAIN l : Pending(l, i) => AllOnDisk(l[i].entry)
    BY <1>1, <1>2, <1>5 DEF SessionInv, OwedInv, AllOnDisk
  <2>2. \A e : AllOnDisk(e)' <=> AllOnDisk(e)
    BY <1>1 DEF AllOnDisk
  <2> QED
    BY <1>6, <1>8, <2>1, <2>2
<1>12. AllFirm(s)'
  BY <1>9, <1>10, <1>11 DEF AllFirm
<1>13. StateAt(r, Len(r)) = StateAfter(handle[s], call[s])
  <2>1. PICK n : n = Len(l) OBVIOUS
  <2>2. n \in Nat /\ n <= Len(l) /\ n <= Len(r) /\ n = Len(r) /\ DOMAIN l = 1..n
    BY <1>4, <1>6, <2>1
  <2>3. StateAt(r, n) = StateAt(l, n)
    BY <1>4, <1>6, <1>7, <1>9, <2>2, SameSoFar
  <2>4. StateAt(l, n) = StateAfter(handle[s], call[s])
    BY <1>2, <1>5, <2>1 DEF FollowInv
  <2> QED
    BY <2>2, <2>3, <2>4
<1>14. may'[s] = {StateAfter(handle[s], call[s])}
  BY <1>1, <1>5 DEF Complete, TypeOK
<1> QED
  BY <1>9, <1>12, <1>13, <1>14, AllowedFirm

\* So does a recovery.
LEMMA AllowedRecovered ==
    ASSUME LogInv, TypeOK', NEW s \in Sessions, FollowInv(s), RecoverLog(s)
    PROVE  AllowedInv(s)'
<1>1. TypeOK /\ SessionInv(s) /\ UNCHANGED obj /\ call[s].pc = "recover"
  BY DEF LogInv, RecoverLog
<1>2. PICK r : r = call[s].recs OBVIOUS
<1>3. log'[s] = r /\ may'[s] = {call[s].view}
  BY <1>1, <1>2 DEF RecoverLog, TypeOK
<1>4. \A i \in DOMAIN r : r[i].st = "disk" /\ r[i].op # "zero" /\ (Pending(r, i) => AllOnDisk(r[i].entry))
  BY <1>1, <1>2 DEF SessionInv, PlanInv, Pending
<1>5. AllFirm(s)'
  BY <1>1, <1>3, <1>4 DEF AllFirm, AllOnDisk
<1>6. StateAt(r, Len(r)) = call[s].view
  BY <1>1, <1>2 DEF FollowInv
<1> QED
  BY <1>3, <1>5, <1>6, AllowedFirm

\* A log that needs no recovery is firm.
LEMMA AllowedOpens ==
    ASSUME NoDoubtLeft, LogInv, TypeOK', NEW s \in Sessions, Open(s), ~stopped
    PROVE  AllowedInv(s)'
<1>1. /\ TypeOK /\ SessionInv(s) /\ UNCHANGED <<log, obj>> /\ call[s].pc = "idle"
      /\ ~MustRewrite(log[s], obj) /\ may'[s] = {reconcile(s)}
  BY DEF LogInv, Open, Idle, TypeOK
<1>2. PICK l : l = log[s] OBVIOUS
<1>3. /\ l \in Seq(Records) /\ Len(l) \in Nat /\ DOMAIN l = 1..Len(l)
      /\ \A i \in DOMAIN l : i \in Nat
  BY <1>1, <1>2, SessionTypes, LogIndices
<1>4. \A i \in DOMAIN l : l[i].op # "zero" /\ ~Pending(l, i)
  BY <1>1, <1>2, <1>3, NothingToRewrite DEF SessionInv
<1>5. Accepted(s) = Len(l)
  BY <1>1, <1>2, AcceptedIs
<1>6. ASSUME NEW i \in DOMAIN l, l[i].st # "disk" PROVE FALSE
  <2>1. i <= Accepted(s) /\ \A k \in DOMAIN l : k <= Accepted(s)
    BY <1>3, <1>5
  <2>2. /\ l[i].op = "append" /\ l[i].lazy
        /\ \A k \in DOMAIN l : i < k /\ k <= Accepted(s) => l[k].op # "sync"
    BY <1>1, <1>2, <1>6, <2>1 DEF SessionInv, PhantomInv
  <2>3. \A k \in DOMAIN l : k > i => i < k /\ i \in 1..k
    BY <1>3
  <2>4. ~Covered(l, i)
    BY <2>1, <2>2, <2>3 DEF Covered
  <2>5. ~Gone(l, l[i].entry, i)
    BY <1>1, <1>2, <1>6, <2>3 DEF SessionInv, LostInv, Gone
  <2> QED
    BY <1>4, <2>2, <2>4, <2>5 DEF Pending
<1>7. AllFirm(s)'
  BY <1>1, <1>2, <1>4, <1>6 DEF AllFirm
<1>8. reconcile(s) = StateAt(l, Len(l))
  <2>1. AllFound(l, obj)
    BY <1>4 DEF AllFound
  <2> QED
    BY <1>2, <1>3, <2>1, ReadsAll DEF reconcile
<1> QED
  BY <1>1, <1>2, <1>7, <1>8, AllowedFirm

\* What a call writes says, wherever it is cut, what the log said or what the
\* call makes of it.
LEMMA AllowedWrites ==
    ASSUME LogInv, TypeOK', NEW s \in Sessions, TreeInv(s), FollowInv(s), AllowedInv(s), LogWrite(s)
    PROVE  AllowedInv(s)'
<1>1. TypeOK /\ SessionInv(s) /\ UNCHANGED obj /\ call[s].pc = "log"
  BY DEF LogInv, LogWrite
<1>2. PICK l : l = log[s] OBVIOUS
<1>3. PICK q : q = call[s].recs OBVIOUS
<1>4. PICK r : r = l \o q OBVIOUS
<1>5. PICK x : x = StateAfter(handle[s], call[s]) OBVIOUS
<1>6. log'[s] = r /\ may'[s] = may[s] \cup {x}
  <2>1. log'[s] = r
    BY <1>1, <1>2, <1>3, <1>4 DEF LogWrite, TypeOK
  <2>2. CASE call[s].durable
    BY <1>1, <1>5, <2>1, <2>2 DEF LogWrite, TypeOK
  <2>3. CASE ~call[s].durable
    BY <1>1, <1>5, <2>1, <2>3 DEF LogWrite, Complete, TypeOK
  <2> QED
    BY <2>2, <2>3
<1>7. /\ l \in Seq(Records) /\ q \in Seq(Records) /\ Len(l) \in Nat /\ DOMAIN l = 1..Len(l)
  BY <1>1, <1>2, <1>3, SessionTypes
<1>8. \A i \in DOMAIN l : i \in Nat /\ (l[i].op = "append" => l[i].entry \in Entries)
  BY <1>7, LogIndices, EntriesOfRecords
<1>9. \A k \in DOMAIN q : q[k].op # "lost"
  BY <1>1, <1>3 DEF SessionInv, RecsInv
<1>10. l \in Seq(Records) /\ q \in Seq(Records)
  BY <1>7
<1>11. r \in Seq(Records) /\ Len(r) = Len(l) + Len(q) /\ DOMAIN r = 1..Len(r)
  BY <1>4, <1>9, <1>10, Grown
<1>12. \A i \in DOMAIN l : i \in DOMAIN r /\ r[i] = l[i]
  BY <1>4, <1>9, <1>10, Grown
<1>13. \A e : \A i \in Nat : Gone(r, e, i) <=> Gone(l, e, i)
  BY <1>4, <1>9, <1>10, Grown, Zenon
<1>14. \A m \in DOMAIN r \ DOMAIN l : StateAt(r, m) = x
  <2>1. Live(s)
    BY <1>1 DEF Live, Idle, SessionInv, CallInv
  <2>2. Accepted(s) = Len(l)
    BY <1>1, <1>2, AcceptedIs
  <2>3. StateAt(l, Len(l)) = StateOf(handle[s])
    BY <1>2, <2>1, <2>2 DEF FollowInv
  <2> QED
    BY <1>1, <1>2, <1>3, <1>4, <1>5, <2>3, WritesTheState
<1>15. ASSUME NEW m \in 0..Len(l), NoHole(r, m), MayStop(s, m)'
       PROVE  StateAt(r, m) \in may[s]
  <2>1. /\ m \in Nat /\ m <= Len(l) /\ m <= Len(r)
        /\ \A j \in 1..m : j \in DOMAIN l
    <3>1. Len(q) \in Nat
      BY <1>7, LogIndices
    <3> QED
      BY <1>7, <1>11, <3>1
  <2>2. StateAt(r, m) = StateAt(l, m)
    BY <1>7, <1>11, <1>12, <1>13, <2>1, SameSoFar
  <2>3. NoHole(l, m)
    BY <1>12, <1>15, <2>1 DEF NoHole
  <2>4. MayStop(s, m)
    <3>1. CASE m = Len(l)
      BY <1>2, <3>1 DEF MayStop, EndsAt
    <3>2. CASE m # Len(l)
      <4>1. PICK p : p = m + 1 OBVIOUS
      <4>2. p \in DOMAIN l
        <5>1. \A i, j \in Nat : i <= j /\ i # j => i + 1 \in 1..j
          OBVIOUS
        <5> QED
          BY <1>7, <2>1, <3>2, <4>1, <5>1, Zenon
      <4>3. r[p] = l[p] /\ p \in DOMAIN r /\ p \in Nat
        BY <1>8, <1>12, <4>2
      <4>4. m # Len(r)
        <5>1. \A i, j \in Nat : i + 1 \in 1..j => i # j
          OBVIOUS
        <5>2. Len(r) \in Nat
          BY <1>11, LogIndices
        <5> QED
          BY <1>11, <2>1, <4>1, <4>3, <5>1, <5>2, Zenon
      <4>5. CASE EndsAt(r, m)
        BY <1>2, <4>1, <4>3, <4>4, <4>5 DEF MayStop, EndsAt
      <4>6. CASE Pending(r, p) /\ ~AllOnDisk(r[p].entry)'
        <5>1. l[p].op = "append" /\ l[p].lazy /\ ~Gone(r, l[p].entry, p)
          BY <4>3, <4>6 DEF Pending
        <5>2. ~Gone(l, l[p].entry, p)
          BY <1>13, <4>3, <5>1
        <5>3. ~AllOnDisk(l[p].entry)
          BY <1>1, <4>3, <4>6 DEF AllOnDisk
        <5>4. Pending(l, p)
          BY <1>1, <1>2, <4>2, <5>1, <5>2, <5>3 DEF SessionInv, StoredInv
        <5> QED
          BY <1>2, <4>1, <5>3, <5>4 DEF MayStop
      <4> QED
        BY <1>6, <1>15, <4>1, <4>5, <4>6 DEF MayStop
    <3> QED
      BY <3>1, <3>2
  <2> QED
    BY <1>2, <2>1, <2>2, <2>3, <2>4 DEF AllowedInv
<1>16. \A m \in 0..Len(r) : m \in 0..Len(l) \/ m \in DOMAIN r \ DOMAIN l
  <2>1. Len(r) \in Nat
    BY <1>11, LogIndices
  <2> QED
    BY <1>7, <1>11, <2>1
<1> QED
  BY <1>6, <1>14, <1>15, <1>16 DEF AllowedInv

\* A step of one session serves nothing of another, and allows no other state.
LEMMA OthersAsTheyWere ==
    ASSUME TypeOK, NEW s \in Sessions, StepOf(s), NEW t \in Sessions \ {s}
    PROVE  served'[t] = served[t] /\ may'[t] = may[t]
<1>1. CASE Open(s) \/ RecoverObjects(s) \/ RecoverLog(s) \/ RecoverFails(s)
  BY <1>1 DEF Open, RecoverObjects, RecoverLog, RecoverFails, TypeOK
<1>2. CASE \E x \in Entries \cup {Root} : Branch(s, x) \/ SetHead(s, x)
  BY <1>2 DEF Branch, SetHead
<1>3. CASE \E e \in Entries : Write(s, e)
  BY <1>3 DEF Write
<1>4. CASE Prepare(s) \/ PrepareReturns(s)
  BY <1>4 DEF Prepare, PrepareReturns
<1>5. CASE \E mark \in Marks : SetMark(s, mark)
  BY <1>5 DEF SetMark
<1>6. CASE Commit(s) \/ Release(s)
  BY <1>6 DEF Commit, Release, TypeOK
<1>7. CASE Flush(s) \/ FlushFails(s) \/ LogWriteFails(s)
  BY <1>7 DEF Flush, FlushFails, LogWriteFails
<1>8. CASE LogWrite(s) \/ LogFsync(s) \/ LogFsyncFails(s) \/ Cut(s)
  BY <1>8 DEF LogWrite, LogFsync, LogFsyncFails, Cut, Complete, TypeOK
<1> QED
  BY <1>1, <1>2, <1>3, <1>4, <1>5, <1>6, <1>7, <1>8 DEF StepOf

\* A session whose log stays keeps it.
LEMMA FoundInvStays ==
    ASSUME LogInv, TypeOK', NEW s \in Sessions, FoundInv(s), DiskStays,
           log'[s] = log[s], served'[s] = served[s], may'[s] = may[s],
           handle'[s].held => /\ handle[s].held /\ handle'[s].own = handle[s].own
                              /\ handle'[s].lazy = handle[s].lazy,
           call'[s] = call[s] \/ call'[s].pc \notin {"fsync", "cut", "recover"}
    PROVE  FoundInv(s)'
<1>1. TypeOK /\ SessionInv(s) /\ StoredInv(s) /\ ServedInv(s) /\ AllowedInv(s) /\ LateInv(s)
  BY DEF LogInv, SessionInv, FoundInv
<1>2. KeepsDisk(s)
  BY <1>1, SameLogKeeps
<1>3. ServedInv(s)'
  BY <1>1, <1>2, ServedStays
<1>4. Shrinks(log[s], log'[s])
  BY DEF Shrinks
<1>5. AllowedInv(s)'
  BY <1>1, <1>2, <1>4, AllowedShrinks
<1>6. LateInv(s)'
  <2>1. CASE call'[s] = call[s]
    BY <1>1, <2>1 DEF LateInv, Accepted
  <2>2. CASE call'[s].pc \notin {"fsync", "cut"}
    BY <2>2 DEF LateInv
  <2> QED
    BY <2>1, <2>2
<1> QED
  BY <1>3, <1>5, <1>6 DEF FoundInv

\* What a call writes and has not fsynced is not on the disk.
LEMMA LateWrites ==
    ASSUME LogInv, NEW s \in Sessions, LogWrite(s)
    PROVE  LateInv(s)'
<1>1. TypeOK /\ SessionInv(s) /\ call[s].pc = "log"
  BY DEF LogInv, LogWrite
<1>2. CASE ~call[s].durable
  <2>1. call'[s].pc \in {"idle", "prepare"}
    BY <1>1, <1>2, Completed DEF LogWrite
  <2> QED
    BY <2>1 DEF LateInv
<1>3. CASE call[s].durable
  <2>1. PICK l : l = log[s] OBVIOUS
  <2>2. PICK q : q = call[s].recs OBVIOUS
  <2>3. PICK r : r = l \o q OBVIOUS
  <2>4. l \in Seq(Records) /\ q \in Seq(Records) /\ call[s] \in Calls
    BY <1>1, <2>1, <2>2, SessionTypes
  <2>5. log'[s] = r /\ call'[s].pc = "fsync" /\ call'[s].recs = q
    BY <1>1, <1>3, <2>1, <2>2, <2>3, <2>4 DEF LogWrite, TypeOK, Calls
  <2>6. \A k \in DOMAIN q : q[k].op # "lost" /\ q[k].st = "dirty"
    BY <1>1, <2>2 DEF SessionInv, RecsInv
  <2>7. Len(l) \in Nat /\ DOMAIN l = 1..Len(l) /\ Len(q) \in Nat
    BY <2>4, LogIndices
  <2>8. Len(r) = Len(l) + Len(q) /\ DOMAIN r = 1..Len(r)
    BY <2>3, <2>4, <2>6, Grown
  <2>9. \A i \in DOMAIN r \ DOMAIN l : i - Len(l) \in DOMAIN q /\ r[i] = q[i - Len(l)]
    BY <2>3, <2>4, <2>6, Grown
  <2>10. Accepted(s)' = Len(r) - Len(q)
    BY <2>5 DEF Accepted
  <2>11. Accepted(s)' = Len(l)
    BY <2>7, <2>8, <2>10
  <2>12. \A k \in DOMAIN r : k > Len(l) => k \notin DOMAIN l
    BY <2>7, <2>8
  <2>13. \A k \in DOMAIN r : k > Len(l) => r[k].st # "disk"
    BY <2>6, <2>9, <2>12
  <2> QED
    BY <2>5, <2>11, <2>13 DEF LateInv
<1> QED
  BY <1>2, <1>3

\* Nor is it where the fsync fails.
LEMMA LateFails ==
    ASSUME LogInv, NEW s \in Sessions, LateInv(s), LogFsyncFails(s)
    PROVE  LateInv(s)'
<1>1. TypeOK /\ call[s].pc = "fsync"
  BY DEF LogInv, LogFsyncFails
<1>2. PICK l : l = log[s] OBVIOUS
<1>3. PICK r : r = log'[s] OBVIOUS
<1>4. l \in Seq(Records) /\ call[s] \in Calls
  BY <1>1, <1>2, SessionTypes
<1>5. r = l \/ r = MarkedAs(l, "lost")
  BY <1>1, <1>2, <1>3 DEF LogFsyncFails, TypeOK
<1>6. call'[s].pc = "cut" /\ call'[s].recs = call[s].recs
  BY <1>1, <1>4 DEF LogFsyncFails, TypeOK, Calls
<1>7. /\ DOMAIN r = DOMAIN l /\ Len(r) = Len(l)
      /\ \A i \in DOMAIN l : l[i].st # "disk" => r[i].st # "disk"
  <2>1. CASE r = l
    BY <2>1
  <2>2. CASE r = MarkedAs(l, "lost")
    BY <1>4, <2>2, MarkedShrinks
  <2> QED
    BY <1>5, <2>1, <2>2
<1>8. Accepted(s)' = Accepted(s)
  BY <1>1, <1>2, <1>3, <1>6, <1>7 DEF Accepted
<1>9. \A k \in DOMAIN l : k > Accepted(s) => l[k].st # "disk"
  BY <1>1, <1>2 DEF LateInv
<1> QED
  BY <1>3, <1>7, <1>8, <1>9 DEF LateInv

\* The steps of a session that write its log, or open it, keep it.
LEMMA FoundInvKept ==
    ASSUME NoDoubtLeft, LogInv, LogInv', NEW s \in Sessions, TreeInv(s), FollowInv(s),
           FoundInv(s), DiskStays,
           \/ Open(s) \/ RecoverObjects(s) \/ RecoverLog(s) \/ Commit(s)
           \/ LogWrite(s) \/ LogFsync(s) \/ LogFsyncFails(s) \/ Cut(s) \/ PowerLoss
    PROVE  FoundInv(s)'
<1>1. /\ TypeOK /\ TypeOK' /\ SessionInv(s) /\ StoredInv(s) /\ LostInv(log[s])
      /\ ServedInv(s) /\ AllowedInv(s) /\ LateInv(s)
  BY DEF LogInv, SessionInv, FoundInv
<1>2. NoCall.pc = "idle" /\ ~NoHandle.held
  BY DEF NoCall, NoHandle
<1>3. ASSUME log'[s] = log[s], may'[s] = may[s], call'[s] = call[s] \/ call'[s].pc \notin {"fsync", "cut"}
      PROVE  AllowedInv(s)'
  <2>1. Shrinks(log[s], log'[s]) /\ KeepsDisk(s)
    BY <1>1, <1>3, SameLogKeeps DEF Shrinks
  <2> QED
    BY <1>1, <1>3, <2>1, AllowedShrinks
<1>4. ASSUME call'[s].pc \notin {"fsync", "cut"} PROVE LateInv(s)'
  BY <1>4 DEF LateInv
<1>5. CASE Open(s)
  <2>1. UNCHANGED <<log, call>> /\ call[s].pc = "idle"
    BY <1>5 DEF Open, Idle
  <2>2. ServedInv(s)'
    BY <1>1, <1>5, ServedOpens
  <2>3. AllowedInv(s)'
    <3>1. CASE stopped
      <4>1. may'[s] = may[s]
        BY <1>1, <1>5, <3>1 DEF Open, TypeOK
      <4> QED
        BY <1>3, <2>1, <4>1
    <3>2. CASE ~stopped
      BY <1>1, <1>5, <3>2, AllowedOpens
    <3> QED
      BY <3>1, <3>2
  <2> QED
    BY <1>4, <2>1, <2>2, <2>3 DEF FoundInv
<1>6. CASE RecoverObjects(s)
  <2>1. UNCHANGED <<log, may>>
    BY <1>6 DEF RecoverObjects
  <2>2. call'[s].pc = "recover"
    <3>1. PICK c : c = [NoCall EXCEPT !.pc = "recover", !.kind = "open", !.view = reconcile(s),
                                      !.recs = Recovered(log[s], obj)]
      OBVIOUS
    <3>2. c.pc = "recover"
      BY <3>1 DEF NoCall
    <3> QED
      BY <1>1, <1>6, <3>1, <3>2 DEF RecoverObjects, TypeOK
  <2>3. ServedInv(s)'
    BY <1>1, <1>6, ServedRecovers
  <2> QED
    BY <1>3, <1>4, <2>1, <2>2, <2>3 DEF FoundInv
<1>7. CASE RecoverLog(s)
  <2>1. call'[s].pc = "idle"
    BY <1>1, <1>2, <1>7 DEF RecoverLog, TypeOK
  <2>2. ServedInv(s)' /\ AllowedInv(s)'
    BY <1>1, <1>7, ServedRecovered, AllowedRecovered
  <2> QED
    BY <1>4, <2>1, <2>2 DEF FoundInv
<1>8. CASE Commit(s)
  <2>1. UNCHANGED <<log, may>> /\ call[s].pc = "idle"
    BY <1>8 DEF Commit, HeldIdle, Idle
  <2>2. call'[s].pc \in {"idle", "flush"}
    <3>1. CommitCall("commit").pc = "flush"
      BY DEF CommitCall, NoCall
    <3> QED
      BY <1>1, <1>8, <2>1, <3>1 DEF Commit, Begin, TypeOK
  <2>3. ServedInv(s)'
    BY <1>1, <1>8, ServedCommits
  <2> QED
    BY <1>3, <1>4, <2>1, <2>2, <2>3 DEF FoundInv
<1>9. CASE LogWrite(s)
  <2>1. ServedInv(s)'
    BY <1>1, <1>9, ServedWrites
  <2>2. AllowedInv(s)'
    BY <1>1, <1>9, AllowedWrites
  <2>3. LateInv(s)'
    BY <1>9, LateWrites
  <2> QED
    BY <2>1, <2>2, <2>3 DEF FoundInv
<1>10. CASE LogFsync(s)
  <2>1. call'[s].pc \in {"idle", "prepare"}
    BY <1>1, <1>10, Completed DEF LogFsync
  <2>2. ServedInv(s)'
    BY <1>1, <1>10, ServedFsync
  <2>3. AllowedInv(s)'
    BY <1>1, <1>10, AllowedFsync
  <2> QED
    BY <1>4, <2>1, <2>2, <2>3 DEF FoundInv
<1>11. CASE LogFsyncFails(s)
  <2>1. UNCHANGED <<handle, served, may>>
    BY <1>11 DEF LogFsyncFails
  <2>2. call'[s].pc = "cut"
    <3>1. call[s] \in Calls
      BY <1>1, SessionTypes
    <3> QED
      BY <1>1, <1>11, <3>1 DEF LogFsyncFails, TypeOK, Calls
  <2>3. KeepsDisk(s)
    BY <1>11, FsyncedKeeps
  <2>4. ServedInv(s)'
    BY <1>1, <2>1, <2>2, <2>3, ServedStays
  <2>5. Shrinks(log[s], log'[s])
    <3>1. log'[s] = log[s] \/ log'[s] = MarkedAs(log[s], "lost")
      BY <1>1, <1>11 DEF LogFsyncFails, TypeOK
    <3>2. log[s] \in Seq(Records)
      BY <1>1, SessionTypes
    <3>3. CASE log'[s] = log[s]
      BY <3>3 DEF Shrinks
    <3>4. CASE log'[s] = MarkedAs(log[s], "lost")
      BY <3>2, <3>4, MarkedShrinks
    <3> QED
      BY <3>1, <3>3, <3>4
  <2>6. AllowedInv(s)'
    BY <1>1, <2>1, <2>3, <2>5, AllowedShrinks
  <2>7. LateInv(s)'
    BY <1>1, <1>11, LateFails
  <2> QED
    BY <2>4, <2>6, <2>7 DEF FoundInv
<1>12. CASE Cut(s) \/ PowerLoss
  <2>1. UNCHANGED <<served, may>> /\ handle'[s] = NoHandle /\ call'[s] = NoCall
    BY <1>1, <1>12 DEF Cut, PowerLoss, ProcessGone, Drop, TypeOK
  <2>2. KeepsDisk(s)
    BY <1>1, <1>12, CrashedKeeps
  <2>3. ServedInv(s)'
    BY <1>1, <1>2, <2>1, <2>2, ServedStays
  <2>4. Shrinks(log[s], log'[s])
    BY <1>1, <1>12, CutLeaves, PowerLossLeaves
  <2>5. AllowedInv(s)'
    BY <1>1, <2>1, <2>2, <2>4, AllowedShrinks
  <2> QED
    BY <1>2, <1>4, <2>1, <2>3, <2>5 DEF FoundInv
<1> QED
  BY <1>5, <1>6, <1>7, <1>8, <1>9, <1>10, <1>11, <1>12

\* At first every session is its mark, on the disk.
LEMMA RecoveryInit == Init => RecoveryInv
<1> SUFFICES ASSUME Init PROVE RecoveryInv
  OBVIOUS
<1>1. DirectoryInv
  BY DirectoryInit
<1>2. ASSUME NEW s \in Sessions PROVE FoundInv(s)
  <2>1. PICK q : q = MarkRec("record") OBVIOUS
  <2>2. q \in Records /\ q.op = "mark" /\ q.mark = "record"
    BY <2>1, RecordTypes DEF MarkRec, Rec, Marks
  <2>3. PICK l : l = OnDisk(<<q>>) OBVIOUS
  <2>4. l \in Seq(Records) /\ Len(l) = 1 /\ DOMAIN l = 1..1
    <3>1. <<q>> \in Seq(Records) /\ Len(<<q>>) = 1
      BY <2>2
    <3>2. log[s] = l
      BY <2>1, <2>3 DEF Init
    <3>3. l \in Seq(Records)
      BY <1>1, <3>2, SessionTypes DEF DirectoryInv, LogInv
    <3>4. DOMAIN l = 1..1
      BY <2>3, <3>1 DEF OnDisk
    <3>5. Len(l) \in Nat /\ DOMAIN l = 1..Len(l)
      BY <3>3, LogIndices
    <3>6. Len(l) = 1
      BY <3>4, <3>5
    <3> QED
      BY <3>3, <3>4, <3>6
  <2>5. \A i \in DOMAIN l : l[i].op = "mark" /\ l[i].st = "disk" /\ l[i].mark = "record"
    <3>1. \A i \in DOMAIN l : l[i] = [q EXCEPT !.st = "disk"]
      BY <2>3, <2>4 DEF OnDisk
    <3> QED
      BY <2>2, <3>1 DEF Records
  <2>6. /\ log[s] = l /\ call[s].pc = "idle" /\ ~handle[s].held /\ served[s] = {}
        /\ may[s] = {StateOf(NoHandle)}
    BY <2>1, <2>3 DEF Init, NoCall, NoHandle
  <2>7. StateAt(l, 1) = StateOf(NoHandle)
    <3>1. \A i \in DOMAIN l : ~Standing(l, i) /\ ~Moves(l, i)
      BY <2>5 DEF Standing, Moves
    <3>2. OwnAt(l, 1) = {} /\ MovesTo(l, 1) = {}
      BY <3>1 DEF OwnAt, MovesTo
    <3>3. MarksTo(l, 1) = {1}
      BY <2>4, <2>5 DEF MarksTo
    <3>4. Max({1}) = 1
      BY MaxIs
    <3>5. l[1].mark = "record"
      BY <2>4, <2>5
    <3> QED
      BY <3>2, <3>3, <3>4, <3>5 DEF StateAt, StateOf, NoHandle
  <2>8. AllowedInv(s)
    <3> SUFFICES ASSUME NEW m \in 0..Len(l), MayStop(s, m) PROVE StateAt(l, m) \in may[s]
      BY <2>6 DEF AllowedInv
    <3>1. m = 0 \/ m = 1
      BY <2>4
    <3>2. CASE m = 0
      <4>1. m # Len(l) /\ m + 1 = 1 /\ 1 \in DOMAIN l
        BY <2>4, <3>2
      <4>2. l[m + 1].st = "disk" /\ l[m + 1].op = "mark"
        BY <2>5, <4>1
      <4> QED
        BY <2>6, <4>1, <4>2 DEF MayStop, EndsAt, Pending
    <3> QED
      BY <2>6, <2>7, <3>1, <3>2
  <2>9. ServedInv(s) /\ LateInv(s)
    BY <2>6 DEF ServedInv, LateInv
  <2> QED
    BY <2>8, <2>9 DEF FoundInv
<1> QED
  BY <1>1, <1>2 DEF RecoveryInv

\* Every step keeps every recovery to come an allowed one.
LEMMA RecoveryNext ==
    ASSUME NoDoubtLeft, RecoveryInv, [Next]_vars
    PROVE  RecoveryInv'
<1>1. DirectoryInv /\ LogInv /\ TypeOK
  BY DEF RecoveryInv, DirectoryInv, LogInv
<1>2. DirectoryInv'
  BY <1>1, DirectoryNext DEF NoPhantomLeft
<1>3. LogInv' /\ TypeOK'
  BY <1>2 DEF DirectoryInv, LogInv
<1>4. DiskStays
  BY <1>1, LogsStep
<1>5. NoCall.pc = "idle" /\ ~NoHandle.held
  BY DEF NoCall, NoHandle
<1>6. ASSUME NEW t \in Sessions PROVE FoundInv(t)'
  <2>1. FoundInv(t) /\ TreeInv(t) /\ FollowInv(t)
    BY <1>1 DEF RecoveryInv, DirectoryInv
  <2>2. CASE UNCHANGED vars
    <3>1. UNCHANGED <<log, served, may, handle, call>>
      BY <2>2 DEF vars
    <3> QED
      BY <1>1, <1>3, <1>4, <2>1, <3>1, FoundInvStays
  <2>3. CASE Kill
    <3>1. UNCHANGED <<log, served, may>> /\ handle'[t] = NoHandle /\ call'[t] = NoCall
      BY <2>3 DEF Kill, ProcessGone
    <3> QED
      BY <1>1, <1>3, <1>4, <1>5, <2>1, <3>1, FoundInvStays
  <2>4. CASE PowerLoss
    BY <1>1, <1>3, <1>4, <2>1, <2>4, FoundInvKept
  <2>5. ASSUME NEW s \in Sessions, StepOf(s) PROVE FoundInv(t)'
    <3>1. CASE t # s
      <4>1. log'[t] = log[t] /\ call'[t] = call[t] /\ handle'[t] = handle[t]
        BY <1>1, <2>5, <3>1, StepsAreOf
      <4>2. served'[t] = served[t] /\ may'[t] = may[t]
        BY <1>1, <2>5, <3>1, OthersAsTheyWere
      <4> QED
        BY <1>1, <1>3, <1>4, <2>1, <4>1, <4>2, FoundInvStays
    <3>2. CASE t = s /\ QuietOf(s)
      <4>1. /\ UNCHANGED <<log, served, may>>
            /\ call'[t] = call[t] \/ call'[t].pc \notin {"fsync", "cut", "recover"}
            /\ handle'[t].held => /\ handle[t].held /\ handle'[t].own = handle[t].own
                                  /\ handle'[t].lazy = handle[t].lazy
        BY <1>1, <3>2, QuietSteps
      <4> QED
        BY <1>1, <1>3, <1>4, <2>1, <4>1, FoundInvStays
    <3>3. CASE t = s /\ ~QuietOf(s)
      <4>1. \/ Open(s) \/ RecoverObjects(s) \/ RecoverLog(s) \/ Commit(s)
            \/ LogWrite(s) \/ LogFsync(s) \/ LogFsyncFails(s) \/ Cut(s)
        BY <2>5, <3>3 DEF StepOf, QuietOf
      <4> QED
        BY <1>1, <1>3, <1>4, <2>1, <3>3, <4>1, FoundInvKept
    <3> QED
      BY <3>1, <3>2, <3>3
  <2>6. Next => Kill \/ PowerLoss \/ \E s \in Sessions : StepOf(s)
    BY DEF Next, StepOf
  <2> QED
    BY <2>2, <2>3, <2>4, <2>5, <2>6
<1> QED
  BY <1>2, <1>6 DEF RecoveryInv

\* What a recovery finds is the log up to where a crash may have ended it.
LEMMA FoundIsAllowed ==
    ASSUME TypeOK, NEW s \in Sessions, AllowedInv(s)
    PROVE  reconcile(s) \in may[s]
<1>1. PICK l : l = log[s] OBVIOUS
<1>2. /\ l \in Seq(Records) /\ Len(l) \in Nat /\ DOMAIN l = 1..Len(l)
  BY <1>1, SessionTypes
<1>3. PICK C : C = {i \in DOMAIN l : CutsAt(l, obj, FALSE, i)} OBVIOUS
<1>4. CASE C = {}
  <2>1. \A i \in DOMAIN l : ~CutsAt(l, obj, FALSE, i)
    BY <1>3, <1>4
  <2>2. AllFound(l, obj)
    BY <2>1 DEF AllFound, CutsAt
  <2>3. reconcile(s) = StateAt(l, Len(l))
    BY <1>1, <1>2, <2>2, ReadsAll DEF reconcile
  <2>4. NoHole(l, Len(l)) /\ Len(l) \in 0..Len(l)
    BY <1>2, <2>2 DEF NoHole, AllFound
  <2>5. MayStop(s, Len(l))
    BY <1>1 DEF MayStop, EndsAt
  <2> QED
    BY <1>1, <2>3, <2>4, <2>5 DEF AllowedInv
<1>5. CASE C # {}
  <2>1. PICK p : p = Min(C) OBVIOUS
  <2>2. C \in SUBSET Nat
    <3>1. \A i \in DOMAIN l : i \in Nat
      BY <1>2, LogIndices
    <3> QED
      BY <1>3, <3>1
  <2>3. p \in C /\ \A i \in C : p <= i
    BY <1>5, <2>1, <2>2, MinIndex
  <2>4. p \in 1..Len(l) /\ CutsAt(l, obj, FALSE, p)
    BY <1>2, <1>3, <2>3
  <2>5. PICK m : m = p - 1 OBVIOUS
  <2>6. m \in 0..Len(l) /\ m + 1 = p
    BY <1>2, <2>4, <2>5
  <2>7. \A j \in 1..m : j \in DOMAIN l /\ ~(p <= j)
    BY <1>2, <2>4, <2>5
  <2>8. \A j \in 1..m : ~CutsAt(l, obj, FALSE, j)
    BY <1>3, <2>3, <2>7
  <2>9. NoHole(l, m)
    BY <2>8 DEF NoHole, CutsAt
  <2>10. ASSUME NEW i \in DOMAIN l PROVE Reached(l, obj, FALSE, i) <=> i <= m
    <3>1. CASE i <= m
      <4>1. \A j \in 1..i : j \in 1..m
        BY <1>2, <2>6, <3>1
      <4> QED
        BY <2>8, <3>1, <4>1 DEF Reached
    <3>2. CASE ~(i <= m)
      <4>1. p \in 1..i
        BY <1>2, <2>4, <2>5, <3>2
      <4> QED
        BY <2>4, <3>2, <4>1 DEF Reached
    <3> QED
      BY <3>1, <3>2
  <2>11. reconcile(s) = StateAt(l, m)
    BY <1>1, <1>2, <2>10, ReadsSoFar DEF reconcile
  <2>12. MayStop(s, m)
    <3>1. CASE l[p].op = "zero"
      BY <1>1, <2>6, <3>1 DEF MayStop, EndsAt
    <3>2. CASE Pending(l, p) /\ ~Present(obj, l[p].entry)
      <4>1. ~AllOnDisk(l[p].entry)
        BY <3>2 DEF AllOnDisk, Present
      <4> QED
        BY <1>1, <2>6, <3>2, <4>1 DEF MayStop
    <3> QED
      BY <2>4, <3>1, <3>2 DEF CutsAt
  <2> QED
    BY <1>1, <2>6, <2>9, <2>11, <2>12 DEF AllowedInv
<1> QED
  BY <1>4, <1>5

\* RecoveryInv holds of every directory no process dies in between writing a
\* durable record and the outcome of its fsync.
THEOREM RecoveryInvariant ==
    ASSUME NoDoubtLeft
    PROVE  Spec => []RecoveryInv
<1>1. RecoveryInv /\ [Next]_vars => RecoveryInv'
  BY RecoveryNext
<1> QED
  BY RecoveryInit, <1>1, PTL DEF Spec

\* After any crash and any failed fsync a recovery finds a session, in it all
\* that was acknowledged or served, and it is a state some call left.
THEOREM FailuresSurvived ==
    ASSUME NoDoubtLeft
    PROVE  Spec => []SurvivesFailures
<1>1. RecoveryInv => ServedSurvive /\ RecoversAnAcceptedState
  <2> SUFFICES ASSUME RecoveryInv, NEW s \in Sessions
               PROVE  /\ \A e \in served[s] : e \in reconcile(s).own
                      /\ reconcile(s) \in may[s]
    BY DEF ServedSurvive, RecoversAnAcceptedState
  <2>1. TypeOK /\ ServedInv(s) /\ AllowedInv(s)
    BY DEF RecoveryInv, DirectoryInv, LogInv, FoundInv
  <2>2. \A e \in served[s] : e \in reconcile(s).own
    BY <2>1, FirmIsFound DEF ServedInv, reconcile, View
  <2>3. reconcile(s) \in may[s]
    BY <2>1, FoundIsAllowed
  <2> QED
    BY <2>2, <2>3
<1>2. Spec => []SurvivesCrashes
  BY CrashesSurvived DEF NoPhantomLeft
<1> QED
  BY <1>1, <1>2, RecoveryInvariant, PTL DEF SurvivesFailures

=============================================================================
