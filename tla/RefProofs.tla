----------------------------- MODULE RefProofs ------------------------------
(***************************************************************************)
(* Proofs about RefStore, for any number of processes, readers, names,     *)
(* sessions, updates and faults: what its properties say of the refs, and  *)
(* that the three layouts implement Refs.                                  *)
(*                                                                         *)
(* The argument is about the last record of each name.  A ref is where its *)
(* log ends, unless its file is ahead: an update that failed after placing *)
(* it took its record back.  An update moves its ref when its record is    *)
(* appended; placing the file, fsyncs and mending move nothing; cutting a  *)
(* record back, or losing it with the power, takes back an update nobody   *)
(* was told of, since each record starts where its name's last one ended.  *)
(***************************************************************************)
EXTENDS RefStore, TLAPS, FiniteSetTheorems, WellFoundedInduction

-----------------------------------------------------------------------------
(* What a log of refs says of a name, and what an append does to it.       *)

\* A ref holds a target or none; a log has a record of each update.
Values == Targets \cup {NoTarget}
Records == [name : Names, old : Values, new : Values, durable : BOOLEAN]

\* The place of n's last record in a log, if n has one.
TailOf(l, n) == {i \in 1..Len(l) : l[i].name = n /\ \A j \in i+1..Len(l) : l[j].name /= n}

\* Where the last record of n moves it from, and where to.
OldOf(l, n) == IF TailOf(l, n) = {} THEN NoTarget ELSE l[CHOOSE i \in TailOf(l, n) : TRUE].old
NewOf(l, n) == IF TailOf(l, n) = {} THEN NoTarget ELSE l[CHOOSE i \in TailOf(l, n) : TRUE].new

\* Each record of a name starts where the one before it ended, the first from
\* no target.
Chained(l) ==
  /\ \A i \in 1..Len(l) : (\A k \in 1..i-1 : l[k].name /= l[i].name) => l[i].old = NoTarget
  /\ \A i, j \in 1..Len(l) :
       (/\ i < j /\ l[i].name = l[j].name
        /\ \A k \in i+1..j-1 : l[k].name /= l[i].name) => l[j].old = l[i].new

\* r has the records of l at the places S, in their order.
Thinned(l, r, at, S) ==
  /\ S \subseteq 1..Len(l)
  /\ at \in [1..Len(r) -> S]
  /\ InTheirOrder(at, S)
  /\ \A i \in 1..Len(r) :
       r[i].name = l[at[i]].name /\ r[i].old = l[at[i]].old /\ r[i].new = l[at[i]].new
  /\ \A i \in 1..Len(l) : i \notin S => i \in TailOf(l, l[i].name)

\* A set of places of a sequence has a greatest one.
LEMMA GreatestPlace ==
  ASSUME NEW n \in Nat, NEW S \in SUBSET (1..n), S /= {}
  PROVE  \E x \in S : \A y \in S : y <= x
<1> DEFINE T == {n - i : i \in S}
<1>1. \A i \in S : i \in Nat /\ n - i \in Nat
  OBVIOUS
<1>2. T \in SUBSET Nat /\ T /= {}
  BY <1>1
<1>3. PICK t \in T : \A y \in T : ~(<<y, t>> \in OpToRel(<, Nat))
  <2> HIDE DEF T
  <2> QED BY <1>2, WFMin, NatLessThanWellFounded
<1>4. \A y \in T : ~(y < t)
  <2>1. \A x, y \in Nat : <<y, x>> \in OpToRel(<, Nat) <=> y < x
    BY DEF OpToRel
  <2> HIDE DEF T
  <2> QED BY <1>2, <1>3, <2>1, Zenon
<1>5. PICK x \in S : t = n - x
  OBVIOUS
<1>6. \A y \in S : ~(n - y < n - x)
  BY <1>4, <1>5
<1>7. \A y \in S : y <= x
  BY <1>1, <1>6
<1> QED
  BY <1>7

\* A name has one last record, and no later one.
LEMMA TailIsOne ==
  ASSUME NEW l \in Seq(Records), NEW n, NEW i \in TailOf(l, n)
  PROVE  /\ \A j \in TailOf(l, n) : j = i
         /\ OldOf(l, n) = l[i].old /\ NewOf(l, n) = l[i].new
         /\ i \in 1..Len(l) /\ l[i].name = n
         /\ \A j \in 1..Len(l) : l[j].name = n => j <= i
<1>1. Len(l) \in Nat /\ i \in 1..Len(l)
  BY DEF TailOf
<1>2. \A j \in TailOf(l, n) : j = i
  BY <1>1 DEF TailOf
<1>3. (CHOOSE j \in TailOf(l, n) : TRUE) = i
  BY <1>2
<1>4. \A j \in 1..Len(l) : l[j].name = n => j <= i
  BY <1>1 DEF TailOf
<1> QED
  BY <1>1, <1>2, <1>3, <1>4 DEF OldOf, NewOf, TailOf

\* A name with a record has a last one.
LEMMA NamedHasTail ==
  ASSUME NEW l \in Seq(Records), NEW i \in 1..Len(l)
  PROVE  TailOf(l, l[i].name) /= {}
<1> DEFINE S == {j \in 1..Len(l) : l[j].name = l[i].name}
<1>1. Len(l) \in Nat
  OBVIOUS
<1>2. PICK x \in S : \A y \in S : y <= x
  <2>1. S \in SUBSET (1..Len(l)) /\ S /= {}
    OBVIOUS
  <2> HIDE DEF S
  <2> QED BY <1>1, <2>1, GreatestPlace
<1>3. x \in TailOf(l, l[i].name)
  BY <1>1, <1>2 DEF TailOf
<1> QED
  BY <1>3

\* A name without a record held nothing and holds nothing.
LEMMA NoTail ==
  ASSUME NEW l \in Seq(Records), NEW n, \A i \in 1..Len(l) : l[i].name /= n
  PROVE  TailOf(l, n) = {} /\ OldOf(l, n) = NoTarget /\ NewOf(l, n) = NoTarget
BY DEF TailOf, OldOf, NewOf

\* What a log says of a name is a target or none.
LEMMA EndsAreValues ==
  ASSUME NEW l \in Seq(Records), NEW n
  PROVE  OldOf(l, n) \in Values /\ NewOf(l, n) \in Values
<1>1. CASE TailOf(l, n) = {}
  BY <1>1 DEF OldOf, NewOf, Values
<1>2. CASE TailOf(l, n) /= {}
  <2>1. PICK i \in TailOf(l, n) : TRUE
    BY <1>2
  <2>2. i \in 1..Len(l) /\ OldOf(l, n) = l[i].old /\ NewOf(l, n) = l[i].new
    BY <2>1, TailIsOne
  <2>3. l[i] \in Records
    BY <2>2
  <2> QED BY <2>2, <2>3 DEF Records
<1> QED BY <1>1, <1>2

\* A log with one record more, and what it then says of the record's name n
\* and of every other.
Extends(l, rec, a) == a = Append(l, rec)

EndsIn(l, rec, a, n) ==
  /\ a \in Seq(Records) /\ Len(a) = Len(l) + 1 /\ a[Len(l) + 1] = rec
  /\ \A i \in 1..Len(l) : a[i] = l[i]
  /\ TailOf(a, n) = {Len(l) + 1} /\ OldOf(a, n) = rec.old /\ NewOf(a, n) = rec.new
  /\ \A m : m /= n => /\ TailOf(a, m) = TailOf(l, m)
                     /\ OldOf(a, m) = OldOf(l, m) /\ NewOf(a, m) = NewOf(l, m)

\* A record appended is its name's last.
LEMMA AppendedTail ==
  ASSUME NEW l \in Seq(Records), NEW rec \in Records, NEW a, Extends(l, rec, a),
         NEW n, n = rec.name
  PROVE  EndsIn(l, rec, a, n)
<1>1. /\ a \in Seq(Records) /\ Len(a) = Len(l) + 1 /\ a[Len(l) + 1] = rec
      /\ \A i \in 1..Len(l) : a[i] = l[i]
      /\ Len(l) \in Nat
  BY DEF Extends
<1>2. Len(l) + 1 \in TailOf(a, n)
  BY <1>1 DEF TailOf
<1>3. \A j \in TailOf(a, n) : j = Len(l) + 1
  BY <1>1, <1>2, TailIsOne
<1>4. OldOf(a, n) = rec.old /\ NewOf(a, n) = rec.new
  BY <1>1, <1>2, TailIsOne
<1>5. ASSUME NEW m, m /= n
      PROVE  /\ TailOf(a, m) = TailOf(l, m)
             /\ OldOf(a, m) = OldOf(l, m) /\ NewOf(a, m) = NewOf(l, m)
  <2>1. \A i \in TailOf(a, m) : i \in TailOf(l, m)
    BY <1>1, <1>5 DEF TailOf
  <2>2. \A i \in TailOf(l, m) : i \in TailOf(a, m)
    BY <1>1, <1>5 DEF TailOf
  <2>3. TailOf(a, m) = TailOf(l, m)
    BY <2>1, <2>2
  <2>4. CASE TailOf(l, m) = {}
    BY <2>3, <2>4 DEF OldOf, NewOf
  <2>5. CASE TailOf(l, m) /= {}
    <3>1. PICK i \in TailOf(l, m) : TRUE
      BY <2>5
    <3>2. i \in 1..Len(l) /\ OldOf(l, m) = l[i].old /\ NewOf(l, m) = l[i].new
      BY <3>1, TailIsOne
    <3>3. OldOf(a, m) = a[i].old /\ NewOf(a, m) = a[i].new
      BY <1>1, <2>3, <3>1, TailIsOne
    <3> QED BY <1>1, <2>3, <3>2, <3>3
  <2> QED BY <2>3, <2>4, <2>5
<1>6. TailOf(a, n) = {Len(l) + 1}
  BY <1>2, <1>3
<1> QED BY <1>1, <1>4, <1>5, <1>6 DEF EndsIn

\* A record that starts where its name's last ended carries the chain on.
LEMMA AppendedChain ==
  ASSUME NEW l \in Seq(Records), NEW rec \in Records, Chained(l), rec.old = NewOf(l, rec.name),
         NEW a, Extends(l, rec, a)
  PROVE  Chained(a)
<1>1. /\ a \in Seq(Records) /\ Len(a) = Len(l) + 1 /\ a[Len(l) + 1] = rec
      /\ \A i \in 1..Len(l) : a[i] = l[i]
      /\ Len(l) \in Nat
  BY DEF Extends
<1>2. ASSUME NEW i \in 1..Len(a), \A k \in 1..i-1 : a[k].name /= a[i].name
      PROVE  a[i].old = NoTarget
  <2>1. CASE i \in 1..Len(l)
    <3>1. \A k \in 1..i-1 : k \in 1..Len(l) /\ a[k] = l[k]
      BY <1>1, <2>1
    <3>2. \A k \in 1..i-1 : l[k].name /= l[i].name
      BY <1>1, <1>2, <2>1, <3>1
    <3>3. l[i].old = NoTarget
      BY <2>1, <3>2 DEF Chained
    <3> QED BY <1>1, <2>1, <3>3
  <2>2. CASE i = Len(l) + 1
    <3>1. \A k \in 1..Len(l) : l[k].name /= rec.name
      BY <1>1, <1>2, <2>2
    <3>2. NewOf(l, rec.name) = NoTarget
      BY <3>1, NoTail
    <3> QED BY <1>1, <2>2, <3>2
  <2> QED BY <1>1, <2>1, <2>2
<1>3. ASSUME NEW i \in 1..Len(a), NEW j \in 1..Len(a), i < j, a[i].name = a[j].name,
             \A k \in i+1..j-1 : a[k].name /= a[i].name
      PROVE  a[j].old = a[i].new
  <2>0. i \in 1..Len(l)
    BY <1>1, <1>3
  <2>1. CASE j \in 1..Len(l)
    <3>1. \A k \in i+1..j-1 : k \in 1..Len(l) /\ a[k] = l[k]
      BY <1>1, <2>0, <2>1
    <3>2. \A k \in i+1..j-1 : l[k].name /= l[i].name
      BY <1>1, <1>3, <2>0, <3>1
    <3>3. l[j].old = l[i].new
      BY <1>1, <1>3, <2>0, <2>1, <3>2 DEF Chained
    <3> QED BY <1>1, <2>0, <2>1, <3>3
  <2>2. CASE j = Len(l) + 1
    <3>1. l[i].name = rec.name /\ \A k \in i+1..Len(l) : l[k].name /= rec.name
      BY <1>1, <1>3, <2>0, <2>2
    <3>2. i \in TailOf(l, rec.name)
      BY <2>0, <3>1 DEF TailOf
    <3>3. NewOf(l, rec.name) = l[i].new
      BY <3>2, TailIsOne
    <3> QED BY <1>1, <2>0, <2>2, <3>3
  <2> QED BY <1>1, <2>1, <2>2
<1> QED BY <1>2, <1>3 DEF Chained

-----------------------------------------------------------------------------
(* A log that loses some of its names' last records, to a power loss or a cut. *)

\* The places a thinned log took its records from.
LEMMA ThinnedPlaces ==
  ASSUME NEW l \in Seq(Records), NEW r \in Seq(Records), NEW at, NEW S, Thinned(l, r, at, S)
  PROVE  /\ Len(l) \in Nat /\ Len(r) \in Nat
         /\ \A i \in 1..Len(r) : at[i] \in 1..Len(l) /\ at[i] \in S
         /\ DOMAIN at = 1..Len(r)
<1>1. Len(l) \in Nat /\ Len(r) \in Nat
  OBVIOUS
<1>2. at \in [1..Len(r) -> S] /\ S \subseteq 1..Len(l)
  BY DEF Thinned
<1> QED BY <1>1, <1>2

\* Only last records of names are missing, so the chain holds.
LEMMA ThinnedChain ==
  ASSUME NEW l \in Seq(Records), NEW r \in Seq(Records), NEW at, NEW S,
         Thinned(l, r, at, S), Chained(l)
  PROVE  Chained(r)
<1>1. /\ Len(l) \in Nat /\ Len(r) \in Nat
      /\ \A i \in 1..Len(r) : at[i] \in 1..Len(l) /\ at[i] \in S
      /\ DOMAIN at = 1..Len(r)
  BY ThinnedPlaces
<1>2. \A i, j \in 1..Len(r) : (i < j) <=> (at[i] < at[j])
  <2>1. \A i, j \in 1..Len(r) : i < j => at[i] < at[j]
    BY <1>1 DEF Thinned, InTheirOrder
  <2> QED BY <1>1, <2>1
\* What lies between two records of r, and what is before the first, is in r.
<1>3. ASSUME NEW j \in 1..Len(r), NEW k \in 1..Len(l), k < at[j], l[k].name = r[j].name
      PROVE  \E i \in 1..Len(r) : at[i] = k /\ i < j
  <2>1. r[j].name = l[at[j]].name
    BY DEF Thinned
  <2>2. k \notin TailOf(l, l[k].name)
    BY <1>1, <1>3, <2>1 DEF TailOf
  <2>3. k \in S
    BY <2>2 DEF Thinned
  <2>4. PICK i \in 1..Len(r) : at[i] = k
    BY <1>1, <2>3 DEF Thinned, InTheirOrder
  <2> QED BY <1>2, <1>3, <2>4
<1>4. ASSUME NEW i \in 1..Len(r), \A k \in 1..i-1 : r[k].name /= r[i].name
      PROVE  r[i].old = NoTarget
  <2>1. \A k \in 1..at[i]-1 : l[k].name /= l[at[i]].name
    <3> SUFFICES ASSUME NEW k \in 1..at[i]-1, l[k].name = l[at[i]].name PROVE FALSE
      OBVIOUS
    <3>1. k \in 1..Len(l) /\ k < at[i] /\ l[k].name = r[i].name
      BY <1>1 DEF Thinned
    <3>2. PICK h \in 1..Len(r) : at[h] = k /\ h < i
      BY <1>3, <3>1
    <3>3. h \in 1..i-1 /\ r[h].name = l[k].name
      BY <1>1, <3>2 DEF Thinned
    <3> QED BY <1>4, <3>1, <3>3
  <2>2. l[at[i]].old = NoTarget
    BY <1>1, <2>1 DEF Chained
  <2> QED BY <2>2 DEF Thinned
<1>5. ASSUME NEW i \in 1..Len(r), NEW j \in 1..Len(r), i < j, r[i].name = r[j].name,
             \A k \in i+1..j-1 : r[k].name /= r[i].name
      PROVE  r[j].old = r[i].new
  <2>1. at[i] < at[j] /\ l[at[i]].name = l[at[j]].name
    BY <1>2, <1>5 DEF Thinned
  <2>2. \A k \in at[i]+1..at[j]-1 : l[k].name /= l[at[i]].name
    <3> SUFFICES ASSUME NEW k \in at[i]+1..at[j]-1, l[k].name = l[at[i]].name PROVE FALSE
      OBVIOUS
    <3>1. k \in 1..Len(l) /\ k < at[j] /\ at[i] < k /\ l[k].name = r[j].name
      BY <1>1, <1>5 DEF Thinned
    <3>2. PICK h \in 1..Len(r) : at[h] = k /\ h < j
      BY <1>3, <3>1
    <3>3. i < h
      BY <1>2, <3>1, <3>2
    <3>4. h \in i+1..j-1 /\ r[h].name = l[k].name
      BY <1>1, <3>2, <3>3 DEF Thinned
    <3> QED BY <1>5, <3>1, <3>4
  <2>3. l[at[j]].old = l[at[i]].new
    BY <1>1, <2>1, <2>2 DEF Chained
  <2> QED BY <2>3 DEF Thinned
<1> QED BY <1>4, <1>5 DEF Chained

\* A name whose last record is kept ends as it did.
LEMMA ThinnedKept ==
  ASSUME NEW l \in Seq(Records), NEW r \in Seq(Records), NEW at, NEW S,
         Thinned(l, r, at, S), NEW n, TailOf(l, n) \subseteq S
  PROVE  OldOf(r, n) = OldOf(l, n) /\ NewOf(r, n) = NewOf(l, n)
<1>1. /\ Len(l) \in Nat /\ Len(r) \in Nat
      /\ \A i \in 1..Len(r) : at[i] \in 1..Len(l) /\ at[i] \in S
      /\ DOMAIN at = 1..Len(r)
  BY ThinnedPlaces
<1>2. CASE TailOf(l, n) = {}
  <2>1. \A k \in 1..Len(l) : l[k].name /= n
    BY <1>2, NamedHasTail
  <2>2. \A i \in 1..Len(r) : r[i].name /= n
    BY <1>1, <2>1 DEF Thinned
  <2> QED BY <2>1, <2>2, NoTail
<1>3. CASE TailOf(l, n) /= {}
  <2>1. PICK t \in TailOf(l, n) : TRUE
    BY <1>3
  <2>2. /\ t \in 1..Len(l) /\ l[t].name = n /\ OldOf(l, n) = l[t].old /\ NewOf(l, n) = l[t].new
        /\ \A k \in 1..Len(l) : l[k].name = n => k <= t
    BY <2>1, TailIsOne
  <2>3. PICK i \in 1..Len(r) : at[i] = t
    BY <1>1, <2>1 DEF Thinned, InTheirOrder
  <2>4. \A j \in i+1..Len(r) : r[j].name /= n
    <3> SUFFICES ASSUME NEW j \in i+1..Len(r), r[j].name = n PROVE FALSE
      OBVIOUS
    <3>1. j \in 1..Len(r) /\ i < j
      BY <1>1
    <3>2. at[i] < at[j]
      BY <1>1, <3>1 DEF Thinned, InTheirOrder
    <3>3. at[j] <= t
      BY <1>1, <2>2, <3>1 DEF Thinned
    <3> QED BY <1>1, <2>3, <3>1, <3>2, <3>3
  <2>5. r[i].name = n /\ r[i].old = l[t].old /\ r[i].new = l[t].new
    BY <2>2, <2>3 DEF Thinned
  <2>6. i \in TailOf(r, n)
    BY <2>4, <2>5 DEF TailOf
  <2> QED BY <2>2, <2>5, <2>6, TailIsOne
<1> QED BY <1>2, <1>3

\* A name whose last record is lost ends where that record started.
LEMMA ThinnedLost ==
  ASSUME NEW l \in Seq(Records), NEW r \in Seq(Records), NEW at, NEW S,
         Thinned(l, r, at, S), Chained(l), NEW n, NEW t \in TailOf(l, n), t \notin S
  PROVE  NewOf(r, n) = OldOf(l, n)
<1>1. /\ Len(l) \in Nat /\ Len(r) \in Nat
      /\ \A i \in 1..Len(r) : at[i] \in 1..Len(l) /\ at[i] \in S
      /\ DOMAIN at = 1..Len(r)
  BY ThinnedPlaces
<1>2. /\ t \in 1..Len(l) /\ l[t].name = n /\ OldOf(l, n) = l[t].old
      /\ \A k \in 1..Len(l) : l[k].name = n => k <= t
  BY TailIsOne
<1> DEFINE B == {k \in 1..t-1 : l[k].name = n}
<1>3. CASE B = {}
  <2>1. l[t].old = NoTarget
    BY <1>1, <1>2, <1>3 DEF Chained
  <2>2. \A i \in 1..Len(r) : r[i].name /= n
    <3> SUFFICES ASSUME NEW i \in 1..Len(r), r[i].name = n PROVE FALSE
      OBVIOUS
    <3>1. at[i] \in 1..Len(l) /\ at[i] /= t /\ l[at[i]].name = n
      BY <1>1 DEF Thinned
    <3>2. at[i] \in 1..t-1
      BY <1>1, <1>2, <3>1
    <3> QED BY <1>3, <3>1, <3>2
  <2> QED BY <1>2, <2>1, <2>2, NoTail
<1>4. CASE B /= {}
  <2>1. PICK k \in B : \A j \in B : j <= k
    <3>1. B \in SUBSET (1..t-1) /\ t - 1 \in Nat
      BY <1>1, <1>2
    <3> HIDE DEF B
    <3> QED BY <1>4, <3>1, GreatestPlace
  <2>2. k \in 1..Len(l) /\ k < t /\ l[k].name = n
    BY <1>1, <1>2
  <2>3. \A j \in k+1..t-1 : l[j].name /= n
    BY <1>1, <1>2, <2>1, <2>2
  <2>4. l[t].old = l[k].new
    BY <1>2, <2>2, <2>3 DEF Chained
  <2>5. k \notin TailOf(l, n)
    BY <1>1, <1>2, <2>2 DEF TailOf
  <2>6. PICK i \in 1..Len(r) : at[i] = k
    BY <1>1, <2>2, <2>5 DEF Thinned, InTheirOrder
  <2>7. \A j \in i+1..Len(r) : r[j].name /= n
    <3> SUFFICES ASSUME NEW j \in i+1..Len(r), r[j].name = n PROVE FALSE
      OBVIOUS
    <3>1. j \in 1..Len(r) /\ i < j
      BY <1>1
    <3>2. k < at[j]
      BY <1>1, <2>6, <3>1 DEF Thinned, InTheirOrder
    <3>3. at[j] \in 1..Len(l) /\ at[j] /= t /\ l[at[j]].name = n
      BY <1>1, <3>1 DEF Thinned
    <3>4. at[j] \in B
      BY <1>1, <1>2, <3>3
    <3> QED BY <1>1, <2>1, <2>2, <3>2, <3>3, <3>4
  <2>8. r[i].name = n /\ r[i].new = l[k].new
    BY <2>2, <2>6 DEF Thinned
  <2>9. i \in TailOf(r, n)
    BY <2>7, <2>8 DEF TailOf
  <2> QED BY <1>2, <2>4, <2>8, <2>9, TailIsOne
<1> QED BY <1>3, <1>4

\* The same places with other marks of durability.
LEMMA ThinnedWhole ==
  ASSUME NEW l \in Seq(Records), NEW r \in Seq(Records), Len(r) = Len(l),
         \A i \in 1..Len(l) : r[i].name = l[i].name /\ r[i].old = l[i].old /\ r[i].new = l[i].new
  PROVE  /\ \A n : OldOf(r, n) = OldOf(l, n) /\ NewOf(r, n) = NewOf(l, n) /\ TailOf(r, n) = TailOf(l, n)
         /\ Chained(l) => Chained(r)
<1> DEFINE at == [i \in 1..Len(l) |-> i]
<1>1. Thinned(l, r, at, 1..Len(l))
  BY DEF Thinned, InTheirOrder
<1>2. \A n : TailOf(l, n) \subseteq 1..Len(l)
  BY DEF TailOf
<1>3. \A n : TailOf(r, n) = TailOf(l, n)
  BY DEF TailOf
<1> HIDE DEF at
<1> QED BY <1>1, <1>2, <1>3, ThinnedKept, ThinnedChain

\* A record taken out of the log.
LEMMA RemovedRecord ==
  ASSUME NEW l \in Seq(Records), NEW n, NEW t \in TailOf(l, n)
  PROVE  /\ RemoveAt(l, t) \in Seq(Records) /\ Len(RemoveAt(l, t)) = Len(l) - 1
         /\ \A i \in 1..Len(l)-1 : RemoveAt(l, t)[i] = l[IF i < t THEN i ELSE i + 1]
         /\ Chained(l) => Chained(RemoveAt(l, t))
         /\ NewOf(RemoveAt(l, t), n) = OldOf(l, n) \/ ~Chained(l)
         /\ \A m : m /= n => /\ OldOf(RemoveAt(l, t), m) = OldOf(l, m)
                             /\ NewOf(RemoveAt(l, t), m) = NewOf(l, m)
<1> DEFINE r == RemoveAt(l, t)
           at == [i \in 1..Len(l)-1 |-> IF i < t THEN i ELSE i + 1]
           S == (1..Len(l)) \ {t}
<1>1. t \in 1..Len(l) /\ Len(l) \in Nat /\ l[t].name = n /\ \A m \in TailOf(l, n) : m = t
  BY TailIsOne
<1>2. /\ SubSeq(l, 1, t-1) \in Seq(Records) /\ Len(SubSeq(l, 1, t-1)) = t - 1
      /\ \A i \in 1..t-1 : SubSeq(l, 1, t-1)[i] = l[i]
  BY <1>1
<1>3. /\ SubSeq(l, t+1, Len(l)) \in Seq(Records) /\ Len(SubSeq(l, t+1, Len(l))) = Len(l) - t
      /\ \A i \in 1..Len(l)-t : SubSeq(l, t+1, Len(l))[i] = l[t+i]
  BY <1>1
<1>4. /\ r \in Seq(Records) /\ Len(r) = Len(l) - 1
      /\ \A i \in 1..Len(l)-1 : r[i] = l[IF i < t THEN i ELSE i + 1]
  <2> DEFINE u == SubSeq(l, 1, t-1)
             v == SubSeq(l, t+1, Len(l))
  <2>1. r = u \o v
    BY DEF RemoveAt
  <2> HIDE DEF u, v, r
  <2>0. u \in Seq(Records) /\ v \in Seq(Records) /\ Len(u) = t - 1 /\ Len(v) = Len(l) - t
    BY <1>2, <1>3 DEF u, v
  <2>2. r \in Seq(Records) /\ Len(r) = Len(u) + Len(v)
    BY <2>0, <2>1
  <2>3. Len(r) = Len(l) - 1
    <3>1. Len(u) + Len(v) = Len(l) - 1
      BY <1>1, <2>0
    <3> QED BY <2>2, <3>1
  <2>4. ASSUME NEW i \in 1..Len(l)-1 PROVE r[i] = l[IF i < t THEN i ELSE i + 1]
    <3>2. CASE i < t
      <4>1. i \in 1..Len(u)
        BY <1>1, <2>0, <3>2
      <4>2. r[i] = u[i]
        BY <2>1, <2>0, <4>1
      <4> QED BY <1>2, <2>0, <3>2, <4>1, <4>2 DEF u
    <3>3. CASE i >= t
      <4>1. i - Len(u) \in 1..Len(v) /\ i \in Len(u)+1..Len(u)+Len(v) /\ i - Len(u) = i - t + 1
        BY <1>1, <2>0, <3>3
      <4>2. r[i] = v[i - Len(u)]
        BY <2>1, <2>0, <4>1
      <4>3. v[i - t + 1] = l[t + (i - t + 1)]
        BY <1>3, <2>0, <4>1 DEF v
      <4>4. t + (i - t + 1) = i + 1 /\ ~(i < t)
        BY <1>1, <3>3
      <4> QED BY <4>1, <4>2, <4>3, <4>4
    <3> QED BY <1>1, <3>2, <3>3
  <2> QED BY <2>2, <2>3, <2>4
<1> HIDE DEF r
<1>5. Thinned(l, r, at, S)
  <2>1. at \in [1..Len(r) -> S]
    BY <1>1, <1>4
  <2>2. \A i, j \in DOMAIN at : i < j => at[i] < at[j]
    BY <1>1
  <2>3. \A k \in S : \E i \in DOMAIN at : at[i] = k
    <3> SUFFICES ASSUME NEW k \in S PROVE \E i \in DOMAIN at : at[i] = k
      OBVIOUS
    <3>1. CASE k < t
      <4>1. k \in DOMAIN at /\ at[k] = k
        BY <1>1, <3>1
      <4> QED BY <4>1
    <3>2. CASE k > t
      <4>1. k - 1 \in DOMAIN at /\ at[k - 1] = k
        BY <1>1, <3>2
      <4> QED BY <4>1
    <3> QED BY <1>1, <3>1, <3>2
  <2>4. \A i \in 1..Len(r) :
       r[i].name = l[at[i]].name /\ r[i].old = l[at[i]].old /\ r[i].new = l[at[i]].new
    BY <1>4
  <2>5. \A i \in 1..Len(l) : i \notin S => i \in TailOf(l, l[i].name)
    BY <1>1
  <2> QED BY <2>1, <2>2, <2>3, <2>4, <2>5 DEF Thinned, InTheirOrder
<1>6. t \notin S
  OBVIOUS
<1>7. \A m : m /= n => TailOf(l, m) \subseteq S
  BY <1>1 DEF TailOf
<1> HIDE DEF at, S
<1>8. Chained(l) => Chained(r) /\ NewOf(r, n) = OldOf(l, n)
  BY <1>4, <1>5, <1>6, ThinnedChain, ThinnedLost
<1>9. \A m : m /= n => OldOf(r, m) = OldOf(l, m) /\ NewOf(r, m) = NewOf(l, m)
  BY <1>4, <1>5, <1>7, ThinnedKept
<1> QED BY <1>4, <1>8, <1>9 DEF r

-----------------------------------------------------------------------------
(* The invariant, and what a ref holds in its states.                      *)

\* What a file of refs holds.
Docs == [held : [Names -> Values], seq : Nat]

\* Updates that hold their locks, that have been let through, and that have a
\* record in the log.
Busy == {"mend", "compare", "log", "atomic", "fsync", "place", "dirsync", "answer"}
Decided == {"log", "atomic", "fsync", "place", "dirsync", "answer"}
Recorded == {"fsync", "place", "dirsync", "answer"}

\* Targets an update is asked for are named by session alone.
Asked == [session : Sessions \cup {"none"}, ident : Nat]
Calls == [pc : {"idle", "lock"} \cup Busy, name : Names \cup {Free}, expected : Asked, next : Asked, cur : Values]
Reads == [pc : {"idle", "reading", "resolved"}, name : Names \cup {Free}, file : Values, seq : Nat, got : Values]

\* The types of the variables: incarnations count up from 1, and what is under
\* way has a name.
Types ==
  /\ layout \in {"cas", "jsonl", "atomic"}
  /\ ident \in [Sessions -> Int]
  /\ \A s \in Sessions : ident[s] /= 0 /\ ident[s] <= MaxIdent /\ ident[s] > -MaxIdent
  /\ doc \in Docs /\ disk \in Docs /\ log \in Seq(Records)
  /\ lock \in [Names \cup {AllNames} -> Procs \cup {Free}]
  /\ up \in [Procs -> Calls] /\ rd \in [Readers -> Reads]
  /\ \A p \in Procs : up[p].pc /= "idle" => up[p].name \in Names
  /\ \A r \in Readers : rd[r].pc /= "idle" => rd[r].name \in Names
  /\ pending \in [Names -> [held : BOOLEAN, from : Values]]
  /\ updates \in Nat /\ faults \in Nat

\* An update past its locks holds every lock it wants.
LocksHeld == \A p \in Procs : up[p].pc \in Busy => \A x \in Wanted(p) : lock[x] = p

\* Where the log says the ref is, and where it says it was before.
Latest(n) == NewOf(log, n)
Before(n) == OldOf(log, n)
LastNames(n) == log /= <<>> /\ log[Len(log)].name = n

\* What an update in progress rests on: once it has compared, the ref, its file
\* and its log agree and nothing of the name is open; once it has recorded, the
\* log ends in its record and the file holds what is before or after it.
CallOK(p) ==
  LET n == up[p].name
      c == up[p].cur
      t == up[p].next
  IN
  /\ up[p].pc \in {"compare", "log", "atomic"} =>
       /\ pending[n] = Settled /\ doc.held[n] = c /\ Latest(n) = c
       /\ layout = "jsonl" => doc.seq = Len(log)
  /\ up[p].pc \in Decided => t \in Values /\ t /= c
  /\ up[p].pc \in Recorded =>
       Before(n) = c /\ Latest(n) = t /\ pending[n] = Open(c) /\ (layout = "jsonl" => LastNames(n))
  /\ up[p].pc \in {"fsync", "place"} => doc.held[n] = c /\ (layout = "jsonl" => doc.seq = Len(log) - 1)
  /\ up[p].pc \in {"dirsync", "answer"} => doc.held[n] = t /\ (layout = "jsonl" => doc.seq = Len(log))
  /\ up[p].pc = "atomic" => layout = "atomic"
  /\ up[p].pc \in {"log", "fsync", "place", "dirsync"} => layout /= "atomic"
  /\ up[p].pc \in Decided /\ layout /= "cas" =>
       \A m \in Names : <<n, m>> \in Conflicts => Latest(m) = NoTarget

\* A file that holds neither end of the last record: an update failed after its
\* file was placed, and took its record back.
Ahead(l, n, f) == f /= NewOf(l, n) /\ f /= OldOf(l, n)

\* What the stores with one file keep: the atomic one the log's ends, the JSON
\* lines document all of them but perhaps the last record's.
Fits(lay, l, d) ==
  /\ lay = "atomic" => \A n \in Names : d.held[n] = NewOf(l, n)
  /\ lay = "jsonl" =>
       /\ d.seq \in {Len(l), Len(l) - 1}
       /\ \A n \in Names : d.held[n] = IF d.seq < Len(l) /\ l[Len(l)].name = n THEN OldOf(l, n) ELSE NewOf(l, n)

\* The update that left a file ahead of its log is still open, and moved the
\* ref from where the log ends.
AheadOpen == \A n \in Names : Ahead(log, n, doc.held[n]) => pending[n] = Open(Latest(n))

\* An update of n is at one of these points.
At(n, pcs) == \E p \in Procs : up[p].pc \in pcs /\ up[p].name = n

\* File and log agree on n, and no update of it is open.
RestsAt(n) == doc.held[n] = Latest(n) /\ pending[n] = Settled

\* Until something fails or power is lost, a power loss can undo only updates
\* in progress: everything else is on the disk, in the file and in the log.
DiskOK ==
  /\ \A n \in Names : ~At(n, Recorded) => RestsAt(n)
  /\ \A n \in Names : ~At(n, {"dirsync"}) => disk.held[n] = doc.held[n]
  /\ \A p \in Procs : up[p].pc = "dirsync" => disk.held[up[p].name] \in {up[p].cur, up[p].next}
  /\ layout = "jsonl" =>
       \/ disk = doc
       \/ \E p \in Procs : up[p].pc = "dirsync" /\ disk.seq = Len(log) - 1 /\ disk.held[up[p].name] = up[p].cur
  /\ \A i \in 1..Len(log) : ~log[i].durable =>
       /\ i \in TailOf(log, log[i].name)
       /\ \E p \in Procs : up[p].pc = "fsync" /\ up[p].name = log[i].name

\* Conflicting names are apart where one lock is taken for all of them.
Apart ==
  layout /= "cas" =>
    \A n, m \in Names : <<n, m>> \in Conflicts => Latest(n) = NoTarget \/ Latest(m) = NoTarget

\* The inductive invariant, but for the readers.
Core ==
  /\ Types /\ LocksHeld /\ Chained(log) /\ (\A p \in Procs : CallOK(p))
  /\ Fits(layout, log, doc) /\ AheadOpen /\ (faults = 0 => DiskOK) /\ Apart

\* What a ref resolves to, of any log and whatever was read of the file, and,
\* more simply, of a file that fits the log.
EffIn(lay, l, n, f, seq) ==
  LET lagged == IF lay = "jsonl" THEN {i \in {k \in 1..Len(l) : k = Len(l)} : i > seq /\ l[i].name = n}
                ELSE {i \in TailOf(l, n) : l[i].old = f /\ l[i].new /= f}
  IN  IF lagged = {} THEN f ELSE l[CHOOSE i \in lagged : TRUE].new

HeldOf(l, n, f) == IF Ahead(l, n, f) THEN f ELSE NewOf(l, n)

\* The code's rule is EffIn.
LEMMA EffectiveIsIn ==
  ASSUME NEW n, NEW f, NEW seq
  PROVE  EffectiveFrom(n, f, seq) = EffIn(layout, log, n, f, seq)
BY DEF EffectiveFrom, EffIn, CasLag, JsonlLag, RefTail, RefLogTail, TailOf, Same

\* A read answers what the file held or where the log ends, whatever it read.
LEMMA EffectiveEither ==
  ASSUME NEW lay, NEW l \in Seq(Records), NEW n, NEW f, NEW seq
  PROVE  EffIn(lay, l, n, f, seq) \in {f, NewOf(l, n)}
<1> DEFINE J == {i \in {k \in 1..Len(l) : k = Len(l)} : i > seq /\ l[i].name = n}
           C == {i \in TailOf(l, n) : l[i].old = f /\ l[i].new /= f}
           L == IF lay = "jsonl" THEN J ELSE C
<1>1. EffIn(lay, l, n, f, seq) = IF L = {} THEN f ELSE l[CHOOSE i \in L : TRUE].new
  BY DEF EffIn
<1>2. \A i \in L : i \in TailOf(l, n)
  <2>1. \A i \in J : i \in TailOf(l, n)
    BY DEF TailOf
  <2> QED BY <2>1
<1> HIDE DEF L
<1>3. CASE L = {}
  BY <1>1, <1>3
<1>4. CASE L /= {}
  <2>1. (CHOOSE i \in L : TRUE) \in L
    BY <1>4
  <2>2. l[CHOOSE i \in L : TRUE].new = NewOf(l, n)
    BY <1>2, <2>1, TailIsOne
  <2> QED BY <1>1, <1>4, <2>2
<1> QED BY <1>3, <1>4

\* Of a file that fits its log the rule is: the file where it is ahead, the log
\* otherwise.
LEMMA EffectiveHeld ==
  ASSUME NEW lay, NEW l \in Seq(Records), NEW d \in Docs, NEW n \in Names, Fits(lay, l, d)
  PROVE  EffIn(lay, l, n, d.held[n], d.seq) = HeldOf(l, n, d.held[n])
<1> DEFINE f == d.held[n]
           seq == d.seq
           J == {i \in {k \in 1..Len(l) : k = Len(l)} : i > seq /\ l[i].name = n}
           C == {i \in TailOf(l, n) : l[i].old = f /\ l[i].new /= f}
<1>0. Len(l) \in Nat /\ seq \in Nat
  BY DEF Docs
<1>1. CASE lay = "jsonl"
  <2>1. EffIn(lay, l, n, f, seq) = IF J = {} THEN f ELSE l[CHOOSE i \in J : TRUE].new
    BY <1>1 DEF EffIn
  <2>2. EffIn(lay, l, n, f, seq) \in {f, NewOf(l, n)}
    BY EffectiveEither
  <2>3. f = IF seq < Len(l) /\ l[Len(l)].name = n THEN OldOf(l, n) ELSE NewOf(l, n)
    BY <1>1 DEF Fits
  <2>4. CASE seq < Len(l) /\ l[Len(l)].name = n
    <3>1. J = {Len(l)}
      BY <1>0, <2>4
    <3>2. EffIn(lay, l, n, f, seq) = l[Len(l)].new
      BY <2>1, <3>1
    <3>3. Len(l) \in TailOf(l, n)
      BY <1>0, <2>4 DEF TailOf
    <3>4. NewOf(l, n) = l[Len(l)].new
      BY <3>3, TailIsOne
    <3> QED BY <2>3, <2>4, <3>2, <3>4 DEF HeldOf, Ahead
  <2>5. CASE ~(seq < Len(l) /\ l[Len(l)].name = n)
    BY <2>2, <2>3, <2>5 DEF HeldOf, Ahead
  <2> QED BY <2>4, <2>5
<1>2. CASE lay /= "jsonl"
  <2>1. EffIn(lay, l, n, f, seq) = IF C = {} THEN f ELSE l[CHOOSE i \in C : TRUE].new
    BY <1>2 DEF EffIn
  <2>2. EffIn(lay, l, n, f, seq) \in {f, NewOf(l, n)}
    BY EffectiveEither
  <2>3. CASE TailOf(l, n) = {}
    <3>1. EffIn(lay, l, n, f, seq) = f /\ OldOf(l, n) = NoTarget /\ NewOf(l, n) = NoTarget
      BY <2>1, <2>3 DEF OldOf, NewOf
    <3> QED BY <3>1 DEF HeldOf, Ahead
  <2>4. CASE TailOf(l, n) /= {}
    <3>1. PICK i \in TailOf(l, n) : TRUE
      BY <2>4
    <3>2. OldOf(l, n) = l[i].old /\ NewOf(l, n) = l[i].new /\ \A j \in TailOf(l, n) : j = i
      BY <3>1, TailIsOne
    <3>3. CASE f = OldOf(l, n) /\ f /= NewOf(l, n)
      <4>1. C = {i}
        BY <3>1, <3>2, <3>3
      <4>2. EffIn(lay, l, n, f, seq) = NewOf(l, n)
        BY <2>1, <3>2, <4>1
      <4> QED BY <3>3, <4>2 DEF HeldOf, Ahead
    <3>4. CASE ~(f = OldOf(l, n) /\ f /= NewOf(l, n))
      <4>1. C = {}
        BY <3>1, <3>2, <3>4
      <4>2. EffIn(lay, l, n, f, seq) = f
        BY <2>1, <4>1
      <4> QED BY <3>4, <4>2 DEF HeldOf, Ahead
    <3> QED BY <3>3, <3>4
  <2> QED BY <2>3, <2>4
<1> QED BY <1>1, <1>2

\* What the refs hold, in every state of the invariant.
LEMMA HeldNowIs ==
  ASSUME Types, Fits(layout, log, doc)
  PROVE  /\ HeldNow = [n \in Names |-> HeldOf(log, n, doc.held[n])]
         /\ \A n \in Names : Effective(n) = HeldOf(log, n, doc.held[n])
<1>1. ASSUME NEW n \in Names PROVE Effective(n) = HeldOf(log, n, doc.held[n])
  <2>1. Effective(n) = EffIn(layout, log, n, doc.held[n], doc.seq)
    BY EffectiveIsIn DEF Effective
  <2>2. log \in Seq(Records) /\ doc \in Docs
    BY DEF Types
  <2> QED BY <2>1, <2>2, EffectiveHeld
<1> QED BY <1>1 DEF HeldNow

\* What they hold after a step.
LEMMA HeldNextIs ==
  ASSUME log' \in Seq(Records), doc' \in Docs, Fits(layout, log, doc)'
  PROVE  HeldNow' = [n \in Names |-> HeldOf(log', n, doc'.held[n])]
<1>1. ASSUME NEW n \in Names PROVE Effective(n)' = HeldOf(log', n, doc'.held[n])
  <2>1. Effective(n)' = EffIn(layout', log', n, doc'.held[n], doc'.seq)
    BY DEF Effective, EffectiveFrom, EffIn, CasLag, JsonlLag, RefTail, RefLogTail, TailOf, Same
  <2>2. log' \in Seq(Records) /\ doc' \in Docs /\ Fits(layout', log', doc')
    OBVIOUS
  <2> QED BY <2>1, <2>2, EffectiveHeld
<1> QED BY <1>1 DEF HeldNow

\* Two updates past their locks are of two names, and of a store with a lock
\* for each.
LEMMA OneAtATime ==
  ASSUME Types, LocksHeld, NEW p \in Procs, NEW q \in Procs, p /= q,
         up[p].pc \in Busy, up[q].pc \in Busy
  PROVE  layout = "cas" /\ up[p].name /= up[q].name
<1>1. \A x \in Wanted(p) : lock[x] = p
  BY DEF LocksHeld
<1>2. \A x \in Wanted(q) : lock[x] = q
  BY DEF LocksHeld
<1>3. CASE layout /= "cas"
  <2>1. AllNames \in Wanted(p) /\ AllNames \in Wanted(q)
    BY <1>3 DEF Wanted
  <2> QED BY <1>1, <1>2, <2>1
<1>4. CASE layout = "cas"
  <2>1. up[p].name \in Wanted(p) /\ up[q].name \in Wanted(q)
    BY <1>4 DEF Wanted
  <2> QED BY <1>1, <1>2, <1>4, <2>1
<1> QED BY <1>3, <1>4

\* The invariant holds at first.
LEMMA InitCore == Init => Core
<1> SUFFICES ASSUME Init PROVE Core
  OBVIOUS
<1> USE RefAssumption
<1>1. NoTarget \in Values /\ NoTarget \in Asked
  BY DEF Values, NoTarget, Asked
<1>2. Idle \in Calls /\ NotReading \in Reads /\ Settled \in [held : BOOLEAN, from : Values]
  BY <1>1 DEF Idle, NotReading, Calls, Reads, Settled, Free
<1>3. Types
  <2>1. doc \in Docs /\ disk \in Docs
    BY <1>1 DEF Init, Docs
  <2>2. log \in Seq(Records)
    BY DEF Init
  <2>3. up \in [Procs -> Calls] /\ rd \in [Readers -> Reads] /\ pending \in [Names -> [held : BOOLEAN, from : Values]]
    BY <1>2 DEF Init
  <2>4. lock \in [Names \cup {AllNames} -> Procs \cup {Free}]
    BY DEF Init
  <2>5. layout \in {"cas", "jsonl", "atomic"} /\ ident \in [Sessions -> Int]
        /\ \A s \in Sessions : ident[s] /= 0 /\ ident[s] <= MaxIdent /\ ident[s] > -MaxIdent
    BY DEF Init
  <2>6. updates \in Nat /\ faults \in Nat
    BY DEF Init
  <2>7. (\A p \in Procs : up[p].pc = "idle") /\ (\A r \in Readers : rd[r].pc = "idle")
    BY DEF Init, Idle, NotReading
  <2> QED BY <2>1, <2>2, <2>3, <2>4, <2>5, <2>6, <2>7 DEF Types
<1>4. \A p \in Procs : up[p].pc = "idle"
  BY DEF Init, Idle
<1>5. LocksHeld /\ \A p \in Procs : CallOK(p)
  BY <1>4 DEF LocksHeld, CallOK, Busy, Decided, Recorded
<1>6. Chained(log) /\ \A n : Latest(n) = NoTarget /\ Before(n) = NoTarget
  <2>1. log = << >> /\ Len(log) = 0
    BY DEF Init
  <2>2. \A n : Latest(n) = NoTarget /\ Before(n) = NoTarget
    <3> SUFFICES ASSUME NEW n PROVE Latest(n) = NoTarget /\ Before(n) = NoTarget
      OBVIOUS
    <3>1. log \in Seq(Records) /\ \A i \in 1..Len(log) : log[i].name /= n
      BY <1>3, <2>1 DEF Types
    <3> QED BY <3>1, NoTail DEF Latest, Before
  <2> QED BY <2>1, <2>2 DEF Chained
<1>7. doc.seq = 0 /\ disk = doc /\ \A n \in Names : doc.held[n] = NoTarget /\ pending[n] = Settled
  BY DEF Init
<1>8. Fits(layout, log, doc)
  <2>1. log = << >> /\ Len(log) = 0
    BY DEF Init
  <2> QED BY <1>6, <1>7, <2>1 DEF Fits, Latest, Before
<1>9. AheadOpen /\ Apart
  BY <1>6, <1>7 DEF AheadOpen, Apart, Ahead, Latest
<1>10. DiskOK
  <2>1. log = << >> /\ Len(log) = 0
    BY DEF Init
  <2> QED BY <1>4, <1>6, <1>7, <2>1 DEF DiskOK, RestsAt
<1> QED BY <1>3, <1>5, <1>6, <1>8, <1>9, <1>10 DEF Core

-----------------------------------------------------------------------------
(* Steps of Refs.                                                          *)

\* A step of Refs, or none.
RefStep == Held!Next \/ UNCHANGED <<HeldNow, pending>>

\* An open update is not settled, and says what it moved.
LEMMA OpenIs == \A t : Open(t) /= Settled /\ Open(t).from = t
<1> SUFFICES ASSUME NEW t PROVE Open(t) /= Settled /\ Open(t).from = t
  OBVIOUS
<1>1. Open(t).held = FALSE /\ Open(t).from = t /\ Settled.held = TRUE
  BY DEF Settled, Open
<1> QED BY <1>1

\* No ref holds anything at first.
LEMMA HeldInit == ASSUME Init PROVE Held!Init
<1>1. Core
  BY InitCore
<1>2. HeldNow = [n \in Names |-> HeldOf(log, n, doc.held[n])]
  BY <1>1, HeldNowIs DEF Core
<1>3. \A n \in Names : doc.held[n] = NoTarget /\ NewOf(log, n) = NoTarget
  <2>1. log \in Seq(Records) /\ Len(log) = 0
    BY DEF Init
  <2>2. \A n : \A i \in 1..Len(log) : log[i].name /= n
    BY <2>1
  <2>3. \A n : NewOf(log, n) = NoTarget
    BY <2>1, <2>2, NoTail
  <2> QED BY <2>3 DEF Init
<1>4. HeldNow = [n \in Names |-> NoTarget]
  BY <1>2, <1>3 DEF HeldOf
<1> QED BY <1>4 DEF Init, Held!Init, Held!Settled, Settled

\* One name moves, its update open.
LEMMA MovesOne ==
  ASSUME Types, Types', Fits(layout, log, doc), Fits(layout, log, doc)', NEW n \in Names, NEW t \in Values,
         pending[n] = Settled, ~Ahead(log, n, doc.held[n]), t /= NewOf(log, n),
         pending' = [pending EXCEPT ![n] = Open(NewOf(log, n))],
         HeldOf(log', n, doc'.held[n]) = t,
         \A m \in Names : m /= n => HeldOf(log', m, doc'.held[m]) = HeldOf(log, m, doc.held[m])
  PROVE  RefStep
<1>1. HeldNow = [m \in Names |-> HeldOf(log, m, doc.held[m])]
  BY HeldNowIs
<1>2. HeldNow' = [m \in Names |-> HeldOf(log', m, doc'.held[m])]
  BY HeldNextIs DEF Types
<1>3. HeldNow[n] = NewOf(log, n)
  BY <1>1 DEF HeldOf
<1>4. HeldNow' = [HeldNow EXCEPT ![n] = t]
  BY <1>1, <1>2
<1>5. Held!Move(n, t)
  BY <1>3, <1>4 DEF Held!Move, Held!Settled, Held!Open, Settled, Open
<1>6. t \in Targets \cup {NoTarget}
  BY DEF Values
<1>7. Held!Next
  BY <1>5, <1>6 DEF Held!Next
<1> QED BY <1>7 DEF RefStep

\* Nothing moves, and what was open of S is settled.
LEMMA SettlesSome ==
  ASSUME Types, Types', Fits(layout, log, doc), Fits(layout, log, doc)', NEW S \in SUBSET Names,
         pending' = [m \in Names |-> IF m \in S THEN Settled ELSE pending[m]],
         \A m \in Names : HeldOf(log', m, doc'.held[m]) = HeldOf(log, m, doc.held[m])
  PROVE  RefStep
<1>1. HeldNow = [m \in Names |-> HeldOf(log, m, doc.held[m])]
  BY HeldNowIs
<1>2. HeldNow' = [m \in Names |-> HeldOf(log', m, doc'.held[m])]
  BY HeldNextIs DEF Types
<1>3. HeldNow' = HeldNow
  BY <1>1, <1>2
<1> DEFINE O == {m \in S : pending[m] /= Settled}
<1>4. pending' = [m \in Names |-> IF m \in O THEN Settled ELSE pending[m]]
  <2>1. \A m \in Names : (IF m \in O THEN Settled ELSE pending[m]) = (IF m \in S THEN Settled ELSE pending[m])
    OBVIOUS
  <2> QED BY <2>1
<1>5. O \in SUBSET Held!Unanswered
  BY DEF Held!Unanswered, Held!Settled, Settled
<1> HIDE DEF O
<1>6. Held!Settle(O)
  BY <1>3, <1>4 DEF Held!Settle, Held!Settled, Settled
<1>7. Held!Next
  BY <1>5, <1>6 DEF Held!Next
<1> QED BY <1>7 DEF RefStep

\* Updates nobody was told of are taken back.
LEMMA TakesBack ==
  ASSUME Types, Types', Fits(layout, log, doc), Fits(layout, log, doc)', NEW S \in SUBSET Names,
         \A m \in S : pending[m] = Open(HeldOf(log', m, doc'.held[m])),
         pending' = [m \in Names |-> IF m \in S THEN Settled ELSE pending[m]],
         \A m \in Names : m \notin S => HeldOf(log', m, doc'.held[m]) = HeldOf(log, m, doc.held[m])
  PROVE  RefStep
<1>1. HeldNow = [m \in Names |-> HeldOf(log, m, doc.held[m])]
  BY HeldNowIs
<1>2. HeldNow' = [m \in Names |-> HeldOf(log', m, doc'.held[m])]
  BY HeldNextIs DEF Types
<1>3. \A m \in S : pending[m] /= Settled /\ pending[m].from = HeldOf(log', m, doc'.held[m])
  BY OpenIs
<1>4. HeldNow' = [m \in Names |-> IF m \in S THEN pending[m].from ELSE HeldNow[m]]
  BY <1>1, <1>2, <1>3
<1>5. S \in SUBSET Held!Unanswered
  BY <1>3 DEF Held!Unanswered, Held!Settled, Settled
<1>6. Held!Back(S)
  BY <1>4 DEF Held!Back, Held!Settled, Settled
<1>7. Held!Next
  BY <1>5, <1>6 DEF Held!Next
<1> QED BY <1>7 DEF RefStep

\* A step that leaves the files and the open updates is no step of Refs.
LEMMA NothingMoves ==
  ASSUME UNCHANGED <<layout, doc, log, pending>>
  PROVE  RefStep
<1>1. HeldNow' = HeldNow
  BY DEF HeldNow, Effective, EffectiveFrom, CasLag, JsonlLag, RefTail, RefLogTail, Same
<1> QED BY <1>1 DEF RefStep

-----------------------------------------------------------------------------
(* What a step of one update leaves of the others.                         *)

\* An update of one name leaves the calls of others what they rest on.
LEMMA OthersKeep ==
  ASSUME Core, NEW p \in Procs, up[p].pc \in Busy, layout' = layout,
         \A q \in Procs : q /= p => up'[q] = up[q],
         \A m \in Names : m /= up[p].name =>
           /\ NewOf(log', m) = NewOf(log, m) /\ OldOf(log', m) = OldOf(log, m)
           /\ doc'.held[m] = doc.held[m] /\ pending'[m] = pending[m]
  PROVE  \A q \in Procs : q /= p => CallOK(q)'
<1> SUFFICES ASSUME NEW q \in Procs, q /= p PROVE CallOK(q)'
  OBVIOUS
<1>1. up'[q] = up[q] /\ CallOK(q)
  BY DEF Core
<1>2. CASE up[q].pc \in Busy
  <2>1. layout = "cas" /\ up[p].name /= up[q].name
    BY <1>2, OneAtATime DEF Core
  <2>2. up[q].name \in Names
    BY <1>2 DEF Core, Types, Busy
  <2> DEFINE m == up[q].name
  <2>3. /\ NewOf(log', m) = NewOf(log, m) /\ OldOf(log', m) = OldOf(log, m)
        /\ doc'.held[m] = doc.held[m] /\ pending'[m] = pending[m]
    BY <2>1, <2>2
  <2> QED BY <1>1, <2>1, <2>3 DEF CallOK, Latest, Before
<1>3. CASE up[q].pc \notin Busy
  BY <1>1, <1>3 DEF CallOK, Busy, Decided, Recorded
<1> QED BY <1>2, <1>3

\* What an update rests on, where nothing of it changes.
LEMMA CallKept ==
  ASSUME NEW q \in Procs, CallOK(q), up'[q] = up[q], UNCHANGED <<layout, doc, log, pending>>
  PROVE  CallOK(q)'
BY DEF CallOK, Latest, Before, LastNames

\* An update that has not compared rests on nothing.
LEMMA NotBusyOK ==
  ASSUME NEW q \in Procs, up'[q].pc \notin Busy \ {"mend"}
  PROVE  CallOK(q)'
BY DEF CallOK, Busy, Decided, Recorded

\* An update that goes on keeps its locks.
LEMMA LocksKept ==
  ASSUME LocksHeld, lock' = lock, layout' = layout, NEW p \in Procs, up[p].pc \in Busy,
         up'[p].name = up[p].name, up'[p].expected = up[p].expected,
         up'[p].next.session = up[p].next.session,
         \A q \in Procs : q /= p => up'[q] = up[q]
  PROVE  LocksHeld'
<1> SUFFICES ASSUME NEW q \in Procs, up'[q].pc \in Busy, NEW x \in Wanted(q)' PROVE lock'[x] = q
  BY DEF LocksHeld
<1>1. Wanted(q)' = Wanted(q)
  BY DEF Wanted, Creating
<1>2. up[q].pc \in Busy
  OBVIOUS
<1> QED BY <1>1, <1>2 DEF LocksHeld

\* An update that ends lets its own locks go, and no other.
LEMMA Finished ==
  ASSUME Types, LocksHeld, NEW p \in Procs, Finish(p), layout' = layout
  PROVE  /\ up' \in [Procs -> Calls] /\ up'[p] = Idle /\ up'[p].pc = "idle"
         /\ \A q \in Procs : q /= p => up'[q] = up[q]
         /\ \A q \in Procs : up'[q].pc /= "idle" => up'[q].name \in Names
         /\ lock' \in [Names \cup {AllNames} -> Procs \cup {Free}]
         /\ LocksHeld' /\ CallOK(p)'
<1>1. Idle \in Calls /\ Idle.pc = "idle"
  BY DEF Idle, Calls, Values, NoTarget, Asked, Free
<1>2. /\ up' \in [Procs -> Calls] /\ up'[p] = Idle /\ up'[p].pc = "idle"
      /\ \A q \in Procs : q /= p => up'[q] = up[q]
  BY <1>1 DEF Types, Finish
<1>3. \A q \in Procs : up'[q].pc /= "idle" => up'[q].name \in Names
  BY <1>2 DEF Types
<1>4. lock' = [x \in Names \cup {AllNames} |-> IF lock[x] = p THEN Free ELSE lock[x]]
  BY DEF Finish, Unlocked, Types
<1>5. lock' \in [Names \cup {AllNames} -> Procs \cup {Free}]
  BY <1>4 DEF Types
<1>6. LocksHeld'
  <2> SUFFICES ASSUME NEW q \in Procs, up'[q].pc \in Busy, NEW x \in Wanted(q)' PROVE lock'[x] = q
    BY DEF LocksHeld
  <2>1. q /= p /\ up'[q] = up[q] /\ up[q].pc \in Busy
    BY <1>2 DEF Busy
  <2>2. Wanted(q)' = Wanted(q)
    BY <2>1 DEF Wanted, Creating
  <2>3. lock[x] = q
    BY <2>1, <2>2 DEF LocksHeld
  <2>4. up[q].name \in Names
    BY <2>1 DEF Types, Busy
  <2>5. x \in Names \cup {AllNames}
    BY <2>2, <2>4 DEF Wanted
  <2> QED BY <1>4, <2>1, <2>3, <2>5
<1>7. CallOK(p)'
  BY <1>2, NotBusyOK DEF Busy
<1> QED BY <1>2, <1>3, <1>5, <1>6, <1>7

\* What the files owe each other, where they and the open updates stay.
LEMMA FilesKept ==
  ASSUME Core, UNCHANGED <<layout, doc, disk, log, pending>>
  PROVE  Chained(log)' /\ Fits(layout, log, doc)' /\ AheadOpen' /\ Apart'
<1>1. Chained(log') /\ Fits(layout', log', doc')
  BY DEF Core
<1>2. AheadOpen'
  BY DEF Core, AheadOpen, Latest
<1>3. Apart'
  BY DEF Core, Apart, Latest
<1> QED BY <1>1, <1>2, <1>3

\* No update begins or ends its stay in the log, or beside its directory's fsync.
LEMMA DiskSame ==
  ASSUME Core, faults' = faults, UNCHANGED <<layout, doc, disk, log, pending>>,
         \A q \in Procs : up'[q] = up[q] \/ (up[q].pc \notin Recorded /\ up'[q].pc \notin Recorded)
  PROVE  faults' = 0 => DiskOK'
<1> SUFFICES ASSUME faults = 0 PROVE DiskOK'
  OBVIOUS
<1>1. DiskOK
  BY DEF Core
<1>2. \A n, pcs : pcs \subseteq Recorded => At(n, pcs)' = At(n, pcs)
  <2> SUFFICES ASSUME NEW n, NEW pcs, pcs \subseteq Recorded PROVE At(n, pcs)' = At(n, pcs)
    OBVIOUS
  <2>1. ASSUME NEW q \in Procs, up[q].pc \in pcs PROVE up'[q] = up[q]
    BY <2>1
  <2>2. ASSUME NEW q \in Procs, up'[q].pc \in pcs PROVE up'[q] = up[q]
    BY <2>2
  <2> QED BY <2>1, <2>2 DEF At
<1>3. Recorded \subseteq Recorded /\ {"dirsync"} \subseteq Recorded /\ {"fsync"} \subseteq Recorded
  BY DEF Recorded
<1>4. \A n : At(n, Recorded)' = At(n, Recorded) /\ At(n, {"dirsync"})' = At(n, {"dirsync"}) /\ At(n, {"fsync"})' = At(n, {"fsync"})
  BY <1>2, <1>3
<1>5. \A n \in Names : ~At(n, Recorded)' => RestsAt(n)'
  BY <1>1, <1>4 DEF DiskOK, RestsAt, Latest
<1>6. \A n \in Names : ~At(n, {"dirsync"})' => disk'.held[n] = doc'.held[n]
  BY <1>1, <1>4 DEF DiskOK
<1>7. \A q \in Procs : up'[q].pc = "dirsync" => up'[q] = up[q]
  BY <1>3
<1>8. \A q \in Procs : up'[q].pc = "dirsync" => disk'.held[up'[q].name] \in {up'[q].cur, up'[q].next}
  BY <1>1, <1>7 DEF DiskOK
<1>9. layout' = "jsonl" =>
       \/ disk' = doc'
       \/ \E q \in Procs : up'[q].pc = "dirsync" /\ disk'.seq = Len(log') - 1 /\ disk'.held[up'[q].name] = up'[q].cur
  <2> SUFFICES ASSUME layout = "jsonl", disk /= doc
               PROVE  \E q \in Procs : up'[q].pc = "dirsync" /\ disk'.seq = Len(log') - 1 /\ disk'.held[up'[q].name] = up'[q].cur
    OBVIOUS
  <2>1. PICK q \in Procs : up[q].pc = "dirsync" /\ disk.seq = Len(log) - 1 /\ disk.held[up[q].name] = up[q].cur
    BY <1>1 DEF DiskOK
  <2>2. up'[q] = up[q]
    BY <1>3, <2>1
  <2> QED BY <2>1, <2>2
<1>10. ASSUME NEW i \in 1..Len(log), ~log[i].durable
       PROVE  /\ i \in TailOf(log, log[i].name)
              /\ \E q \in Procs : up'[q].pc = "fsync" /\ up'[q].name = log[i].name
  <2>1. i \in TailOf(log, log[i].name)
    BY <1>1, <1>10 DEF DiskOK
  <2>2. PICK q \in Procs : up[q].pc = "fsync" /\ up[q].name = log[i].name
    BY <1>1, <1>10 DEF DiskOK
  <2>3. up'[q] = up[q]
    BY <1>3, <2>2
  <2> QED BY <2>1, <2>2, <2>3
<1>11. \A i \in 1..Len(log') : ~log'[i].durable =>
         /\ i \in TailOf(log', log'[i].name)
         /\ \E q \in Procs : up'[q].pc = "fsync" /\ up'[q].name = log'[i].name
  BY <1>10
<1> QED BY <1>5, <1>6, <1>8, <1>9, <1>11 DEF DiskOK

-----------------------------------------------------------------------------
(* Steps that leave the files.                                             *)

\* UpdateRef is called.
LEMMA BeginStep == ASSUME Core, NEW p \in Procs, Begin(p) PROVE Core' /\ RefStep
<1>1. PICK n \in Names, e \in Sessions \cup {"none"}, s \in Sessions \cup {"none"} :
        up' = [up EXCEPT ![p] = [pc |-> "lock", name |-> n, cur |-> NoTarget,
                                 expected |-> [session |-> e, ident |-> 0],
                                 next |-> [session |-> s, ident |-> 0]]]
  BY DEF Begin
<1>2. up[p].pc = "idle" /\ UNCHANGED <<layout, ident, doc, disk, log, lock, rd, pending, faults>> /\ updates' = updates + 1
  BY DEF Begin, files
<1> DEFINE v == [pc |-> "lock", name |-> n, cur |-> NoTarget,
                 expected |-> [session |-> e, ident |-> 0],
                 next |-> [session |-> s, ident |-> 0]]
<1>3. v \in Calls
  BY DEF Calls, Asked, Values
<1>4. v.pc = "lock" /\ v.name = n
  OBVIOUS
<1> HIDE DEF v
<1>5. up' = [up EXCEPT ![p] = v]
  BY <1>1 DEF v
<1>6. up' \in [Procs -> Calls] /\ up'[p] = v /\ \A q \in Procs : q /= p => up'[q] = up[q]
  BY <1>3, <1>5 DEF Core, Types
<1>7. Types'
  <2>1. updates' \in Nat
    BY <1>2 DEF Core, Types
  <2> QED BY <1>2, <1>4, <1>6, <2>1 DEF Core, Types
<1>8. LocksHeld'
  <2> SUFFICES ASSUME NEW q \in Procs, up'[q].pc \in Busy, NEW x \in Wanted(q)' PROVE lock'[x] = q
    BY DEF LocksHeld
  <2>1. q /= p /\ up'[q] = up[q]
    BY <1>4, <1>6 DEF Busy
  <2>2. Wanted(q)' = Wanted(q)
    BY <1>2, <2>1 DEF Wanted, Creating
  <2> QED BY <1>2, <2>1, <2>2 DEF Core, LocksHeld
<1>9. \A q \in Procs : CallOK(q)'
  <2>1. CallOK(p)'
    BY <1>4, <1>6, NotBusyOK DEF Busy
  <2>2. \A q \in Procs : q /= p => CallOK(q)'
    BY <1>2, <1>6, CallKept DEF Core
  <2> QED BY <2>1, <2>2
<1>10. Chained(log)' /\ Fits(layout, log, doc)' /\ AheadOpen' /\ Apart'
  BY <1>2, FilesKept
<1>11. faults' = 0 => DiskOK'
  <2>1. up[p].pc \notin Recorded /\ up'[p].pc \notin Recorded
    BY <1>2, <1>4, <1>6 DEF Recorded
  <2> QED BY <1>2, <1>6, <2>1, DiskSame
<1>12. RefStep
  BY <1>2, NothingMoves
<1> QED BY <1>7, <1>8, <1>9, <1>10, <1>11, <1>12 DEF Core

\* It takes its locks, every name's first.
LEMMA TakeLockStep == ASSUME Core, NEW p \in Procs, TakeLock(p) PROVE Core' /\ RefStep
<1> DEFINE missing == {x \in Wanted(p) : lock[x] /= p}
           first == IF AllNames \in missing THEN AllNames ELSE CHOOSE x \in missing : TRUE
           to == IF missing = {first} THEN "mend" ELSE "lock"
<1>1. /\ up[p].pc = "lock" /\ lock[first] = Free /\ lock' = [lock EXCEPT ![first] = p]
      /\ up' = [up EXCEPT ![p].pc = to]
      /\ UNCHANGED <<layout, ident, doc, disk, log, rd, pending, updates, faults>>
  BY DEF TakeLock, files, bounds
<1>2. \A x \in Wanted(p) : x \in missing \/ lock[x] = p
  OBVIOUS
<1>3. missing = {first} => \A x \in Wanted(p) : x = first \/ lock[x] = p
  BY <1>2
<1>4. to \in {"mend", "lock"} /\ (to = "mend" => missing = {first})
  OBVIOUS
<1> HIDE DEF missing, first, to
<1> DEFINE v == [up[p] EXCEPT !.pc = to]
<1>5. up' = [up EXCEPT ![p] = v] /\ up[p] \in Calls
  BY <1>1 DEF Core, Types
<1>6. /\ v \in Calls /\ v.pc = to /\ v.name = up[p].name /\ v.expected = up[p].expected /\ v.next = up[p].next
  BY <1>4, <1>5 DEF Calls, Busy
<1> HIDE DEF v
<1>7. up' \in [Procs -> Calls] /\ up'[p] = v /\ \A q \in Procs : q /= p => up'[q] = up[q]
  BY <1>5, <1>6 DEF Core, Types
<1>8. up[p].name \in Names
  BY <1>1 DEF Core, Types
<1>9. lock \in [Names \cup {AllNames} -> Procs \cup {Free}]
  BY DEF Core, Types
<1>10. lock' \in [Names \cup {AllNames} -> Procs \cup {Free}]
  BY <1>1, <1>9
<1>11. Types'
  BY <1>1, <1>6, <1>7, <1>8, <1>10 DEF Core, Types
<1>12. LocksHeld'
  <2> SUFFICES ASSUME NEW q \in Procs, up'[q].pc \in Busy, NEW x \in Wanted(q)' PROVE lock'[x] = q
    BY DEF LocksHeld
  <2>1. up'[q].name \in Names
    BY <1>11 DEF Types, Busy
  <2>2. x \in Names \cup {AllNames}
    BY <2>1 DEF Wanted
  <2>3. CASE q = p
    <3>1. Wanted(p)' = Wanted(p)
      BY <1>1, <1>6, <1>7 DEF Wanted, Creating
    <3>2. to = "mend"
      BY <1>4, <1>6, <1>7, <2>3 DEF Busy
    <3>3. x = first \/ lock[x] = p
      BY <1>3, <1>4, <2>3, <3>1, <3>2
    <3> QED BY <1>1, <1>9, <2>2, <2>3, <3>3
  <2>4. CASE q /= p
    <3>1. up'[q] = up[q]
      BY <1>7, <2>4
    <3>2. Wanted(q)' = Wanted(q)
      BY <1>1, <3>1 DEF Wanted, Creating
    <3>3. lock[x] = q
      BY <3>1, <3>2 DEF Core, LocksHeld
    <3>4. x /= first
      BY <1>1, <3>3, RefAssumption
    <3> QED BY <1>1, <1>9, <2>2, <3>3, <3>4
  <2> QED BY <2>3, <2>4
<1>13. \A q \in Procs : CallOK(q)'
  <2>1. CallOK(p)'
    BY <1>4, <1>6, <1>7, NotBusyOK DEF Busy
  <2>2. \A q \in Procs : q /= p => CallOK(q)'
    BY <1>1, <1>7, CallKept DEF Core
  <2> QED BY <2>1, <2>2
<1>14. Chained(log)' /\ Fits(layout, log, doc)' /\ AheadOpen' /\ Apart'
  BY <1>1, FilesKept
<1>15. faults' = 0 => DiskOK'
  <2>1. up[p].pc \notin Recorded /\ up'[p].pc \notin Recorded
    BY <1>1, <1>4, <1>6, <1>7 DEF Recorded
  <2> QED BY <1>1, <1>7, <2>1, DiskSame
<1>16. RefStep
  BY <1>1, NothingMoves
<1> QED BY <1>11, <1>12, <1>13, <1>14, <1>15, <1>16 DEF Core

\* An update that ends where the log and the files stay.
LEMMA EndsOK ==
  ASSUME Core, NEW p \in Procs, Finish(p), UNCHANGED <<layout, ident, doc, disk, log, rd, pending, updates>>,
         faults' \in Nat, faults' = 0 => faults = 0 /\ up[p].pc \notin Recorded
  PROVE  Core' /\ RefStep
<1>1. Types /\ LocksHeld
  BY DEF Core
<1>2. /\ up' \in [Procs -> Calls] /\ up'[p].pc = "idle"
      /\ \A q \in Procs : q /= p => up'[q] = up[q]
      /\ \A q \in Procs : up'[q].pc /= "idle" => up'[q].name \in Names
      /\ lock' \in [Names \cup {AllNames} -> Procs \cup {Free}]
      /\ LocksHeld' /\ CallOK(p)'
  BY <1>1, Finished
<1>3. Types'
  BY <1>1, <1>2 DEF Types
<1>4. \A q \in Procs : CallOK(q)'
  BY <1>2, CallKept DEF Core
<1>5. Chained(log)' /\ Fits(layout, log, doc)' /\ AheadOpen' /\ Apart'
  BY FilesKept
<1>6. faults' = 0 => DiskOK'
  <2> SUFFICES ASSUME faults' = 0 PROVE DiskOK'
    OBVIOUS
  <2>1. up[p].pc \notin Recorded /\ up'[p].pc \notin Recorded /\ faults' = faults
    BY <1>2 DEF Recorded
  <2> QED BY <1>2, <2>1, DiskSame
<1>7. RefStep
  BY NothingMoves
<1> QED BY <1>2, <1>3, <1>4, <1>5, <1>6, <1>7 DEF Core

\* A process is killed: its update stays as far as it was.
LEMMA KillStep == ASSUME Core, NEW p \in Procs, Kill(p) PROVE Core' /\ RefStep
<1>1. /\ Finish(p) /\ UNCHANGED <<layout, ident, doc, disk, log, rd, pending, updates>>
      /\ faults' = faults + 1
  BY DEF Kill, Fault, files
<1>2. faults \in Nat
  BY DEF Core, Types
<1>3. faults' \in Nat /\ faults' /= 0
  BY <1>1, <1>2
<1> QED BY <1>1, <1>3, EndsOK

\* The update is refused, or let through with what it rests on.
LEMMA CompareStep == ASSUME Core, NEW p \in Procs, Compare(p) PROVE Core' /\ RefStep
<1>1. /\ up[p].pc = "compare"
      /\ UNCHANGED <<layout, ident, doc, disk, log, rd, pending, updates, faults>>
  BY DEF Compare, files, bounds
<1>2. CASE Refused(p)
  <2>1. Finish(p)
    BY <1>2 DEF Compare
  <2>2. up[p].pc \notin Recorded /\ faults \in Nat
    BY <1>1 DEF Recorded, Core, Types
  <2> QED BY <1>1, <2>1, <2>2, EndsOK
<1>3. CASE ~Refused(p)
  <2> DEFINE s == up[p].next.session
             to == IF layout = "atomic" THEN "atomic" ELSE "log"
             t == IF s = "none" THEN NoTarget ELSE [session |-> s, ident |-> ident[s]]
             v == [up[p] EXCEPT !.pc = to, !.next = t]
             n == up[p].name
  <2>1. up' = [up EXCEPT ![p].pc = to, ![p].next = t] /\ lock' = lock
    BY <1>3 DEF Compare
  <2>2. up[p] \in Calls /\ n \in Names /\ CallOK(p) /\ up \in [Procs -> Calls]
    BY <1>1 DEF Core, Types
  <2>3. up' = [up EXCEPT ![p] = v]
    BY <2>1, <2>2
  <2>4. s \in Sessions \cup {"none"}
    BY <2>2 DEF Calls, Asked
  <2>5. t \in Values /\ t \in Asked /\ t.session = s
    <3>1. CASE s = "none"
      BY <3>1 DEF Values, NoTarget, Asked
    <3>2. CASE s /= "none"
      <4>1. s \in Sessions /\ ident[s] \in Int /\ ident[s] /= 0 /\ ident[s] <= MaxIdent
        BY <2>4, <3>2 DEF Core, Types
      <4>2. ~(ident[s] < 0)
        BY <1>3, <3>2 DEF Refused
      <4>3. ident[s] \in 1..MaxIdent /\ ident[s] \in Nat
        BY <4>1, <4>2, RefAssumption
      <4>4. t = [session |-> s, ident |-> ident[s]]
        BY <3>2
      <4> QED BY <4>1, <4>3, <4>4 DEF Values, Targets, Asked
    <3> QED BY <3>1, <3>2
  <2>6. t /= up[p].cur
    <3>1. up[p].cur.session /= s
      BY <1>3 DEF Refused
    <3> QED BY <2>5, <3>1
  <2>7. up[p].cur = NoTarget => ~RefConflict(n)
    BY <1>3 DEF Refused
  <2> HIDE DEF t, s
  <2>8. /\ v \in Calls /\ v.pc = to /\ v.name = n /\ v.expected = up[p].expected /\ v.next = t /\ v.cur = up[p].cur
    BY <2>2, <2>5 DEF Calls, Busy
  <2>9. to \in {"atomic", "log"} /\ (to = "atomic" <=> layout = "atomic")
    OBVIOUS
  <2> HIDE DEF v, to
  <2>10. up' \in [Procs -> Calls] /\ up'[p] = v /\ \A q \in Procs : q /= p => up'[q] = up[q]
    BY <2>2, <2>3, <2>8
  <2>11. Types'
    BY <1>1, <2>1, <2>2, <2>8, <2>9, <2>10 DEF Core, Types
  <2>12. LocksHeld'
    <3>1. up'[p].next.session = up[p].next.session /\ up[p].pc \in Busy
      BY <1>1, <2>5, <2>8, <2>10 DEF s, Busy
    <3> QED BY <1>1, <2>1, <2>8, <2>10, <3>1, LocksKept DEF Core
  <2>13. layout /= "cas" => \A m \in Names : <<n, m>> \in Conflicts => Latest(m) = NoTarget
    <3> SUFFICES ASSUME layout /= "cas", NEW m \in Names, <<n, m>> \in Conflicts PROVE Latest(m) = NoTarget
      OBVIOUS
    <3>1. Latest(n) = up[p].cur
      BY <1>1, <2>2 DEF CallOK
    <3>2. CASE up[p].cur /= NoTarget
      BY <2>2, <3>1, <3>2 DEF Core, Apart
    <3>3. CASE up[p].cur = NoTarget
      <4>1. Effective(m) = NoTarget
        BY <2>7, <3>3 DEF RefConflict
      <4>2. Effective(m) = HeldOf(log, m, doc.held[m])
        BY HeldNowIs DEF Core
      <4>3. ~Ahead(log, m, doc.held[m])
        <5>1. layout \in {"jsonl", "atomic"} /\ Fits(layout, log, doc)
          BY DEF Core, Types
        <5> QED BY <5>1 DEF Fits, Ahead
      <4> QED BY <4>1, <4>2, <4>3 DEF HeldOf, Latest
    <3> QED BY <3>2, <3>3
  <2>14. \A q \in Procs : CallOK(q)'
    <3>1. CallOK(p)'
      <4>1. /\ up'[p].name = n /\ up'[p].cur = up[p].cur /\ up'[p].next = t /\ up'[p].pc \in {"atomic", "log"}
            /\ up'[p].pc = "atomic" <=> layout = "atomic"
        BY <2>8, <2>9, <2>10
      <4>2. /\ pending[n] = Settled /\ doc.held[n] = up[p].cur /\ Latest(n) = up[p].cur
            /\ layout = "jsonl" => doc.seq = Len(log)
        BY <1>1, <2>2 DEF CallOK
      <4>3. up'[p].pc \notin Recorded
        BY <4>1 DEF Recorded
      <4> QED BY <1>1, <2>5, <2>6, <2>13, <4>1, <4>2, <4>3 DEF CallOK, Latest, Decided
    <3>2. \A q \in Procs : q /= p => CallOK(q)'
      BY <1>1, <2>10, CallKept DEF Core
    <3> QED BY <3>1, <3>2
  <2>15. Chained(log)' /\ Fits(layout, log, doc)' /\ AheadOpen' /\ Apart'
    BY <1>1, FilesKept
  <2>16. faults' = 0 => DiskOK'
    <3>1. up[p].pc \notin Recorded /\ up'[p].pc \notin Recorded
      BY <1>1, <2>8, <2>9, <2>10 DEF Recorded
    <3> QED BY <1>1, <2>10, <3>1, DiskSame
  <2>17. RefStep
    BY <1>1, NothingMoves
  <2> QED BY <2>11, <2>12, <2>14, <2>15, <2>16, <2>17 DEF Core
<1> QED BY <1>2, <1>3

\* Readers and sessions touch none of what the invariant is about.
LEMMA AsideStep ==
  ASSUME Core, UNCHANGED <<layout, doc, disk, log, lock, up, pending, updates, faults>>,
         ident' \in [Sessions -> Int],
         \A s \in Sessions : ident'[s] /= 0 /\ ident'[s] <= MaxIdent /\ ident'[s] > -MaxIdent,
         rd' \in [Readers -> Reads], \A r \in Readers : rd'[r].pc /= "idle" => rd'[r].name \in Names
  PROVE  Core' /\ RefStep
<1>1. Types'
  BY DEF Core, Types
<1>2. LocksHeld'
  BY DEF Core, LocksHeld, Wanted, Creating
<1>3. \A q \in Procs : CallOK(q)'
  BY CallKept DEF Core
<1>4. Chained(log)' /\ Fits(layout, log, doc)' /\ AheadOpen' /\ Apart'
  BY FilesKept
<1>5. faults' = 0 => DiskOK'
  BY DiskSame
<1>6. RefStep
  BY NothingMoves
<1> QED BY <1>1, <1>2, <1>3, <1>4, <1>5, <1>6 DEF Core

\* A reader's step moves no ref.
LEMMA ReaderStep ==
  ASSUME Core, NEW r \in Readers, ReadRefFile(r) \/ ReadRefTail(r) \/ ResolveDone(r)
  PROVE  Core' /\ RefStep
<1>1. UNCHANGED <<layout, ident, doc, disk, log, lock, up, pending, updates, faults>>
  BY DEF ReadRefFile, ReadRefTail, ResolveDone, files, bounds
<1>2. Types /\ rd \in [Readers -> Reads] /\ rd[r] \in Reads
  BY DEF Core, Types
<1>3. NotReading \in Reads /\ NotReading.pc = "idle"
  BY DEF NotReading, Reads, Values
<1>4. CASE ReadRefFile(r)
  <2>1. PICK n \in Names :
         rd' = [rd EXCEPT ![r] = [pc |-> "reading", name |-> n, file |-> doc.held[n], seq |-> doc.seq, got |-> NoTarget]]
    BY <1>4 DEF ReadRefFile
  <2>2. doc.held[n] \in Values /\ doc.seq \in Nat
    BY <1>2 DEF Types, Docs
  <2>3. [pc |-> "reading", name |-> n, file |-> doc.held[n], seq |-> doc.seq, got |-> NoTarget] \in Reads
    BY <2>2 DEF Reads, Values
  <2>4. rd' \in [Readers -> Reads] /\ rd'[r].name \in Names /\ \A s \in Readers : s /= r => rd'[s] = rd[s]
    BY <1>2, <2>1, <2>3
  <2>5. \A s \in Readers : rd'[s].pc /= "idle" => rd'[s].name \in Names
    BY <1>2, <2>4 DEF Types
  <2> QED BY <1>1, <1>2, <2>4, <2>5, AsideStep DEF Types
<1>5. CASE ReadRefTail(r)
  <2> DEFINE got == EffectiveFrom(rd[r].name, rd[r].file, rd[r].seq)
             v == [rd[r] EXCEPT !.pc = "resolved", !.got = got]
  <2>1. rd[r].pc = "reading" /\ (rd' = [rd EXCEPT ![r].pc = "resolved", ![r].got = got] \/ rd' = [rd EXCEPT ![r] = NotReading])
    BY <1>5 DEF ReadRefTail
  <2>2. rd' = [rd EXCEPT ![r] = v] \/ rd' = [rd EXCEPT ![r] = NotReading]
    BY <1>2, <2>1
  <2>3. got \in Values
    <3>1. got = EffIn(layout, log, rd[r].name, rd[r].file, rd[r].seq)
      BY EffectiveIsIn
    <3>2. log \in Seq(Records) /\ rd[r].file \in Values
      BY <1>2 DEF Types, Reads
    <3> QED BY <3>1, <3>2, EffectiveEither, EndsAreValues
  <2> HIDE DEF got
  <2>4. v \in Reads /\ v.name = rd[r].name
    BY <1>2, <2>3 DEF Reads
  <2> HIDE DEF v
  <2>5. /\ rd' \in [Readers -> Reads] /\ (rd'[r] = v \/ rd'[r] = NotReading)
        /\ \A s \in Readers : s /= r => rd'[s] = rd[s]
    BY <1>2, <1>3, <2>2, <2>4
  <2>6. \A s \in Readers : rd'[s].pc /= "idle" => rd'[s].name \in Names
    BY <1>2, <1>3, <2>1, <2>4, <2>5 DEF Types
  <2> QED BY <1>1, <1>2, <2>5, <2>6, AsideStep DEF Types
<1>6. CASE ResolveDone(r)
  <2>1. rd' = [rd EXCEPT ![r] = NotReading]
    BY <1>6 DEF ResolveDone
  <2>2. /\ rd' \in [Readers -> Reads] /\ rd'[r] = NotReading
        /\ \A s \in Readers : s /= r => rd'[s] = rd[s]
    BY <1>2, <1>3, <2>1
  <2>3. \A s \in Readers : rd'[s].pc /= "idle" => rd'[s].name \in Names
    BY <1>2, <1>3, <2>2 DEF Types
  <2> QED BY <1>1, <1>2, <2>2, <2>3, AsideStep DEF Types
<1> QED BY <1>4, <1>5, <1>6

\* Deleting or creating a session moves no ref.
LEMMA SessionStep ==
  ASSUME Core, NEW s \in Sessions, DeleteSession(s) \/ CreateSession(s)
  PROVE  Core' /\ RefStep
<1>1. UNCHANGED <<layout, doc, disk, log, lock, up, rd, pending, updates, faults>>
  BY DEF DeleteSession, CreateSession, files, bounds
<1>2. Types /\ ident \in [Sessions -> Int] /\ MaxIdent \in Nat
  BY RefAssumption DEF Core, Types
<1>3. ident[s] \in Int /\ ident[s] /= 0 /\ ident[s] <= MaxIdent /\ ident[s] > -MaxIdent
  BY <1>2 DEF Types
<1>4. PICK v \in Int : /\ ident' = [ident EXCEPT ![s] = v]
                       /\ v /= 0 /\ v <= MaxIdent /\ v > -MaxIdent
  <2>1. CASE DeleteSession(s)
    <3>1. ident[s] > 0 /\ ident[s] < MaxIdent /\ ident' = [ident EXCEPT ![s] = -ident[s]]
      BY <2>1 DEF DeleteSession
    <3>2. -ident[s] \in Int /\ -ident[s] /= 0 /\ -ident[s] <= MaxIdent /\ -ident[s] > -MaxIdent
      BY <1>2, <1>3, <3>1
    <3> QED BY <3>1, <3>2
  <2>2. CASE CreateSession(s)
    <3>1. ident[s] < 0 /\ ident' = [ident EXCEPT ![s] = 1 - ident[s]]
      BY <2>2 DEF CreateSession
    <3>2. 1 - ident[s] \in Int /\ 1 - ident[s] /= 0 /\ 1 - ident[s] <= MaxIdent /\ 1 - ident[s] > -MaxIdent
      BY <1>2, <1>3, <3>1
    <3> QED BY <3>1, <3>2
  <2> QED BY <2>1, <2>2
<1>5. ident' \in [Sessions -> Int]
  BY <1>2, <1>4
<1>6. \A x \in Sessions : ident'[x] /= 0 /\ ident'[x] <= MaxIdent /\ ident'[x] > -MaxIdent
  BY <1>2, <1>4 DEF Types
<1> QED BY <1>1, <1>2, <1>5, <1>6, AsideStep DEF Types

-----------------------------------------------------------------------------
(* Steps of an update, up to its record.                                   *)

\* An update of n keeps the rest of the disk as it was: what is owed is n's.
LEMMA DiskKept ==
  ASSUME Core, faults = 0, NEW p \in Procs, NEW n \in Names, up[p].pc \in Busy, up[p].name = n, layout' = layout,
         \A q \in Procs : q /= p => up'[q] = up[q],
         up'[p].pc \in Recorded => up'[p].name = n,
         \A m \in Names : m /= n =>
           /\ NewOf(log', m) = NewOf(log, m) /\ doc'.held[m] = doc.held[m] /\ pending'[m] = pending[m]
           /\ disk'.held[m] = disk.held[m] \/ disk'.held[m] = doc'.held[m],
         up'[p].pc \notin Recorded => doc'.held[n] = NewOf(log', n) /\ pending'[n] = Settled,
         up'[p].pc /= "dirsync" => disk'.held[n] = doc'.held[n],
         up'[p].pc = "dirsync" => disk'.held[n] \in {up'[p].cur, up'[p].next},
         layout = "jsonl" =>
           \/ disk' = doc'
           \/ up'[p].pc = "dirsync" /\ disk'.seq = Len(log') - 1 /\ disk'.held[n] = up'[p].cur,
         \A i \in 1..Len(log') : ~log'[i].durable =>
           /\ i \in TailOf(log', log'[i].name)
           /\ \E q \in Procs : up'[q].pc = "fsync" /\ up'[q].name = log'[i].name
  PROVE  DiskOK'
<1>1. DiskOK
  BY DEF Core
<1>2. \A q \in Procs : q /= p /\ up[q].pc \in Busy => layout = "cas" /\ up[q].name /= n
  BY OneAtATime DEF Core
<1>3. "dirsync" \in Recorded /\ "dirsync" \in Busy
  BY DEF Recorded, Busy
<1>4. \A m \in Names : ~(\E q \in Procs : up'[q].pc \in Recorded /\ up'[q].name = m) => doc'.held[m] = NewOf(log', m) /\ pending'[m] = Settled
  <2> SUFFICES ASSUME NEW m \in Names, \A q \in Procs : ~(up'[q].pc \in Recorded /\ up'[q].name = m)
               PROVE  doc'.held[m] = NewOf(log', m) /\ pending'[m] = Settled
    OBVIOUS
  <2>1. CASE m = n
    BY <2>1
  <2>2. CASE m /= n
    <3>1. \A q \in Procs : ~(up[q].pc \in Recorded /\ up[q].name = m)
      BY <2>2
    <3>2. RestsAt(m)
      BY <1>1, <3>1 DEF DiskOK, At
    <3> QED BY <2>2, <3>2 DEF RestsAt, Latest
  <2> QED BY <2>1, <2>2
<1>5. \A m \in Names : ~(\E q \in Procs : up'[q].pc \in {"dirsync"} /\ up'[q].name = m) => disk'.held[m] = doc'.held[m]
  <2> SUFFICES ASSUME NEW m \in Names, \A q \in Procs : ~(up'[q].pc = "dirsync" /\ up'[q].name = m)
               PROVE  disk'.held[m] = doc'.held[m]
    OBVIOUS
  <2>1. CASE m = n
    BY <1>3, <2>1
  <2>2. CASE m /= n
    <3>1. \A q \in Procs : ~(up[q].pc \in {"dirsync"} /\ up[q].name = m)
      BY <2>2
    <3>2. disk.held[m] = doc.held[m]
      BY <1>1, <3>1 DEF DiskOK, At
    <3> QED BY <2>2, <3>2
  <2> QED BY <2>1, <2>2
<1>6. \A q \in Procs : up'[q].pc = "dirsync" => disk'.held[up'[q].name] \in {up'[q].cur, up'[q].next}
  <2> SUFFICES ASSUME NEW q \in Procs, up'[q].pc = "dirsync" PROVE disk'.held[up'[q].name] \in {up'[q].cur, up'[q].next}
    OBVIOUS
  <2>1. CASE q = p
    BY <1>3, <2>1
  <2>2. CASE q /= p
    <3>1. up'[q] = up[q] /\ up[q].name \in Names /\ up[q].name /= n
      BY <1>2, <1>3, <2>2 DEF Core, Types
    <3>2. disk.held[up[q].name] \in {up[q].cur, up[q].next}
      BY <1>1, <3>1 DEF DiskOK
    <3>3. doc.held[up[q].name] = up[q].next
      BY <3>1 DEF Core, CallOK
    <3> QED BY <3>1, <3>2, <3>3
  <2> QED BY <2>1, <2>2
<1>7. layout' = "jsonl" =>
       \/ disk' = doc'
       \/ \E q \in Procs : up'[q].pc = "dirsync" /\ disk'.seq = Len(log') - 1 /\ disk'.held[up'[q].name] = up'[q].cur
  BY <1>3
<1> QED BY <1>4, <1>5, <1>6, <1>7 DEF DiskOK, At, RestsAt, Latest

\* Files and log change and no ref does.
LEMMA HeldStays ==
  ASSUME Types, Types', Fits(layout, log, doc), Fits(layout, log, doc)', pending' = pending,
         \A m \in Names : HeldOf(log', m, doc'.held[m]) = HeldOf(log, m, doc.held[m])
  PROVE  RefStep
<1>1. HeldNow = [m \in Names |-> HeldOf(log, m, doc.held[m])]
  BY HeldNowIs
<1>2. HeldNow' = [m \in Names |-> HeldOf(log', m, doc'.held[m])]
  BY HeldNextIs DEF Types
<1>3. HeldNow' = HeldNow
  BY <1>1, <1>2
<1> QED BY <1>3 DEF RefStep

\* A call that goes on to its next step.
LEMMA GoesOn ==
  ASSUME Core, NEW p \in Procs, NEW pc \in Busy, up' = [up EXCEPT ![p].pc = pc]
  PROVE  /\ up' \in [Procs -> Calls] /\ up'[p].pc = pc
         /\ up'[p].name = up[p].name /\ up'[p].cur = up[p].cur /\ up'[p].next = up[p].next
         /\ up'[p].expected = up[p].expected
         /\ \A q \in Procs : q /= p => up'[q] = up[q]
<1> DEFINE v == [up[p] EXCEPT !.pc = pc]
<1>1. up \in [Procs -> Calls] /\ up[p] \in Calls
  BY DEF Core, Types
<1>2. up' = [up EXCEPT ![p] = v]
  BY <1>1
<1>3. /\ v \in Calls /\ v.pc = pc /\ v.name = up[p].name /\ v.cur = up[p].cur /\ v.next = up[p].next
      /\ v.expected = up[p].expected
  BY <1>1 DEF Calls
<1> HIDE DEF v
<1> QED BY <1>1, <1>2, <1>3

\* An update's target and its record's shape.
LEMMA CallFacts ==
  ASSUME Core, NEW p \in Procs, up[p].pc \in Busy
  PROVE  /\ up[p] \in Calls /\ up[p].name \in Names /\ up[p].cur \in Values /\ CallOK(p)
         /\ up[p].pc \in Decided => up[p].next \in Values /\ up[p].next /= up[p].cur
         /\ doc \in Docs /\ disk \in Docs /\ log \in Seq(Records) /\ Len(log) \in Nat
         /\ \A m \in Names : doc.held[m] \in Values /\ disk.held[m] \in Values /\ pending[m] \in [held : BOOLEAN, from : Values]
<1>1. up[p] \in Calls /\ up[p].name \in Names /\ CallOK(p)
  BY DEF Core, Types, Busy
<1>2. doc \in Docs /\ disk \in Docs /\ log \in Seq(Records)
  BY DEF Core, Types
<1>3. \A m \in Names : doc.held[m] \in Values /\ disk.held[m] \in Values
  BY <1>2 DEF Docs
<1>4. \A m \in Names : pending[m] \in [held : BOOLEAN, from : Values]
  BY DEF Core, Types
<1>5. up[p].cur \in Values
  BY <1>1 DEF Calls
<1>6. up[p].pc \in Decided => up[p].next \in Values /\ up[p].next /= up[p].cur
  BY <1>1 DEF CallOK
<1> QED BY <1>1, <1>2, <1>3, <1>4, <1>5, <1>6

\* The record appended is the update: the ref moves here, ahead of its file.
LEMMA AppendStep == ASSUME Core, NEW p \in Procs, AppendRefRecord(p) PROVE Core' /\ RefStep
<1> DEFINE n == up[p].name
           c == up[p].cur
           t == up[p].next
           rec == [name |-> n, old |-> c, new |-> t, durable |-> FALSE]
<1>1. /\ up[p].pc = "log" /\ log' = Append(log, rec) /\ pending' = [pending EXCEPT ![n] = Open(c)]
      /\ up' = [up EXCEPT ![p].pc = "fsync"]
      /\ UNCHANGED <<layout, ident, doc, disk, lock, rd, updates, faults>>
  BY DEF AppendRefRecord, Record, bounds
<1>2. up[p].pc \in Busy /\ up[p].pc \in Decided /\ "fsync" \in Busy /\ up[p].pc \notin Recorded
  BY <1>1 DEF Busy, Decided, Recorded
<1>3. /\ n \in Names /\ c \in Values /\ t \in Values /\ t /= c /\ log \in Seq(Records) /\ Len(log) \in Nat
      /\ doc \in Docs /\ CallOK(p)
  BY <1>2, CallFacts
<1>4. rec \in Records /\ rec.name = n /\ rec.old = c /\ rec.new = t /\ rec.durable = FALSE
  BY <1>3 DEF Records
<1>5. /\ pending[n] = Settled /\ doc.held[n] = c /\ NewOf(log, n) = c /\ (layout = "jsonl" => doc.seq = Len(log))
      /\ layout /= "atomic"
      /\ layout /= "cas" => \A m \in Names : <<n, m>> \in Conflicts => NewOf(log, m) = NoTarget
  BY <1>1, <1>2, <1>3 DEF CallOK, Latest
<1> HIDE DEF rec
<1>0. Extends(log, rec, log')
  BY <1>1 DEF Extends
<1>6. /\ log' \in Seq(Records) /\ Len(log') = Len(log) + 1 /\ log'[Len(log) + 1] = rec
      /\ \A i \in 1..Len(log) : log'[i] = log[i]
      /\ TailOf(log', n) = {Len(log) + 1}
      /\ OldOf(log', n) = c /\ NewOf(log', n) = t
      /\ \A m : m /= n => /\ TailOf(log', m) = TailOf(log, m)
                          /\ OldOf(log', m) = OldOf(log, m) /\ NewOf(log', m) = NewOf(log, m)
  <2>1. EndsIn(log, rec, log', n)
    BY <1>3, <1>4, <1>0, AppendedTail
  <2> QED BY <1>4, <2>1 DEF EndsIn
<1>7. Chained(log')
  BY <1>0, <1>3, <1>4, <1>5, AppendedChain DEF Core
<1>8. /\ up' \in [Procs -> Calls] /\ up'[p].pc = "fsync" /\ up'[p].name = n /\ up'[p].cur = c /\ up'[p].next = t
      /\ up'[p].expected = up[p].expected /\ \A q \in Procs : q /= p => up'[q] = up[q]
  BY <1>1, <1>2, GoesOn
<1>9. pending' \in [Names -> [held : BOOLEAN, from : Values]] /\ pending'[n] = Open(c) /\ \A m \in Names : m /= n => pending'[m] = pending[m]
  <2>1. Open(c) \in [held : BOOLEAN, from : Values]
    BY <1>3 DEF Open
  <2> QED BY <1>1, <1>3, <2>1 DEF Core, Types
<1>10. Types'
  BY <1>1, <1>3, <1>6, <1>8, <1>9 DEF Core, Types
<1>11. LocksHeld'
  BY <1>1, <1>2, <1>8, LocksKept DEF Core
<1>12. \A q \in Procs : CallOK(q)'
  <2>1. CallOK(p)'
    <3>1. layout = "jsonl" => log' /= <<>> /\ log'[Len(log')].name = n /\ doc'.seq = Len(log') - 1
      BY <1>1, <1>3, <1>4, <1>5, <1>6
    <3>2. layout /= "cas" => \A m \in Names : <<n, m>> \in Conflicts => NewOf(log', m) = NoTarget
      BY <1>3, <1>5, <1>6, RefAssumption
    <3> QED BY <1>1, <1>3, <1>5, <1>6, <1>8, <1>9, <3>1, <3>2 DEF CallOK, Latest, Before, LastNames
  <2>2. \A q \in Procs : q /= p => CallOK(q)'
    BY <1>1, <1>2, <1>6, <1>8, <1>9, OthersKeep
  <2> QED BY <2>1, <2>2
<1>13. Fits(layout', log', doc')
  <2>1. Fits(layout, log, doc)
    BY DEF Core
  <2>2. layout = "jsonl" => \A m \in Names : m /= n => doc.held[m] = NewOf(log, m)
    BY <1>3, <1>5, <2>1 DEF Fits
  <2>3. layout = "jsonl" => doc'.seq = Len(log') - 1 /\ doc'.seq < Len(log') /\ log'[Len(log')].name = n
    BY <1>1, <1>3, <1>4, <1>5, <1>6
  <2> QED BY <1>1, <1>5, <1>6, <2>2, <2>3 DEF Fits
<1>14. AheadOpen'
  BY <1>1, <1>5, <1>6, <1>9 DEF Core, AheadOpen, Ahead, Latest
<1>15. Apart'
  BY <1>1, <1>3, <1>5, <1>6, RefAssumption DEF Core, Apart, Latest
<1>16. faults' = 0 => DiskOK'
  <2> SUFFICES ASSUME faults = 0 PROVE DiskOK'
    BY <1>1
  <2>1. DiskOK
    BY DEF Core
  <2>2. ASSUME NEW i \in 1..Len(log'), ~log'[i].durable
        PROVE  /\ i \in TailOf(log', log'[i].name)
               /\ \E q \in Procs : up'[q].pc = "fsync" /\ up'[q].name = log'[i].name
    <3>1. CASE i \in 1..Len(log)
      <4>1. log'[i] = log[i] /\ i \in TailOf(log, log[i].name)
        BY <1>6, <2>1, <2>2, <3>1 DEF DiskOK
      <4>2. PICK q \in Procs : up[q].pc = "fsync" /\ up[q].name = log[i].name
        BY <1>6, <2>1, <2>2, <3>1 DEF DiskOK
      <4>3. q /= p /\ up'[q] = up[q]
        BY <1>1, <1>8, <4>2
      <4>4. up[q].name /= n
        BY <1>2, <4>2, <4>3, OneAtATime DEF Core, Busy
      <4> QED BY <1>6, <4>1, <4>2, <4>3, <4>4
    <3>2. CASE i = Len(log) + 1
      BY <1>4, <1>6, <1>8, <3>2
    <3> QED BY <1>3, <1>6, <3>1, <3>2
  <2>3. up'[p].pc \in Recorded /\ up'[p].pc /= "dirsync"
    BY <1>8 DEF Recorded
  <2>4. \A q \in Procs : up[q].pc = "dirsync" => up[q].name /= n
    BY <1>1, <1>2, OneAtATime DEF Core, Busy
  <2>5. disk'.held[n] = doc'.held[n]
    BY <1>1, <1>3, <2>1, <2>4 DEF DiskOK, At
  <2>6. layout = "jsonl" => disk' = doc'
    <3>1. layout = "jsonl" => \A q \in Procs : up[q].pc /= "dirsync"
      BY <1>1, <1>2, OneAtATime DEF Core, Busy
    <3> QED BY <1>1, <2>1, <3>1 DEF DiskOK
  <2> QED BY <1>1, <1>2, <1>3, <1>6, <1>8, <1>9, <2>2, <2>3, <2>5, <2>6, DiskKept
<1>17. RefStep
  <2>1. Types /\ Fits(layout, log, doc)
    BY DEF Core
  <2>2. HeldOf(log', n, doc'.held[n]) = t /\ ~Ahead(log, n, doc.held[n])
    BY <1>1, <1>5, <1>6 DEF HeldOf, Ahead
  <2>3. \A m \in Names : m /= n => HeldOf(log', m, doc'.held[m]) = HeldOf(log, m, doc.held[m])
    BY <1>1, <1>6 DEF HeldOf, Ahead
  <2> QED BY <1>1, <1>3, <1>5, <1>10, <1>13, <2>1, <2>2, <2>3, MovesOne
<1> QED BY <1>7, <1>10, <1>11, <1>12, <1>13, <1>14, <1>15, <1>16, <1>17 DEF Core

-----------------------------------------------------------------------------
(* From the record to the answer.                                          *)

\* The atomic stores move file and log at once.
LEMMA CommitStep == ASSUME Core, NEW p \in Procs, Commit(p) PROVE Core' /\ RefStep
<1> DEFINE n == up[p].name
           c == up[p].cur
           t == up[p].next
           rec == [name |-> n, old |-> c, new |-> t, durable |-> TRUE]
<1>1. /\ up[p].pc = "atomic" /\ log' = Append(log, rec) /\ pending' = [pending EXCEPT ![n] = Open(c)]
      /\ up' = [up EXCEPT ![p].pc = "answer"]
      /\ doc' = [held |-> [doc.held EXCEPT ![n] = t], seq |-> IF layout = "jsonl" THEN Len(log) ELSE 0]
      /\ disk' = doc'
      /\ UNCHANGED <<layout, ident, lock, rd, updates, faults>>
  BY DEF Commit, Record, Replaced, bounds
<1>2. up[p].pc \in Busy /\ up[p].pc \in Decided /\ "answer" \in Busy /\ up[p].pc \notin Recorded
  BY <1>1 DEF Busy, Decided, Recorded
<1>3. /\ n \in Names /\ c \in Values /\ t \in Values /\ t /= c /\ log \in Seq(Records) /\ Len(log) \in Nat
      /\ doc \in Docs /\ CallOK(p)
  BY <1>2, CallFacts
<1>4. rec \in Records /\ rec.name = n /\ rec.old = c /\ rec.new = t /\ rec.durable = TRUE
  BY <1>3 DEF Records
<1>5. /\ pending[n] = Settled /\ doc.held[n] = c /\ NewOf(log, n) = c
      /\ layout = "atomic"
      /\ \A m \in Names : <<n, m>> \in Conflicts => NewOf(log, m) = NoTarget
  BY <1>1, <1>2, <1>3 DEF CallOK, Latest
<1> HIDE DEF rec
<1>0. Extends(log, rec, log')
  BY <1>1 DEF Extends
<1>6. /\ log' \in Seq(Records) /\ Len(log') = Len(log) + 1 /\ log'[Len(log) + 1] = rec
      /\ \A i \in 1..Len(log) : log'[i] = log[i]
      /\ TailOf(log', n) = {Len(log) + 1}
      /\ OldOf(log', n) = c /\ NewOf(log', n) = t
      /\ \A m : m /= n => /\ TailOf(log', m) = TailOf(log, m)
                          /\ OldOf(log', m) = OldOf(log, m) /\ NewOf(log', m) = NewOf(log, m)
  <2>1. EndsIn(log, rec, log', n)
    BY <1>3, <1>4, <1>0, AppendedTail
  <2> QED BY <1>4, <2>1 DEF EndsIn
<1>7. Chained(log')
  BY <1>0, <1>3, <1>4, <1>5, AppendedChain DEF Core
<1>8. /\ up' \in [Procs -> Calls] /\ up'[p].pc = "answer" /\ up'[p].name = n /\ up'[p].cur = c /\ up'[p].next = t
      /\ up'[p].expected = up[p].expected /\ \A q \in Procs : q /= p => up'[q] = up[q]
  BY <1>1, <1>2, GoesOn
<1>9. pending' \in [Names -> [held : BOOLEAN, from : Values]] /\ pending'[n] = Open(c) /\ \A m \in Names : m /= n => pending'[m] = pending[m]
  <2>1. Open(c) \in [held : BOOLEAN, from : Values]
    BY <1>3 DEF Open
  <2> QED BY <1>1, <1>3, <2>1 DEF Core, Types
<1>10. doc' \in Docs /\ doc'.held[n] = t /\ \A m \in Names : m /= n => doc'.held[m] = doc.held[m]
  BY <1>1, <1>3 DEF Docs
<1>11. Types'
  BY <1>1, <1>3, <1>6, <1>8, <1>9, <1>10 DEF Core, Types
<1>12. LocksHeld'
  BY <1>1, <1>2, <1>8, LocksKept DEF Core
<1>13. \A q \in Procs : CallOK(q)'
  <2>1. CallOK(p)'
    <3>1. \A m \in Names : <<n, m>> \in Conflicts => NewOf(log', m) = NoTarget
      BY <1>3, <1>5, <1>6, RefAssumption
    <3> QED BY <1>1, <1>3, <1>5, <1>6, <1>8, <1>9, <1>10, <3>1 DEF CallOK, Latest, Before, LastNames
  <2>2. \A q \in Procs : q /= p => CallOK(q)'
    <3>1. \A m \in Names : m /= n =>
            /\ NewOf(log', m) = NewOf(log, m) /\ OldOf(log', m) = OldOf(log, m)
            /\ doc'.held[m] = doc.held[m] /\ pending'[m] = pending[m]
      BY <1>6, <1>9, <1>10
    <3>2. layout' = layout
      BY <1>1
    <3> QED BY <1>2, <1>8, <3>1, <3>2, OthersKeep
  <2> QED BY <2>1, <2>2
<1>14. Fits(layout', log', doc')
  <2>1. Fits(layout, log, doc)
    BY DEF Core
  <2> QED BY <1>1, <1>5, <1>6, <1>10, <2>1 DEF Fits
<1>15. AheadOpen'
  BY <1>1, <1>6, <1>9, <1>10 DEF Core, AheadOpen, Ahead, Latest
<1>16. Apart'
  BY <1>1, <1>3, <1>5, <1>6, RefAssumption DEF Core, Apart, Latest
<1>17. faults' = 0 => DiskOK'
  <2> SUFFICES ASSUME faults = 0 PROVE DiskOK'
    BY <1>1
  <2>1. DiskOK
    BY DEF Core
  <2>2. ASSUME NEW i \in 1..Len(log') PROVE log'[i].durable
    <3>1. CASE i \in 1..Len(log)
      <4>1. \A q \in Procs : up[q].pc /= "fsync"
        BY <1>1, <1>2, <1>5, OneAtATime DEF Core, Busy
      <4> QED BY <1>6, <2>1, <3>1, <4>1 DEF DiskOK
    <3>2. CASE i = Len(log) + 1
      BY <1>4, <1>6, <3>2
    <3> QED BY <1>3, <1>6, <3>1, <3>2
  <2>3. up'[p].pc \in Recorded /\ up'[p].pc /= "dirsync"
    BY <1>8 DEF Recorded
  <2>4. \A m \in Names : disk'.held[m] = doc'.held[m]
    BY <1>1
  <2> QED BY <1>1, <1>2, <1>3, <1>6, <1>8, <1>9, <1>10, <2>2, <2>3, <2>4, DiskKept
<1>18. RefStep
  <2>1. Types /\ Fits(layout, log, doc)
    BY DEF Core
  <2>2. HeldOf(log', n, doc'.held[n]) = t /\ ~Ahead(log, n, doc.held[n])
    BY <1>1, <1>5, <1>6, <1>10 DEF HeldOf, Ahead
  <2>3. \A m \in Names : m /= n => HeldOf(log', m, doc'.held[m]) = HeldOf(log, m, doc.held[m])
    BY <1>1, <1>6, <1>10 DEF HeldOf, Ahead
  <2> QED BY <1>1, <1>3, <1>5, <1>11, <1>14, <2>1, <2>2, <2>3, MovesOne
<1> QED BY <1>7, <1>11, <1>12, <1>13, <1>14, <1>15, <1>16, <1>17, <1>18 DEF Core

\* The log is fsynced and says what it said.
LEMMA FsyncStep == ASSUME Core, NEW p \in Procs, FsyncRecord(p) PROVE Core' /\ RefStep
<1> DEFINE n == up[p].name
           c == up[p].cur
           t == up[p].next
<1>1. /\ up[p].pc = "fsync" /\ up' = [up EXCEPT ![p].pc = "place"]
      /\ log' = [i \in DOMAIN log |-> [log[i] EXCEPT !.durable = @ \/ layout = "jsonl" \/ log[i].name = n]]
      /\ UNCHANGED <<layout, ident, doc, disk, lock, rd, pending, updates, faults>>
  BY DEF FsyncRecord, bounds
<1>2. up[p].pc \in Busy /\ up[p].pc \in Decided /\ "place" \in Busy /\ up[p].pc \in Recorded
  BY <1>1 DEF Busy, Decided, Recorded
<1>3. /\ n \in Names /\ c \in Values /\ t \in Values /\ t /= c /\ log \in Seq(Records) /\ Len(log) \in Nat
      /\ doc \in Docs /\ CallOK(p)
  BY <1>2, CallFacts
<1>4. /\ log' \in Seq(Records) /\ Len(log') = Len(log)
      /\ \A i \in 1..Len(log) :
           /\ log'[i].name = log[i].name /\ log'[i].old = log[i].old /\ log'[i].new = log[i].new
           /\ ~log'[i].durable => ~log[i].durable /\ layout /= "jsonl" /\ log[i].name /= n
  <2> DEFINE mark(i) == [log[i] EXCEPT !.durable = @ \/ layout = "jsonl" \/ log[i].name = n]
  <2>1. \A i \in 1..Len(log) : log[i] \in Records
    BY <1>3
  <2>2. \A i \in 1..Len(log) :
           /\ mark(i) \in Records /\ mark(i).name = log[i].name /\ mark(i).old = log[i].old /\ mark(i).new = log[i].new
           /\ ~mark(i).durable => ~log[i].durable /\ layout /= "jsonl" /\ log[i].name /= n
    <3> SUFFICES ASSUME NEW i \in 1..Len(log)
                 PROVE  /\ mark(i) \in Records /\ mark(i).name = log[i].name /\ mark(i).old = log[i].old /\ mark(i).new = log[i].new
                        /\ ~mark(i).durable => ~log[i].durable /\ layout /= "jsonl" /\ log[i].name /= n
      OBVIOUS
    <3>1. PICK b \in BOOLEAN : b = (log[i].durable \/ layout = "jsonl" \/ log[i].name = n)
      OBVIOUS
    <3>2. mark(i) = [name |-> log[i].name, old |-> log[i].old, new |-> log[i].new, durable |-> b]
      <4>1. mark(i) = [log[i] EXCEPT !.durable = b]
        BY <3>1
      <4> HIDE DEF mark
      <4> QED BY <2>1, <4>1 DEF Records
    <3>3. log[i].name \in Names /\ log[i].old \in Values /\ log[i].new \in Values
      BY <2>1 DEF Records
    <3>4. ~b => ~log[i].durable /\ layout /= "jsonl" /\ log[i].name /= n
      BY <3>1
    <3> HIDE DEF mark
    <3>5. mark(i) \in Records /\ mark(i).name = log[i].name /\ mark(i).old = log[i].old /\ mark(i).new = log[i].new /\ mark(i).durable = b
      BY <3>2, <3>3 DEF Records
    <3> QED BY <3>4, <3>5
  <2>3. log' = [i \in 1..Len(log) |-> mark(i)]
    BY <1>1, <1>3
  <2> HIDE DEF mark
  <2> QED BY <1>3, <2>2, <2>3
<1>5. /\ \A m : OldOf(log', m) = OldOf(log, m) /\ NewOf(log', m) = NewOf(log, m) /\ TailOf(log', m) = TailOf(log, m)
      /\ Chained(log')
  BY <1>3, <1>4, ThinnedWhole DEF Core
<1>6. /\ up' \in [Procs -> Calls] /\ up'[p].pc = "place" /\ up'[p].name = n /\ up'[p].cur = c /\ up'[p].next = t
      /\ up'[p].expected = up[p].expected /\ \A q \in Procs : q /= p => up'[q] = up[q]
  BY <1>1, <1>2, GoesOn
<1>7. Types'
  BY <1>1, <1>3, <1>4, <1>6 DEF Core, Types
<1>8. LocksHeld'
  BY <1>1, <1>2, <1>6, LocksKept DEF Core
<1>9. layout = "jsonl" /\ log /= <<>> => log' /= <<>> /\ log'[Len(log')].name = log[Len(log)].name
  BY <1>3, <1>4
<1>10. \A q \in Procs : CallOK(q)'
  <2>1. CallOK(p)'
    <3>1. /\ OldOf(log, n) = c /\ NewOf(log, n) = t /\ pending[n] = Open(c) /\ doc.held[n] = c /\ layout /= "atomic"
          /\ layout = "jsonl" => log /= <<>> /\ log[Len(log)].name = n /\ doc.seq = Len(log) - 1
          /\ layout /= "cas" => \A m \in Names : <<n, m>> \in Conflicts => NewOf(log, m) = NoTarget
      BY <1>1, <1>2, <1>3 DEF CallOK, Latest, Before, LastNames
    <3>2. layout = "jsonl" => log' /= <<>> /\ log'[Len(log')].name = n /\ doc'.seq = Len(log') - 1
      BY <1>1, <1>4, <1>9, <3>1
    <3>3. layout' /= "cas" => \A m \in Names : <<n, m>> \in Conflicts => NewOf(log', m) = NoTarget
      BY <1>1, <1>5, <3>1
    <3>4. OldOf(log', n) = c /\ NewOf(log', n) = t /\ pending'[n] = Open(c) /\ doc'.held[n] = c /\ layout' = layout
      BY <1>1, <1>5, <3>1
    <3> QED BY <1>3, <1>6, <3>1, <3>2, <3>3, <3>4 DEF CallOK, Latest, Before, LastNames
  <2>2. \A q \in Procs : q /= p => CallOK(q)'
    BY <1>1, <1>2, <1>5, <1>6, OthersKeep
  <2> QED BY <2>1, <2>2
<1>11. Fits(layout', log', doc')
  <2>1. Fits(layout, log, doc)
    BY DEF Core
  <2>2. doc.seq \in Nat
    BY <1>3 DEF Docs
  <2>3. layout = "jsonl" /\ doc.seq < Len(log) => log'[Len(log')].name = log[Len(log)].name
    BY <1>3, <1>4, <2>2
  <2> QED BY <1>1, <1>4, <1>5, <2>1, <2>3 DEF Fits
<1>12. AheadOpen' /\ Apart'
  BY <1>1, <1>5 DEF Core, AheadOpen, Ahead, Latest, Apart
<1>13. faults' = 0 => DiskOK'
  <2> SUFFICES ASSUME faults = 0 PROVE DiskOK'
    BY <1>1
  <2>1. DiskOK
    BY DEF Core
  <2>2. ASSUME NEW i \in 1..Len(log'), ~log'[i].durable
        PROVE  /\ i \in TailOf(log', log'[i].name)
               /\ \E q \in Procs : up'[q].pc = "fsync" /\ up'[q].name = log'[i].name
    <3>1. i \in 1..Len(log) /\ ~log[i].durable /\ log[i].name /= n /\ log'[i].name = log[i].name
      BY <1>4, <2>2
    <3>2. i \in TailOf(log, log[i].name)
      BY <2>1, <3>1 DEF DiskOK
    <3>3. PICK q \in Procs : up[q].pc = "fsync" /\ up[q].name = log[i].name
      BY <2>1, <3>1 DEF DiskOK
    <3>4. up'[q] = up[q]
      BY <1>6, <3>1, <3>3
    <3> QED BY <1>5, <3>1, <3>2, <3>3, <3>4
  <2>3. up'[p].pc \in Recorded /\ up'[p].pc /= "dirsync"
    BY <1>6 DEF Recorded
  <2>4. \A q \in Procs : up[q].pc = "dirsync" => up[q].name /= n
    BY <1>1, <1>2, OneAtATime DEF Core, Busy
  <2>5. disk'.held[n] = doc'.held[n]
    BY <1>1, <1>3, <2>1, <2>4 DEF DiskOK, At
  <2>6. layout = "jsonl" => disk' = doc'
    <3>1. layout = "jsonl" => \A q \in Procs : up[q].pc /= "dirsync"
      BY <1>1, <1>2, OneAtATime DEF Core, Busy
    <3> QED BY <1>1, <2>1, <3>1 DEF DiskOK
  <2>7. \A m \in Names : m /= n =>
           /\ NewOf(log', m) = NewOf(log, m) /\ doc'.held[m] = doc.held[m] /\ pending'[m] = pending[m]
           /\ disk'.held[m] = disk.held[m] \/ disk'.held[m] = doc'.held[m]
    BY <1>1, <1>5
  <2>8. layout' = layout
    BY <1>1
  <2> QED BY <1>2, <1>3, <1>6, <2>2, <2>3, <2>5, <2>6, <2>7, <2>8, DiskKept
<1>14. RefStep
  <2>1. \A m \in Names : HeldOf(log', m, doc'.held[m]) = HeldOf(log, m, doc.held[m])
    BY <1>1, <1>5 DEF HeldOf, Ahead
  <2> QED BY <1>1, <1>7, <1>11, <2>1, HeldStays DEF Core
<1> QED BY <1>5, <1>7, <1>8, <1>10, <1>11, <1>12, <1>13, <1>14 DEF Core

\* The file catches up with its log.
LEMMA PlaceStep == ASSUME Core, NEW p \in Procs, PlaceRef(p) PROVE Core' /\ RefStep
<1> DEFINE n == up[p].name
           c == up[p].cur
           t == up[p].next
<1>1. /\ up[p].pc = "place" /\ up' = [up EXCEPT ![p].pc = "dirsync"]
      /\ doc' = [held |-> [doc.held EXCEPT ![n] = t], seq |-> IF layout = "jsonl" THEN Len(log) ELSE 0]
      /\ UNCHANGED <<layout, ident, disk, log, lock, rd, pending, updates, faults>>
  BY DEF PlaceRef, Replaced, bounds
<1>2. up[p].pc \in Busy /\ up[p].pc \in Decided /\ "dirsync" \in Busy /\ up[p].pc \in Recorded
  BY <1>1 DEF Busy, Decided, Recorded
<1>3. /\ n \in Names /\ c \in Values /\ t \in Values /\ t /= c /\ log \in Seq(Records) /\ Len(log) \in Nat
      /\ doc \in Docs /\ CallOK(p)
  BY <1>2, CallFacts
<1>4. /\ OldOf(log, n) = c /\ NewOf(log, n) = t /\ pending[n] = Open(c) /\ doc.held[n] = c /\ layout /= "atomic"
      /\ layout = "jsonl" => log[Len(log)].name = n /\ doc.seq = Len(log) - 1
  BY <1>1, <1>2, <1>3 DEF CallOK, Latest, Before, LastNames
<1>5. /\ doc' \in Docs /\ doc'.held[n] = t /\ (\A m \in Names : m /= n => doc'.held[m] = doc.held[m])
      /\ layout = "jsonl" => doc'.seq = Len(log)
  BY <1>1, <1>3 DEF Docs
<1>6. /\ up' \in [Procs -> Calls] /\ up'[p].pc = "dirsync" /\ up'[p].name = n /\ up'[p].cur = c /\ up'[p].next = t
      /\ up'[p].expected = up[p].expected /\ \A q \in Procs : q /= p => up'[q] = up[q]
  BY <1>1, <1>2, GoesOn
<1>7. Types'
  BY <1>1, <1>3, <1>5, <1>6 DEF Core, Types
<1>8. LocksHeld'
  BY <1>1, <1>2, <1>6, LocksKept DEF Core
<1>9. \A q \in Procs : CallOK(q)'
  <2>1. CallOK(p)'
    BY <1>1, <1>2, <1>3, <1>5, <1>6 DEF CallOK, Latest, Before, LastNames
  <2>2. \A q \in Procs : q /= p => CallOK(q)'
    BY <1>1, <1>2, <1>5, <1>6, OthersKeep
  <2> QED BY <2>1, <2>2
<1>10. Fits(layout', log', doc')
  <2>1. Fits(layout, log, doc)
    BY DEF Core
  <2>2. layout = "jsonl" => \A m \in Names : m /= n => doc.held[m] = NewOf(log, m)
    BY <1>4, <2>1 DEF Fits
  <2> QED BY <1>1, <1>3, <1>4, <1>5, <2>2 DEF Fits
<1>11. AheadOpen' /\ Apart' /\ Chained(log')
  BY <1>1, <1>4, <1>5 DEF Core, AheadOpen, Ahead, Latest, Apart
<1>12. faults' = 0 => DiskOK'
  <2> SUFFICES ASSUME faults = 0 PROVE DiskOK'
    BY <1>1
  <2>1. DiskOK
    BY DEF Core
  <2>2. ASSUME NEW i \in 1..Len(log'), ~log'[i].durable
        PROVE  /\ i \in TailOf(log', log'[i].name)
               /\ \E q \in Procs : up'[q].pc = "fsync" /\ up'[q].name = log'[i].name
    <3>1. i \in 1..Len(log) /\ ~log[i].durable /\ log' = log
      BY <1>1, <2>2
    <3>2. i \in TailOf(log, log[i].name)
      BY <2>1, <3>1 DEF DiskOK
    <3>3. PICK q \in Procs : up[q].pc = "fsync" /\ up[q].name = log[i].name
      BY <2>1, <3>1 DEF DiskOK
    <3>4. up'[q] = up[q]
      BY <1>1, <1>6, <3>3
    <3> QED BY <3>1, <3>2, <3>3, <3>4
  <2>3. up'[p].pc \in Recorded
    BY <1>6 DEF Recorded
  <2>4. \A q \in Procs : up[q].pc = "dirsync" => up[q].name /= n
    BY <1>1, <1>2, OneAtATime DEF Core, Busy
  <2>5. disk.held[n] = c
    BY <1>3, <1>4, <2>1, <2>4 DEF DiskOK, At
  <2>6. layout = "jsonl" => disk = doc
    <3>1. layout = "jsonl" => \A q \in Procs : up[q].pc /= "dirsync"
      BY <1>1, <1>2, OneAtATime DEF Core, Busy
    <3> QED BY <2>1, <3>1 DEF DiskOK
  <2>7. layout = "jsonl" => up'[p].pc = "dirsync" /\ disk'.seq = Len(log') - 1 /\ disk'.held[n] = up'[p].cur
    BY <1>1, <1>4, <1>6, <2>5, <2>6
  <2>8. disk'.held[n] = up'[p].cur
    BY <1>1, <1>6, <2>5
  <2> QED BY <1>1, <1>2, <1>3, <1>5, <1>6, <2>2, <2>3, <2>7, <2>8, DiskKept
<1>13. RefStep
  <2>1. \A m \in Names : HeldOf(log', m, doc'.held[m]) = HeldOf(log, m, doc.held[m])
    BY <1>1, <1>4, <1>5 DEF HeldOf, Ahead
  <2> QED BY <1>1, <1>7, <1>10, <2>1, HeldStays DEF Core
<1> QED BY <1>7, <1>8, <1>9, <1>10, <1>11, <1>12, <1>13 DEF Core

\* The replacement is on the disk.
LEMMA FsyncDirStep == ASSUME Core, NEW p \in Procs, FsyncDir(p) PROVE Core' /\ RefStep
<1> DEFINE n == up[p].name
           c == up[p].cur
           t == up[p].next
<1>1. /\ up[p].pc = "dirsync" /\ up' = [up EXCEPT ![p].pc = "answer"] /\ disk' = doc
      /\ UNCHANGED <<layout, ident, doc, log, lock, rd, pending, updates, faults>>
  BY DEF FsyncDir, bounds
<1>2. up[p].pc \in Busy /\ up[p].pc \in Decided /\ "answer" \in Busy /\ up[p].pc \in Recorded
  BY <1>1 DEF Busy, Decided, Recorded
<1>3. /\ n \in Names /\ log \in Seq(Records) /\ doc \in Docs /\ CallOK(p)
  BY <1>2, CallFacts
<1>4. /\ up' \in [Procs -> Calls] /\ up'[p].pc = "answer" /\ up'[p].name = n /\ up'[p].cur = c /\ up'[p].next = t
      /\ up'[p].expected = up[p].expected /\ \A q \in Procs : q /= p => up'[q] = up[q]
  BY <1>1, <1>2, GoesOn
<1>5. Types'
  BY <1>1, <1>3, <1>4 DEF Core, Types
<1>6. LocksHeld'
  BY <1>1, <1>2, <1>4, LocksKept DEF Core
<1>7. \A q \in Procs : CallOK(q)'
  <2>1. CallOK(p)'
    BY <1>1, <1>2, <1>3, <1>4 DEF CallOK, Latest, Before, LastNames, Decided, Recorded
  <2>2. \A q \in Procs : q /= p => CallOK(q)'
    BY <1>1, <1>4, CallKept DEF Core
  <2> QED BY <2>1, <2>2
<1>8. Fits(layout', log', doc') /\ AheadOpen' /\ Apart' /\ Chained(log')
  BY <1>1 DEF Core, AheadOpen, Latest, Apart
<1>9. faults' = 0 => DiskOK'
  <2> SUFFICES ASSUME faults = 0 PROVE DiskOK'
    BY <1>1
  <2>1. DiskOK
    BY DEF Core
  <2>2. ASSUME NEW i \in 1..Len(log'), ~log'[i].durable
        PROVE  /\ i \in TailOf(log', log'[i].name)
               /\ \E q \in Procs : up'[q].pc = "fsync" /\ up'[q].name = log'[i].name
    <3>1. i \in 1..Len(log) /\ ~log[i].durable /\ log' = log
      BY <1>1, <2>2
    <3>2. i \in TailOf(log, log[i].name)
      BY <2>1, <3>1 DEF DiskOK
    <3>3. PICK q \in Procs : up[q].pc = "fsync" /\ up[q].name = log[i].name
      BY <2>1, <3>1 DEF DiskOK
    <3>4. up'[q] = up[q]
      BY <1>1, <1>4, <3>3
    <3> QED BY <3>1, <3>2, <3>3, <3>4
  <2>3. up'[p].pc \in Recorded /\ up'[p].pc /= "dirsync"
    BY <1>4 DEF Recorded
  <2>4. disk' = doc' /\ \A m \in Names : disk'.held[m] = doc'.held[m]
    BY <1>1
  <2> QED BY <1>1, <1>2, <1>3, <1>4, <2>2, <2>3, <2>4, DiskKept
<1>10. RefStep
  BY <1>1, NothingMoves
<1> QED BY <1>5, <1>6, <1>7, <1>8, <1>9, <1>10 DEF Core

\* The caller is told, and the update can no longer be taken back.
LEMMA AnswerStep == ASSUME Core, NEW p \in Procs, Answer(p) PROVE Core' /\ RefStep
<1> DEFINE n == up[p].name
           c == up[p].cur
           t == up[p].next
<1>1. /\ up[p].pc = "answer" /\ Finish(p) /\ pending' = [pending EXCEPT ![n] = Settled]
      /\ UNCHANGED <<layout, ident, doc, disk, log, rd, updates, faults>>
  BY DEF Answer, files, bounds
<1>2. up[p].pc \in Busy /\ up[p].pc \in Decided /\ up[p].pc \in Recorded
  BY <1>1 DEF Busy, Decided, Recorded
<1>3. /\ n \in Names /\ log \in Seq(Records) /\ doc \in Docs /\ CallOK(p) /\ Types /\ LocksHeld
  BY <1>2, CallFacts DEF Core
<1>4. doc.held[n] = NewOf(log, n)
  BY <1>1, <1>2, <1>3 DEF CallOK, Latest
<1>5. /\ up' \in [Procs -> Calls] /\ up'[p].pc = "idle"
      /\ \A q \in Procs : q /= p => up'[q] = up[q]
      /\ \A q \in Procs : up'[q].pc /= "idle" => up'[q].name \in Names
      /\ lock' \in [Names \cup {AllNames} -> Procs \cup {Free}]
      /\ LocksHeld' /\ CallOK(p)'
  BY <1>1, <1>3, Finished
<1>6. /\ pending' \in [Names -> [held : BOOLEAN, from : Values]] /\ pending'[n] = Settled
      /\ \A m \in Names : m /= n => pending'[m] = pending[m]
  <2>1. Settled \in [held : BOOLEAN, from : Values]
    BY DEF Settled, Values
  <2> QED BY <1>1, <1>3, <2>1 DEF Types
<1>7. Types'
  BY <1>1, <1>3, <1>5, <1>6 DEF Types
<1>8. \A q \in Procs : CallOK(q)'
  BY <1>1, <1>2, <1>5, <1>6, OthersKeep
<1>9. Fits(layout', log', doc') /\ Apart' /\ Chained(log')
  BY <1>1 DEF Core, Latest, Apart
<1>10. AheadOpen'
  BY <1>1, <1>4, <1>6 DEF Core, AheadOpen, Ahead, Latest
<1>11. faults' = 0 => DiskOK'
  <2> SUFFICES ASSUME faults = 0 PROVE DiskOK'
    BY <1>1
  <2>1. DiskOK
    BY DEF Core
  <2>2. ASSUME NEW i \in 1..Len(log'), ~log'[i].durable
        PROVE  /\ i \in TailOf(log', log'[i].name)
               /\ \E q \in Procs : up'[q].pc = "fsync" /\ up'[q].name = log'[i].name
    <3>1. i \in 1..Len(log) /\ ~log[i].durable /\ log' = log
      BY <1>1, <2>2
    <3>2. i \in TailOf(log, log[i].name)
      BY <2>1, <3>1 DEF DiskOK
    <3>3. PICK q \in Procs : up[q].pc = "fsync" /\ up[q].name = log[i].name
      BY <2>1, <3>1 DEF DiskOK
    <3>4. up'[q] = up[q]
      BY <1>1, <1>5, <3>3
    <3> QED BY <3>1, <3>2, <3>3, <3>4
  <2>3. up'[p].pc \notin Recorded /\ up'[p].pc /= "dirsync"
    BY <1>5 DEF Recorded
  <2>4. \A q \in Procs : up[q].pc = "dirsync" => up[q].name /= n
    BY <1>1, <1>2, OneAtATime DEF Core, Busy
  <2>5. disk'.held[n] = doc'.held[n]
    BY <1>1, <1>3, <2>1, <2>4 DEF DiskOK, At
  <2>6. layout = "jsonl" => disk' = doc'
    <3>1. layout = "jsonl" => \A q \in Procs : up[q].pc /= "dirsync"
      BY <1>1, <1>2, OneAtATime DEF Core, Busy
    <3> QED BY <1>1, <2>1, <3>1 DEF DiskOK
  <2> QED BY <1>1, <1>2, <1>3, <1>4, <1>5, <1>6, <2>2, <2>3, <2>5, <2>6, DiskKept
<1>12. RefStep
  <2>1. \A m \in Names : HeldOf(log', m, doc'.held[m]) = HeldOf(log, m, doc.held[m])
    BY <1>1
  <2>2. pending' = [m \in Names |-> IF m \in {n} THEN Settled ELSE pending[m]]
    BY <1>1, <1>3 DEF Types
  <2>3. {n} \in SUBSET Names
    BY <1>3
  <2> QED BY <1>3, <1>7, <1>9, <2>1, <2>2, <2>3, SettlesSome DEF Core
<1> QED BY <1>5, <1>7, <1>8, <1>9, <1>10, <1>11, <1>12 DEF Core

-----------------------------------------------------------------------------
(* Mending a ref before it is updated.                                     *)

\* The call whose mending is done.
LEMMA MendedCall ==
  ASSUME Core, NEW p \in Procs, Mend(p)
  PROVE  LET n == up[p].name
             h == HeldOf(log, n, doc.held[n])
         IN  /\ h \in Values /\ up[p].pc = "mend"
             /\ up' \in [Procs -> Calls] /\ up'[p].pc = "compare" /\ up'[p].cur = h
             /\ up'[p].name = n /\ up'[p].next = up[p].next /\ up'[p].expected = up[p].expected
             /\ \A q \in Procs : q /= p => up'[q] = up[q]
<1> DEFINE n == up[p].name
           h == HeldOf(log, n, doc.held[n])
<1>1. up[p].pc = "mend" /\ up[p].pc \in Busy
  BY DEF Mend, Busy
<1>2. /\ up[p] \in Calls /\ n \in Names /\ doc \in Docs /\ log \in Seq(Records)
      /\ doc.held[n] \in Values
  BY <1>1, CallFacts
<1>3. Effective(n) = h
  BY <1>2, HeldNowIs DEF Core
<1>4. h \in Values
  BY <1>2, EndsAreValues DEF HeldOf
<1>5. up' = [up EXCEPT ![p].pc = "compare", ![p].cur = Effective(n)]
  BY DEF Mend
<1>6. up \in [Procs -> Calls]
  BY DEF Core, Types
<1> HIDE DEF h
<1> DEFINE v == [up[p] EXCEPT !.pc = "compare", !.cur = h]
<1>7. up' = [up EXCEPT ![p] = v]
  BY <1>3, <1>5, <1>6
<1>8. v \in Calls /\ v.pc = "compare" /\ v.cur = h /\ v.name = n /\ v.next = up[p].next /\ v.expected = up[p].expected
  BY <1>2, <1>4 DEF Calls, Busy
<1> HIDE DEF v
<1>9. up' \in [Procs -> Calls] /\ up'[p] = v /\ \A q \in Procs : q /= p => up'[q] = up[q]
  BY <1>6, <1>7, <1>8
<1>10. /\ up'[p].pc = "compare" /\ up'[p].cur = h /\ up'[p].name = n /\ up'[p].next = up[p].next
       /\ up'[p].expected = up[p].expected
  BY <1>8, <1>9
<1> HIDE DEF n
<1> QED BY <1>1, <1>4, <1>9, <1>10, Zenon DEF h, n

\* The ref and its log agree, and nothing of the name is open.
LEMMA MendOK ==
  ASSUME Core, NEW p \in Procs, Mend(p), NEW n \in Names, n = up[p].name,
         log' \in Seq(Records), doc' \in Docs, disk' \in Docs, Chained(log'),
         pending' \in [Names -> [held : BOOLEAN, from : Values]],
         doc'.held[n] = HeldOf(log, n, doc.held[n]), NewOf(log', n) = HeldOf(log, n, doc.held[n]),
         pending'[n] = Settled,
         \A m \in Names : m /= n =>
           /\ NewOf(log', m) = NewOf(log, m) /\ OldOf(log', m) = OldOf(log, m)
           /\ \/ doc'.held[m] = doc.held[m] /\ pending'[m] = pending[m]
              \/ layout /= "cas" /\ doc'.held[m] = NewOf(log, m) /\ pending'[m] \in {Settled, pending[m]},
         layout /= "cas" => log' = log,
         layout = "jsonl" => doc'.seq = Len(log'),
         Fits(layout', log', doc'), faults' = 0 => DiskOK'
  PROVE  Core' /\ RefStep
<1> DEFINE h == HeldOf(log, n, doc.held[n])
<1>1. UNCHANGED <<layout, ident, lock, rd, updates, faults>>
  BY DEF Mend, bounds
<1>2. /\ h \in Values /\ up[p].pc = "mend" /\ up[p].pc \in Busy
      /\ up' \in [Procs -> Calls] /\ up'[p].pc = "compare" /\ up'[p].cur = h
      /\ up'[p].name = n /\ up'[p].next = up[p].next /\ up'[p].expected = up[p].expected
      /\ \A q \in Procs : q /= p => up'[q] = up[q]
  BY MendedCall DEF Busy
<1> HIDE DEF h
<1>3. Types'
  BY <1>1, <1>2 DEF Core, Types
<1>4. LocksHeld'
  BY <1>1, <1>2, LocksKept DEF Core
<1>5. CallOK(p)'
  BY <1>1, <1>2 DEF CallOK, Latest, Decided, Recorded, h
<1>6. \A q \in Procs : q /= p => CallOK(q)'
  <2>1. CASE layout = "cas"
    BY <1>1, <1>2, <2>1, OthersKeep
  <2>2. CASE layout /= "cas"
    <3>1. \A q \in Procs : q /= p => up[q].pc \notin Busy
      BY <1>2, <2>2, OneAtATime DEF Core
    <3>2. \A q \in Procs : q /= p => up'[q].pc \notin Busy \ {"mend"}
      BY <1>2, <3>1
    <3> QED BY <3>2, NotBusyOK
  <2> QED BY <2>1, <2>2
<1>7. \A m \in Names : m /= n /\ layout /= "cas" => ~Ahead(log, m, doc.held[m])
  BY DEF Core, Types, Fits, Ahead
<1>8. AheadOpen'
  <2> SUFFICES ASSUME NEW m \in Names, Ahead(log', m, doc'.held[m]) PROVE pending'[m] = Open(NewOf(log', m))
    BY DEF AheadOpen, Latest
  <2>1. m /= n
    BY DEF Ahead
  <2>2. doc'.held[m] = doc.held[m] /\ pending'[m] = pending[m]
    BY <2>1 DEF Ahead
  <2>3. Ahead(log, m, doc.held[m])
    BY <2>1, <2>2 DEF Ahead
  <2> QED BY <2>1, <2>2, <2>3 DEF Core, AheadOpen, Latest
<1>9. Apart'
  BY <1>1 DEF Core, Apart, Latest
<1>10. RefStep
  <2> DEFINE S == {m \in Names : pending'[m] = Settled}
  <2>1. pending' = [m \in Names |-> IF m \in S THEN Settled ELSE pending[m]]
    <3>1. \A m \in Names : pending'[m] \in {Settled, pending[m]}
      OBVIOUS
    <3> QED BY <3>1
  <2>2. \A m \in Names : HeldOf(log', m, doc'.held[m]) = HeldOf(log, m, doc.held[m])
    <3> SUFFICES ASSUME NEW m \in Names PROVE HeldOf(log', m, doc'.held[m]) = HeldOf(log, m, doc.held[m])
      OBVIOUS
    <3>1. CASE m = n
      BY <3>1 DEF HeldOf, Ahead
    <3>2. CASE m /= n /\ doc'.held[m] = doc.held[m]
      BY <3>2 DEF HeldOf, Ahead
    <3>3. CASE m /= n /\ layout /= "cas" /\ doc'.held[m] = NewOf(log, m)
      BY <1>7, <3>3 DEF HeldOf, Ahead
    <3> QED BY <3>1, <3>2, <3>3
  <2>3. S \in SUBSET Names
    OBVIOUS
  <2> HIDE DEF S
  <2> QED BY <1>3, <2>1, <2>2, <2>3, SettlesSome DEF Core
<1> QED BY <1>3, <1>4, <1>5, <1>6, <1>8, <1>9, <1>10 DEF Core

\* One process holds the one lock, and no update is under way.
LEMMA MendedDisk ==
  ASSUME Core, NEW p \in Procs, Mend(p), layout /= "cas", faults = 0, log' = log,
         \/ disk' = doc'
         \/ disk' = disk /\ doc' = doc,
         \A m \in Names : doc'.held[m] = NewOf(log, m) /\ pending'[m] \in {Settled, pending[m]}
  PROVE  DiskOK'
<1>1. DiskOK /\ up[p].pc = "mend" /\ up[p].pc \in Busy /\ layout \in {"cas", "jsonl", "atomic"}
  BY MendedCall DEF Core, Busy, Types
<1>2. up'[p].pc = "compare" /\ \A q \in Procs : q /= p => up'[q] = up[q]
  BY MendedCall
<1>3. \A q \in Procs : q /= p => up[q].pc \notin Busy
  BY <1>1, OneAtATime DEF Core
<1>4. \A q \in Procs : up[q].pc \notin Recorded /\ up'[q].pc \notin Recorded
  BY <1>1, <1>2, <1>3 DEF Busy, Recorded
<1>5. \A q \in Procs : up[q].pc \notin {"dirsync", "fsync"} /\ up'[q].pc \notin {"dirsync", "fsync"}
  BY <1>4 DEF Recorded
<1>6. \A m \in Names : disk.held[m] = doc.held[m] /\ pending[m] = Settled
  BY <1>1, <1>4, <1>5 DEF DiskOK, At, RestsAt
<1>7. \A m \in Names : disk'.held[m] = doc'.held[m] /\ pending'[m] = Settled
  BY <1>6
<1>8. layout = "jsonl" => disk' = doc'
  BY <1>1, <1>5 DEF DiskOK
<1>9. \A i \in 1..Len(log) : log[i].durable
  BY <1>1, <1>5 DEF DiskOK
<1>10. layout' = layout
  BY DEF Mend
<1> QED BY <1>5, <1>7, <1>8, <1>9, <1>10 DEF DiskOK, RestsAt, Latest

\* Where CasLag and the last record stand.
LEMMA CasLagIs ==
  ASSUME Types, NEW n \in Names, NEW f
  PROVE  /\ CasLag(n, f) /= {} => f = OldOf(log, n) /\ f /= NewOf(log, n)
         /\ f = OldOf(log, n) /\ f /= NewOf(log, n) => CasLag(n, f) /= {}
         /\ (IF RefTail(n) = {} THEN NoTarget ELSE log[CHOOSE i \in RefTail(n) : TRUE].new) = NewOf(log, n)
<1>1. RefTail(n) = TailOf(log, n) /\ log \in Seq(Records)
  BY DEF RefTail, TailOf, Types
<1>2. CasLag(n, f) = {i \in TailOf(log, n) : log[i].old = f /\ log[i].new /= f}
  BY <1>1 DEF CasLag, Same
<1>3. (IF RefTail(n) = {} THEN NoTarget ELSE log[CHOOSE i \in RefTail(n) : TRUE].new) = NewOf(log, n)
  BY <1>1 DEF NewOf
<1>4. CASE TailOf(log, n) = {}
  BY <1>2, <1>3, <1>4 DEF OldOf, NewOf
<1>5. CASE TailOf(log, n) /= {}
  <2>1. PICK i \in TailOf(log, n) : TRUE
    BY <1>5
  <2>2. OldOf(log, n) = log[i].old /\ NewOf(log, n) = log[i].new /\ \A j \in TailOf(log, n) : j = i
    BY <1>1, <2>1, TailIsOne
  <2> QED BY <1>2, <1>3, <2>1, <2>2
<1> QED BY <1>4, <1>5

\* mendRef: the record the file lacks is made, or the file the log does not
\* account for is recorded.
LEMMA MendCas ==
  ASSUME Core, NEW p \in Procs, Mend(p), layout = "cas"
  PROVE  Core' /\ RefStep
<1> DEFINE n == up[p].name
           f == doc.held[n]
           h == HeldOf(log, n, f)
           last == NewOf(log, n)
           rec == [name |-> n, old |-> last, new |-> f, durable |-> TRUE]
<1>1. /\ up[p].pc = "mend" /\ up[p].pc \in Busy /\ up'[p].pc = "compare" /\ \A q \in Procs : q /= p => up'[q] = up[q]
      /\ h \in Values
  BY MendedCall DEF Busy
<1>2. /\ n \in Names /\ doc \in Docs /\ disk \in Docs /\ log \in Seq(Records) /\ Len(log) \in Nat /\ f \in Values
      /\ Types
  BY <1>1, CallFacts DEF Core
<1>3. UNCHANGED <<layout, faults>> /\ pending' = [pending EXCEPT ![n] = Settled]
  BY DEF Mend, MendRef, bounds
<1>4. /\ pending' \in [Names -> [held : BOOLEAN, from : Values]] /\ pending'[n] = Settled
      /\ \A m \in Names : m /= n => pending'[m] = pending[m]
  <2>1. Settled \in [held : BOOLEAN, from : Values]
    BY DEF Settled, Values
  <2> QED BY <1>2, <1>3, <2>1 DEF Types
<1>5. last \in Values
  BY <1>2, EndsAreValues
<1>6. rec \in Records /\ rec.name = n /\ rec.old = last /\ rec.new = f /\ rec.durable = TRUE
  BY <1>2, <1>5 DEF Records
<1> HIDE DEF rec
<1>7. \/ /\ f = OldOf(log, n) /\ f /= last
         /\ doc' = [held |-> [doc.held EXCEPT ![n] = Effective(n)], seq |-> 0] /\ disk' = doc' /\ log' = log
      \/ /\ f /= OldOf(log, n) /\ f /= last
         /\ Extends(log, rec, log') /\ doc' = doc /\ disk' = disk
      \/ f = last /\ doc' = doc /\ disk' = disk /\ log' = log
  <2>1. MendRef(n)
    BY DEF Mend
  <2>2. CASE CasLag(n, f) /= {}
    <3>1. f = OldOf(log, n) /\ f /= last
      BY <1>2, <2>2, CasLagIs
    <3> QED BY <2>1, <2>2, <3>1 DEF MendRef, Replaced
  <2>3. CASE CasLag(n, f) = {} /\ last /= f
    <3>1. f /= OldOf(log, n)
      BY <1>2, <2>3, CasLagIs
    <3>2. (IF RefTail(n) = {} THEN NoTarget ELSE log[CHOOSE i \in RefTail(n) : TRUE].new) = last
      BY <1>2, CasLagIs
    <3> HIDE DEF last
    <3>3. log' = Append(log, [name |-> n, old |-> last, new |-> f, durable |-> TRUE]) /\ UNCHANGED <<doc, disk>>
      BY <2>1, <2>3, <3>2 DEF MendRef, Same
    <3> QED BY <2>3, <3>1, <3>3 DEF Extends, rec
  <2>4. CASE CasLag(n, f) = {} /\ last = f
    <3>1. (IF RefTail(n) = {} THEN NoTarget ELSE log[CHOOSE i \in RefTail(n) : TRUE].new) = last
      BY <1>2, CasLagIs
    <3> HIDE DEF last
    <3> QED BY <2>1, <2>4, <3>1 DEF MendRef, Same, files
  <2> QED BY <2>2, <2>3, <2>4
<1> DEFINE Kept(m) == NewOf(log', m) = NewOf(log, m) /\ OldOf(log', m) = OldOf(log, m) /\ doc'.held[m] = doc.held[m]
<1>8. /\ log' \in Seq(Records) /\ doc' \in Docs /\ disk' \in Docs /\ Chained(log')
      /\ doc'.held[n] = h /\ NewOf(log', n) = h
      /\ \A m \in Names : m /= n => Kept(m) /\ (disk'.held[m] = disk.held[m] \/ disk'.held[m] = doc'.held[m])
      /\ faults = 0 => disk'.held[n] = doc'.held[n]
      /\ faults = 0 => \A i \in 1..Len(log') : ~log'[i].durable =>
           /\ i \in TailOf(log', log'[i].name)
           /\ \E q \in Procs : up'[q].pc = "fsync" /\ up'[q].name = log'[i].name
  <2>1. Chained(log)
    BY DEF Core
  <2>2. faults = 0 => f = last /\ disk.held[n] = f
    <3>1. \A q \in Procs : q /= p /\ up[q].pc \in Busy => up[q].name /= n
      BY <1>1, OneAtATime DEF Core
    <3>2. ~At(n, Recorded) /\ ~At(n, {"dirsync"})
      BY <1>1, <3>1 DEF At, Recorded, Busy
    <3> QED BY <1>2, <3>2 DEF Core, DiskOK, RestsAt, Latest
  <2>3. ASSUME faults = 0, NEW i \in 1..Len(log), ~log[i].durable
        PROVE  /\ i \in TailOf(log, log[i].name)
               /\ \E q \in Procs : up'[q].pc = "fsync" /\ up'[q].name = log[i].name
    <3>1. i \in TailOf(log, log[i].name)
      BY <2>3 DEF Core, DiskOK
    <3>2. PICK q \in Procs : up[q].pc = "fsync" /\ up[q].name = log[i].name
      BY <2>3 DEF Core, DiskOK
    <3>3. up'[q] = up[q]
      BY <1>1, <3>2
    <3> QED BY <3>1, <3>2, <3>3
  <2>4. CASE f = OldOf(log, n) /\ f /= last /\ log' = log /\ disk' = doc' /\ doc' = [held |-> [doc.held EXCEPT ![n] = Effective(n)], seq |-> 0]
    <3>1. Effective(n) = h
      BY <1>2, HeldNowIs DEF Core
    <3>2. h = last
      BY <2>4 DEF HeldOf, Ahead
    <3> HIDE DEF h
    <3>3. doc' \in Docs /\ doc'.held[n] = h /\ \A m \in Names : m /= n => doc'.held[m] = doc.held[m]
      BY <1>1, <1>2, <2>4, <3>1 DEF Docs
    <3> QED BY <1>2, <2>1, <2>2, <2>4, <3>2, <3>3
  <2>5. CASE f /= OldOf(log, n) /\ f /= last /\ Extends(log, rec, log') /\ doc' = doc /\ disk' = disk
    <3>1. h = f
      BY <2>5 DEF HeldOf, Ahead
    <3>2. EndsIn(log, rec, log', n)
      BY <1>2, <1>6, <2>5, AppendedTail
    <3>3. Chained(log')
      BY <1>2, <1>6, <2>1, <2>5, AppendedChain
    <3> HIDE DEF h
    <3> QED BY <1>2, <1>6, <2>2, <2>5, <3>1, <3>2, <3>3 DEF EndsIn
  <2>6. CASE f = last /\ doc' = doc /\ disk' = disk /\ log' = log
    <3>1. h = last
      BY <2>6 DEF HeldOf, Ahead
    <3> HIDE DEF h
    <3> QED BY <1>2, <2>1, <2>2, <2>3, <2>6, <3>1
  <2> QED BY <1>7, <2>4, <2>5, <2>6
<1>9. faults' = 0 => DiskOK'
  <2> SUFFICES ASSUME faults = 0 PROVE DiskOK'
    BY <1>3
  <2>1. up'[p].pc \notin Recorded /\ up'[p].pc /= "dirsync"
    BY <1>1 DEF Recorded
  <2>2. doc'.held[n] = NewOf(log', n)
    BY <1>8
  <2> HIDE DEF h
  <2> QED BY <1>1, <1>2, <1>3, <1>4, <1>8, <2>1, <2>2, DiskKept
<1>10. Fits(layout', log', doc')
  BY <1>3 DEF Fits
<1> HIDE DEF h
<1> QED BY <1>1, <1>2, <1>3, <1>4, <1>8, <1>9, <1>10, MendOK DEF h

\* The JSON lines store makes the one record its document may lack, whichever
\* name it moves; the atomic stores have nothing to mend.
LEMMA MendWhole ==
  ASSUME Core, NEW p \in Procs, Mend(p), layout /= "cas"
  PROVE  Core' /\ RefStep
<1> DEFINE n == up[p].name
           h == HeldOf(log, n, doc.held[n])
           made == IF doc.seq < Len(log) THEN log[Len(log)].name ELSE n
<1>1. up[p].pc = "mend" /\ up[p].pc \in Busy
  BY MendedCall DEF Busy
<1>2. /\ n \in Names /\ doc \in Docs /\ disk \in Docs /\ log \in Seq(Records) /\ Len(log) \in Nat
      /\ doc.seq \in Nat /\ (\A m \in Names : NewOf(log, m) \in Values /\ doc.held[m] \in Values)
      /\ Types /\ Fits(layout, log, doc) /\ Chained(log)
  BY <1>1, CallFacts, EndsAreValues DEF Core, Docs
<1>3. UNCHANGED <<layout, faults>> /\ layout \in {"jsonl", "atomic"}
  BY <1>2 DEF Mend, bounds, Types
<1>4. \A m \in Names : ~Ahead(log, m, doc.held[m])
  BY <1>2, <1>3 DEF Fits, Ahead
<1>5. \A m \in Names : HeldOf(log, m, doc.held[m]) = NewOf(log, m)
  BY <1>4 DEF HeldOf
<1>6. made \in Names
  <2>1. doc.seq < Len(log) => log[Len(log)] \in Records
    BY <1>2
  <2> QED BY <1>2, <2>1 DEF Records
<1>7. Settled \in [held : BOOLEAN, from : Values]
  BY DEF Settled, Values
<1>8. /\ log' = log /\ doc' \in Docs /\ disk' \in Docs
      /\ disk' = doc' \/ (disk' = disk /\ doc' = doc)
      /\ \A m \in Names : doc'.held[m] = NewOf(log, m)
      /\ layout = "jsonl" => doc'.seq = Len(log)
      /\ pending' \in [Names -> [held : BOOLEAN, from : Values]] /\ pending'[n] = Settled
      /\ \A m \in Names : pending'[m] \in {Settled, pending[m]}
      /\ \A m \in Names : m /= n => \/ doc'.held[m] = doc.held[m] /\ pending'[m] = pending[m]
                                    \/ doc'.held[m] = NewOf(log, m)
  <2>1. CASE layout = "jsonl"
    <3>1. MendDoc(n)
      BY <2>1 DEF Mend
    <3>2. /\ pending' = [pending EXCEPT ![made] = Settled, ![n] = Settled] /\ log' = log
          /\ IF doc.seq < Len(log) THEN Replaced(made, Effective(made)) /\ disk' = doc' ELSE UNCHANGED <<doc, disk>>
      BY <3>1 DEF MendDoc
    <3>3. Effective(made) = NewOf(log, made)
      BY <1>2, <1>5, <1>6, HeldNowIs
    <3>4. \A m \in Names : doc.held[m] = IF doc.seq < Len(log) /\ log[Len(log)].name = m THEN OldOf(log, m) ELSE NewOf(log, m)
      BY <1>2, <2>1 DEF Fits
    <3>5. doc.seq \in {Len(log), Len(log) - 1}
      BY <1>2, <2>1 DEF Fits
    <3>6. /\ pending' \in [Names -> [held : BOOLEAN, from : Values]] /\ pending'[n] = Settled
          /\ \A m \in Names : pending'[m] \in {Settled, pending[m]}
          /\ \A m \in Names : m \notin {made, n} => pending'[m] = pending[m]
      <4> HIDE DEF made, n
      <4> QED BY <1>2, <1>6, <1>7, <3>2 DEF Types
    <3>7. CASE doc.seq < Len(log)
      <4>1. doc' = [held |-> [doc.held EXCEPT ![made] = NewOf(log, made)], seq |-> Len(log)] /\ disk' = doc'
        BY <2>1, <3>2, <3>3, <3>7 DEF Replaced
      <4>2. made = log[Len(log)].name
        BY <3>7
      <4> HIDE DEF made
      <4>3. doc' \in Docs /\ doc'.seq = Len(log) /\ \A m \in Names : doc'.held[m] = NewOf(log, m)
        BY <1>2, <1>6, <3>4, <3>7, <4>1, <4>2 DEF Docs
      <4> QED BY <1>2, <2>1, <3>2, <3>6, <4>1, <4>3
    <3>8. CASE ~(doc.seq < Len(log))
      <4>1. \A m \in Names : doc.held[m] = NewOf(log, m)
        BY <3>4, <3>8
      <4>2. doc.seq = Len(log)
        BY <1>2, <3>5, <3>8
      <4> QED BY <1>2, <3>2, <3>6, <3>8, <4>1, <4>2
    <3> QED BY <3>7, <3>8
  <2>2. CASE layout = "atomic"
    <3>1. pending' = [pending EXCEPT ![n] = Settled] /\ log' = log /\ doc' = doc /\ disk' = disk
      BY <2>2 DEF Mend, files
    <3>2. \A m \in Names : doc.held[m] = NewOf(log, m)
      BY <1>2, <2>2 DEF Fits
    <3>3. /\ pending' \in [Names -> [held : BOOLEAN, from : Values]] /\ pending'[n] = Settled
          /\ \A m \in Names : m /= n => pending'[m] = pending[m]
      <4> HIDE DEF n
      <4> QED BY <1>2, <1>7, <3>1 DEF Types
    <3> QED BY <1>2, <2>2, <3>1, <3>2, <3>3
  <2> QED BY <1>3, <2>1, <2>2
<1>9. faults' = 0 => DiskOK'
  BY <1>3, <1>8, MendedDisk
<1>10. Fits(layout', log', doc')
  <2>1. layout = "atomic" => \A m \in Names : doc'.held[m] = NewOf(log', m)
    BY <1>8
  <2>2. layout = "jsonl" =>
         /\ doc'.seq \in {Len(log'), Len(log') - 1} /\ ~(doc'.seq < Len(log'))
         /\ \A m \in Names : doc'.held[m] = NewOf(log', m)
    BY <1>2, <1>8
  <2> QED BY <1>3, <2>1, <2>2 DEF Fits
<1>11. doc'.held[n] = HeldOf(log, n, doc.held[n]) /\ NewOf(log', n) = HeldOf(log, n, doc.held[n])
  BY <1>2, <1>5, <1>8
<1>12. \A m \in Names : m /= n =>
         /\ NewOf(log', m) = NewOf(log, m) /\ OldOf(log', m) = OldOf(log, m)
         /\ \/ doc'.held[m] = doc.held[m] /\ pending'[m] = pending[m]
            \/ layout /= "cas" /\ doc'.held[m] = NewOf(log, m) /\ pending'[m] \in {Settled, pending[m]}
  BY <1>8
<1>13. log' \in Seq(Records) /\ Chained(log')
  BY <1>2, <1>8
<1> HIDE DEF n
<1> QED BY <1>2, <1>8, <1>9, <1>10, <1>11, <1>12, <1>13, MendOK DEF n

\* Mending moves no ref and settles what was open.
LEMMA MendStep == ASSUME Core, NEW p \in Procs, Mend(p) PROVE Core' /\ RefStep
BY MendCas, MendWhole

-----------------------------------------------------------------------------
(* Updates that fail.                                                      *)

\* A record cut back is its name's last, and the ref's old target is again
\* what its log ends in.
LEMMA CutBackIs ==
  ASSUME Core, NEW p \in Procs, up[p].pc \in {"fsync", "place", "dirsync"}, NEW n \in Names, n = up[p].name, CutBack(n)
  PROVE  /\ log' \in Seq(Records) /\ Len(log) \in Nat /\ Len(log') = Len(log) - 1 /\ Chained(log')
         /\ NewOf(log', n) = up[p].cur
         /\ \A m : m /= n => OldOf(log', m) = OldOf(log, m) /\ NewOf(log', m) = NewOf(log, m)
<1>1. up[p].pc \in Busy /\ up[p].pc \in Recorded /\ up[p].pc \in Decided
  BY DEF Busy, Recorded, Decided
<1>2. /\ log \in Seq(Records) /\ Len(log) \in Nat /\ CallOK(p) /\ Chained(log) /\ up[p].next /= up[p].cur
  BY <1>1, CallFacts DEF Core
<1>3. OldOf(log, n) = up[p].cur /\ NewOf(log, n) = up[p].next /\ (layout = "jsonl" => log /= << >> /\ log[Len(log)].name = n)
  BY <1>1, <1>2 DEF CallOK, Before, Latest, LastNames
<1>4. TailOf(log, n) /= {}
  BY <1>2, <1>3 DEF OldOf, NewOf
<1>5. LastOf(n) /= {} /\ LastOf(n) \subseteq TailOf(log, n)
  <2>1. CASE layout = "jsonl"
    <3>1. Len(log) \in 1..Len(log)
      BY <1>2, <1>3, <2>1
    <3>2. Len(log) \in TailOf(log, n)
      BY <1>2, <1>3, <2>1, <3>1 DEF TailOf
    <3>3. LastOf(n) = {i \in 1..Len(log) : i = Len(log)}
      BY <2>1 DEF LastOf, RefLogTail
    <3> QED BY <3>1, <3>2, <3>3
  <2>2. CASE layout /= "jsonl"
    BY <1>4, <2>2 DEF LastOf, RefTail, TailOf
  <2> QED BY <2>1, <2>2
<1>6. PICK t \in TailOf(log, n) : log' = RemoveAt(log, t)
  BY <1>5 DEF CutBack
<1>7. /\ log' \in Seq(Records) /\ Len(log') = Len(log) - 1
      /\ Chained(log')
      /\ NewOf(log', n) = OldOf(log, n)
      /\ \A m : m /= n => OldOf(log', m) = OldOf(log, m) /\ NewOf(log', m) = NewOf(log, m)
  BY <1>2, <1>6, RemovedRecord
<1> QED BY <1>2, <1>3, <1>7

\* The files fit without the record.
LEMMA CutFits ==
  ASSUME Core, NEW p \in Procs, up[p].pc \in {"fsync", "place", "dirsync"}, up[p].pc = "dirsync" => layout = "cas",
         NEW n \in Names, n = up[p].name, CutBack(n), layout' = layout, doc' = doc
  PROVE  Fits(layout', log', doc') /\ layout /= "atomic"
<1>1. up[p].pc \in Busy /\ up[p].pc \in Recorded
  BY DEF Busy, Recorded
<1>2. /\ log \in Seq(Records) /\ Len(log) \in Nat /\ CallOK(p) /\ Fits(layout, log, doc)
  BY <1>1, CallFacts DEF Core
<1>3. /\ log' \in Seq(Records) /\ Len(log') = Len(log) - 1 /\ NewOf(log', n) = up[p].cur
      /\ \A m : m /= n => OldOf(log', m) = OldOf(log, m) /\ NewOf(log', m) = NewOf(log, m)
  BY CutBackIs
<1>4. /\ layout /= "atomic"
      /\ layout = "jsonl" => /\ log[Len(log)].name = n
                            /\ doc.held[n] = up[p].cur /\ doc.seq = Len(log) - 1
  BY <1>1, <1>2 DEF CallOK, LastNames
<1>5. CASE layout = "jsonl"
  <2>1. \A m \in Names : m /= n => doc.held[m] = NewOf(log, m)
    BY <1>2, <1>4, <1>5 DEF Fits
  <2>2. doc'.seq = Len(log') /\ ~(doc'.seq < Len(log'))
    BY <1>2, <1>3, <1>4, <1>5
  <2>3. \A m \in Names : doc'.held[m] = NewOf(log', m)
    BY <1>3, <1>4, <1>5, <2>1
  <2> QED BY <1>5, <2>2, <2>3 DEF Fits
<1>6. CASE layout /= "jsonl"
  BY <1>4, <1>6 DEF Fits
<1> QED BY <1>4, <1>5, <1>6

\* An update that failed and took its record back.
LEMMA CutsOK ==
  ASSUME Core, NEW p \in Procs, up[p].pc \in {"fsync", "place", "dirsync"}, up[p].pc = "dirsync" => layout = "cas",
         NEW n \in Names, n = up[p].name, CutBack(n), Finish(p),
         UNCHANGED <<layout, ident, doc, disk, rd, updates>>, faults' \in Nat, faults' /= 0,
         pending' = IF HeldOf(log', n, doc.held[n]) = up[p].next THEN pending ELSE [pending EXCEPT ![n] = Settled]
  PROVE  Core' /\ RefStep
<1> DEFINE c == up[p].cur
           t == up[p].next
<1>1. up[p].pc \in Busy /\ up[p].pc \in Recorded /\ up[p].pc \in Decided
  BY DEF Busy, Recorded, Decided
<1>2. /\ log \in Seq(Records) /\ Len(log) \in Nat /\ CallOK(p) /\ c \in Values /\ t \in Values /\ t /= c
      /\ doc \in Docs /\ Types /\ LocksHeld /\ Fits(layout, log, doc)
  BY <1>1, CallFacts DEF Core
<1>3. /\ log' \in Seq(Records) /\ Len(log') = Len(log) - 1 /\ Chained(log') /\ NewOf(log', n) = c
      /\ \A m : m /= n => OldOf(log', m) = OldOf(log, m) /\ NewOf(log', m) = NewOf(log, m)
  BY CutBackIs
<1>4. /\ OldOf(log, n) = c /\ NewOf(log, n) = t /\ pending[n] = Open(c) /\ layout /= "atomic"
      /\ layout = "jsonl" => log /= << >> /\ log[Len(log)].name = n
      /\ layout /= "cas" => \A m \in Names : <<n, m>> \in Conflicts => NewOf(log, m) = NoTarget
      /\ up[p].pc = "dirsync" => doc.held[n] = t
      /\ up[p].pc /= "dirsync" => doc.held[n] = c /\ (layout = "jsonl" => doc.seq = Len(log) - 1)
  BY <1>1, <1>2 DEF CallOK, Before, Latest, LastNames
<1>5. \/ doc.held[n] = c /\ HeldOf(log', n, doc.held[n]) = c
      \/ doc.held[n] = t /\ layout = "cas" /\ Ahead(log', n, t) /\ HeldOf(log', n, doc.held[n]) = t
      \/ doc.held[n] = t /\ layout = "cas" /\ ~Ahead(log', n, t) /\ HeldOf(log', n, doc.held[n]) = c
  BY <1>3, <1>4 DEF HeldOf, Ahead
<1>6. \A m \in Names : m /= n => HeldOf(log', m, doc'.held[m]) = HeldOf(log, m, doc.held[m])
  BY <1>3 DEF HeldOf, Ahead
<1>7. /\ pending' \in [Names -> [held : BOOLEAN, from : Values]]
      /\ \A m \in Names : m /= n => pending'[m] = pending[m]
  <2>1. Settled \in [held : BOOLEAN, from : Values]
    BY DEF Settled, Values
  <2> QED BY <1>2, <2>1 DEF Types
<1>8. /\ up' \in [Procs -> Calls] /\ up'[p].pc = "idle"
      /\ \A q \in Procs : q /= p => up'[q] = up[q]
      /\ \A q \in Procs : up'[q].pc /= "idle" => up'[q].name \in Names
      /\ lock' \in [Names \cup {AllNames} -> Procs \cup {Free}]
      /\ LocksHeld' /\ CallOK(p)'
  BY <1>2, Finished
<1>9. Types'
  BY <1>2, <1>3, <1>7, <1>8 DEF Types
<1>10. \A q \in Procs : CallOK(q)'
  BY <1>1, <1>3, <1>7, <1>8, OthersKeep
<1>11. Fits(layout', log', doc')
  BY CutFits
<1>12. AheadOpen'
  <2> SUFFICES ASSUME NEW m \in Names, Ahead(log', m, doc'.held[m]) PROVE pending'[m] = Open(NewOf(log', m))
    BY DEF AheadOpen, Latest
  <2>1. CASE m = n
    BY <1>2, <1>3, <1>4, <1>5, <2>1 DEF Ahead
  <2>2. CASE m /= n
    BY <1>3, <1>7, <2>2 DEF Core, AheadOpen, Ahead, Latest
  <2> QED BY <2>1, <2>2
<1>13. Apart'
  BY <1>3, <1>4, RefAssumption DEF Core, Apart, Latest
<1>14. RefStep
  <2>1. CASE HeldOf(log', n, doc.held[n]) = t
    <3>1. doc.held[n] = t /\ HeldOf(log, n, doc.held[n]) = t
      BY <1>2, <1>4, <1>5, <2>1 DEF HeldOf, Ahead
    <3>2. \A m \in Names : HeldOf(log', m, doc'.held[m]) = HeldOf(log, m, doc.held[m])
      BY <1>6, <2>1, <3>1
    <3> QED BY <1>2, <1>9, <1>11, <2>1, <3>2, HeldStays
  <2>2. CASE HeldOf(log', n, doc.held[n]) /= t
    <3>1. HeldOf(log', n, doc'.held[n]) = c
      BY <1>5, <2>2
    <3>2. pending' = [m \in Names |-> IF m \in {n} THEN Settled ELSE pending[m]]
      BY <1>2, <2>2 DEF Types
    <3>3. \A m \in {n} : pending[m] = Open(HeldOf(log', m, doc'.held[m]))
      BY <1>4, <3>1
    <3>4. {n} \in SUBSET Names /\ \A m \in Names : m \notin {n} => HeldOf(log', m, doc'.held[m]) = HeldOf(log, m, doc.held[m])
      BY <1>6
    <3> QED BY <1>2, <1>9, <1>11, <3>2, <3>3, <3>4, TakesBack
  <2> QED BY <2>1, <2>2
<1> QED BY <1>3, <1>8, <1>9, <1>10, <1>11, <1>12, <1>13, <1>14 DEF Core

\* A record that could not be fsynced is taken back, and with it the update.
LEMMA FsyncFailsStep == ASSUME Core, NEW p \in Procs, FsyncFails(p) PROVE Core' /\ RefStep
<1> DEFINE n == up[p].name
<1>1. /\ up[p].pc = "fsync" /\ CutBack(n) /\ Finish(p) /\ faults' = faults + 1
      /\ pending' = [pending EXCEPT ![n] = Settled]
      /\ UNCHANGED <<layout, ident, doc, disk, rd, updates>>
  BY DEF FsyncFails, Fault
<1>2. up[p].pc \in Busy /\ up[p].pc \in Recorded /\ up[p].pc \in Decided /\ up[p].pc \in {"fsync", "place", "dirsync"}
  BY <1>1 DEF Busy, Recorded, Decided
<1>3. n \in Names /\ CallOK(p) /\ up[p].next /= up[p].cur
  BY <1>2, CallFacts
<1>4. doc.held[n] = up[p].cur
  BY <1>1, <1>3 DEF CallOK
<1>5. NewOf(log', n) = up[p].cur
  BY <1>1, <1>2, <1>3, CutBackIs
<1>6. HeldOf(log', n, doc.held[n]) /= up[p].next
  BY <1>3, <1>4, <1>5 DEF HeldOf, Ahead
<1>7. faults' \in Nat /\ faults' /= 0
  BY <1>1 DEF Core, Types
<1>8. pending' = IF HeldOf(log', n, doc.held[n]) = up[p].next THEN pending ELSE [pending EXCEPT ![n] = Settled]
  BY <1>1, <1>6
<1> HIDE DEF n
<1> QED BY <1>1, <1>2, <1>3, <1>7, <1>8, CutsOK DEF n

\* A file that could not be placed or synced: the record is taken back, and the
\* ref with it unless its file stays ahead; or it stays for the next update.
LEMMA PlaceFailsStep == ASSUME Core, NEW p \in Procs, PlaceFails(p) PROVE Core' /\ RefStep
<1> DEFINE n == up[p].name
<1>1. /\ up[p].pc \in {"place", "dirsync"} /\ Finish(p) /\ faults' = faults + 1
      /\ up[p].pc = "dirsync" => layout = "cas"
      /\ UNCHANGED <<layout, ident, doc, disk, rd, updates>>
  BY DEF PlaceFails, Fault
<1>2. up[p].pc \in Busy /\ up[p].pc \in Recorded /\ up[p].pc \in {"fsync", "place", "dirsync"}
  BY <1>1 DEF Busy, Recorded
<1>3. faults' \in Nat /\ faults' /= 0
  BY <1>1 DEF Core, Types
<1>4. CASE UNCHANGED <<log, pending>>
  BY <1>1, <1>3, <1>4, EndsOK
<1>5. CASE CutBack(n) /\ pending' = IF HeldNow'[n] = HeldNow[n] THEN pending ELSE [pending EXCEPT ![n] = Settled]
  <2>1. /\ n \in Names /\ CallOK(p) /\ up[p].next /= up[p].cur /\ log \in Seq(Records) /\ Len(log) \in Nat
    BY <1>2, CallFacts DEF Decided, Recorded
  <2>2. log' \in Seq(Records) /\ Fits(layout', log', doc') /\ layout /= "atomic"
    BY <1>1, <1>2, <1>5, <2>1, CutBackIs, CutFits
  <2>3. HeldNow'[n] = HeldOf(log', n, doc.held[n])
    <3>1. doc' \in Docs
      BY <1>1 DEF Core, Types
    <3>2. HeldNow' = [m \in Names |-> HeldOf(log', m, doc'.held[m])]
      BY <2>2, <3>1, HeldNextIs
    <3> QED BY <1>1, <2>1, <3>2
  <2>4. HeldNow[n] = up[p].next
    <3>1. HeldNow[n] = HeldOf(log, n, doc.held[n])
      BY <2>1, HeldNowIs DEF Core
    <3>2. NewOf(log, n) = up[p].next /\ OldOf(log, n) = up[p].cur /\ doc.held[n] \in {up[p].cur, up[p].next}
      BY <1>1, <1>2, <2>1 DEF CallOK, Latest, Before
    <3> QED BY <3>1, <3>2 DEF HeldOf, Ahead
  <2>5. pending' = IF HeldOf(log', n, doc.held[n]) = up[p].next THEN pending ELSE [pending EXCEPT ![n] = Settled]
    BY <1>5, <2>3, <2>4
  <2> HIDE DEF n
  <2> QED BY <1>1, <1>2, <1>3, <1>5, <2>1, <2>5, CutsOK DEF n
<1> QED BY <1>1, <1>4, <1>5 DEF PlaceFails

-----------------------------------------------------------------------------
(* A loss of power.                                                        *)

\* n's last record was being fsynced and is lost.
Lost(n) == \E q \in Procs : up[q].pc = "fsync" /\ up[q].name = n /\ NewOf(log', n) = OldOf(log, n)

\* What a loss of power leaves of the log.
LEMMA LogAfterLoss ==
  ASSUME Core, PowerLoss
  PROVE  /\ log' \in Seq(Records) /\ Chained(log')
         /\ \A n \in Names : Lost(n) \/ (OldOf(log', n) = OldOf(log, n) /\ NewOf(log', n) = NewOf(log, n))
         /\ layout = "jsonl" =>
              \/ /\ Len(log') = Len(log) /\ (log /= << >> => log'[Len(log')].name = log[Len(log)].name)
                 /\ \A n : OldOf(log', n) = OldOf(log, n) /\ NewOf(log', n) = NewOf(log, n)
              \/ /\ Len(log') = Len(log) - 1 /\ log /= << >>
                 /\ Lost(log[Len(log)].name)
<1>0. ASSUME NEW b \in Nat PROVE Cardinality(1..b) = b
  <2>1. 1 \in Int /\ b \in Int
    OBVIOUS
  <2>2. Cardinality(1..b) = IF 1 > b THEN 0 ELSE b - 1 + 1
    BY <2>1, FS_Interval, Zenon
  <2> QED BY <2>2
<1>1. PICK kept \in SUBSET DOMAIN log : \E at \in [1..Cardinality(kept) -> kept] :
        /\ \A i \in DOMAIN log : log[i].durable => i \in kept
        /\ InTheirOrder(at, kept)
        /\ log' = [i \in DOMAIN at |-> [log[at[i]] EXCEPT !.durable = TRUE]]
  BY DEF PowerLoss
<1>2. PICK at \in [1..Cardinality(kept) -> kept] :
        /\ \A i \in DOMAIN log : log[i].durable => i \in kept
        /\ InTheirOrder(at, kept)
        /\ log' = [i \in DOMAIN at |-> [log[at[i]] EXCEPT !.durable = TRUE]]
  BY <1>1
<1>3. log \in Seq(Records) /\ Len(log) \in Nat /\ DOMAIN log = 1..Len(log) /\ DiskOK /\ Chained(log)
  BY DEF Core, Types, PowerLoss
<1>4. PICK N \in Nat : N = Cardinality(kept)
  <2>1. IsFiniteSet(1..Len(log))
    BY <1>3, FS_Interval
  <2>2. IsFiniteSet(kept)
    BY <1>3, <2>1, FS_Subset
  <2> QED BY <2>2, FS_CardinalityType
<1>5. at \in [1..N -> kept] /\ DOMAIN at = 1..N
  BY <1>4
<1>6. /\ log' \in Seq(Records) /\ Len(log') = N
      /\ \A i \in 1..N : log'[i].name = log[at[i]].name /\ log'[i].old = log[at[i]].old /\ log'[i].new = log[at[i]].new
  <2> DEFINE mark(i) == [log[at[i]] EXCEPT !.durable = TRUE]
  <2>1. \A i \in 1..N : log[at[i]] \in Records
    <3>1. \A k \in 1..Len(log) : log[k] \in Records
      BY <1>3
    <3>2. \A i \in 1..N : at[i] \in 1..Len(log)
      BY <1>3, <1>5
    <3> QED BY <3>1, <3>2
  <2>2. \A i \in 1..N : mark(i) \in Records /\ mark(i).name = log[at[i]].name /\ mark(i).old = log[at[i]].old /\ mark(i).new = log[at[i]].new
    BY <2>1 DEF Records
  <2>3. log' = [i \in 1..N |-> mark(i)]
    BY <1>2, <1>5
  <2> HIDE DEF mark
  <2> QED BY <2>2, <2>3
<1>7. \A i \in 1..Len(log) : i \notin kept => i \in TailOf(log, log[i].name) /\ \E q \in Procs : up[q].pc = "fsync" /\ up[q].name = log[i].name
  BY <1>2, <1>3 DEF DiskOK
<1>8. Thinned(log, log', at, kept)
  BY <1>2, <1>3, <1>5, <1>6, <1>7 DEF Thinned
<1>9. Chained(log')
  BY <1>3, <1>6, <1>8, ThinnedChain
<1>10. ASSUME NEW n
       PROVE  \/ TailOf(log, n) \subseteq kept /\ OldOf(log', n) = OldOf(log, n) /\ NewOf(log', n) = NewOf(log, n)
              \/ Lost(n)
  <2>1. CASE TailOf(log, n) \subseteq kept
    BY <1>3, <1>6, <1>8, <2>1, ThinnedKept
  <2>2. CASE ~(TailOf(log, n) \subseteq kept)
    <3>1. PICK t \in TailOf(log, n) : t \notin kept
      BY <2>2
    <3>2. NewOf(log', n) = OldOf(log, n)
      BY <1>3, <1>6, <1>8, <3>1, ThinnedLost
    <3>3. t \in 1..Len(log) /\ log[t].name = n
      BY <3>1 DEF TailOf
    <3> QED BY <1>7, <3>1, <3>2, <3>3 DEF Lost
  <2> QED BY <2>1, <2>2
<1>11. ASSUME layout = "jsonl"
       PROVE  \/ /\ Len(log') = Len(log) /\ (log /= << >> => log'[Len(log')].name = log[Len(log)].name)
                 /\ \A n : OldOf(log', n) = OldOf(log, n) /\ NewOf(log', n) = NewOf(log, n)
              \/ /\ Len(log') = Len(log) - 1 /\ log /= << >>
                 /\ Lost(log[Len(log)].name)
  <2>1. \A i \in 1..Len(log) : i \notin kept => i = Len(log)
    <3> SUFFICES ASSUME NEW i \in 1..Len(log), i \notin kept PROVE i = Len(log)
      OBVIOUS
    <3>1. PICK q \in Procs : up[q].pc = "fsync" /\ up[q].name = log[i].name
      BY <1>7
    <3>2. log[Len(log)].name = log[i].name
      BY <1>11, <3>1 DEF Core, CallOK, Recorded, LastNames
    <3>3. i \in TailOf(log, log[i].name)
      BY <1>7
    <3>4. Len(log) \in 1..Len(log)
      BY <1>3
    <3>5. Len(log) <= i
      <4>1. \A j \in 1..Len(log) : log[j].name = log[i].name => j <= i
        BY <1>3, <3>3, TailIsOne
      <4> QED BY <3>2, <3>4, <4>1
    <3>6. i <= Len(log) /\ i \in Int /\ Len(log) \in Int
      BY <1>3
    <3> QED BY <3>5, <3>6
  <2>2. CASE kept = 1..Len(log)
    <3>1. N = Len(log)
      <4>1. Cardinality(1..Len(log)) = Len(log)
        BY <1>0, <1>3
      <4> QED BY <1>4, <2>2, <4>1
    <3>2. \A n : TailOf(log, n) \subseteq kept
      BY <2>2 DEF TailOf
    <3>3. \A n : OldOf(log', n) = OldOf(log, n) /\ NewOf(log', n) = NewOf(log, n)
      BY <1>3, <1>6, <1>8, <3>2, ThinnedKept
    <3>4. ASSUME log /= << >> PROVE log'[Len(log')].name = log[Len(log)].name
      <4>1. Len(log) \in kept
        BY <1>3, <2>2, <3>4
      <4>2. PICK i \in 1..N : at[i] = Len(log)
        BY <1>2, <1>5, <4>1 DEF InTheirOrder
      <4>3. at[N] \in 1..Len(log) /\ (i < N => at[i] < at[N])
        <5>1. N \in 1..N
          BY <4>2
        <5>2. at[N] \in 1..Len(log)
          BY <1>5, <2>2, <5>1
        <5> QED BY <1>2, <1>5, <4>2, <5>1, <5>2 DEF InTheirOrder
      <4>4. i = N
        BY <1>3, <4>2, <4>3
      <4> QED BY <1>6, <3>1, <4>2, <4>4
    <3> QED BY <1>6, <3>1, <3>3, <3>4
  <2>3. CASE kept /= 1..Len(log)
    <3>1. PICK i \in 1..Len(log) : i \notin kept
      BY <1>3, <2>3
    <3>2. Len(log) \notin kept /\ Len(log) \in 1..Len(log)
      BY <2>1, <3>1
    <3>3. kept = 1..(Len(log) - 1)
      <4>1. \A k \in kept : k \in 1..Len(log)
        BY <1>3
      <4>2. ASSUME NEW k \in 1..(Len(log) - 1) PROVE k \in kept
        <5>0. Len(log) \in Nat
          BY <1>3
        <5>1. k \in 1..Len(log) /\ k /= Len(log)
          BY <5>0
        <5> QED BY <2>1, <5>1
      <4>3. ASSUME NEW k \in kept PROVE k \in 1..(Len(log) - 1)
        <5>1. k \in 1..Len(log) /\ k /= Len(log) /\ Len(log) \in Nat
          BY <1>3, <3>2, <4>1
        <5> QED BY <5>1
      <4> QED BY <4>2, <4>3
    <3>4. N = Len(log) - 1
      <4>1. Cardinality(1..(Len(log) - 1)) = Len(log) - 1
        <5>1. Len(log) - 1 \in Nat
          BY <1>3, <3>2
        <5> QED BY <1>0, <5>1
      <4> QED BY <1>4, <3>3, <4>1
    <3>5. Len(log) \in TailOf(log, log[Len(log)].name)
      BY <1>7, <3>2
    <3>6. Lost(log[Len(log)].name)
      BY <1>10, <3>2, <3>5
    <3>7. log /= << >>
      BY <1>3, <3>2
    <3> QED BY <1>6, <3>4, <3>6, <3>7
  <2> QED BY <2>2, <2>3
<1> QED BY <1>6, <1>9, <1>10, <1>11

\* What a loss of power leaves of the files.
LEMMA FilesAfterLoss ==
  ASSUME Core, PowerLoss
  PROVE  /\ layout' = layout /\ doc' \in Docs /\ disk' = doc' /\ DiskOK
         /\ \A n \in Names : doc'.held[n] \in {doc.held[n], disk.held[n]}
         /\ layout /= "cas" => doc' \in {doc, disk}
<1>1. faults = 0 /\ layout' = layout /\ disk' = doc' /\ DiskOK /\ doc \in Docs /\ disk \in Docs
  BY DEF PowerLoss, Core, Types
<1>2. CASE layout = "cas"
  <2>1. doc' \in [held : {h \in [Names -> {doc.held[n] : n \in Names} \cup {disk.held[n] : n \in Names}] :
                               \A n \in Names : h[n] \in {doc.held[n], disk.held[n]}}, seq : {0}]
    BY <1>2 DEF PowerLoss
  <2>2. PICK h \in [Names -> {doc.held[n] : n \in Names} \cup {disk.held[n] : n \in Names}] :
          (\A n \in Names : h[n] \in {doc.held[n], disk.held[n]}) /\ doc' = [held |-> h, seq |-> 0]
    BY <2>1
  <2>3. \A n \in Names : doc.held[n] \in Values /\ disk.held[n] \in Values
    BY <1>1 DEF Docs
  <2>4. h \in [Names -> Values]
    BY <2>2, <2>3
  <2> QED BY <1>1, <1>2, <2>2, <2>4 DEF Docs
<1>3. CASE layout /= "cas"
  <2>1. doc' \in {doc, disk}
    BY <1>3 DEF PowerLoss
  <2> QED BY <1>1, <1>3, <2>1
<1> QED BY <1>2, <1>3

\* A ref no update is recorded for keeps what it holds; one whose update is
\* not answered holds what that moves it to, or again what it held.
LEMMA NameAfterLoss ==
  ASSUME Core, PowerLoss, NEW n \in Names
  PROVE  /\ ~Ahead(log', n, doc'.held[n])
         /\ \/ HeldOf(log', n, doc'.held[n]) = HeldOf(log, n, doc.held[n])
            \/ pending[n] = Open(HeldOf(log', n, doc'.held[n]))
<1>1. /\ DiskOK /\ doc'.held[n] \in {doc.held[n], disk.held[n]}
      /\ Lost(n) \/ (OldOf(log', n) = OldOf(log, n) /\ NewOf(log', n) = NewOf(log, n))
  BY FilesAfterLoss, LogAfterLoss
<1>2. CASE ~At(n, Recorded)
  <2>1. ~Lost(n) /\ ~At(n, {"dirsync"})
    BY <1>2 DEF At, Lost, Recorded
  <2>2. RestsAt(n) /\ disk.held[n] = doc.held[n]
    BY <1>1, <1>2, <2>1 DEF DiskOK
  <2> QED BY <1>1, <2>1, <2>2 DEF RestsAt, Latest, HeldOf, Ahead
<1>3. ASSUME At(n, Recorded)
      PROVE  /\ ~Ahead(log', n, doc'.held[n])
             /\ \/ HeldOf(log', n, doc'.held[n]) = HeldOf(log, n, doc.held[n])
                \/ pending[n] = Open(HeldOf(log', n, doc'.held[n]))
  <2>1. PICK p \in Procs : up[p].pc \in Recorded /\ up[p].name = n
    BY <1>3 DEF At
  <2>2. up[p].pc \in Busy /\ up[p].pc \in Decided
    BY <2>1 DEF Recorded, Busy, Decided
  <2>3. /\ OldOf(log, n) = up[p].cur /\ NewOf(log, n) = up[p].next /\ pending[n] = Open(up[p].cur)
        /\ doc.held[n] \in {up[p].cur, up[p].next} /\ (up[p].pc = "fsync" => doc.held[n] = up[p].cur)
    BY <2>1, <2>2 DEF Core, CallOK, Before, Latest, Recorded
  <2>4. \A q \in Procs : q /= p /\ up[q].pc \in Busy => up[q].name /= n
    BY <2>1, <2>2, OneAtATime DEF Core
  <2>5. disk.held[n] \in {up[p].cur, up[p].next} /\ (up[p].pc = "fsync" => disk.held[n] = up[p].cur)
    <3>1. CASE up[p].pc = "dirsync"
      BY <1>1, <2>1, <3>1 DEF DiskOK
    <3>2. CASE up[p].pc /= "dirsync"
      <4>1. ~At(n, {"dirsync"})
        BY <2>4, <3>2 DEF At, Busy
      <4> QED BY <1>1, <2>3, <4>1 DEF DiskOK
    <3> QED BY <3>1, <3>2
  <2>6. CASE Lost(n)
    <3>1. up[p].pc = "fsync"
      BY <2>4, <2>6 DEF Lost, Busy
    <3>2. NewOf(log', n) = up[p].cur
      BY <2>3, <2>6 DEF Lost
    <3> QED BY <1>1, <2>3, <2>5, <3>1, <3>2 DEF HeldOf, Ahead
  <2>7. CASE ~Lost(n)
    BY <1>1, <2>3, <2>5, <2>7 DEF HeldOf, Ahead
  <2> QED BY <2>6, <2>7
<1> QED BY <1>2, <1>3

\* The document and the log are lost together or not at all.
LEMMA FitsAfterLoss ==
  ASSUME Core, PowerLoss
  PROVE  Fits(layout', log', doc')
<1>1. /\ layout' = layout /\ doc' \in Docs /\ DiskOK /\ layout \in {"cas", "jsonl", "atomic"}
      /\ layout /= "cas" => doc' \in {doc, disk}
      /\ \A n \in Names : doc'.held[n] \in {doc.held[n], disk.held[n]}
  BY FilesAfterLoss DEF Core, Types
<1>2. /\ log' \in Seq(Records) /\ log \in Seq(Records) /\ Len(log) \in Nat /\ doc.seq \in Nat /\ Fits(layout, log, doc)
      /\ \A n \in Names : Lost(n) \/ (OldOf(log', n) = OldOf(log, n) /\ NewOf(log', n) = NewOf(log, n))
  BY LogAfterLoss DEF Core, Types, Docs
<1>3. CASE layout = "cas"
  BY <1>1, <1>3 DEF Fits
<1>4. CASE layout = "atomic"
  <2>1. \A q \in Procs : up[q].pc \notin {"fsync", "dirsync"}
    BY <1>4 DEF Core, CallOK
  <2>2. \A n \in Names : disk.held[n] = doc.held[n] /\ ~Lost(n) /\ doc.held[n] = NewOf(log, n)
    BY <1>1, <1>2, <1>4, <2>1 DEF DiskOK, At, Lost, Fits
  <2>3. \A n \in Names : doc'.held[n] = NewOf(log', n)
    BY <1>1, <1>2, <2>2
  <2> QED BY <1>1, <1>4, <2>3 DEF Fits
<1>5. CASE layout = "jsonl"
  <2>1. \/ /\ Len(log') = Len(log) /\ (log /= << >> => log'[Len(log')].name = log[Len(log)].name)
           /\ \A n : OldOf(log', n) = OldOf(log, n) /\ NewOf(log', n) = NewOf(log, n)
        \/ /\ Len(log') = Len(log) - 1 /\ log /= << >>
           /\ Lost(log[Len(log)].name)
    BY <1>5, LogAfterLoss
  <2>2. /\ doc.seq \in {Len(log), Len(log) - 1}
        /\ \A n \in Names : doc.held[n] = IF doc.seq < Len(log) /\ log[Len(log)].name = n THEN OldOf(log, n) ELSE NewOf(log, n)
    BY <1>2, <1>5 DEF Fits
  <2>3. CASE doc' = doc
    <3>1. CASE /\ Len(log') = Len(log) /\ (log /= << >> => log'[Len(log')].name = log[Len(log)].name)
               /\ \A n : OldOf(log', n) = OldOf(log, n) /\ NewOf(log', n) = NewOf(log, n)
      <4>1. doc.seq < Len(log) => log'[Len(log')].name = log[Len(log)].name
        BY <1>2, <3>1
      <4>2. \A n \in Names : doc'.held[n] = IF doc'.seq < Len(log') /\ log'[Len(log')].name = n THEN OldOf(log', n) ELSE NewOf(log', n)
        BY <2>2, <2>3, <3>1, <4>1
      <4> QED BY <1>1, <1>5, <2>2, <2>3, <3>1, <4>2 DEF Fits
    <3>2. CASE /\ Len(log') = Len(log) - 1 /\ log /= << >> /\ Lost(log[Len(log)].name)
      <4>1. PICK p \in Procs : up[p].pc = "fsync" /\ up[p].name = log[Len(log)].name /\ NewOf(log', up[p].name) = OldOf(log, up[p].name)
        BY <3>2 DEF Lost
      <4>2. up[p].name \in Names /\ doc.seq = Len(log) - 1
        BY <1>5, <4>1 DEF Core, CallOK, Types
      <4>3. \A n \in Names : n /= up[p].name => ~Lost(n)
        BY <1>5, <4>1, OneAtATime DEF Core, Lost, Busy
      <4>4. \A n \in Names : doc'.held[n] = NewOf(log', n)
        <5>1. doc.seq < Len(log)
          BY <1>2, <4>2
        <5> QED BY <1>2, <2>2, <2>3, <4>1, <4>3, <5>1
      <4>5. doc'.seq = Len(log') /\ ~(doc'.seq < Len(log'))
        BY <1>2, <2>3, <3>2, <4>2
      <4> QED BY <1>1, <1>5, <4>4, <4>5 DEF Fits
    <3> QED BY <2>1, <3>1, <3>2
  <2>4. CASE doc' /= doc
    <3>1. PICK p \in Procs : up[p].pc = "dirsync" /\ disk.seq = Len(log) - 1 /\ disk.held[up[p].name] = up[p].cur
      BY <1>1, <1>5, <2>4 DEF DiskOK
    <3>2. doc' = disk
      BY <1>1, <1>5, <2>4
    <3>3. \A q \in Procs : q /= p => up[q].pc \notin Busy
      BY <1>5, <3>1, OneAtATime DEF Core, Busy
    <3>4. \A n : ~Lost(n)
      BY <3>1, <3>3 DEF Lost, Busy
    <3>5. /\ Len(log') = Len(log) /\ (log /= << >> => log'[Len(log')].name = log[Len(log)].name)
          /\ \A n : OldOf(log', n) = OldOf(log, n) /\ NewOf(log', n) = NewOf(log, n)
      BY <2>1, <3>4
    <3>6. /\ log /= << >> /\ log[Len(log)].name = up[p].name /\ OldOf(log, up[p].name) = up[p].cur /\ doc.seq = Len(log)
      BY <1>5, <3>1 DEF Core, CallOK, Recorded, LastNames, Before
    <3>7. \A n \in Names : n /= up[p].name => disk.held[n] = doc.held[n]
      <4>1. \A n \in Names : n /= up[p].name => ~At(n, {"dirsync"})
        BY <3>3 DEF At, Busy
      <4> QED BY <1>1, <4>1 DEF DiskOK
    <3>8. doc'.seq = Len(log') - 1 /\ doc'.seq < Len(log') /\ log'[Len(log')].name = up[p].name
      BY <1>2, <3>1, <3>2, <3>5, <3>6
    <3>9. \A n \in Names : doc'.held[n] = IF up[p].name = n THEN OldOf(log', n) ELSE NewOf(log', n)
      <4>1. \A n \in Names : doc.held[n] = NewOf(log, n)
        BY <1>2, <2>2, <3>6
      <4> QED BY <3>1, <3>2, <3>5, <3>6, <3>7, <4>1
    <3> QED BY <1>1, <1>5, <3>8, <3>9 DEF Fits
  <2> QED BY <2>3, <2>4
<1> QED BY <1>1, <1>3, <1>4, <1>5

\* A loss of power takes back updates nobody was told of, and no other.
LEMMA PowerLossStep == ASSUME Core, PowerLoss PROVE Core' /\ RefStep
<1>1. /\ layout' = layout /\ doc' \in Docs /\ disk' = doc' /\ log' \in Seq(Records) /\ Chained(log')
      /\ \A n \in Names : Lost(n) \/ (OldOf(log', n) = OldOf(log, n) /\ NewOf(log', n) = NewOf(log, n))
  BY FilesAfterLoss, LogAfterLoss
<1>2. Fits(layout', log', doc') /\ Fits(layout, log, doc) /\ Types
  BY FitsAfterLoss DEF Core
<1>3. /\ ident' = ident /\ updates' = updates /\ faults' = MaxFaults /\ faults' \in Nat /\ faults' /= 0
      /\ up' = [p \in Procs |-> Idle] /\ lock' = [x \in DOMAIN lock |-> Free] /\ rd' = [r \in Readers |-> NotReading]
      /\ pending' = [n \in Names |-> IF HeldNow'[n] = HeldNow[n] THEN pending[n] ELSE Settled]
  BY RefAssumption DEF PowerLoss
<1>4. /\ HeldNow' = [m \in Names |-> HeldOf(log', m, doc'.held[m])]
      /\ HeldNow = [m \in Names |-> HeldOf(log, m, doc.held[m])]
  BY <1>1, <1>2, HeldNextIs, HeldNowIs
<1> DEFINE S == {n \in Names : HeldOf(log', n, doc'.held[n]) /= HeldOf(log, n, doc.held[n])}
<1>5. pending' = [n \in Names |-> IF n \in S THEN Settled ELSE pending[n]]
  BY <1>3, <1>4
<1>6. \A n \in Names : n \notin S => HeldOf(log', n, doc'.held[n]) = HeldOf(log, n, doc.held[n])
  OBVIOUS
<1>7. S \in SUBSET Names /\ \A n \in S : pending[n] = Open(HeldOf(log', n, doc'.held[n]))
  BY NameAfterLoss
<1> HIDE DEF S
<1>8. Types'
  <2>1. Idle \in Calls /\ Idle.pc = "idle"
    BY DEF Idle, Calls, Values, NoTarget, Asked, Free
  <2>2. NotReading \in Reads /\ NotReading.pc = "idle"
    BY DEF NotReading, Reads, Values
  <2>3. Settled \in [held : BOOLEAN, from : Values]
    BY DEF Settled, Values
  <2>4. pending' \in [Names -> [held : BOOLEAN, from : Values]]
    BY <1>2, <1>5, <2>3 DEF Types
  <2>5. lock' \in [Names \cup {AllNames} -> Procs \cup {Free}]
    BY <1>2, <1>3 DEF Types
  <2>6. up' \in [Procs -> Calls] /\ rd' \in [Readers -> Reads]
    BY <1>3, <2>1, <2>2
  <2>7. (\A p \in Procs : up'[p].pc = "idle") /\ \A r \in Readers : rd'[r].pc = "idle"
    BY <1>3, <2>1, <2>2
  <2>8. /\ layout' \in {"cas", "jsonl", "atomic"} /\ ident' \in [Sessions -> Int] /\ updates' \in Nat
        /\ \A s \in Sessions : ident'[s] /= 0 /\ ident'[s] <= MaxIdent /\ ident'[s] > -MaxIdent
    BY <1>1, <1>2, <1>3 DEF Types
  <2> QED BY <1>1, <1>3, <2>4, <2>5, <2>6, <2>7, <2>8 DEF Types
<1>9. \A p \in Procs : up'[p].pc = "idle"
  BY <1>3 DEF Idle
<1>10. LocksHeld' /\ \A p \in Procs : CallOK(p)'
  BY <1>9, NotBusyOK DEF LocksHeld, Busy
<1>11. AheadOpen'
  BY NameAfterLoss DEF AheadOpen
<1>12. Apart'
  <2> SUFFICES ASSUME layout /= "cas", NEW n \in Names, NEW m \in Names, <<n, m>> \in Conflicts
               PROVE  NewOf(log', n) = NoTarget \/ NewOf(log', m) = NoTarget
    BY <1>1 DEF Apart, Latest
  <2>1. n /= m /\ <<m, n>> \in Conflicts
    BY RefAssumption
  <2>2. ASSUME NEW a \in Names, NEW b \in Names, a /= b, <<a, b>> \in Conflicts, Lost(a)
        PROVE  NewOf(log', b) = NoTarget
    <3>1. PICK p \in Procs : up[p].pc = "fsync" /\ up[p].name = a
      BY <2>2 DEF Lost
    <3>2. NewOf(log, b) = NoTarget
      BY <2>2, <3>1 DEF Core, CallOK, Decided, Latest
    <3>3. ~Lost(b)
      BY <2>2, <3>1, OneAtATime DEF Core, Lost, Busy
    <3> QED BY <1>1, <3>2, <3>3
  <2>3. NewOf(log, n) = NoTarget \/ NewOf(log, m) = NoTarget
    BY DEF Core, Apart, Latest
  <2> QED BY <1>1, <2>1, <2>2, <2>3
<1>13. RefStep
  BY <1>2, <1>5, <1>6, <1>7, <1>8, TakesBack
<1> QED BY <1>1, <1>2, <1>3, <1>8, <1>10, <1>11, <1>12, <1>13 DEF Core

-----------------------------------------------------------------------------
(* The readers, and the theorems.                                          *)

\* Every step keeps the invariant and is a step of Refs or none.
LEMMA CoreStep ==
  ASSUME Core, [Next]_vars
  PROVE  Core' /\ RefStep
<1>1. CASE UNCHANGED vars
  BY <1>1, AsideStep DEF vars, Core, Types
<1>2. ASSUME NEW p \in Procs, Begin(p) \/ TakeLock(p) \/ Mend(p) \/ Compare(p) \/ Commit(p)
      PROVE  Core' /\ RefStep
  BY <1>2, BeginStep, TakeLockStep, MendStep, CompareStep, CommitStep
<1>3. ASSUME NEW p \in Procs, AppendRefRecord(p) \/ FsyncRecord(p) \/ FsyncFails(p) \/ PlaceRef(p)
      PROVE  Core' /\ RefStep
  BY <1>3, AppendStep, FsyncStep, FsyncFailsStep, PlaceStep
<1>4. ASSUME NEW p \in Procs, FsyncDir(p) \/ PlaceFails(p) \/ Answer(p) \/ Kill(p)
      PROVE  Core' /\ RefStep
  BY <1>4, FsyncDirStep, PlaceFailsStep, AnswerStep, KillStep
<1>5. ASSUME NEW r \in Readers, ReadRefFile(r) \/ ReadRefTail(r) \/ ResolveDone(r)
      PROVE  Core' /\ RefStep
  BY <1>5, ReaderStep
<1>6. ASSUME NEW s \in Sessions, DeleteSession(s) \/ CreateSession(s)
      PROVE  Core' /\ RefStep
  BY <1>6, SessionStep
<1>7. CASE PowerLoss
  BY <1>7, PowerLossStep
<1>8. CASE Step
  BY <1>2, <1>3, <1>4, <1>5, <1>6, <1>7, <1>8, Zenon DEF Step
<1> QED BY <1>1, <1>8 DEF Next

\* Where the log ends and what the file holds are both what a read may answer.
LEMMA CurrentHolds ==
  Core => \A n \in Names : NewOf(log, n) \in Current[n] /\ doc.held[n] \in Current[n]
<1> SUFFICES ASSUME Core, NEW n \in Names
             PROVE  NewOf(log, n) \in Current[n] /\ doc.held[n] \in Current[n]
  OBVIOUS
<1>1. HeldNow[n] = HeldOf(log, n, doc.held[n])
  BY HeldNowIs DEF Core
<1>2. /\ HeldNow[n] \in Current[n]
      /\ \A t : pending[n] = Open(t) => t \in Current[n]
      /\ faults /= 0 => doc.held[n] \in Current[n]
  BY OpenIs DEF Current
<1>3. NewOf(log, n) \in Current[n]
  BY <1>1, <1>2 DEF Core, AheadOpen, HeldOf, Latest
<1>4. doc.held[n] \in Current[n]
  <2>1. CASE faults = 0 /\ ~At(n, Recorded)
    BY <1>3, <2>1 DEF Core, DiskOK, RestsAt, Latest
  <2>2. CASE At(n, Recorded)
    <3>1. PICK p \in Procs : up[p].pc \in Recorded /\ up[p].name = n
      BY <2>2 DEF At
    <3>2. NewOf(log, n) = up[p].next /\ pending[n] = Open(up[p].cur) /\ doc.held[n] \in {up[p].cur, up[p].next}
      BY <3>1 DEF Core, CallOK, Latest, Recorded
    <3> QED BY <1>2, <1>3, <3>2
  <2>3. CASE faults /= 0
    BY <1>2, <2>3
  <2> QED BY <2>1, <2>2, <2>3
<1> QED BY <1>3, <1>4

\* What a reader has read of the file it may answer.
ReadOK == \A r \in Readers : rd[r].pc = "reading" => rd[r].file \in seen[r]

\* The inductive invariant.
RefInv == Core /\ ReadOK /\ ResolvesAHeldTarget

\* How far a step takes a read.
LEMMA ReadsMove ==
  ASSUME Core, Step, NEW r \in Readers
  PROVE  \/ rd'[r] = rd[r] \/ rd'[r].pc = "idle"
         \/ /\ rd[r].pc = "idle" /\ rd'[r].pc = "reading" /\ rd'[r].name \in Names
            /\ rd'[r].file = doc'.held[rd'[r].name]
         \/ /\ rd[r].pc = "reading" /\ rd'[r].pc = "resolved" /\ rd[r].name \in Names
            /\ rd'[r].got \in {rd[r].file, NewOf(log', rd[r].name)}
<1>1. rd \in [Readers -> Reads] /\ log \in Seq(Records) /\ (rd[r].pc /= "idle" => rd[r].name \in Names)
  BY DEF Core, Types
<1>2. CASE \E p \in Procs :
             \/ Begin(p) \/ TakeLock(p) \/ Mend(p) \/ Compare(p) \/ Commit(p)
             \/ AppendRefRecord(p) \/ FsyncRecord(p) \/ FsyncFails(p)
             \/ PlaceRef(p) \/ FsyncDir(p) \/ PlaceFails(p) \/ Answer(p) \/ Kill(p)
  <2>1. rd' = rd
    BY <1>2 DEF Begin, TakeLock, Mend, Compare, Commit, AppendRefRecord, FsyncRecord, FsyncFails,
                PlaceRef, FsyncDir, PlaceFails, Answer, Kill
  <2> QED BY <2>1
<1>3. CASE \E s \in Sessions : DeleteSession(s) \/ CreateSession(s)
  BY <1>3 DEF DeleteSession, CreateSession
<1>4. CASE PowerLoss
  BY <1>4 DEF PowerLoss, NotReading
<1>5. ASSUME NEW q \in Readers, ReadRefFile(q)
      PROVE  \/ rd'[r] = rd[r]
             \/ /\ rd[r].pc = "idle" /\ rd'[r].pc = "reading" /\ rd'[r].name \in Names
                /\ rd'[r].file = doc'.held[rd'[r].name]
  <2>1. PICK n \in Names :
          rd' = [rd EXCEPT ![q] = [pc |-> "reading", name |-> n, file |-> doc.held[n], seq |-> doc.seq, got |-> NoTarget]]
    BY <1>5 DEF ReadRefFile
  <2>2. rd[q].pc = "idle" /\ doc' = doc
    BY <1>5 DEF ReadRefFile, files
  <2> QED BY <1>1, <2>1, <2>2
<1>6. ASSUME NEW q \in Readers, ReadRefTail(q)
      PROVE  \/ rd'[r] = rd[r] \/ rd'[r].pc = "idle"
             \/ /\ rd[r].pc = "reading" /\ rd'[r].pc = "resolved" /\ rd[r].name \in Names
                /\ rd'[r].got \in {rd[r].file, NewOf(log', rd[r].name)}
  <2> DEFINE got == EffectiveFrom(rd[q].name, rd[q].file, rd[q].seq)
  <2>1. /\ rd[q].pc = "reading" /\ log' = log
        /\ rd' = IF got = NoTarget \/ Incarnation(got)
                 THEN [rd EXCEPT ![q].pc = "resolved", ![q].got = got]
                 ELSE [rd EXCEPT ![q] = NotReading]
    BY <1>6 DEF ReadRefTail, files
  <2>2. got \in {rd[q].file, NewOf(log, rd[q].name)}
    BY <1>1, EffectiveIsIn, EffectiveEither
  <2> HIDE DEF got
  <2>3. CASE q = r
    <3>1. CASE rd' = [rd EXCEPT ![q].pc = "resolved", ![q].got = got]
      <4>1. rd'[r] = [rd[r] EXCEPT !.pc = "resolved", !.got = got]
        BY <1>1, <2>3, <3>1
      <4>2. rd'[r].pc = "resolved" /\ rd'[r].got = got
        BY <1>1, <4>1 DEF Reads
      <4> QED BY <1>1, <2>1, <2>2, <2>3, <4>2
    <3>2. CASE rd' = [rd EXCEPT ![q] = NotReading]
      BY <1>1, <2>3, <3>2 DEF NotReading
    <3> QED BY <2>1, <3>1, <3>2
  <2>4. CASE q /= r
    BY <1>1, <2>1, <2>4
  <2> QED BY <2>3, <2>4
<1>7. ASSUME NEW q \in Readers, ResolveDone(q)
      PROVE  rd'[r] = rd[r] \/ rd'[r].pc = "idle"
  BY <1>1, <1>7 DEF ResolveDone, NotReading
<1> QED BY <1>2, <1>3, <1>4, <1>5, <1>6, <1>7, Zenon DEF Step

\* Every step keeps it: a reader answers what it read of the file, which it
\* could have answered then, or where the log ends, which it can answer now.
LEMMA InvStep ==
  ASSUME RefInv, [Next]_vars
  PROVE  RefInv'
<1>1. Core'
  BY CoreStep DEF RefInv
<1>2. \A n \in Names : NewOf(log', n) \in Current'[n] /\ doc'.held[n] \in Current'[n]
  <2>1. (Core => \A n \in Names : NewOf(log, n) \in Current[n] /\ doc.held[n] \in Current[n])'
    BY CurrentHolds, PTL
  <2> QED BY <1>1, <2>1
<1>3. CASE UNCHANGED vars
  BY <1>1, <1>3 DEF RefInv, ReadOK, ResolvesAHeldTarget, vars
<1>4. CASE Next
  <2>1. Step /\ Observed
    BY <1>4 DEF Next
  <2> SUFFICES ASSUME NEW r \in Readers
               PROVE  /\ rd'[r].pc = "reading" => rd'[r].file \in seen'[r]
                      /\ rd'[r].pc = "resolved" => rd'[r].got \in seen'[r]
    BY <1>1 DEF RefInv, ReadOK, ResolvesAHeldTarget
  <2>2. /\ rd[r].pc = "reading" => rd[r].file \in seen[r]
        /\ rd[r].pc = "resolved" => rd[r].got \in seen[r]
    BY DEF RefInv, ReadOK, ResolvesAHeldTarget
  <2>3. rd'[r].pc /= "idle" =>
          /\ rd[r].pc = "idle" => seen'[r] = Current'[rd'[r].name]
          /\ rd[r].pc = "reading" => seen'[r] = seen[r] \cup Current'[rd[r].name]
          /\ rd[r].pc = "resolved" => seen'[r] = seen[r]
    BY <2>1 DEF Observed
  <2>4. \/ rd'[r] = rd[r] \/ rd'[r].pc = "idle"
        \/ /\ rd[r].pc = "idle" /\ rd'[r].pc = "reading" /\ rd'[r].name \in Names
           /\ rd'[r].file = doc'.held[rd'[r].name]
        \/ /\ rd[r].pc = "reading" /\ rd'[r].pc = "resolved" /\ rd[r].name \in Names
           /\ rd'[r].got \in {rd[r].file, NewOf(log', rd[r].name)}
    BY <2>1, ReadsMove DEF RefInv
  <2>5. CASE rd'[r] = rd[r]
    BY <2>2, <2>3, <2>5
  <2>6. CASE /\ rd[r].pc = "idle" /\ rd'[r].pc = "reading" /\ rd'[r].name \in Names
             /\ rd'[r].file = doc'.held[rd'[r].name]
    BY <1>2, <2>3, <2>6
  <2>7. CASE /\ rd[r].pc = "reading" /\ rd'[r].pc = "resolved" /\ rd[r].name \in Names
             /\ rd'[r].got \in {rd[r].file, NewOf(log', rd[r].name)}
    BY <1>2, <2>2, <2>3, <2>7
  <2> QED BY <2>4, <2>5, <2>6, <2>7
<1> QED BY <1>3, <1>4

\* It says what the run checks.
LEMMA InvImplies == RefInv => RefsAccountedFor
<1> SUFFICES ASSUME RefInv PROVE RefsAccountedFor
  OBVIOUS
<1>1. LogIsAChain
  BY DEF RefInv, Core, Chained, LogIsAChain
<1>2. ASSUME layout /= "cas", NEW n \in Names, NEW m \in Names, <<n, m>> \in Conflicts
      PROVE  Effective(n) = NoTarget \/ Effective(m) = NoTarget
  <2>1. layout \in {"jsonl", "atomic"} /\ Fits(layout, log, doc) /\ Types
    BY <1>2 DEF RefInv, Core, Types
  <2>2. ~Ahead(log, n, doc.held[n]) /\ ~Ahead(log, m, doc.held[m])
    BY <2>1 DEF Fits, Ahead
  <2>3. Effective(n) = NewOf(log, n) /\ Effective(m) = NewOf(log, m)
    BY <2>1, <2>2, HeldNowIs DEF HeldOf
  <2>4. NewOf(log, n) = NoTarget \/ NewOf(log, m) = NoTarget
    BY <1>2 DEF RefInv, Core, Apart, Latest
  <2> QED BY <2>3, <2>4
<1>3. NamesApart
  BY <1>2 DEF NamesApart, NoRefUnderARef
<1> QED BY <1>1, <1>3 DEF RefInv, RefsAccountedFor

\* It holds for any number of processes, readers, names, failures and crashes.
LEMMA RefInvHolds == Spec => []RefInv
<1>1. Init => RefInv
  BY InitCore DEF RefInv, Init, ReadOK, ResolvesAHeldTarget, NotReading
<1>2. RefInv /\ [Next]_vars => RefInv'
  BY InvStep
<1> QED BY <1>1, <1>2, PTL DEF Spec

\* Whatever updates, failures and kills run beside it, or after a power loss, a
\* lock-free ResolveRef answers a target the ref held while it read, or that an
\* update not yet answered was moving it from (or one a failed update left in
\* the file); every log is a chain; and the stores with one lock keep
\* conflicting names apart (UpdateRef, mendRef, ResolveRef).
THEOREM RefsAreAccountedFor == Spec => []RefsAccountedFor
BY RefInvHolds, InvImplies, PTL

\* The three stores implement Refs: each step moves one ref by one update,
\* settles updates, or takes back ones that were never answered, whatever fails
\* and wherever a kill, or a power loss, falls between the log and the file
\* (UpdateRef, mendRef, refsLocked, placeRef).
THEOREM StoresImplementRefs == Spec => Implements
<1>1. Init => Held!Init
  BY HeldInit
<1>2. RefInv /\ [Next]_vars => [Held!Next]_(Held!vars)
  BY CoreStep DEF RefInv, RefStep, Held!vars
<1> QED BY <1>1, <1>2, RefInvHolds, PTL DEF Spec, Implements, Held!Spec
=============================================================================
