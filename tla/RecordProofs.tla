---------------------------- MODULE RecordProofs ----------------------------
(***************************************************************************)
(* A session written through Append verifies on every path, its own and    *)
(* its forks', for any calls, arguments and agendas, and however long it   *)
(* grows.  A call's reading is a fold over the path, so what the append    *)
(* checked on the leaf's path says nothing of the others by itself: the    *)
(* proof relates a call's reading on two paths, the old and the longer, or *)
(* a session's and its fork's renumbered one.                              *)
(***************************************************************************)
EXTENDS SessionRecord, FiniteSetTheorems, TLAPS, WellFoundedInduction

-----------------------------------------------------------------------------
(* Functions defined number by number.                                     *)

\* A set of natural numbers that is not empty has a least one.
LEMMA LeastOf ==
  ASSUME NEW S \in SUBSET Nat, S /= {}
  PROVE  \E x \in S : \A y \in S : x <= y
<1>1. PICK x \in S : \A y \in S : ~(<<y, x>> \in OpToRel(<, Nat))
  BY WFMin, NatLessThanWellFounded
<1>2. \A a, b \in Nat : <<a, b>> \in OpToRel(<, Nat) <=> a < b
  BY DEF OpToRel
<1>3. \A y \in S : ~(y < x)
  BY <1>1, <1>2, Zenon
<1>4. \A y \in S : x <= y
  BY <1>3
<1> QED BY <1>4

\* A set that has each number from a to m as soon as it has those before.
LEMMA Reaching ==
  ASSUME NEW a \in Nat, NEW m \in Nat, NEW T,
         \A i \in a..m : (\A j \in a..i-1 : j \in T) => i \in T
  PROVE  a..m \subseteq T
<1> SUFFICES ASSUME a..m \ T /= {} PROVE FALSE
  OBVIOUS
<1>1. PICK x \in a..m \ T : \A y \in a..m \ T : x <= y
  BY LeastOf, a..m \ T \in SUBSET Nat
<1>2. \A j \in a..x-1 : j \in a..m /\ ~(x <= j)
  BY <1>1
<1>3. \A j \in a..x-1 : j \in T
  BY <1>1, <1>2
<1> QED BY <1>1, <1>3

\* A function defined from what it is at a, each further value of it a step
\* from an earlier one.
Steps(a, m, V, init, from, step) ==
  /\ a \in Nat /\ m \in Nat /\ a <= m /\ init \in V
  /\ from \in [a..m -> a..m] /\ \A i \in a..m : i > a => from[i] < i
  /\ step \in [a..m -> [V -> V]]

Taken(f, a, m, V, init, from, step) ==
  f \in [a..m -> V] /\ \A i \in a..m : f[i] = IF i = a THEN init ELSE step[i][f[from[i]]]

LEMMA Recursion ==
  ASSUME NEW a, NEW m, NEW V, NEW init, NEW from, NEW step, Steps(a, m, V, init, from, step)
  PROVE  \E f : Taken(f, a, m, V, init, from, step)
<1> USE DEF Steps
<1> DEFINE Fits(f, k) == f \in [a..k -> V] /\ \A i \in a..k : f[i] = IF i = a THEN init ELSE step[i][f[from[i]]]
           T == {k \in a..m : \E f : Fits(f, k)}
<1>1. ASSUME NEW k \in a..m, \A j \in a..k-1 : j \in T PROVE k \in T
  <2>1. CASE k = a
    <3> DEFINE f == [i \in a..a |-> init]
    <3>1. Fits(f, a)
      OBVIOUS
    <3> QED BY <2>1, <3>1
  <2>2. CASE k /= a
    <3>1. k - 1 \in a..k-1
      BY <2>2
    <3>2. PICK f : Fits(f, k-1)
      BY <1>1, <3>1
    <3>3. from[k] \in a..k-1 /\ k > a
      BY <2>2
    <3>4. step[k][f[from[k]]] \in V
      BY <3>2, <3>3
    <3> DEFINE g == [i \in a..k |-> IF i = k THEN step[k][f[from[k]]] ELSE f[i]]
    <3>5. g \in [a..k -> V]
      BY <3>2, <3>4
    <3>6. \A i \in a..k-1 : g[i] = f[i]
      OBVIOUS
    <3>7. g[k] = step[k][f[from[k]]]
      BY <3>3
    <3> HIDE DEF g
    <3>8. ASSUME NEW i \in a..k PROVE g[i] = IF i = a THEN init ELSE step[i][g[from[i]]]
      <4>1. CASE i = k
        <5>1. g[from[k]] = f[from[k]] /\ k /= a
          BY <3>3, <3>6
        <5> QED BY <3>7, <4>1, <5>1
      <4>2. CASE i /= k
        <5>1. i \in a..k-1 /\ (i > a => from[i] \in a..k-1) /\ (i /= a => i > a)
          BY <4>2
        <5> QED BY <3>2, <3>6, <5>1
      <4> QED BY <4>1, <4>2
    <3>9. Fits(g, k)
      BY <3>5, <3>8
    <3> QED BY <3>9
  <2> QED BY <2>1, <2>2
<1>2. m \in T
  <2> HIDE DEF T
  <2>1. a..m \subseteq T
    BY <1>1, Reaching
  <2> QED BY <2>1
<1> QED BY <1>2 DEF Taken

LEMMA NewestIs ==
  ASSUME NEW n \in Nat, NEW S \in SUBSET (0..n), S /= {}
  PROVE  Newest(S) \in S /\ \A j \in S : j <= Newest(S)
<1> DEFINE D == {n - i : i \in S}
<1>1. PICK x \in D : \A y \in D : x <= y
  <2>1. D \in SUBSET Nat
    <3>1. \A i \in S : n - i \in Nat
      OBVIOUS
    <3> QED BY <3>1
  <2>2. D /= {}
    <3>1. PICK i : i \in S
      OBVIOUS
    <3>2. n - i \in D
      BY <3>1
    <3> QED BY <3>2
  <2> HIDE DEF D
  <2> QED BY <2>1, <2>2, LeastOf
<1>2. PICK i \in S : x = n - i
  OBVIOUS
<1>3. \A j \in S : j <= i
  <2> SUFFICES ASSUME NEW j \in S PROVE j <= i
    OBVIOUS
  <2>1. x <= n - j
    BY <1>1
  <2> QED BY <1>2, <2>1
<1>4. \E m \in S : \A j \in S : j <= m
  BY <1>3
<1> QED BY <1>4 DEF Newest

LEMMA NewestSame ==
  ASSUME NEW n \in Nat, NEW S \in SUBSET (0..n), NEW x \in S, \A j \in S : j <= x
  PROVE  Newest(S) = x
<1>1. Newest(S) \in S /\ \A j \in S : j <= Newest(S)
  BY NewestIs
<1>2. PICK y \in S : y = Newest(S) /\ \A j \in S : j <= y
  BY <1>1
<1>3. x \in 0..n /\ y \in 0..n
  OBVIOUS
<1>4. x <= y /\ y <= x
  BY <1>2
<1> QED BY <1>2, <1>3, <1>4

-----------------------------------------------------------------------------
(* Entries, and the paths they form.                                       *)

Fields(type) ==
  {"type", "parent", "target"} \cup
  CASE type = "call"     -> {"cid", "copied", "rid"}
    [] type = "output"   -> {"cid", "item", "copied"}
    [] type = "dispatch" -> {"cid"}
    [] type = "result"   -> {"cid", "item"}
    [] type = "decision" -> {"cid", "verdict", "withdrawn", "args"}
    [] type = "response" -> {"rid", "status"}
    [] type = "start"    -> {"run", "source"}
    [] type = "end"      -> {"run", "reason", "pending"}
    [] OTHER             -> {}

IsEntry(e) ==
  /\ e.type \in Types /\ e.parent \in Int /\ e.target \in Int
  /\ e = [f \in Fields(e.type) |-> e[f]]

Entries(l) ==
  /\ \E S : l \in Seq(S)
  /\ \A i \in 1..Len(l) : IsEntry(l[i]) /\ l[i].parent \in 0..i-1

LEMMA Length == ASSUME NEW l, Entries(l) PROVE Len(l) \in Nat
BY DEF Entries

LEMMA AncestryStep ==
  ASSUME NEW l, Entries(l)
  PROVE  /\ Ancestry(l)[0] = {}
         /\ \A i \in 1..Len(l) : Ancestry(l)[i] = Ancestry(l)[l[i].parent] \cup {i}
<1>0. PICK n \in Nat : n = Len(l)
  BY DEF Entries
<1>1. \A i \in 1..n : l[i].parent \in 0..n /\ l[i].parent < i
  BY <1>0 DEF Entries
<1> DEFINE Def(f) == f = [i \in 0..Len(l) |-> IF i = Root THEN {} ELSE f[l[i].parent] \cup {i}]
<1>2. PICK V, from, step :
        /\ V = SUBSET (0..n) /\ from = [i \in 0..n |-> IF i = 0 THEN 0 ELSE l[i].parent]
        /\ step = [i \in 0..n |-> [v \in V |-> v \cup {i}]]
  OBVIOUS
<1>3. PICK f : Taken(f, 0, n, V, {}, from, step)
  <2>1. Steps(0, n, V, {}, from, step)
    BY <1>1, <1>2 DEF Steps
  <2> QED BY <2>1, Recursion
<1>6. Def(f)
  <2> USE DEF Taken
  <2>1. ASSUME NEW i \in 0..n PROVE f[i] = IF i = 0 THEN {} ELSE f[l[i].parent] \cup {i}
    <3>1. CASE i = 0
      BY <1>3, <3>1
    <3>2. CASE i /= 0
      <4>1. from[i] = l[i].parent /\ f[from[i]] \in V
        BY <1>1, <1>2, <1>3, <3>2
      <4> QED BY <1>2, <1>3, <3>2, <4>1
    <3> QED BY <3>1, <3>2
  <2> QED BY <1>0, <1>3, <2>1 DEF Root
<1>4. Ancestry(l) = CHOOSE g : Def(g)
  BY DEF Ancestry
<1>5. Def(Ancestry(l))
  <2> HIDE DEF Def
  <2> QED BY <1>4, <1>6
<1> QED BY <1>0, <1>1, <1>5 DEF Root

LEMMA AncestrySpan ==
  ASSUME NEW l, Entries(l)
  PROVE  \A i \in 0..Len(l) : Ancestry(l)[i] \subseteq 1..i /\ (i /= 0 => i \in Ancestry(l)[i])
<1> DEFINE anc == Ancestry(l)
           T == {i \in 0..Len(l) : anc[i] \subseteq 1..i}
<1>0. PICK n \in Nat : n = Len(l)
  BY DEF Entries
<1>1. anc[0] = {} /\ \A i \in 1..n : anc[i] = anc[l[i].parent] \cup {i}
  BY <1>0, AncestryStep
<1> HIDE DEF anc
<1>2. ASSUME NEW i \in 0..n, \A j \in 0..i-1 : j \in T PROVE i \in T
  <2>1. CASE i = 0
    BY <1>0, <1>1, <2>1
  <2>2. CASE i /= 0
    <3>1. l[i].parent \in 0..i-1
      BY <1>0, <2>2 DEF Entries
    <3>2. anc[l[i].parent] \subseteq 1..l[i].parent
      BY <1>2, <3>1
    <3> QED BY <1>0, <1>1, <2>2, <3>1, <3>2
  <2> QED BY <2>1, <2>2
<1>3. 0..n \subseteq T
  <2> HIDE DEF T
  <2> QED BY <1>2, Reaching
<1> QED BY <1>0, <1>1, <1>3 DEF anc

\* The path to an entry of a path is the part of that path up to it.
LEMMA AncestryDown ==
  ASSUME NEW l, Entries(l)
  PROVE  \A i \in 0..Len(l) : \A j \in Ancestry(l)[i] : Ancestry(l)[j] = {k \in Ancestry(l)[i] : k <= j}
<1>0. PICK n, anc : n \in Nat /\ n = Len(l) /\ anc = Ancestry(l)
  BY Length
<1>1. anc[0] = {} /\ \A i \in 1..n : anc[i] = anc[l[i].parent] \cup {i} /\ l[i].parent \in 0..i-1
  BY <1>0, AncestryStep DEF Entries
<1>2. \A i \in 0..n : anc[i] \subseteq 1..i /\ (i /= 0 => i \in anc[i])
  BY <1>0, AncestrySpan
<1>3. PICK T : T = {i \in 0..n : \A j \in anc[i] : anc[j] = {k \in anc[i] : k <= j}}
  OBVIOUS
<1>4. ASSUME NEW i \in 0..n, \A j \in 0..i-1 : j \in T PROVE i \in T
  <2>1. CASE i = 0
    BY <1>1, <1>3, <2>1
  <2>2. CASE i /= 0
    <3>1. PICK p \in 0..i-1 : p = l[i].parent /\ anc[i] = anc[p] \cup {i}
      BY <1>1, <2>2
    <3>2. \A j \in anc[p] : anc[j] = {k \in anc[p] : k <= j}
      BY <1>3, <1>4, <3>1
    <3>3. anc[p] \subseteq 1..p /\ anc[i] \subseteq 1..i
      BY <1>0, <1>2, <3>1
    <3>4. ASSUME NEW j \in anc[i] PROVE anc[j] = {k \in anc[i] : k <= j}
      <4>1. CASE j = i
        BY <3>3, <4>1
      <4>2. CASE j /= i
        <5>1. j \in anc[p] /\ j \in 1..p /\ anc[j] = {k \in anc[p] : k <= j}
          BY <3>1, <3>2, <3>3, <4>2
        <5>2. {k \in anc[p] : k <= j} = {k \in anc[i] : k <= j}
          BY <3>1, <3>3, <5>1
        <5> QED BY <5>1, <5>2
      <4> QED BY <4>1, <4>2
    <3> QED BY <1>3, <3>4
  <2> QED BY <2>1, <2>2
<1>5. 0..n \subseteq T
  BY <1>0, <1>4, Reaching
<1> QED BY <1>0, <1>3, <1>5

\* m has the entries of l, and what was appended after them.
Grows(l, m) ==
  /\ Entries(l) /\ Entries(m) /\ Len(l) <= Len(m)
  /\ \A i \in 1..Len(l) : m[i] = l[i]

LEMMA AncestryGrows ==
  ASSUME NEW l, NEW m, Grows(l, m)
  PROVE  \A i \in 0..Len(l) : Ancestry(m)[i] = Ancestry(l)[i]
<1>0. PICK n \in Nat, k \in Nat : n = Len(l) /\ k = Len(m) /\ n <= k
  BY Length DEF Grows
<1>1. PICK a, c : /\ a = Ancestry(l) /\ c = Ancestry(m) /\ a[0] = {} /\ c[0] = {}
                  /\ \A i \in 1..n : a[i] = a[l[i].parent] \cup {i}
                  /\ \A i \in 1..k : c[i] = c[m[i].parent] \cup {i}
  BY <1>0, AncestryStep DEF Grows
<1>2. PICK T : T = {i \in 0..n : a[i] = c[i]}
  OBVIOUS
<1>3. ASSUME NEW i \in 0..n, \A j \in 0..i-1 : j \in T PROVE i \in T
  <2>1. CASE i = 0
    BY <1>1, <1>2, <2>1
  <2>2. CASE i /= 0
    <3>1. i \in 1..n /\ i \in 1..k /\ m[i] = l[i] /\ l[i].parent \in 0..i-1
      BY <1>0, <2>2 DEF Grows, Entries
    <3>2. a[l[i].parent] = c[l[i].parent]
      BY <1>2, <1>3, <3>1
    <3>3. a[i] = a[l[i].parent] \cup {i} /\ c[i] = c[m[i].parent] \cup {i}
      BY <1>1, <3>1
    <3> QED BY <1>2, <3>1, <3>2, <3>3
  <2> QED BY <2>1, <2>2
<1>4. 0..n \subseteq T
  BY <1>3, Reaching
<1> QED BY <1>0, <1>1, <1>2, <1>4

-----------------------------------------------------------------------------
(* One call, read along a path.                                            *)

Decisions(l, path) == {i \in path : l[i].type = "decision"}

Results(l, path) == {i \in path : l[i].type = "result"}

ArgsOn(l, path) == {NoArgs, OwnArgs} \cup {l[i].args : i \in Decisions(l, path)}

\* The names of the rules a path may break.
Rules ==
  {"outputMismatch", "badResult", "afterResult", "afterAnswer", "afterReject",
   "rejectAfterDispatch", "endAfterOutput", "dispatchAfterOutput", "dispatchAfterEnd"}

\* What the entries of a path may leave of a call.
Reading(l, path) ==
  [decisions : Seq(Decisions(l, path)), dispatches : Seq(path), parts : SUBSET path,
   output : path \cup {0}, result : Results(l, path) \cup {0}, sinceDecision : BOOLEAN,
   lastIsDispatch : BOOLEAN, beforeSince : BOOLEAN, dispatchedArgs : ArgsOn(l, path),
   beforeArgs : ArgsOn(l, path), resultAfterLast : BOOLEAN, answeredSinceResult : BOOLEAN,
   faults : SUBSET Rules]

\* A record with the fields of a reading, and nothing else.
Shape(c) ==
  c = [decisions |-> c.decisions, dispatches |-> c.dispatches, parts |-> c.parts,
       output |-> c.output, result |-> c.result, sinceDecision |-> c.sinceDecision,
       lastIsDispatch |-> c.lastIsDispatch, beforeSince |-> c.beforeSince,
       dispatchedArgs |-> c.dispatchedArgs, beforeArgs |-> c.beforeArgs,
       resultAfterLast |-> c.resultAfterLast, answeredSinceResult |-> c.answeredSinceResult,
       faults |-> c.faults]

LEMMA ReadingIs ==
  ASSUME NEW l, NEW path, NEW c
  PROVE  c \in Reading(l, path) <=>
           /\ Shape(c)
           /\ c.decisions \in Seq(Decisions(l, path)) /\ c.dispatches \in Seq(path) /\ c.parts \in SUBSET path
           /\ c.output \in path \cup {0} /\ c.result \in Results(l, path) \cup {0}
           /\ c.sinceDecision \in BOOLEAN /\ c.lastIsDispatch \in BOOLEAN /\ c.beforeSince \in BOOLEAN
           /\ c.dispatchedArgs \in ArgsOn(l, path) /\ c.beforeArgs \in ArgsOn(l, path)
           /\ c.resultAfterLast \in BOOLEAN /\ c.answeredSinceResult \in BOOLEAN
           /\ c.faults \in SUBSET Rules
BY DEF Reading, Shape

LEMMA FieldKept ==
  ASSUME NEW c, Shape(c), NEW v
  PROVE  /\ Shape([c EXCEPT !.decisions = v])
         /\ Shape([c EXCEPT !.dispatches = v])
         /\ Shape([c EXCEPT !.parts = v])
         /\ Shape([c EXCEPT !.output = v])
         /\ Shape([c EXCEPT !.result = v])
         /\ Shape([c EXCEPT !.sinceDecision = v])
         /\ Shape([c EXCEPT !.lastIsDispatch = v])
         /\ Shape([c EXCEPT !.beforeSince = v])
         /\ Shape([c EXCEPT !.dispatchedArgs = v])
         /\ Shape([c EXCEPT !.beforeArgs = v])
         /\ Shape([c EXCEPT !.resultAfterLast = v])
         /\ Shape([c EXCEPT !.answeredSinceResult = v])
         /\ Shape([c EXCEPT !.faults = v])
<1>1. Shape([c EXCEPT !.decisions = v])
  BY DEF Shape
<1>2. Shape([c EXCEPT !.dispatches = v])
  BY DEF Shape
<1>3. Shape([c EXCEPT !.parts = v])
  BY DEF Shape
<1>4. Shape([c EXCEPT !.output = v])
  BY DEF Shape
<1>5. Shape([c EXCEPT !.result = v])
  BY DEF Shape
<1>6. Shape([c EXCEPT !.sinceDecision = v])
  BY DEF Shape
<1>7. Shape([c EXCEPT !.lastIsDispatch = v])
  BY DEF Shape
<1>8. Shape([c EXCEPT !.beforeSince = v])
  BY DEF Shape
<1>9. Shape([c EXCEPT !.dispatchedArgs = v])
  BY DEF Shape
<1>10. Shape([c EXCEPT !.beforeArgs = v])
  BY DEF Shape
<1>11. Shape([c EXCEPT !.resultAfterLast = v])
  BY DEF Shape
<1>12. Shape([c EXCEPT !.answeredSinceResult = v])
  BY DEF Shape
<1>13. Shape([c EXCEPT !.faults = v])
  BY DEF Shape
<1> QED BY <1>1, <1>2, <1>3, <1>4, <1>5, <1>6, <1>7, <1>8, <1>9, <1>10, <1>11, <1>12, <1>13

LEMMA ShapeKept ==
  ASSUME NEW l, NEW c, Shape(c), NEW i
  PROVE  /\ Shape(OnDispatch(l, c, i)) /\ Shape(OnDecision(l, c, i)) /\ Shape(OnWithdrawal(l, c, i))
         /\ Shape(OnResult(l, c, i)) /\ Shape(OnOutput(l, c, i))
<1>0. \A r : Shape(Broken(c, r))
  BY FieldKept DEF Broken
<1>1. Shape(OnWithdrawal(l, c, i))
  BY FieldKept DEF OnWithdrawal
<1>2. Shape(OnDispatch(l, c, i))
  <2> DEFINE b  == Broken(c, [dispatchAfterOutput |-> c.output /= 0, afterResult |-> Returned(c),
                              dispatchAfterEnd |-> Answered(l, c) \/ Rejected(l, c)])
             d1 == [b EXCEPT !.resultAfterLast = FALSE, !.dispatches = Append(@, i), !.beforeSince = c.sinceDecision]
             d2 == [d1 EXCEPT !.beforeArgs = c.dispatchedArgs, !.dispatchedArgs = Args(l, c), !.sinceDecision = TRUE]
             y  == c.output = 0
             d3 == [d2 EXCEPT !.lastIsDispatch = y, !.parts = @ \cup {i}]
  <2>1. OnDispatch(l, c, i) = d3
    BY Zenon DEF OnDispatch
  <2>2. Shape(b)
    BY <1>0
  <2> HIDE DEF b, y
  <2>3. Shape(d1)
    BY <2>2, FieldKept
  <2> HIDE DEF d1
  <2>4. Shape(d2)
    BY <2>3, FieldKept
  <2> HIDE DEF d2
  <2>5. Shape(d3)
    BY <2>4, FieldKept
  <2> QED BY <2>1, <2>5
<1>3. Shape(OnDecision(l, c, i))
  <2>1. \A b, x : Shape(b) => Shape([b EXCEPT !.decisions = Append(@, i), !.sinceDecision = FALSE, !.lastIsDispatch = FALSE,
                                            !.answeredSinceResult = x, !.parts = @ \cup {i}])
    BY FieldKept
  <2>2. \E b, x : Shape(b) /\ OnDecision(l, c, i) =
          [b EXCEPT !.decisions = Append(@, i), !.sinceDecision = FALSE, !.lastIsDispatch = FALSE,
                    !.answeredSinceResult = x, !.parts = @ \cup {i}]
    BY <1>0, Zenon DEF OnDecision
  <2> QED BY <2>1, <2>2, Zenon
<1>4. Shape(OnResult(l, c, i))
  <2>1. \A b, x : Shape(b) => Shape([b EXCEPT !.result = i, !.resultAfterLast = x, !.answeredSinceResult = FALSE,
                                            !.lastIsDispatch = FALSE, !.parts = @ \cup {i}])
    BY FieldKept
  <2>2. \E b, x : Shape(b) /\ OnResult(l, c, i) =
          [b EXCEPT !.result = i, !.resultAfterLast = x, !.answeredSinceResult = FALSE,
                    !.lastIsDispatch = FALSE, !.parts = @ \cup {i}]
    BY <1>0, Zenon DEF OnResult
  <2> QED BY <2>1, <2>2, Zenon
<1>5. Shape(OnOutput(l, c, i))
  BY <1>0, FieldKept DEF OnOutput
<1> QED BY <1>1, <1>2, <1>3, <1>4, <1>5

\* The decisions and hand-offs of a reading are entries of its path.
LEMMA ReadingSeqs ==
  ASSUME NEW l, NEW path, NEW c \in Reading(l, path)
  PROVE  /\ Len(c.decisions) \in Nat /\ DOMAIN c.decisions = 1..Len(c.decisions)
         /\ \A k \in 1..Len(c.decisions) : c.decisions[k] \in Decisions(l, path)
         /\ Len(c.dispatches) \in Nat /\ DOMAIN c.dispatches = 1..Len(c.dispatches)
         /\ \A k \in 1..Len(c.dispatches) : c.dispatches[k] \in path
         /\ Dispatched(c) <=> Len(c.dispatches) > 0
<1>1. c.decisions \in Seq(Decisions(l, path)) /\ c.dispatches \in Seq(path)
  BY DEF Reading
<1> QED BY <1>1 DEF Dispatched

\* The fields an entry of a call changes.
AfterDispatch(l, c, d, i) ==
  /\ d.decisions = c.decisions /\ d.dispatches = Append(c.dispatches, i) /\ d.parts = c.parts \cup {i}
  /\ d.output = c.output /\ d.result = c.result /\ d.sinceDecision
  /\ (d.lastIsDispatch <=> c.output = 0) /\ d.beforeSince = c.sinceDecision
  /\ d.dispatchedArgs = Args(l, c) /\ d.beforeArgs = c.dispatchedArgs
  /\ ~d.resultAfterLast /\ d.answeredSinceResult = c.answeredSinceResult
  /\ d.sinceDecision \in BOOLEAN /\ d.lastIsDispatch \in BOOLEAN /\ d.resultAfterLast \in BOOLEAN

AfterDecision(l, c, d, i) ==
  /\ d.decisions = Append(c.decisions, i) /\ d.dispatches = c.dispatches /\ d.parts = c.parts \cup {i}
  /\ d.output = c.output /\ d.result = c.result /\ ~d.sinceDecision
  /\ ~d.lastIsDispatch /\ d.beforeSince = c.beforeSince
  /\ d.dispatchedArgs = c.dispatchedArgs /\ d.beforeArgs = c.beforeArgs
  /\ d.resultAfterLast = c.resultAfterLast /\ d.sinceDecision \in BOOLEAN /\ d.lastIsDispatch \in BOOLEAN
  /\ d.answeredSinceResult \in BOOLEAN
  /\ d.answeredSinceResult <=> (c.answeredSinceResult \/ (Returned(c) /\ l[i].verdict = "answer"))

AfterWithdrawal(l, c, d, i) ==
  /\ d.decisions = c.decisions /\ d.parts = c.parts \cup {i}
  /\ d.dispatches = SubSeq(c.dispatches, 1, Len(c.dispatches) - 1)
  /\ d.output = c.output /\ d.result = c.result /\ d.sinceDecision = c.beforeSince
  /\ ~d.lastIsDispatch /\ d.beforeSince = c.beforeSince
  /\ d.dispatchedArgs = c.beforeArgs /\ d.beforeArgs = c.beforeArgs
  /\ d.resultAfterLast = c.resultAfterLast /\ d.answeredSinceResult = c.answeredSinceResult
  /\ d.faults = c.faults
  /\ d.lastIsDispatch \in BOOLEAN

AfterResult(l, c, d, i) ==
  /\ d.decisions = c.decisions /\ d.dispatches = c.dispatches /\ d.parts = c.parts \cup {i}
  /\ d.output = c.output /\ d.result = i /\ d.sinceDecision = c.sinceDecision
  /\ ~d.lastIsDispatch /\ d.beforeSince = c.beforeSince
  /\ d.dispatchedArgs = c.dispatchedArgs /\ d.beforeArgs = c.beforeArgs
  /\ (d.resultAfterLast <=> Dispatched(c)) /\ ~d.answeredSinceResult
  /\ d.lastIsDispatch \in BOOLEAN /\ d.resultAfterLast \in BOOLEAN /\ d.answeredSinceResult \in BOOLEAN

AfterOutput(l, c, d, i) ==
  /\ d.decisions = c.decisions /\ d.dispatches = c.dispatches /\ d.parts = c.parts \cup {i}
  /\ d.output = i /\ d.result = c.result /\ d.sinceDecision = c.sinceDecision
  /\ ~d.lastIsDispatch /\ d.beforeSince = c.beforeSince
  /\ d.dispatchedArgs = c.dispatchedArgs /\ d.beforeArgs = c.beforeArgs
  /\ d.resultAfterLast = c.resultAfterLast /\ d.answeredSinceResult = c.answeredSinceResult
  /\ d.lastIsDispatch \in BOOLEAN

LEMMA DispatchFields ==
  ASSUME NEW l, NEW path, NEW c \in Reading(l, path), NEW i, NEW d, d = OnDispatch(l, c, i)
  PROVE  AfterDispatch(l, c, d, i)
<1>2. /\ d.decisions = c.decisions /\ d.dispatches = Append(c.dispatches, i) /\ d.parts = c.parts \cup {i}
      /\ d.output = c.output /\ d.result = c.result /\ d.sinceDecision
      /\ (d.lastIsDispatch <=> c.output = 0) /\ d.beforeSince = c.sinceDecision
      /\ d.dispatchedArgs = Args(l, c) /\ d.beforeArgs = c.dispatchedArgs
      /\ ~d.resultAfterLast /\ d.answeredSinceResult = c.answeredSinceResult
      /\ d.sinceDecision \in BOOLEAN /\ d.lastIsDispatch \in BOOLEAN /\ d.resultAfterLast \in BOOLEAN
  BY DEF OnDispatch, Broken, Reading
<1> QED BY <1>2 DEF AfterDispatch

LEMMA DecisionFields ==
  ASSUME NEW l, NEW path, NEW c \in Reading(l, path), NEW i, NEW d, d = OnDecision(l, c, i)
  PROVE  AfterDecision(l, c, d, i)
<1>2. /\ d.decisions = Append(c.decisions, i) /\ d.dispatches = c.dispatches /\ d.parts = c.parts \cup {i}
      /\ d.output = c.output /\ d.result = c.result /\ ~d.sinceDecision
      /\ ~d.lastIsDispatch /\ d.beforeSince = c.beforeSince
      /\ d.dispatchedArgs = c.dispatchedArgs /\ d.beforeArgs = c.beforeArgs
      /\ d.resultAfterLast = c.resultAfterLast /\ d.sinceDecision \in BOOLEAN /\ d.lastIsDispatch \in BOOLEAN
      /\ d.answeredSinceResult \in BOOLEAN
      /\ d.answeredSinceResult <=> (c.answeredSinceResult \/ (Returned(c) /\ l[i].verdict = "answer"))
  <2> DEFINE x == c.answeredSinceResult \/ (Returned(c) /\ l[i].verdict = "answer")
  <2>1. x \in BOOLEAN /\ (x <=> c.answeredSinceResult \/ (Returned(c) /\ l[i].verdict = "answer"))
    BY DEF Reading
  <2>2. /\ d.decisions = Append(c.decisions, i) /\ d.dispatches = c.dispatches /\ d.parts = c.parts \cup {i}
        /\ d.output = c.output /\ d.result = c.result /\ ~d.sinceDecision
        /\ ~d.lastIsDispatch /\ d.beforeSince = c.beforeSince
        /\ d.dispatchedArgs = c.dispatchedArgs /\ d.beforeArgs = c.beforeArgs
        /\ d.resultAfterLast = c.resultAfterLast
        /\ d.sinceDecision \in BOOLEAN /\ d.lastIsDispatch \in BOOLEAN
    BY DEF OnDecision, Broken, Reading
  <2>3. d.answeredSinceResult = x
    BY DEF OnDecision, Broken, Reading
  <2> HIDE DEF x
  <2> QED BY <2>1, <2>2, <2>3
<1> QED BY <1>2 DEF AfterDecision

LEMMA WithdrawalFields ==
  ASSUME NEW l, NEW path, NEW c \in Reading(l, path), NEW i, NEW d, d = OnWithdrawal(l, c, i)
  PROVE  AfterWithdrawal(l, c, d, i)
<1>2. /\ d.decisions = c.decisions /\ d.parts = c.parts \cup {i}
      /\ d.dispatches = SubSeq(c.dispatches, 1, Len(c.dispatches) - 1)
      /\ d.output = c.output /\ d.result = c.result /\ d.sinceDecision = c.beforeSince
      /\ ~d.lastIsDispatch /\ d.beforeSince = c.beforeSince
      /\ d.dispatchedArgs = c.beforeArgs /\ d.beforeArgs = c.beforeArgs
      /\ d.resultAfterLast = c.resultAfterLast /\ d.answeredSinceResult = c.answeredSinceResult
      /\ d.faults = c.faults
      /\ d.lastIsDispatch \in BOOLEAN
  BY DEF OnWithdrawal, Reading
<1> QED BY <1>2 DEF AfterWithdrawal

LEMMA ResultFields ==
  ASSUME NEW l, NEW path, NEW c \in Reading(l, path), NEW i, NEW d, d = OnResult(l, c, i)
  PROVE  AfterResult(l, c, d, i)
<1> DEFINE x == Dispatched(c)
<1>1. x \in BOOLEAN /\ (x <=> Dispatched(c))
  BY DEF Dispatched
<1>2. /\ d.decisions = c.decisions /\ d.dispatches = c.dispatches /\ d.parts = c.parts \cup {i}
      /\ d.output = c.output /\ d.result = i /\ d.sinceDecision = c.sinceDecision
      /\ ~d.lastIsDispatch /\ d.beforeSince = c.beforeSince
      /\ d.dispatchedArgs = c.dispatchedArgs /\ d.beforeArgs = c.beforeArgs
      /\ ~d.answeredSinceResult /\ d.lastIsDispatch \in BOOLEAN /\ d.answeredSinceResult \in BOOLEAN
  BY DEF OnResult, Broken, Reading
<1>3. d.resultAfterLast = x
  BY DEF OnResult, Broken, Reading
<1> HIDE DEF x
<1>4. (d.resultAfterLast <=> Dispatched(c)) /\ d.resultAfterLast \in BOOLEAN
  BY <1>1, <1>3
<1> QED BY <1>2, <1>4 DEF AfterResult

LEMMA OutputFields ==
  ASSUME NEW l, NEW path, NEW c \in Reading(l, path), c.output = 0, NEW i, NEW d, d = OnOutput(l, c, i)
  PROVE  AfterOutput(l, c, d, i)
<1>2. /\ d.decisions = c.decisions /\ d.dispatches = c.dispatches /\ d.parts = c.parts \cup {i}
      /\ d.output = i /\ d.result = c.result /\ d.sinceDecision = c.sinceDecision
      /\ ~d.lastIsDispatch /\ d.beforeSince = c.beforeSince
      /\ d.dispatchedArgs = c.dispatchedArgs /\ d.beforeArgs = c.beforeArgs
      /\ d.resultAfterLast = c.resultAfterLast /\ d.answeredSinceResult = c.answeredSinceResult
      /\ d.lastIsDispatch \in BOOLEAN
  BY DEF OnOutput, Broken, Reading
<1> QED BY <1>2 DEF AfterOutput

\* A call after an entry breaks no rule when it broke none before, and the
\* entry breaks none.
LEMMA DispatchFaults ==
  ASSUME NEW l, NEW path, NEW c \in Reading(l, path), NEW i
  PROVE  /\ OnDispatch(l, c, i).faults \in SUBSET Rules
         /\ OnDispatch(l, c, i).faults = {} <=> /\ c.faults = {} /\ c.output = 0 /\ ~Returned(c)
                                               /\ ~Answered(l, c) /\ ~Rejected(l, c)
<1> DEFINE x == c.output /= 0
           y == Returned(c)
           z == Answered(l, c) \/ Rejected(l, c)
           r == [dispatchAfterOutput |-> x, afterResult |-> y, dispatchAfterEnd |-> z]
<1>1. OnDispatch(l, c, i).faults = c.faults \cup {q \in DOMAIN r : r[q]}
  BY DEF OnDispatch, Broken, Reading
<1>2. x \in BOOLEAN /\ y \in BOOLEAN /\ z \in BOOLEAN
  BY DEF Returned, Answered, Rejected
<1>3. c.faults \in SUBSET Rules
  BY DEF Reading
<1>4. (x <=> c.output /= 0) /\ (y <=> Returned(c)) /\ (z <=> Answered(l, c) \/ Rejected(l, c))
  OBVIOUS
<1> HIDE DEF x, y, z
<1>5. {q \in DOMAIN r : r[q]} = {} <=> ~x /\ ~y /\ ~z
  BY <1>2
<1>6. {q \in DOMAIN r : r[q]} \in SUBSET Rules
  <2>1. r \in [{"dispatchAfterOutput", "afterResult", "dispatchAfterEnd"} -> BOOLEAN]
    BY <1>2
  <2> HIDE DEF r
  <2>2. {"dispatchAfterOutput", "afterResult", "dispatchAfterEnd"} \subseteq Rules
    BY DEF Rules
  <2> QED BY <2>1, <2>2
<1> HIDE DEF r
<1> QED BY <1>1, <1>3, <1>4, <1>5, <1>6

LEMMA DecisionFaults ==
  ASSUME NEW l, NEW path, NEW c \in Reading(l, path), NEW i
  PROVE  /\ OnDecision(l, c, i).faults \in SUBSET Rules
         /\ OnDecision(l, c, i).faults = {} <=>
              /\ c.faults = {} /\ ~Answered(l, c) /\ ~Rejected(l, c)
              /\ Returned(c) => l[i].verdict = "answer"
              /\ l[i].verdict = "reject" => ~Dispatched(c)
              /\ l[i].verdict \in {"answer", "reject"} => c.output = 0
<1> DEFINE x == Returned(c) /\ l[i].verdict /= "answer"
           y == Answered(l, c)
           z == Rejected(l, c)
           u == l[i].verdict = "reject" /\ Dispatched(c)
           v == l[i].verdict \in {"answer", "reject"} /\ c.output /= 0
           r == [afterResult |-> x, afterAnswer |-> y, afterReject |-> z,
                 rejectAfterDispatch |-> u, endAfterOutput |-> v]
<1>1. OnDecision(l, c, i).faults = c.faults \cup {q \in DOMAIN r : r[q]}
  BY DEF OnDecision, Broken, Reading
<1>2. x \in BOOLEAN /\ y \in BOOLEAN /\ z \in BOOLEAN /\ u \in BOOLEAN /\ v \in BOOLEAN
  BY DEF Answered, Rejected, HasVerdict
<1>3. c.faults \in SUBSET Rules
  BY DEF Reading
<1>4. /\ (x <=> Returned(c) /\ l[i].verdict /= "answer") /\ (y <=> Answered(l, c)) /\ (z <=> Rejected(l, c))
      /\ (u <=> l[i].verdict = "reject" /\ Dispatched(c))
      /\ (v <=> l[i].verdict \in {"answer", "reject"} /\ c.output /= 0)
  OBVIOUS
<1> HIDE DEF x, y, z, u, v
<1>5. {q \in DOMAIN r : r[q]} = {} <=> ~x /\ ~y /\ ~z /\ ~u /\ ~v
  BY <1>2
<1>6. {q \in DOMAIN r : r[q]} \in SUBSET Rules
  <2>1. r \in [{"afterResult", "afterAnswer", "afterReject", "rejectAfterDispatch", "endAfterOutput"} -> BOOLEAN]
    BY <1>2
  <2> HIDE DEF r
  <2>2. {"afterResult", "afterAnswer", "afterReject", "rejectAfterDispatch", "endAfterOutput"} \subseteq Rules
    BY DEF Rules
  <2> QED BY <2>1, <2>2
<1> HIDE DEF r
<1> QED BY <1>1, <1>3, <1>4, <1>5, <1>6

LEMMA ResultFaults ==
  ASSUME NEW l, NEW path, NEW c \in Reading(l, path), NEW i
  PROVE  /\ OnResult(l, c, i).faults \in SUBSET Rules
         /\ OnResult(l, c, i).faults = {} <=> /\ c.faults = {} /\ Dispatched(c) /\ c.output = 0
                                             /\ ~c.resultAfterLast /\ ~Answered(l, c) /\ ~Rejected(l, c)
<1> DEFINE x == ~Dispatched(c) \/ c.output /= 0 \/ c.resultAfterLast \/ Answered(l, c) \/ Rejected(l, c)
           r == [badResult |-> x]
<1>1. OnResult(l, c, i).faults = c.faults \cup {q \in DOMAIN r : r[q]}
  BY DEF OnResult, Broken, Reading
<1>2. c.faults \in SUBSET Rules
  BY DEF Reading
<1>3. x \in BOOLEAN /\ (x <=> ~Dispatched(c) \/ c.output /= 0 \/ c.resultAfterLast \/ Answered(l, c) \/ Rejected(l, c))
  OBVIOUS
<1> HIDE DEF x
<1>4. {q \in DOMAIN r : r[q]} = {} <=> ~x
  BY <1>3
<1>5. {q \in DOMAIN r : r[q]} \in SUBSET Rules
  <2>1. r \in [{"badResult"} -> BOOLEAN]
    BY <1>3
  <2> HIDE DEF r
  <2>2. {"badResult"} \subseteq Rules
    BY DEF Rules
  <2> QED BY <2>1, <2>2
<1> HIDE DEF r
<1> QED BY <1>1, <1>2, <1>3, <1>4, <1>5

LEMMA OutputFaults ==
  ASSUME NEW l, NEW path, NEW c \in Reading(l, path), c.output = 0, NEW i
  PROVE  /\ OnOutput(l, c, i).faults \in SUBSET Rules
         /\ OnOutput(l, c, i).faults = {} <=>
              /\ c.faults = {}
              /\ Returned(c) /\ ~c.answeredSinceResult => l[c.result].item = l[i].item
<1> DEFINE x == Returned(c) /\ ~c.answeredSinceResult /\ l[c.result].item /= l[i].item
           r == [outputMismatch |-> x]
<1>1. OnOutput(l, c, i).faults = c.faults \cup {q \in DOMAIN r : r[q]}
  BY DEF OnOutput, Broken, Reading
<1>2. c.faults \in SUBSET Rules
  BY DEF Reading
<1>3. x \in BOOLEAN /\ (x <=> Returned(c) /\ ~c.answeredSinceResult /\ l[c.result].item /= l[i].item)
  OBVIOUS
<1> HIDE DEF x
<1>4. {q \in DOMAIN r : r[q]} = {} <=> ~x
  BY <1>3
<1>5. {q \in DOMAIN r : r[q]} \in SUBSET Rules
  <2>1. r \in [{"outputMismatch"} -> BOOLEAN]
    BY <1>3
  <2> HIDE DEF r
  <2>2. {"outputMismatch"} \subseteq Rules
    BY DEF Rules
  <2> QED BY <2>1, <2>2
<1> HIDE DEF r
<1> QED BY <1>1, <1>2, <1>3, <1>4, <1>5

\* The arguments a hand-off runs with are a decision's or the call's own.
LEMMA ArgsType ==
  ASSUME NEW l, NEW path, NEW c \in Reading(l, path)
  PROVE  Args(l, c) \in ArgsOn(l, path)
<1> DEFINE rewrites == {k \in DOMAIN c.decisions :
                          l[c.decisions[k]].args /= NoArgs /\ l[c.decisions[k]].verdict /= "answer"}
<1>1. CASE rewrites = {}
  BY <1>1 DEF Args, ArgsOn
<1>2. CASE rewrites /= {}
  <2>1. rewrites \in SUBSET (0..Len(c.decisions)) /\ Len(c.decisions) \in Nat
    BY ReadingSeqs
  <2>2. Newest(rewrites) \in rewrites
    <3> HIDE DEF rewrites
    <3> QED BY <1>2, <2>1, NewestIs
  <2>3. c.decisions[Newest(rewrites)] \in Decisions(l, path)
    BY <2>2, ReadingSeqs
  <2>4. Args(l, c) = l[c.decisions[Newest(rewrites)]].args
    BY <1>2 DEF Args
  <2> HIDE DEF rewrites
  <2> QED BY <2>3, <2>4 DEF ArgsOn
<1> QED BY <1>1, <1>2

\* What an entry of the call leaves of its reading has the types of one.
LEMMA Retyped ==
  ASSUME NEW l, NEW path, NEW c \in Reading(l, path), NEW d, Shape(d), NEW i \in path, d.faults \in SUBSET Rules,
         \/ AfterOutput(l, c, d, i) \/ (i \in Results(l, path) /\ AfterResult(l, c, d, i)) \/ AfterWithdrawal(l, c, d, i)
         \/ AfterDispatch(l, c, d, i) \/ (i \in Decisions(l, path) /\ AfterDecision(l, c, d, i))
  PROVE  d \in Reading(l, path)
<1>0. /\ c.decisions \in Seq(Decisions(l, path)) /\ c.dispatches \in Seq(path) /\ c.parts \in SUBSET path
      /\ c.output \in path \cup {0} /\ c.result \in Results(l, path) \cup {0}
      /\ c.sinceDecision \in BOOLEAN /\ c.lastIsDispatch \in BOOLEAN /\ c.beforeSince \in BOOLEAN
      /\ c.dispatchedArgs \in ArgsOn(l, path) /\ c.beforeArgs \in ArgsOn(l, path)
      /\ c.resultAfterLast \in BOOLEAN /\ c.answeredSinceResult \in BOOLEAN
  BY ReadingIs
<1>1. /\ SubSeq(c.dispatches, 1, Len(c.dispatches) - 1) \in Seq(path) /\ Append(c.dispatches, i) \in Seq(path)
      /\ i \in Decisions(l, path) => Append(c.decisions, i) \in Seq(Decisions(l, path))
      /\ Args(l, c) \in ArgsOn(l, path)
  BY <1>0, ArgsType
<1> DEFINE Typed == /\ d.decisions \in Seq(Decisions(l, path)) /\ d.dispatches \in Seq(path) /\ d.parts \in SUBSET path
                    /\ d.output \in path \cup {0} /\ d.result \in Results(l, path) \cup {0}
                    /\ d.sinceDecision \in BOOLEAN /\ d.lastIsDispatch \in BOOLEAN /\ d.beforeSince \in BOOLEAN
                    /\ d.dispatchedArgs \in ArgsOn(l, path) /\ d.beforeArgs \in ArgsOn(l, path)
                    /\ d.resultAfterLast \in BOOLEAN /\ d.answeredSinceResult \in BOOLEAN
<1>2. CASE AfterOutput(l, c, d, i)
  <2>1. Typed
    BY <1>0, <1>2 DEF AfterOutput
  <2> QED BY <2>1, ReadingIs
<1>3. CASE i \in Results(l, path) /\ AfterResult(l, c, d, i)
  <2>1. Typed
    BY <1>0, <1>3 DEF AfterResult
  <2> QED BY <2>1, ReadingIs
<1>4. CASE AfterWithdrawal(l, c, d, i)
  <2>1. Typed
    BY <1>0, <1>1, <1>4 DEF AfterWithdrawal
  <2> QED BY <2>1, ReadingIs
<1>5. CASE AfterDispatch(l, c, d, i)
  <2>1. Typed
    BY <1>0, <1>1, <1>5 DEF AfterDispatch
  <2> QED BY <2>1, ReadingIs
<1>6. CASE i \in Decisions(l, path) /\ AfterDecision(l, c, d, i)
  <2>1. Typed
    BY <1>0, <1>1, <1>6 DEF AfterDecision
  <2> QED BY <2>1, ReadingIs
<1> QED BY <1>2, <1>3, <1>4, <1>5, <1>6

\* How an entry changes what a path says of a call.
LEMMA StepIs ==
  ASSUME NEW l, NEW path, NEW c \in Reading(l, path), NEW call, NEW i \in path, NEW d, d = CallStep(l, c, call, i)
  PROVE  /\ d \in Reading(l, path)
         /\ \/ (~Binds(l, l[i], call) \/ (l[i].type = "output" /\ c.output /= 0)) /\ d = c
            \/ Binds(l, l[i], call) /\ l[i].type = "output" /\ c.output = 0 /\ d = OnOutput(l, c, i) /\ AfterOutput(l, c, d, i)
            \/ Binds(l, l[i], call) /\ l[i].type = "result" /\ d = OnResult(l, c, i) /\ AfterResult(l, c, d, i)
            \/ Binds(l, l[i], call) /\ l[i].type = "decision" /\ Withdraws(c, l[i]) /\ AfterWithdrawal(l, c, d, i)
            \/ /\ Binds(l, l[i], call) /\ l[i].type = "decision" /\ ~Withdraws(c, l[i])
               /\ d = OnDecision(l, c, i) /\ AfterDecision(l, c, d, i)
            \/ Binds(l, l[i], call) /\ l[i].type = "dispatch" /\ d = OnDispatch(l, c, i) /\ AfterDispatch(l, c, d, i)
<1> DEFINE e == l[i]
<1>0. Shape(c) /\ c.faults \in SUBSET Rules
  BY ReadingIs
<1>1. CASE ~Binds(l, e, call)
  <2>1. d = c
    BY <1>1, Zenon DEF CallStep
  <2> QED BY <1>1, <2>1, Zenon
<1>2. CASE Binds(l, e, call) /\ e.type = "output"
  <2>1. CASE c.output /= 0
    BY <1>2, <2>1 DEF CallStep, OnOutput
  <2>2. CASE c.output = 0
    <3>1. d = OnOutput(l, c, i)
      BY <1>2 DEF CallStep
    <3>2. Shape(d) /\ d.faults \in SUBSET Rules /\ AfterOutput(l, c, d, i)
      BY <1>0, <2>2, <3>1, ShapeKept, OutputFaults, OutputFields
    <3> QED BY <1>2, <2>2, <3>1, <3>2, Retyped
  <2> QED BY <2>1, <2>2
<1>3. CASE Binds(l, e, call) /\ e.type = "result"
  <2>1. d = OnResult(l, c, i)
    BY <1>3 DEF CallStep
  <2>2. Shape(d) /\ d.faults \in SUBSET Rules /\ AfterResult(l, c, d, i)
    BY <1>0, <2>1, ShapeKept, ResultFaults, ResultFields
  <2>3. i \in Results(l, path)
    BY <1>3 DEF Results
  <2> QED BY <1>3, <2>1, <2>2, <2>3, Retyped
<1>4. CASE Binds(l, e, call) /\ e.type = "decision" /\ Withdraws(c, e)
  <2>1. d = OnWithdrawal(l, c, i)
    BY <1>4 DEF CallStep
  <2>2. Shape(d) /\ AfterWithdrawal(l, c, d, i)
    BY <1>0, <2>1, ShapeKept, WithdrawalFields
  <2>3. d.faults \in SUBSET Rules
    BY <1>0, <2>2 DEF AfterWithdrawal
  <2> QED BY <1>4, <2>2, <2>3, Retyped
<1>5. CASE Binds(l, e, call) /\ e.type = "decision" /\ ~Withdraws(c, e)
  <2>1. d = OnDecision(l, c, i)
    BY <1>5 DEF CallStep
  <2>2. Shape(d) /\ d.faults \in SUBSET Rules /\ AfterDecision(l, c, d, i)
    BY <1>0, <2>1, ShapeKept, DecisionFaults, DecisionFields
  <2>3. i \in Decisions(l, path)
    BY <1>5 DEF Decisions
  <2> QED BY <1>5, <2>1, <2>2, <2>3, Retyped
<1>6. CASE Binds(l, e, call) /\ e.type = "dispatch"
  <2>1. d = OnDispatch(l, c, i)
    BY <1>6 DEF CallStep
  <2>2. Shape(d) /\ d.faults \in SUBSET Rules /\ AfterDispatch(l, c, d, i)
    BY <1>0, <2>1, ShapeKept, DispatchFaults, DispatchFields
  <2>3. d \in Reading(l, path)
    BY <2>2, Retyped
  <2> QED BY <1>6, <2>1, <2>2, <2>3
<1>7. Binds(l, e, call) => e.type \in {"output", "result", "decision", "dispatch"}
  BY DEF Binds
<1> QED BY <1>1, <1>2, <1>3, <1>4, <1>5, <1>6, <1>7

\* The reading of a call that was just made.
First(call) == [NewCall EXCEPT !.parts = {call}]

LEMMA FirstType ==
  ASSUME NEW l, NEW path, NEW call \in path
  PROVE  First(call) \in Reading(l, path)
<1> DEFINE c == First(call)
<1>1. /\ c.decisions = <<>> /\ c.dispatches = <<>> /\ c.parts = {call} /\ c.output = 0 /\ c.result = 0
      /\ c.sinceDecision = FALSE /\ c.lastIsDispatch = FALSE /\ c.beforeSince = FALSE
      /\ c.dispatchedArgs = NoArgs /\ c.beforeArgs = NoArgs
      /\ c.resultAfterLast = FALSE /\ c.answeredSinceResult = FALSE /\ c.faults = {}
  BY DEF First, NewCall
<1>2. Shape(c)
  <2>1. ASSUME NEW a1, NEW a2, NEW a3, NEW a4, NEW a5, NEW a6, NEW a7, NEW a8, NEW a9, NEW a10, NEW a11,
               NEW a12, NEW a13
        PROVE  Shape([decisions |-> a1, dispatches |-> a2, parts |-> a3, output |-> a4, result |-> a5,
                      sinceDecision |-> a6, lastIsDispatch |-> a7, beforeSince |-> a8, dispatchedArgs |-> a9,
                      beforeArgs |-> a10, resultAfterLast |-> a11, answeredSinceResult |-> a12, faults |-> a13])
    BY DEF Shape
  <2>2. Shape(NewCall)
    BY <2>1, Zenon DEF NewCall
  <2> QED BY <2>2, FieldKept DEF First
<1>3. <<>> \in Seq(Decisions(l, path)) /\ <<>> \in Seq(path) /\ NoArgs \in ArgsOn(l, path)
  BY DEF ArgsOn
<1> HIDE DEF c
<1>4. c.sinceDecision \in BOOLEAN /\ c.lastIsDispatch \in BOOLEAN /\ c.beforeSince \in BOOLEAN
      /\ c.resultAfterLast \in BOOLEAN /\ c.answeredSinceResult \in BOOLEAN
  BY <1>1
<1>5. /\ c.decisions \in Seq(Decisions(l, path)) /\ c.dispatches \in Seq(path) /\ c.parts \in SUBSET path
      /\ c.output \in path \cup {0} /\ c.result \in Results(l, path) \cup {0}
      /\ c.dispatchedArgs \in ArgsOn(l, path) /\ c.beforeArgs \in ArgsOn(l, path) /\ c.faults \in SUBSET Rules
  BY <1>1, <1>3
<1> QED BY <1>2, <1>4, <1>5, ReadingIs DEF c

\* A call's reading starts with the call and takes one entry of the path after another.
Folds(l, path, call, f, n) ==
  /\ f[call] = First(call)
  /\ \A i \in call..n : f[i] \in Reading(l, path)
  /\ \A i \in call..n : i > call => f[i] = IF i \in path THEN CallStep(l, f[i-1], call, i) ELSE f[i-1]

LEMMA CallFold ==
  ASSUME NEW l, Entries(l), NEW path \in SUBSET (1..Len(l)), NEW call \in path
  PROVE  Folds(l, path, call, CallUpTo(l, path, call), Len(l))
<1> DEFINE f == CallUpTo(l, path, call)
<1>0. PICK n \in Nat : n = Len(l)
  BY Length
<1>1. call \in 1..n
  BY <1>0
<1> DEFINE Def(g) == g = [i \in call..Len(l) |-> IF i = call THEN First(call)
                                                 ELSE IF i \in path THEN CallStep(l, g[i-1], call, i) ELSE g[i-1]]
           V == Reading(l, path)
           Next1(i, v) == IF i \in path THEN CallStep(l, v, call, i) ELSE v
<1>2. PICK from, step :
        /\ from = [i \in call..n |-> IF i = call THEN call ELSE i-1]
        /\ step = [i \in call..n |-> [v \in V |-> Next1(i, v)]]
  OBVIOUS
<1>3. \A i \in call..n : \A v \in V : Next1(i, v) \in V
  BY StepIs
<1>4. PICK g : Taken(g, call, n, V, First(call), from, step)
  <2>1. step \in [call..n -> [V -> V]]
    <3> HIDE DEF Next1, V
    <3> QED BY <1>2, <1>3
  <2>2. from \in [call..n -> call..n] /\ \A i \in call..n : i > call => from[i] < i
    BY <1>1, <1>2
  <2>3. First(call) \in V
    BY FirstType
  <2> HIDE DEF V, Next1
  <2>4. Steps(call, n, V, First(call), from, step)
    BY <1>1, <2>1, <2>2, <2>3 DEF Steps
  <2> QED BY <2>4, Recursion
<1>5. g \in [call..n -> V]
  BY <1>4 DEF Taken
<1>6. ASSUME NEW i \in call..n PROVE g[i] = IF i = call THEN First(call) ELSE Next1(i, g[i-1])
  <2>1. CASE i = call
    BY <1>4, <2>1 DEF Taken
  <2>2. CASE i /= call
    <3>1. i - 1 \in call..n /\ from[i] = i - 1 /\ g[i-1] \in V
      BY <1>1, <1>2, <1>5, <2>2
    <3>2. g[i] = step[i][g[from[i]]]
      BY <1>4, <2>2 DEF Taken
    <3> HIDE DEF V, Next1
    <3> QED BY <1>2, <2>2, <3>1, <3>2
  <2> QED BY <2>1, <2>2
<1>7. Def(g)
  <2> HIDE DEF V
  <2> QED BY <1>0, <1>5, <1>6
<1>8. CallUpTo(l, path, call) = CHOOSE h : Def(h)
  BY DEF CallUpTo, First
<1>9. Def(f)
  <2> HIDE DEF Def
  <2> QED BY <1>7, <1>8 DEF f
<1> HIDE DEF f
<1>10. f = g
  <2>1. f = [i \in call..n |-> f[i]] /\ g = [i \in call..n |-> g[i]]
    BY <1>0, <1>5, <1>9
  <2>2. \A i \in call..n : f[i] = IF i = call THEN First(call) ELSE Next1(i, f[i-1])
    BY <1>0, <1>9
  <2>3. PICK T : T = {i \in call..n : f[i] = g[i]}
    OBVIOUS
  <2>4. ASSUME NEW i \in call..n, \A j \in call..i-1 : j \in T PROVE i \in T
    <3>1. CASE i = call
      BY <1>6, <2>2, <2>3, <3>1
    <3>2. CASE i /= call
      <4>1. i - 1 \in call..i-1
        BY <1>1, <3>2
      <4>2. f[i-1] = g[i-1]
        BY <2>3, <2>4, <4>1
      <4> HIDE DEF Next1
      <4> QED BY <1>6, <2>2, <2>3, <3>2, <4>2
    <3> QED BY <3>1, <3>2
  <2>5. call..n \subseteq T
    <3> HIDE DEF V, Next1, Def
    <3>1. call \in Nat /\ n \in Nat
      BY <1>0, <1>1
    <3> QED BY <2>4, <3>1, Reaching
  <2> QED BY <2>1, <2>3, <2>5
<1> HIDE DEF f, V
<1>11. (\A i \in call..n : f[i] \in V) /\ \A i \in call..n : f[i] = IF i = call THEN First(call) ELSE Next1(i, f[i-1])
  BY <1>5, <1>6, <1>10
<1>12. Folds(l, path, call, f, n)
  BY <1>1, <1>11 DEF Folds, V
<1> QED BY <1>0, <1>12 DEF f

-----------------------------------------------------------------------------
(* The same call, read where it was written and where its path was copied. *)

\* Path q of m says on path p of l, each entry i of it at pl[i], the same of calls.
Copies(l, p, m, q, pl) ==
  /\ p \in SUBSET (1..Len(l)) /\ q \in SUBSET (1..Len(m)) /\ Len(l) \in Nat /\ Len(m) \in Nat
  /\ pl[0] = 0 /\ \A i \in q : pl[i] \in p
  /\ \A i \in q : /\ l[pl[i]].type = m[i].type
                  /\ m[i].type = "decision" => /\ l[pl[i]].verdict = m[i].verdict
                                               /\ l[pl[i]].withdrawn = m[i].withdrawn
                                               /\ l[pl[i]].args = m[i].args
                  /\ m[i].type \in {"output", "result"} => l[pl[i]].item = m[i].item
                  /\ \A call \in CallsOn(m, q) : Binds(l, l[pl[i]], pl[call]) <=> Binds(m, m[i], call)

Like(c, d, pl) ==
  /\ Len(c.decisions) = Len(d.decisions) /\ \A k \in 1..Len(d.decisions) : c.decisions[k] = pl[d.decisions[k]]
  /\ Len(c.dispatches) = Len(d.dispatches) /\ \A k \in 1..Len(d.dispatches) : c.dispatches[k] = pl[d.dispatches[k]]
  /\ c.output = pl[d.output] /\ c.result = pl[d.result]
  /\ (c.sinceDecision <=> d.sinceDecision) /\ (c.lastIsDispatch <=> d.lastIsDispatch)
  /\ (c.beforeSince <=> d.beforeSince)
  /\ c.dispatchedArgs = d.dispatchedArgs /\ c.beforeArgs = d.beforeArgs
  /\ (c.resultAfterLast <=> d.resultAfterLast) /\ (c.answeredSinceResult <=> d.answeredSinceResult)
  /\ c.faults = {} <=> d.faults = {}

LEMMA LikeTells ==
  ASSUME NEW l, NEW p, NEW m, NEW q, NEW pl, Copies(l, p, m, q, pl),
         NEW c \in Reading(l, p), NEW d \in Reading(m, q), Like(c, d, pl)
  PROVE  /\ Answered(l, c) <=> Answered(m, d)
         /\ Rejected(l, c) <=> Rejected(m, d)
         /\ Waiting(l, c) <=> Waiting(m, d)
         /\ LatestIs(l, c, "answer") <=> LatestIs(m, d, "answer")
         /\ Dispatched(c) <=> Dispatched(d)
         /\ c.output = 0 <=> d.output = 0
         /\ c.result = 0 <=> d.result = 0
         /\ Returned(c) <=> Returned(d)
         /\ Args(l, c) = Args(m, d)
<1>1. PICK n \in Nat : n = Len(d.decisions) /\ n = Len(c.decisions) /\ DOMAIN d.decisions = 1..n /\ DOMAIN c.decisions = 1..n
  BY ReadingSeqs DEF Like
<1>2. \A k \in 1..n : /\ c.decisions[k] = pl[d.decisions[k]] /\ d.decisions[k] \in q /\ m[d.decisions[k]].type = "decision"
                      /\ l[c.decisions[k]].verdict = m[d.decisions[k]].verdict
                      /\ l[c.decisions[k]].args = m[d.decisions[k]].args
  <2>1. \A k \in 1..n : c.decisions[k] = pl[d.decisions[k]] /\ d.decisions[k] \in q /\ m[d.decisions[k]].type = "decision"
    BY <1>1, ReadingSeqs DEF Like, Decisions
  <2> QED BY <2>1 DEF Copies
<1>3. \A v : HasVerdict(l, c, v) <=> HasVerdict(m, d, v)
  BY <1>1, <1>2 DEF HasVerdict
<1>4. Dispatched(c) <=> Dispatched(d)
  BY ReadingSeqs DEF Like
<1>5. (c.output = 0 <=> d.output = 0) /\ (c.result = 0 <=> d.result = 0)
  <2>1. d.output \in q \cup {0} /\ d.result \in q \cup {0}
    BY ReadingIs DEF Results
  <2>2. \A i \in q : pl[i] /= 0 /\ i /= 0
    BY DEF Copies
  <2> QED BY <2>1, <2>2 DEF Like, Copies
<1>6. Returned(c) <=> Returned(d)
  BY <1>5 DEF Returned, Like
<1>7. \A v : LatestIs(l, c, v) <=> LatestIs(m, d, v)
  <2>1. c.decisions = <<>> <=> n = 0
    BY <1>1, ReadingIs
  <2>2. d.decisions = <<>> <=> n = 0
    BY <1>1, ReadingIs
  <2>3. n /= 0 => n \in 1..n
    OBVIOUS
  <2>4. c.sinceDecision <=> d.sinceDecision
    BY DEF Like
  <2>5. n /= 0 => l[c.decisions[n]].verdict = m[d.decisions[n]].verdict
    BY <1>2, <2>3
  <2> QED BY <1>1, <2>1, <2>2, <2>4, <2>5 DEF LatestIs
<1>8. Args(l, c) = Args(m, d)
  <2> DEFINE R(x, y) == {k \in DOMAIN y.decisions : x[y.decisions[k]].args /= NoArgs /\ x[y.decisions[k]].verdict /= "answer"}
  <2>1. R(l, c) = R(m, d)
    BY <1>1, <1>2
  <2>2. R(m, d) \in SUBSET (0..n)
    BY <1>1
  <2>3. \A x, y : Args(x, y) = IF R(x, y) = {} THEN OwnArgs ELSE x[y.decisions[Newest(R(x, y))]].args
    BY DEF Args
  <2>4. \A k \in R(m, d) : k \in 1..n
    BY <1>1
  <2> HIDE DEF R
  <2>5. CASE R(m, d) = {}
    BY <2>1, <2>3, <2>5
  <2>6. CASE R(m, d) /= {}
    <3>1. Newest(R(m, d)) \in 1..n
      BY <2>2, <2>4, <2>6, NewestIs
    <3>2. l[c.decisions[Newest(R(m, d))]].args = m[d.decisions[Newest(R(m, d))]].args
      BY <1>2, <3>1
    <3>3. Args(l, c) = l[c.decisions[Newest(R(m, d))]].args
      BY <2>1, <2>3, <2>6
    <3>4. Args(m, d) = m[d.decisions[Newest(R(m, d))]].args
      BY <2>3, <2>6
    <3> QED BY <3>2, <3>3, <3>4
  <2> QED BY <2>5, <2>6
<1> QED BY <1>3, <1>4, <1>5, <1>6, <1>7, <1>8 DEF Answered, Rejected, Waiting

LEMMA LikeStep ==
  ASSUME NEW l, NEW p, NEW m, NEW q, NEW pl, Copies(l, p, m, q, pl),
         NEW c \in Reading(l, p), NEW d \in Reading(m, q), Like(c, d, pl),
         NEW call \in CallsOn(m, q), NEW i \in q
  PROVE  Like(CallStep(l, c, pl[call], pl[i]), CallStep(m, d, call, i), pl)
<1>1. PICK x, y, j : j = pl[i] /\ x = CallStep(l, c, pl[call], j) /\ y = CallStep(m, d, call, i)
  OBVIOUS
<1>2. /\ j \in p /\ l[j].type = m[i].type
      /\ m[i].type = "decision" => /\ l[j].verdict = m[i].verdict /\ l[j].withdrawn = m[i].withdrawn
      /\ m[i].type \in {"output", "result"} => l[j].item = m[i].item
      /\ Binds(l, l[j], pl[call]) <=> Binds(m, m[i], call)
      /\ \A r \in q \cup {0} : pl[r] \in p \cup {0}
  BY <1>1 DEF Copies
<1>3. /\ Answered(l, c) <=> Answered(m, d)
      /\ Rejected(l, c) <=> Rejected(m, d)
      /\ Dispatched(c) <=> Dispatched(d)
      /\ c.output = 0 <=> d.output = 0
      /\ c.result = 0 <=> d.result = 0
      /\ Returned(c) <=> Returned(d)
      /\ Args(l, c) = Args(m, d)
  BY LikeTells
<1>4. m[i].type = "decision" => (Withdraws(c, l[j]) <=> Withdraws(d, m[i]))
  BY <1>2, <1>3 DEF Withdraws, Like
<1>5. /\ \/ (~Binds(l, l[j], pl[call]) \/ (l[j].type = "output" /\ c.output /= 0)) /\ x = c
         \/ Binds(l, l[j], pl[call]) /\ l[j].type = "output" /\ c.output = 0 /\ x = OnOutput(l, c, j) /\ AfterOutput(l, c, x, j)
         \/ Binds(l, l[j], pl[call]) /\ l[j].type = "result" /\ x = OnResult(l, c, j) /\ AfterResult(l, c, x, j)
         \/ Binds(l, l[j], pl[call]) /\ l[j].type = "decision" /\ Withdraws(c, l[j]) /\ AfterWithdrawal(l, c, x, j)
         \/ /\ Binds(l, l[j], pl[call]) /\ l[j].type = "decision" /\ ~Withdraws(c, l[j])
            /\ x = OnDecision(l, c, j) /\ AfterDecision(l, c, x, j)
         \/ Binds(l, l[j], pl[call]) /\ l[j].type = "dispatch" /\ x = OnDispatch(l, c, j) /\ AfterDispatch(l, c, x, j)
  BY <1>1, <1>2, StepIs
<1>6. /\ \/ (~Binds(m, m[i], call) \/ (m[i].type = "output" /\ d.output /= 0)) /\ y = d
         \/ Binds(m, m[i], call) /\ m[i].type = "output" /\ d.output = 0 /\ y = OnOutput(m, d, i) /\ AfterOutput(m, d, y, i)
         \/ Binds(m, m[i], call) /\ m[i].type = "result" /\ y = OnResult(m, d, i) /\ AfterResult(m, d, y, i)
         \/ Binds(m, m[i], call) /\ m[i].type = "decision" /\ Withdraws(d, m[i]) /\ AfterWithdrawal(m, d, y, i)
         \/ /\ Binds(m, m[i], call) /\ m[i].type = "decision" /\ ~Withdraws(d, m[i])
            /\ y = OnDecision(m, d, i) /\ AfterDecision(m, d, y, i)
         \/ Binds(m, m[i], call) /\ m[i].type = "dispatch" /\ y = OnDispatch(m, d, i) /\ AfterDispatch(m, d, y, i)
  BY <1>1, StepIs
<1>7. /\ Len(c.decisions) \in Nat /\ c.decisions \in Seq(p) /\ Len(d.decisions) \in Nat /\ d.decisions \in Seq(q)
      /\ Len(c.dispatches) \in Nat /\ c.dispatches \in Seq(p) /\ Len(d.dispatches) \in Nat /\ d.dispatches \in Seq(q)
  <2>1. /\ c.decisions \in Seq(Decisions(l, p)) /\ d.decisions \in Seq(Decisions(m, q))
        /\ c.dispatches \in Seq(p) /\ d.dispatches \in Seq(q)
    BY ReadingIs
  <2>2. Decisions(l, p) \subseteq p /\ Decisions(m, q) \subseteq q
    BY DEF Decisions
  <2> QED BY <2>1, <2>2
<1>8. CASE (~Binds(m, m[i], call) \/ (m[i].type = "output" /\ d.output /= 0)) /\ y = d
  <2>1. x = c
    BY <1>2, <1>3, <1>5, <1>8
  <2> QED BY <1>1, <1>8, <2>1
<1>9. CASE Binds(m, m[i], call) /\ m[i].type = "output" /\ d.output = 0 /\ y = OnOutput(m, d, i) /\ AfterOutput(m, d, y, i)
  <2>1. x = OnOutput(l, c, j) /\ AfterOutput(l, c, x, j) /\ c.output = 0
    BY <1>2, <1>3, <1>5, <1>9
  <2>2. x.faults = {} <=> y.faults = {}
    <3>1. x.faults = {} <=> c.faults = {} /\ (Returned(c) /\ ~c.answeredSinceResult => l[c.result].item = l[j].item)
      BY <2>1, OutputFaults
    <3>2. y.faults = {} <=> d.faults = {} /\ (Returned(d) /\ ~d.answeredSinceResult => m[d.result].item = m[i].item)
      BY <1>9, OutputFaults
    <3>3. Returned(d) => l[c.result].item = m[d.result].item
      <4>1. d.result \in Results(m, q) \cup {0}
        BY ReadingIs
      <4>2. Returned(d) => d.result \in q /\ m[d.result].type = "result"
        BY <4>1 DEF Returned, Results
      <4> QED BY <4>2 DEF Like, Copies
    <3> QED BY <1>2, <1>3, <1>9, <3>1, <3>2, <3>3 DEF Like
  <2> QED BY <1>1, <1>9, <2>1, <2>2 DEF AfterOutput, Like
<1>10. CASE Binds(m, m[i], call) /\ m[i].type = "result" /\ y = OnResult(m, d, i) /\ AfterResult(m, d, y, i)
  <2>1. x = OnResult(l, c, j) /\ AfterResult(l, c, x, j)
    BY <1>2, <1>3, <1>5, <1>10
  <2>2. x.faults = {} <=> y.faults = {}
    <3>1. x.faults = {} <=> /\ c.faults = {} /\ Dispatched(c) /\ c.output = 0
                            /\ ~c.resultAfterLast /\ ~Answered(l, c) /\ ~Rejected(l, c)
      BY <2>1, ResultFaults
    <3>2. y.faults = {} <=> /\ d.faults = {} /\ Dispatched(d) /\ d.output = 0
                            /\ ~d.resultAfterLast /\ ~Answered(m, d) /\ ~Rejected(m, d)
      BY <1>10, ResultFaults
    <3> QED BY <1>3, <3>1, <3>2 DEF Like
  <2> QED BY <1>1, <1>3, <1>10, <2>1, <2>2 DEF AfterResult, Like
<1>11. CASE Binds(m, m[i], call) /\ m[i].type = "decision" /\ Withdraws(d, m[i]) /\ AfterWithdrawal(m, d, y, i)
  <2>1. AfterWithdrawal(l, c, x, j)
    BY <1>2, <1>4, <1>5, <1>11
  <2>2. PICK n \in Nat : n = Len(d.dispatches) /\ n = Len(c.dispatches)
    BY <1>7 DEF Like
  <2>3. n /= 0
    <3>1. Dispatched(d)
      BY <1>11, Zenon DEF Withdraws
    <3>2. Dispatched(d) <=> Len(d.dispatches) > 0
      BY ReadingSeqs
    <3> QED BY <2>2, <3>1, <3>2
  <2>4. Len(x.dispatches) = n - 1 /\ \A k \in 1..n-1 : x.dispatches[k] = c.dispatches[k]
    BY <1>7, <2>1, <2>2, <2>3 DEF AfterWithdrawal
  <2>5. Len(y.dispatches) = n - 1 /\ \A k \in 1..n-1 : y.dispatches[k] = d.dispatches[k]
    BY <1>7, <1>11, <2>2, <2>3 DEF AfterWithdrawal
  <2>6. \A k \in 1..n : c.dispatches[k] = pl[d.dispatches[k]]
    BY <2>2 DEF Like
  <2>7. Len(x.dispatches) = Len(y.dispatches) /\ \A k \in 1..Len(y.dispatches) : x.dispatches[k] = pl[y.dispatches[k]]
    BY <2>4, <2>5, <2>6
  <2> QED BY <1>1, <1>11, <2>1, <2>7 DEF AfterWithdrawal, Like
<1>12. CASE /\ Binds(m, m[i], call) /\ m[i].type = "decision" /\ ~Withdraws(d, m[i])
            /\ y = OnDecision(m, d, i) /\ AfterDecision(m, d, y, i)
  <2>1. x = OnDecision(l, c, j) /\ AfterDecision(l, c, x, j)
    BY <1>2, <1>4, <1>5, <1>12
  <2>2. x.faults = {} <=> y.faults = {}
    <3>1. x.faults = {} <=> /\ c.faults = {} /\ ~Answered(l, c) /\ ~Rejected(l, c)
                            /\ Returned(c) => l[j].verdict = "answer"
                            /\ l[j].verdict = "reject" => ~Dispatched(c)
                            /\ l[j].verdict \in {"answer", "reject"} => c.output = 0
      BY <2>1, DecisionFaults
    <3>2. y.faults = {} <=> /\ d.faults = {} /\ ~Answered(m, d) /\ ~Rejected(m, d)
                            /\ Returned(d) => m[i].verdict = "answer"
                            /\ m[i].verdict = "reject" => ~Dispatched(d)
                            /\ m[i].verdict \in {"answer", "reject"} => d.output = 0
      BY <1>12, DecisionFaults
    <3> QED BY <1>2, <1>3, <1>12, <3>1, <3>2 DEF Like
  <2>3. Len(x.decisions) = Len(y.decisions) /\ \A k \in 1..Len(y.decisions) : x.decisions[k] = pl[y.decisions[k]]
    <3>1. PICK n \in Nat : n = Len(d.decisions) /\ n = Len(c.decisions)
      BY <1>7 DEF Like
    <3>2. Len(x.decisions) = n + 1 /\ x.decisions[n+1] = j /\ \A k \in 1..n : x.decisions[k] = c.decisions[k]
      BY <1>7, <2>1, <3>1 DEF AfterDecision
    <3>3. Len(y.decisions) = n + 1 /\ y.decisions[n+1] = i /\ \A k \in 1..n : y.decisions[k] = d.decisions[k]
      <4>1. y.decisions = Append(d.decisions, i)
        BY <1>12 DEF AfterDecision
      <4>2. d.decisions \in Seq(q) /\ Len(d.decisions) = n
        BY <1>7, <3>1
      <4> QED BY <4>1, <4>2
    <3>4. \A k \in 1..n : c.decisions[k] = pl[d.decisions[k]]
      BY <3>1 DEF Like
    <3> QED BY <1>1, <3>2, <3>3, <3>4
  <2> QED BY <1>1, <1>2, <1>3, <1>12, <2>1, <2>2, <2>3 DEF AfterDecision, Like
<1>13. CASE Binds(m, m[i], call) /\ m[i].type = "dispatch" /\ y = OnDispatch(m, d, i) /\ AfterDispatch(m, d, y, i)
  <2>1. x = OnDispatch(l, c, j) /\ AfterDispatch(l, c, x, j)
    BY <1>2, <1>3, <1>5, <1>13
  <2>2. x.faults = {} <=> y.faults = {}
    <3>1. x.faults = {} <=> c.faults = {} /\ c.output = 0 /\ ~Returned(c) /\ ~Answered(l, c) /\ ~Rejected(l, c)
      BY <2>1, DispatchFaults
    <3>2. y.faults = {} <=> d.faults = {} /\ d.output = 0 /\ ~Returned(d) /\ ~Answered(m, d) /\ ~Rejected(m, d)
      BY <1>13, DispatchFaults
    <3> QED BY <1>3, <3>1, <3>2 DEF Like
  <2>3. Len(x.dispatches) = Len(y.dispatches) /\ \A k \in 1..Len(y.dispatches) : x.dispatches[k] = pl[y.dispatches[k]]
    <3>1. PICK n \in Nat : n = Len(d.dispatches) /\ n = Len(c.dispatches)
      BY <1>7 DEF Like
    <3>2. Len(x.dispatches) = n + 1 /\ x.dispatches[n+1] = j /\ \A k \in 1..n : x.dispatches[k] = c.dispatches[k]
      BY <1>7, <2>1, <3>1 DEF AfterDispatch
    <3>3. Len(y.dispatches) = n + 1 /\ y.dispatches[n+1] = i /\ \A k \in 1..n : y.dispatches[k] = d.dispatches[k]
      <4>1. y.dispatches = Append(d.dispatches, i)
        BY <1>13 DEF AfterDispatch
      <4>2. d.dispatches \in Seq(q) /\ Len(d.dispatches) = n
        BY <1>7, <3>1
      <4> QED BY <4>1, <4>2
    <3>4. \A k \in 1..n : c.dispatches[k] = pl[d.dispatches[k]]
      BY <3>1 DEF Like
    <3> QED BY <1>1, <3>2, <3>3, <3>4
  <2> QED BY <1>1, <1>3, <1>13, <2>1, <2>2, <2>3 DEF AfterDispatch, Like
<1> QED BY <1>6, <1>8, <1>9, <1>10, <1>11, <1>12, <1>13

\* pl goes through the entries of m, one entry of p for each of q.
Places(l, p, m, q, pl) ==
  /\ pl \in [0..Len(m) -> 0..Len(l)]
  /\ \A i \in 1..Len(m) : IF i \in q THEN pl[i] = pl[i-1] + 1
                          ELSE pl[i] = pl[i-1] \/ (pl[i] = pl[i-1] + 1 /\ pl[i] \notin p)

LEMMA LikeFold ==
  ASSUME NEW l, NEW p, NEW m, NEW q, NEW pl, Copies(l, p, m, q, pl), Entries(l), Entries(m), Places(l, p, m, q, pl),
         NEW call \in CallsOn(m, q)
  PROVE  /\ pl[Len(m)] \in pl[call]..Len(l)
         /\ Like(CallUpTo(l, p, pl[call])[pl[Len(m)]], CallOn(m, q, call), pl)
<1>1. PICK n, k, a, f, g : /\ n = Len(m) /\ k = Len(l) /\ a = pl[call]
                           /\ f = CallUpTo(l, p, a) /\ g = CallUpTo(m, q, call)
  OBVIOUS
<1>2. n \in Nat /\ k \in Nat /\ p \in SUBSET (1..k) /\ q \in SUBSET (1..n) /\ call \in q /\ a \in p
  <2>1. call \in q
    BY DEF CallsOn
  <2> QED BY <1>1, <2>1 DEF Copies
<1>3. /\ f[a] = First(a)
      /\ \A i \in a..k : f[i] \in Reading(l, p)
      /\ \A i \in a..k : i > a => f[i] = IF i \in p THEN CallStep(l, f[i-1], a, i) ELSE f[i-1]
  <2>1. Folds(l, p, a, f, k)
    BY <1>1, <1>2, CallFold
  <2> QED BY <2>1 DEF Folds
<1>4. /\ g[call] = First(call)
      /\ \A i \in call..n : g[i] \in Reading(m, q)
      /\ \A i \in call..n : i > call => g[i] = IF i \in q THEN CallStep(m, g[i-1], call, i) ELSE g[i-1]
  <2>1. Folds(m, q, call, g, n)
    BY <1>1, <1>2, CallFold
  <2> QED BY <2>1 DEF Folds
<1>5. PICK T : T = {i \in call..n : pl[i] \in a..k /\ Like(f[pl[i]], g[i], pl)}
  OBVIOUS
<1>6. ASSUME NEW i \in call..n, \A j \in call..i-1 : j \in T PROVE i \in T
  <2>1. CASE i = call
    <3>1. Like(First(a), First(call), pl)
      <4>1. PICK c, d : c = First(a) /\ d = First(call)
        OBVIOUS
      <4>2. /\ c.decisions = <<>> /\ c.dispatches = <<>> /\ c.output = 0 /\ c.result = 0
            /\ ~c.sinceDecision /\ ~c.lastIsDispatch /\ ~c.beforeSince
            /\ c.dispatchedArgs = NoArgs /\ c.beforeArgs = NoArgs
            /\ ~c.resultAfterLast /\ ~c.answeredSinceResult /\ c.faults = {}
        BY <4>1 DEF First, NewCall
      <4>3. /\ d.decisions = <<>> /\ d.dispatches = <<>> /\ d.output = 0 /\ d.result = 0
            /\ ~d.sinceDecision /\ ~d.lastIsDispatch /\ ~d.beforeSince
            /\ d.dispatchedArgs = NoArgs /\ d.beforeArgs = NoArgs
            /\ ~d.resultAfterLast /\ ~d.answeredSinceResult /\ d.faults = {}
        BY <4>1 DEF First, NewCall
      <4>4. pl[0] = 0
        BY DEF Copies
      <4> QED BY <4>1, <4>2, <4>3, <4>4 DEF Like
    <3> QED BY <1>1, <1>2, <1>3, <1>4, <1>5, <2>1, <3>1
  <2>2. CASE i /= call
    <3>1. i - 1 \in call..n /\ i - 1 \in T /\ i > call /\ i \in 1..n
      BY <1>2, <1>6, <2>2
    <3>2. pl[i-1] \in a..k /\ Like(f[pl[i-1]], g[i-1], pl)
      BY <1>5, <3>1
    <3>3. pl[i] \in 0..k
      BY <1>1, <3>1 DEF Places
    <3>4. CASE i \in q
      <4>1. pl[i] = pl[i-1] + 1 /\ pl[i] \in p
        BY <1>1, <3>1, <3>4 DEF Places, Copies
      <4>2. pl[i] \in a..k /\ pl[i] > a /\ pl[i] - 1 = pl[i-1]
        BY <1>2, <3>2, <3>3, <4>1
      <4>3. f[pl[i]] = CallStep(l, f[pl[i-1]], a, pl[i])
        BY <1>3, <4>1, <4>2
      <4>4. g[i] = CallStep(m, g[i-1], call, i)
        BY <1>4, <3>1, <3>4
      <4>5. f[pl[i-1]] \in Reading(l, p) /\ g[i-1] \in Reading(m, q)
        BY <1>3, <1>4, <3>1, <3>2
      <4>6. Like(CallStep(l, f[pl[i-1]], a, pl[i]), CallStep(m, g[i-1], call, i), pl)
        BY <1>1, <3>2, <3>4, <4>5, LikeStep
      <4> QED BY <1>5, <4>2, <4>3, <4>4, <4>6
    <3>5. CASE i \notin q
      <4>1. g[i] = g[i-1]
        BY <1>4, <3>1, <3>5
      <4>2. CASE pl[i] = pl[i-1]
        BY <1>5, <3>2, <4>1, <4>2
      <4>3. CASE pl[i] = pl[i-1] + 1 /\ pl[i] \notin p
        <5>1. pl[i] \in a..k /\ pl[i] > a /\ pl[i] - 1 = pl[i-1]
          BY <1>2, <3>2, <3>3, <4>3
        <5>2. f[pl[i]] = f[pl[i-1]]
          BY <1>3, <4>3, <5>1
        <5> QED BY <1>5, <3>2, <4>1, <5>1, <5>2
      <4> QED BY <1>1, <3>1, <3>5, <4>2, <4>3 DEF Places
    <3> QED BY <3>4, <3>5
  <2> QED BY <2>1, <2>2
<1>7. call..n \subseteq T
  <2>1. call \in Nat
    BY <1>2
  <2> QED BY <1>2, <1>6, <2>1, Reaching
<1>8. n \in call..n
  BY <1>2
<1> QED BY <1>1, <1>5, <1>7, <1>8 DEF CallOn

\* What comes after the last entry of a path changes nothing.
LEMMA Idle ==
  ASSUME NEW l, Entries(l), NEW path \in SUBSET (1..Len(l)), NEW call \in path, NEW k \in call..Len(l),
         \A i \in path : i <= k
  PROVE  CallOn(l, path, call) = CallUpTo(l, path, call)[k]
<1>1. PICK n, f : n \in Nat /\ n = Len(l) /\ f = CallUpTo(l, path, call)
  BY Length
<1>2. \A i \in call..n : i > call => f[i] = IF i \in path THEN CallStep(l, f[i-1], call, i) ELSE f[i-1]
  <2>1. Folds(l, path, call, f, n)
    BY <1>1, CallFold
  <2> QED BY <2>1 DEF Folds
<1>3. PICK T : T = {i \in k..n : f[i] = f[k]}
  OBVIOUS
<1>4. n \in Nat /\ call \in Nat /\ k \in Nat /\ k <= n /\ call <= k
  BY <1>1
<1>5. ASSUME NEW i \in k..n, \A j \in k..i-1 : j \in T PROVE i \in T
  <2>1. CASE i = k
    BY <1>3, <2>1
  <2>2. CASE i /= k
    <3>1. i - 1 \in k..i-1 /\ i \in call..n /\ i > call /\ i \notin path
      BY <1>4, <2>2
    <3>2. f[i] = f[i-1]
      BY <1>2, <3>1
    <3> QED BY <1>3, <1>5, <3>1, <3>2
  <2> QED BY <2>1, <2>2
<1>6. k..n \subseteq T
  BY <1>4, <1>5, Reaching
<1>7. n \in k..n
  BY <1>4
<1> QED BY <1>1, <1>3, <1>6, <1>7 DEF CallOn

-----------------------------------------------------------------------------
(* An append, read by the paths that were there and by the new one.        *)

Same(l) == [i \in 0..Len(l) |-> i]

\* What a path says of a call stays said when the session grows, and is what
\* a path that goes on says up to there.
LEMMA GrownReads ==
  ASSUME NEW l, NEW m, Grows(l, m), NEW path \in SUBSET (1..Len(l)), NEW more \in SUBSET (1..Len(m)),
         \A i \in 1..Len(l) : i \in more <=> i \in path, NEW call \in CallsOn(l, path)
  PROVE  /\ Copies(m, more, l, path, Same(l))
         /\ CallUpTo(m, more, call)[Len(l)] \in Reading(m, more)
         /\ CallOn(l, path, call) \in Reading(l, path)
         /\ Like(CallUpTo(m, more, call)[Len(l)], CallOn(l, path, call), Same(l))
<1>1. PICK n, k, pl : n \in Nat /\ k \in Nat /\ n = Len(l) /\ k = Len(m) /\ n <= k /\ pl = Same(l)
  BY Length DEF Grows
<1>2. \A i \in 0..n : pl[i] = i
  BY <1>1 DEF Same
<1>3. Entries(l) /\ Entries(m) /\ (\A i \in 1..n : m[i] = l[i])
  BY <1>1 DEF Grows
<1>4. call \in path /\ call \in 1..n /\ call \in more
  BY <1>1 DEF CallsOn
<1>5. Copies(m, more, l, path, pl)
  <2>1. \A i \in path : i \in more /\ i \in 1..n /\ pl[i] = i /\ m[i] = l[i]
    BY <1>1, <1>2, <1>3
  <2>2. \A i \in path : \A c \in CallsOn(l, path) : Binds(m, m[i], c) <=> Binds(l, l[i], c)
    BY <2>1 DEF Binds, CallsOn
  <2>3. \A c \in CallsOn(l, path) : pl[c] = c
    BY <2>1 DEF CallsOn
  <2>4. pl[0] = 0
    BY <1>1, <1>2
  <2> QED BY <1>1, <2>1, <2>2, <2>3, <2>4 DEF Copies
<1>6. Places(m, more, l, path, pl)
  <2>1. pl \in [0..n -> 0..k]
    BY <1>1 DEF Same
  <2>2. \A i \in 1..n : pl[i] = pl[i-1] + 1 /\ (i \notin path => pl[i] \notin more)
    BY <1>1, <1>2
  <2> QED BY <1>1, <2>1, <2>2 DEF Places
<1>7. pl[call] = call /\ pl[n] = n
  BY <1>1, <1>2, <1>4
<1>8. Like(CallUpTo(m, more, call)[n], CallOn(l, path, call), pl)
  <2>1. Like(CallUpTo(m, more, pl[call])[pl[Len(l)]], CallOn(l, path, call), pl)
    BY <1>3, <1>5, <1>6, LikeFold
  <2> QED BY <1>1, <1>7, <2>1
<1>9. CallUpTo(m, more, call)[n] \in Reading(m, more)
  <2>1. Folds(m, more, call, CallUpTo(m, more, call), k)
    BY <1>1, <1>3, <1>4, CallFold
  <2>2. n \in call..k
    BY <1>1, <1>4
  <2> QED BY <2>1, <2>2 DEF Folds
<1>10. CallOn(l, path, call) \in Reading(l, path)
  <2>1. Folds(l, path, call, CallUpTo(l, path, call), n)
    BY <1>1, <1>3, <1>4, CallFold
  <2>2. n \in call..n
    BY <1>1, <1>4
  <2> QED BY <1>1, <2>1, <2>2 DEF Folds, CallOn
<1> QED BY <1>1, <1>5, <1>8, <1>9, <1>10

\* Nor does its output move.
LEMMA SameOutput ==
  ASSUME NEW l, Entries(l), NEW path \in SUBSET (1..Len(l)), NEW c \in Reading(l, path), NEW d, Like(d, c, Same(l))
  PROVE  d.output = c.output
<1>1. PICK n \in Nat : n = Len(l)
  BY Length
<1>2. c.output \in path \cup {0}
  BY ReadingIs
<1>3. path \in SUBSET (1..n) /\ 0 \in 0..n
  BY <1>1
<1>4. \A x \in path \cup {0} : x \in 0..n
  BY <1>3
<1>5. d.output = Same(l)[c.output]
  BY DEF Like
<1>6. \A x \in 0..n : Same(l)[x] = x
  BY <1>1 DEF Same
<1> QED BY <1>2, <1>4, <1>5, <1>6

\* An old path reads a call as before.
LEMMA OldReads ==
  ASSUME NEW l, NEW m, Grows(l, m), NEW path \in SUBSET (1..Len(l)), NEW call \in CallsOn(l, path)
  PROVE  /\ Copies(m, path, l, path, Same(l))
         /\ CallOn(m, path, call) \in Reading(m, path)
         /\ CallOn(l, path, call) \in Reading(l, path)
         /\ Like(CallOn(m, path, call), CallOn(l, path, call), Same(l))
<1>1. PICK n, k : n \in Nat /\ k \in Nat /\ n = Len(l) /\ k = Len(m) /\ n <= k /\ Entries(m)
  BY Length DEF Grows
<1>2. path \in SUBSET (1..k) /\ call \in path /\ n \in call..k /\ \A i \in path : i <= n
  BY <1>1 DEF CallsOn
<1>3. CallOn(m, path, call) = CallUpTo(m, path, call)[n]
  BY <1>1, <1>2, Idle
<1> QED BY <1>1, <1>2, <1>3, GrownReads

\* The new path reads it as before, and then the new entry.
ReadsOn(l, m, path, more, call, d) ==
  /\ Copies(m, more, l, path, Same(l)) /\ CallOn(l, path, call) \in Reading(l, path)
  /\ d \in Reading(m, more) /\ Like(d, CallOn(l, path, call), Same(l))
  /\ CallOn(m, more, call) = CallStep(m, d, call, Len(m))

LEMMA NewReads ==
  ASSUME NEW l, NEW m, Grows(l, m), Len(m) = Len(l) + 1, NEW path \in SUBSET (1..Len(l)), NEW call \in CallsOn(l, path),
         NEW more, more = path \cup {Len(m)}
  PROVE  \E d : ReadsOn(l, m, path, more, call, d)
<1>1. PICK n : n \in Nat /\ n = Len(l) /\ Len(m) = n + 1 /\ Entries(m)
  BY Length DEF Grows
<1>2. more \in SUBSET (1..n+1) /\ call \in path /\ call \in 1..n /\ call \in more
  <2>1. \A i \in path : i \in 1..n /\ i \in 1..n+1
    BY <1>1
  <2>2. call \in path
    BY DEF CallsOn
  <2>3. \A i \in more : i \in 1..n+1
    BY <1>1, <2>1
  <2> QED BY <2>1, <2>2, <2>3
<1>3. \A i \in 1..n : i \in more <=> i \in path
  BY <1>1
<1>4. Folds(m, more, call, CallUpTo(m, more, call), n + 1)
  BY <1>1, <1>2, CallFold
<1>5. CallOn(m, more, call) = CallStep(m, CallUpTo(m, more, call)[n], call, n + 1)
  <2>1. n + 1 \in call..n+1 /\ n + 1 > call /\ n + 1 \in more /\ (n + 1) - 1 = n
    BY <1>1, <1>2
  <2> QED BY <1>1, <1>4, <2>1 DEF Folds, CallOn
<1> QED BY <1>1, <1>2, <1>3, <1>5, GrownReads DEF ReadsOn

\* What checkCallRules asks of an entry about a call, of the call's reading.
MayFollow(l, c, e) ==
  /\ e.type = "output" => c.output /= 0 \/ (Returned(c) /\ ~c.answeredSinceResult => l[c.result].item = e.item)
  /\ e.type = "result" => /\ Dispatched(c) /\ c.output = 0 /\ ~c.resultAfterLast
                          /\ ~Answered(l, c) /\ ~Rejected(l, c)
  /\ e.type = "decision" => /\ ~Answered(l, c) /\ ~Rejected(l, c)
                            /\ Returned(c) => e.verdict = "answer"
                            /\ ~Withdraws(c, e) => /\ e.verdict = "reject" => ~Dispatched(c)
                                                   /\ e.verdict \in {"answer", "reject"} => c.output = 0
  /\ e.type = "dispatch" => c.output = 0 /\ ~Returned(c) /\ ~Answered(l, c) /\ ~Rejected(l, c)

\* Such an entry breaks no rule; and a call answered with no hand-off was so
\* before, or is answered by it.
LEMMA StepVerifies ==
  ASSUME NEW l, NEW path, NEW c \in Reading(l, path), NEW call, NEW i \in path, c.faults = {},
         Binds(l, l[i], call) => MayFollow(l, c, l[i]), NEW d, d = CallStep(l, c, call, i)
  PROVE  /\ d.faults = {}
         /\ Answered(l, d) /\ ~Dispatched(d) =>
              \/ Answered(l, c) /\ ~Dispatched(c)
              \/ Binds(l, l[i], call) /\ l[i].type = "decision" /\ l[i].verdict = "answer" /\ ~Dispatched(c)
<1>0. PICK e : e = l[i]
  OBVIOUS
<1>1. \/ (~Binds(l, e, call) \/ (e.type = "output" /\ c.output /= 0)) /\ d = c
      \/ Binds(l, e, call) /\ e.type = "output" /\ c.output = 0 /\ d = OnOutput(l, c, i) /\ AfterOutput(l, c, d, i)
      \/ Binds(l, e, call) /\ e.type = "result" /\ d = OnResult(l, c, i) /\ AfterResult(l, c, d, i)
      \/ Binds(l, e, call) /\ e.type = "decision" /\ Withdraws(c, e) /\ AfterWithdrawal(l, c, d, i)
      \/ /\ Binds(l, e, call) /\ e.type = "decision" /\ ~Withdraws(c, e)
         /\ d = OnDecision(l, c, i) /\ AfterDecision(l, c, d, i)
      \/ Binds(l, e, call) /\ e.type = "dispatch" /\ d = OnDispatch(l, c, i) /\ AfterDispatch(l, c, d, i)
  BY <1>0, StepIs
<1>2. ASSUME d.decisions = c.decisions, d.dispatches = c.dispatches
      PROVE  (Answered(l, d) <=> Answered(l, c)) /\ (Dispatched(d) <=> Dispatched(c))
  BY <1>2 DEF Answered, HasVerdict, Dispatched
<1>3. CASE (~Binds(l, e, call) \/ (e.type = "output" /\ c.output /= 0)) /\ d = c
  BY <1>3
<1>4. CASE Binds(l, e, call) /\ e.type = "output" /\ c.output = 0 /\ d = OnOutput(l, c, i) /\ AfterOutput(l, c, d, i)
  <2>1. d.faults = {}
    BY <1>0, <1>4, OutputFaults DEF MayFollow
  <2>2. d.decisions = c.decisions /\ d.dispatches = c.dispatches
    BY <1>4 DEF AfterOutput
  <2> QED BY <1>2, <2>1, <2>2
<1>5. CASE Binds(l, e, call) /\ e.type = "result" /\ d = OnResult(l, c, i) /\ AfterResult(l, c, d, i)
  <2>1. d.faults = {}
    BY <1>0, <1>5, ResultFaults DEF MayFollow
  <2>2. d.decisions = c.decisions /\ d.dispatches = c.dispatches
    BY <1>5 DEF AfterResult
  <2> QED BY <1>2, <2>1, <2>2
<1>6. CASE Binds(l, e, call) /\ e.type = "decision" /\ Withdraws(c, e) /\ AfterWithdrawal(l, c, d, i)
  <2>1. d.faults = {} /\ d.decisions = c.decisions
    BY <1>6 DEF AfterWithdrawal
  <2>2. ~Answered(l, c)
    BY <1>0, <1>6 DEF MayFollow
  <2>3. ~Answered(l, d)
    BY <2>1, <2>2 DEF Answered, HasVerdict
  <2> QED BY <2>1, <2>3
<1>7. CASE /\ Binds(l, e, call) /\ e.type = "decision" /\ ~Withdraws(c, e)
           /\ d = OnDecision(l, c, i) /\ AfterDecision(l, c, d, i)
  <2>1. d.faults = {}
    <3>1. MayFollow(l, c, l[i])
      BY <1>0, <1>7
    <3> QED BY <1>0, <1>7, <3>1, DecisionFaults DEF MayFollow
  <2>2. d.decisions = Append(c.decisions, i) /\ d.dispatches = c.dispatches
    BY <1>7 DEF AfterDecision
  <2>3. Answered(l, d) => Answered(l, c) \/ e.verdict = "answer"
    <3>1. PICK n \in Nat : n = Len(c.decisions) /\ DOMAIN c.decisions = 1..n
      BY ReadingSeqs
    <3>2. c.decisions \in Seq(Decisions(l, path))
      BY ReadingIs
    <3>3. DOMAIN d.decisions = 1..n+1 /\ d.decisions[n+1] = i /\ \A k \in 1..n : d.decisions[k] = c.decisions[k]
      BY <2>2, <3>1, <3>2
    <3> QED BY <1>0, <3>1, <3>3 DEF Answered, HasVerdict
  <2>4. Dispatched(d) <=> Dispatched(c)
    BY <2>2 DEF Dispatched
  <2> QED BY <1>0, <1>7, <2>1, <2>3, <2>4
<1>8. CASE Binds(l, e, call) /\ e.type = "dispatch" /\ d = OnDispatch(l, c, i) /\ AfterDispatch(l, c, d, i)
  <2>1. d.faults = {}
    BY <1>0, <1>8, DispatchFaults DEF MayFollow
  <2>2. Dispatched(d)
    <3>1. d.dispatches = Append(c.dispatches, i) /\ c.dispatches \in Seq(path)
      BY <1>8, ReadingIs DEF AfterDispatch
    <3>2. Len(d.dispatches) > 0 
      BY <3>1
    <3> QED BY <3>1, <3>2 DEF Dispatched
  <2> QED BY <2>1, <2>2
<1> QED BY <1>1, <1>3, <1>4, <1>5, <1>6, <1>7, <1>8

\* What an output is owed, of the reading of its call.
Accounted(l, c) == Dispatched(c) \/ Rejected(l, c) \/ Answered(l, c)

\* A call stays accounted for once it has an output: a withdrawal takes a
\* hand-off back only before that.
LEMMA StepAccounts ==
  ASSUME NEW l, NEW path \in SUBSET Nat, NEW c \in Reading(l, path), NEW call, NEW i \in path, NEW base \in Nat,
         c.output > base => Accounted(l, c), Binds(l, l[i], call) /\ l[i].type = "output" /\ c.output = 0 /\ i > base => Accounted(l, c),
         NEW d, d = CallStep(l, c, call, i)
  PROVE  d.output > base => Accounted(l, d)
<1>0. PICK e : e = l[i]
  OBVIOUS
<1>1. \/ (~Binds(l, e, call) \/ (e.type = "output" /\ c.output /= 0)) /\ d = c
      \/ Binds(l, e, call) /\ e.type = "output" /\ c.output = 0 /\ d = OnOutput(l, c, i) /\ AfterOutput(l, c, d, i)
      \/ Binds(l, e, call) /\ e.type = "result" /\ d = OnResult(l, c, i) /\ AfterResult(l, c, d, i)
      \/ Binds(l, e, call) /\ e.type = "decision" /\ Withdraws(c, e) /\ AfterWithdrawal(l, c, d, i)
      \/ /\ Binds(l, e, call) /\ e.type = "decision" /\ ~Withdraws(c, e)
         /\ d = OnDecision(l, c, i) /\ AfterDecision(l, c, d, i)
      \/ Binds(l, e, call) /\ e.type = "dispatch" /\ d = OnDispatch(l, c, i) /\ AfterDispatch(l, c, d, i)
  BY <1>0, StepIs
<1>2. ASSUME d.decisions = c.decisions, d.dispatches = c.dispatches
      PROVE  Accounted(l, c) => Accounted(l, d)
  BY <1>2 DEF Accounted, Answered, Rejected, HasVerdict, Dispatched
<1>3. CASE (~Binds(l, e, call) \/ (e.type = "output" /\ c.output /= 0)) /\ d = c
  BY <1>3
<1>4. CASE Binds(l, e, call) /\ e.type = "output" /\ c.output = 0 /\ AfterOutput(l, c, d, i)
  BY <1>0, <1>2, <1>4 DEF AfterOutput
<1>5. CASE AfterResult(l, c, d, i)
  BY <1>2, <1>5 DEF AfterResult
<1>6. CASE Withdraws(c, e) /\ AfterWithdrawal(l, c, d, i)
  <2>1. d.output = 0
    BY <1>6 DEF Withdraws, AfterWithdrawal
  <2> QED BY <2>1
<1>7. CASE AfterDecision(l, c, d, i)
  <2>1. d.decisions = Append(c.decisions, i) /\ d.dispatches = c.dispatches /\ d.output = c.output
    BY <1>7 DEF AfterDecision
  <2>2. \A v : HasVerdict(l, c, v) => HasVerdict(l, d, v)
    <3>1. PICK n \in Nat : n = Len(c.decisions) /\ DOMAIN c.decisions = 1..n
      BY ReadingSeqs
    <3>2. c.decisions \in Seq(Decisions(l, path))
      BY ReadingIs
    <3>3. DOMAIN d.decisions = 1..n+1 /\ \A k \in 1..n : d.decisions[k] = c.decisions[k]
      BY <2>1, <3>1, <3>2
    <3> QED BY <3>1, <3>3 DEF HasVerdict
  <2> QED BY <2>1, <2>2 DEF Accounted, Answered, Rejected, Dispatched
<1>8. CASE AfterDispatch(l, c, d, i)
  <2>1. d.dispatches = Append(c.dispatches, i) /\ c.dispatches \in Seq(path)
    BY <1>8, ReadingIs DEF AfterDispatch
  <2>2. Len(d.dispatches) > 0
    BY <2>1
  <2> QED BY <2>1, <2>2 DEF Accounted, Dispatched
<1> QED BY <1>1, <1>3, <1>4, <1>5, <1>6, <1>7, <1>8

-----------------------------------------------------------------------------
(* The session, and what an append makes of it.                            *)

SessionOK(t) ==
  /\ t = [ents |-> t.ents, base |-> t.base, leaf |-> t.leaf, read |-> t.read, promise |-> t.promise]
  /\ Entries(t.ents) /\ t.base \in 0..Len(t.ents) /\ t.leaf \in 0..Len(t.ents) /\ t.promise \in BOOLEAN

VerifiesAt(t, path, call) ==
  LET c == CallOn(t.ents, path, call) IN
  /\ c.faults = {}
  /\ Answered(t.ents, c) /\ ~Dispatched(c) /\ t.promise /\ call > t.base => DispatchedOff(t.ents, call, path)

Verifies(t) ==
  \A leaf \in 1..Len(t.ents) : \A call \in CallsOn(t.ents, PathTo(t, leaf)) :
    ~t.ents[call].copied => VerifiesAt(t, PathTo(t, leaf), call)

\* Every output the header's promise covers is of a call accounted for.
Owed(t) ==
  \A leaf \in 1..Len(t.ents) : \A call \in CallsOn(t.ents, PathTo(t, leaf)) :
    ~t.ents[call].copied => ~RecordMissing(t, PathTo(t, leaf), call)

\* What the promise asks of an output appended under the leaf (Recorded).
KeepsPromise(t, e) ==
  e.type = "output" /\ t.promise =>
    \A call \in CallsOn(t.ents, PathTo(t, t.leaf)) :
      LET c == CallOn(t.ents, PathTo(t, t.leaf), call)
      IN  t.ents[call].cid = e.cid /\ ~t.ents[call].copied /\ c.output = 0 => Accounted(t.ents, c)

LEMMA Committed ==
  ASSUME NEW t, SessionOK(t), NEW e, IsEntry(e), e.parent = t.leaf, NEW u, u = Commit(t, e)
  PROVE  /\ SessionOK(u) /\ Grows(t.ents, u.ents) /\ Len(u.ents) = Len(t.ents) + 1 /\ u.ents[Len(u.ents)] = e
         /\ u.base = t.base /\ u.promise = t.promise /\ u.leaf = Len(u.ents)
<1>1. PICK n : n \in Nat /\ n = Len(t.ents)
  BY Length DEF SessionOK
<1>2. PICK S : t.ents \in Seq(S) /\ \A i \in 1..n : IsEntry(t.ents[i]) /\ t.ents[i].parent \in 0..i-1
  BY <1>1 DEF SessionOK, Entries
<1>3. PICK a : a = Add(t, e)
  OBVIOUS
<1>4. /\ a.ents = Append(t.ents, e) /\ a.leaf = t.leaf
      /\ a = [ents |-> Append(t.ents, e), base |-> t.base, leaf |-> t.leaf, read |-> t.read, promise |-> t.promise]
  BY <1>3 DEF Add, SessionOK
<1>5. MoveLeafFor(a, e, n + 1) = n + 1
  <2>1. ~IsLabel(e)
    BY DEF IsEntry, IsLabel, Types
  <2>2. OutcomeFor(a, e) = "continued"
    BY <1>4, <2>1 DEF OutcomeFor
  <2> QED BY <2>2 DEF MoveLeafFor
<1>6. u = [ents |-> Append(t.ents, e), base |-> t.base, leaf |-> n + 1, read |-> t.read, promise |-> t.promise]
  <2>1. u = [a EXCEPT !.leaf = n + 1]
    <3>1. u = [a EXCEPT !.leaf = MoveLeafFor(a, e, n + 1)]
      BY <1>1, <1>3, Zenon DEF Commit
    <3> QED BY <1>5, <3>1
  <2> QED BY <1>4, <2>1
<1>7. PICK m : m = Append(t.ents, e)
  OBVIOUS
<1>8. /\ Len(m) = n + 1 /\ m[n+1] = e /\ \A i \in 1..n : m[i] = t.ents[i]
      /\ \E R : m \in Seq(R)
  <2>1. PICK R : R = S \cup {e}
    OBVIOUS
  <2>2. t.ents \in Seq(R) /\ e \in R
    BY <1>2, <2>1
  <2>3. m \in Seq(R)
    BY <1>7, <2>2
  <2> QED BY <1>1, <1>2, <1>7, <2>3
<1>9. \A i \in 1..n+1 : IsEntry(m[i]) /\ m[i].parent \in 0..i-1
  BY <1>1, <1>2, <1>8 DEF SessionOK
<1>10. Entries(m)
  BY <1>8, <1>9 DEF Entries
<1>11. Grows(t.ents, m)
  BY <1>1, <1>8, <1>10 DEF Grows, SessionOK
<1>12. u.ents = m /\ u.base = t.base /\ u.leaf = n + 1 /\ u.read = t.read /\ u.promise = t.promise
  BY <1>6, <1>7
<1>13. SessionOK(u)
  BY <1>1, <1>6, <1>7, <1>8, <1>10, <1>12 DEF SessionOK
<1> QED BY <1>1, <1>8, <1>11, <1>12, <1>13

LEMMA PathsGrow ==
  ASSUME NEW l, NEW m, Grows(l, m), Len(m) = Len(l) + 1
  PROVE  /\ \A i \in 0..Len(l) : Ancestry(m)[i] = Ancestry(l)[i] /\ Ancestry(l)[i] \in SUBSET (1..Len(l))
         /\ m[Len(m)].parent \in 0..Len(l)
         /\ Ancestry(m)[Len(m)] = Ancestry(l)[m[Len(m)].parent] \cup {Len(m)}
<1>1. PICK n : n \in Nat /\ n = Len(l) /\ Len(m) = n + 1 /\ Entries(m) /\ Entries(l)
  BY Length DEF Grows
<1>2. \A i \in 0..n : Ancestry(m)[i] = Ancestry(l)[i]
  BY <1>1, AncestryGrows
<1>3. \A i \in 0..n : Ancestry(l)[i] \subseteq 1..i
  BY <1>1, AncestrySpan
<1>4. m[n+1].parent \in 0..n
  BY <1>1 DEF Entries
<1>5. Ancestry(m)[n+1] = Ancestry(m)[m[n+1].parent] \cup {n+1}
  <2>1. \A i \in 1..n+1 : Ancestry(m)[i] = Ancestry(m)[m[i].parent] \cup {i}
    BY <1>1, AncestryStep
  <2> QED BY <1>1, <2>1
<1>6. \A i \in 0..n : 1..i \subseteq 1..n
  BY <1>1
<1> QED BY <1>1, <1>2, <1>3, <1>4, <1>5, <1>6

LEMMA DispatchesGrow ==
  ASSUME NEW l, NEW m, Grows(l, m), Len(m) = Len(l) + 1, NEW call
  PROVE  /\ Dispatches(l, call) \subseteq Dispatches(m, call)
         /\ Dispatches(l, call) \subseteq 1..Len(l)
         /\ \A i \in Dispatches(m, call) : i \in Dispatches(l, call) \/ i = Len(m)
BY Length DEF Grows, Dispatches

\* A path that verified does in the session grown by an entry.
LEMMA OldVerify ==
  ASSUME NEW t, NEW u, Grows(t.ents, u.ents), Len(u.ents) = Len(t.ents) + 1, u.base = t.base, u.promise = t.promise,
         NEW path \in SUBSET (1..Len(t.ents)), NEW call \in CallsOn(t.ents, path), VerifiesAt(t, path, call)
  PROVE  VerifiesAt(u, path, call)
<1>1. PICK c, d : c = CallOn(t.ents, path, call) /\ d = CallOn(u.ents, path, call)
  OBVIOUS
<1>2. /\ Copies(u.ents, path, t.ents, path, Same(t.ents)) /\ d \in Reading(u.ents, path) /\ c \in Reading(t.ents, path)
      /\ Like(d, c, Same(t.ents))
  BY <1>1, OldReads
<1>3. (Answered(u.ents, d) <=> Answered(t.ents, c)) /\ (Dispatched(d) <=> Dispatched(c))
  BY <1>2, LikeTells
<1>4. d.faults = {} <=> c.faults = {}
  BY <1>2 DEF Like
<1>5. DispatchedOff(t.ents, call, path) => DispatchedOff(u.ents, call, path)
  BY DispatchesGrow DEF DispatchedOff
<1> QED BY <1>1, <1>3, <1>4, <1>5 DEF VerifiesAt

\* The rules an append is held to are what the new path's reading needs.
LEMMA RulesAllow ==
  ASSUME NEW l, NEW m, Grows(l, m), Len(m) = Len(l) + 1, NEW path \in SUBSET (1..Len(l)), NEW call \in CallsOn(l, path),
         NEW more, more = path \cup {Len(m)}, NEW e, e = m[Len(m)],
         NEW t, t.ents = l, path = PathTo(t, e.parent), CheckCallRules(t, e),
         NEW c, c = CallOn(l, path, call), c \in Reading(l, path), NEW d \in Reading(m, more),
         Copies(m, more, l, path, Same(l)), Like(d, c, Same(l)), Binds(m, e, call)
  PROVE  /\ MayFollow(m, d, e)
         /\ e.type = "decision" /\ e.verdict = "answer" /\ ~Dispatched(d) /\ t.promise /\ call > t.base
              => DispatchedOff(l, call, path)
<1>1. /\ Answered(m, d) <=> Answered(l, c)
      /\ Rejected(m, d) <=> Rejected(l, c)
      /\ Dispatched(d) <=> Dispatched(c)
      /\ d.output = 0 <=> c.output = 0
      /\ d.result = 0 <=> c.result = 0
      /\ Returned(d) <=> Returned(c)
  BY LikeTells
<1>2. /\ (d.lastIsDispatch <=> c.lastIsDispatch) /\ (d.resultAfterLast <=> c.resultAfterLast)
      /\ (d.answeredSinceResult <=> c.answeredSinceResult) /\ d.result = Same(l)[c.result]
  BY DEF Like
<1>3. call \in path /\ call \in 1..Len(l) /\ m[call] = l[call]
  BY DEF CallsOn, Grows
<1>4. CASE e.type = "output"
  <2>1. Returned(c) /\ ~c.answeredSinceResult => l[c.result].item = e.item
    <3>1. MayOutput(t, e, path)
      BY <1>4 DEF CheckCallRules
    <3>2. l[call].cid = e.cid
      BY <1>3, <1>4 DEF Binds
    <3> QED BY <3>1, <3>2 DEF MayOutput
  <2>2. Returned(c) => m[d.result] = l[c.result]
    <3>1. c.result \in path \cup {0}
      BY ReadingIs DEF Results
    <3>2. Returned(c) => c.result \in 1..Len(l)
      BY <3>1 DEF Returned
    <3>3. Returned(c) => d.result = c.result
      BY <1>2, <3>2 DEF Same
    <3> QED BY <3>2, <3>3 DEF Grows
  <2> QED BY <1>1, <1>2, <1>4, <2>1, <2>2 DEF MayFollow
<1>5. CASE e.type = "result"
  <2>1. MayResult(t, e, path) /\ e.target = call
    BY <1>5 DEF CheckCallRules, Binds
  <2> QED BY <1>1, <1>2, <1>5, <2>1 DEF MayResult, MayFollow
<1>6. CASE e.type = "dispatch"
  <2>1. MayDispatch(t, e, path) /\ e.target = call
    BY <1>6 DEF CheckCallRules, Binds
  <2> QED BY <1>1, <1>2, <1>6, <2>1 DEF MayDispatch, MayFollow
<1>7. CASE e.type = "decision"
  <2>1. MayDecide(t, e, path) /\ e.target = call
    BY <1>7 DEF CheckCallRules, Binds
  <2>2. /\ Returned(c) => e.verdict = "answer"
        /\ ~Answered(l, c) /\ ~Rejected(l, c)
        /\ e.withdrawn => Withdraws(c, e)
        /\ e.verdict = "reject" /\ ~e.withdrawn => ~Dispatched(c)
        /\ e.verdict \in {"answer", "reject"} /\ ~e.withdrawn => c.output = 0
        /\ e.verdict = "answer" /\ ~Dispatched(c) /\ t.promise /\ call > t.base
             => DispatchedOff(l, call, path)
    BY <2>1 DEF MayDecide
  <2>3. Withdraws(d, e) <=> Withdraws(c, e)
    BY <1>1, <1>2 DEF Withdraws
  <2> QED BY <1>1, <1>7, <2>2, <2>3 DEF MayFollow
<1> QED BY <1>4, <1>5, <1>6, <1>7 DEF Binds


\* An append under the leaf that the rules let in leaves a session that verifies.
LEMMA AppendVerifies ==
  ASSUME NEW t, SessionOK(t), Verifies(t), NEW e, IsEntry(e), e.parent = t.leaf, CheckCallRules(t, e),
         NEW u, u = Commit(t, e)
  PROVE  Verifies(u)
<1>1. PICK n, l, m : /\ l = t.ents /\ m = u.ents /\ n \in Nat /\ n = Len(l) /\ Len(m) = n + 1 /\ m[n+1] = e
                     /\ Grows(l, m) /\ u.base = t.base /\ u.promise = t.promise
                     /\ t.leaf \in 0..n /\ Entries(l) /\ Entries(m) /\ \A i \in 1..n : m[i] = l[i]
  BY Committed, Length DEF SessionOK, Grows
<1>2. \A i \in 0..n : PathTo(u, i) = PathTo(t, i) /\ PathTo(t, i) \in SUBSET (1..n)
  BY <1>1, PathsGrow DEF PathTo
<1>3. PICK path, more : /\ path = PathTo(t, t.leaf) /\ more = path \cup {n+1} /\ path \in SUBSET (1..n)
                        /\ more = PathTo(u, n+1)
  BY <1>1, <1>2, PathsGrow DEF PathTo
<1>4. \A i \in 1..n : \A call \in CallsOn(l, PathTo(t, i)) : ~l[call].copied => VerifiesAt(t, PathTo(t, i), call)
  BY <1>1 DEF Verifies
<1>5. ASSUME NEW i \in 1..n, NEW call \in CallsOn(m, PathTo(u, i)), ~m[call].copied
      PROVE  VerifiesAt(u, PathTo(u, i), call)
  <2>1. PICK p : p = PathTo(u, i) /\ p = PathTo(t, i) /\ p \in SUBSET (1..n)
    BY <1>2
  <2>2. call \in p /\ m[call] = l[call] /\ call \in CallsOn(l, p)
    BY <1>1, <1>5, <2>1 DEF CallsOn
  <2>3. VerifiesAt(t, p, call)
    BY <1>4, <1>5, <2>1, <2>2
  <2> QED BY <1>1, <2>1, <2>2, <2>3, OldVerify
<1>6. ASSUME n + 1 \in CallsOn(m, more) PROVE VerifiesAt(u, more, n + 1)
  <2>1. more \in SUBSET (1..Len(m)) /\ n + 1 \in more
    BY <1>1, <1>3
  <2>2. Folds(m, more, n + 1, CallUpTo(m, more, n + 1), Len(m))
    BY <1>1, <2>1, CallFold
  <2>3. CallOn(m, more, n + 1) = First(n + 1)
    BY <1>1, <2>2 DEF Folds, CallOn
  <2>4. First(n + 1).faults = {} /\ First(n + 1).decisions = <<>>
    BY DEF First, NewCall
  <2>5. ~Answered(m, First(n + 1))
    BY <2>4 DEF Answered, HasVerdict
  <2> QED BY <1>1, <2>3, <2>4, <2>5 DEF VerifiesAt
<1>7. ASSUME NEW call \in CallsOn(m, more), call \in path, ~m[call].copied PROVE VerifiesAt(u, more, call)
  <2>1. call \in CallsOn(l, path) /\ m[call] = l[call]
    BY <1>1, <1>3, <1>7 DEF CallsOn
  <2>2. t.leaf \in 1..n
    <3>1. t.leaf = 0 => path = {}
      BY <1>1, <1>3, AncestryStep DEF PathTo
    <3> QED BY <1>1, <1>7, <3>1
  <2>3. VerifiesAt(t, path, call)
    BY <1>3, <1>4, <1>7, <2>1, <2>2
  <2>4. PICK c, d, x : /\ c = CallOn(l, path, call) /\ c \in Reading(l, path) /\ d \in Reading(m, more)
                       /\ Copies(m, more, l, path, Same(l)) /\ Like(d, c, Same(l))
                       /\ x = CallOn(m, more, call) /\ x = CallStep(m, d, call, n + 1)
    <3>1. Len(m) = Len(l) + 1 /\ path \in SUBSET (1..Len(l)) /\ more = path \cup {Len(m)} /\ Len(m) = n + 1
      BY <1>1, <1>3
    <3>3. Grows(l, m)
      BY <1>1
    <3>2. \E d : ReadsOn(l, m, path, more, call, d)
      BY <2>1, <3>1, <3>3, NewReads
    <3> QED BY <3>1, <3>2, Zenon DEF ReadsOn
  <2>5. c.faults = {} /\ (Answered(l, c) /\ ~Dispatched(c) /\ t.promise /\ call > t.base => DispatchedOff(l, call, path))
    BY <1>1, <2>3, <2>4 DEF VerifiesAt
  <2>6. d.faults = {} /\ (Answered(m, d) <=> Answered(l, c)) /\ (Dispatched(d) <=> Dispatched(c))
    <3>1. d.faults = {} <=> c.faults = {}
      BY <2>4 DEF Like
    <3> QED BY <2>4, <2>5, <3>1, LikeTells
  <2>7. Binds(m, e, call) => /\ MayFollow(m, d, e)
                             /\ e.type = "decision" /\ e.verdict = "answer" /\ ~Dispatched(d) /\ t.promise /\ call > t.base
                                  => DispatchedOff(l, call, path)
    BY <1>1, <1>3, <2>1, <2>4, RulesAllow
  <2>8. /\ x.faults = {}
        /\ Answered(m, x) /\ ~Dispatched(x) =>
             \/ Answered(m, d) /\ ~Dispatched(d)
             \/ Binds(m, e, call) /\ e.type = "decision" /\ e.verdict = "answer" /\ ~Dispatched(d)
    <3>1. n + 1 \in more
      BY <1>3
    <3> QED BY <1>1, <2>4, <2>6, <2>7, <3>1, StepVerifies
  <2>9. DispatchedOff(l, call, path) => DispatchedOff(m, call, more)
    <3>1. Dispatches(l, call) \subseteq Dispatches(m, call) /\ Dispatches(l, call) \subseteq 1..n
      BY <1>1, DispatchesGrow
    <3> QED BY <1>1, <1>3, <3>1 DEF DispatchedOff
  <2> QED BY <1>1, <2>4, <2>5, <2>6, <2>7, <2>8, <2>9 DEF VerifiesAt
<1>8. ASSUME NEW call \in CallsOn(m, more), ~m[call].copied PROVE VerifiesAt(u, more, call)
  <2>1. call \in path \/ call = n + 1
    BY <1>3, <1>8 DEF CallsOn
  <2> QED BY <1>6, <1>7, <1>8, <2>1
<1>9. \A i \in 1..Len(m) : i \in 1..n \/ i = n + 1
  BY <1>1
<1>10. \A i \in 1..Len(m) : \A call \in CallsOn(m, PathTo(u, i)) : ~m[call].copied => VerifiesAt(u, PathTo(u, i), call)
  BY <1>3, <1>5, <1>8, <1>9
<1> QED BY <1>1, <1>10 DEF Verifies

\* An old path's outputs are accounted for as they were.
LEMMA OldOwes ==
  ASSUME NEW t, NEW u, Grows(t.ents, u.ents), u.base = t.base, u.promise = t.promise,
         NEW path \in SUBSET (1..Len(t.ents)), NEW call \in CallsOn(t.ents, path), ~RecordMissing(t, path, call)
  PROVE  ~RecordMissing(u, path, call)
<1>1. PICK c, d : c = CallOn(t.ents, path, call) /\ d = CallOn(u.ents, path, call)
  OBVIOUS
<1>2. /\ Copies(u.ents, path, t.ents, path, Same(t.ents)) /\ d \in Reading(u.ents, path) /\ c \in Reading(t.ents, path)
      /\ Like(d, c, Same(t.ents))
  BY <1>1, OldReads
<1>3. /\ Answered(u.ents, d) <=> Answered(t.ents, c)
      /\ Rejected(u.ents, d) <=> Rejected(t.ents, c)
      /\ Dispatched(d) <=> Dispatched(c)
  BY <1>2, LikeTells
<1>4. d.output = c.output
  <2>1. Entries(t.ents)
    BY DEF Grows
  <2> QED BY <1>2, <2>1, SameOutput
<1> QED BY <1>1, <1>3, <1>4 DEF RecordMissing

\* An append that keeps the promise leaves every output accounted for.
LEMMA AppendOwes ==
  ASSUME NEW t, SessionOK(t), Owed(t), NEW e, IsEntry(e), e.parent = t.leaf, KeepsPromise(t, e),
         NEW u, u = Commit(t, e)
  PROVE  Owed(u)
<1>1. PICK n, l, m : /\ l = t.ents /\ m = u.ents /\ n \in Nat /\ n = Len(l) /\ Len(m) = n + 1 /\ m[n+1] = e
                     /\ Grows(l, m) /\ u.base = t.base /\ u.promise = t.promise
                     /\ t.leaf \in 0..n /\ Entries(l) /\ Entries(m) /\ \A i \in 1..n : m[i] = l[i]
  BY Committed, Length DEF SessionOK, Grows
<1>2. \A i \in 0..n : PathTo(u, i) = PathTo(t, i) /\ PathTo(t, i) \in SUBSET (1..n)
  BY <1>1, PathsGrow DEF PathTo
<1>3. PICK path, more : /\ path = PathTo(t, t.leaf) /\ more = path \cup {n+1} /\ path \in SUBSET (1..n)
                        /\ more = PathTo(u, n+1)
  BY <1>1, <1>2, PathsGrow DEF PathTo
<1>4. \A i \in 1..n : \A call \in CallsOn(l, PathTo(t, i)) : ~l[call].copied => ~RecordMissing(t, PathTo(t, i), call)
  BY <1>1 DEF Owed
<1>5. ASSUME NEW i \in 1..n, NEW call \in CallsOn(m, PathTo(u, i)), ~m[call].copied
      PROVE  ~RecordMissing(u, PathTo(u, i), call)
  <2>1. PICK p : p = PathTo(u, i) /\ p = PathTo(t, i) /\ p \in SUBSET (1..n)
    BY <1>2
  <2>2. call \in p /\ m[call] = l[call] /\ call \in CallsOn(l, p)
    BY <1>1, <1>5, <2>1 DEF CallsOn
  <2>3. ~RecordMissing(t, p, call)
    BY <1>4, <1>5, <2>1, <2>2
  <2> QED BY <1>1, <2>1, <2>2, <2>3, OldOwes
<1>6. t.base \in Nat
  BY <1>1 DEF SessionOK
<1>7. ASSUME n + 1 \in CallsOn(m, more) PROVE ~RecordMissing(u, more, n + 1)
  <2>1. more \in SUBSET (1..Len(m)) /\ n + 1 \in more
    BY <1>1, <1>3
  <2>2. Folds(m, more, n + 1, CallUpTo(m, more, n + 1), Len(m))
    BY <1>1, <2>1, CallFold
  <2>3. CallOn(m, more, n + 1) = First(n + 1)
    BY <1>1, <2>2 DEF Folds, CallOn
  <2>4. First(n + 1).output = 0
    BY DEF First, NewCall
  <2> QED BY <1>1, <1>6, <2>3, <2>4 DEF RecordMissing
<1>8. ASSUME NEW call \in CallsOn(m, more), call \in path, ~m[call].copied PROVE ~RecordMissing(u, more, call)
  <2>1. call \in CallsOn(l, path) /\ m[call] = l[call]
    BY <1>1, <1>3, <1>8 DEF CallsOn
  <2>2. t.leaf \in 1..n
    <3>1. t.leaf = 0 => path = {}
      BY <1>1, <1>3, AncestryStep DEF PathTo
    <3> QED BY <1>1, <1>8, <3>1
  <2>3. ~RecordMissing(t, path, call)
    BY <1>3, <1>4, <1>8, <2>1, <2>2
  <2>4. PICK c, d, x : /\ c = CallOn(l, path, call) /\ c \in Reading(l, path) /\ d \in Reading(m, more)
                       /\ Copies(m, more, l, path, Same(l)) /\ Like(d, c, Same(l))
                       /\ x = CallOn(m, more, call) /\ x = CallStep(m, d, call, n + 1)
    <3>1. Len(m) = Len(l) + 1 /\ path \in SUBSET (1..Len(l)) /\ more = path \cup {Len(m)} /\ Len(m) = n + 1
      BY <1>1, <1>3
    <3>3. Grows(l, m)
      BY <1>1
    <3>2. \E d : ReadsOn(l, m, path, more, call, d)
      BY <2>1, <3>1, <3>3, NewReads
    <3> QED BY <3>1, <3>2, Zenon DEF ReadsOn
  <2>5. Accounted(m, d) <=> Accounted(l, c)
    BY <2>4, LikeTells DEF Accounted
  <2>6. d.output = c.output
    BY <1>1, <1>3, <2>4, SameOutput
  <2> SUFFICES ASSUME t.promise PROVE x.output > t.base => Accounted(m, x)
    BY <1>1, <2>4 DEF RecordMissing, Accounted
  <2>7. d.output > t.base => Accounted(m, d)
    BY <1>1, <2>3, <2>4, <2>5, <2>6 DEF RecordMissing, Accounted
  <2>8. Binds(m, e, call) /\ e.type = "output" /\ d.output = 0 => Accounted(m, d)
    <3>1. Binds(m, e, call) /\ e.type = "output" => l[call].cid = e.cid
      BY <2>1 DEF Binds
    <3>2. l[call].cid = e.cid /\ e.type = "output" /\ c.output = 0 => Accounted(l, c)
      BY <1>1, <1>3, <1>8, <2>1, <2>4 DEF KeepsPromise
    <3> QED BY <2>5, <2>6, <3>1, <3>2
  <2>9. more \in SUBSET Nat /\ n + 1 \in more
    BY <1>1, <1>3
  <2> QED BY <1>1, <1>6, <2>4, <2>7, <2>8, <2>9, StepAccounts
<1>9. ASSUME NEW call \in CallsOn(m, more), ~m[call].copied PROVE ~RecordMissing(u, more, call)
  <2>1. call \in path \/ call = n + 1
    BY <1>3, <1>9 DEF CallsOn
  <2> QED BY <1>7, <1>8, <1>9, <2>1
<1>10. \A i \in 1..Len(m) : i \in 1..n \/ i = n + 1
  BY <1>1
<1>11. \A i \in 1..Len(m) : \A call \in CallsOn(m, PathTo(u, i)) : ~m[call].copied => ~RecordMissing(u, PathTo(u, i), call)
  BY <1>3, <1>5, <1>9, <1>10
<1> QED BY <1>1, <1>11 DEF Owed


-----------------------------------------------------------------------------
(* The session a fork opens with.                                          *)

\* The place of each entry among those of a path.
PlaceOf(path, n) == [i \in 0..n |-> Cardinality({j \in path : j <= i})]

Counts(pl, path, n) ==
  /\ pl \in [0..n -> Nat] /\ pl[0] = 0 /\ pl[n] = Cardinality(path)
  /\ \A i \in 1..n : IF i \in path THEN pl[i] = pl[i-1] + 1 ELSE pl[i] = pl[i-1]

LEMMA PlaceSteps ==
  ASSUME NEW n \in Nat, NEW path \in SUBSET (1..n), NEW pl, pl = PlaceOf(path, n)
  PROVE  Counts(pl, path, n)
<1> DEFINE upTo(i) == {j \in path : j <= i}
<1>0. \A j \in path : j \in Int /\ 1 <= j /\ j <= n
  OBVIOUS
<1>1. IsFiniteSet(1..n) /\ \A i \in 0..n : upTo(i) \subseteq 1..n
  <2>1. \A i \in 0..n : upTo(i) \subseteq 1..n
    BY <1>0
  <2> QED BY <2>1, FS_Interval
<1>2. \A i \in 0..n : IsFiniteSet(upTo(i)) /\ Cardinality(upTo(i)) \in Nat
  BY <1>1, FS_Subset, FS_CardinalityType
<1>3. \A i \in 0..n : pl[i] = Cardinality(upTo(i))
  BY DEF PlaceOf
<1>4. pl[0] = 0
  <2>2. \A j \in path : ~(j <= 0)
    BY <1>0
  <2>1. upTo(0) = {}
    BY <2>2
  <2> QED BY <1>3, <2>1, FS_EmptySet
<1>5. pl[n] = Cardinality(path)
  <2>1. upTo(n) = path
    BY <1>0
  <2> QED BY <1>3, <2>1
<1>6. ASSUME NEW i \in 1..n PROVE IF i \in path THEN pl[i] = pl[i-1] + 1 ELSE pl[i] = pl[i-1]
  <2>0. i \in 0..n /\ i - 1 \in 0..n
    OBVIOUS
  <2>1. CASE i \in path
    <3>1. \A j \in path : j <= i <=> j <= i-1 \/ j = i
      BY <1>0
    <3>4. upTo(i) = upTo(i-1) \cup {i}
      BY <2>1, <3>1
    <3>2. i \notin upTo(i-1)
      OBVIOUS
    <3> HIDE DEF upTo
    <3>3. Cardinality(upTo(i-1) \cup {i}) = Cardinality(upTo(i-1)) + 1
      BY <1>2, <2>0, <3>2, FS_AddElement
    <3> QED BY <1>3, <2>0, <2>1, <3>3, <3>4
  <2>2. CASE i \notin path
    <3>1. \A j \in path : j <= i <=> j <= i-1
      BY <1>0, <2>2
    <3>3. upTo(i) = upTo(i-1)
      BY <3>1
    <3> HIDE DEF upTo
    <3> QED BY <1>3, <2>0, <2>2, <3>3
  <2> QED BY <2>1, <2>2
<1>7. pl \in [0..n -> Nat]
  <2>1. pl = [i \in 0..n |-> Cardinality(upTo(i))]
    BY DEF PlaceOf
  <2> HIDE DEF upTo
  <2> QED BY <1>2, <2>1
<1> QED BY <1>4, <1>5, <1>6, <1>7 DEF Counts

\* Places grow along the path, and each number up to the last is the place of
\* one of its entries.
InOrder(pl, path, n) ==
  /\ \A i \in 0..n : \A j \in 0..i : pl[j] <= pl[i]
  /\ \A i \in path : \A j \in 0..i-1 : pl[j] < pl[i]
  /\ \A k \in 1..pl[n] : \E i \in path : pl[i] = k

LEMMA PlacesAreInOrder ==
  ASSUME NEW n \in Nat, NEW path \in SUBSET (1..n), NEW pl, pl = PlaceOf(path, n)
  PROVE  InOrder(pl, path, n)
<1>1. /\ pl \in [0..n -> Nat] /\ pl[0] = 0
      /\ \A i \in 1..n : IF i \in path THEN pl[i] = pl[i-1] + 1 ELSE pl[i] = pl[i-1]
  BY PlaceSteps DEF Counts
<1>2. PICK T : T = {i \in 0..n : \A j \in 0..i : pl[j] <= pl[i]}
  OBVIOUS
<1>3. ASSUME NEW i \in 0..n, \A j \in 0..i-1 : j \in T PROVE i \in T
  <2>1. CASE i = 0
    BY <1>1, <1>2, <2>1
  <2>2. CASE i /= 0
    <3>1. i - 1 \in T /\ i \in 1..n /\ i - 1 \in 0..n
      BY <1>3, <2>2
    <3>2. pl[i-1] <= pl[i] /\ pl[i] \in Nat /\ pl[i-1] \in Nat
      BY <1>1, <3>1
    <3>3. ASSUME NEW j \in 0..i PROVE pl[j] <= pl[i]
      <4>1. CASE j = i
        BY <3>2, <4>1
      <4>2. CASE j /= i
        <5>1. j \in 0..i-1 /\ j \in 0..n
          BY <4>2
        <5>2. pl[j] <= pl[i-1] /\ pl[j] \in Nat
          BY <1>1, <1>2, <3>1, <5>1
        <5> QED BY <3>2, <5>2
      <4> QED BY <4>1, <4>2
    <3> QED BY <1>2, <3>3
  <2> QED BY <2>1, <2>2
<1>4. 0..n \subseteq T
  BY <1>3, Reaching
<1>5. \A i \in 0..n : \A j \in 0..i : pl[j] <= pl[i]
  BY <1>2, <1>4
<1>6. ASSUME NEW i \in path, NEW j \in 0..i-1 PROVE pl[j] < pl[i]
  <2>1. i \in 1..n /\ i - 1 \in 0..n /\ j \in 0..n
    OBVIOUS
  <2>2. pl[j] <= pl[i-1] /\ pl[i] = pl[i-1] + 1 /\ pl[j] \in Nat /\ pl[i-1] \in Nat
    BY <1>1, <1>5, <2>1
  <2> QED BY <2>2
<1>7. PICK U : U = {i \in 0..n : \A k \in 1..pl[i] : \E j \in path : pl[j] = k}
  OBVIOUS
<1>8. ASSUME NEW i \in 0..n, \A j \in 0..i-1 : j \in U PROVE i \in U
  <2>1. CASE i = 0
    BY <1>1, <1>7, <2>1
  <2>2. CASE i /= 0
    <3>1. i - 1 \in U /\ i \in 1..n /\ i - 1 \in 0..n
      BY <1>8, <2>2
    <3>2. \A k \in 1..pl[i-1] : \E j \in path : pl[j] = k
      BY <1>7, <3>1
    <3>3. pl[i-1] \in Nat
      BY <1>1, <3>1
    <3>4. CASE i \in path
      <4>1. pl[i] = pl[i-1] + 1
        BY <1>1, <3>1, <3>4
      <4>2. \A k \in 1..pl[i] : k \in 1..pl[i-1] \/ k = pl[i]
        BY <3>3, <4>1
      <4> QED BY <1>7, <3>2, <3>4, <4>2
    <3>5. CASE i \notin path
      <4>1. pl[i] = pl[i-1]
        BY <1>1, <3>1, <3>5
      <4> QED BY <1>7, <3>2, <4>1
    <3> QED BY <3>4, <3>5
  <2> QED BY <2>1, <2>2
<1>9. 0..n \subseteq U
  BY <1>8, Reaching
<1> QED BY <1>5, <1>6, <1>7, <1>9 DEF InOrder

\* An entry of a path hangs from the one before it.
LEMMA ParentBefore ==
  ASSUME NEW l, Entries(l), NEW id \in 1..Len(l), NEW path, path = Ancestry(l)[id],
         NEW pl, pl = PlaceOf(path, Len(l))
  PROVE  /\ path \in SUBSET (1..Len(l)) /\ id \in path
         /\ \A i \in path : /\ l[i].parent \in path \cup {0} /\ l[i].parent < i /\ pl[i] = pl[l[i].parent] + 1
                            /\ Ancestry(l)[i] = {j \in path : j <= i}
<1>1. PICK n, anc : n \in Nat /\ n = Len(l) /\ anc = Ancestry(l)
  BY Length
<1>2. \A i \in 1..n : anc[i] = anc[l[i].parent] \cup {i} /\ l[i].parent \in 0..i-1
  BY <1>1, AncestryStep DEF Entries
<1>3. \A i \in 0..n : anc[i] \subseteq 1..i /\ (i /= 0 => i \in anc[i])
  BY <1>1, AncestrySpan
<1>4. path \in SUBSET (1..n) /\ id \in path
  <2>1. path \subseteq 1..id /\ id \in path
    BY <1>1, <1>3
  <2> QED BY <1>1, <2>1
<1>5. \A i \in path : anc[i] = {j \in path : j <= i}
  BY <1>1, AncestryDown
<1>7. \A j \in path : j \in Int /\ 1 <= j /\ j <= n
  BY <1>4
<1>6. ASSUME NEW i \in path
      PROVE  l[i].parent \in path \cup {0} /\ l[i].parent < i /\ pl[i] = pl[l[i].parent] + 1
  <2>1. PICK q : q = l[i].parent /\ q \in 0..i-1 /\ i \in 1..n /\ anc[i] = anc[q] \cup {i}
    BY <1>2, <1>4
  <2>2. q /= 0 => q \in path
    <3>1. q \in 0..n /\ (q /= 0 => q \in anc[q])
      BY <1>1, <1>3, <2>1
    <3>2. anc[i] \subseteq path
      BY <1>5
    <3> QED BY <2>1, <3>1, <3>2
  <2>3. \A j \in path : ~(q < j /\ j < i)
    <3> SUFFICES ASSUME NEW j \in path, q < j, j < i PROVE FALSE
      OBVIOUS
    <3>1. j \in anc[i] /\ j /= i
      BY <1>5, <1>7, <2>1
    <3>2. j \in anc[q]
      BY <2>1, <3>1
    <3>3. q \in 0..n /\ anc[q] \subseteq 1..q
      BY <1>1, <1>3, <2>1
    <3> QED BY <2>1, <3>2, <3>3
  <2>4. pl[i] = pl[i-1] + 1
    BY <1>1, <1>4, <2>1, PlaceSteps DEF Counts
  <2>5. pl[i-1] = pl[q]
    <3>3. \A j \in path : j <= i-1 <=> j <= q
      BY <1>7, <2>1, <2>3
    <3>1. {j \in path : j <= i-1} = {j \in path : j <= q}
      BY <3>3
    <3>2. q \in 0..n /\ i - 1 \in 0..n
      BY <1>1, <2>1
    <3> QED BY <1>1, <3>1, <3>2 DEF PlaceOf
  <2> QED BY <2>1, <2>2, <2>4, <2>5
<1> QED BY <1>1, <1>4, <1>5, <1>6


\* An entry x of a path, renumbered: its parent and what it names where they went.
Renumbered(y, x, path, pl) ==
  /\ y.type = x.type /\ y.parent = pl[x.parent]
  /\ y.target = IF x.target \in path THEN pl[x.target]
                ELSE IF x.target \in {Root, Nowhere} THEN x.target ELSE Nowhere
  /\ \A f \in Fields(x.type) : f \notin {"parent", "target"} => y[f] = x[f]
  /\ IsEntry(y)

LEMMA RenumberedIs ==
  ASSUME NEW x, IsEntry(x), NEW path, NEW pl, NEW a \in Int, a = pl[x.parent], NEW b \in Int,
         b = IF x.target \in path THEN pl[x.target] ELSE IF x.target \in {Root, Nowhere} THEN x.target ELSE Nowhere,
         NEW y, y = [x EXCEPT !.parent = a, !.target = b]
  PROVE  Renumbered(y, x, path, pl)
<1>1. PICK S : S = Fields(x.type) /\ {"type", "parent", "target"} \subseteq S
  BY DEF Fields
<1>2. x = [f \in S |-> x[f]]
  BY <1>1 DEF IsEntry
<1>3. DOMAIN x = S
  BY <1>2
<1>4. /\ y.parent = a /\ y.target = b /\ y.type = x.type /\ DOMAIN y = S
      /\ \A f \in S : f \notin {"parent", "target"} => y[f] = x[f]
  BY <1>1, <1>3
<1>5. y = [f \in S |-> y[f]]
  BY <1>2, <1>3
<1>6. IsEntry(y)
  BY <1>1, <1>4, <1>5 DEF IsEntry
<1> QED BY <1>1, <1>4, <1>6 DEF Renumbered

\* A fork holds the entries of the path it opens with, renumbered, and nothing else.
ForkOf(t, path, pl, l) ==
  /\ Len(l) = pl[Len(t.ents)] /\ Len(l) \in Nat /\ \E S : l \in Seq(S)
  /\ \A i \in path : pl[i] \in 1..Len(l) /\ Renumbered(l[pl[i]], t.ents[i], path, pl)
  /\ \A k \in 1..Len(l) : \E i \in path : pl[i] = k

Place(path, i) == Cardinality({j \in path : j <= i})

Renamed(path, e) ==
  [e EXCEPT !.parent = IF @ = Root THEN Root ELSE Place(path, @),
            !.target = IF @ \in path \cup {Root, Nowhere} THEN (IF @ > 0 THEN Place(path, @) ELSE @) ELSE Nowhere]

AtPlace(path, k) == CHOOSE i \in path : Place(path, i) = k

Opening(path, l) == [k \in 1..Cardinality(path) |-> Renamed(path, l[AtPlace(path, k)])]

LEMMA ForkOpens ==
  ASSUME NEW t, NEW id, NEW l, l = Opening(PathTo(t, id), t.ents)
  PROVE  Fork(t, id) = [NewSession EXCEPT !.ents = l, !.base = Len(l), !.leaf = Len(l)]
<1>1. LET o == Opening(PathTo(t, id), t.ents)
      IN  Fork(t, id) = [NewSession EXCEPT !.ents = o, !.base = Len(o), !.leaf = Len(o)]
  BY DEF Fork, Opening, AtPlace, Renamed, Place
<1> QED BY <1>1, Zenon

LEMMA ForkIs ==
  ASSUME NEW t, SessionOK(t), NEW id \in 1..Len(t.ents), NEW path, path = PathTo(t, id),
         NEW pl, pl = PlaceOf(path, Len(t.ents)), NEW u, u = Fork(t, id)
  PROVE  /\ ForkOf(t, path, pl, u.ents)
         /\ u.base = Len(u.ents) /\ u.leaf = Len(u.ents) /\ u.read = NoRead
<1>1. PICK n, m : n \in Nat /\ m = t.ents /\ n = Len(m) /\ Entries(m) /\ id \in 1..n
  BY Length DEF SessionOK
<1>2. /\ path \in SUBSET (1..n) /\ id \in path
      /\ \A i \in path : m[i].parent \in path \cup {0} /\ m[i].parent < i /\ pl[i] = pl[m[i].parent] + 1
  BY <1>1, ParentBefore DEF PathTo
<1>3. PICK ents : ents = Opening(path, m) /\ u = [NewSession EXCEPT !.ents = ents, !.base = Len(ents), !.leaf = Len(ents)]
  BY <1>1, ForkOpens
<1>13. pl = PlaceOf(path, n)
  BY <1>1
<1>4. \A i \in 0..n : pl[i] = Place(path, i)
  BY <1>13 DEF PlaceOf, Place
<1>5. /\ pl \in [0..n -> Nat] /\ pl[0] = 0 /\ pl[n] = Cardinality(path)
      /\ \A i \in 0..n : \A j \in 0..i : pl[j] <= pl[i]
      /\ \A i \in path : \A j \in 0..i-1 : pl[j] < pl[i]
      /\ \A k \in 1..pl[n] : \E i \in path : pl[i] = k
  <2>1. pl \in [0..n -> Nat] /\ pl[0] = 0 /\ pl[n] = Cardinality(path)
    BY <1>1, <1>2, <1>13, PlaceSteps DEF Counts
  <2>2. InOrder(pl, path, n)
    BY <1>1, <1>2, <1>13, PlacesAreInOrder
  <2> QED BY <2>1, <2>2 DEF InOrder
<1>6. PICK N \in Nat : N = pl[n] /\ N = Cardinality(path)
  BY <1>1, <1>5
<1>7. \A i \in path : i \in 1..n /\ pl[i] \in 1..N
  <2> SUFFICES ASSUME NEW i \in path PROVE i \in 1..n /\ pl[i] \in 1..N
    OBVIOUS
  <2>1. i \in 1..n /\ i \in 0..n /\ n \in 0..n /\ 0 \in 0..i-1 /\ i \in 0..n
    BY <1>1, <1>2
  <2>2. pl[0] < pl[i] /\ pl[i] <= pl[n] /\ pl[i] \in Nat
    BY <1>5, <2>1
  <2> QED BY <1>5, <1>6, <2>1, <2>2
<1>8. \A i \in path : AtPlace(path, pl[i]) = i
  <2> SUFFICES ASSUME NEW i \in path PROVE AtPlace(path, pl[i]) = i
    OBVIOUS
  <2>1. Place(path, i) = pl[i]
    BY <1>4, <1>7
  <2>2. PICK j : j = AtPlace(path, pl[i]) /\ j \in path /\ Place(path, j) = pl[i]
    BY <2>1 DEF AtPlace
  <2>3. pl[j] = pl[i] /\ i \in 1..n /\ j \in 1..n
    BY <1>4, <1>7, <2>2
  <2>4. ~(i < j) /\ ~(j < i)
    <3>1. i < j => i \in 0..j-1
      BY <2>3
    <3>2. j < i => j \in 0..i-1
      BY <2>3
    <3>3. pl[i] \in Nat /\ pl[j] \in Nat
      BY <1>1, <1>5, <2>3
    <3>4. i < j => pl[i] < pl[j]
      BY <1>5, <2>2, <3>1
    <3>5. j < i => pl[j] < pl[i]
      BY <1>5, <2>2, <3>2
    <3> QED BY <2>3, <3>3, <3>4, <3>5
  <2> QED BY <2>2, <2>3, <2>4
<1>9. ASSUME NEW i \in path PROVE Renumbered(Renamed(path, m[i]), m[i], path, pl)
  <2>1. PICK x : x = m[i] /\ IsEntry(x)
    BY <1>1, <1>7 DEF Entries
  <2>2. PICK a : a = pl[x.parent] /\ a \in Int /\ a = (IF x.parent = Root THEN Root ELSE Place(path, x.parent))
    <3>1. x.parent = 0 \/ (x.parent \in path /\ x.parent \in 0..n /\ x.parent /= 0)
      BY <1>1, <1>2, <1>7, <2>1
    <3>2. pl[x.parent] \in Int
      BY <1>1, <1>5, <3>1
    <3> QED BY <1>4, <1>5, <3>1, <3>2 DEF Root
  <2>3. PICK b : /\ b \in Int
                 /\ b = (IF x.target \in path THEN pl[x.target] ELSE IF x.target \in {Root, Nowhere} THEN x.target ELSE Nowhere)
                 /\ b = (IF x.target \in path \cup {Root, Nowhere}
                         THEN (IF x.target > 0 THEN Place(path, x.target) ELSE x.target) ELSE Nowhere)
    <3>1. CASE x.target \in path
      <4>1. x.target > 0 /\ Place(path, x.target) = pl[x.target] /\ pl[x.target] \in Int
        BY <1>4, <1>7, <3>1
      <4> QED BY <3>1, <4>1
    <3>2. CASE x.target \notin path
      <4>1. ~(Root > 0) /\ ~(Nowhere > 0) /\ Root \in Int /\ Nowhere \in Int
        BY DEF Root, Nowhere
      <4> QED BY <3>2, <4>1
    <3> QED BY <3>1, <3>2
  <2>4. Renamed(path, x) = [x EXCEPT !.parent = a, !.target = b]
    <3>1. Renamed(path, x) = [x EXCEPT !.parent = IF x.parent = Root THEN Root ELSE Place(path, x.parent),
                                 !.target = IF x.target \in path \cup {Root, Nowhere}
                                            THEN (IF x.target > 0 THEN Place(path, x.target) ELSE x.target) ELSE Nowhere]
      BY DEF Renamed
    <3> QED BY <2>2, <2>3, <3>1
  <2>5. PICK y : y = Renamed(path, x) /\ y = [x EXCEPT !.parent = a, !.target = b]
    BY <2>4
  <2>6. Renumbered(y, x, path, pl)
    BY <2>1, <2>2, <2>3, <2>5, RenumberedIs
  <2> QED BY <2>1, <2>5, <2>6
<1>10. /\ u.ents = ents /\ u.base = Len(ents) /\ u.leaf = Len(ents) /\ u.read = NoRead
  BY <1>3 DEF NewSession
<1>11. Len(ents) = N /\ (\E S : ents \in Seq(S)) /\ \A k \in 1..N : ents[k] = Renamed(path, m[AtPlace(path, k)])
  <2>1. ents = [k \in 1..N |-> Renamed(path, m[AtPlace(path, k)])]
    BY <1>3, <1>6 DEF Opening
  <2>2. PICK S : S = {Renamed(path, m[AtPlace(path, k)]) : k \in 1..N}
    OBVIOUS
  <2>3. ents \in [1..N -> S]
    BY <2>1, <2>2
  <2>4. Len(ents) = N /\ ents \in Seq(S)
    BY <1>6, <2>3
  <2>5. \A k \in 1..N : ents[k] = Renamed(path, m[AtPlace(path, k)])
    BY <2>1
  <2> QED BY <2>4, <2>5
<1>12. \A i \in path : ents[pl[i]] = Renamed(path, m[i])
  BY <1>7, <1>8, <1>11
<1> QED BY <1>1, <1>5, <1>6, <1>7, <1>9, <1>10, <1>11, <1>12 DEF ForkOf


\* The paths of a session whose entries hang one from the other.
LEMMA LinePaths ==
  ASSUME NEW l, Entries(l), \A k \in 1..Len(l) : l[k].parent = k - 1
  PROVE  \A k \in 0..Len(l) : Ancestry(l)[k] = 1..k
<1>1. PICK n, anc : n \in Nat /\ n = Len(l) /\ anc = Ancestry(l) /\ anc[0] = {}
                    /\ \A k \in 1..n : anc[k] = anc[k-1] \cup {k}
  BY Length, AncestryStep
<1>2. PICK T : T = {k \in 0..n : anc[k] = 1..k}
  OBVIOUS
<1>3. ASSUME NEW k \in 0..n, \A j \in 0..k-1 : j \in T PROVE k \in T
  <2>1. CASE k = 0
    BY <1>1, <1>2, <2>1
  <2>2. CASE k /= 0
    <3>1. k - 1 \in T /\ k \in 1..n
      BY <1>1, <1>3, <2>2
    <3>2. 1..k = (1..k-1) \cup {k}
      BY <3>1
    <3> QED BY <1>1, <1>2, <3>1, <3>2
  <2> QED BY <2>1, <2>2
<1>4. 0..n \subseteq T
  BY <1>1, <1>3, Reaching
<1> QED BY <1>1, <1>2, <1>4

ForkedAs(t, path, pl, u) ==
  /\ SessionOK(u) /\ u.base = Len(u.ents) /\ ForkOf(t, path, pl, u.ents)
  /\ \A k \in 1..Len(u.ents) : PathTo(u, k) = 1..k

LEMMA ForkOK ==
  ASSUME NEW t, SessionOK(t), NEW id \in 1..Len(t.ents), NEW promise \in BOOLEAN, NEW path, path = PathTo(t, id),
         NEW pl, pl = PlaceOf(path, Len(t.ents)), NEW u, u = Headed(promise, Fork(t, id))
  PROVE  ForkedAs(t, path, pl, u)
<1>1. PICK n, m : n \in Nat /\ m = t.ents /\ n = Len(m) /\ Entries(m) /\ id \in 1..n
  BY Length DEF SessionOK
<1>2. \A i \in path : m[i].parent \in path \cup {0} /\ pl[i] = pl[m[i].parent] + 1
  BY <1>1, ParentBefore DEF PathTo
<1>3. PICK l, f : f = Fork(t, id) /\ l = f.ents /\ ForkOf(t, path, pl, l) /\ f.base = Len(l) /\ f.leaf = Len(l)
  BY ForkIs
<1>4. u = [ents |-> l, base |-> Len(l), leaf |-> Len(l), read |-> f.read, promise |-> promise]
  BY <1>3 DEF Headed
<1>5. u.ents = l /\ u.base = Len(l) /\ u.leaf = Len(l) /\ u.read = f.read /\ u.promise = promise
  BY <1>4
<1>6. PICK N \in Nat : N = Len(l)
  BY <1>3 DEF ForkOf
<1>7. ASSUME NEW k \in 1..N PROVE IsEntry(l[k]) /\ l[k].parent = k - 1
  <2>1. PICK i \in path : pl[i] = k
    BY <1>3, <1>6 DEF ForkOf
  <2>2. Renumbered(l[k], m[i], path, pl)
    BY <1>1, <1>3, <2>1 DEF ForkOf
  <2>3. l[k].parent = pl[m[i].parent] /\ IsEntry(l[k])
    BY <2>2 DEF Renumbered
  <2>4. pl[m[i].parent] \in Int
    <3>1. m[i].parent = 0 \/ pl[m[i].parent] \in 1..N
      BY <1>2, <1>3, <1>6 DEF ForkOf
    <3>2. path \in SUBSET (1..n) /\ pl = PlaceOf(path, n)
      BY <1>1, ParentBefore DEF PathTo
    <3>3. pl[0] = 0
      BY <1>1, <3>2, PlaceSteps DEF Counts
    <3> QED BY <3>1, <3>3
  <2> QED BY <1>2, <2>1, <2>3, <2>4
<1>8. Entries(l)
  <2>1. \A k \in 1..N : IsEntry(l[k]) /\ l[k].parent \in 0..k-1
    BY <1>7
  <2>2. \E S : l \in Seq(S)
    BY <1>3 DEF ForkOf
  <2> QED BY <1>6, <2>1, <2>2 DEF Entries
<1>9. SessionOK(u)
  BY <1>4, <1>5, <1>6, <1>8 DEF SessionOK
<1>10. \A k \in 1..N : PathTo(u, k) = 1..k
  <2>1. \A k \in 0..N : Ancestry(l)[k] = 1..k
    BY <1>6, <1>7, <1>8, LinePaths
  <2> QED BY <1>5, <2>1 DEF PathTo
<1> QED BY <1>3, <1>5, <1>6, <1>9, <1>10 DEF ForkedAs

\* The path to an entry of a fork says of calls what its path said where it was forked.
ForkReads(l, k, m, path, i, q, pl) ==
  /\ Copies(l, 1..k, m, q, pl) /\ Places(l, 1..k, m, q, pl)
  /\ i \in 1..Len(m) /\ q \subseteq path
  /\ \A x \in 1..k : \E j \in q : pl[j] = x

LEMMA ForkCopies ==
  ASSUME NEW t, SessionOK(t), NEW id \in 1..Len(t.ents), NEW path, path = PathTo(t, id),
         NEW pl, pl = PlaceOf(path, Len(t.ents)), NEW l, ForkOf(t, path, pl, l), NEW i \in path, NEW q, q = PathTo(t, i)
  PROVE  ForkReads(l, pl[i], t.ents, path, i, q, pl)
<1>1. PICK n, m : n \in Nat /\ m = t.ents /\ n = Len(m) /\ Entries(m) /\ id \in 1..n /\ pl = PlaceOf(path, n)
  BY Length DEF SessionOK
<1>2. path \in SUBSET (1..n) /\ q = {j \in path : j <= i}
  BY <1>1, ParentBefore DEF PathTo
<1>3. /\ pl \in [0..n -> Nat] /\ pl[0] = 0 
      /\ \A j \in 1..n : IF j \in path THEN pl[j] = pl[j-1] + 1 ELSE pl[j] = pl[j-1]
  <2>1. Counts(pl, path, n)
    BY <1>1, <1>2, PlaceSteps
  <2> QED BY <2>1 DEF Counts
<1>4. InOrder(pl, path, n)
  BY <1>1, <1>2, PlacesAreInOrder
<1>5. PICK N, k : N \in Nat /\ N = Len(l) /\ N = pl[n] /\ k = pl[i] /\ k \in 1..N
  BY <1>1 DEF ForkOf
<1>6. \A j \in path : j \in 1..n /\ pl[j] \in 1..N
  BY <1>2, <1>5 DEF ForkOf
<1>7. \A j \in path : (j <= i => pl[j] <= k) /\ (i < j => k < pl[j])
  <2> SUFFICES ASSUME NEW j \in path PROVE (j <= i => pl[j] <= k) /\ (i < j => k < pl[j])
    OBVIOUS
  <2>1. i \in 1..n /\ j \in 1..n
    BY <1>6
  <2>2. j <= i => pl[j] <= k
    <3>1. j <= i => j \in 0..i /\ i \in 0..n
      BY <1>1, <2>1
    <3> QED BY <1>4, <1>5, <3>1 DEF InOrder
  <2>3. i < j => k < pl[j]
    <3>1. i < j => i \in 0..j-1
      BY <1>1, <2>1
    <3> QED BY <1>4, <1>5, <3>1 DEF InOrder
  <2> QED BY <2>2, <2>3
<1>8. \A j \in q : j \in path /\ j <= i /\ pl[j] \in 1..k
  BY <1>2, <1>5, <1>6, <1>7
<1>9. \A j \in 1..k : \E h \in q : pl[h] = j
  <2> SUFFICES ASSUME NEW j \in 1..k PROVE \E h \in q : pl[h] = j
    OBVIOUS
  <2>1. PICK h \in path : pl[h] = j
    BY <1>5, <1>6 DEF ForkOf
  <2>2. h \in Int /\ i \in Int
    BY <1>6
  <2>3. ~(i < h)
    BY <1>5, <1>7, <2>1
  <2> QED BY <1>2, <2>1, <2>2, <2>3
<1>10. Places(l, 1..k, m, q, pl)
  <2>1. pl \in [0..n -> 0..N]
    <3>1. \A j \in 0..n : pl[j] \in 0..N
      <4> SUFFICES ASSUME NEW j \in 0..n PROVE pl[j] \in 0..N
        OBVIOUS
      <4>1. n \in 0..n /\ j \in 0..n
        BY <1>1
      <4> QED BY <1>3, <1>4, <1>5, <4>1 DEF InOrder
    <3> QED BY <1>3, <3>1
  <2>2. ASSUME NEW j \in 1..n PROVE IF j \in q THEN pl[j] = pl[j-1] + 1
                                    ELSE pl[j] = pl[j-1] \/ (pl[j] = pl[j-1] + 1 /\ pl[j] \notin 1..k)
    <3>1. CASE j \in q
      BY <1>3, <1>8, <3>1
    <3>2. CASE j \in path /\ j \notin q
      <4>1. j \in Int /\ i \in Int
        BY <1>6
      <4>2. i < j
        BY <1>2, <3>2, <4>1
      <4>3. k < pl[j] /\ pl[j] \in 1..N
        BY <1>6, <1>7, <3>2, <4>2
      <4>4. pl[j] \notin 1..k
        BY <1>5, <4>3
      <4> QED BY <1>3, <3>2, <4>4
    <3>3. CASE j \notin path
      BY <1>3, <1>8, <3>3
    <3> QED BY <3>1, <3>2, <3>3
  <2> QED BY <1>1, <1>5, <2>1, <2>2 DEF Places
<1>11. \A j \in path : Renumbered(l[pl[j]], m[j], path, pl) /\ IsEntry(m[j])
  <2>1. \A j \in path : IsEntry(m[j])
    BY <1>1, <1>6 DEF Entries
  <2> QED BY <1>1, <2>1 DEF ForkOf
<1>12. ASSUME NEW j \in path PROVE
         /\ l[pl[j]].type = m[j].type
         /\ m[j].type = "decision" => /\ l[pl[j]].verdict = m[j].verdict
                                      /\ l[pl[j]].withdrawn = m[j].withdrawn
                                      /\ l[pl[j]].args = m[j].args
         /\ m[j].type \in {"output", "result"} => l[pl[j]].item = m[j].item
         /\ m[j].type \in {"output", "call"} => l[pl[j]].cid = m[j].cid
  <2>1. PICK x, y : x = m[j] /\ y = l[pl[j]] /\ Renumbered(y, x, path, pl)
    BY <1>11
  <2>2. y.type = x.type /\ \A f \in Fields(x.type) : f \notin {"parent", "target"} => y[f] = x[f]
    BY <2>1 DEF Renumbered
  <2>3. x.type = "decision" => y.verdict = x.verdict /\ y.withdrawn = x.withdrawn /\ y.args = x.args
    BY <2>2 DEF Fields
  <2>4. x.type \in {"output", "result"} => y.item = x.item
    BY <2>2 DEF Fields
  <2>5. x.type \in {"output", "call"} => y.cid = x.cid
    BY <2>2 DEF Fields
  <2> QED BY <2>1, <2>2, <2>3, <2>4, <2>5
<1>13. ASSUME NEW j \in q, NEW call \in CallsOn(m, q) PROVE Binds(l, l[pl[j]], pl[call]) <=> Binds(m, m[j], call)
  <2>1. PICK x, y : x = m[j] /\ y = l[pl[j]] /\ y.type = x.type
    BY <1>8, <1>12
  <2>2. call \in q /\ call \in path /\ m[call].type = "call" /\ call \in 1..n /\ pl[call] \in 1..N
    BY <1>6, <1>8 DEF CallsOn
  <2>3. CASE x.type = "output"
    <3>1. y.cid = x.cid /\ l[pl[call]].cid = m[call].cid
      BY <1>8, <1>12, <2>1, <2>2, <2>3
    <3> QED BY <2>1, <2>3, <3>1 DEF Binds
  <2>4. y.target = pl[call] <=> x.target = call
    <3>1. y.target = IF x.target \in path THEN pl[x.target]
                     ELSE IF x.target \in {Root, Nowhere} THEN x.target ELSE Nowhere
      BY <1>8, <1>11, <2>1 DEF Renumbered
    <3>2. CASE x.target \in path
      <4>1. PICK g : g = x.target /\ g \in path /\ g \in 1..n /\ pl[g] \in 1..N
        BY <1>6, <3>2
      <4>2. g < call => pl[g] < pl[call]
        <5>1. g < call => g \in 0..call-1
          BY <1>1, <2>2, <4>1
        <5> QED BY <1>4, <2>2, <5>1 DEF InOrder
      <4>3. call < g => pl[call] < pl[g]
        <5>1. call < g => call \in 0..g-1
          BY <1>1, <2>2, <4>1
        <5> QED BY <1>4, <4>1, <5>1 DEF InOrder
      <4> QED BY <2>2, <3>1, <3>2, <4>1, <4>2, <4>3
    <3>3. CASE x.target \notin path
      <4>1. y.target \in {Root, Nowhere}
        BY <3>1, <3>3
      <4>2. y.target /= pl[call]
        BY <1>5, <2>2, <4>1 DEF Root, Nowhere
      <4> QED BY <2>2, <3>3, <4>2
    <3> QED BY <3>2, <3>3
  <2> QED BY <2>1, <2>3, <2>4 DEF Binds
<1>14. Copies(l, 1..k, m, q, pl)
  <2>1. 1..k \in SUBSET (1..Len(l)) /\ q \in SUBSET (1..Len(m)) /\ Len(l) \in Nat /\ Len(m) \in Nat
    BY <1>1, <1>5, <1>6, <1>8
  <2>2. \A j \in q : /\ pl[j] \in 1..k
                     /\ l[pl[j]].type = m[j].type
                     /\ m[j].type = "decision" => /\ l[pl[j]].verdict = m[j].verdict
                                                  /\ l[pl[j]].withdrawn = m[j].withdrawn
                                                  /\ l[pl[j]].args = m[j].args
                     /\ m[j].type \in {"output", "result"} => l[pl[j]].item = m[j].item
    BY <1>8, <1>12
  <2> QED BY <1>3, <1>13, <2>1, <2>2 DEF Copies
<1> QED BY <1>1, <1>2, <1>5, <1>6, <1>9, <1>10, <1>14 DEF ForkReads

\* What a fork opens with verifies when its origin did.
LEMMA ForkVerifies ==
  ASSUME NEW t, SessionOK(t), Verifies(t), NEW id \in 1..Len(t.ents), NEW promise \in BOOLEAN,
         NEW u, u = Headed(promise, Fork(t, id))
  PROVE  SessionOK(u) /\ Verifies(u) /\ Owed(u)
<1>1. PICK path, pl : path = PathTo(t, id) /\ pl = PlaceOf(path, Len(t.ents))
  OBVIOUS
<1>2. PICK l, m : /\ l = u.ents /\ m = t.ents /\ SessionOK(u) /\ u.base = Len(l) /\ ForkOf(t, path, pl, l)
                  /\ Entries(l) /\ Entries(m) /\ Len(l) \in Nat /\ Len(m) \in Nat
                  /\ \A k \in 1..Len(l) : PathTo(u, k) = 1..k
  <2>1. ForkedAs(t, path, pl, u)
    BY <1>1, ForkOK
  <2>2. Entries(u.ents) /\ Entries(t.ents)
    BY <2>1 DEF ForkedAs, SessionOK
  <2> QED BY <2>1, <2>2, Length DEF ForkedAs
<1>3. ASSUME NEW k \in 1..Len(l), NEW call \in CallsOn(l, 1..k), ~l[call].copied PROVE VerifiesAt(u, 1..k, call)
  <2>1. PICK i \in path : pl[i] = k
    BY <1>2 DEF ForkOf
  <2>2. PICK q : q = PathTo(t, i) /\ Copies(l, 1..k, m, q, pl) /\ Places(l, 1..k, m, q, pl)
                 /\ i \in 1..Len(m) /\ q \subseteq path /\ \A x \in 1..k : \E j \in q : pl[j] = x
    <3>1. PICK q : q = PathTo(t, i)
      OBVIOUS
    <3>2. ForkReads(l, k, m, path, i, q, pl)
      BY <1>1, <1>2, <2>1, <3>1, ForkCopies
    <3> QED BY <3>1, <3>2 DEF ForkReads
  <2>3. call \in 1..k /\ l[call].type = "call" /\ call \in 1..Len(l)
    BY <1>2 DEF CallsOn
  <2>4. PICK c : c \in q /\ pl[c] = call
    BY <2>2, <2>3
  <2>5. Renumbered(l[call], m[c], path, pl)
    BY <1>2, <2>2, <2>4 DEF ForkOf
  <2>6. m[c].type = "call" /\ l[call].copied = m[c].copied
    BY <2>3, <2>5 DEF Renumbered, Fields
  <2>7. c \in CallsOn(m, q)
    BY <2>4, <2>6 DEF CallsOn
  <2>8. VerifiesAt(t, q, c)
    BY <1>2, <1>3, <2>2, <2>6, <2>7 DEF Verifies
  <2>9. CallOn(m, q, c).faults = {}
    BY <1>2, <2>8 DEF VerifiesAt
  <2>10. Like(CallOn(l, 1..k, call), CallOn(m, q, c), pl)
    <3>1. Like(CallUpTo(l, 1..k, pl[c])[pl[Len(m)]], CallOn(m, q, c), pl)
      BY <1>2, <2>2, <2>7, LikeFold
    <3>2. pl[Len(m)] = Len(l)
      BY <1>2 DEF ForkOf
    <3> QED BY <2>4, <3>1, <3>2 DEF CallOn
  <2>11. CallOn(l, 1..k, call).faults = {}
    BY <2>9, <2>10 DEF Like
  <2>12. ~(call > u.base)
    BY <1>2, <2>3
  <2> QED BY <1>2, <2>11, <2>12 DEF VerifiesAt
<1>4. ASSUME NEW k \in 1..Len(l), NEW call \in CallsOn(l, 1..k) PROVE ~RecordMissing(u, 1..k, call)
  <2>1. PICK n \in Nat : n = Len(l) /\ 1..k \in SUBSET (1..n) /\ call \in 1..k /\ call \in 1..n
    BY <1>2 DEF CallsOn
  <2>2. Folds(l, 1..k, call, CallUpTo(l, 1..k, call), n)
    BY <1>2, <2>1, CallFold
  <2>3. n \in call..n
    BY <2>1
  <2>4. CallOn(l, 1..k, call) \in Reading(l, 1..k)
    BY <2>1, <2>2, <2>3 DEF Folds, CallOn
  <2>5. CallOn(l, 1..k, call).output \in (1..k) \cup {0}
    BY <2>4, ReadingIs
  <2>6. ~(CallOn(l, 1..k, call).output > u.base)
    BY <1>2, <2>1, <2>5
  <2> QED BY <1>2, <2>6 DEF RecordMissing
<1> QED BY <1>2, <1>3, <1>4 DEF Verifies, Owed


-----------------------------------------------------------------------------
(* Every session the harness writes verifies.                              *)

\* The hand-offs in progress are of dispatches of the session.
HandOffs(t, h) == \A d \in h : d \in 1..Len(t.ents) /\ t.ents[d].type = "dispatch"

RecordInv ==
  /\ SessionOK(s) /\ Verifies(s) /\ HandOffs(s, hand) /\ HandOffs(s, running)
  /\ "unrecorded" \notin agenda => Owed(s)

\* The entries the harness writes.
LEMMA EntriesWritten ==
  ASSUME NEW p \in Int, NEW t \in Int, NEW a, NEW b, NEW c, NEW d
  PROVE  /\ IsEntry([type |-> "call", parent |-> p, target |-> t, cid |-> a, copied |-> b, rid |-> c])
         /\ IsEntry([type |-> "output", parent |-> p, target |-> t, cid |-> a, item |-> b, copied |-> c])
         /\ IsEntry([type |-> "dispatch", parent |-> p, target |-> t, cid |-> a])
         /\ IsEntry([type |-> "result", parent |-> p, target |-> t, cid |-> a, item |-> b])
         /\ IsEntry([type |-> "decision", parent |-> p, target |-> t, cid |-> a, verdict |-> b,
                     withdrawn |-> c, args |-> d])
         /\ IsEntry([type |-> "response", parent |-> p, target |-> t, rid |-> a, status |-> b])
         /\ IsEntry([type |-> "start", parent |-> p, target |-> t, run |-> a, source |-> b])
         /\ IsEntry([type |-> "end", parent |-> p, target |-> t, run |-> a, reason |-> b, pending |-> c])
         /\ IsEntry([type |-> "queued", parent |-> p, target |-> t])
         /\ IsEntry([type |-> "message", parent |-> p, target |-> t])
<1> USE DEF IsEntry, Types, Fields
<1>1. IsEntry([type |-> "call", parent |-> p, target |-> t, cid |-> a, copied |-> b, rid |-> c])
  OBVIOUS
<1>2. IsEntry([type |-> "output", parent |-> p, target |-> t, cid |-> a, item |-> b, copied |-> c])
  OBVIOUS
<1>3. IsEntry([type |-> "dispatch", parent |-> p, target |-> t, cid |-> a])
  OBVIOUS
<1>4. IsEntry([type |-> "result", parent |-> p, target |-> t, cid |-> a, item |-> b])
  OBVIOUS
<1>5. IsEntry([type |-> "decision", parent |-> p, target |-> t, cid |-> a, verdict |-> b,
               withdrawn |-> c, args |-> d])
  OBVIOUS
<1>6. IsEntry([type |-> "response", parent |-> p, target |-> t, rid |-> a, status |-> b])
  OBVIOUS
<1>7. IsEntry([type |-> "start", parent |-> p, target |-> t, run |-> a, source |-> b])
  OBVIOUS
<1>8. IsEntry([type |-> "end", parent |-> p, target |-> t, run |-> a, reason |-> b, pending |-> c])
  OBVIOUS
<1>9. IsEntry([type |-> "queued", parent |-> p, target |-> t])
  OBVIOUS
<1>10. IsEntry([type |-> "message", parent |-> p, target |-> t])
  OBVIOUS
<1> HIDE DEF IsEntry, Types, Fields
<1> QED BY <1>1, <1>2, <1>3, <1>4, <1>5, <1>6, <1>7, <1>8, <1>9, <1>10

\* What the harness promises of an output it writes.
OutputKept(e) == e.type = "output" /\ s.promise => "unrecorded" \in agenda \/ Recorded(e.cid)

\* An append keeps the session one that verifies, and the entries it held.
Appended(e) ==
  /\ ("unrecorded" \notin agenda => Owed(s')) /\ agenda' = agenda
  /\ SessionOK(s') /\ Verifies(s') /\ Len(s'.ents) = Len(s.ents) + 1 /\ s'.ents[Len(s'.ents)] = e
  /\ \A h : HandOffs(s, h) => HandOffs(s', h)

LEMMA AppendKeeps ==
  ASSUME RecordInv, NEW e, IsEntry(e), e.parent = s.leaf, OutputKept(e), Append1(e)
  PROVE  Appended(e)
<1>1. SessionOK(s) /\ Verifies(s) /\ CheckCallRules(s, e) /\ s' = Commit(s, e)
  BY DEF RecordInv, Append1
<1>2. Verifies(s')
  BY <1>1, AppendVerifies
<1>3. /\ SessionOK(s') /\ Grows(s.ents, s'.ents) /\ Len(s'.ents) = Len(s.ents) + 1
      /\ s'.ents[Len(s'.ents)] = e
  BY <1>1, Committed
<1>4. Len(s.ents) \in Nat
  BY <1>1, Length DEF SessionOK
<1>5. \A h : HandOffs(s, h) => HandOffs(s', h)
  BY <1>3, <1>4 DEF HandOffs, Grows
<1>6. ASSUME "unrecorded" \notin agenda PROVE Owed(s')
  <2>1. Owed(s)
    BY <1>6 DEF RecordInv
  <2>2. KeepsPromise(s, e)
    BY <1>6 DEF KeepsPromise, OutputKept, Recorded, Accounted, Path
  <2> QED BY <1>1, <2>1, <2>2, AppendOwes
<1>7. agenda' = agenda
  BY DEF Append1
<1> QED BY <1>2, <1>3, <1>5, <1>6, <1>7 DEF Appended

\* What a session says of its calls is what its entries, its base and its promise say.
LEMMA VerifiesSame ==
  ASSUME NEW t, NEW u, u.ents = t.ents, u.base = t.base, u.promise = t.promise
  PROVE  (Verifies(t) => Verifies(u)) /\ (Owed(t) => Owed(u))
<1>1. Verifies(t) => Verifies(u)
  BY DEF Verifies, VerifiesAt, PathTo
<1>2. Owed(t) => Owed(u)
  BY DEF Owed, RecordMissing, PathTo
<1> QED BY <1>1, <1>2

LEMMA RecordInit == Init => RecordInv
<1> SUFFICES ASSUME Init PROVE RecordInv
  OBVIOUS
<1>1. PICK p \in BOOLEAN : s = Headed(p, NewSession)
  BY DEF Init
<1>2. s = [ents |-> <<>>, base |-> 0, leaf |-> 0, read |-> NoRead, promise |-> p]
  BY <1>1 DEF Headed, NewSession, Root
<1>3. s.ents = <<>> /\ s.base = 0 /\ s.leaf = 0 /\ s.promise = p /\ s.read = NoRead
  BY <1>2
<1>4. Entries(s.ents)
  <2>1. <<>> \in Seq({}) /\ Len(<<>>) = 0
    OBVIOUS
  <2> QED BY <1>3, <2>1 DEF Entries
<1>5. SessionOK(s)
  BY <1>2, <1>3, <1>4 DEF SessionOK
<1>6. Verifies(s)
  BY <1>3 DEF Verifies
<1>7. Owed(s)
  BY <1>3 DEF Owed
<1> QED BY <1>5, <1>6, <1>7 DEF RecordInv, HandOffs, Init

LEMMA RecordNext == RecordInv /\ [Next]_vars => RecordInv'
<1> SUFFICES ASSUME RecordInv, [Next]_vars PROVE RecordInv'
  OBVIOUS
<1>0. /\ SessionOK(s) /\ Verifies(s) /\ HandOffs(s, hand) /\ HandOffs(s, running)
      /\ ("unrecorded" \notin agenda => Owed(s))
      /\ s.leaf \in Int /\ Nowhere \in Int /\ Entries(s.ents)
      /\ \A i \in 1..Len(s.ents) : i \in Int /\ s.ents[i].target \in Int
  <2>1. SessionOK(s) /\ Verifies(s) /\ HandOffs(s, hand) /\ HandOffs(s, running) /\ Entries(s.ents)
    BY DEF RecordInv, SessionOK
  <2>2. Len(s.ents) \in Nat
    BY <2>1, Length
  <2>3. \A i \in 1..Len(s.ents) : i \in Int /\ s.ents[i].target \in Int
    <3>1. \A i \in 1..Len(s.ents) : IsEntry(s.ents[i])
      BY <2>1 DEF Entries
    <3>2. \A e : IsEntry(e) => e.target \in Int
      BY DEF IsEntry
    <3> QED BY <2>2, <3>1, <3>2
  <2>4. s.leaf \in Int
    BY <2>1, <2>2 DEF SessionOK
  <2> QED BY <2>1, <2>3, <2>4 DEF Nowhere, RecordInv
<1>1. \A id \in 0..Len(s.ents) : PathTo(s, id) \subseteq 1..Len(s.ents)
  <2>1. Len(s.ents) \in Nat
    BY <1>0, Length
  <2> QED BY <1>0, <2>1, AncestrySpan DEF PathTo
<1>2. \A call \in CallsOn(s.ents, Path) : call \in 1..Len(s.ents) /\ call \in Int
  <2>1. s.leaf \in 0..Len(s.ents)
    BY <1>0 DEF SessionOK
  <2> QED BY <1>0, <1>1, <2>1 DEF CallsOn, Path
<1>3. ASSUME NEW e, Appended(e), UNCHANGED <<hand, running>> PROVE RecordInv'
  BY <1>0, <1>3 DEF Appended, RecordInv
<1>4. CASE MakeCall
  <2>1. PICK e : IsEntry(e) /\ e.parent = s.leaf /\ OutputKept(e) /\ Append1(e)
    BY <1>0, <1>4, EntriesWritten DEF MakeCall, OutputKept
  <2> QED BY <1>3, <1>4, <2>1, AppendKeeps DEF MakeCall
<1>5. CASE Respond
  <2>1. PICK e : IsEntry(e) /\ e.parent = s.leaf /\ OutputKept(e) /\ Append1(e)
    BY <1>0, <1>5, EntriesWritten DEF Respond, OutputKept
  <2> QED BY <1>3, <1>5, <2>1, AppendKeeps DEF Respond
<1>6. CASE Decide
  <2>1. PICK e : IsEntry(e) /\ e.parent = s.leaf /\ OutputKept(e) /\ Append1(e)
    BY <1>0, <1>2, <1>6, EntriesWritten DEF Decide, OutputKept
  <2> QED BY <1>3, <1>6, <2>1, AppendKeeps DEF Decide
<1>7. CASE Output
  <2>1. PICK e : IsEntry(e) /\ e.parent = s.leaf /\ OutputKept(e) /\ Append1(e)
    <3>1. PICK call \in CallsOn(s.ents, Path), item \in Items, copied \in Copied :
            /\ s.promise => "unrecorded" \in agenda \/ Recorded(s.ents[call].cid)
            /\ Append1([type |-> "output", parent |-> s.leaf, target |-> Nowhere, cid |-> s.ents[call].cid,
                        item |-> item, copied |-> copied])
      BY <1>7 DEF Output
    <3>2. PICK e : e = [type |-> "output", parent |-> s.leaf, target |-> Nowhere, cid |-> s.ents[call].cid,
                        item |-> item, copied |-> copied]
      OBVIOUS
    <3>3. IsEntry(e)
      BY <1>0, <3>2, EntriesWritten
    <3>4. e.cid = s.ents[call].cid /\ e.parent = s.leaf
      BY <3>2
    <3> QED BY <3>1, <3>2, <3>3, <3>4 DEF OutputKept
  <2> QED BY <1>3, <1>7, <2>1, AppendKeeps DEF Output
<1>8. CASE StartRun
  <2>1. PICK e : IsEntry(e) /\ e.parent = s.leaf /\ OutputKept(e) /\ Append1(e)
    BY <1>0, <1>8, EntriesWritten DEF StartRun, OutputKept
  <2> QED BY <1>3, <1>8, <2>1, AppendKeeps DEF StartRun
<1>9. CASE EndRun
  <2>1. PICK e : IsEntry(e) /\ e.parent = s.leaf /\ OutputKept(e) /\ Append1(e)
    BY <1>0, <1>9, EntriesWritten DEF EndRun, OutputKept
  <2> QED BY <1>3, <1>9, <2>1, AppendKeeps DEF EndRun
<1>10. CASE Queue
  <2>1. PICK e : IsEntry(e) /\ e.parent = s.leaf /\ OutputKept(e) /\ Append1(e)
    BY <1>0, <1>10, EntriesWritten DEF Queue, OutputKept
  <2> QED BY <1>3, <1>10, <2>1, AppendKeeps DEF Queue
<1>11. CASE Drain
  <2>1. PICK e : IsEntry(e) /\ e.parent = s.leaf /\ OutputKept(e) /\ Append1(e)
    <3>1. PICK q \in Queued(s.ents, Path) \cup {Nowhere} :
            Append1([type |-> "message", parent |-> s.leaf, target |-> q])
      BY <1>11 DEF Drain
    <3>2. q \in Int
      <4>1. s.leaf \in 0..Len(s.ents)
        BY <1>0 DEF SessionOK
      <4>2. q \in Queued(s.ents, Path) => q \in 1..Len(s.ents)
        BY <1>1, <4>1 DEF Queued, Path
      <4> QED BY <1>0, <3>1, <4>2
    <3> QED BY <1>0, <3>1, <3>2, EntriesWritten DEF OutputKept
  <2> QED BY <1>3, <1>11, <2>1, AppendKeeps DEF Drain
<1>12. CASE Withdraw
  <2>1. PICK d, e : /\ d \in hand /\ Append1(e) /\ hand' = hand \ {d} /\ running' = running
                    /\ IsEntry(e) /\ e.parent = s.leaf /\ OutputKept(e)
    <3>1. PICK d \in hand :
            /\ Append1([type |-> "decision", parent |-> s.leaf, target |-> s.ents[d].target,
                        cid |-> s.ents[d].cid, verdict |-> "reject", withdrawn |-> TRUE, args |-> NoArgs])
            /\ hand' = hand \ {d} /\ running' = running
      BY <1>12 DEF Withdraw
    <3>2. s.ents[d].target \in Int
      BY <1>0 DEF HandOffs
    <3>3. PICK e : /\ e = [type |-> "decision", parent |-> s.leaf, target |-> s.ents[d].target,
                           cid |-> s.ents[d].cid, verdict |-> "reject", withdrawn |-> TRUE, args |-> NoArgs]
                   /\ IsEntry(e)
      BY <1>0, <3>2, EntriesWritten
    <3> QED BY <3>1, <3>3 DEF OutputKept
  <2>2. Appended(e)
    BY <2>1, AppendKeeps
  <2> QED BY <1>0, <2>1, <2>2 DEF Appended, RecordInv, HandOffs
<1>13. CASE Dispatch
  <2>1. PICK e : /\ Append1(e) /\ hand' = hand \cup {Len(s'.ents)} /\ running' = running
                 /\ IsEntry(e) /\ e.parent = s.leaf /\ OutputKept(e) /\ e.type = "dispatch"
    <3>1. PICK call \in CallsOn(s.ents, Path) :
            Append1([type |-> "dispatch", parent |-> s.leaf, target |-> call, cid |-> s.ents[call].cid])
      BY <1>13 DEF Dispatch
    <3>2. PICK e : /\ e = [type |-> "dispatch", parent |-> s.leaf, target |-> call, cid |-> s.ents[call].cid]
                   /\ IsEntry(e)
      BY <1>0, <1>2, EntriesWritten
    <3> QED BY <1>13, <3>1, <3>2 DEF Dispatch, OutputKept
  <2>2. Appended(e)
    BY <2>1, AppendKeeps
  <2>3. HandOffs(s', hand) /\ HandOffs(s', running) /\ s'.ents[Len(s'.ents)].type = "dispatch"
    BY <1>0, <2>1, <2>2 DEF Appended
  <2>4. Len(s'.ents) \in 1..Len(s'.ents)
    BY <1>0, <2>2, Length DEF Appended
  <2>5. HandOffs(s', hand') /\ HandOffs(s', running')
    BY <2>1, <2>3, <2>4 DEF HandOffs
  <2> QED BY <2>2, <2>5 DEF Appended, RecordInv, HandOffs
<1>14. CASE Return
  <2>1. PICK h, e : /\ h \in running /\ Append1(e) /\ running' = running \ {h} /\ hand' = hand
                    /\ IsEntry(e) /\ e.parent = s.leaf /\ OutputKept(e)
    <3>1. PICK h \in running, item \in Items :
            /\ Append1([type |-> "result", parent |-> s.leaf, target |-> s.ents[h].target,
                        cid |-> s.ents[h].cid, item |-> item])
            /\ running' = running \ {h} /\ hand' = hand
      BY <1>14 DEF Return
    <3>2. s.ents[h].target \in Int
      BY <1>0 DEF HandOffs
    <3>3. PICK e : /\ e = [type |-> "result", parent |-> s.leaf, target |-> s.ents[h].target,
                           cid |-> s.ents[h].cid, item |-> item]
                   /\ IsEntry(e)
      BY <1>0, <3>2, EntriesWritten
    <3> QED BY <3>1, <3>3 DEF OutputKept
  <2>2. Appended(e)
    BY <2>1, AppendKeeps
  <2> QED BY <1>0, <2>1, <2>2 DEF Appended, RecordInv, HandOffs
<1>15. CASE RunTool
  BY <1>0, <1>15 DEF RunTool, RecordInv, HandOffs
<1>16. CASE Crash
  BY <1>0, <1>16 DEF Crash, RecordInv, HandOffs
<1>17. CASE UNCHANGED vars
  BY <1>0, <1>17 DEF vars, RecordInv, HandOffs
<1>18. DOMAIN s.ents = 1..Len(s.ents)
  BY <1>0 DEF Entries
<1>19. CASE Branch
  <2>1. PICK id \in 1..Len(s.ents) : s' = [s EXCEPT !.leaf = id]
    BY <1>18, <1>19 DEF Branch
  <2>2. s' = [ents |-> s.ents, base |-> s.base, leaf |-> id, read |-> s.read, promise |-> s.promise]
    BY <1>0, <2>1 DEF SessionOK
  <2>3. s'.ents = s.ents /\ s'.base = s.base /\ s'.leaf = id /\ s'.read = s.read /\ s'.promise = s.promise
    BY <2>2
  <2>4. SessionOK(s')
    <3>1. id \in 0..Len(s.ents)
      BY <1>0, Length
    <3> QED BY <1>0, <2>2, <2>3, <3>1 DEF SessionOK
  <2>5. Verifies(s') /\ (Owed(s) => Owed(s'))
    BY <1>0, <2>3, VerifiesSame
  <2>6. hand' = hand /\ running' = running /\ agenda' = agenda
    BY <1>19 DEF Branch
  <2> QED BY <1>0, <2>3, <2>4, <2>5, <2>6 DEF RecordInv, HandOffs
<1>20. CASE ForkAt
  <2>1. PICK id \in 1..Len(s.ents), p \in BOOLEAN : s' = Headed(p, Fork(s, id))
    BY <1>18, <1>20 DEF ForkAt
  <2>2. SessionOK(s') /\ Verifies(s') /\ Owed(s')
    BY <1>0, <2>1, ForkVerifies
  <2>3. hand' = {} /\ running' = {}
    BY <1>20 DEF ForkAt
  <2> QED BY <2>2, <2>3 DEF RecordInv, HandOffs
<1> QED BY <1>4, <1>5, <1>6, <1>7, <1>8, <1>9, <1>10, <1>11, <1>12, <1>13, <1>14, <1>15, <1>16, <1>17, <1>19, <1>20 DEF Next

LEMMA RecordTells == RecordInv => CallsInv
<1> SUFFICES ASSUME RecordInv PROVE CallsInv
  OBVIOUS
<1>1. /\ SessionOK(s) /\ Verifies(s) /\ HandOffs(s, hand) /\ HandOffs(s, running) /\ Entries(s.ents)
      /\ "unrecorded" \notin agenda => Owed(s)
  BY DEF RecordInv, SessionOK
<1>2. DOMAIN s.ents = 1..Len(s.ents)
  BY <1>1 DEF Entries
<1>3. \A i \in 1..Len(s.ents) : s.ents[i].type \in Types /\ s.ents[i].parent \in 0..i-1
  BY <1>1 DEF Entries, IsEntry
<1>4. TypeOK
  BY <1>1, <1>2, <1>3 DEF TypeOK, SessionOK, HandOffs
<1>5. CallsVerify
  <2>1. ASSUME NEW leaf \in 1..Len(s.ents), NEW call \in CallsOn(s.ents, PathTo(s, leaf)), ~s.ents[call].copied
        PROVE  /\ CallOn(s.ents, PathTo(s, leaf), call).faults = {}
               /\ ~AnswerNotDispatched(s, PathTo(s, leaf), call)
               /\ "unrecorded" \notin agenda => ~RecordMissing(s, PathTo(s, leaf), call)
    <3>1. VerifiesAt(s, PathTo(s, leaf), call)
      BY <1>1, <2>1 DEF Verifies
    <3>2. "unrecorded" \notin agenda => ~RecordMissing(s, PathTo(s, leaf), call)
      BY <1>1, <2>1 DEF Owed
    <3> QED BY <3>1, <3>2 DEF VerifiesAt, AnswerNotDispatched
  <2> QED BY <1>2, <2>1 DEF CallsVerify
<1> QED BY <1>4, <1>5 DEF CallsInv

\* CallsInv is true of every session the harness writes: whatever Append let
\* in, wherever the leaf stood and whatever was rewound, forked or lost in a
\* crash, no path breaks a rule VerifyRecords checks call by call, with one
\* exception.  checkCallRules lets in an output with no dispatch where the
\* header promises dispatches, which VerifyRecords reports (ErrRecordMissing):
\* that none is written is the harness's promise, and of one that keeps it
\* (no "unrecorded" in the agenda) the theorem says it of every path.
THEOREM CallsVerifyOnEveryPath == Spec => []CallsInv
<1>1. Init => RecordInv
  BY RecordInit
<1>2. RecordInv /\ [Next]_vars => RecordInv'
  BY RecordNext
<1>3. RecordInv => CallsInv
  BY RecordTells
<1> QED BY <1>1, <1>2, <1>3, PTL DEF Spec
=============================================================================
