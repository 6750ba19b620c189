---------------------------- MODULE StoreProofs -----------------------------
(***************************************************************************)
(* Proofs about the two stores that keep a session as lines, for any       *)
(* number of processes, lines and faults: that their lines are the         *)
(* session, whoever reads them, which rests on lemmas of the session's     *)
(* tree; about the session a fork continues from in them and in the memory *)
(* store, for any sessions; and about the copies a repair of a content     *)
(* store's log keeps.                                                      *)
(***************************************************************************)
EXTENDS SqliteStore, ForkOrigin, Repair, TLAPS, WellFoundedInduction

-----------------------------------------------------------------------------
(* The lock file of the JSON lines store.                                  *)

ProcShape ==
  /\ proc = [p \in Procs |-> [pc |-> proc[p].pc, sess |-> proc[p].sess]]
  /\ lock = [by |-> lock.by, written |-> lock.written]

\* Between the lock taken and let go.
Active(p) == proc[p].pc \notin {"out", "dead"}

\* The lock file is of whoever is between taking it and letting it go, before
\* its holder is written in it, while the file is placed, read or removed.
LockInv == ProcShape /\ \A p \in Procs : Active(p) => lock.by = p

LEMMA LockInit == Init => LockInv
BY DEF Init, LockInv, ProcShape, Active, Idle, NoLock

\* A lock that is free, stale or broken is nobody's.
LEMMA LockFree ==
  ASSUME LockInv, lock = NoLock \/ Stale(lock) \/ ~Alive(lock.by)
  PROVE  \A p \in Procs : ~Active(p)
BY ProcsAssumption DEF LockInv, Active, Stale, Alive, NoLock

\* One process moves, and lets the lock go.
LEMMA LockLetGo ==
  ASSUME LockInv, NEW p \in Procs, Active(p), NEW pc, NEW sess,
         proc' = [proc EXCEPT ![p] = [pc |-> pc, sess |-> sess]],
         pc \in {"out", "dead"}, lock' = NoLock
  PROVE  LockInv'
BY DEF LockInv, ProcShape, Active, NoLock

LEMMA LockTaken ==
  ASSUME LockInv, NEW p \in Procs, NEW next, TakeLock(p, next)
  PROVE  LockInv'
<1>1. \A q \in Procs : ~Active(q)
  BY LockFree DEF TakeLock
<1> QED
  BY <1>1 DEF TakeLock, LockInv, ProcShape, Active

LEMMA LockStep == LockInv /\ [Next]_vars => LockInv'
<1> SUFFICES ASSUME LockInv, [Next]_vars PROVE LockInv'
  OBVIOUS
<1> USE DEF Idle, Gone, ReleaseLock
<1>1. ASSUME NEW p \in Procs, Create(p) PROVE LockInv'
  BY <1>1, LockTaken DEF Create
<1>2. ASSUME NEW p \in Procs, Open(p) PROVE LockInv'
  BY <1>2, LockTaken DEF Open
<1>3. ASSUME NEW p \in Procs, Place(p) PROVE LockInv'
  <2>1. Active(p)
    BY <1>3 DEF Place, Active
  <2>2. CASE lock' = NoLock /\ proc' = [proc EXCEPT ![p] = Idle]
    BY <2>1, <2>2, LockLetGo
  <2>3. CASE UNCHANGED lock /\ \E n \in Bases : proc' = [proc EXCEPT ![p] = [pc |-> "open", sess |->
                  [NewSession EXCEPT !.ents = Prefix(n), !.base = n, !.leaf = n]]]
    BY <2>1, <2>3 DEF LockInv, ProcShape, Active
  <2> QED BY <1>3, <2>2, <2>3 DEF Place
<1>4. ASSUME NEW p \in Procs, WriteLock(p) PROVE LockInv'
  BY <1>4 DEF WriteLock, LockInv, ProcShape, Active
<1>5. ASSUME NEW p \in Procs, LoadHandle(p) PROVE LockInv'
  <2>1. Active(p)
    BY <1>5 DEF LoadHandle, Active
  <2>2. CASE lock' = NoLock /\ proc' = [proc EXCEPT ![p] = Idle]
    BY <2>1, <2>2, LockLetGo
  <2>3. CASE UNCHANGED lock /\ proc' = [proc EXCEPT ![p] = [pc |-> "open", sess |-> ReadSession(file.lines, base)]]
    BY <2>1, <2>3 DEF LockInv, ProcShape, Active
  <2> QED BY <1>5, <2>2, <2>3 DEF LoadHandle
<1>6. ASSUME NEW p \in Procs, Release(p) PROVE LockInv'
  BY <1>6, LockLetGo DEF Release, Active
<1>7. ASSUME NEW p \in Procs, Delete(p) PROVE LockInv'
  BY <1>7 DEF Delete, LockInv, ProcShape, Active
<1>8. ASSUME NEW p \in Procs, Removed(p) PROVE LockInv'
  BY <1>8, LockLetGo DEF Removed, Active
<1>9. ASSUME NEW p \in Procs, BreakLock(p) PROVE LockInv'
  BY <1>9, LockFree DEF BreakLock, LockInv, ProcShape, Active, NoLock
<1>10. ASSUME NEW p \in Procs, NEW e, NEW sync, AppendLocked(p, e, sync) PROVE LockInv'
  BY <1>10 DEF AppendLocked, AppendAs, CanAppend, LockInv, ProcShape, Active
<1>11. ASSUME NEW p \in Procs, Synced(p) PROVE LockInv'
  BY <1>11 DEF Synced, LockInv, ProcShape, Active
<1>12. ASSUME NEW p \in Procs, Branch(p) PROVE LockInv'
  BY <1>12 DEF Branch, CanAppend, LockInv, ProcShape, Active
<1>13. ASSUME NEW p \in Procs, Kill(p) PROVE LockInv'
  BY <1>13 DEF Kill, LockInv, ProcShape, Active
<1>14. ASSUME NEW p \in Procs, Restart(p) PROVE LockInv'
  BY <1>14 DEF Restart, LockInv, ProcShape, Active
<1>15. ASSUME NEW p \in Procs, TornAppend(p) PROVE LockInv'
  BY <1>15 DEF TornAppend, LockInv, ProcShape, Active
<1>16. CASE PowerLoss
  BY <1>16 DEF PowerLoss, LockInv, ProcShape, Active, NoLock
<1>17. CASE UNCHANGED vars
  BY <1>17 DEF vars, LockInv, ProcShape, Active
<1>18. ASSUME NEW p \in Procs, StoreAppend(p) \/ SetHead(p) PROVE LockInv'
  BY <1>18, <1>10 DEF StoreAppend, SetHead
<1> QED
  BY <1>1, <1>2, <1>3, <1>4, <1>5, <1>6, <1>7, <1>8, <1>9, <1>11, <1>12, <1>13, <1>14, <1>15,
     <1>16, <1>17, <1>18 DEF Next

\* Of the processes that run, at most one holds the session's file for append,
\* whatever was killed and taken over (lockSession, breakStale).
THEOREM OneWriterHolds == Spec => []OneWriter
<1>1. LockInv => OneWriter
  BY DEF LockInv, OneWriter, Holds, Active
<1> QED
  BY <1>1, LockInit, LockStep, PTL DEF Spec

-----------------------------------------------------------------------------
(* Sequences of anything, and sessions grown by appends.                   *)
IsSeq(s) == \E S : s \in Seq(S)

LEMMA SeqWiden ==
  ASSUME NEW S, NEW T, NEW s \in Seq(S), S \subseteq T
  PROVE  s \in Seq(T)
OBVIOUS

\* t is s and more, none of it a line no reader decodes.
GrownFrom(s, t) ==
  /\ IsSeq(t) /\ Len(t) >= Len(s)
  /\ \A i \in 1..Len(s) : t[i] = s[i]
  /\ \A i \in Len(s) + 1..Len(t) : t[i] /= Bad

LEMMA AppendGrows ==
  ASSUME NEW s, IsSeq(s), NEW e, e /= Bad
  PROVE  GrownFrom(s, Append(s, e)) /\ Len(Append(s, e)) = Len(s) + 1
<1>1. PICK S : s \in Seq(S)
  BY DEF IsSeq
<1>2. s \in Seq(S \cup {e}) /\ Append(s, e) \in Seq(S \cup {e})
  BY <1>1, SeqWiden
<1> QED
  BY <1>2 DEF GrownFrom, IsSeq

LEMMA GrowsOn ==
  ASSUME NEW r, NEW s, NEW t, IsSeq(r), IsSeq(s), GrownFrom(r, s), GrownFrom(s, t)
  PROVE  GrownFrom(r, t)
<1>1. PICK R, S, T : r \in Seq(R) /\ s \in Seq(S) /\ t \in Seq(T)
  BY DEF IsSeq, GrownFrom
<1>2. Len(r) \in Nat /\ Len(s) \in Nat /\ Len(t) \in Nat
  BY <1>1
<1> QED
  BY <1>2 DEF GrownFrom

\* What an append writes of a session that grew, and the file after it.
LEMMA JoinedSeqs ==
  ASSUME NEW S, NEW s \in Seq(S), NEW u \in Seq(S)
  PROVE  /\ s \o u \in Seq(S) /\ Len(s \o u) = Len(s) + Len(u) /\ Len(s) \in Nat /\ Len(u) \in Nat
         /\ \A i \in 1..Len(s) : (s \o u)[i] = s[i]
         /\ \A i \in Len(s) + 1..Len(s) + Len(u) : (s \o u)[i] = u[i - Len(s)]
OBVIOUS

LEMMA SameSeqs ==
  ASSUME NEW S, NEW s \in Seq(S), NEW u \in Seq(S), Len(s) = Len(u), \A i \in 1..Len(s) : s[i] = u[i]
  PROVE  s = u
OBVIOUS

LEMMA FirstOnes ==
  ASSUME NEW S, NEW u \in Seq(S), NEW k \in 0..Len(u)
  PROVE  /\ SubSeq(u, 1, k) \in Seq(S) /\ Len(SubSeq(u, 1, k)) = k
         /\ \A i \in 1..k : SubSeq(u, 1, k)[i] = u[i]
OBVIOUS

LEMMA NewLines ==
  ASSUME NEW U, NEW s \in Seq(U), NEW t \in Seq(U), GrownFrom(s, t),
         NEW new \in Seq(U), Len(new) = Len(t) - Len(s), \A i \in 1..Len(new) : new[i] = t[Len(s) + i]
  PROVE  /\ s \o SubSeq(new, 1, Len(new)) = t
         /\ \A k \in 0..Len(new) : GrownFrom(s, s \o SubSeq(new, 1, k))
<1>3. new \in Seq(U) /\ Len(new) = Len(t) - Len(s) /\ Len(new) \in Nat /\ Len(s) \in Nat
      /\ Len(t) \in Nat /\ \A i \in 1..Len(new) : new[i] = t[Len(s) + i]
  BY DEF GrownFrom
<1>4. ASSUME NEW k \in 0..Len(new), NEW w, w = s \o SubSeq(new, 1, k)
      PROVE  /\ w \in Seq(U) /\ Len(w) = Len(s) + k /\ k \in Nat
             /\ \A i \in 1..Len(s) : w[i] = s[i]
             /\ \A i \in Len(s) + 1..Len(s) + k : w[i] = t[i]
  <2>1. PICK sub \in Seq(U) : /\ sub = SubSeq(new, 1, k) /\ Len(sub) = k
                              /\ \A i \in 1..k : sub[i] = new[i]
    <3>1. /\ SubSeq(new, 1, k) \in Seq(U) /\ Len(SubSeq(new, 1, k)) = k
          /\ \A i \in 1..k : SubSeq(new, 1, k)[i] = new[i]
      BY FirstOnes, Zenon
    <3> QED BY <3>1
  <2>2. w = s \o sub
    BY <1>4, <2>1
  <2>3. \A i \in Len(s) + 1..Len(s) + k : sub[i - Len(s)] = t[i]
    <3> SUFFICES ASSUME NEW i \in Len(s) + 1..Len(s) + k PROVE sub[i - Len(s)] = t[i]
      OBVIOUS
    <3>1. i - Len(s) \in 1..k /\ i - Len(s) \in 1..Len(new) /\ Len(s) + (i - Len(s)) = i
      BY <1>3
    <3> QED BY <1>3, <2>1, <3>1
  <2> QED BY <2>1, <2>2, <2>3, JoinedSeqs
<1>5. ASSUME NEW k \in 0..Len(new) PROVE GrownFrom(s, s \o SubSeq(new, 1, k))
  <2>1. PICK w : w = s \o SubSeq(new, 1, k)
    OBVIOUS
  <2>2. /\ w \in Seq(U) /\ Len(w) = Len(s) + k /\ k \in Nat
        /\ \A i \in 1..Len(s) : w[i] = s[i]
        /\ \A i \in Len(s) + 1..Len(s) + k : w[i] = t[i]
    BY <1>4, <2>1
  <2>3. \A i \in Len(s) + 1..Len(s) + k : t[i] /= Bad
    BY <1>3, <2>2 DEF GrownFrom
  <2>4. IsSeq(w)
    BY <2>2 DEF IsSeq
  <2>5. Len(w) >= Len(s)
    BY <1>3, <2>2
  <2>6. GrownFrom(s, w)
    BY <2>2, <2>3, <2>4, <2>5 DEF GrownFrom
  <2> QED BY <2>1, <2>6
<1>6. s \o SubSeq(new, 1, Len(new)) = t
  <2>0. PICK w : w = s \o SubSeq(new, 1, Len(new))
    OBVIOUS
  <2>a. Len(new) \in 0..Len(new)
    BY <1>3
  <2>1. /\ w \in Seq(U) /\ Len(w) = Len(s) + Len(new)
        /\ \A i \in 1..Len(s) : w[i] = s[i]
        /\ \A i \in Len(s) + 1..Len(s) + Len(new) : w[i] = t[i]
    BY <1>4, <2>0, <2>a
  <2>2. Len(w) = Len(t) /\ \A i \in 1..Len(w) : w[i] = t[i]
    <3>1. Len(w) = Len(t)
      BY <1>3, <2>1
    <3>2. \A i \in 1..Len(s) : w[i] = t[i]
      BY <2>1 DEF GrownFrom
    <3>3. \A i \in 1..Len(w) : i \in 1..Len(s) \/ i \in Len(s) + 1..Len(s) + Len(new)
      BY <1>3, <2>1
    <3> QED BY <2>1, <3>1, <3>2, <3>3
  <2>3. w = t
    BY <2>1, <2>2, SameSeqs
  <2> QED BY <2>0, <2>3
<1> QED
  BY <1>3, <1>5, <1>6

LEMMA WholeWrite ==
  ASSUME NEW s, NEW t, IsSeq(s), GrownFrom(s, t), NEW new, new = SubSeq(t, Len(s) + 1, Len(t))
  PROVE  /\ IsSeq(new) /\ Len(new) = Len(t) - Len(s) /\ Len(new) \in Nat /\ Len(s) \in Nat
         /\ s \o SubSeq(new, 1, Len(new)) = t
         /\ \A k \in 0..Len(new) : GrownFrom(s, s \o SubSeq(new, 1, k))
<1>1. PICK S, T : s \in Seq(S) /\ t \in Seq(T)
  BY DEF IsSeq, GrownFrom
<1>2. PICK U : s \in Seq(U) /\ t \in Seq(U)
  <2>1. s \in Seq(S \cup T) /\ t \in Seq(S \cup T)
    BY <1>1, SeqWiden
  <2> QED BY <2>1
<1>3. new \in Seq(U) /\ Len(new) = Len(t) - Len(s) /\ Len(new) \in Nat /\ Len(s) \in Nat
      /\ \A i \in 1..Len(new) : new[i] = t[Len(s) + i]
  BY <1>2 DEF GrownFrom
<1>4. \A x \in Seq(U) : Len(x) = Len(t) - Len(s) /\ (\A i \in 1..Len(x) : x[i] = t[Len(s) + i]) =>
        /\ s \o SubSeq(x, 1, Len(x)) = t
        /\ \A k \in 0..Len(x) : GrownFrom(s, s \o SubSeq(x, 1, k))
  <2> SUFFICES ASSUME NEW x \in Seq(U), Len(x) = Len(t) - Len(s), \A i \in 1..Len(x) : x[i] = t[Len(s) + i]
               PROVE  /\ s \o SubSeq(x, 1, Len(x)) = t
                      /\ \A k \in 0..Len(x) : GrownFrom(s, s \o SubSeq(x, 1, k))
    OBVIOUS
  <2> QED BY <1>2, NewLines
<1> QED
  BY <1>3, <1>4 DEF IsSeq

-----------------------------------------------------------------------------
(* Sessions: an append of whatever a host may append, and of the labels    *)
(* that go with it, only grows the session.                                *)
IsSession(s) ==
  /\ s = [ents |-> s.ents, base |-> s.base, leaf |-> s.leaf, read |-> s.read]
  /\ IsSeq(s.ents)

Grows(s, t) == IsSession(t) /\ t.base = s.base /\ GrownFrom(s.ents, t.ents)

LEMMA GrownFromSelf ==
  ASSUME NEW s, IsSeq(s)
  PROVE  GrownFrom(s, s)
BY DEF GrownFrom, IsSeq

LEMMA GrowsThrough ==
  ASSUME NEW r, NEW s, NEW t, IsSession(r), Grows(r, s), Grows(s, t)
  PROVE  Grows(r, t)
BY GrowsOn DEF Grows, IsSession

LEMMA MadeSession ==
  ASSUME NEW ents, IsSeq(ents), NEW b, NEW leaf, NEW read,
         NEW s, s = [ents |-> ents, base |-> b, leaf |-> leaf, read |-> read]
  PROVE  IsSession(s) /\ s.ents = ents /\ s.base = b
BY DEF IsSession

LEMMA ReadSessionHas ==
  ASSUME NEW ents, NEW b
  PROVE  \E m : ReadSession(ents, b) = [ents |-> ents, base |-> b, leaf |-> m, read |-> NoRead]
<1>1. PICK s : s = [ents |-> ents, base |-> b, leaf |-> Root, read |-> NoRead]
  OBVIOUS
<1>2. PICK m : m = ResolveLeaf(s)
  OBVIOUS
<1>3. ReadSession(ents, b) = [s EXCEPT !.leaf = ResolveLeaf(s)]
  BY <1>1 DEF ReadSession
<1>4. ReadSession(ents, b) = [s EXCEPT !.leaf = m]
  BY <1>2, <1>3
<1>5. [s EXCEPT !.leaf = m] = [ents |-> ents, base |-> b, leaf |-> m, read |-> NoRead]
  BY <1>1
<1> QED BY <1>4, <1>5

LEMMA SessionSet ==
  ASSUME NEW s, IsSession(s), NEW ents, NEW leaf
  PROVE  [[s EXCEPT !.ents = ents] EXCEPT !.leaf = leaf]
           = [ents |-> ents, base |-> s.base, leaf |-> leaf, read |-> s.read]
<1>1. s \in [ents : {s.ents}, base : {s.base}, leaf : {s.leaf}, read : {s.read}]
  BY DEF IsSession
<1>2. [s EXCEPT !.ents = ents] = [ents |-> ents, base |-> s.base, leaf |-> s.leaf, read |-> s.read]
  BY <1>1
<1>3. ASSUME NEW r, r = [ents |-> ents, base |-> s.base, leaf |-> s.leaf, read |-> s.read]
      PROVE  [r EXCEPT !.leaf = leaf] = [ents |-> ents, base |-> s.base, leaf |-> leaf, read |-> s.read]
  BY <1>3
<1> QED BY <1>2, <1>3, Zenon

LEMMA CommitGrows ==
  ASSUME NEW s, IsSession(s), NEW e, e /= Bad
  PROVE  Grows(s, Commit(s, e))
<1>1. PICK m : m = MoveLeafFor(Add(s, e), e, Len(s.ents) + 1)
  OBVIOUS
<1>2. Commit(s, e) = [[s EXCEPT !.ents = Append(s.ents, e)] EXCEPT !.leaf = m]
  BY <1>1 DEF Commit, Add
<1>3. Commit(s, e) = [ents |-> Append(s.ents, e), base |-> s.base, leaf |-> m, read |-> s.read]
  BY <1>2, SessionSet
<1> QED
  BY <1>3, AppendGrows DEF IsSession, Grows, GrownFrom

LEMMA LabelledGrows ==
  ASSUME NEW s, IsSession(s), NEW labels, \A l \in labels : l /= Bad
  PROVE  Grows(s, Labelled(s, labels))
<1>1. CASE labels = {}
  BY <1>1, GrownFromSelf DEF Labelled, Grows, IsSession
<1>2. CASE labels /= {}
  <2>1. (CHOOSE l \in labels : TRUE) \in labels
    BY <1>2
  <2> QED BY <1>2, <2>1, CommitGrows DEF Labelled
<1> QED BY <1>1, <1>2

LEMMA MarksAreLines ==
  /\ \A s, e : \A l \in LeafMarkBefore(s, e) : l /= Bad
  /\ \A s : \A l \in LeafMarkNeeded(s) : l /= Bad
  /\ \A s, a, b : \A l \in HeadLabel(s, a, b) : l /= Bad
  /\ \A s : \A e \in Appendable(s) : e /= Bad
BY DEF LeafMarkBefore, LeafMarkNeeded, HeadLabel, Appendable, LeafMark, Bad

LEMMA CaughtUpGrows ==
  ASSUME NEW s, IsSession(s)
  PROVE  Grows(s, CaughtUp(s))
BY GrownFromSelf DEF CaughtUp, Grows, IsSession

LEMMA WrittenGrows ==
  ASSUME NEW s, IsSession(s), NEW e, e /= Bad
  PROVE  Grows(s, Written(s, e)) /\ Grows(s, RowsOf(s, e))
<1>1. ASSUME NEW r, IsSession(r), Grows(s, r) PROVE Grows(s, RowsOf(r, e))
  <2>1. Grows(s, Commit(r, e))
    BY <1>1, CommitGrows, GrowsThrough
  <2>2. Grows(s, CaughtUp(Commit(r, e)))
    BY <2>1, CaughtUpGrows, GrowsThrough DEF Grows
  <2> QED
    BY <2>2, LabelledGrows, MarksAreLines, GrowsThrough DEF Grows, RowsOf, Settled
<1>2. Grows(s, s)
  BY GrownFromSelf DEF Grows, IsSession
<1>3. Grows(s, Labelled(s, LeafMarkBefore(s, e)))
  BY LabelledGrows, MarksAreLines
<1> QED
  BY <1>1, <1>2, <1>3 DEF Written, RowsOf, Grows

-----------------------------------------------------------------------------
(* The tree of a session: what is defined entry by entry, the paths and    *)
(* the labels, is what its definition says of each entry.                  *)

\* A set of natural numbers that is not empty has a least one.
LEMMA LeastOf ==
  ASSUME NEW S \in SUBSET Nat, S /= {}
  PROVE  \E x \in S : \A y \in S : x <= y
<1>1. PICK x \in S : \A y \in S : ~(<<y, x>> \in OpToRel(<, Nat))
  BY WFMin, NatLessThanWellFounded
<1>2. \A a, b \in Nat : <<a, b>> \in OpToRel(<, Nat) <=> a < b
  BY DEF OpToRel
<1>3. \A y \in S : ~(y < x)
  BY <1>1, <1>2, Zenon
<1>4. \A y \in S : x <= y
  BY <1>3
<1> QED BY <1>4

\* A set that has each number from a to m as soon as it has those before.
LEMMA Reaching ==
  ASSUME NEW a \in Nat, NEW m \in Nat, NEW T,
         \A i \in a..m : (\A j \in a..i-1 : j \in T) => i \in T
  PROVE  a..m \subseteq T
<1> SUFFICES ASSUME a..m \ T /= {} PROVE FALSE
  OBVIOUS
<1>1. PICK x \in a..m \ T : \A y \in a..m \ T : x <= y
  BY LeastOf, a..m \ T \in SUBSET Nat
<1>2. \A j \in a..x-1 : j \in a..m /\ ~(x <= j)
  BY <1>1
<1>3. \A j \in a..x-1 : j \in T
  BY <1>1, <1>2
<1> QED BY <1>1, <1>3

\* A function defined from what it is at a, each further value of it a step
\* from an earlier one.
Steps(a, m, V, init, from, step) ==
  /\ a \in Nat /\ m \in Nat /\ a <= m /\ init \in V
  /\ from \in [a..m -> a..m] /\ \A i \in a..m : i > a => from[i] < i
  /\ step \in [a..m -> [V -> V]]

Taken(f, a, m, V, init, from, step) ==
  f \in [a..m -> V] /\ \A i \in a..m : f[i] = IF i = a THEN init ELSE step[i][f[from[i]]]

LEMMA Recursion ==
  ASSUME NEW a, NEW m, NEW V, NEW init, NEW from, NEW step, Steps(a, m, V, init, from, step)
  PROVE  \E f : Taken(f, a, m, V, init, from, step)
<1> USE DEF Steps
<1> DEFINE Fits(f, k) == f \in [a..k -> V] /\ \A i \in a..k : f[i] = IF i = a THEN init ELSE step[i][f[from[i]]]
           T == {k \in a..m : \E f : Fits(f, k)}
<1>1. ASSUME NEW k \in a..m, \A j \in a..k-1 : j \in T PROVE k \in T
  <2>1. CASE k = a
    <3> DEFINE f == [i \in a..a |-> init]
    <3>1. Fits(f, a)
      OBVIOUS
    <3> QED BY <2>1, <3>1
  <2>2. CASE k /= a
    <3>1. k - 1 \in a..k-1
      BY <2>2
    <3>2. PICK f : Fits(f, k-1)
      BY <1>1, <3>1
    <3>3. from[k] \in a..k-1 /\ k > a
      BY <2>2
    <3>4. step[k][f[from[k]]] \in V
      BY <3>2, <3>3
    <3> DEFINE g == [i \in a..k |-> IF i = k THEN step[k][f[from[k]]] ELSE f[i]]
    <3>5. g \in [a..k -> V]
      BY <3>2, <3>4
    <3>6. \A i \in a..k-1 : g[i] = f[i]
      OBVIOUS
    <3>7. g[k] = step[k][f[from[k]]]
      BY <3>3
    <3> HIDE DEF g
    <3>8. ASSUME NEW i \in a..k PROVE g[i] = IF i = a THEN init ELSE step[i][g[from[i]]]
      <4>1. CASE i = k
        <5>1. g[from[k]] = f[from[k]] /\ k /= a
          BY <3>3, <3>6
        <5> QED BY <3>7, <4>1, <5>1
      <4>2. CASE i /= k
        <5>1. i \in a..k-1 /\ (i > a => from[i] \in a..k-1) /\ (i /= a => i > a)
          BY <4>2
        <5> QED BY <3>2, <3>6, <5>1
      <4> QED BY <4>1, <4>2
    <3>9. Fits(g, k)
      BY <3>5, <3>8
    <3> QED BY <3>9
  <2> QED BY <2>1, <2>2
<1>2. m \in T
  <2> HIDE DEF T
  <2>1. a..m \subseteq T
    BY <1>1, Reaching
  <2> QED BY <2>1
<1> QED BY <1>2 DEF Taken

-----------------------------------------------------------------------------
Entry == [type : {"item", "output", "leaf", "clear"}, parent : Int, target : Int]

\* Lines a reader takes: the prefix a fork opened with, and after it entries
\* that hang in the session and name what came before them.
Lines(l, b) ==
  /\ l \in Seq(Entry) /\ b \in 0..Len(l)
  /\ \A i \in 1..Len(l) :
       /\ l[i].parent \in 0..i-1 /\ l[i].target < i
       /\ i <= b => l[i].parent = i - 1 /\ l[i].type = "item"
       /\ i > b /\ b > 0 => l[i].parent >= b

Tree(s) == Lines(s.ents, s.base)

LEMMA AncestryStep ==
  ASSUME NEW l, NEW b, Lines(l, b)
  PROVE  /\ Ancestry(l)[0] = {}
         /\ \A i \in 1..Len(l) : Ancestry(l)[i] = Ancestry(l)[l[i].parent] \cup {i}
<1>0. PICK n \in Nat : n = Len(l)
  BY DEF Lines
<1>1. \A i \in 1..n : l[i].parent \in 0..n /\ l[i].parent < i
  BY <1>0 DEF Lines
<1> DEFINE Def(f) == f = [i \in 0..Len(l) |-> IF i = Root THEN {} ELSE f[l[i].parent] \cup {i}]
<1>2. PICK V, from, step :
        /\ V = SUBSET (0..n) /\ from = [i \in 0..n |-> IF i = 0 THEN 0 ELSE l[i].parent]
        /\ step = [i \in 0..n |-> [v \in V |-> v \cup {i}]]
  OBVIOUS
<1>3. PICK f : Taken(f, 0, n, V, {}, from, step)
  <2>1. Steps(0, n, V, {}, from, step)
    BY <1>1, <1>2 DEF Steps
  <2> QED BY <2>1, Recursion
<1>6. Def(f)
  <2> USE DEF Taken
  <2>1. ASSUME NEW i \in 0..n PROVE f[i] = IF i = 0 THEN {} ELSE f[l[i].parent] \cup {i}
    <3>1. CASE i = 0
      BY <1>3, <3>1
    <3>2. CASE i /= 0
      <4>1. from[i] = l[i].parent /\ f[from[i]] \in V
        BY <1>1, <1>2, <1>3, <3>2
      <4> QED BY <1>2, <1>3, <3>2, <4>1
    <3> QED BY <3>1, <3>2
  <2> QED BY <1>0, <1>3, <2>1 DEF Root
<1>4. Ancestry(l) = CHOOSE g : Def(g)
  BY DEF Ancestry
<1>5. Def(Ancestry(l))
  <2> HIDE DEF Def
  <2> QED BY <1>4, <1>6
<1> QED BY <1>0, <1>1, <1>5 DEF Root

LEMMA AncestrySpan ==
  ASSUME NEW l, NEW b, Lines(l, b)
  PROVE  \A i \in 0..Len(l) : Ancestry(l)[i] \subseteq 1..i /\ (i /= 0 => i \in Ancestry(l)[i])
<1> DEFINE anc == Ancestry(l)
           T == {i \in 0..Len(l) : anc[i] \subseteq 1..i}
<1>0. PICK n \in Nat : n = Len(l)
  BY DEF Lines
<1>1. anc[0] = {} /\ \A i \in 1..n : anc[i] = anc[l[i].parent] \cup {i}
  BY <1>0, AncestryStep
<1> HIDE DEF anc
<1>2. ASSUME NEW i \in 0..n, \A j \in 0..i-1 : j \in T PROVE i \in T
  <2>1. CASE i = 0
    BY <1>0, <1>1, <2>1
  <2>2. CASE i /= 0
    <3>1. l[i].parent \in 0..i-1
      BY <1>0, <2>2 DEF Lines
    <3>2. anc[l[i].parent] \subseteq 1..l[i].parent
      BY <1>2, <3>1
    <3> QED BY <1>0, <1>1, <2>2, <3>1, <3>2
  <2> QED BY <2>1, <2>2
<1>3. 0..n \subseteq T
  <2> HIDE DEF T
  <2> QED BY <1>2, Reaching
<1> QED BY <1>0, <1>1, <1>3 DEF anc

\* An entry is below another when its parent is, or is it.
LEMMA BelowStep ==
  ASSUME NEW l, NEW b, Lines(l, b), NEW t \in 0..Len(l)
  PROVE  /\ Below(l, t) \subseteq 1..Len(l)
         /\ \A i \in Below(l, t) : i > t
         /\ \A i \in 1..Len(l) : i \in Below(l, t) <=> l[i].parent \in Below(l, t) \cup {t}
<1> DEFINE anc == Ancestry(l)
<1>0. PICK n \in Nat : n = Len(l)
  BY DEF Lines
<1>1. anc[0] = {} /\ \A i \in 1..n : anc[i] = anc[l[i].parent] \cup {i}
  BY <1>0, AncestryStep
<1>2. \A i \in 0..n : anc[i] \subseteq 1..i /\ (i /= 0 => i \in anc[i])
  BY <1>0, AncestrySpan
<1>3. Below(l, t) = {i \in 1..n : t = 0 \/ t \in anc[i] \ {i}}
  BY <1>0 DEF Below, Root
<1> HIDE DEF anc
<1>4. \A i \in Below(l, t) : i > t
  <2> SUFFICES ASSUME NEW i \in 1..n, t = 0 \/ t \in anc[i] \ {i} PROVE i > t
    BY <1>3
  <2>1. (t \in 1..i /\ t /= i) \/ t = 0
    BY <1>2
  <2> QED BY <2>1
<1>5. ASSUME NEW i \in 1..n PROVE i \in Below(l, t) <=> l[i].parent \in Below(l, t) \cup {t}
  <2>1. l[i].parent \in 0..i-1 /\ l[i].parent \in 0..n
    BY <1>0 DEF Lines
  <2>2. CASE t = 0
    BY <1>3, <2>1, <2>2
  <2>3. CASE t /= 0
    <3> DEFINE q == l[i].parent
    <3>1. i \in Below(l, t) <=> t \in anc[q]
      <4>1. anc[q] \subseteq 1..q /\ i \notin 1..q
        BY <1>2, <2>1
      <4> QED BY <1>1, <1>3, <2>3, <4>1
    <3>2. CASE q = 0
      BY <1>1, <1>3, <2>3, <3>1, <3>2
    <3>3. CASE q /= 0
      <4>1. q \in 1..n /\ q \in anc[q]
        BY <1>2, <2>1, <3>3
      <4>2. q \in Below(l, t) <=> t \in anc[q] \ {q}
        BY <1>3, <2>3, <4>1
      <4> QED BY <3>1, <4>1, <4>2
    <3> QED BY <3>2, <3>3
  <2> QED BY <2>2, <2>3
<1> QED BY <1>0, <1>3, <1>4, <1>5

\* On a path are the entries the path's end is below, and the end.
LEMMA OnPath ==
  ASSUME NEW s, Tree(s), NEW t \in 1..Len(s.ents), NEW i \in 0..Len(s.ents)
  PROVE  t \in PathTo(s, i) <=> i \in Below(s.ents, t) \cup {t}
<1>1. \A j \in 0..Len(s.ents) : Ancestry(s.ents)[j] \subseteq 1..j /\ (j /= 0 => j \in Ancestry(s.ents)[j])
  BY AncestrySpan DEF Tree
<1>2. Len(s.ents) \in Nat
  BY DEF Tree, Lines
<1>3. Below(s.ents, t) = {j \in 1..Len(s.ents) : t \in Ancestry(s.ents)[j] \ {j}}
  BY <1>2 DEF Below, Root
<1> QED BY <1>1, <1>2, <1>3 DEF PathTo

\* Entries of a tree, as numbers and records.
LEMMA EntryOf ==
  ASSUME NEW s, Tree(s)
  PROVE  /\ Len(s.ents) \in Nat /\ s.base \in Nat /\ s.base <= Len(s.ents)
         /\ \A i \in 1..Len(s.ents) :
              /\ s.ents[i] \in Entry /\ s.ents[i].parent \in 0..i-1 /\ s.ents[i].target \in Int /\ s.ents[i].target < i
              /\ IsLabel(s.ents[i]) => i > s.base
              /\ i > s.base => s.ents[i].parent >= s.base
<1>1. Len(s.ents) \in Nat /\ s.base \in 0..Len(s.ents)
  BY DEF Tree, Lines
<1>2. ASSUME NEW i \in 1..Len(s.ents)
      PROVE  /\ s.ents[i] \in Entry /\ s.ents[i].parent \in 0..i-1 /\ s.ents[i].target \in Int /\ s.ents[i].target < i
             /\ IsLabel(s.ents[i]) => i > s.base
             /\ i > s.base => s.ents[i].parent >= s.base
  <2>1. s.ents[i] \in Entry
    BY DEF Tree, Lines
  <2>2. /\ s.ents[i].parent \in 0..i-1 /\ s.ents[i].target < i
        /\ i <= s.base => s.ents[i].type = "item"
        /\ i > s.base /\ s.base > 0 => s.ents[i].parent >= s.base
    BY DEF Tree, Lines
  <2>3. IsLabel(s.ents[i]) => i > s.base
    BY <1>1, <2>2 DEF IsLabel
  <2>4. i > s.base => s.ents[i].parent >= s.base
    BY <1>1, <2>2
  <2> QED BY <2>1, <2>2, <2>3, <2>4 DEF Entry
<1> QED BY <1>1, <1>2

LEMMA NotOnLabelStep ==
  ASSUME NEW s, Tree(s)
  PROVE  \A i \in 0..Len(s.ents) :
           NotOnLabel(s, i) = IF i /= 0 /\ IsLabel(s.ents[i]) THEN NotOnLabel(s, s.ents[i].parent)
                              ELSE IF i < s.base THEN s.base ELSE i
<1>0. PICK n \in Nat : n = Len(s.ents)
  BY EntryOf
<1>1. \A i \in 1..n : s.ents[i].parent \in 0..n /\ s.ents[i].parent < i
  BY <1>0, EntryOf
<1> DEFINE Def(f) == f = [i \in 0..Len(s.ents) |-> IF i /= Root /\ IsLabel(s.ents[i]) THEN f[s.ents[i].parent] ELSE i]
<1>2. PICK V, from, step :
        /\ V = 0..n /\ from = [i \in 0..n |-> IF i = 0 THEN 0 ELSE s.ents[i].parent]
        /\ step = [i \in 0..n |-> [v \in V |-> IF IsLabel(s.ents[i]) THEN v ELSE i]]
  OBVIOUS
<1>3. PICK f : Taken(f, 0, n, V, 0, from, step)
  <2>1. Steps(0, n, V, 0, from, step)
    BY <1>1, <1>2 DEF Steps
  <2> QED BY <2>1, Recursion
<1>4. Def(f)
  <2>1. ASSUME NEW i \in 0..n PROVE f[i] = IF i /= 0 /\ IsLabel(s.ents[i]) THEN f[s.ents[i].parent] ELSE i
    <3>1. CASE i = 0
      BY <1>3, <3>1 DEF Taken
    <3>2. CASE i /= 0
      <4>2. from[i] = s.ents[i].parent /\ from[i] \in 0..n
        BY <1>1, <1>2, <3>2
      <4>3. f \in [0..n -> V]
        BY <1>3 DEF Taken
      <4>1. from[i] = s.ents[i].parent /\ f[from[i]] \in V
        BY <4>2, <4>3
      <4> QED BY <1>2, <1>3, <3>2, <4>1 DEF Taken
    <3> QED BY <3>1, <3>2
  <2> QED BY <1>0, <1>3, <2>1 DEF Root, Taken
<1>5. PICK up : up = CHOOSE g : Def(g)
  OBVIOUS
<1>6. Def(up)
  <2> HIDE DEF Def
  <2> QED BY <1>4, <1>5
<1>7. \A i \in 0..n : NotOnLabel(s, i) = IF up[i] < s.base THEN s.base ELSE up[i]
  BY <1>5 DEF NotOnLabel
<1>8. \A i \in 0..n : up[i] = IF i /= 0 /\ IsLabel(s.ents[i]) THEN up[s.ents[i].parent] ELSE i
  BY <1>0, <1>6 DEF Root
<1>9. ASSUME NEW i \in 0..n
      PROVE NotOnLabel(s, i) = IF i /= 0 /\ IsLabel(s.ents[i]) THEN NotOnLabel(s, s.ents[i].parent)
                              ELSE IF i < s.base THEN s.base ELSE i
  <2>1. CASE i /= 0 /\ IsLabel(s.ents[i])
    <3>1. s.ents[i].parent \in 0..n
      BY <1>1, <2>1
    <3>2. up[i] = up[s.ents[i].parent]
      BY <1>8, <2>1
    <3> QED BY <1>7, <2>1, <3>1, <3>2
  <2>2. CASE ~(i /= 0 /\ IsLabel(s.ents[i]))
    BY <1>7, <1>8, <2>2
  <2> QED BY <2>1, <2>2
<1> QED BY <1>0, <1>9

\* Off the labels, up from an entry no head lies above.
LEMMA NotOnLabelSpan ==
  ASSUME NEW s, Tree(s)
  PROVE  \A i \in s.base..Len(s.ents) : NotOnLabel(s, i) \in s.base..i
<1>0. PICK n, b \in Nat : n = Len(s.ents) /\ b = s.base /\ b <= n /\ n \in Nat
  BY EntryOf
<1>1. PICK T : T = {i \in b..n : NotOnLabel(s, i) \in b..i}
  OBVIOUS
<1>2. ASSUME NEW i \in b..n, \A j \in b..i-1 : j \in T PROVE i \in T
  <2>0. NotOnLabel(s, i) = IF i /= 0 /\ IsLabel(s.ents[i]) THEN NotOnLabel(s, s.ents[i].parent)
                              ELSE IF i < b THEN b ELSE i
    BY <1>0, NotOnLabelStep
  <2>1. CASE i /= 0 /\ IsLabel(s.ents[i])
    <3>1. i \in 1..n
      BY <2>1
    <3>2. s.ents[i].parent \in 0..i-1 /\ s.ents[i].parent >= b
      BY <1>0, <2>1, <3>1, EntryOf
    <3> QED BY <1>1, <1>2, <2>0, <2>1, <3>2
  <2>2. CASE ~(i /= 0 /\ IsLabel(s.ents[i]))
    BY <1>0, <1>1, <2>0, <2>2
  <2> QED BY <2>1, <2>2
<1>3. b..n \subseteq T
  BY <1>0, <1>2, Reaching
<1> QED BY <1>0, <1>1, <1>3

-----------------------------------------------------------------------------
\* The newest of some entries.
LEMMA NewestIs ==
  ASSUME NEW n \in Nat, NEW S \in SUBSET (0..n), S /= {}
  PROVE  Newest(S) \in S /\ \A j \in S : j <= Newest(S)
<1> DEFINE D == {n - i : i \in S}
<1>1. PICK x \in D : \A y \in D : x <= y
  <2>1. D \in SUBSET Nat
    <3>1. \A i \in S : n - i \in Nat
      OBVIOUS
    <3> QED BY <3>1
  <2>2. D /= {}
    <3>1. PICK i : i \in S
      OBVIOUS
    <3>2. n - i \in D
      BY <3>1
    <3> QED BY <3>2
  <2> HIDE DEF D
  <2> QED BY <2>1, <2>2, LeastOf
<1>2. PICK i \in S : x = n - i
  OBVIOUS
<1>3. \A j \in S : j <= i
  <2> SUFFICES ASSUME NEW j \in S PROVE j <= i
    OBVIOUS
  <2>1. x <= n - j
    BY <1>1
  <2> QED BY <1>2, <2>1
<1>4. \E m \in S : \A j \in S : j <= m
  BY <1>3
<1> QED BY <1>4 DEF Newest

LEMMA NewestSame ==
  ASSUME NEW n \in Nat, NEW S \in SUBSET (0..n), NEW x \in S, \A j \in S : j <= x
  PROVE  Newest(S) = x
<1>1. Newest(S) \in S /\ \A j \in S : j <= Newest(S)
  BY NewestIs
<1>2. PICK y \in S : y = Newest(S) /\ \A j \in S : j <= y
  BY <1>1
<1>3. x \in 0..n /\ y \in 0..n
  OBVIOUS
<1>4. x <= y /\ y <= x
  BY <1>2
<1> QED BY <1>2, <1>3, <1>4

\* The labels in force, line by line.
Marks(n) == [marked : Int, at : 0..n]

MarkStep(s, i, m) ==
  CASE IsLabel(s.ents[i]) /\ MayRestOn(s, s.ents[i].target) -> [marked |-> s.ents[i].target, at |-> i]
    [] s.ents[i].type = "clear" /\ s.ents[i].target = m.marked -> [marked |-> NoMark, at |-> 0]
    [] OTHER -> m

LEMMA MarkStepIs ==
  ASSUME NEW s, NEW i, NEW m
  PROVE  MarkStep(s, i, m) =
           IF IsLabel(s.ents[i]) /\ MayRestOn(s, s.ents[i].target) THEN [marked |-> s.ents[i].target, at |-> i]
           ELSE IF s.ents[i].type = "clear" /\ s.ents[i].target = m.marked THEN [marked |-> NoMark, at |-> 0]
           ELSE m
BY DEF MarkStep, IsLabel

LEMMA LeafMarksStep ==
  ASSUME NEW s, Tree(s)
  PROVE  /\ LeafMarks(s)[0] = [marked |-> NoMark, at |-> 0]
         /\ \A i \in 1..Len(s.ents) : LeafMarks(s)[i] = MarkStep(s, i, LeafMarks(s)[i - 1])
<1>0. PICK n \in Nat : n = Len(s.ents)
  BY EntryOf
<1>1. \A i \in 1..n : s.ents[i].target \in Int
  BY <1>0, EntryOf
<1> DEFINE Def(f) == f = [i \in 0..Len(s.ents) |-> IF i = 0 THEN [marked |-> NoMark, at |-> 0] ELSE MarkStep(s, i, f[i - 1])]
<1>2. PICK V, none, from, step :
        /\ V = Marks(n) /\ from = [i \in 0..n |-> IF i = 0 THEN 0 ELSE i - 1]
        /\ step = [i \in 0..n |-> [v \in V |-> IF i = 0 THEN v ELSE MarkStep(s, i, v)]]
        /\ none = [marked |-> NoMark, at |-> 0]
  OBVIOUS
<1>3. PICK f : Taken(f, 0, n, V, none, from, step)
  <2>1. ASSUME NEW i \in 0..n, NEW v \in V PROVE (IF i = 0 THEN v ELSE MarkStep(s, i, v)) \in V
    <3>1. CASE i = 0
      BY <3>1
    <3>2. CASE i /= 0
      <4>1. s.ents[i].target \in Int
        BY <1>1, <3>2
      <4>2. [marked |-> s.ents[i].target, at |-> i] \in V /\ [marked |-> NoMark, at |-> 0] \in V
        BY <1>2, <4>1 DEF Marks, NoMark
      <4> QED BY <3>2, <4>2, MarkStepIs
    <3> QED BY <3>1, <3>2
  <2>2. none \in V /\ from \in [0..n -> 0..n] /\ \A i \in 0..n : i > 0 => from[i] < i
    BY <1>2 DEF Marks, NoMark
  <2>3. step \in [0..n -> [V -> V]]
    BY <1>2, <2>1
  <2>4. Steps(0, n, V, none, from, step)
    BY <2>2, <2>3 DEF Steps
  <2> QED BY <2>4, Recursion
<1>4. Def(f)
  <2>1. ASSUME NEW i \in 0..n PROVE f[i] = IF i = 0 THEN none ELSE MarkStep(s, i, f[i - 1])
    <3>1. CASE i = 0
      BY <1>3, <3>1 DEF Taken
    <3>2. CASE i /= 0
      <4>1. from[i] = i - 1 /\ f[i - 1] \in V
        BY <1>2, <1>3, <3>2 DEF Taken
      <4> QED BY <1>2, <1>3, <3>2, <4>1 DEF Taken
    <3> QED BY <3>1, <3>2
  <2>2. f = [i \in 0..n |-> f[i]]
    BY <1>3 DEF Taken
  <2> QED BY <1>0, <1>2, <2>1, <2>2
<1>5. LeafMarks(s) = CHOOSE g : Def(g)
  BY DEF LeafMarks, MarkStep
<1>6. Def(LeafMarks(s))
  <2> HIDE DEF Def
  <2> QED BY <1>4, <1>5
<1> QED BY <1>0, <1>6

\* The label in force rests where a head may, on what came before it.
LEMMA LeafMarksSpan ==
  ASSUME NEW s, Tree(s), NEW i \in 0..Len(s.ents), NEW m, m = LeafMarks(s)[i]
  PROVE  /\ m = [marked |-> m.marked, at |-> m.at] /\ m.at \in 0..i
         /\ m.marked = NoMark => m.at = 0
         /\ m.marked /= NoMark => /\ m.marked \in s.base..Len(s.ents) /\ MayRestOn(s, m.marked) /\ m.marked < m.at
<1>0. PICK n \in Nat : n = Len(s.ents) /\ s.base \in Nat
  BY EntryOf
<1> DEFINE Fine(k, x) ==
      /\ x = [marked |-> x.marked, at |-> x.at] /\ x.at \in 0..k
      /\ x.marked = NoMark => x.at = 0
      /\ x.marked /= NoMark => /\ x.marked \in s.base..n /\ MayRestOn(s, x.marked) /\ x.marked < x.at
<1>1. PICK T : T = {k \in 0..n : Fine(k, LeafMarks(s)[k])}
  OBVIOUS
<1>2. ASSUME NEW k \in 0..n, \A j \in 0..k-1 : j \in T PROVE k \in T
  <2>1. CASE k = 0
    <3>1. LeafMarks(s)[0] = [marked |-> NoMark, at |-> 0]
      BY LeafMarksStep
    <3> QED BY <1>1, <2>1, <3>1
  <2>2. CASE k /= 0
    <3>1. PICK x, y : x = LeafMarks(s)[k - 1] /\ y = LeafMarks(s)[k]
      OBVIOUS
    <3>2. y = MarkStep(s, k, x)
      BY <1>0, <2>2, <3>1, LeafMarksStep
    <3>3. Fine(k - 1, x)
      BY <1>1, <1>2, <2>2, <3>1
    <3>4. s.ents[k].target \in Int /\ s.ents[k].target < k
      BY <1>0, <2>2, EntryOf
    <3>5. MayRestOn(s, s.ents[k].target) => s.ents[k].target \in s.base..n /\ s.ents[k].target /= NoMark
      BY <1>0, <3>4 DEF MayRestOn, Held, Root, NoMark
    <3>6. Fine(k, y)
      <4>1. CASE IsLabel(s.ents[k]) /\ MayRestOn(s, s.ents[k].target)
        BY <3>2, <3>4, <3>5, <4>1, MarkStepIs
      <4>2. CASE y = [marked |-> NoMark, at |-> 0]
        BY <4>2
      <4>3. CASE y = x
        BY <3>3, <4>3
      <4> QED BY <3>2, <4>1, <4>2, <4>3, MarkStepIs
    <3> QED BY <1>1, <3>1, <3>6
  <2> QED BY <2>1, <2>2
<1>3. 0..n \subseteq T
  BY <1>2, Reaching
<1> QED BY <1>0, <1>1, <1>3

-----------------------------------------------------------------------------
(* A reader's state of the first lines of a session.                       *)

Later(s, m, j) == {i \in Below(s.ents, m.marked) : i > m.at /\ i <= j}

Tip(s, m, j) == IF Later(s, m, j) = {} THEN m.marked ELSE Newest(Later(s, m, j))

StateOf(j, m, under, tip) == [n |-> j, marked |-> m.marked, at |-> m.at, under |-> under, tip |-> tip]

NotMarked == [marked |-> NoMark, at |-> 0]

Unmarked(j) == StateOf(j, NotMarked, {}, NoMark)

LEMMA StateFields ==
  \A j, m, u, k, r : r = StateOf(j, m, u, k) =>
    r.n = j /\ r.marked = m.marked /\ r.at = m.at /\ r.under = u /\ r.tip = k
BY DEF StateOf

LEMMA StateUpTo == \A j, m, u, k, i : UpTo(StateOf(j, m, u, k), i) = StateOf(i, m, u, k)
BY DEF StateOf, UpTo

LEMMA StateUnder == \A j, m, u, k, i : UnderLabel(StateOf(j, m, u, k), i) = StateOf(i, m, u \cup {i}, i)
BY DEF StateOf, UnderLabel

StateAt(s, j) ==
  LET m == LeafMarks(s)[j]
  IN  IF m.marked = NoMark THEN Unmarked(j)
      ELSE StateOf(j, m, {i \in Below(s.ents, m.marked) : i <= j} \cup {m.marked}, Tip(s, m, j))

\* The entries under a mark.
LEMMA MarkedSpan ==
  ASSUME NEW s, Tree(s), NEW k \in 0..Len(s.ents), NEW m, m = LeafMarks(s)[k], m.marked /= NoMark,
         NEW j \in 0..Len(s.ents)
  PROVE  /\ m.marked \in 0..Len(s.ents) /\ m.at \in 0..k /\ m.marked < m.at
         /\ Below(s.ents, m.marked) \subseteq 1..Len(s.ents)
         /\ \A i \in Below(s.ents, m.marked) : i > m.marked
         /\ \A i \in 1..Len(s.ents) : i \in Below(s.ents, m.marked)
                                   <=> s.ents[i].parent \in Below(s.ents, m.marked) \cup {m.marked}
         /\ Later(s, m, j) \subseteq 0..j
         /\ Tip(s, m, j) \in {m.marked} \cup Later(s, m, j)
<1>1. m.marked \in s.base..Len(s.ents) /\ m.at \in 0..k /\ m.marked < m.at
  BY LeafMarksSpan
<1>2. m.marked \in 0..Len(s.ents)
  BY <1>1, EntryOf
<1>3. /\ Below(s.ents, m.marked) \subseteq 1..Len(s.ents)
      /\ \A i \in Below(s.ents, m.marked) : i > m.marked
      /\ \A i \in 1..Len(s.ents) : i \in Below(s.ents, m.marked)
                                   <=> s.ents[i].parent \in Below(s.ents, m.marked) \cup {m.marked}
  BY <1>2, BelowStep DEF Tree
<1>4. Later(s, m, j) \subseteq 0..j
  BY <1>3 DEF Later
<1>5. Tip(s, m, j) \in {m.marked} \cup Later(s, m, j)
  <2>1. CASE Later(s, m, j) = {}
    BY <2>1 DEF Tip
  <2>2. CASE Later(s, m, j) /= {}
    <3>2. PICK S : S = Later(s, m, j) /\ S \in SUBSET (0..j) /\ S /= {} /\ j \in Nat
      BY <1>4, <2>2, EntryOf
    <3>1. Newest(Later(s, m, j)) \in Later(s, m, j)
      BY <3>2, NewestIs
    <3> QED BY <2>2, <3>1 DEF Tip
  <2> QED BY <2>1, <2>2
<1> QED BY <1>1, <1>2, <1>3, <1>4, <1>5

\* What a label puts in force, read with every line of the session.
LEMMA MarkIs ==
  ASSUME NEW s, Tree(s), NEW m, m.marked /= NoMark, m.marked \in 0..Len(s.ents)
  PROVE  Mark(s, m.marked, m.at)
           = StateOf(Len(s.ents), m, Below(s.ents, m.marked) \cup {m.marked}, Tip(s, m, Len(s.ents)))
<1>1. Below(s.ents, m.marked) \subseteq 1..Len(s.ents) /\ Len(s.ents) \in Nat
  BY BelowStep, EntryOf DEF Tree
<1>2. Later(s, m, Len(s.ents)) = {i \in Below(s.ents, m.marked) : i > m.at}
  BY <1>1 DEF Later
<1> QED BY <1>2 DEF Mark, StateOf, Tip

LEMMA UnmarkedIs == \A s, at : Mark(s, NoMark, at) = Unmarked(Len(s.ents))
BY DEF Mark, Unmarked, StateOf, NotMarked

LEMMA ReadLeafIs ==
  ASSUME NEW s, Tree(s)
  PROVE  ReadLeafState(s) = StateAt(s, Len(s.ents))
<1>0. Len(s.ents) \in Nat
  BY EntryOf
<1>1. PICK m : m = LeafMarks(s)[Len(s.ents)]
  OBVIOUS
<1>2. ReadLeafState(s) = Mark(s, m.marked, m.at)
  BY <1>1 DEF ReadLeafState, DurableLeafAt
<1>3. CASE m.marked = NoMark
  BY <1>1, <1>2, <1>3, UnmarkedIs DEF StateAt
<1>4. CASE m.marked /= NoMark
  <2>1. m.marked \in 0..Len(s.ents) /\ Below(s.ents, m.marked) \subseteq 1..Len(s.ents)
    BY <1>0, <1>1, <1>4, MarkedSpan
  <2>2. {i \in Below(s.ents, m.marked) : i <= Len(s.ents)} = Below(s.ents, m.marked)
    BY <1>0, <2>1
  <2> QED BY <1>1, <1>2, <1>4, <2>1, <2>2, MarkIs DEF StateAt
<1> QED BY <1>3, <1>4

\* A state that is being brought up to the session's lines one at a time: what
\* a label put in force is known with every line, and what was known before it
\* line by line.
Near(s, r, j) ==
  LET m == LeafMarks(s)[j]
  IN  IF m.marked = NoMark THEN r = Unmarked(j)
      ELSE /\ r = StateOf(j, m, r.under, r.tip)
           /\ \A i \in 0..j : i \in Below(s.ents, m.marked) \cup {m.marked} => i \in r.under
           /\ r.under \subseteq Below(s.ents, m.marked) \cup {m.marked}
           /\ r.tip = Tip(s, m, j) \/ r.tip = Tip(s, m, Len(s.ents))

LEMMA StateIsNear ==
  ASSUME NEW s, Tree(s), NEW j \in 0..Len(s.ents)
  PROVE  Near(s, StateAt(s, j), j)
<1>1. PICK m : m = LeafMarks(s)[j]
  OBVIOUS
<1>2. CASE m.marked = NoMark
  BY <1>1, <1>2 DEF Near, StateAt
<1>3. CASE m.marked /= NoMark
  <2>1. PICK under, tip, r : /\ under = {i \in Below(s.ents, m.marked) : i <= j} \cup {m.marked}
                             /\ tip = Tip(s, m, j) /\ r = StateAt(s, j)
    OBVIOUS
  <2>2. r = StateOf(j, m, under, tip)
    BY <1>1, <1>3, <2>1 DEF StateAt
  <2>3. r.under = under /\ r.tip = tip
    BY <2>2 DEF StateOf
  <2>4. \A i \in 0..j : i \in Below(s.ents, m.marked) \cup {m.marked} => i \in under
    BY <2>1
  <2> QED BY <1>1, <1>3, <2>1, <2>2, <2>3, <2>4 DEF Near
<1> QED BY <1>2, <1>3

LEMMA NearIsState ==
  ASSUME NEW s, Tree(s), NEW r, Near(s, r, Len(s.ents))
  PROVE  r = StateAt(s, Len(s.ents))
<1>0. PICK n \in Nat : n = Len(s.ents)
  BY EntryOf
<1>1. PICK m : m = LeafMarks(s)[n]
  OBVIOUS
<1>2. CASE m.marked = NoMark
  BY <1>0, <1>1, <1>2 DEF Near, StateAt
<1>3. CASE m.marked /= NoMark
  <2>1. m.marked \in 0..n /\ Below(s.ents, m.marked) \subseteq 1..n
    <3>1. n \in 0..Len(s.ents)
      BY <1>0
    <3> QED BY <1>0, <1>1, <1>3, <3>1, MarkedSpan
  <2>2. /\ r = StateOf(n, m, r.under, r.tip) /\ r.tip = Tip(s, m, n)
        /\ \A i \in 0..n : i \in Below(s.ents, m.marked) \cup {m.marked} => i \in r.under
        /\ r.under \subseteq Below(s.ents, m.marked) \cup {m.marked}
    BY <1>0, <1>1, <1>3 DEF Near
  <2>3. r.under = {i \in Below(s.ents, m.marked) : i <= n} \cup {m.marked}
    BY <2>1, <2>2
  <2> QED BY <1>0, <1>1, <1>3, <2>2, <2>3 DEF StateAt
<1> QED BY <1>2, <1>3

Extended(s, r, i, e) ==
  IF IsLabel(e) /\ MayRestOn(s, e.target)
  THEN StateOf(i, [marked |-> e.target, at |-> i], Below(s.ents, e.target) \cup {e.target},
               Tip(s, [marked |-> e.target, at |-> i], Len(s.ents)))
  ELSE IF e.type = "clear" /\ e.target = r.marked THEN Unmarked(i)
  ELSE IF r.marked /= NoMark /\ e.parent \in r.under
  THEN UnderLabel(r, i)
  ELSE UpTo(r, i)

LEMMA ExtendReadIs ==
  ASSUME NEW s, Tree(s), NEW i \in 1..Len(s.ents), NEW r
  PROVE  ExtendRead(s, r, i) = Extended(s, r, i, s.ents[i])
<1>0. PICK e : e = s.ents[i]
  OBVIOUS
<1>1. ~(IsLabel(e) /\ e.type = "clear")
  BY DEF IsLabel
<1>2. CASE IsLabel(e) /\ MayRestOn(s, e.target)
  <2>1. PICK m : m = [marked |-> e.target, at |-> i]
    OBVIOUS
  <2>2. e.target /= NoMark /\ e.target \in 0..Len(s.ents) /\ m.marked = e.target /\ m.at = i
    <3>1. Len(s.ents) \in Nat
      BY EntryOf
    <3> QED BY <1>2, <2>1, <3>1 DEF MayRestOn, Held, Root, NoMark
  <2>3. Mark(s, e.target, i)
          = StateOf(Len(s.ents), m, Below(s.ents, e.target) \cup {e.target}, Tip(s, m, Len(s.ents)))
    BY <2>2, MarkIs
  <2>4. \A j, u, k : UpTo(StateOf(j, m, u, k), i) = StateOf(i, m, u, k)
    BY StateUpTo
  <2>5. UpTo(Mark(s, e.target, i), i)
          = StateOf(i, m, Below(s.ents, e.target) \cup {e.target}, Tip(s, m, Len(s.ents)))
    BY <2>3, <2>4
  <2> QED BY <1>0, <1>1, <1>2, <2>1, <2>5 DEF ExtendRead, Extended
<1>3. CASE e.type = "clear" /\ e.target = r.marked /\ ~(IsLabel(e) /\ MayRestOn(s, e.target))
  <2>1. \A j : UpTo(Unmarked(j), i) = Unmarked(i)
    BY StateUpTo DEF Unmarked
  <2>2. UpTo(Mark(s, NoMark, 0), i) = Unmarked(i)
    BY <2>1, UnmarkedIs
  <2> QED BY <1>0, <1>1, <1>3, <2>2 DEF ExtendRead, Extended
<1>4. CASE ~(IsLabel(e) /\ MayRestOn(s, e.target)) /\ ~(e.type = "clear" /\ e.target = r.marked)
  BY <1>0, <1>4 DEF ExtendRead, Extended
<1> QED BY <1>2, <1>3, <1>4

LEMMA NearStep ==
  ASSUME NEW s, Tree(s), NEW i \in 1..Len(s.ents), NEW r, Near(s, r, i - 1)
  PROVE  Near(s, ExtendRead(s, r, i), i)
<1>0. PICK n \in Nat : n = Len(s.ents)
  BY EntryOf
<1>1. PICK e, x, y, t : /\ e = s.ents[i] /\ x = LeafMarks(s)[i - 1] /\ y = LeafMarks(s)[i]
                        /\ t = ExtendRead(s, r, i)
  OBVIOUS
<1>2. /\ t = Extended(s, r, i, e)
      /\ y = IF IsLabel(e) /\ MayRestOn(s, e.target) THEN [marked |-> e.target, at |-> i]
             ELSE IF e.type = "clear" /\ e.target = x.marked THEN [marked |-> NoMark, at |-> 0]
             ELSE x
  <2>1. y = MarkStep(s, i, x)
    BY <1>1, LeafMarksStep
  <2> QED BY <1>1, <2>1, ExtendReadIs, MarkStepIs
<1>3. r.marked = x.marked /\ r.n = i - 1
  <2>1. CASE x.marked = NoMark
    <3>1. r = StateOf(i - 1, NotMarked, {}, NoMark)
      BY <1>1, <2>1 DEF Near, Unmarked
    <3> QED BY <2>1, <3>1, StateFields DEF NotMarked
  <2>2. CASE x.marked /= NoMark
    <3>1. r = StateOf(i - 1, x, r.under, r.tip)
      BY <1>1, <2>2 DEF Near
    <3> QED BY <3>1, StateFields
  <2> QED BY <2>1, <2>2
<1>4. CASE IsLabel(e) /\ MayRestOn(s, e.target)
  <2>1. PICK under, tip : under = Below(s.ents, e.target) \cup {e.target} /\ tip = Tip(s, y, Len(s.ents))
    OBVIOUS
  <2>2. t = StateOf(i, y, under, tip)
    BY <1>2, <1>4, <2>1 DEF Extended
  <2>3. t.under = under /\ t.tip = tip /\ y.marked = e.target
    BY <1>2, <1>4, <2>2 DEF StateOf
  <2>4. e.target /= NoMark
    BY <1>0, <1>4 DEF MayRestOn, Held, Root, NoMark
  <2> QED BY <1>1, <2>1, <2>2, <2>3, <2>4 DEF Near
<1>5. CASE ~(IsLabel(e) /\ MayRestOn(s, e.target)) /\ e.type = "clear" /\ e.target = x.marked
  <2>1. t = Unmarked(i) /\ y.marked = NoMark
    BY <1>2, <1>3, <1>5 DEF Extended
  <2> QED BY <1>1, <2>1 DEF Near
<1>6. CASE ~(IsLabel(e) /\ MayRestOn(s, e.target)) /\ ~(e.type = "clear" /\ e.target = x.marked)
  <2>1. /\ y = x
        /\ t = IF x.marked /= NoMark /\ e.parent \in r.under
               THEN UnderLabel(r, i)
               ELSE UpTo(r, i)
    BY <1>2, <1>3, <1>6 DEF Extended
  <2>2. CASE x.marked = NoMark
    <3>1. r = Unmarked(i - 1)
      BY <1>1, <2>2 DEF Near
    <3>2. t = Unmarked(i)
      BY <2>1, <2>2, <3>1, StateUpTo DEF Unmarked
    <3> QED BY <1>1, <2>1, <2>2, <3>2 DEF Near
  <2>3. CASE x.marked /= NoMark
    <3> DEFINE below == Below(s.ents, x.marked)
    <3>1. /\ r = StateOf(i - 1, x, r.under, r.tip)
          /\ \A k \in 0..i-1 : k \in below \cup {x.marked} => k \in r.under
          /\ r.under \subseteq below \cup {x.marked}
          /\ r.tip = Tip(s, x, i - 1) \/ r.tip = Tip(s, x, n)
      BY <1>0, <1>1, <2>3 DEF Near
    <3>2. /\ x.at \in 0..i-1 /\ x.marked < x.at /\ x.marked \in 0..n
          /\ below \subseteq 1..n
          /\ \A k \in 1..n : k \in below <=> s.ents[k].parent \in below \cup {x.marked}
      <4>1. i - 1 \in 0..Len(s.ents)
        BY <1>0
      <4> HIDE DEF below
      <4>2. /\ x.marked \in 0..Len(s.ents) /\ x.at \in 0..i-1 /\ x.marked < x.at
            /\ Below(s.ents, x.marked) \subseteq 1..Len(s.ents)
            /\ \A k \in 1..Len(s.ents) : k \in Below(s.ents, x.marked)
                                        <=> s.ents[k].parent \in Below(s.ents, x.marked) \cup {x.marked}
        BY <1>1, <2>3, <4>1, MarkedSpan, Zenon
      <4> QED BY <1>0, <4>2, Zenon DEF below
    <3>3. e.parent \in 0..i-1
      BY <1>1, EntryOf
    <3>4. e.parent \in r.under <=> i \in below
      BY <1>0, <1>1, <3>1, <3>2, <3>3
    <3>7. below \in SUBSET (1..n) /\ i \in 1..n
      BY <1>0, <3>2
    <3>8. below \subseteq 0..n
      BY <3>2
    <3> HIDE DEF below
    <3>5. CASE i \in below
      <4>1. t = StateOf(i, x, r.under \cup {i}, i)
        BY <2>1, <2>3, <3>1, <3>4, <3>5, StateUnder
      <4>2. t.under = r.under \cup {i} /\ t.tip = i
        BY <4>1, StateFields
      <4>3. Tip(s, x, i) = i
        <5>1. Later(s, x, i) = {k \in below : k > x.at /\ k <= i}
          BY DEF Later, below
        <5>2. i \in Later(s, x, i) /\ Later(s, x, i) \in SUBSET (0..n) /\ \A k \in Later(s, x, i) : k <= i
          <6>1. i > x.at
            BY <3>2
          <6>2. i \in Later(s, x, i)
            BY <3>5, <3>7, <5>1, <6>1
          <6>3. Later(s, x, i) \in SUBSET (0..n)
            <7>1. Later(s, x, i) \subseteq below
              BY <5>1
            <7> QED BY <3>8, <7>1
          <6>4. \A k \in Later(s, x, i) : k <= i
            BY <5>1
          <6> QED BY <6>2, <6>3, <6>4
        <5>3. Newest(Later(s, x, i)) = i
          BY <5>2, NewestSame
        <5> QED BY <5>2, <5>3 DEF Tip
      <4>4. \A k \in 0..i : k \in below \cup {x.marked} => k \in r.under \cup {i}
        BY <3>1
      <4>5. r.under \cup {i} \subseteq below \cup {x.marked}
        BY <3>1, <3>5
      <4> QED BY <1>1, <2>1, <2>3, <4>1, <4>2, <4>3, <4>4, <4>5 DEF Near, below
    <3>6. CASE i \notin below
      <4>1. t = StateOf(i, x, r.under, r.tip)
        BY <2>1, <2>3, <3>1, <3>4, <3>6, StateUpTo
      <4>2. t.under = r.under /\ t.tip = r.tip
        BY <4>1, StateFields
      <4>3. Tip(s, x, i) = Tip(s, x, i - 1)
        <5>1. \A k \in below : k <= i <=> k <= i - 1
          BY <3>6, <3>7
        <5>2. Later(s, x, i) = Later(s, x, i - 1)
          BY <5>1 DEF Later, below
        <5> QED BY <5>2 DEF Tip
      <4>4. \A k \in 0..i : k \in below \cup {x.marked} => k \in r.under
        <5>1. i /= x.marked
          BY <1>0, <3>2
        <5>2. \A k \in 0..i : k = i \/ k \in 0..i-1
          BY <1>0
        <5> QED BY <3>1, <3>6, <5>1, <5>2
      <4> QED BY <1>0, <1>1, <2>1, <2>3, <3>1, <4>1, <4>2, <4>3, <4>4 DEF Near, below
    <3> QED BY <3>5, <3>6
  <2> QED BY <2>2, <2>3
<1> QED BY <1>1, <1>4, <1>5, <1>6

-----------------------------------------------------------------------------
(* A session's own state of its lines, brought up to them.                 *)

States(n) == [n : Int, marked : Int, at : Int, under : SUBSET (0..n), tip : Int]

LEMMA StateIn ==
  ASSUME NEW n \in Nat, NEW j \in Int, NEW m, m.marked \in Int, m.at \in Int, NEW u \in SUBSET (0..n), NEW k \in Int
  PROVE  StateOf(j, m, u, k) \in States(n)
BY DEF StateOf, States

LEMMA TipSpan ==
  ASSUME NEW s, Tree(s), NEW m, m.marked \in 0..Len(s.ents)
  PROVE  Tip(s, m, Len(s.ents)) \in 0..Len(s.ents)
<1>0. PICK n \in Nat : n = Len(s.ents)
  BY EntryOf
<1>1. PICK S : S = Later(s, m, n) /\ S \subseteq 0..n
  <2>1. Below(s.ents, m.marked) \subseteq 1..n
    BY <1>0, BelowStep DEF Tree
  <2>2. Later(s, m, n) \subseteq Below(s.ents, m.marked)
    BY DEF Later
  <2>3. \A i \in Later(s, m, n) : i \in 0..n
    BY <2>1, <2>2
  <2> QED BY <2>3
<1>2. S /= {} => Newest(S) \in S
  BY <1>1, NewestIs
<1> QED BY <1>0, <1>1, <1>2 DEF Tip

LEMMA ExtendReadIn ==
  ASSUME NEW s, Tree(s), NEW n \in Nat, n = Len(s.ents), NEW i \in 1..n, NEW r \in States(n)
  PROVE  ExtendRead(s, r, i) \in States(n)
<1>1. PICK e : e = s.ents[i] /\ e.target \in Int
  BY EntryOf
<1>2. ExtendRead(s, r, i) = Extended(s, r, i, e)
  BY <1>1, ExtendReadIs
<1>3. CASE IsLabel(e) /\ MayRestOn(s, e.target)
  <2>1. e.target \in 0..n
    BY <1>3 DEF MayRestOn, Held, Root
  <2>2. PICK m, u, k : /\ m = [marked |-> e.target, at |-> i] /\ u = Below(s.ents, e.target) \cup {e.target}
                       /\ k = Tip(s, m, Len(s.ents))
    OBVIOUS
  <2>3. k \in Int
    BY <2>1, <2>2, TipSpan
  <2>4. Below(s.ents, e.target) \subseteq 1..n
    BY <2>1, BelowStep DEF Tree
  <2>5. \A x \in u : x \in 0..n
    BY <2>1, <2>2, <2>4
  <2>6. StateOf(i, m, u, k) \in States(n)
    <3>1. u \in SUBSET (0..n) /\ m.marked \in Int /\ m.at \in Int
      BY <2>1, <2>2, <2>5
    <3> QED BY <2>3, <3>1, StateIn
  <2> QED BY <1>2, <1>3, <2>2, <2>6 DEF Extended
<1>4. Unmarked(i) \in States(n)
  BY StateIn DEF Unmarked, NotMarked, NoMark
<1>5. r = StateOf(r.n, r, r.under, r.tip) /\ r.under \in SUBSET (0..n) /\ r.marked \in Int /\ r.at \in Int /\ r.tip \in Int
  BY DEF States, StateOf
<1>6. UpTo(r, i) \in States(n)
  BY DEF States, UpTo
<1>7. UnderLabel(r, i) \in States(n)
  BY <1>5 DEF States, UnderLabel
<1> QED BY <1>2, <1>3, <1>4, <1>6, <1>7 DEF Extended

LEMMA StateAtIn ==
  ASSUME NEW s, Tree(s), NEW n \in Nat, n = Len(s.ents), NEW j \in 0..n
  PROVE  StateAt(s, j) \in States(n) /\ StateAt(s, j).n = j
<1>1. PICK m : m = LeafMarks(s)[j]
  OBVIOUS
<1>2. CASE m.marked = NoMark
  <2>1. StateAt(s, j) = StateOf(j, NotMarked, {}, NoMark)
    BY <1>1, <1>2 DEF StateAt, Unmarked
  <2> QED BY <2>1, StateIn, StateFields DEF NotMarked, NoMark
<1>3. CASE m.marked /= NoMark
  <2>1. PICK u, k : /\ u = {i \in Below(s.ents, m.marked) : i <= j} \cup {m.marked} /\ k = Tip(s, m, j)
                    /\ StateAt(s, j) = StateOf(j, m, u, k)
    BY <1>1, <1>3 DEF StateAt
  <2>2. /\ m.marked \in 0..n /\ m.at \in 0..j /\ Below(s.ents, m.marked) \subseteq 1..n
        /\ Later(s, m, j) \subseteq 0..j /\ k \in {m.marked} \cup Later(s, m, j)
    BY <1>1, <1>3, <2>1, MarkedSpan
  <2>3. k \in Int /\ \A x \in u : x \in 0..n
    BY <2>1, <2>2
  <2>4. u \in SUBSET (0..n) /\ m.marked \in Int /\ m.at \in Int /\ j \in Int
    BY <2>2, <2>3
  <2> QED BY <2>1, <2>3, <2>4, StateIn, StateFields
<1> QED BY <1>2, <1>3

\* The session's state of its lines, whatever of them it was of.
Kept(s) == s.read = NoRead \/ \E j \in 0..Len(s.ents) : s.read = StateAt(s, j)

LEMMA ReadCaughtUpIs ==
  ASSUME NEW s, Tree(s), Kept(s)
  PROVE  ReadCaughtUp(s) = StateAt(s, Len(s.ents))
<1>0. PICK n \in Nat : n = Len(s.ents)
  BY EntryOf
<1>1. CASE s.read = NoRead
  BY <1>1, ReadLeafIs DEF ReadCaughtUp
<1>2. CASE s.read /= NoRead
  <2>1. PICK a \in 0..n : s.read = StateAt(s, a)
    BY <1>0, <1>2 DEF Kept
  <2>2. s.read \in States(n) /\ s.read.n = a
    BY <1>0, <2>1, StateAtIn
  <2> DEFINE Def(f) == f = [i \in s.read.n..Len(s.ents) |-> IF i = s.read.n THEN s.read ELSE ExtendRead(s, f[i - 1], i)]
  <2>3. PICK V, from, step :
          /\ V = States(n) /\ from = [i \in a..n |-> IF i = a THEN a ELSE i - 1]
          /\ step = [i \in a..n |-> [v \in V |-> IF i = a THEN v ELSE ExtendRead(s, v, i)]]
    OBVIOUS
  <2>4. PICK f : Taken(f, a, n, V, s.read, from, step)
    <3>1. ASSUME NEW i \in a..n, NEW v \in V PROVE (IF i = a THEN v ELSE ExtendRead(s, v, i)) \in V
      <4>1. CASE i = a
        BY <4>1
      <4>2. CASE i /= a
        <5>1. i \in 1..n
          BY <2>1, <4>2
        <5> QED BY <1>0, <2>3, <4>2, <5>1, ExtendReadIn
      <4> QED BY <4>1, <4>2
    <3>2. step \in [a..n -> [V -> V]]
      BY <2>3, <3>1
    <3>3. from \in [a..n -> a..n] /\ (\A i \in a..n : i > a => from[i] < i) /\ a \in Nat /\ a <= n
      BY <2>1, <2>3
    <3>4. Steps(a, n, V, s.read, from, step)
      BY <2>2, <2>3, <3>2, <3>3 DEF Steps
    <3> QED BY <3>4, Recursion
  <2>5. Def(f)
    <3>1. ASSUME NEW i \in a..n PROVE f[i] = IF i = a THEN s.read ELSE ExtendRead(s, f[i - 1], i)
      <4>1. CASE i = a
        BY <2>4, <4>1 DEF Taken
      <4>2. CASE i /= a
        <5>1. from[i] = i - 1 /\ i - 1 \in a..n
          BY <2>1, <2>3, <4>2
        <5>2. f \in [a..n -> V]
          BY <2>4 DEF Taken
        <5>3. f[i - 1] \in V
          BY <5>1, <5>2
        <5>4. f[i] = step[i][f[from[i]]]
          BY <2>4, <4>2 DEF Taken
        <5> QED BY <2>3, <4>2, <5>1, <5>3, <5>4
      <4> QED BY <4>1, <4>2
    <3>2. f = [i \in a..n |-> f[i]]
      BY <2>4 DEF Taken
    <3> QED BY <1>0, <2>2, <3>1, <3>2
  <2>6. ReadUpTo(s) = CHOOSE g : Def(g)
    BY DEF ReadUpTo
  <2>7. Def(ReadUpTo(s))
    <3> HIDE DEF Def
    <3> QED BY <2>5, <2>6
  <2>8. PICK up : up = ReadUpTo(s)
    OBVIOUS
  <2>9. \A i \in a..n : up[i] = IF i = a THEN s.read ELSE ExtendRead(s, up[i - 1], i)
    BY <1>0, <2>2, <2>7, <2>8
  <2>10. PICK T : T = {i \in a..n : Near(s, up[i], i)}
    OBVIOUS
  <2>11. ASSUME NEW i \in a..n, \A j \in a..i-1 : j \in T PROVE i \in T
    <3>1. CASE i = a
      BY <1>0, <2>1, <2>9, <2>10, <3>1, StateIsNear
    <3>2. CASE i /= a
      <4>1. i \in 1..n /\ i - 1 \in a..i-1
        BY <2>1, <3>2
      <4>2. Near(s, up[i - 1], i - 1)
        BY <2>10, <2>11, <4>1
      <4>3. Near(s, ExtendRead(s, up[i - 1], i), i)
        BY <1>0, <4>1, <4>2, NearStep
      <4> QED BY <2>9, <2>10, <3>2, <4>3
    <3> QED BY <3>1, <3>2
  <2>15. a \in Nat
    BY <2>1
  <2>12. a..n \subseteq T
    BY <2>11, <2>15, Reaching
  <2>13. Near(s, up[n], n)
    BY <2>1, <2>10, <2>12
  <2>14. up[n] = StateAt(s, n)
    BY <1>0, <2>13, NearIsState
  <2> QED BY <1>0, <1>2, <2>8, <2>14 DEF ReadCaughtUp
<1> QED BY <1>1, <1>2

-----------------------------------------------------------------------------
(* A session read from the first lines of another.                         *)
Starts(s, t) ==
  /\ Tree(s) /\ Tree(t) /\ s.base = t.base /\ Len(s.ents) <= Len(t.ents)
  /\ \A i \in 1..Len(s.ents) : s.ents[i] = t.ents[i]

LEMMA StartsRest ==
  ASSUME NEW s, NEW t, Starts(s, t), NEW i, i <= Len(s.ents), i \in Int
  PROVE  MayRestOn(s, i) <=> MayRestOn(t, i)
<1>1. Len(s.ents) \in Nat /\ Len(t.ents) \in Nat
  BY EntryOf DEF Starts
<1> QED BY <1>1 DEF Starts, MayRestOn, Held, Root

LEMMA StartsAncestry ==
  ASSUME NEW s, NEW t, Starts(s, t)
  PROVE  \A i \in 0..Len(s.ents) : Ancestry(s.ents)[i] = Ancestry(t.ents)[i]
<1>0. PICK n \in Nat, m \in Nat : n = Len(s.ents) /\ m = Len(t.ents) /\ n <= m
  BY EntryOf DEF Starts
<1>1. PICK a, c : /\ a = Ancestry(s.ents) /\ c = Ancestry(t.ents) /\ a[0] = {} /\ c[0] = {}
                  /\ \A i \in 1..n : a[i] = a[s.ents[i].parent] \cup {i}
                  /\ \A i \in 1..m : c[i] = c[t.ents[i].parent] \cup {i}
  BY <1>0, AncestryStep DEF Starts, Tree
<1>2. PICK T : T = {i \in 0..n : a[i] = c[i]}
  OBVIOUS
<1>3. ASSUME NEW i \in 0..n, \A j \in 0..i-1 : j \in T PROVE i \in T
  <2>1. CASE i = 0
    BY <1>1, <1>2, <2>1
  <2>2. CASE i /= 0
    <3>1. i \in 1..n /\ i \in 1..m /\ s.ents[i] = t.ents[i] /\ s.ents[i].parent \in 0..i-1
      BY <1>0, <2>2, EntryOf DEF Starts
    <3>2. a[s.ents[i].parent] = c[s.ents[i].parent]
      BY <1>2, <1>3, <3>1
    <3>3. a[i] = a[s.ents[i].parent] \cup {i}
      BY <1>1, <3>1
    <3>4. c[i] = c[s.ents[i].parent] \cup {i}
      BY <1>1, <3>1
    <3>5. a[i] = c[i]
      BY <3>2, <3>3, <3>4
    <3> QED BY <1>2, <3>5
  <2> QED BY <2>1, <2>2
<1>4. 0..n \subseteq T
  BY <1>3, Reaching
<1> QED BY <1>0, <1>1, <1>2, <1>4

LEMMA StartsBelow ==
  ASSUME NEW s, NEW t, Starts(s, t), NEW x \in 0..Len(s.ents)
  PROVE  Below(s.ents, x) = {i \in Below(t.ents, x) : i <= Len(s.ents)}
<1>0. PICK n \in Nat, m \in Nat : n = Len(s.ents) /\ m = Len(t.ents) /\ n <= m
  BY EntryOf DEF Starts
<1>1. PICK a, c : a = Ancestry(s.ents) /\ c = Ancestry(t.ents) /\ \A i \in 0..n : a[i] = c[i]
  BY <1>0, StartsAncestry
<1>2. Below(s.ents, x) = {i \in 1..n : x = Root \/ x \in a[i] \ {i}}
  BY <1>0, <1>1 DEF Below
<1>3. Below(t.ents, x) = {i \in 1..m : x = Root \/ x \in c[i] \ {i}}
  BY <1>0, <1>1 DEF Below
<1> QED BY <1>0, <1>1, <1>2, <1>3

LEMMA StartsLabels ==
  ASSUME NEW s, NEW t, Starts(s, t)
  PROVE  \A i \in 0..Len(s.ents) : NotOnLabel(s, i) = NotOnLabel(t, i)
<1>0. PICK n \in Nat, m \in Nat : n = Len(s.ents) /\ m = Len(t.ents) /\ n <= m
  BY EntryOf DEF Starts
<1>1. PICK T : T = {i \in 0..n : NotOnLabel(s, i) = NotOnLabel(t, i)}
  OBVIOUS
<1>2. ASSUME NEW i \in 0..n, \A j \in 0..i-1 : j \in T PROVE i \in T
  <2>1. NotOnLabel(s, i) = IF i /= 0 /\ IsLabel(s.ents[i]) THEN NotOnLabel(s, s.ents[i].parent)
                           ELSE IF i < s.base THEN s.base ELSE i
    BY <1>0, NotOnLabelStep DEF Starts
  <2>2. NotOnLabel(t, i) = IF i /= 0 /\ IsLabel(t.ents[i]) THEN NotOnLabel(t, t.ents[i].parent)
                           ELSE IF i < t.base THEN t.base ELSE i
    BY <1>0, NotOnLabelStep DEF Starts
  <2>3. CASE i = 0
    BY <1>1, <2>1, <2>2, <2>3 DEF Starts
  <2>4. CASE i /= 0
    <3>1. i \in 1..n /\ s.ents[i] = t.ents[i] /\ s.ents[i].parent \in 0..i-1 /\ s.base = t.base
      <4>1. Tree(s) /\ s.base = t.base
        BY DEF Starts
      <4>2. i \in 1..n
        BY <2>4
      <4>3. s.ents[i] = t.ents[i]
        BY <1>0, <4>2 DEF Starts
      <4> QED BY <1>0, <4>1, <4>2, <4>3, EntryOf
    <3>2. NotOnLabel(s, s.ents[i].parent) = NotOnLabel(t, s.ents[i].parent)
      BY <1>1, <1>2, <3>1
    <3> QED BY <1>1, <2>1, <2>2, <2>4, <3>1, <3>2
  <2> QED BY <2>3, <2>4
<1>3. 0..n \subseteq T
  BY <1>2, Reaching
<1> QED BY <1>0, <1>1, <1>3

LEMMA StartsMarks ==
  ASSUME NEW s, NEW t, Starts(s, t)
  PROVE  \A i \in 0..Len(s.ents) : LeafMarks(s)[i] = LeafMarks(t)[i]
<1>0. PICK n \in Nat, m \in Nat : n = Len(s.ents) /\ m = Len(t.ents) /\ n <= m
  BY EntryOf DEF Starts
<1>1. PICK T : T = {i \in 0..n : LeafMarks(s)[i] = LeafMarks(t)[i]}
  OBVIOUS
<1>2. ASSUME NEW i \in 0..n, \A j \in 0..i-1 : j \in T PROVE i \in T
  <2>1. CASE i = 0
    BY <1>1, <2>1, LeafMarksStep DEF Starts
  <2>2. CASE i /= 0
    <3>1. /\ i \in 1..n /\ i \in 1..m /\ s.ents[i] = t.ents[i] /\ i - 1 \in 0..i-1
          /\ s.ents[i].target \in Int /\ s.ents[i].target < i
      BY <1>0, <2>2, EntryOf DEF Starts
    <3>2. MayRestOn(s, s.ents[i].target) <=> MayRestOn(t, t.ents[i].target)
      <4>1. s.ents[i].target <= n
        BY <3>1
      <4> QED BY <1>0, <3>1, <4>1, StartsRest
    <3>3. PICK x : x = LeafMarks(s)[i - 1] /\ x = LeafMarks(t)[i - 1]
      BY <1>1, <1>2, <3>1
    <3>4. LeafMarks(s)[i] = MarkStep(s, i, x) /\ LeafMarks(t)[i] = MarkStep(t, i, x)
      BY <1>0, <3>1, <3>3, LeafMarksStep DEF Starts
    <3>5. MarkStep(s, i, x) = MarkStep(t, i, x)
      BY <3>1, <3>2, MarkStepIs
    <3> QED BY <1>1, <3>4, <3>5
  <2> QED BY <2>1, <2>2
<1>3. 0..n \subseteq T
  BY <1>2, Reaching
<1> QED BY <1>0, <1>1, <1>3

\* What a reader knows of the first lines does not depend on the others.
LEMMA StartsState ==
  ASSUME NEW s, NEW t, Starts(s, t), NEW j \in 0..Len(s.ents)
  PROVE  StateAt(s, j) = StateAt(t, j)
<1>0. PICK n \in Nat, m \in Nat : n = Len(s.ents) /\ m = Len(t.ents) /\ n <= m
  BY EntryOf DEF Starts
<1>1. PICK x : x = LeafMarks(s)[j] /\ x = LeafMarks(t)[j]
  BY StartsMarks
<1>2. CASE x.marked = NoMark
  BY <1>1, <1>2 DEF StateAt
<1>3. CASE x.marked /= NoMark
  <2>1. x.marked \in 0..n
    BY <1>0, <1>1, <1>3, MarkedSpan DEF Starts
  <2>2. PICK B, C : B = Below(s.ents, x.marked) /\ C = Below(t.ents, x.marked) /\ B = {i \in C : i <= n} /\ C \subseteq 1..m
    <3>1. x.marked \in 0..m
      BY <1>0, <2>1
    <3>2. Below(s.ents, x.marked) = {i \in Below(t.ents, x.marked) : i <= n}
      BY <1>0, <2>1, StartsBelow
    <3>3. Below(t.ents, x.marked) \subseteq 1..m
      BY <1>0, <3>1, BelowStep DEF Starts, Tree
    <3> QED BY <3>2, <3>3
  <2>3. \A i \in C : i <= j => i <= n
    BY <1>0, <2>2
  <2>4. {i \in B : i <= j} = {i \in C : i <= j}
    BY <2>2, <2>3
  <2>5. Later(s, x, j) = Later(t, x, j)
    BY <2>2, <2>3 DEF Later
  <2> QED BY <1>1, <1>3, <2>2, <2>4, <2>5 DEF StateAt, Tip
<1> QED BY <1>2, <1>3

-----------------------------------------------------------------------------
(* Where the head is once an entry is appended.                            *)
OneMore(s, t, e) == Starts(s, t) /\ Len(t.ents) = Len(s.ents) + 1 /\ t.ents[Len(t.ents)] = e

\* A reader's state of the lines, with one more.
LEMMA StateStep ==
  ASSUME NEW s, NEW t, Starts(s, t), Len(t.ents) = Len(s.ents) + 1
  PROVE  ExtendRead(t, StateAt(s, Len(s.ents)), Len(t.ents)) = StateAt(t, Len(t.ents))
<1>0. PICK n \in Nat : n = Len(s.ents) /\ n + 1 = Len(t.ents)
  BY EntryOf DEF Starts
<1>1. PICK r : r = StateAt(s, n) /\ r = StateAt(t, n)
  <2>1. n \in 0..Len(s.ents)
    BY <1>0
  <2> QED BY <2>1, StartsState
<1>2. Near(t, r, n)
  <2>1. n \in 0..Len(t.ents)
    BY <1>0
  <2> QED BY <1>1, <2>1, StateIsNear DEF Starts
<1>3. Near(t, ExtendRead(t, r, n + 1), n + 1)
  <2>1. n + 1 \in 1..Len(t.ents) /\ (n + 1) - 1 = n
    BY <1>0
  <2> QED BY <1>2, <2>1, NearStep DEF Starts
<1> QED BY <1>0, <1>1, <1>3, NearIsState DEF Starts

\* Where a reader's state says the head is.
LEMMA TipAt ==
  ASSUME NEW s, Tree(s), NEW n, n = Len(s.ents), NEW r, r = StateAt(s, n)
  PROVE  /\ r.marked /= NoMark => r.tip \in s.base..n /\ n > 0
         /\ r.marked \in Int /\ r.tip \in Int /\ r \in States(n)
<1>0. n \in Nat /\ s.base \in Nat
  BY EntryOf
<1>1. r \in States(n)
  BY <1>0, StateAtIn
<1>2. ASSUME r.marked /= NoMark PROVE r.tip \in s.base..n /\ n > 0
  <2>1. PICK m : m = LeafMarks(s)[n]
    OBVIOUS
  <2>2. m.marked /= NoMark
    <3>1. m.marked = NoMark => r = StateOf(n, NotMarked, {}, NoMark)
      BY <2>1 DEF StateAt, Unmarked
    <3>2. r = StateOf(n, NotMarked, {}, NoMark) => r.marked = NoMark
      BY StateFields DEF NotMarked
    <3> QED BY <1>2, <3>1, <3>2
  <2>3. r.tip = Tip(s, m, n)
    <3>1. r = StateOf(n, m, {i \in Below(s.ents, m.marked) : i <= n} \cup {m.marked}, Tip(s, m, n))
      BY <2>1, <2>2 DEF StateAt
    <3> QED BY <3>1, StateFields
  <2>4. n \in 0..Len(s.ents)
    BY <1>0
  <2>5. m.marked \in s.base..n /\ m.marked < m.at /\ m.at \in 0..n
    BY <2>1, <2>2, <2>4, LeafMarksSpan
  <2>6. /\ Below(s.ents, m.marked) \subseteq 1..n /\ \A i \in Below(s.ents, m.marked) : i > m.marked
        /\ Tip(s, m, n) \in {m.marked} \cup Later(s, m, n)
    BY <2>1, <2>2, <2>4, MarkedSpan
  <2>7. Later(s, m, n) \subseteq Below(s.ents, m.marked)
    BY DEF Later
  <2>8. n > 0
    BY <1>0, <2>5
  <2>9. CASE r.tip = m.marked
    BY <2>5, <2>8, <2>9
  <2>10. CASE r.tip \in Below(s.ents, m.marked)
    <3>1. r.tip \in 1..n /\ r.tip > m.marked
      BY <2>6, <2>10
    <3> QED BY <1>0, <2>5, <2>8, <3>1
  <2> QED BY <2>3, <2>6, <2>7, <2>9, <2>10
<1> QED BY <1>1, <1>2 DEF States

LEMMA ResolvedIs ==
  ASSUME NEW s, NEW r
  PROVE  Resolved(s, r) = IF s.ents = <<>> THEN Root
                          ELSE IF r.marked = NoMark THEN NotOnLabel(s, Len(s.ents)) ELSE NotOnLabel(s, r.tip)
BY DEF Resolved

LEMMA HeadSpan ==
  ASSUME NEW s, Tree(s)
  PROVE  ResolveLeaf(s) \in s.base..Len(s.ents)
<1>0. PICK n \in Nat : n = Len(s.ents) /\ s.base \in 0..n
  BY EntryOf
<1>1. PICK r : r = StateAt(s, n) /\ ResolveLeaf(s) = Resolved(s, r)
  BY <1>0, ReadLeafIs DEF ResolveLeaf
<1>2. ASSUME NEW i \in s.base..n PROVE NotOnLabel(s, i) \in s.base..n
  <2>1. NotOnLabel(s, i) \in s.base..i
    BY <1>0, NotOnLabelSpan
  <2> QED BY <1>0, <2>1
<1>3. CASE s.ents = <<>>
  <2>1. ResolveLeaf(s) = 0
    BY <1>1, <1>3, ResolvedIs DEF Root
  <2>2. n = 0
    BY <1>0, <1>3
  <2> QED BY <1>0, <2>1, <2>2
<1>4. CASE s.ents /= <<>> /\ r.marked = NoMark
  <2>1. n \in s.base..n
    BY <1>0
  <2> QED BY <1>0, <1>1, <1>2, <1>4, <2>1, ResolvedIs
<1>5. CASE s.ents /= <<>> /\ r.marked /= NoMark
  <2>1. r.tip \in s.base..n
    BY <1>0, <1>1, <1>5, TipAt
  <2> QED BY <1>0, <1>1, <1>2, <1>5, <2>1, ResolvedIs
<1> QED BY <1>3, <1>4, <1>5

\* A head rests on what a head may rest on.
LEMMA RestsAs ==
  ASSUME NEW s, Tree(s), NEW i, MayRestOn(s, i)
  PROVE  NotOnLabel(s, i) = i /\ i \in s.base..Len(s.ents)
<1>1. Len(s.ents) \in Nat /\ s.base \in 0..Len(s.ents)
  BY EntryOf
<1>2. i \in s.base..Len(s.ents) /\ (i = 0 \/ ~IsLabel(s.ents[i]))
  BY <1>1 DEF MayRestOn, Held, Root
<1>3. NotOnLabel(s, i) = IF i /= 0 /\ IsLabel(s.ents[i]) THEN NotOnLabel(s, s.ents[i].parent)
                         ELSE IF i < s.base THEN s.base ELSE i
  BY <1>1, <1>2, NotOnLabelStep
<1> QED BY <1>1, <1>2, <1>3

\* A leaf label on an entry a head may rest on makes it the head; any other
\* entry becomes the head, or what it hangs on does when it is a label, or the
\* head stays; and it stays when the entry hangs elsewhere than under the
\* label in force.
LEMMA HeadAfter ==
  ASSUME NEW s, NEW t, NEW e, OneMore(s, t, e), NEW n, n = Len(s.ents), NEW r, r = StateAt(s, n)
  PROVE  /\ IsLabel(e) /\ MayRestOn(t, e.target) =>
              /\ ResolveLeaf(t) = e.target
              /\ StateAt(t, n + 1).marked /= NoMark
              /\ StateAt(t, n + 1).under = Below(t.ents, e.target) \cup {e.target}
         /\ ~(IsLabel(e) /\ MayRestOn(t, e.target)) =>
              \/ ResolveLeaf(t) = ResolveLeaf(s)
              \/ ResolveLeaf(t) = IF IsLabel(e) THEN NotOnLabel(s, e.parent) ELSE n + 1
         /\ e.type \notin {"leaf", "clear"} /\ r.marked /= NoMark /\ e.parent \notin r.under =>
              ResolveLeaf(t) = ResolveLeaf(s) /\ ResolveLeaf(t) = NotOnLabel(s, r.tip)
<1>0. n \in Nat /\ Len(t.ents) = n + 1 /\ t.ents[n + 1] = e /\ Starts(s, t) /\ Tree(s) /\ Tree(t) /\ s.base \in 0..n
  BY EntryOf DEF OneMore, Starts
<1>1. t.ents /= <<>>
  BY <1>0
<1>2. PICK q : q = ReadLeafState(t)
  OBVIOUS
<1>3. q = Extended(t, r, n + 1, e)
  <2>1. ExtendRead(t, r, n + 1) = q
    BY <1>0, <1>2, StateStep, ReadLeafIs
  <2>2. n + 1 \in 1..Len(t.ents)
    BY <1>0
  <2> QED BY <1>0, <2>1, <2>2, ExtendReadIs
<1>4. /\ ResolveLeaf(t) = IF q.marked = NoMark THEN NotOnLabel(t, n + 1) ELSE NotOnLabel(t, q.tip)
      /\ ResolveLeaf(s) = IF s.ents = <<>> THEN Root ELSE IF r.marked = NoMark THEN NotOnLabel(s, n) ELSE NotOnLabel(s, r.tip)
  <2>1. ResolveLeaf(t) = IF q.marked = NoMark THEN NotOnLabel(t, n + 1) ELSE NotOnLabel(t, q.tip)
    BY <1>0, <1>1, <1>2 DEF ResolveLeaf, Resolved
  <2>2. ResolveLeaf(s) = IF s.ents = <<>> THEN Root ELSE IF r.marked = NoMark THEN NotOnLabel(s, n) ELSE NotOnLabel(s, r.tip)
    BY <1>0, ReadLeafIs, ResolvedIs DEF ResolveLeaf
  <2> QED BY <2>1, <2>2
<1>5. /\ r.marked /= NoMark => r.tip \in s.base..n /\ n > 0
      /\ r \in States(n)
  BY <1>0, TipAt
<1>6. ASSUME r.marked /= NoMark
      PROVE  NotOnLabel(t, r.tip) = NotOnLabel(s, r.tip) /\ ResolveLeaf(s) = NotOnLabel(s, r.tip)
  <2>1. r.tip \in 0..n /\ s.ents /= <<>>
    BY <1>0, <1>5, <1>6
  <2>2. NotOnLabel(t, r.tip) = NotOnLabel(s, r.tip)
    BY <1>0, <2>1, StartsLabels
  <2> QED BY <1>4, <1>6, <2>1, <2>2
<1>7. NotOnLabel(t, n + 1) = IF IsLabel(e) THEN NotOnLabel(s, e.parent) ELSE n + 1
  <2>1. n + 1 \in 0..Len(t.ents) /\ n + 1 /= 0 /\ t.base = s.base /\ ~(n + 1 < t.base)
    BY <1>0 DEF Starts
  <2>2. NotOnLabel(t, n + 1) = IF IsLabel(e) THEN NotOnLabel(t, e.parent) ELSE n + 1
    BY <1>0, <2>1, NotOnLabelStep
  <2>3. e.parent \in 0..n
    <3>1. n + 1 \in 1..Len(t.ents)
      BY <1>0
    <3>2. e.parent \in 0..(n + 1) - 1
      BY <1>0, <3>1, EntryOf
    <3> QED BY <1>0, <3>2
  <2>4. NotOnLabel(t, e.parent) = NotOnLabel(s, e.parent)
    BY <1>0, <2>3, StartsLabels
  <2> QED BY <2>2, <2>4
<1>8. CASE IsLabel(e) /\ MayRestOn(t, e.target)
  <2>1. PICK m, u, k : /\ m = [marked |-> e.target, at |-> n + 1] /\ u = Below(t.ents, e.target) \cup {e.target}
                       /\ k = Tip(t, m, n + 1)
    OBVIOUS
  <2>2. q = StateOf(n + 1, m, u, k)
    BY <1>0, <1>3, <1>8, <2>1 DEF Extended
  <2>3. q.marked = e.target /\ q.tip = k
    BY <2>1, <2>2, StateFields
  <2>4. k = e.target
    <3>1. Below(t.ents, e.target) \subseteq 1..n+1
      <4>1. e.target \in 0..Len(t.ents)
        BY <1>0, <1>8 DEF MayRestOn, Held, Root
      <4> QED BY <1>0, <4>1, BelowStep DEF Tree
    <3>2. Later(t, m, n + 1) = {}
      BY <1>0, <2>1, <3>1 DEF Later
    <3> QED BY <2>1, <3>2 DEF Tip
  <2>5. NotOnLabel(t, e.target) = e.target /\ e.target /= NoMark
    <3>1. NotOnLabel(t, e.target) = e.target /\ e.target \in t.base..Len(t.ents)
      BY <1>0, <1>8, RestsAs
    <3> QED BY <1>0, <3>1 DEF Starts, NoMark
  <2>6. ResolveLeaf(t) = e.target
    BY <1>4, <2>3, <2>4, <2>5
  <2>7. StateAt(t, n + 1) = q
    BY <1>0, <1>2, ReadLeafIs
  <2>8. q.under = Below(t.ents, e.target) \cup {e.target}
    BY <2>1, <2>2, StateFields
  <2> QED BY <1>8, <2>3, <2>5, <2>6, <2>7, <2>8 DEF IsLabel
<1>9. CASE ~(IsLabel(e) /\ MayRestOn(t, e.target)) /\ e.type = "clear" /\ e.target = r.marked
  <2>1. q = StateOf(n + 1, NotMarked, {}, NoMark)
    BY <1>3, <1>9 DEF Extended, Unmarked
  <2>2. q.marked = NoMark
    BY <2>1, StateFields DEF NotMarked
  <2>3. ResolveLeaf(t) = IF IsLabel(e) THEN NotOnLabel(s, e.parent) ELSE n + 1
    BY <1>4, <1>7, <2>2
  <2> QED BY <1>9, <2>3
<1>10. CASE ~(IsLabel(e) /\ MayRestOn(t, e.target)) /\ ~(e.type = "clear" /\ e.target = r.marked)
  <2>1. q = IF r.marked /= NoMark /\ e.parent \in r.under THEN UnderLabel(r, n + 1) ELSE UpTo(r, n + 1)
    BY <1>3, <1>10 DEF Extended
  <2>2. UnderLabel(r, n + 1).marked = r.marked /\ UnderLabel(r, n + 1).tip = n + 1
    BY DEF UnderLabel
  <2>3. UpTo(r, n + 1).marked = r.marked /\ UpTo(r, n + 1).tip = r.tip
    BY <1>5 DEF UpTo, States
  <2>4. CASE r.marked = NoMark
    <3>1. ResolveLeaf(t) = IF IsLabel(e) THEN NotOnLabel(s, e.parent) ELSE n + 1
      BY <1>4, <1>7, <2>1, <2>3, <2>4
    <3> QED BY <1>10, <2>4, <3>1
  <2>5. CASE r.marked /= NoMark /\ e.parent \in r.under
    <3>1. ResolveLeaf(t) = IF IsLabel(e) THEN NotOnLabel(s, e.parent) ELSE n + 1
      BY <1>4, <1>7, <2>1, <2>2, <2>5
    <3> QED BY <1>10, <2>5, <3>1
  <2>6. CASE r.marked /= NoMark /\ e.parent \notin r.under
    <3>1. ResolveLeaf(t) = NotOnLabel(s, r.tip) /\ ResolveLeaf(t) = ResolveLeaf(s)
      BY <1>4, <1>6, <2>1, <2>3, <2>6
    <3> QED BY <1>10, <3>1
  <2> QED BY <2>4, <2>5, <2>6
<1> QED BY <1>8, <1>9, <1>10

-----------------------------------------------------------------------------
(* A session a store writes: its entries are a tree, its leaf is one of    *)
(* its own, and the reader's state it keeps, if any, is one of its lines.  *)
Sound(s) == IsSession(s) /\ Tree(s) /\ s.leaf \in s.base..Len(s.ents) /\ Kept(s)

\* An entry a session may take.
Hangs(s, e) ==
  /\ e \in Entry /\ e.parent \in s.base..Len(s.ents) /\ e.target <= Len(s.ents)

LEMMA EntryMade == \A x, y \in Int, k \in {"item", "output", "leaf", "clear"} : [type |-> k, parent |-> x, target |-> y] \in Entry
BY DEF Entry

LEMMA HeadSame ==
  ASSUME NEW s, NEW t, Starts(s, t), Len(s.ents) = Len(t.ents)
  PROVE  ResolveLeaf(s) = ResolveLeaf(t)
<1>0. PICK n \in Nat : n = Len(s.ents) /\ n = Len(t.ents) /\ Tree(s) /\ Tree(t) /\ s.base \in 0..n
  BY EntryOf DEF Starts
<1>1. PICK r : r = StateAt(s, n) /\ r = StateAt(t, n)
  BY <1>0, StartsState
<1>2. ResolveLeaf(s) = Resolved(s, r) /\ ResolveLeaf(t) = Resolved(t, r)
  BY <1>0, <1>1, ReadLeafIs DEF ResolveLeaf
<1>3. r.marked /= NoMark => r.tip \in 0..n
  <2>1. r.marked /= NoMark => r.tip \in s.base..n
    BY <1>0, <1>1, TipAt
  <2> QED BY <1>0, <2>1
<1>4. NotOnLabel(s, n) = NotOnLabel(t, n) /\ (r.marked /= NoMark => NotOnLabel(s, r.tip) = NotOnLabel(t, r.tip))
  BY <1>0, <1>3, StartsLabels
<1>5. s.ents = <<>> <=> t.ents = <<>>
  <2>1. PICK S : s.ents \in Seq(S) /\ t.ents \in Seq(S)
    BY <1>0 DEF Tree, Lines
  <2> QED BY <1>0, <2>1
<1> QED BY <1>0, <1>2, <1>4, <1>5, ResolvedIs

\* Sessions with the same entries have the same reader's states.
LEMMA SameEntries ==
  ASSUME NEW s, Tree(s), NEW t, t.ents = s.ents, t.base = s.base
  PROVE  /\ Starts(s, t) /\ Starts(t, s) /\ Tree(t)
         /\ \A j \in 0..Len(s.ents) : StateAt(s, j) = StateAt(t, j)
         /\ Kept(s) /\ t.read = s.read => Kept(t)
<1>1. Starts(s, t) /\ Starts(t, s) /\ Tree(t)
  BY EntryOf DEF Starts, Tree
<1>2. \A j \in 0..Len(s.ents) : StateAt(s, j) = StateAt(t, j)
  BY <1>1, StartsState
<1> QED BY <1>1, <1>2 DEF Kept

\* One more line.
LEMMA LinesMore ==
  ASSUME NEW l, NEW b, Lines(l, b), NEW e \in Entry, e.parent \in b..Len(l), e.target <= Len(l)
  PROVE  /\ Lines(Append(l, e), b) /\ Len(Append(l, e)) = Len(l) + 1 /\ Append(l, e)[Len(l) + 1] = e
         /\ \A i \in 1..Len(l) : Append(l, e)[i] = l[i]
<1>1. PICK n \in Nat : n = Len(l) /\ b \in 0..n /\ l \in Seq(Entry)
  BY DEF Lines
<1>2. PICK m : m = Append(l, e)
  OBVIOUS
<1>3. m \in Seq(Entry) /\ Len(m) = n + 1 /\ m[n + 1] = e /\ \A i \in 1..n : m[i] = l[i]
  BY <1>1, <1>2
<1>4. ASSUME NEW i \in 1..n + 1
      PROVE  /\ m[i].parent \in 0..i-1 /\ m[i].target < i
             /\ i <= b => m[i].parent = i - 1 /\ m[i].type = "item"
             /\ i > b /\ b > 0 => m[i].parent >= b
  <2>1. CASE i \in 1..n
    BY <1>1, <1>3, <2>1 DEF Lines
  <2>2. CASE i = n + 1
    <3>1. e.target \in Int
      BY DEF Entry
    <3> QED BY <1>1, <1>3, <2>2, <3>1
  <2> QED BY <1>1, <2>1, <2>2
<1> QED BY <1>1, <1>2, <1>3, <1>4 DEF Lines

LEMMA RestSame ==
  ASSUME NEW s, NEW t, t.ents = s.ents, t.base = s.base, NEW i
  PROVE  MayRestOn(s, i) <=> MayRestOn(t, i)
BY DEF MayRestOn, Held

LEMMA CommitSound ==
  ASSUME NEW s, Sound(s), NEW e, Hangs(s, e), NEW t, t = Commit(s, e)
  PROVE  /\ Sound(t) /\ OneMore(s, t, e) /\ t.ents = Append(s.ents, e)
         /\ IsLabel(e) => t.leaf = IF MayRestOn(t, e.target) THEN e.target ELSE s.leaf
         /\ ~IsLabel(e) => t.leaf = IF e.parent = s.leaf THEN Len(s.ents) + 1 ELSE s.leaf
<1>0. PICK n \in Nat : n = Len(s.ents) /\ s.base \in 0..n /\ s.leaf \in s.base..n /\ Tree(s) /\ IsSession(s)
  BY EntryOf DEF Sound
<1>1. PICK m : m = MoveLeafFor(Add(s, e), e, n + 1)
  OBVIOUS
<1>2. t = [ents |-> Append(s.ents, e), base |-> s.base, leaf |-> m, read |-> s.read]
  <2>1. Commit(s, e) = [[s EXCEPT !.ents = Append(s.ents, e)] EXCEPT !.leaf = m]
    BY <1>0, <1>1 DEF Commit, Add
  <2> QED BY <1>0, <2>1, SessionSet
<1>3. t.ents = Append(s.ents, e) /\ t.base = s.base /\ t.leaf = m /\ t.read = s.read
  BY <1>2
<1>4. /\ Lines(t.ents, s.base) /\ Len(t.ents) = n + 1 /\ t.ents[n + 1] = e
      /\ \A i \in 1..n : t.ents[i] = s.ents[i]
  BY <1>0, <1>3, LinesMore DEF Hangs, Tree
<1>5. Tree(t) /\ Starts(s, t) /\ OneMore(s, t, e)
  BY <1>0, <1>3, <1>4 DEF Tree, Starts, OneMore
<1>6. IsSession(t)
  BY <1>2, <1>3, <1>4 DEF IsSession, IsSeq, Lines
<1>7. PICK a : a = Add(s, e) /\ a.ents = t.ents /\ a.base = t.base /\ a.leaf = s.leaf
  <2>1. PICK l : l = Append(s.ents, e)
    OBVIOUS
  <2>2. Add(s, e) = [s EXCEPT !.ents = l]
    BY <2>1 DEF Add
  <2>3. [s EXCEPT !.ents = l] = [ents |-> l, base |-> s.base, leaf |-> s.leaf, read |-> s.read]
    BY <1>0 DEF IsSession
  <2> QED BY <1>3, <2>1, <2>2, <2>3
<1>8. MayRestOn(a, e.target) <=> MayRestOn(t, e.target)
  BY <1>7, RestSame
<1>9. /\ IsLabel(e) => m = IF MayRestOn(t, e.target) THEN e.target ELSE s.leaf
      /\ ~IsLabel(e) => m = IF e.parent = s.leaf THEN n + 1 ELSE s.leaf
  BY <1>1, <1>7, <1>8 DEF MoveLeafFor, OutcomeFor
<1>10. m \in s.base..n + 1
  <2>1. MayRestOn(t, e.target) => e.target \in s.base..n + 1
    BY <1>3, <1>4, <1>5, RestsAs
  <2> QED BY <1>0, <1>9, <2>1
<1>11. Kept(t)
  <2>1. CASE s.read = NoRead
    BY <1>3, <2>1 DEF Kept
  <2>2. CASE s.read /= NoRead
    <3>1. PICK j \in 0..n : s.read = StateAt(s, j)
      BY <1>0, <2>2 DEF Sound, Kept
    <3>2. StateAt(s, j) = StateAt(t, j) /\ j \in 0..n + 1
      BY <1>0, <1>5, <3>1, StartsState
    <3> QED BY <1>3, <1>4, <3>1, <3>2 DEF Kept
  <2> QED BY <2>1, <2>2
<1> QED BY <1>0, <1>3, <1>4, <1>5, <1>6, <1>9, <1>10, <1>11 DEF Sound

LEMMA CaughtUpSound ==
  ASSUME NEW s, Sound(s), NEW t, t = CaughtUp(s)
  PROVE  Sound(t) /\ t.ents = s.ents /\ t.base = s.base /\ t.leaf = s.leaf
<1>1. CASE t = s
  BY <1>1
<1>2. CASE t = [s EXCEPT !.read = ReadCaughtUp(s)]
  <2>0. IsSession(s) /\ Tree(s) /\ Len(s.ents) \in 0..Len(s.ents)
    BY EntryOf DEF Sound
  <2>1. PICK r : r = ReadCaughtUp(s) /\ r = StateAt(s, Len(s.ents))
    BY ReadCaughtUpIs DEF Sound
  <2>2. t = [ents |-> s.ents, base |-> s.base, leaf |-> s.leaf, read |-> r]
    BY <1>2, <2>0, <2>1 DEF IsSession
  <2>3. t.ents = s.ents /\ t.base = s.base /\ t.leaf = s.leaf /\ t.read = r /\ IsSession(t)
    BY <2>0, <2>2 DEF IsSession
  <2>4. Tree(t) /\ r = StateAt(t, Len(s.ents))
    BY <2>0, <2>1, <2>3, SameEntries
  <2> QED BY <2>0, <2>3, <2>4 DEF Sound, Kept
<1> QED BY <1>1, <1>2 DEF CaughtUp

\* The label that keeps the head, appended.
LEMMA MarkSound ==
  ASSUME NEW s, Sound(s), NEW t, t = Commit(s, LeafMark(s))
  PROVE  /\ Sound(t) /\ OneMore(s, t, LeafMark(s)) /\ t.leaf = s.leaf
         /\ MayRestOn(s, s.leaf) =>
              /\ ResolveLeaf(t) = s.leaf
              /\ StateAt(t, Len(t.ents)).marked /= NoMark
              /\ StateAt(t, Len(t.ents)).under = Below(t.ents, s.leaf) \cup {s.leaf}
<1>1. PICK e : e = LeafMark(s) /\ e = [type |-> "leaf", parent |-> s.leaf, target |-> s.leaf]
  BY DEF LeafMark
<1>2. PICK n \in Nat : n = Len(s.ents) /\ s.base \in 0..n /\ s.leaf \in s.base..n
  BY EntryOf DEF Sound
<1>3. Hangs(s, e) /\ IsLabel(e) /\ e.target = s.leaf
  <2>1. e.type = "leaf" /\ e.parent = s.leaf /\ e.target = s.leaf
    BY <1>1
  <2>2. s.leaf \in Int /\ s.leaf <= Len(s.ents) /\ s.leaf \in s.base..Len(s.ents)
    BY <1>2
  <2>4. e \in Entry
    BY <1>1, <2>2, EntryMade
  <2> QED BY <2>1, <2>2, <2>4 DEF Hangs, IsLabel
<1>4. Sound(t) /\ OneMore(s, t, e) /\ t.leaf = s.leaf
  BY <1>1, <1>3, CommitSound
<1>5. ASSUME MayRestOn(s, s.leaf)
      PROVE  /\ ResolveLeaf(t) = s.leaf
             /\ StateAt(t, Len(t.ents)).marked /= NoMark
             /\ StateAt(t, Len(t.ents)).under = Below(t.ents, s.leaf) \cup {s.leaf}
  <2>1. MayRestOn(t, s.leaf)
    BY <1>2, <1>4, <1>5, StartsRest DEF OneMore
  <2>2. PICK r : r = StateAt(s, n)
    OBVIOUS
  <2>3. /\ ResolveLeaf(t) = s.leaf /\ StateAt(t, n + 1).marked /= NoMark
        /\ StateAt(t, n + 1).under = Below(t.ents, s.leaf) \cup {s.leaf}
    BY <1>2, <1>3, <1>4, <2>1, <2>2, HeadAfter
  <2> QED BY <1>2, <1>4, <2>3 DEF OneMore
<1> QED BY <1>1, <1>4, <1>5

\* A session, its reader's state caught up, whose lines with a label when one
\* is needed read back as its leaf.
LEMMA SettledHead ==
  ASSUME NEW c, Sound(c), NEW d, d = Settled(c)
  PROVE  /\ Sound(d) /\ Starts(c, d) /\ d.leaf = c.leaf /\ Len(d.ents) \in {Len(c.ents), Len(c.ents) + 1}
         /\ d = c \/ OneMore(c, d, LeafMark(c))
         /\ MayRestOn(d, d.leaf) => ResolveLeaf(d) = d.leaf
<1>0. PICK n \in Nat : n = Len(c.ents) /\ c.base \in 0..n /\ c.leaf \in c.base..n /\ Tree(c) /\ Kept(c)
  BY EntryOf DEF Sound
<1>1. CASE LeafMarkNeeded(c) = {}
  <2>1. d = c
    BY <1>1 DEF Settled, Labelled
  <2>2. Starts(c, c)
    BY <1>0, SameEntries
  <2>3. ASSUME MayRestOn(c, c.leaf) PROVE ResolveLeaf(c) = c.leaf
    <3>1. c.ents = <<>> \/ Resolved(c, ReadCaughtUp(c)) = c.leaf
      BY <1>1, <2>3 DEF LeafMarkNeeded
    <3>2. ReadCaughtUp(c) = ReadLeafState(c)
      BY <1>0, ReadCaughtUpIs, ReadLeafIs
    <3>3. c.ents = <<>> => c.leaf = Root
      BY <1>0 DEF Root
    <3> QED BY <3>1, <3>2, <3>3, ResolvedIs DEF ResolveLeaf
  <2> QED BY <2>1, <2>2, <2>3
<1>2. CASE LeafMarkNeeded(c) /= {}
  <2>1. LeafMarkNeeded(c) = {LeafMark(c)} /\ MayRestOn(c, c.leaf)
    BY <1>2 DEF LeafMarkNeeded
  <2>2. d = Commit(c, LeafMark(c))
    BY <2>1 DEF Settled, Labelled
  <2>3. Sound(d) /\ OneMore(c, d, LeafMark(c)) /\ d.leaf = c.leaf /\ ResolveLeaf(d) = d.leaf
    BY <2>1, <2>2, MarkSound
  <2> QED BY <1>0, <2>3 DEF OneMore
<1> QED BY <1>1, <1>2

\* What a host's entry is of the session it goes to.
Hosted(s, e) ==
  /\ Hangs(s, e)
  /\ e.type = "clear" => e.parent = s.leaf
  /\ IsLabel(e) => e.parent = s.leaf \/ MayRestOn(s, e.target)

LEMMA HostsHang ==
  ASSUME NEW s, Sound(s)
  PROVE  /\ \A e \in Appendable(s) : Hosted(s, e)
         /\ \A to \in 0..Len(s.ents) : \A e \in HeadLabel(s, s.leaf, to) : Hosted(s, e)
<1>0. PICK n \in Nat : n = Len(s.ents) /\ s.base \in 0..n /\ s.leaf \in s.base..n /\ Tree(s)
  BY EntryOf DEF Sound
<1>2. ASSUME NEW e \in Appendable(s) PROVE Hosted(s, e)
  <2>1. PICK P : P = {q \in 0..n : CheckParentRule(s, q)}
    OBVIOUS
  <2>2. P \subseteq s.base..n
    BY <1>0, <2>1 DEF CheckParentRule, CheckOwnParent, Root
  <2>3. \/ e \in [type : Kinds \cap {"item", "output"}, parent : P, target : {Root}]
        \/ e \in [type : Kinds \cap {"leaf", "clear"}, parent : P \cap {s.leaf}, target : {Nowhere} \cup 0..n]
    BY <1>0, <2>1 DEF Appendable
  <2>4. /\ e = [type |-> e.type, parent |-> e.parent, target |-> e.target] /\ e.parent \in P /\ e.target \in {Nowhere} \cup 0..n
        /\ e.type \in {"item", "output", "leaf", "clear"} /\ (e.type \in {"leaf", "clear"} => e.parent = s.leaf)
    BY <1>0, <2>3 DEF Root
  <2>5. e.parent \in s.base..n /\ e.parent \in Int /\ e.target \in Int /\ e.target <= n
    BY <1>0, <2>2, <2>4 DEF Nowhere
  <2>6. e \in Entry
    BY <2>4, <2>5, EntryMade
  <2> QED BY <1>0, <2>4, <2>5, <2>6 DEF Hosted, Hangs, IsLabel
<1>3. ASSUME NEW to \in 0..n, NEW e \in HeadLabel(s, s.leaf, to) PROVE Hosted(s, e)
  <2>1. MayRestOn(s, to) /\ e = [type |-> "leaf", parent |-> IF to = Root THEN s.leaf ELSE to, target |-> to]
    BY <1>3 DEF HeadLabel
  <2>2. to \in s.base..n
    BY <1>0, <2>1, RestsAs
  <2>3. e.parent \in s.base..n /\ e.parent \in Int /\ e.target = to /\ e.target \in Int /\ e.type = "leaf"
        /\ e = [type |-> e.type, parent |-> e.parent, target |-> e.target]
    BY <1>0, <2>1, <2>2
  <2>4. e \in Entry
    BY <2>3, EntryMade
  <2> QED BY <1>0, <2>1, <2>3, <2>4 DEF Hosted, Hangs
<1> QED BY <1>0, <1>2, <1>3

\* What goes out ahead of an entry: nothing, or the label that keeps the head.
LEMMA AheadSound ==
  ASSUME NEW s, Sound(s), NEW e, NEW a, a = Labelled(s, LeafMarkBefore(s, e))
  PROVE  /\ Sound(a) /\ Starts(s, a) /\ a.leaf = s.leaf
         /\ \/ a = s
            \/ OneMore(s, a, LeafMark(s)) /\ a = Commit(s, LeafMark(s))
<1>1. CASE LeafMarkBefore(s, e) = {}
  <2>1. a = s
    BY <1>1 DEF Labelled
  <2> QED BY <2>1, SameEntries DEF Sound
<1>2. CASE LeafMarkBefore(s, e) /= {}
  <2>1. LeafMarkBefore(s, e) = {LeafMark(s)}
    BY <1>2 DEF LeafMarkBefore
  <2>2. a = Commit(s, LeafMark(s))
    BY <2>1 DEF Labelled
  <2> QED BY <1>2, <2>2, MarkSound DEF OneMore
<1> QED BY <1>1, <1>2

LEMMA StartsOn ==
  ASSUME NEW r, NEW s, NEW t, Starts(r, s), Starts(s, t)
  PROVE  Starts(r, t)
<1>1. Len(r.ents) \in Nat /\ Len(s.ents) \in Nat /\ Len(t.ents) \in Nat
  BY EntryOf DEF Starts
<1> QED BY <1>1 DEF Starts

\* The head once e is in, when e hangs elsewhere than under the head and the
\* head may rest: a label keeps it, in force before or put ahead of e.
LEMMA BranchKeepsHead ==
  ASSUME NEW s, Sound(s), MayRestOn(s, s.leaf), NEW e, Hosted(s, e), ~IsLabel(e),
         NEW a, a = Labelled(s, LeafMarkBefore(s, e)), NEW b, b = Commit(a, e),
         e.parent /= s.leaf, s.leaf /= Root, s.leaf \notin PathTo(s, e.parent)
  PROVE  ResolveLeaf(b) = s.leaf
<1>0. PICK n \in Nat : n = Len(s.ents) /\ s.base \in 0..n /\ s.leaf \in s.base..n /\ Tree(s) /\ Kept(s)
  BY EntryOf DEF Sound
<1>1. Sound(a) /\ Starts(s, a) /\ a.leaf = s.leaf
  BY AheadSound
<1>2. Len(a.ents) \in Nat /\ n <= Len(a.ents) /\ a.base = s.base /\ Tree(a)
  BY <1>0, <1>1, EntryOf DEF Starts, Sound
<1>3. Hangs(a, e) /\ e.type \notin {"leaf", "clear"} /\ e.parent \in 0..n
  BY <1>0, <1>2 DEF Hosted, Hangs, IsLabel, Entry
<1>4. OneMore(a, b, e)
  BY <1>1, <1>3, CommitSound
<1>5. PICK r : r = StateAt(a, Len(a.ents))
  OBVIOUS
<1>6. r.marked /= NoMark /\ e.parent \notin r.under => ResolveLeaf(b) = ResolveLeaf(a) /\ ResolveLeaf(b) = NotOnLabel(a, r.tip)
  BY <1>2, <1>3, <1>4, <1>5, HeadAfter
<1>7. CASE a = s
  <2>1. LeafMarkBefore(s, e) = {}
    <3> SUFFICES ASSUME LeafMarkBefore(s, e) /= {} PROVE FALSE
      OBVIOUS
    <3>1. LeafMarkBefore(s, e) = {LeafMark(s)}
      BY DEF LeafMarkBefore
    <3>2. a = Commit(s, LeafMark(s))
      BY <3>1 DEF Labelled
    <3>3. OneMore(s, a, LeafMark(s))
      BY <3>2, MarkSound
    <3> QED BY <1>0, <1>7, <3>3 DEF OneMore
  <2>2. KeptByLabel(s, ReadCaughtUp(s), e.parent)
    BY <2>1 DEF LeafMarkBefore
  <2>3. ReadCaughtUp(s) = r
    BY <1>0, <1>5, <1>7, ReadCaughtUpIs
  <2> QED BY <1>6, <1>7, <2>2, <2>3 DEF KeptByLabel
<1>8. CASE a = Commit(s, LeafMark(s))
  <2>1. ResolveLeaf(a) = s.leaf /\ r.marked /= NoMark /\ r.under = Below(a.ents, s.leaf) \cup {s.leaf}
    BY <1>5, <1>8, MarkSound
  <2>2. s.leaf \in 1..Len(a.ents) /\ e.parent \in 0..Len(a.ents)
    BY <1>0, <1>2, <1>3 DEF Root
  <2>3. PathTo(s, e.parent) = PathTo(a, e.parent)
    BY <1>0, <1>1, <1>3, StartsAncestry DEF PathTo
  <2>4. e.parent \notin r.under
    BY <1>2, <2>1, <2>2, <2>3, OnPath
  <2> QED BY <1>6, <2>1, <2>4
<1> QED BY <1>7, <1>8, AheadSound

\* An entry committed, and the label after it if one is needed.
LEMMA CommittedRest ==
  ASSUME NEW a, Sound(a), NEW e, Hangs(a, e), NEW b, b = Commit(a, e), NEW d, d = Settled(CaughtUp(b))
  PROVE  /\ Sound(b) /\ OneMore(a, b, e) /\ Sound(d) /\ Starts(b, d) /\ d.leaf = b.leaf
         /\ MayRestOn(d, d.leaf) => ResolveLeaf(d) = d.leaf
         /\ \/ Len(d.ents) = Len(b.ents)
            \/ Len(d.ents) = Len(b.ents) + 1 /\ IsLabel(d.ents[Len(d.ents)])
<1>1. Sound(b) /\ OneMore(a, b, e) /\ Tree(b) /\ Len(b.ents) \in Nat
  BY CommitSound, EntryOf DEF Sound
<1>2. PICK c : c = CaughtUp(b) /\ Sound(c) /\ c.ents = b.ents /\ c.base = b.base /\ c.leaf = b.leaf
  BY <1>1, CaughtUpSound
<1>3. /\ Sound(d) /\ Starts(c, d) /\ d.leaf = c.leaf /\ (MayRestOn(d, d.leaf) => ResolveLeaf(d) = d.leaf)
      /\ d = c \/ OneMore(c, d, LeafMark(c))
  BY <1>2, SettledHead
<1>4. Starts(b, d)
  BY <1>1, <1>2, <1>3, SameEntries, StartsOn
<1>5. IsLabel(LeafMark(c))
  BY DEF IsLabel, LeafMark
<1> QED BY <1>1, <1>2, <1>3, <1>4, <1>5 DEF OneMore

\* Where the head may rest, the entry alone reads back as a head the append may
\* leave when it is cut short after it.
LEMMA HeadPart ==
  ASSUME NEW s, Sound(s), MayRestOn(s, s.leaf), NEW e, Hosted(s, e),
         NEW a, a = Labelled(s, LeafMarkBefore(s, e)), NEW b, b = Commit(a, e)
  PROVE  \/ ResolveLeaf(b) \in {ResolveLeaf(s), s.leaf, b.leaf}
         \/ /\ ~IsLabel(e) /\ ResolveLeaf(b) = Len(a.ents) + 1
            /\ s.leaf = Root \/ s.leaf \in PathTo(s, e.parent)
<1>0. PICK n \in Nat : n = Len(s.ents) /\ s.base \in 0..n /\ s.leaf \in s.base..n /\ Tree(s)
  BY EntryOf DEF Sound
<1>1. /\ Sound(a) /\ Starts(s, a) /\ a.leaf = s.leaf /\ Tree(a) /\ a.base = s.base
      /\ Len(a.ents) \in Nat /\ n <= Len(a.ents)
  BY <1>0, AheadSound, EntryOf DEF Starts
<1>2. Hangs(a, e)
  BY <1>0, <1>1 DEF Hosted, Hangs, Entry
<1>3. /\ Sound(b) /\ OneMore(a, b, e)
      /\ IsLabel(e) => b.leaf = IF MayRestOn(b, e.target) THEN e.target ELSE s.leaf
      /\ ~IsLabel(e) => b.leaf = IF e.parent = s.leaf THEN Len(a.ents) + 1 ELSE s.leaf
  BY <1>1, <1>2, CommitSound
<1>4. ResolveLeaf(a) \in {ResolveLeaf(s), s.leaf}
  <2>1. a = s \/ a = Commit(s, LeafMark(s))
    BY AheadSound
  <2> QED BY <2>1, MarkSound
<1>5. /\ IsLabel(e) /\ MayRestOn(b, e.target) => ResolveLeaf(b) = e.target
      /\ ~(IsLabel(e) /\ MayRestOn(b, e.target)) =>
           \/ ResolveLeaf(b) = ResolveLeaf(a)
           \/ ResolveLeaf(b) = IF IsLabel(e) THEN NotOnLabel(a, e.parent) ELSE Len(a.ents) + 1
  <2>1. PICK r : r = StateAt(a, Len(a.ents))
    OBVIOUS
  <2> QED BY <1>3, <2>1, HeadAfter
<1>6. CASE IsLabel(e) /\ MayRestOn(b, e.target)
  BY <1>3, <1>5, <1>6
<1>7. CASE IsLabel(e) /\ ~MayRestOn(b, e.target)
  <2>1. e.parent = s.leaf
    <3>1. e.target \in Int /\ e.target <= n /\ Starts(s, b)
      BY <1>0, <1>1, <1>3, StartsOn DEF Hosted, Hangs, Entry, OneMore
    <3>2. ~MayRestOn(s, e.target)
      BY <1>0, <1>7, <3>1, StartsRest
    <3> QED BY <1>7, <3>2 DEF Hosted
  <2>2. NotOnLabel(a, s.leaf) = s.leaf
    <3>1. s.leaf <= Len(s.ents) /\ s.leaf \in Int
      BY <1>0
    <3>2. MayRestOn(a, s.leaf)
      BY <1>1, <3>1, StartsRest
    <3> QED BY <1>1, <3>2, RestsAs
  <2> QED BY <1>4, <1>5, <1>7, <2>1, <2>2
<1>8. CASE ~IsLabel(e)
  <2>1. CASE s.leaf = Root \/ s.leaf \in PathTo(s, e.parent)
    BY <1>4, <1>5, <1>8, <2>1
  <2>2. CASE e.parent = s.leaf
    BY <1>3, <1>4, <1>5, <1>8, <2>2
  <2>3. CASE e.parent /= s.leaf /\ s.leaf /= Root /\ s.leaf \notin PathTo(s, e.parent)
    BY <1>8, <2>3, BranchKeepsHead
  <2> QED BY <2>1, <2>2, <2>3
<1> QED BY <1>6, <1>7, <1>8

\* Every prefix of what an append writes reads back a head it may leave there.
LEMMA WrittenHeads ==
  ASSUME NEW s, Sound(s), NEW e, Hosted(s, e), NEW d, d = Written(s, e)
  PROVE  /\ Sound(d) /\ Starts(s, d) /\ Len(d.ents) > Len(s.ents)
         /\ \A q : Starts(q, d) /\ Len(q.ents) > Len(s.ents) =>
              ResolveLeaf(q) \in HeadsOf(s, e, d, ResolveLeaf(s))[Len(q.ents) - Len(s.ents)]
<1>0. PICK n \in Nat : n = Len(s.ents) /\ s.base \in 0..n /\ s.leaf \in s.base..n /\ Tree(s)
  BY EntryOf DEF Sound
<1>1. PICK a, b : a = Labelled(s, LeafMarkBefore(s, e)) /\ b = Commit(a, e) /\ d = Settled(CaughtUp(b))
  BY DEF Written
<1>2. PICK m \in Nat : /\ m = Len(a.ents) /\ n <= m /\ Sound(a) /\ Starts(s, a) /\ a.leaf = s.leaf /\ Tree(a) /\ a.base = s.base
                       /\ a = s \/ (OneMore(s, a, LeafMark(s)) /\ a = Commit(s, LeafMark(s)))
  <2>1. Sound(a) /\ Starts(s, a) /\ a.leaf = s.leaf /\ (a = s \/ (OneMore(s, a, LeafMark(s)) /\ a = Commit(s, LeafMark(s))))
    BY <1>1, AheadSound
  <2>2. Tree(a) /\ a.base = s.base /\ Len(s.ents) <= Len(a.ents)
    BY <2>1 DEF Starts
  <2>3. Len(a.ents) \in Nat
    BY <2>2, EntryOf
  <2> QED BY <1>0, <2>1, <2>2, <2>3
<1>3. Hangs(a, e)
  BY <1>0, <1>2 DEF Hosted, Hangs, Entry
<1>4. /\ Sound(b) /\ OneMore(a, b, e) /\ Sound(d) /\ Starts(b, d) /\ d.leaf = b.leaf
      /\ MayRestOn(d, d.leaf) => ResolveLeaf(d) = d.leaf
      /\ \/ Len(d.ents) = Len(b.ents)
         \/ Len(d.ents) = Len(b.ents) + 1 /\ IsLabel(d.ents[Len(d.ents)])
  BY <1>1, <1>2, <1>3, CommittedRest
<1>5. /\ Starts(a, b) /\ Len(b.ents) = m + 1 /\ b.ents[m + 1] = e /\ Len(d.ents) \in {m + 1, m + 2}
      /\ Starts(a, d) /\ Starts(s, d) /\ d.ents[m + 1] = e /\ Starts(s, b)
  <2>1. Starts(a, b) /\ Len(b.ents) = m + 1 /\ b.ents[m + 1] = e
    BY <1>2, <1>4 DEF OneMore
  <2>2. Starts(a, d) /\ Starts(s, b)
    BY <1>2, <1>4, <2>1, StartsOn
  <2>3. Starts(s, d)
    BY <1>2, <2>2, StartsOn
  <2>4. m + 1 \in 1..Len(b.ents)
    BY <2>1
  <2>5. d.ents[m + 1] = e
    BY <1>4, <2>1, <2>4 DEF Starts
  <2> QED BY <1>4, <2>1, <2>2, <2>3, <2>5
<1>6. PICK h : h = HeadsOf(s, e, d, ResolveLeaf(s))
  OBVIOUS
<1>7. PICK at : at = CHOOSE i \in Len(s.ents) + 1..Len(d.ents) : d.ents[i] = e
  OBVIOUS
<1>8. ~IsLabel(e) => at = m + 1
  <2> SUFFICES ASSUME ~IsLabel(e) PROVE at = m + 1
    OBVIOUS
  <2>1. m + 1 \in n + 1..Len(d.ents) /\ d.ents[m + 1] = e
    BY <1>2, <1>5
  <2>2. ASSUME NEW i \in n + 1..Len(d.ents), d.ents[i] = e PROVE i = m + 1
    <3>1. CASE i <= m
      <4>1. OneMore(s, a, LeafMark(s)) /\ i = m /\ m = n + 1
        BY <1>0, <1>2, <3>1 DEF OneMore
      <4>2. d.ents[m] = LeafMark(s)
        BY <1>2, <1>5, <4>1 DEF OneMore, Starts
      <4> QED BY <2>2, <4>1, <4>2 DEF IsLabel, LeafMark
    <3>2. CASE i = m + 2
      BY <1>4, <1>5, <2>2, <3>2
    <3> QED BY <1>5, <3>1, <3>2
  <2>3. at = CHOOSE i \in n + 1..Len(d.ents) : d.ents[i] = e
    BY <1>0, <1>7
  <2> QED BY <2>1, <2>2, <2>3
<1>9. PICK part, whole :
        /\ part = IF ~MayRestOn(s, s.leaf) THEN 0..Len(d.ents)
                  ELSE {ResolveLeaf(s), s.leaf, d.leaf}
                       \cup (IF s.leaf = Root \/ s.leaf \in PathTo(s, e.parent) THEN {at} ELSE {})
        /\ whole = IF MayRestOn(d, d.leaf) THEN {d.leaf} ELSE 0..Len(d.ents)
        /\ h = [k \in 1..Len(d.ents) - n |-> IF k = Len(d.ents) - n THEN whole ELSE part]
  <2>1. PICK part, whole :
          /\ part = IF ~MayRestOn(s, s.leaf) THEN 0..Len(d.ents)
                    ELSE {ResolveLeaf(s), s.leaf, d.leaf}
                         \cup (IF s.leaf = Root \/ s.leaf \in PathTo(s, e.parent) THEN {at} ELSE {})
          /\ whole = IF MayRestOn(d, d.leaf) THEN {d.leaf} ELSE 0..Len(d.ents)
    OBVIOUS
  <2>2. h = [k \in 1..Len(d.ents) - Len(s.ents) |-> IF k = Len(d.ents) - Len(s.ents) THEN whole ELSE part]
    BY <1>6, <1>7, <2>1 DEF HeadsOf
  <2> QED BY <1>0, <2>1, <2>2
<1>10. ASSUME NEW q, Starts(q, d), Len(q.ents) > n PROVE ResolveLeaf(q) \in h[Len(q.ents) - n]
  <2>0. PICK k \in 1..Len(d.ents) - n : k = Len(q.ents) - n /\ Len(q.ents) = n + k /\ Tree(q) /\ q.base = s.base
    <3>1. Tree(q) /\ q.base = s.base /\ Len(q.ents) <= Len(d.ents)
      BY <1>5, <1>10 DEF Starts
    <3>2. Len(q.ents) \in Nat
      BY <3>1, EntryOf
    <3>3. Len(q.ents) - n \in 1..Len(d.ents) - n /\ Len(q.ents) = n + (Len(q.ents) - n)
      BY <1>0, <1>2, <1>5, <1>10, <3>1, <3>2
    <3> QED BY <3>1, <3>3
  <2>1. ResolveLeaf(q) \in 0..Len(d.ents)
    <3>1. ResolveLeaf(q) \in q.base..Len(q.ents) /\ Len(q.ents) <= Len(d.ents) /\ Len(q.ents) \in Nat /\ Len(d.ents) \in Nat
      BY <1>5, <1>10, <2>0, HeadSpan, EntryOf DEF Starts
    <3> QED BY <1>0, <2>0, <3>1
  <2>2. CASE k = Len(d.ents) - n
    <3>1. ResolveLeaf(q) = ResolveLeaf(d)
      BY <1>0, <1>5, <1>10, <2>0, <2>2, HeadSame
    <3> QED BY <1>4, <1>9, <2>0, <2>1, <2>2, <3>1
  <2>3. CASE k /= Len(d.ents) - n /\ ~MayRestOn(s, s.leaf)
    BY <1>9, <2>0, <2>1, <2>3
  <2>4. CASE k /= Len(d.ents) - n /\ MayRestOn(s, s.leaf)
    <3>1. h[k] = part /\ part = {ResolveLeaf(s), s.leaf, d.leaf}
                       \cup (IF s.leaf = Root \/ s.leaf \in PathTo(s, e.parent) THEN {at} ELSE {})
      BY <1>9, <2>0, <2>4
    <3>2. n + k = m \/ n + k = m + 1
      <4>1. m = n \/ m = n + 1
        BY <1>0, <1>2 DEF OneMore
      <4>2. PICK x \in Nat : x = Len(d.ents) /\ x \in {m + 1, m + 2}
        BY <1>2, <1>5
      <4>3. k \in 1..x - n /\ k /= x - n
        BY <2>0, <2>4, <4>2
      <4>4. \A i, j, l, y \in Int : (j = i \/ j = i + 1) /\ y \in {j + 1, j + 2} /\ l \in 1..y - i /\ l /= y - i
                                   => i + l = j \/ i + l = j + 1
        OBVIOUS
      <4>5. k \in Int /\ m \in Int /\ n \in Int /\ x \in Int
        BY <1>0, <1>2, <4>2, <4>3
      <4> QED BY <4>1, <4>2, <4>3, <4>4, <4>5
    <3>3. CASE n + k = m
      <4>1. Starts(q, a)
        <5>1. Len(q.ents) = Len(a.ents) /\ Len(a.ents) = m /\ m <= Len(d.ents)
          BY <1>2, <1>5, <2>0, <3>3
        <5> QED BY <1>2, <1>5, <1>10, <2>0, <5>1 DEF Starts
      <4>2. ResolveLeaf(q) = ResolveLeaf(a)
        BY <1>2, <2>0, <3>3, <4>1, HeadSame
      <4>3. a /= s
        BY <1>0, <1>2, <2>0, <3>3
      <4>4. ResolveLeaf(a) = s.leaf
        BY <1>2, <2>4, <4>3, MarkSound
      <4> QED BY <2>0, <3>1, <4>2, <4>4
    <3>4. CASE n + k = m + 1
      <4>1. Starts(q, b)
        <5>1. Len(q.ents) = Len(b.ents) /\ Len(b.ents) = m + 1 /\ m + 1 <= Len(d.ents) /\ Tree(b) /\ b.base = s.base
          BY <1>2, <1>4, <1>5, <2>0, <3>4 DEF Starts
        <5>2. \A i \in 1..m + 1 : q.ents[i] = b.ents[i]
          BY <1>4, <1>5, <1>10, <2>0, <5>1 DEF Starts
        <5> QED BY <2>0, <5>1, <5>2 DEF Starts
      <4>2. ResolveLeaf(q) = ResolveLeaf(b)
        BY <1>5, <2>0, <3>4, <4>1, HeadSame
      <4>3. \/ ResolveLeaf(b) \in {ResolveLeaf(s), s.leaf, b.leaf}
            \/ /\ ~IsLabel(e) /\ ResolveLeaf(b) = m + 1
               /\ s.leaf = Root \/ s.leaf \in PathTo(s, e.parent)
        <5>1. \/ ResolveLeaf(b) \in {ResolveLeaf(s), s.leaf, b.leaf}
              \/ /\ ~IsLabel(e) /\ ResolveLeaf(b) = Len(a.ents) + 1
                 /\ s.leaf = Root \/ s.leaf \in PathTo(s, e.parent)
          BY <1>1, <2>4, HeadPart
        <5> QED BY <1>2, <5>1
      <4> QED BY <1>4, <1>8, <2>0, <3>1, <4>2, <4>3
    <3> QED BY <3>2, <3>3, <3>4
  <2> QED BY <2>2, <2>3, <2>4
<1>11. Len(d.ents) > n
  BY <1>0, <1>2, <1>5
<1> QED BY <1>0, <1>4, <1>5, <1>6, <1>10, <1>11

LEMMA MadeSeq ==
  ASSUME NEW n \in Nat, NEW S, NEW f \in [1..n -> S]
  PROVE  f \in Seq(S) /\ Len(f) = n
OBVIOUS

LEMMA HeadsMade ==
  ASSUME NEW s, NEW e, NEW d, NEW was, NEW h, h = HeadsOf(s, e, d, was), Len(d.ents) - Len(s.ents) \in Nat
  PROVE  IsSeq(h) /\ Len(h) = Len(d.ents) - Len(s.ents)
<1>0. PICK j \in Nat : j = Len(d.ents) - Len(s.ents)
  OBVIOUS
<1>1. PICK at, part, whole :
        /\ at = CHOOSE i \in Len(s.ents) + 1 .. Len(d.ents) : d.ents[i] = e
        /\ part = IF ~MayRestOn(s, s.leaf) THEN 0..Len(d.ents)
                  ELSE {was, s.leaf, d.leaf}
                       \cup (IF s.leaf = Root \/ s.leaf \in PathTo(s, e.parent) THEN {at} ELSE {})
        /\ whole = IF MayRestOn(d, d.leaf) THEN {d.leaf} ELSE 0..Len(d.ents)
  OBVIOUS
<1>2. h = [k \in 1..j |-> IF k = j THEN whole ELSE part]
  BY <1>0, <1>1 DEF HeadsOf
<1>3. PICK S, f : S = {part, whole} /\ f = [k \in 1..j |-> IF k = j THEN whole ELSE part]
  OBVIOUS
<1>4. f \in [1..j -> S]
  BY <1>3
<1>5. f \in Seq(S) /\ Len(f) = j
  BY <1>4, MadeSeq
<1> QED BY <1>0, <1>2, <1>3, <1>5 DEF IsSeq

\* What a transaction writes reads back as its session's leaf.
LEMMA RowsSound ==
  ASSUME NEW s, Sound(s), NEW e, Hosted(s, e), NEW d, d = RowsOf(s, e)
  PROVE  /\ Sound(d) /\ Starts(s, d) /\ Len(d.ents) > Len(s.ents)
         /\ MayRestOn(d, d.leaf) => ResolveLeaf(d) = d.leaf
<1>1. PICK b : b = Commit(s, e) /\ d = Settled(CaughtUp(b))
  BY DEF RowsOf
<1>2. /\ Sound(b) /\ OneMore(s, b, e) /\ Sound(d) /\ Starts(b, d)
      /\ MayRestOn(d, d.leaf) => ResolveLeaf(d) = d.leaf
  BY <1>1, CommittedRest DEF Hosted
<1>3. Starts(s, b) /\ Len(b.ents) = Len(s.ents) + 1 /\ Len(b.ents) <= Len(d.ents)
  BY <1>2 DEF OneMore, Starts
<1>4. Starts(s, d)
  BY <1>2, <1>3, StartsOn
<1>5. Len(s.ents) \in Nat /\ Len(d.ents) \in Nat
  BY <1>2, EntryOf DEF Sound
<1> QED BY <1>2, <1>3, <1>4, <1>5

\* A session read from lines.
LEMMA ReadSound ==
  ASSUME NEW l, NEW b, Lines(l, b), NEW q, q = ReadSession(l, b)
  PROVE  Sound(q) /\ q.ents = l /\ q.base = b /\ q.leaf = ResolveLeaf(q)
<1>1. PICK s : s = [ents |-> l, base |-> b, leaf |-> Root, read |-> NoRead]
  OBVIOUS
<1>2. PICK m : m = ResolveLeaf(s)
  OBVIOUS
<1>3. q = [ents |-> l, base |-> b, leaf |-> m, read |-> NoRead]
  <2>1. q = [s EXCEPT !.leaf = m]
    BY <1>1, <1>2 DEF ReadSession
  <2> QED BY <1>1, <2>1
<1>4. s.ents = l /\ s.base = b /\ Tree(s) /\ q.ents = l /\ q.base = b /\ q.leaf = m /\ q.read = NoRead
  BY <1>1, <1>3 DEF Tree
<1>5. Starts(s, q) /\ Tree(q) /\ Len(q.ents) = Len(s.ents)
  BY <1>4, SameEntries
<1>6. ResolveLeaf(s) = ResolveLeaf(q)
  BY <1>5, HeadSame
<1>7. m \in q.base..Len(q.ents)
  BY <1>2, <1>5, <1>6, HeadSpan
<1>8. IsSession(q)
  BY <1>3, <1>4 DEF IsSession, IsSeq, Lines
<1> QED BY <1>2, <1>4, <1>5, <1>6, <1>7, <1>8 DEF Sound, Kept

LEMMA FirstLines ==
  ASSUME NEW l, NEW b, Lines(l, b), NEW k \in b..Len(l)
  PROVE  /\ Lines(SubSeq(l, 1, k), b) /\ Len(SubSeq(l, 1, k)) = k
         /\ \A i \in 1..k : SubSeq(l, 1, k)[i] = l[i]
<1>1. PICK n \in Nat : n = Len(l) /\ b \in 0..n /\ l \in Seq(Entry)
  BY DEF Lines
<1>2. PICK m : m = SubSeq(l, 1, k)
  OBVIOUS
<1>3. m \in Seq(Entry) /\ Len(m) = k /\ \A i \in 1..k : m[i] = l[i]
  BY <1>1, <1>2, FirstOnes
<1>4. 1..k \subseteq 1..n /\ b \in 0..k
  BY <1>1
<1> QED BY <1>1, <1>2, <1>3, <1>4 DEF Lines

\* A session of the first of these lines, and lines that read back, however
\* many of them there are.
Of(q, l, b) ==
  /\ Tree(q) /\ q.base = b /\ Len(q.ents) <= Len(l)
  /\ \A i \in 1..Len(q.ents) : q.ents[i] = l[i]

ReadsBack(l, b, hs) ==
  /\ IsSeq(hs) /\ Len(hs) = Len(l)
  /\ \A q : Of(q, l, b) /\ Len(q.ents) > 0 => ResolveLeaf(q) \in hs[Len(q.ents)]

\* The prefix a fork opens with.
LEMMA PrefixSound ==
  ASSUME NEW n \in Nat, NEW q, q = [ents |-> Prefix(n), base |-> n, leaf |-> n, read |-> NoRead]
  PROVE  /\ Sound(q) /\ Lines(Prefix(n), n) /\ Len(Prefix(n)) = n /\ ResolveLeaf(q) = n
         /\ q.ents = Prefix(n) /\ q.base = n /\ q.leaf = n
         /\ ReadsBack(Prefix(n), n, [i \in 1..n |-> {n}])
<1>1. PICK l : l = Prefix(n)
  OBVIOUS
<1>2. \A i \in 1..n : [type |-> "item", parent |-> i - 1, target |-> 0] \in Entry
  <2>1. \A i \in 1..n : i - 1 \in Int /\ 0 \in Int
    OBVIOUS
  <2> QED BY <2>1, EntryMade
<1>3. l \in Seq(Entry) /\ Len(l) = n /\ \A i \in 1..n : l[i].parent = i - 1 /\ l[i].target = 0 /\ l[i].type = "item"
  <2>1. l = [i \in 1..n |-> [type |-> "item", parent |-> i - 1, target |-> 0]]
    BY <1>1 DEF Prefix, Root
  <2> QED BY <1>2, <2>1
<1>4. Lines(l, n)
  BY <1>3 DEF Lines
<1>5. q.ents = l /\ q.base = n /\ q.leaf = n /\ q.read = NoRead /\ IsSession(q)
  BY <1>1, <1>3 DEF IsSession, IsSeq
<1>6. Sound(q) /\ Tree(q)
  BY <1>3, <1>4, <1>5 DEF Sound, Tree, Kept
<1>7. ASSUME NEW x, Tree(x), x.base = n, Len(x.ents) <= n PROVE ResolveLeaf(x) = n /\ Len(x.ents) = n
  <2>1. Len(x.ents) \in Nat /\ n <= Len(x.ents)
    BY <1>7, EntryOf
  <2>2. ResolveLeaf(x) \in n..Len(x.ents) /\ Len(x.ents) = n
    BY <1>7, <2>1, HeadSpan
  <2> QED BY <2>2
<1>8. PICK x, hs : x = {n} /\ hs = [i \in 1..n |-> x]
  OBVIOUS
<1>9. ReadsBack(l, n, hs)
  <2>1. hs \in Seq({x}) /\ Len(hs) = n
    BY <1>8, MadeSeq, hs \in [1..n -> {x}]
  <2>2. ASSUME NEW r, Of(r, l, n), Len(r.ents) > 0 PROVE ResolveLeaf(r) \in hs[Len(r.ents)]
    <3>1. ResolveLeaf(r) = n /\ Len(r.ents) = n
      BY <1>3, <1>7, <2>2 DEF Of
    <3> QED BY <1>8, <2>2, <3>1
  <2> QED BY <1>3, <2>1, <2>2 DEF ReadsBack, IsSeq
<1> QED BY <1>1, <1>3, <1>4, <1>5, <1>6, <1>7, <1>8, <1>9

\* What an append writes, or part of it, reads back.
WritesPart(s, e, d, hs, new, k, l) ==
  /\ Sound(s) /\ Hosted(s, e) /\ d = Written(s, e)
  /\ ReadsBack(s.ents, s.base, hs) /\ new = HeadsOf(s, e, d, ResolveLeaf(s))
  /\ k \in 0..Len(d.ents) - Len(s.ents) /\ IsSeq(l) /\ Len(l) = Len(s.ents) + k
  /\ \A i \in 1..Len(l) : l[i] = d.ents[i]

LEMMA WriteReadsBack ==
  ASSUME NEW s, NEW e, NEW d, NEW hs, NEW new, NEW k, NEW l, WritesPart(s, e, d, hs, new, k, l)
  PROVE  Lines(l, s.base) /\ ReadsBack(l, s.base, hs \o SubSeq(new, 1, k))
<1>w. /\ Sound(s) /\ Hosted(s, e) /\ d = Written(s, e)
      /\ ReadsBack(s.ents, s.base, hs) /\ new = HeadsOf(s, e, d, ResolveLeaf(s))
      /\ k \in 0..Len(d.ents) - Len(s.ents) /\ IsSeq(l) /\ Len(l) = Len(s.ents) + k
      /\ \A i \in 1..Len(l) : l[i] = d.ents[i]
  BY DEF WritesPart
<1>0. PICK n \in Nat, m \in Nat : /\ n = Len(s.ents) /\ m = Len(d.ents) /\ n < m /\ s.base \in 0..n /\ Tree(s) /\ Starts(s, d)
                                  /\ Sound(d) /\ Tree(d) /\ d.base = s.base
  <2>1. Sound(d) /\ Starts(s, d) /\ Len(d.ents) > Len(s.ents)
    BY <1>w, WrittenHeads
  <2>2. Tree(s) /\ Tree(d) /\ d.base = s.base
    BY <2>1 DEF Starts
  <2>3. Len(s.ents) \in Nat /\ Len(d.ents) \in Nat /\ s.base \in 0..Len(s.ents)
    BY <2>2, EntryOf
  <2> QED BY <2>1, <2>2, <2>3
<1>1. k \in 0..m - n /\ n + k <= m /\ n + k \in s.base..m /\ k \in Nat
  BY <1>w, <1>0
<1>2. PICK f : f = SubSeq(d.ents, 1, n + k) /\ Lines(f, s.base) /\ Len(f) = n + k /\ \A i \in 1..n + k : f[i] = d.ents[i]
  <2>1. PICK x : x = n + k /\ x \in s.base..Len(d.ents)
    BY <1>0, <1>1
  <2>2. Lines(d.ents, s.base)
    BY <1>0 DEF Tree
  <2>3. Lines(SubSeq(d.ents, 1, x), s.base) /\ Len(SubSeq(d.ents, 1, x)) = x /\ \A i \in 1..x : SubSeq(d.ents, 1, x)[i] = d.ents[i]
    BY <2>1, <2>2, FirstLines
  <2> QED BY <2>1, <2>3
<1>3. l = f
  <2>1. PICK S : l \in Seq(S)
    BY <1>w DEF IsSeq
  <2>2. l \in Seq(S \cup Entry) /\ f \in Seq(S \cup Entry)
    BY <1>2, <2>1, SeqWiden DEF Lines
  <2> QED BY <1>w, <1>0, <1>2, <2>2, SameSeqs
<1>4. PICK H : hs \in Seq(H) /\ Len(hs) = n
  BY <1>w, <1>0 DEF ReadsBack, IsSeq
<1>5. PICK N : new \in Seq(N) /\ Len(new) = m - n
  <2>1. Len(d.ents) - Len(s.ents) = m - n /\ Len(d.ents) - Len(s.ents) \in Nat
    BY <1>0
  <2>2. PICK was : new = HeadsOf(s, e, d, was)
    BY <1>w
  <2>3. IsSeq(new) /\ Len(new) = Len(d.ents) - Len(s.ents)
    BY <2>1, <2>2, HeadsMade
  <2> QED BY <2>1, <2>3 DEF IsSeq
<1>a. PICK u : u = SubSeq(new, 1, k)
  OBVIOUS
<1>b. u \in Seq(N) /\ Len(u) = k /\ \A i \in 1..k : u[i] = new[i]
  <2>1. k \in 0..Len(new)
    BY <1>1, <1>5
  <2> QED BY <1>5, <1>a, <2>1, FirstOnes
<1>c. PICK g : g = hs \o u
  OBVIOUS
<1>6. /\ IsSeq(g) /\ Len(g) = n + k
      /\ \A i \in 1..n : g[i] = hs[i]
      /\ \A i \in n + 1..n + k : g[i] = new[i - n]
  <2>0. PICK U : U = H \cup N
    OBVIOUS
  <2>1. hs \in Seq(U) /\ u \in Seq(U)
    <3>1. H \subseteq U /\ N \subseteq U
      BY <2>0
    <3> QED BY <1>4, <1>b, <3>1, SeqWiden
  <2>2. /\ g \in Seq(U) /\ Len(g) = Len(hs) + Len(u) /\ (\A i \in 1..Len(hs) : g[i] = hs[i])
        /\ \A i \in Len(hs) + 1..Len(hs) + Len(u) : g[i] = u[i - Len(hs)]
    BY <1>c, <2>1, JoinedSeqs
  <2>3. /\ Len(g) = n + k /\ (\A i \in 1..n : g[i] = hs[i])
        /\ \A i \in n + 1..n + k : g[i] = u[i - n]
    BY <1>4, <1>b, <2>2
  <2>4. \A i \in n + 1..n + k : i - n \in 1..k
    BY <1>0, <1>1
  <2>5. IsSeq(g)
    BY <2>2 DEF IsSeq
  <2> QED BY <1>b, <2>3, <2>4, <2>5
<1>7. ASSUME NEW q, Of(q, l, s.base), Len(q.ents) > 0 PROVE ResolveLeaf(q) \in g[Len(q.ents)]
  <2>0. PICK j \in 1..n + k : j = Len(q.ents) /\ Tree(q) /\ q.base = s.base /\ \A i \in 1..j : q.ents[i] = d.ents[i]
    <3>1. Tree(q) /\ q.base = s.base /\ Len(q.ents) <= n + k /\ Len(q.ents) \in Nat
      BY <1>2, <1>3, <1>7, EntryOf DEF Of
    <3>2. Len(q.ents) \in 1..n + k
      BY <1>0, <1>1, <1>7, <3>1
    <3>3. \A i \in 1..Len(q.ents) : i \in 1..n + k
      BY <1>0, <1>1, <3>2
    <3>4. \A i \in 1..Len(q.ents) : q.ents[i] = d.ents[i]
      BY <1>2, <1>3, <1>7, <3>3 DEF Of
    <3> QED BY <3>1, <3>2, <3>4
  <2>1. CASE j <= n
    <3>1. \A i \in 1..j : i \in 1..n
      BY <1>0, <2>1
    <3>2. \A i \in 1..j : q.ents[i] = s.ents[i]
      BY <1>0, <2>0, <3>1 DEF Starts
    <3>3. Of(q, s.ents, s.base)
      BY <1>0, <2>0, <2>1, <3>2 DEF Of
    <3>4. ResolveLeaf(q) \in hs[j]
      BY <1>w, <1>7, <2>0, <3>3 DEF ReadsBack
    <3> QED BY <1>6, <2>0, <2>1, <3>4
  <2>2. CASE j > n
    <3>1. Starts(q, d)
      BY <1>0, <1>1, <2>0 DEF Starts
    <3>2. ResolveLeaf(q) \in new[j - n]
      BY <1>w, <1>0, <2>0, <2>2, <3>1, WrittenHeads
    <3>3. j \in n + 1..n + k
      BY <1>0, <1>1, <2>0, <2>2
    <3> QED BY <1>6, <2>0, <3>2, <3>3
  <2> QED BY <1>0, <2>0, <2>1, <2>2
<1> QED BY <1>0, <1>2, <1>3, <1>6, <1>7, <1>a, <1>c DEF ReadsBack

-----------------------------------------------------------------------------
(* A follower that takes a session's lines one at a time.                  *)

\* The session of the first i of these lines, and the one a follower has of
\* them that opened with the first b.
AsRead(l, b, i) == ReadSession(SubSeq(l, 1, i), b)

AsFollowed(l, b, i) ==
  [ents |-> SubSeq(l, 1, i), base |-> b, leaf |-> ResolveLeaf(AsRead(l, b, i)),
   read |-> IF i = b THEN NoRead ELSE StateAt(AsRead(l, b, i), i)]

LEMMA ReadAsIs ==
  ASSUME NEW ents, NEW b, NEW leaf, NEW read, NEW s, s = [ents |-> ents, base |-> b, leaf |-> leaf, read |-> read], NEW r
  PROVE  ReadAs(s, r) = [ents |-> ents, base |-> b, leaf |-> Resolved(s, r), read |-> r]
<1>1. PICK m : m = Resolved(s, r)
  OBVIOUS
<1>2. ReadAs(s, r) = [s EXCEPT !.read = r, !.leaf = m]
  BY <1>1 DEF ReadAs
<1> QED BY <1>1, <1>2

LEMMA AsReadIs ==
  ASSUME NEW l, NEW b, Lines(l, b), NEW i \in b..Len(l)
  PROVE  /\ AsRead(l, b, i).ents = SubSeq(l, 1, i) /\ AsRead(l, b, i).base = b /\ Sound(AsRead(l, b, i))
         /\ Tree(AsRead(l, b, i)) /\ Len(SubSeq(l, 1, i)) = i /\ i \in Nat
         /\ AsRead(l, b, i).leaf = ResolveLeaf(AsRead(l, b, i))
<1>1. Lines(SubSeq(l, 1, i), b) /\ Len(SubSeq(l, 1, i)) = i
  BY FirstLines
<1>2. PICK q : q = AsRead(l, b, i)
  OBVIOUS
<1>3. Sound(q) /\ q.ents = SubSeq(l, 1, i) /\ q.base = b /\ q.leaf = ResolveLeaf(q)
  <2>1. PICK m : m = SubSeq(l, 1, i)
    OBVIOUS
  <2>2. q = ReadSession(m, b) /\ Lines(m, b)
    BY <1>1, <1>2, <2>1 DEF AsRead
  <2>3. Sound(q) /\ q.ents = m /\ q.base = b /\ q.leaf = ResolveLeaf(q)
    BY <2>2, ReadSound
  <2> QED BY <2>1, <2>3
<1>4. i \in Nat
  BY DEF Lines
<1> QED BY <1>1, <1>2, <1>3, <1>4 DEF Sound

LEMMA FollowStep ==
  ASSUME NEW l, NEW b, Lines(l, b), NEW i \in b + 1..Len(l)
  PROVE  Extend(AsFollowed(l, b, i - 1), l[i]) = AsFollowed(l, b, i)
<1>0. PICK n \in Nat : n = Len(l) /\ b \in 0..n /\ i \in 1..n /\ i - 1 \in b..n /\ i \in b..n /\ l \in Seq(Entry) /\ i /= b
  BY DEF Lines
<1>1. PICK p, c : p = AsRead(l, b, i - 1) /\ c = AsRead(l, b, i)
  OBVIOUS
<1>2. PICK pe, ce : pe = SubSeq(l, 1, i - 1) /\ ce = SubSeq(l, 1, i)
  OBVIOUS
<1>3. /\ p.ents = pe /\ p.base = b /\ Tree(p) /\ Len(pe) = i - 1 /\ p.leaf = ResolveLeaf(p)
      /\ c.ents = ce /\ c.base = b /\ Tree(c) /\ Len(ce) = i /\ c.leaf = ResolveLeaf(c)
  BY <1>0, <1>1, <1>2, AsReadIs
<1>4. PICK rp, m : rp = (IF i - 1 = b THEN NoRead ELSE StateAt(p, i - 1)) /\ m = ResolveLeaf(p)
  OBVIOUS
<1>5. PICK s : s = [ents |-> pe, base |-> b, leaf |-> m, read |-> rp]
  OBVIOUS
<1>6. s = AsFollowed(l, b, i - 1)
  BY <1>1, <1>2, <1>4, <1>5 DEF AsFollowed
<1>7. Append(pe, l[i]) = ce /\ ce[i] = l[i]
  BY <1>0, <1>2
<1>8. PICK t : t = [ents |-> ce, base |-> b, leaf |-> m, read |-> rp]
  OBVIOUS
<1>9. Add(s, l[i]) = t
  <2>1. Add(s, l[i]) = [s EXCEPT !.ents = ce]
    BY <1>5, <1>7 DEF Add
  <2> QED BY <1>5, <1>8, <2>1
<1>10. /\ s.ents = pe /\ s.base = b /\ s.read = rp /\ t.ents = ce /\ t.base = b
  BY <1>5, <1>8
<1>11. Tree(s) /\ Starts(p, s) /\ Tree(t) /\ Starts(c, t) /\ Starts(s, p)
  BY <1>3, <1>10, SameEntries
<1>12. ReadOf(s) = StateAt(s, i - 1)
  <2>0. Len(s.ents) = i - 1 /\ i - 1 \in 0..Len(s.ents) /\ i - 1 \in 0..Len(p.ents)
    BY <1>0, <1>3, <1>10
  <2>1. StateAt(p, i - 1) = StateAt(s, i - 1)
    BY <1>11, <2>0, StartsState
  <2>2. ReadLeafState(s) = StateAt(s, i - 1)
    BY <1>11, <2>0, ReadLeafIs
  <2>3. CASE i - 1 = b
    <3>1. s.read.n = -1
      BY <1>4, <1>10, <2>3 DEF NoRead
    <3> QED BY <1>0, <2>0, <2>2, <3>1 DEF ReadOf
  <2>4. CASE i - 1 /= b
    BY <1>4, <1>10, <2>1, <2>2, <2>4 DEF ReadOf
  <2> QED BY <2>3, <2>4
<1>13. Starts(s, t) /\ Len(s.ents) = i - 1 /\ Len(t.ents) = i
  <2>1. Len(s.ents) = i - 1 /\ Len(t.ents) = i
    BY <1>3, <1>10
  <2>2. \A j \in 1..i - 1 : pe[j] = ce[j]
    BY <1>0, <1>2
  <2> QED BY <1>0, <1>10, <1>11, <2>1, <2>2 DEF Starts
<1>14. PICK r : r = StateAt(c, i) /\ r = StateAt(t, i)
  <2>1. i \in 0..Len(c.ents)
    BY <1>0, <1>3
  <2> QED BY <1>11, <2>1, StartsState
<1>15. ExtendRead(t, StateAt(s, i - 1), i) = r
  <2>1. Len(t.ents) = Len(s.ents) + 1
    BY <1>0, <1>13
  <2> QED BY <1>13, <1>14, <2>1, StateStep
<1>16. Extend(s, l[i]) = ReadAs(t, r)
  <2>1. Len(s.ents) + 1 = i
    BY <1>0, <1>13
  <2> QED BY <1>9, <1>12, <1>15, <2>1 DEF Extend
<1>17. Resolved(t, r) = ResolveLeaf(c)
  <2>1. Len(c.ents) = Len(t.ents)
    BY <1>3, <1>10
  <2>2. ResolveLeaf(c) = ResolveLeaf(t)
    BY <1>11, <2>1, HeadSame
  <2>3. ReadLeafState(t) = r
    BY <1>11, <1>13, <1>14, ReadLeafIs
  <2> QED BY <2>2, <2>3 DEF ResolveLeaf
<1>18. ReadAs(t, r) = [ents |-> ce, base |-> b, leaf |-> ResolveLeaf(c), read |-> r]
  BY <1>8, <1>17, ReadAsIs
<1>19. AsFollowed(l, b, i) = [ents |-> ce, base |-> b, leaf |-> ResolveLeaf(c), read |-> r]
  BY <1>0, <1>1, <1>2, <1>14 DEF AsFollowed
<1> QED BY <1>6, <1>16, <1>18, <1>19

\* A follower has the leaf a reader of the lines finds.
LEMMA FollowedIs ==
  ASSUME NEW l, NEW b, Lines(l, b)
  PROVE  Followed(l, b)[Len(l)].leaf = ResolveLeaf(ReadSession(l, b))
<1>0. PICK n \in Nat : n = Len(l) /\ b \in 0..n /\ l \in Seq(Entry)
  BY DEF Lines
<1> DEFINE Def(f) == f = [i \in b..Len(l) |-> IF i = b THEN ReadSession(SubSeq(l, 1, b), b) ELSE Extend(f[i - 1], l[i])]
<1>1. AsFollowed(l, b, b) = ReadSession(SubSeq(l, 1, b), b)
  <2>1. b \in b..Len(l)
    BY <1>0
  <2>2. PICK q : q = AsRead(l, b, b)
    OBVIOUS
  <2>3. \E m : q = [ents |-> SubSeq(l, 1, b), base |-> b, leaf |-> m, read |-> NoRead]
    BY <2>2, ReadSessionHas DEF AsRead
  <2>4. q.leaf = ResolveLeaf(q)
    BY <2>1, <2>2, AsReadIs
  <2>5. q = [ents |-> SubSeq(l, 1, b), base |-> b, leaf |-> ResolveLeaf(q), read |-> NoRead]
    <3>1. PICK m : q = [ents |-> SubSeq(l, 1, b), base |-> b, leaf |-> m, read |-> NoRead]
      BY <2>3
    <3>2. q.leaf = m
      BY <3>1
    <3> QED BY <2>4, <3>1, <3>2
  <2> QED BY <2>2, <2>5 DEF AsFollowed, AsRead
<1>2. PICK f : f = [i \in b..n |-> AsFollowed(l, b, i)]
  OBVIOUS
<1>3. ASSUME NEW i \in b..n PROVE f[i] = IF i = b THEN ReadSession(SubSeq(l, 1, b), b) ELSE Extend(f[i - 1], l[i])
  <2>1. CASE i = b
    BY <1>1, <1>2, <2>1
  <2>2. CASE i /= b
    <3>1. i \in b + 1..Len(l) /\ i - 1 \in b..n
      BY <1>0, <2>2
    <3>2. f[i - 1] = AsFollowed(l, b, i - 1) /\ f[i] = AsFollowed(l, b, i)
      BY <1>2, <3>1
    <3> QED BY <2>2, <3>1, <3>2, FollowStep
  <2> QED BY <2>1, <2>2
<1>4. Def(f)
  <2>1. f = [i \in b..n |-> f[i]]
    BY <1>2
  <2> QED BY <1>0, <1>3, <2>1
<1>5. Followed(l, b) = CHOOSE g : Def(g)
  BY DEF Followed
<1>6. Def(Followed(l, b))
  <2> HIDE DEF Def
  <2> QED BY <1>4, <1>5
<1>7. PICK g : g = Followed(l, b)
  OBVIOUS
<1>8. \A i \in b..n : g[i] = IF i = b THEN ReadSession(SubSeq(l, 1, b), b) ELSE Extend(g[i - 1], l[i])
  BY <1>0, <1>6, <1>7
<1>9. PICK T : T = {i \in b..n : g[i] = AsFollowed(l, b, i)}
  OBVIOUS
<1>10. ASSUME NEW i \in b..n, \A j \in b..i-1 : j \in T PROVE i \in T
  <2>1. CASE i = b
    BY <1>1, <1>8, <1>9, <2>1
  <2>2. CASE i /= b
    <3>1. i \in b + 1..Len(l) /\ i - 1 \in b..i - 1
      BY <1>0, <2>2
    <3>2. g[i - 1] = AsFollowed(l, b, i - 1)
      BY <1>9, <1>10, <3>1
    <3>3. Extend(g[i - 1], l[i]) = AsFollowed(l, b, i)
      BY <3>1, <3>2, FollowStep
    <3> QED BY <1>8, <1>9, <2>2, <3>3
  <2> QED BY <2>1, <2>2
<1>11. b..n \subseteq T
  <2>1. b \in Nat
    BY <1>0
  <2> QED BY <1>10, <2>1, Reaching
<1>12. g[n] = AsFollowed(l, b, n)
  BY <1>0, <1>9, <1>11
<1>13. SubSeq(l, 1, n) = l
  BY <1>0
<1>14. AsFollowed(l, b, n).leaf = ResolveLeaf(AsRead(l, b, n))
  BY DEF AsFollowed
<1> QED BY <1>0, <1>7, <1>12, <1>13, <1>14 DEF AsRead

-----------------------------------------------------------------------------
(* The file of the JSON lines store.                                       *)

\* What a process that holds the file has of it.
Handle(p) ==
  /\ IsSession(proc[p].sess) /\ proc[p].sess.ents = file.lines
  /\ proc[p].sess.base = base /\ file.tail = "clean"

FileShape ==
  /\ file = [lines |-> file.lines, tail |-> file.tail]
  /\ IsSeq(file.lines) /\ file.tail \in {"clean", "torn"}
  /\ \A i \in 1..Len(file.lines) : file.lines[i] /= Bad

\* The lines that stay: answered for, synced, answered for after an fsync.
Counts ==
  /\ acked \in Nat /\ synced \in Nat /\ firm \in Nat
  /\ firm <= synced /\ synced <= Len(file.lines) /\ acked <= Len(file.lines)

FileInv == LockInv /\ FileShape /\ Counts /\ \A p \in Procs : Holds(p) => Handle(p)

LEMMA PrefixLines ==
  ASSUME NEW n \in Nat
  PROVE  /\ IsSeq(Prefix(n)) /\ Len(Prefix(n)) = n
         /\ \A i \in 1..Len(Prefix(n)) : Prefix(n)[i] /= Bad
<1>1. Prefix(n) \in Seq([type : {"item"}, parent : Int, target : {Root}])
  BY DEF Prefix
<1>2. Len(Prefix(n)) = n
  BY DEF Prefix
<1>3. \A i \in 1..n : Prefix(n)[i] /= Bad
  BY DEF Prefix, Bad
<1> QED BY <1>1, <1>2, <1>3 DEF IsSeq

LEMMA FileInit == Init => FileInv
<1> SUFFICES ASSUME Init PROVE FileInv
  OBVIOUS
<1>1. <<>> \in Seq({}) /\ Len(<<>>) = 0
  OBVIOUS
<1>2. FileShape
  BY <1>1 DEF Init, Empty, FileShape, IsSeq
<1>3. Counts
  BY <1>1 DEF Init, Empty, Counts
<1> QED
  BY <1>2, <1>3, LockInit DEF Init, FileInv, Holds, Idle

\* Nobody else holds the file of a process between taking the lock and letting
\* it go.
LEMMA Alone ==
  ASSUME LockInv, NEW p \in Procs, Active(p), NEW q \in Procs, q /= p
  PROVE  ~Holds(q)
BY DEF LockInv, Active, Holds

\* A file that only grew keeps what was counted of it.
LEMMA GrownFile ==
  ASSUME FileShape, Counts, GrownFrom(file.lines, file'.lines),
         file' = [lines |-> file'.lines, tail |-> file'.tail], file'.tail \in {"clean", "torn"}
  PROVE  /\ FileShape' /\ Len(file.lines) \in Nat /\ Len(file'.lines) \in Nat
         /\ Len(file.lines) <= Len(file'.lines)
<1>1. Len(file.lines) \in Nat /\ Len(file'.lines) \in Nat
  BY DEF FileShape, IsSeq, GrownFrom
<1> QED
  BY <1>1 DEF FileShape, GrownFrom

\* The write of an append: the file of its holder grown to the session done, or
\* to part of it.
LEMMA WriteGrows ==
  ASSUME FileInv, NEW p \in Procs, Holds(p), NEW done, Grows(proc[p].sess, done),
         NEW hs, NEW k \in 0..Len(New(proc[p].sess, done)), NEW t \in {"clean", "torn"},
         WriteLines(file, New(proc[p].sess, done), hs, k, t)
  PROVE  /\ GrownFrom(file.lines, file'.lines) /\ file' = [lines |-> file'.lines, tail |-> t]
         /\ k = Len(New(proc[p].sess, done)) => file'.lines = done.ents
<1>1. proc[p].sess.ents = file.lines /\ file.tail = "clean" /\ IsSeq(file.lines)
  BY DEF FileInv, Handle, FileShape
<1>2. PICK new : new = New(proc[p].sess, done)
  OBVIOUS
<1>3. new = SubSeq(done.ents, Len(file.lines) + 1, Len(done.ents)) /\ GrownFrom(file.lines, done.ents)
  BY <1>1, <1>2 DEF New, Grows
<1>4. /\ file.lines \o SubSeq(new, 1, Len(new)) = done.ents
      /\ \A j \in 0..Len(new) : GrownFrom(file.lines, file.lines \o SubSeq(new, 1, j))
  BY <1>1, <1>3, WholeWrite
<1>5. file' = [lines |-> file.lines \o SubSeq(new, 1, k), tail |-> t]
  BY <1>1, <1>2 DEF WriteLines, Cut
<1> QED
  BY <1>2, <1>4, <1>5

LEMMA RaisedCounts ==
  ASSUME FileShape, Counts, Raised
  PROVE  synced' \in Nat /\ synced <= synced' /\ synced' <= Len(file.lines) /\ Len(file.lines) \in Nat
<1>1. Len(file.lines) \in Nat
  BY DEF FileShape, IsSeq
<1> QED
  BY <1>1 DEF Raised, Counts

LEMMA FileAppend ==
  ASSUME FileInv, LockInv', NEW p \in Procs, NEW e, e /= Bad, NEW sync, AppendLocked(p, e, sync)
  PROVE  FileInv'
<1>1. Holds(p) /\ Active(p)
  BY DEF AppendLocked, CanAppend, Holds, Active
<1>2. PICK s, done : s = proc[p].sess /\ done = Written(s, e)
  OBVIOUS
<1>3. IsSession(s) /\ Grows(s, done)
  BY <1>1, <1>2, WrittenGrows DEF FileInv, Handle
<1>4. GrownFrom(file.lines, file'.lines) /\ file' = [lines |-> file'.lines, tail |-> "clean"] /\ file'.lines = done.ents
  <2>1. \E hs : WriteLines(file, New(s, done), hs, Len(New(s, done)), "clean")
    BY <1>2 DEF AppendLocked, AppendAs
  <2>2. Len(New(s, done)) \in 0..Len(New(s, done))
    <3>1. IsSeq(s.ents) /\ GrownFrom(s.ents, done.ents)
      BY <1>3 DEF Grows, IsSession
    <3>2. Len(New(s, done)) \in Nat
      BY <3>1, WholeWrite DEF New
    <3> QED BY <3>2
  <2> QED BY <1>1, <1>2, <1>3, <2>1, <2>2, WriteGrows
<1>5. /\ FileShape' /\ Len(file.lines) \in Nat /\ Len(file'.lines) \in Nat
      /\ Len(file.lines) <= Len(file'.lines)
  BY <1>4, GrownFile DEF FileInv
<1>6. Counts'
  <2>1. synced' \in Nat /\ synced <= synced' /\ synced' <= Len(file.lines)
    BY RaisedCounts DEF AppendLocked, FileInv
  <2>2. firm' = firm /\ (acked' = acked \/ acked' = Len(file'.lines))
    BY DEF AppendLocked, AppendAs
  <2> QED BY <1>5, <2>1, <2>2 DEF FileInv, Counts
<1>7. ASSUME NEW q \in Procs, Holds(q)' PROVE Handle(q)'
  <2>1. proc'[p].sess = done /\ \A r \in Procs : r /= p => proc'[r] = proc[r]
    BY <1>2 DEF AppendLocked, AppendAs, FileInv, LockInv, ProcShape
  <2>2. q = p
    BY <1>1, <1>7, <2>1, Alone DEF FileInv, Holds
  <2>3. base' = base /\ done.base = base /\ IsSession(done)
    BY <1>1, <1>2, <1>3 DEF AppendLocked, FileInv, Handle, Grows
  <2> QED BY <1>4, <2>1, <2>2, <2>3 DEF Handle, IsSession
<1> QED
  BY <1>5, <1>6, <1>7 DEF FileInv

LEMMA FileTorn ==
  ASSUME FileInv, LockInv', Tails \subseteq {"clean", "torn"}, NEW p \in Procs, TornAppend(p)
  PROVE  FileInv'
<1>1. Holds(p) /\ Active(p)
  BY DEF TornAppend, CanAppend, Holds, Active
<1>2. PICK e \in Appendable(proc[p].sess) : TornAs(e, proc[p].sess, Written(proc[p].sess, e))
  BY DEF TornAppend
<1>3. PICK s, done : s = proc[p].sess /\ done = Written(s, e)
  OBVIOUS
<1>4. IsSession(s) /\ Grows(s, done)
  BY <1>1, <1>3, WrittenGrows, MarksAreLines DEF FileInv, Handle
<1>5. PICK k \in 0..Len(New(s, done)), t \in Tails : \E hs : WriteLines(file, New(s, done), hs, k, t)
  BY <1>2, <1>3 DEF TornAs, Torn
<1>6. GrownFrom(file.lines, file'.lines) /\ file' = [lines |-> file'.lines, tail |-> t] /\ t \in {"clean", "torn"}
  BY <1>1, <1>3, <1>4, <1>5, WriteGrows
<1>7. /\ FileShape' /\ Len(file.lines) \in Nat /\ Len(file'.lines) \in Nat
      /\ Len(file.lines) <= Len(file'.lines)
  BY <1>6, GrownFile DEF FileInv
<1>8. Counts'
  <2>1. synced' \in Nat /\ synced <= synced' /\ synced' <= Len(file.lines)
    BY RaisedCounts DEF TornAppend, FileInv
  <2>2. firm' = firm /\ acked' = acked
    BY DEF TornAppend
  <2> QED BY <1>7, <2>1, <2>2 DEF FileInv, Counts
<1>9. \A q \in Procs : ~Holds(q)'
  <2>1. proc'[p] = Gone /\ \A r \in Procs : r /= p => proc'[r] = proc[r]
    BY DEF TornAppend, FileInv, LockInv, ProcShape
  <2> QED BY <1>1, <2>1, Alone DEF FileInv, Holds, Gone
<1> QED
  BY <1>7, <1>8, <1>9 DEF FileInv

LEMMA FileLoss ==
  ASSUME FileInv, LockInv', Tails \subseteq {"clean", "torn"}, PowerLoss
  PROVE  FileInv'
<1>1. PICK S : file.lines \in Seq(S)
  BY DEF FileInv, FileShape, IsSeq
<1>2. PICK k \in synced..Len(file.lines), t \in Tails :
        /\ file' = [lines |-> SubSeq(file.lines, 1, k), tail |-> t]
        /\ synced' = k /\ acked' = (IF acked < k THEN acked ELSE k)
  BY DEF PowerLoss
<1>3. k \in 0..Len(file.lines)
  BY <1>1 DEF FileInv, Counts
<1>4. /\ SubSeq(file.lines, 1, k) \in Seq(S) /\ Len(SubSeq(file.lines, 1, k)) = k
      /\ \A i \in 1..k : SubSeq(file.lines, 1, k)[i] = file.lines[i]
  BY <1>1, <1>3, FirstOnes
<1>5. \A i \in 1..k : file.lines[i] /= Bad
  BY <1>1, <1>3 DEF FileInv, FileShape
<1>6. FileShape'
  BY <1>2, <1>4, <1>5 DEF FileShape, IsSeq
<1>7. Counts'
  BY <1>1, <1>2, <1>3, <1>4 DEF FileInv, Counts, PowerLoss
<1>8. \A q \in Procs : ~Holds(q)'
  BY DEF PowerLoss, Holds, Gone
<1> QED
  BY <1>6, <1>7, <1>8 DEF FileInv

LEMMA FilePlace ==
  ASSUME FileInv, LockInv', NEW p \in Procs, Place(p)
  PROVE  FileInv'
<1>1. Active(p)
  BY DEF Place, Active
<1>2. CASE proc' = [proc EXCEPT ![p] = Idle] /\ UNCHANGED <<file, base, synced, acked, firm>>
  BY <1>2 DEF FileInv, FileShape, Counts, Holds, Handle, Idle, LockInv, ProcShape
<1>3. ASSUME NEW n \in Bases, base' = n, file' = [lines |-> Prefix(n), tail |-> "clean"],
             synced' = n, acked' = n, firm' = n,
             proc' = [proc EXCEPT ![p] = [pc |-> "open", sess |->
                  [NewSession EXCEPT !.ents = Prefix(n), !.base = n, !.leaf = n]]]
      PROVE FileInv'
  <2>1. n \in Nat
    BY BoundsAssumption
  <2>2. IsSeq(Prefix(n)) /\ Len(Prefix(n)) = n /\ \A i \in 1..Len(Prefix(n)) : Prefix(n)[i] /= Bad
    BY <2>1, PrefixLines
  <2>3. FileShape'
    BY <1>3, <2>2 DEF FileShape
  <2>4. Counts'
    BY <1>3, <2>1, <2>2 DEF Counts
  <2>5. proc'[p].sess = [ents |-> Prefix(n), base |-> n, leaf |-> n, read |-> NoRead] /\ \A r \in Procs : r /= p => proc'[r] = proc[r]
    BY <1>3 DEF FileInv, LockInv, ProcShape, NewSession
  <2>6. ASSUME NEW q \in Procs, Holds(q)' PROVE Handle(q)'
    <3>1. q = p
      BY <1>1, <2>5, <2>6, Alone DEF FileInv, Holds
    <3>2. PICK s : s = proc'[p].sess
      OBVIOUS
    <3>3. IsSession(s) /\ s.ents = Prefix(n) /\ s.base = n
      BY <2>2, <2>5, <3>2, MadeSession
    <3>4. file'.lines = Prefix(n) /\ file'.tail = "clean" /\ base' = n
      BY <1>3
    <3> QED BY <3>1, <3>2, <3>3, <3>4 DEF Handle
  <2> QED BY <2>3, <2>4, <2>6 DEF FileInv
<1> QED
  BY <1>2, <1>3 DEF Place

LEMMA FileLoad ==
  ASSUME FileInv, LockInv', NEW p \in Procs, LoadHandle(p)
  PROVE  FileInv'
<1>1. Active(p)
  BY DEF LoadHandle, Active
<1>2. CASE proc' = [proc EXCEPT ![p] = Idle] /\ UNCHANGED <<file, base, synced, acked, firm>>
  BY <1>2 DEF FileInv, FileShape, Counts, Holds, Handle, Idle, LockInv, ProcShape
<1>3. ASSUME proc' = [proc EXCEPT ![p] = [pc |-> "open", sess |-> ReadSession(file.lines, base)]],
             file' = [file EXCEPT !.tail = IF @ = "torn" THEN "clean" ELSE @],
             UNCHANGED <<base, synced, acked, firm>>
      PROVE FileInv'
  <2>1. file' = [lines |-> file.lines, tail |-> "clean"]
    BY <1>3 DEF FileInv, FileShape
  <2>2. FileShape' /\ Counts'
    BY <1>3, <2>1 DEF FileInv, FileShape, Counts
  <2>3. \A r \in Procs : r /= p => proc'[r] = proc[r]
    BY <1>3 DEF FileInv, LockInv, ProcShape
  <2>4. \E m : ReadSession(file.lines, base) = [ents |-> file.lines, base |-> base, leaf |-> m, read |-> NoRead]
    BY ReadSessionHas
  <2>5. PICK m : proc'[p].sess = [ents |-> file.lines, base |-> base, leaf |-> m, read |-> NoRead]
    BY <1>3, <2>4 DEF FileInv, LockInv, ProcShape
  <2>6. ASSUME NEW q \in Procs, Holds(q)' PROVE Handle(q)'
    <3>1. q = p
      BY <1>1, <2>3, <2>6, Alone DEF FileInv, Holds
    <3>2. PICK s : s = proc'[p].sess
      OBVIOUS
    <3>3. IsSession(s) /\ s.ents = file.lines /\ s.base = base
      BY <2>5, <3>2, MadeSession DEF FileInv, FileShape
    <3> QED BY <1>3, <2>1, <3>1, <3>2, <3>3 DEF Handle
  <2> QED BY <2>2, <2>6 DEF FileInv
<1> QED
  BY <1>2, <1>3 DEF LoadHandle

LEMMA FileStep ==
  ASSUME FileInv, LockInv', Tails \subseteq {"clean", "torn"}, [Next]_vars
  PROVE  FileInv'
<1> USE DEF Idle, Gone, ReleaseLock
<1>0. Len(file.lines) \in Nat
  BY DEF FileInv, FileShape, IsSeq
<1>1. ASSUME NEW p \in Procs, Create(p) \/ Open(p) PROVE FileInv'
  BY <1>1 DEF Create, Open, TakeLock, FileInv, FileShape, Counts, Holds, Handle, LockInv, ProcShape
<1>2. ASSUME NEW p \in Procs, WriteLock(p) \/ BreakLock(p) PROVE FileInv'
  BY <1>2 DEF WriteLock, BreakLock, FileInv, FileShape, Counts, Holds, Handle
<1>3. ASSUME NEW p \in Procs, Release(p) PROVE FileInv'
  BY <1>0, <1>3 DEF Release, FileInv, FileShape, Counts, Holds, Handle, LockInv, ProcShape
<1>4. ASSUME NEW p \in Procs, Delete(p) PROVE FileInv'
  <2>1. proc'[p].pc = "removing" /\ \A r \in Procs : r /= p => proc'[r] = proc[r]
    BY <1>4 DEF Delete, FileInv, LockInv, ProcShape
  <2>2. \A q \in Procs : ~Holds(q)'
    BY <1>4, <2>1, Alone DEF Delete, FileInv, Holds, Active
  <2>3. <<>> \in Seq({}) /\ Len(<<>>) = 0
    OBVIOUS
  <2>4. FileShape' /\ Counts'
    BY <1>4, <2>3 DEF Delete, Empty, FileShape, Counts, IsSeq
  <2> QED BY <2>2, <2>4 DEF FileInv
<1>5. ASSUME NEW p \in Procs, Removed(p) \/ Kill(p) \/ Restart(p) PROVE FileInv'
  BY <1>5 DEF Removed, Kill, Restart, FileInv, FileShape, Counts, Holds, Handle, LockInv, ProcShape
<1>6. ASSUME NEW p \in Procs, Synced(p) PROVE FileInv'
  BY <1>0, <1>6 DEF Synced, FileInv, FileShape, Counts, Holds, Handle, LockInv, ProcShape
<1>7. ASSUME NEW p \in Procs, Branch(p) PROVE FileInv'
  <2>1. PICK id : proc' = [proc EXCEPT ![p].sess.leaf = id]
    BY <1>7 DEF Branch
  <2>2. FileShape' /\ Counts'
    BY <1>7 DEF Branch, FileInv, FileShape, Counts
  <2>3. proc'[p].pc = "open" /\ \A r \in Procs : r /= p => proc'[r] = proc[r]
    BY <1>7, <2>1 DEF Branch, CanAppend, FileInv, LockInv, ProcShape
  <2>4. ASSUME NEW q \in Procs, Holds(q)' PROVE Handle(q)'
    <3>1. q = p
      BY <1>7, <2>3, <2>4, Alone DEF Branch, CanAppend, FileInv, Holds, Active
    <3>2. PICK s : s = proc[p].sess
      OBVIOUS
    <3>3. IsSession(s) /\ s.ents = file.lines /\ s.base = base /\ file.tail = "clean"
      BY <1>7, <3>2 DEF Branch, CanAppend, FileInv, Holds, Handle
    <3>4. proc'[p].sess = [s EXCEPT !.leaf = id]
      BY <2>1, <3>2 DEF FileInv, LockInv, ProcShape
    <3>5. [s EXCEPT !.leaf = id] = [ents |-> file.lines, base |-> base, leaf |-> id, read |-> s.read]
      BY <3>3 DEF IsSession
    <3>6. IsSeq(file.lines)
      BY DEF FileInv, FileShape
    <3>7. PICK t : t = proc'[p].sess
      OBVIOUS
    <3>8. IsSession(t) /\ t.ents = file.lines /\ t.base = base
      BY <3>4, <3>5, <3>6, <3>7, MadeSession
    <3> QED BY <1>7, <3>1, <3>3, <3>7, <3>8 DEF Branch, Handle
  <2> QED BY <2>2, <2>4 DEF FileInv
<1>8. ASSUME NEW p \in Procs, StoreAppend(p) \/ SetHead(p) PROVE FileInv'
  BY <1>8, FileAppend, MarksAreLines DEF StoreAppend, SetHead
<1>9. CASE UNCHANGED vars
  BY <1>9 DEF vars, FileInv, FileShape, Counts, Holds, Handle
<1> QED
  BY <1>1, <1>2, <1>3, <1>4, <1>5, <1>6, <1>7, <1>8, <1>9, FileTorn, FileLoss, FilePlace, FileLoad DEF Next

-----------------------------------------------------------------------------
(* The file is the session: what a reader of the lines makes of them.      *)

\* The lines are a session's that reads back, from the prefix it opened with
\* on, and so is what a process that holds the file has of them.
TreeInv ==
  /\ Exists => Lines(file.lines, base) /\ base <= synced /\ ReadsBack(file.lines, base, heads)
  /\ ~Exists => Len(file.lines) = 0
  /\ \A p \in Procs : Holds(p) => Sound(proc[p].sess)

LEMMA TreeInit == Init => TreeInv
BY DEF Init, TreeInv, Exists, Holds, Idle, Empty

\* The lines stay, and whoever holds the file has a session.
LEMMA TreeKept ==
  ASSUME FileInv, TreeInv, file'.lines = file.lines, base' = base, heads' = heads,
         synced' \in {synced, Len(file.lines)}, \A p \in Procs : Holds(p)' => Sound(proc'[p].sess)
  PROVE  TreeInv'
<1>1. Exists' <=> Exists
  BY DEF Exists
<1>2. ASSUME Exists PROVE base <= synced'
  <2>1. base <= synced /\ base <= Len(file.lines)
    BY <1>2 DEF TreeInv, Lines
  <2> QED BY <2>1
<1> QED BY <1>1, <1>2 DEF TreeInv

LEMMA LastOnes ==
  ASSUME NEW S, NEW u \in Seq(S), NEW k \in 0..Len(u)
  PROVE  /\ SubSeq(u, k + 1, Len(u)) \in Seq(S) /\ Len(SubSeq(u, k + 1, Len(u))) = Len(u) - k
         /\ \A i \in 1..Len(u) - k : SubSeq(u, k + 1, Len(u))[i] = u[k + i]
OBVIOUS

\* A session's lines and the first of what follows them in a longer one's.
Joins(s, d, new, k, l) ==
  /\ s \in Seq(Entry) /\ d \in Seq(Entry) /\ Len(s) <= Len(d) /\ \A i \in 1..Len(s) : s[i] = d[i]
  /\ new = SubSeq(d, Len(s) + 1, Len(d)) /\ k \in 0..Len(new) /\ l = s \o SubSeq(new, 1, k)

LEMMA JoinedLines ==
  ASSUME NEW s, NEW d, NEW new, NEW k, NEW l, Joins(s, d, new, k, l)
  PROVE  /\ IsSeq(l) /\ Len(l) = Len(s) + k /\ Len(new) = Len(d) - Len(s)
         /\ \A i \in 1..Len(l) : l[i] = d[i]
<1> DEFINE S == Entry
<1> HIDE DEF S
<1>s. /\ s \in Seq(S) /\ d \in Seq(S) /\ Len(s) <= Len(d) /\ \A i \in 1..Len(s) : s[i] = d[i]
      /\ new = SubSeq(d, Len(s) + 1, Len(d)) /\ k \in 0..Len(new) /\ l = s \o SubSeq(new, 1, k)
  BY DEF Joins, S
<1>0. PICK n \in Nat, m \in Nat : n = Len(s) /\ m = Len(d) /\ n \in 0..m
  <2>1. Len(s) \in Nat /\ Len(d) \in Nat
    BY <1>s
  <2> QED BY <1>s, <2>1
<1>1. new \in Seq(S) /\ Len(new) = m - n /\ \A i \in 1..m - n : new[i] = d[n + i]
  BY <1>s, <1>0, LastOnes
<1>2. PICK u : u = SubSeq(new, 1, k)
  OBVIOUS
<1>3. u \in Seq(S) /\ Len(u) = k /\ \A i \in 1..k : u[i] = new[i]
  BY <1>s, <1>1, <1>2, FirstOnes
<1>4. /\ l \in Seq(S) /\ Len(l) = n + k
      /\ \A i \in 1..n : l[i] = s[i]
      /\ \A i \in n + 1..n + k : l[i] = u[i - n]
  <2>1. s \in Seq(S) /\ u \in Seq(S) /\ l = s \o u /\ Len(s) = n /\ Len(u) = k
    BY <1>s, <1>0, <1>2, <1>3
  <2> QED BY <2>1, JoinedSeqs
<1>5. k \in 0..m - n
  BY <1>s, <1>1
<1>6. ASSUME NEW i \in n + 1..n + k PROVE l[i] = d[i]
  <2>1. i - n \in 1..k /\ i - n \in 1..m - n /\ n + (i - n) = i
    BY <1>0, <1>5
  <2> QED BY <1>1, <1>3, <1>4, <2>1
<1>7. \A i \in 1..n + k : i \in 1..n \/ i \in n + 1..n + k
  BY <1>0, <1>5
<1>8. \A i \in 1..n : l[i] = d[i]
  BY <1>s, <1>0, <1>4
<1> QED BY <1>0, <1>1, <1>4, <1>6, <1>7, <1>8 DEF IsSeq

\* The write of an append, whole or cut short.
LEMMA TreeWrite ==
  ASSUME FileInv, TreeInv, NEW p \in Procs, Holds(p), Exists, NEW s, s = proc[p].sess,
         NEW e, Hosted(s, e), NEW d, d = Written(s, e), NEW k \in 0..Len(New(s, d)), NEW t,
         WriteLines(file, New(s, d), HeadsOf(s, e, d, Was), k, t)
  PROVE  /\ Lines(file'.lines, base) /\ ReadsBack(file'.lines, base, heads') /\ Sound(d)
<1>1. /\ Sound(s) /\ s.ents = file.lines /\ s.base = base /\ file.tail = "clean"
      /\ Lines(file.lines, base) /\ ReadsBack(file.lines, base, heads)
  BY DEF FileInv, Handle, TreeInv
<1>2. Was = ResolveLeaf(s)
  <2>1. PICK q : q = ReadSession(file.lines, base)
    OBVIOUS
  <2>2. Tree(s) /\ q.ents = s.ents /\ q.base = s.base
    BY <1>1, <2>1, ReadSound DEF Sound
  <2>3. Starts(q, s) /\ Len(q.ents) = Len(s.ents)
    BY <2>2, SameEntries
  <2> QED BY <2>1, <2>3, HeadSame DEF Was
<1>3. /\ Sound(d) /\ Starts(s, d) /\ Len(d.ents) > Len(s.ents)
  BY <1>1, WrittenHeads
<1>4. PICK l, new, hs : /\ l = file.lines \o SubSeq(new, 1, k) /\ new = New(s, d) /\ hs = HeadsOf(s, e, d, ResolveLeaf(s))
                        /\ file'.lines = l /\ heads' = heads \o SubSeq(hs, 1, k)
  BY <1>1, <1>2 DEF WriteLines, Cut, CutHeads
<1>5. /\ IsSeq(l) /\ Len(l) = Len(s.ents) + k /\ Len(new) = Len(d.ents) - Len(s.ents)
      /\ \A i \in 1..Len(l) : l[i] = d.ents[i]
  <2>0. PICK a, b : a = s.ents /\ b = d.ents
    OBVIOUS
  <2>1. a \in Seq(Entry) /\ b \in Seq(Entry) /\ Len(a) <= Len(b) /\ \A i \in 1..Len(a) : a[i] = b[i]
    BY <1>3, <2>0 DEF Starts, Tree, Lines
  <2>2. new = SubSeq(b, Len(a) + 1, Len(b)) /\ l = a \o SubSeq(new, 1, k) /\ k \in 0..Len(new)
    BY <1>1, <1>4, <2>0 DEF New
  <2>4. Joins(a, b, new, k, l)
    BY <2>1, <2>2 DEF Joins
  <2>3. /\ IsSeq(l) /\ Len(l) = Len(a) + k /\ Len(new) = Len(b) - Len(a)
        /\ \A i \in 1..Len(l) : l[i] = b[i]
    BY <2>4, JoinedLines
  <2> QED BY <2>0, <2>3
<1>6. k \in 0..Len(d.ents) - Len(s.ents)
  BY <1>4, <1>5
<1>7. ReadsBack(s.ents, s.base, heads)
  BY <1>1
<1>8. Lines(l, s.base) /\ ReadsBack(l, s.base, heads \o SubSeq(hs, 1, k))
  <2>1. PICK g : g = heads
    OBVIOUS
  <2>2. ReadsBack(s.ents, s.base, g) /\ hs = HeadsOf(s, e, d, ResolveLeaf(s)) /\ Sound(s)
    BY <1>1, <1>4, <1>7, <2>1
  <2>3. Lines(l, s.base) /\ ReadsBack(l, s.base, g \o SubSeq(hs, 1, k))
    <3>1. WritesPart(s, e, d, g, hs, k, l)
      BY <1>5, <1>6, <2>2 DEF WritesPart
    <3> QED BY <3>1, WriteReadsBack
  <2> QED BY <2>1, <2>3
<1> QED BY <1>1, <1>3, <1>4, <1>8

LEMMA TreeAppend ==
  ASSUME FileInv, TreeInv, NEW p \in Procs, NEW e, Hosted(proc[p].sess, e), NEW sync, AppendLocked(p, e, sync)
  PROVE  TreeInv'
<1>1. Holds(p) /\ Active(p) /\ Exists /\ base' = base /\ Exists'
  BY DEF AppendLocked, CanAppend, Holds, Active, Exists
<1>2. PICK s, d, k : s = proc[p].sess /\ d = Written(s, e) /\ k = Len(New(s, d))
  OBVIOUS
<1>3. WriteLines(file, New(s, d), HeadsOf(s, e, d, Was), k, "clean")
  BY <1>2 DEF AppendLocked, AppendAs
<1>4. k \in 0..Len(New(s, d))
  <2>1. Sound(s) /\ Hosted(s, e)
    BY <1>1, <1>2 DEF TreeInv
  <2>2. Sound(d) /\ Starts(s, d)
    BY <1>2, <2>1, WrittenHeads
  <2>3. d.ents \in Seq(Entry) /\ Len(s.ents) \in 0..Len(d.ents)
    BY <2>2, EntryOf DEF Starts, Tree, Lines
  <2>4. New(s, d) \in Seq(Entry)
    BY <2>3, LastOnes DEF New
  <2> QED BY <1>2, <2>4
<1>5. Lines(file'.lines, base) /\ ReadsBack(file'.lines, base, heads') /\ Sound(d)
  BY <1>1, <1>2, <1>3, <1>4, TreeWrite
<1>6. base <= synced'
  <2>1. synced' \in {synced, Len(file.lines)} /\ base <= synced /\ base <= Len(file.lines)
    BY <1>1 DEF AppendLocked, Raised, TreeInv, Lines
  <2> QED BY <2>1
<1>7. ASSUME NEW q \in Procs, Holds(q)' PROVE Sound(proc'[q].sess)
  <2>1. proc'[p].sess = d /\ \A r \in Procs : r /= p => proc'[r] = proc[r]
    BY <1>2 DEF AppendLocked, AppendAs, FileInv, LockInv, ProcShape
  <2>2. q = p
    BY <1>1, <1>7, <2>1, Alone DEF FileInv, Holds
  <2> QED BY <1>5, <2>1, <2>2
<1> QED BY <1>1, <1>5, <1>6, <1>7 DEF TreeInv

LEMMA TreeTorn ==
  ASSUME FileInv, TreeInv, NEW p \in Procs, TornAppend(p)
  PROVE  TreeInv'
<1>1. Holds(p) /\ Active(p) /\ Exists /\ base' = base /\ Exists'
  BY DEF TornAppend, CanAppend, Holds, Active, Exists
<1>2. PICK e \in Appendable(proc[p].sess) : TornAs(e, proc[p].sess, Written(proc[p].sess, e))
  BY DEF TornAppend
<1>3. PICK s, d : s = proc[p].sess /\ d = Written(s, e)
  OBVIOUS
<1>4. PICK k \in 0..Len(New(s, d)), t \in Tails : WriteLines(file, New(s, d), HeadsOf(s, e, d, Was), k, t)
  BY <1>2, <1>3 DEF TornAs, Torn
<1>5. Hosted(s, e)
  BY <1>1, <1>2, <1>3, HostsHang DEF TreeInv
<1>6. Lines(file'.lines, base) /\ ReadsBack(file'.lines, base, heads')
  BY <1>1, <1>3, <1>4, <1>5, TreeWrite
<1>7. base <= synced'
  <2>1. synced' \in {synced, Len(file.lines)} /\ base <= synced /\ base <= Len(file.lines)
    BY <1>1 DEF TornAppend, Raised, TreeInv, Lines
  <2> QED BY <2>1
<1>8. \A q \in Procs : ~Holds(q)'
  <2>1. proc'[p] = Gone /\ \A r \in Procs : r /= p => proc'[r] = proc[r]
    BY DEF TornAppend, FileInv, LockInv, ProcShape
  <2> QED BY <1>1, <2>1, Alone DEF FileInv, Holds, Gone
<1> QED BY <1>1, <1>6, <1>7, <1>8 DEF TreeInv

LEMMA TreeLoss ==
  ASSUME FileInv, TreeInv, PowerLoss
  PROVE  TreeInv'
<1>1. Exists /\ Exists' /\ base' = base /\ Lines(file.lines, base) /\ base <= synced /\ ReadsBack(file.lines, base, heads)
  BY DEF PowerLoss, Exists, TreeInv
<1>2. PICK k \in synced..Len(file.lines) :
        file'.lines = SubSeq(file.lines, 1, k) /\ heads' = SubSeq(heads, 1, k) /\ synced' = k
  BY DEF PowerLoss
<1>3. PICK n \in Nat : n = Len(file.lines) /\ base \in 0..n /\ k \in base..n /\ k \in 0..n
  BY <1>1, <1>2 DEF FileInv, Counts, Lines
<1>4. PICK H : heads \in Seq(H) /\ Len(heads) = n
  BY <1>1, <1>3 DEF ReadsBack, IsSeq
<1>5. PICK l, hs : l = file'.lines /\ hs = heads'
  OBVIOUS
<1>6. Lines(l, base) /\ Len(l) = k /\ \A i \in 1..k : l[i] = file.lines[i]
  BY <1>1, <1>2, <1>3, <1>5, FirstLines
<1>7. hs \in Seq(H) /\ Len(hs) = k /\ \A i \in 1..k : hs[i] = heads[i]
  BY <1>2, <1>3, <1>4, <1>5, FirstOnes
<1>8. ASSUME NEW q, Of(q, l, base), Len(q.ents) > 0 PROVE ResolveLeaf(q) \in hs[Len(q.ents)]
  <2>1. Len(q.ents) \in 1..k /\ Len(q.ents) <= n
    <3>1. Len(q.ents) \in Nat /\ Len(q.ents) <= k
      BY <1>6, <1>8, EntryOf DEF Of
    <3> QED BY <1>3, <1>8, <3>1
  <2>2. Of(q, file.lines, base)
    <3>1. \A i \in 1..Len(q.ents) : i \in 1..k
      BY <1>3, <2>1
    <3> QED BY <1>3, <1>6, <1>8, <2>1, <3>1 DEF Of
  <2> QED BY <1>1, <1>7, <1>8, <2>1, <2>2 DEF ReadsBack
<1>9. ReadsBack(l, base, hs)
  BY <1>6, <1>7, <1>8 DEF ReadsBack, IsSeq
<1>10. \A q \in Procs : ~Holds(q)'
  BY DEF PowerLoss, Holds, Gone
<1> QED BY <1>1, <1>2, <1>3, <1>5, <1>6, <1>9, <1>10 DEF TreeInv

LEMMA TreePlace ==
  ASSUME FileInv, TreeInv, NEW p \in Procs, Place(p)
  PROVE  TreeInv'
<1>1. Active(p)
  BY DEF Place, Active
<1>2. \A r \in Procs : r /= p => proc'[r] = proc[r] /\ ~Holds(r)
  BY <1>1, Alone DEF Place, FileInv, LockInv, ProcShape
<1>3. CASE proc' = [proc EXCEPT ![p] = Idle] /\ UNCHANGED <<file, base, synced, heads>>
  <2>1. \A q \in Procs : ~Holds(q)'
    BY <1>2, <1>3 DEF FileInv, LockInv, ProcShape, Holds, Idle
  <2> QED BY <1>3, <2>1, TreeKept
<1>4. ASSUME NEW n \in Bases, base' = n, file' = [lines |-> Prefix(n), tail |-> "clean"],
             synced' = n, heads' = [i \in 1..n |-> {n}],
             proc' = [proc EXCEPT ![p] = [pc |-> "open", sess |->
                  [NewSession EXCEPT !.ents = Prefix(n), !.base = n, !.leaf = n]]]
      PROVE TreeInv'
  <2>1. n \in Nat
    BY BoundsAssumption
  <2>2. PICK q : q = [ents |-> Prefix(n), base |-> n, leaf |-> n, read |-> NoRead]
    OBVIOUS
  <2>3. Sound(q) /\ Lines(Prefix(n), n) /\ ReadsBack(Prefix(n), n, [i \in 1..n |-> {n}])
    BY <2>1, <2>2, PrefixSound
  <2>4. proc'[p].sess = q
    BY <1>4, <2>2 DEF FileInv, LockInv, ProcShape, NewSession
  <2>5. \A r \in Procs : Holds(r)' => Sound(proc'[r].sess)
    BY <1>2, <2>3, <2>4 DEF Holds
  <2>6. file'.lines = Prefix(n) /\ Exists' /\ n <= n
    BY <1>4, <2>1 DEF Exists, None
  <2> QED BY <1>4, <2>3, <2>5, <2>6 DEF TreeInv
<1> QED
  BY <1>3, <1>4 DEF Place

LEMMA TreeLoad ==
  ASSUME FileInv, TreeInv, NEW p \in Procs, LoadHandle(p)
  PROVE  TreeInv'
<1>1. Active(p)
  BY DEF LoadHandle, Active
<1>2. \A r \in Procs : r /= p => proc'[r] = proc[r] /\ ~Holds(r)
  BY <1>1, Alone DEF LoadHandle, FileInv, LockInv, ProcShape
<1>3. base' = base /\ heads' = heads /\ synced' = synced /\ file'.lines = file.lines
  BY DEF LoadHandle, FileInv, FileShape
<1>4. Holds(p)' => Sound(proc'[p].sess)
  <2>1. CASE proc' = [proc EXCEPT ![p] = Idle]
    BY <2>1 DEF FileInv, LockInv, ProcShape, Holds, Idle
  <2>2. CASE Exists /\ proc' = [proc EXCEPT ![p] = [pc |-> "open", sess |-> ReadSession(file.lines, base)]]
    <3>1. PICK q : q = ReadSession(file.lines, base)
      OBVIOUS
    <3>2. Sound(q)
      BY <2>2, <3>1, ReadSound DEF TreeInv
    <3> QED BY <2>2, <3>1, <3>2 DEF FileInv, LockInv, ProcShape
  <2> QED BY <2>1, <2>2 DEF LoadHandle
<1>5. \A q \in Procs : Holds(q)' => Sound(proc'[q].sess)
  BY <1>2, <1>4 DEF Holds
<1> QED BY <1>3, <1>5, TreeKept

\* The leaf moved to any entry from the base on.
LEMMA MovedSound ==
  ASSUME NEW s, Sound(s), NEW id \in s.base..Len(s.ents), NEW t, t = [s EXCEPT !.leaf = id]
  PROVE  Sound(t) /\ t.ents = s.ents /\ t.base = s.base /\ t.leaf = id
<1>1. t = [ents |-> s.ents, base |-> s.base, leaf |-> id, read |-> s.read]
  BY DEF Sound, IsSession
<1>2. t.ents = s.ents /\ t.base = s.base /\ t.leaf = id /\ t.read = s.read
  BY <1>1
<1>3. IsSession(t)
  BY <1>1, <1>2 DEF Sound, IsSession
<1>4. Tree(t) /\ Kept(t)
  BY <1>2, SameEntries DEF Sound
<1> QED BY <1>2, <1>3, <1>4 DEF Sound

LEMMA TreeBranch ==
  ASSUME FileInv, TreeInv, NEW p \in Procs, Branch(p)
  PROVE  TreeInv'
<1>1. Holds(p) /\ Active(p)
  BY DEF Branch, CanAppend, Holds, Active
<1>2. PICK id \in 0..Len(proc[p].sess.ents) : id >= base /\ proc' = [proc EXCEPT ![p].sess.leaf = id]
  BY DEF Branch
<1>3. PICK s, t : s = proc[p].sess /\ t = [s EXCEPT !.leaf = id]
  OBVIOUS
<1>4. Sound(s) /\ s.base = base /\ s.base \in Nat /\ Len(s.ents) \in Nat
  BY <1>1, <1>3, EntryOf DEF TreeInv, FileInv, Handle, Sound
<1>5. Sound(t)
  <2>1. id \in s.base..Len(s.ents)
    BY <1>2, <1>3, <1>4
  <2> QED BY <1>3, <1>4, <2>1, MovedSound
<1>6. proc'[p].sess = t /\ \A r \in Procs : r /= p => proc'[r] = proc[r] /\ ~Holds(r)
  <2>1. proc'[p].sess = [proc[p].sess EXCEPT !.leaf = id] /\ \A r \in Procs : r /= p => proc'[r] = proc[r]
    BY <1>2 DEF FileInv, LockInv, ProcShape
  <2> QED BY <1>1, <1>3, <2>1, Alone DEF FileInv
<1>7. \A q \in Procs : Holds(q)' => Sound(proc'[q].sess)
  BY <1>5, <1>6 DEF Holds
<1> QED BY <1>7, TreeKept DEF Branch

LEMMA TreeStep ==
  ASSUME FileInv, TreeInv, [Next]_vars
  PROVE  TreeInv'
<1> USE DEF Idle, Gone, ReleaseLock
<1>1. ASSUME NEW p \in Procs, Create(p) \/ Open(p) PROVE TreeInv'
  <2>1. \A q \in Procs : Holds(q)' => Holds(q) /\ proc'[q] = proc[q]
    BY <1>1 DEF Create, Open, TakeLock, Holds, FileInv, LockInv, ProcShape
  <2>2. \A q \in Procs : Holds(q)' => Sound(proc'[q].sess)
    BY <2>1 DEF TreeInv
  <2> QED BY <1>1, <2>2, TreeKept DEF Create, Open
<1>2. ASSUME NEW p \in Procs, WriteLock(p) \/ BreakLock(p) PROVE TreeInv'
  <2>1. \A q \in Procs : Holds(q)' => Sound(proc'[q].sess)
    BY <1>2 DEF WriteLock, BreakLock, Holds, TreeInv
  <2> QED BY <1>2, <2>1, TreeKept DEF WriteLock, BreakLock
<1>3. ASSUME NEW p \in Procs, Release(p) \/ Removed(p) \/ Kill(p) \/ Restart(p) PROVE TreeInv'
  <2>1. \A q \in Procs : Holds(q)' => Holds(q) /\ proc'[q] = proc[q]
    BY <1>3 DEF Release, Removed, Kill, Restart, Holds, FileInv, LockInv, ProcShape
  <2>2. \A q \in Procs : Holds(q)' => Sound(proc'[q].sess)
    BY <2>1 DEF TreeInv
  <2> QED BY <1>3, <2>2, TreeKept DEF Release, Removed, Kill, Restart
<1>4. ASSUME NEW p \in Procs, Delete(p) PROVE TreeInv'
  <2>1. proc'[p].pc = "removing" /\ \A r \in Procs : r /= p => proc'[r] = proc[r]
    BY <1>4 DEF Delete, FileInv, LockInv, ProcShape
  <2>2. \A q \in Procs : ~Holds(q)'
    BY <1>4, <2>1, Alone DEF Delete, FileInv, Holds, Active
  <2>3. ~Exists' /\ Len(file'.lines) = 0
    BY <1>4 DEF Delete, Empty, Exists
  <2> QED BY <2>2, <2>3 DEF TreeInv
<1>5. ASSUME NEW p \in Procs, Synced(p) PROVE TreeInv'
  <2>1. \A q \in Procs : Holds(q)' => Holds(q) /\ proc'[q].sess = proc[q].sess
    BY <1>5 DEF Synced, Holds, FileInv, LockInv, ProcShape
  <2>2. \A q \in Procs : Holds(q)' => Sound(proc'[q].sess)
    BY <2>1 DEF TreeInv
  <2> QED BY <1>5, <2>2, TreeKept DEF Synced
<1>6. ASSUME NEW p \in Procs, StoreAppend(p) \/ SetHead(p) PROVE TreeInv'
  <2>1. PICK e, sync :
            /\ AppendLocked(p, e, sync)
            /\ \/ e \in Appendable(proc[p].sess)
               \/ \E to \in 0..Len(proc[p].sess.ents) : e \in HeadLabel(proc[p].sess, proc[p].sess.leaf, to)
    BY <1>6 DEF StoreAppend, SetHead
  <2>2. Sound(proc[p].sess)
    BY <2>1 DEF AppendLocked, CanAppend, Holds, TreeInv
  <2>3. Hosted(proc[p].sess, e)
    BY <2>1, <2>2, HostsHang
  <2> QED BY <2>1, <2>3, TreeAppend
<1>7. CASE UNCHANGED vars
  <2>1. \A q \in Procs : Holds(q)' => Sound(proc'[q].sess)
    BY <1>7 DEF vars, Holds, TreeInv
  <2> QED BY <1>7, <2>1, TreeKept DEF vars
<1> QED
  BY <1>1, <1>2, <1>3, <1>4, <1>5, <1>6, <1>7, TreeTorn, TreeLoss, TreePlace, TreeLoad, TreeBranch DEF Next

\* The file is the session: every reader takes it, it keeps what was answered
\* for, the head reads back from any prefix of its lines an append, or one cut
\* short, may leave, the writer's handle and the reader's leaf state it keeps
\* are those of the file, and a follower that takes the lines one at a time has
\* the leaf a reader of the whole file finds, as long as no cut falls just
\* before a newline (appendLocked, leafMarkBefore, loadHandle, extend).
THEOREM FileIsTheSession ==
  ASSUME Tails \subseteq {"clean", "torn"}
  PROVE  Spec => []FileKeepsTheSession
<1>1. ASSUME FileInv, TreeInv PROVE FileKeepsTheSession
  <2>1. AckedKept /\ HandleHasLines
    <3>1. Len(file.lines) \in Nat
      BY <1>1 DEF FileInv, FileShape, IsSeq
    <3> QED BY <1>1, <3>1 DEF FileInv, FileShape, Counts, AckedKept, HandleHasLines, Handle
  <2>2. FileReads
    BY <1>1 DEF TreeInv, FileReads, Lines, Readable
  <2>3. HeadReadsBack
    <3> SUFFICES ASSUME NEW k \in 1..Len(file.lines), k >= base
                 PROVE  ResolveLeaf(ReadSession(SubSeq(file.lines, 1, k), base)) \in heads[k]
      BY DEF HeadReadsBack
    <3>1. Exists /\ Lines(file.lines, base) /\ ReadsBack(file.lines, base, heads)
      BY <1>1 DEF TreeInv
    <3>2. k \in base..Len(file.lines)
      BY <3>1 DEF Lines
    <3>3. PICK q : q = AsRead(file.lines, base, k)
      OBVIOUS
    <3>4. q.ents = SubSeq(file.lines, 1, k) /\ q.base = base /\ Tree(q) /\ Len(q.ents) = k
      BY <3>1, <3>2, <3>3, AsReadIs
    <3>5. \A i \in 1..k : q.ents[i] = file.lines[i]
      BY <3>1, <3>2, <3>4, FirstLines
    <3>6. Of(q, file.lines, base)
      BY <3>2, <3>4, <3>5 DEF Of
    <3>7. Len(q.ents) > 0
      BY <3>4
    <3>8. ResolveLeaf(q) \in heads[Len(q.ents)]
      BY <3>1, <3>4, <3>6, <3>7 DEF ReadsBack
    <3> QED BY <3>3, <3>4, <3>8 DEF AsRead
  <2>4. HandleIsFile
    <3>1. ASSUME NEW p \in Procs, Holds(p) PROVE ReadCaughtUp(proc[p].sess) = ReadLeafState(proc[p].sess)
      BY <1>1, <3>1, ReadCaughtUpIs, ReadLeafIs DEF TreeInv, Sound
    <3> QED BY <2>1, <3>1 DEF HandleIsFile
  <2>5. FollowerAgrees
    BY <1>1, FollowedIs DEF TreeInv, FollowerAgrees
  <2> QED BY <2>1, <2>2, <2>3, <2>4, <2>5 DEF FileKeepsTheSession
<1>2. FileInv /\ TreeInv /\ [Next]_vars => FileInv' /\ TreeInv'
  BY FileStep, LockStep, TreeStep DEF FileInv
<1> QED
  BY <1>1, <1>2, FileInit, TreeInit, PTL DEF Spec

-----------------------------------------------------------------------------
(* The rows of the SQLite store.                                           *)

Shape(x) == x = [pc |-> x.pc, sess |-> x.sess, refused |-> x.refused, stale |-> x.stale]

StoreShape ==
  /\ store = [p \in Procs |-> store[p]] /\ \A p \in Procs : Shape(store[p])
  /\ db = [base |-> db.base, format |-> db.format, rows |-> db.rows, holder |-> db.holder]
  /\ IsSeq(db.rows) /\ db.format \in {"old", "new"}

\* What a process whose append will be taken has of the rows.
Follows(x) ==
  /\ Sound(x.sess) /\ x.sess.ents = db.rows /\ x.sess.base = db.base
  /\ db.format = "old" => x.stale = TRUE

\* A reader of these rows finds this head, where a head may rest on it.
HeadIs(rows, b, h) ==
  MayRestOn(ReadSession(rows, b), h) => ResolveLeaf(ReadSession(rows, b)) = h

\* The rows are a session's, with the head the last accepted write left.
RowsTold == Stored => Lines(db.rows, db.base) /\ HeadIs(db.rows, db.base, head)

RowsInv ==
  /\ StoreShape /\ RowsRaised /\ RowsTold
  /\ \A p \in Procs : Caches(p) /\ db.holder = p => Follows(store[p])

LEMMA MadeShape ==
  ASSUME NEW a, NEW b, NEW c, NEW d, NEW x, x = [pc |-> a, sess |-> b, refused |-> c, stale |-> d]
  PROVE  Shape(x) /\ x.pc = a /\ x.sess = b /\ x.refused = c /\ x.stale = d
BY DEF Shape

LEMMA SetPc ==
  ASSUME NEW x, Shape(x), NEW v, NEW y, y = [x EXCEPT !.pc = v]
  PROVE  Shape(y) /\ y.pc = v /\ y.sess = x.sess /\ y.refused = x.refused /\ y.stale = x.stale
<1>1. x \in [pc : {x.pc}, sess : {x.sess}, refused : {x.refused}, stale : {x.stale}]
  BY DEF Shape
<1>2. y = [pc |-> v, sess |-> x.sess, refused |-> x.refused, stale |-> x.stale]
  BY <1>1
<1> QED BY <1>2, MadeShape

LEMMA SetSess ==
  ASSUME NEW x, Shape(x), NEW v, NEW y, y = [x EXCEPT !.sess = v]
  PROVE  Shape(y) /\ y.pc = x.pc /\ y.sess = v /\ y.refused = x.refused /\ y.stale = x.stale
<1>1. x \in [pc : {x.pc}, sess : {x.sess}, refused : {x.refused}, stale : {x.stale}]
  BY DEF Shape
<1>2. y = [pc |-> x.pc, sess |-> v, refused |-> x.refused, stale |-> x.stale]
  BY <1>1
<1> QED BY <1>2, MadeShape

LEMMA SetRefused ==
  ASSUME NEW x, Shape(x), NEW v, NEW y, y = [x EXCEPT !.refused = v]
  PROVE  Shape(y) /\ y.pc = x.pc /\ y.sess = x.sess /\ y.refused = v /\ y.stale = x.stale
<1>1. x \in [pc : {x.pc}, sess : {x.sess}, refused : {x.refused}, stale : {x.stale}]
  BY DEF Shape
<1>2. y = [pc |-> x.pc, sess |-> x.sess, refused |-> v, stale |-> x.stale]
  BY <1>1
<1> QED BY <1>2, MadeShape

LEMMA SetStale ==
  ASSUME NEW x, Shape(x), NEW v, NEW y, y = [x EXCEPT !.stale = v]
  PROVE  Shape(y) /\ y.pc = x.pc /\ y.sess = x.sess /\ y.refused = x.refused /\ y.stale = v
<1>1. x \in [pc : {x.pc}, sess : {x.sess}, refused : {x.refused}, stale : {x.stale}]
  BY DEF Shape
<1>2. y = [pc |-> x.pc, sess |-> x.sess, refused |-> x.refused, stale |-> v]
  BY <1>1
<1> QED BY <1>2, MadeShape

LEMMA SetTwo ==
  ASSUME NEW x, Shape(x), NEW v, NEW w
  PROVE  /\ [x EXCEPT !.pc = v, !.sess = w] = [[x EXCEPT !.pc = v] EXCEPT !.sess = w]
         /\ [x EXCEPT !.sess = v, !.stale = w] = [[x EXCEPT !.sess = v] EXCEPT !.stale = w]
<1>1. PICK a, b, c, d : x = [pc |-> a, sess |-> b, refused |-> c, stale |-> d]
  BY DEF Shape
<1>2. [x EXCEPT !.pc = v, !.sess = w] = [[x EXCEPT !.pc = v] EXCEPT !.sess = w]
  BY <1>1
<1>3. [x EXCEPT !.sess = v, !.stale = w] = [[x EXCEPT !.sess = v] EXCEPT !.stale = w]
  BY <1>1
<1> QED BY <1>2, <1>3

LEMMA SetThree ==
  ASSUME NEW x, Shape(x), NEW v, NEW w, NEW u
  PROVE  /\ [x EXCEPT !.pc = v, !.sess = w, !.stale = u] = [[[x EXCEPT !.pc = v] EXCEPT !.sess = w] EXCEPT !.stale = u]
         /\ [x EXCEPT !.pc = v, !.stale = u, !.sess = w] = [[[x EXCEPT !.pc = v] EXCEPT !.stale = u] EXCEPT !.sess = w]
<1>1. PICK a, b, c, d : x = [pc |-> a, sess |-> b, refused |-> c, stale |-> d]
  BY DEF Shape
<1>2. [x EXCEPT !.pc = v, !.sess = w, !.stale = u] = [[[x EXCEPT !.pc = v] EXCEPT !.sess = w] EXCEPT !.stale = u]
  BY <1>1
<1>3. [x EXCEPT !.pc = v, !.stale = u, !.sess = w] = [[[x EXCEPT !.pc = v] EXCEPT !.stale = u] EXCEPT !.sess = w]
  BY <1>1
<1> QED BY <1>2, <1>3

LEMMA NothingShape == Shape(Nothing) /\ Nothing.pc = "up"
BY DEF Shape, Nothing

LEMMA DroppedShape ==
  ASSUME StoreShape, NEW p \in Procs
  PROVE  Shape(Dropped(p)) /\ Dropped(p).pc = "up"
<1>1. PICK x : x = store[p] /\ Shape(x)
  BY DEF StoreShape
<1>2. PICK y : y = [x EXCEPT !.pc = "up"]
  OBVIOUS
<1>3. PICK z : z = [y EXCEPT !.sess = NewSession]
  OBVIOUS
<1>4. Shape(y) /\ y.pc = "up"
  BY <1>1, <1>2, SetPc
<1>5. Shape(z) /\ z.pc = "up"
  BY <1>3, <1>4, SetSess
<1>6. Dropped(p) = z
  <2>1. [x EXCEPT !.pc = "up", !.sess = NewSession] = [[x EXCEPT !.pc = "up"] EXCEPT !.sess = NewSession]
    BY <1>1, SetTwo
  <2>2. Dropped(p) = [x EXCEPT !.pc = "up", !.sess = NewSession]
    BY <1>1 DEF Dropped
  <2> QED BY <1>2, <1>3, <2>1, <2>2
<1> QED BY <1>5, <1>6

\* A session's head reads back from its rows if it does from the session.
LEMMA HeadKept ==
  ASSUME NEW s, Sound(s), MayRestOn(s, s.leaf) => ResolveLeaf(s) = s.leaf
  PROVE  HeadIs(s.ents, s.base, s.leaf) /\ Lines(s.ents, s.base)
<1>1. PICK q : q = ReadSession(s.ents, s.base)
  OBVIOUS
<1>2. Tree(s) /\ Lines(s.ents, s.base)
  BY DEF Sound, Tree
<1>3. q.ents = s.ents /\ q.base = s.base
  BY <1>1, <1>2, ReadSound
<1>4. Starts(q, s) /\ Len(q.ents) = Len(s.ents)
  BY <1>2, <1>3, SameEntries
<1>5. ResolveLeaf(q) = ResolveLeaf(s)
  BY <1>4, HeadSame
<1>6. MayRestOn(q, s.leaf) <=> MayRestOn(s, s.leaf)
  BY <1>3, RestSame
<1> QED BY <1>1, <1>2, <1>5, <1>6 DEF HeadIs

\* p's store comes to be x, the rows and the head stay, and the hold is h.
Moves(p, x, h) ==
  Shape(x) /\ store' = [store EXCEPT ![p] = x] /\ db' = [db EXCEPT !.holder = h] /\ head' = head

LEMMA RowsInit == DbInit => RowsInv
<1> SUFFICES ASSUME DbInit PROVE RowsInv
  OBVIOUS
<1>1. <<>> \in Seq({})
  OBVIOUS
<1>2. StoreShape
  BY <1>1, NothingShape DEF DbInit, StoreShape, NoRows, Stored, IsSeq
<1> QED
  BY <1>2, NothingShape DEF DbInit, RowsInv, RowsRaised, RowsTold, Caches, NoRows, Stored

LEMMA RowsMoved ==
  ASSUME RowsInv, NEW p \in Procs, NEW x, NEW h, Moves(p, x, h)
  PROVE  /\ store'[p] = x /\ (\A q \in Procs : q /= p => store'[q] = store[q])
         /\ db' = [base |-> db.base, format |-> db.format, rows |-> db.rows, holder |-> h]
         /\ StoreShape' /\ RowsRaised' /\ RowsTold'
<1>1. db' = [base |-> db.base, format |-> db.format, rows |-> db.rows, holder |-> h]
  BY DEF RowsInv, StoreShape, Moves
<1>2. store'[p] = x /\ (\A q \in Procs : q /= p => store'[q] = store[q]) /\ store' = [q \in Procs |-> store'[q]]
  BY DEF RowsInv, StoreShape, Moves
<1>3. StoreShape'
  <2>1. \A q \in Procs : Shape(store'[q])
    BY <1>2 DEF RowsInv, StoreShape, Moves
  <2> QED BY <1>1, <1>2, <2>1 DEF StoreShape, RowsInv, Stored
<1>4. RowsRaised'
  BY <1>1 DEF RowsInv, RowsRaised, Stored
<1>5. RowsTold'
  BY <1>1 DEF RowsInv, RowsTold, Stored, Moves
<1> QED BY <1>1, <1>2, <1>3, <1>4, <1>5

\* A process that has nothing cached takes the hold, or any lets it go.
LEMMA RowsDropped ==
  ASSUME RowsInv, NEW p \in Procs, NEW x, NEW h, Moves(p, x, h), x.pc /= "open", h \in {p, None, db.holder}
  PROVE  RowsInv'
<1>1. /\ store'[p] = x /\ (\A q \in Procs : q /= p => store'[q] = store[q])
      /\ db' = [base |-> db.base, format |-> db.format, rows |-> db.rows, holder |-> h]
      /\ StoreShape' /\ RowsRaised' /\ RowsTold'
  BY RowsMoved
<1>2. ASSUME NEW q \in Procs, Caches(q)', db'.holder = q PROVE Follows(store[q])'
  <2>1. q /= p /\ Caches(q) /\ db.holder = q /\ store'[q] = store[q]
    BY <1>1, <1>2, ProcsAssumption DEF Caches
  <2> QED BY <1>1, <2>1 DEF RowsInv, Follows
<1> QED BY <1>1, <1>2 DEF RowsInv

\* A process's store comes to follow the rows.
LEMMA RowsLoaded ==
  ASSUME RowsInv, NEW p \in Procs, NEW x, Moves(p, x, db.holder), Follows(x)
  PROVE  RowsInv'
<1>1. /\ store'[p] = x /\ (\A q \in Procs : q /= p => store'[q] = store[q])
      /\ db' = [base |-> db.base, format |-> db.format, rows |-> db.rows, holder |-> db.holder]
      /\ StoreShape' /\ RowsRaised' /\ RowsTold'
  BY RowsMoved
<1>2. ASSUME NEW q \in Procs, Caches(q)', db'.holder = q PROVE Follows(store[q])'
  <2>1. CASE q = p
    BY <1>1, <2>1 DEF Follows
  <2>2. CASE q /= p
    BY <1>1, <1>2, <2>2 DEF RowsInv, Follows, Caches
  <2> QED BY <2>1, <2>2
<1> QED BY <1>1, <1>2 DEF RowsInv

\* A process's store comes to hold all the rows, which are new.
LEMMA RowsWritten ==
  ASSUME RowsInv, NEW p \in Procs, NEW x, Shape(x), store' = [store EXCEPT ![p] = x],
         NEW b, NEW f \in {"old", "new"}, NEW rows, IsSeq(rows),
         db' = [base |-> b, format |-> f, rows |-> rows, holder |-> p],
         (Len(rows) = b /\ b \in Nat) \/ f = "new",
         Sound(x.sess), x.sess.ents = rows, x.sess.base = b, f = "old" => x.stale = TRUE,
         Lines(rows, b), HeadIs(rows, b, head')
  PROVE  RowsInv'
<1>1. store'[p] = x /\ (\A q \in Procs : q /= p => store'[q] = store[q]) /\ store' = [q \in Procs |-> store'[q]]
  BY DEF RowsInv, StoreShape
<1>2. StoreShape'
  <2>1. \A q \in Procs : Shape(store'[q])
    BY <1>1 DEF RowsInv, StoreShape
  <2> QED BY <1>1, <2>1 DEF StoreShape, Stored
<1>3. RowsRaised'
  BY DEF RowsRaised, Stored
<1>4. RowsTold'
  BY DEF RowsTold, Stored
<1>5. ASSUME NEW q \in Procs, Caches(q)', db'.holder = q PROVE Follows(store[q])'
  BY <1>1, <1>5 DEF Follows
<1> QED BY <1>2, <1>3, <1>4, <1>5 DEF RowsInv

LEMMA RowsAppended ==
  ASSUME RowsInv, NEW p \in Procs, NEW e, AppendRows(p, e),
         \/ e \in Appendable(store[p].sess)
         \/ \E to \in 0..Len(store[p].sess.ents) : e \in HeadLabel(store[p].sess, store[p].sess.leaf, to)
  PROVE  RowsInv'
<1>1. Caches(p) /\ db.holder = p /\ Follows(store[p]) /\ Shape(store[p])
  BY DEF AppendRows, Refused, HoldsRow, RowsInv, StoreShape
<1>2. PICK s, done : s = store[p].sess /\ done = RowsOf(s, e)
  OBVIOUS
<1>3. /\ IsSession(s) /\ Grows(s, done) /\ s.ents = db.rows /\ s.base = db.base
      /\ Sound(done) /\ HeadIs(done.ents, done.base, done.leaf) /\ Lines(done.ents, done.base)
  <2>1. Sound(s) /\ IsSession(s) /\ s.ents = db.rows /\ s.base = db.base
    BY <1>1, <1>2 DEF Follows, Sound
  <2>2. e /= Bad /\ Hosted(s, e)
    BY <1>2, <2>1, HostsHang, MarksAreLines
  <2>3. Sound(done) /\ (MayRestOn(done, done.leaf) => ResolveLeaf(done) = done.leaf)
    BY <1>2, <2>1, <2>2, RowsSound
  <2> QED BY <1>2, <2>1, <2>2, <2>3, HeadKept, WrittenGrows
<1>4. /\ db' = [db EXCEPT !.format = RaisedFormat(p), !.rows = db.rows \o New(s, done)]
      /\ store' = [store EXCEPT ![p].sess = done, ![p].stale = FALSE] /\ head' = done.leaf
  BY <1>2 DEF AppendRows, InsertRows
<1>5. db.rows \o New(s, done) = done.ents
  <2>1. GrownFrom(s.ents, done.ents) /\ IsSeq(s.ents)
    BY <1>3 DEF Grows, IsSession
  <2>2. /\ IsSeq(New(s, done)) /\ s.ents \o SubSeq(New(s, done), 1, Len(New(s, done))) = done.ents
    BY <2>1, WholeWrite DEF New
  <2>3. SubSeq(New(s, done), 1, Len(New(s, done))) = New(s, done)
    BY <2>2 DEF IsSeq
  <2> QED BY <1>3, <2>2, <2>3
<1>6. RaisedFormat(p) = "new"
  BY <1>1 DEF RaisedFormat, RowsInv, StoreShape, Follows
<1>7. db' = [base |-> db.base, format |-> "new", rows |-> done.ents, holder |-> p]
  BY <1>1, <1>4, <1>5, <1>6 DEF RowsInv, StoreShape
<1>8. PICK x, y, z : x = store[p] /\ y = [x EXCEPT !.sess = done] /\ z = [y EXCEPT !.stale = FALSE]
  OBVIOUS
<1>9. Shape(y) /\ y.sess = done
  BY <1>1, <1>8, SetSess
<1>10. Shape(z) /\ z.sess = done
  <2>1. PICK no : no = FALSE
    OBVIOUS
  <2>2. z = [y EXCEPT !.stale = no]
    BY <1>8, <2>1
  <2> QED BY <1>9, <2>2, SetStale
<1>11. store' = [store EXCEPT ![p] = z]
  <2>1. store' = [store EXCEPT ![p] = [x EXCEPT !.sess = done, !.stale = FALSE]]
    BY <1>4, <1>8 DEF RowsInv, StoreShape
  <2> QED BY <1>1, <1>8, <2>1, SetTwo, Zenon
<1>12. IsSeq(done.ents) /\ done.base = db.base
  BY <1>3 DEF Grows, IsSession
<1> QED
  BY <1>3, <1>4, <1>7, <1>10, <1>11, <1>12, RowsWritten

LEMMA RowsInserted ==
  ASSUME RowsInv, Formats \subseteq {"old", "new"}, NEW p \in Procs, Insert(p)
  PROVE  RowsInv'
<1>1. PICK n \in Bases, f \in Formats \cup {"new"} :
       /\ db' = [base |-> n, format |-> f, rows |-> Prefix(n), holder |-> p]
       /\ store' = [store EXCEPT ![p] = [@ EXCEPT !.pc = "open", !.stale = f = "old",
                      !.sess = [NewSession EXCEPT !.ents = Prefix(n), !.base = n, !.leaf = n]]]
       /\ head' = n
  BY DEF Insert
<1>2. n \in Nat /\ f \in {"old", "new"}
  BY BoundsAssumption
<1>3. IsSeq(Prefix(n)) /\ Len(Prefix(n)) = n
  BY <1>2, PrefixLines
<1>4. PICK s : s = [NewSession EXCEPT !.ents = Prefix(n), !.base = n, !.leaf = n]
  OBVIOUS
<1>5. Sound(s) /\ s.ents = Prefix(n) /\ s.base = n /\ Lines(Prefix(n), n) /\ HeadIs(Prefix(n), n, n)
  <2>1. s = [ents |-> Prefix(n), base |-> n, leaf |-> n, read |-> NoRead]
    BY <1>4 DEF NewSession
  <2>2. Sound(s) /\ s.ents = Prefix(n) /\ s.base = n /\ s.leaf = n /\ ResolveLeaf(s) = n
    BY <1>2, <2>1, PrefixSound
  <2> QED BY <2>2, HeadKept
<1>6. PICK old : old = (f = "old")
  OBVIOUS
<1>7. PICK x : x = store[p] /\ Shape(x)
  BY DEF RowsInv, StoreShape
<1>8. PICK y : y = [x EXCEPT !.pc = "open"]
  OBVIOUS
<1>9. PICK z : z = [y EXCEPT !.stale = old]
  OBVIOUS
<1>10. PICK w : w = [z EXCEPT !.sess = s]
  OBVIOUS
<1>11. Shape(y)
  BY <1>7, <1>8, SetPc
<1>12. Shape(z) /\ z.stale = old
  BY <1>9, <1>11, SetStale
<1>13. Shape(w) /\ w.stale = old /\ w.sess = s
  BY <1>10, <1>12, SetSess
<1>14. store' = [store EXCEPT ![p] = w]
  <2>1. store' = [store EXCEPT ![p] = [x EXCEPT !.pc = "open", !.stale = old, !.sess = s]]
    BY <1>1, <1>4, <1>6, <1>7 DEF RowsInv, StoreShape
  <2>2. [x EXCEPT !.pc = "open", !.stale = old, !.sess = s] = [[[x EXCEPT !.pc = "open"] EXCEPT !.stale = old] EXCEPT !.sess = s]
    BY <1>7, SetThree
  <2> QED BY <1>8, <1>9, <1>10, <2>1, <2>2
<1>15. f = "old" => w.stale = TRUE
  BY <1>6, <1>13
<1>16. db' = [base |-> n, format |-> f, rows |-> Prefix(n), holder |-> p] /\ head' = n
  BY <1>1
<1> QED
  BY <1>2, <1>3, <1>5, <1>13, <1>14, <1>15, <1>16, RowsWritten

LEMMA RowsRead ==
  ASSUME RowsInv, NEW p \in Procs, LoadRows(p)
  PROVE  RowsInv'
<1>0. db' = [db EXCEPT !.holder = db.holder] /\ head' = head
  BY DEF LoadRows, RowsInv, StoreShape
<1>1. CASE Stored
  <2>1. PICK s : s = ReadSession(db.rows, db.base)
    OBVIOUS
  <2>3. Sound(s) /\ s.ents = db.rows /\ s.base = db.base
    BY <1>1, <2>1, ReadSound DEF RowsInv, RowsTold
  <2>4. PICK old : old = (db.format = "old")
    OBVIOUS
  <2>5. PICK x : x = store[p] /\ Shape(x)
    BY DEF RowsInv, StoreShape
  <2>6. PICK y : y = [x EXCEPT !.pc = "open"]
    OBVIOUS
  <2>7. PICK z : z = [y EXCEPT !.sess = s]
    OBVIOUS
  <2>8. PICK w : w = [z EXCEPT !.stale = old]
    OBVIOUS
  <2>9. Shape(y)
    BY <2>5, <2>6, SetPc
  <2>10. Shape(z) /\ z.sess = s
    BY <2>7, <2>9, SetSess
  <2>11. Shape(w) /\ w.stale = old /\ w.sess = s
    BY <2>8, <2>10, SetStale
  <2>12. store' = [store EXCEPT ![p] = w]
    <3>1. store' = [store EXCEPT ![p] = [x EXCEPT !.pc = "open", !.sess = s, !.stale = old]]
      BY <1>1, <2>1, <2>4, <2>5 DEF LoadRows, RowsInv, StoreShape
    <3>2. [x EXCEPT !.pc = "open", !.sess = s, !.stale = old] = [[[x EXCEPT !.pc = "open"] EXCEPT !.sess = s] EXCEPT !.stale = old]
      BY <2>5, SetThree
    <3> QED BY <2>6, <2>7, <2>8, <3>1, <3>2
  <2>13. db.format = "old" => w.stale = TRUE
    BY <2>4, <2>11
  <2>14. Moves(p, w, db.holder) /\ Follows(w)
    BY <1>0, <2>3, <2>11, <2>12, <2>13 DEF Moves, Follows
  <2> QED BY <2>14, RowsLoaded
<1>2. CASE ~Stored
  <2>1. store' = [store EXCEPT ![p] = Dropped(p)]
    BY <1>2 DEF LoadRows, RowsInv, StoreShape
  <2>2. Moves(p, Dropped(p), db.holder) /\ Dropped(p).pc /= "open"
    BY <1>0, <2>1, DroppedShape DEF Moves, RowsInv
  <2> QED BY <2>2, RowsDropped
<1> QED BY <1>1, <1>2

LEMMA RowsStep ==
  ASSUME RowsInv, Formats \subseteq {"old", "new"}, [DbNext]_dbVars
  PROVE  RowsInv'
<1>0. /\ \A p \in Procs : Shape(store[p]) /\ Shape(Dropped(p)) /\ Dropped(p).pc = "up"
      /\ db = [db EXCEPT !.holder = db.holder] /\ store = [p \in Procs |-> store[p]]
  BY DroppedShape DEF RowsInv, StoreShape
<1>1. ASSUME NEW p \in Procs, Claim(p) PROVE RowsInv'
  <2>1. PICK x : x = store[p]
    OBVIOUS
  <2>2. PICK y : y = [x EXCEPT !.pc = "loading"]
    OBVIOUS
  <2>3. Shape(y) /\ y.pc = "loading"
    BY <1>0, <2>1, <2>2, SetPc
  <2>4. store' = [store EXCEPT ![p] = y]
    BY <1>0, <1>1, <2>1, <2>2 DEF Claim
  <2>5. Moves(p, y, p)
    BY <1>1, <2>3, <2>4 DEF Claim, Moves
  <2> QED BY <2>3, <2>5, RowsDropped
<1>3. ASSUME NEW p \in Procs, ReleaseRows(p) \/ CloseStore(p) PROVE RowsInv'
  <2>1. store' = [store EXCEPT ![p] = Nothing] /\ (db' = db \/ db' = [db EXCEPT !.holder = None]) /\ head' = head
    BY <1>3 DEF ReleaseRows, CloseStore
  <2>2. Moves(p, Nothing, db.holder) \/ Moves(p, Nothing, None)
    BY <1>0, <2>1, NothingShape DEF Moves
  <2> QED BY <2>2, RowsDropped, NothingShape
<1>4. ASSUME NEW p \in Procs, DeleteRows(p) PROVE RowsInv'
  <2>1. PICK x : x = [Nothing EXCEPT !.refused = store[p].refused]
    OBVIOUS
  <2>2. Shape(x)
    BY <2>1, NothingShape, SetRefused
  <2>3. db' = NoRows /\ store' = [store EXCEPT ![p] = x]
    BY <1>4, <2>1 DEF DeleteRows
  <2>4. store' = [q \in Procs |-> store'[q]] /\ \A q \in Procs : Shape(store'[q])
    BY <1>0, <2>2, <2>3
  <2>5. <<>> \in Seq({})
    OBVIOUS
  <2>6. StoreShape'
    BY <2>3, <2>4, <2>5 DEF StoreShape, NoRows, IsSeq
  <2> QED BY <2>3, <2>6, ProcsAssumption DEF RowsInv, RowsRaised, RowsTold, NoRows, Stored
<1>5. ASSUME BreakHold PROVE RowsInv'
  <2>1. db' = [base |-> db.base, format |-> db.format, rows |-> db.rows, holder |-> None] /\ store' = store /\ head' = head
    BY <1>5 DEF BreakHold, RowsInv, StoreShape
  <2> QED BY <2>1, ProcsAssumption DEF RowsInv, StoreShape, RowsRaised, RowsTold, Stored, Caches
<1>6. ASSUME NEW p \in Procs, AppendRefused(p) PROVE RowsInv'
  <2>1. PICK yes, x : yes = TRUE /\ x = [Dropped(p) EXCEPT !.refused = yes]
    OBVIOUS
  <2>2. Shape(x) /\ x.pc = "up"
    BY <1>0, <2>1, SetRefused
  <2>3. store' = [store EXCEPT ![p] = x] /\ db' = db /\ head' = head
    BY <1>6, <2>1 DEF AppendRefused
  <2>4. Moves(p, x, db.holder)
    BY <1>0, <2>2, <2>3 DEF Moves
  <2> QED BY <2>2, <2>4, RowsDropped
<1>7. ASSUME NEW p \in Procs, AppendFails(p) PROVE RowsInv'
  <2>1. Moves(p, Dropped(p), db.holder) /\ Dropped(p).pc /= "open"
    BY <1>0, <1>7 DEF AppendFails, Moves
  <2> QED BY <2>1, RowsDropped
<1>8. ASSUME NEW p \in Procs, KillStore(p) PROVE RowsInv'
  <2>1. PICK x : x = [Nothing EXCEPT !.pc = "dead"]
    OBVIOUS
  <2>2. Shape(x) /\ x.pc = "dead"
    BY <2>1, NothingShape, SetPc
  <2>3. Moves(p, x, db.holder)
    BY <1>0, <1>8, <2>1, <2>2 DEF KillStore, Moves
  <2> QED BY <2>2, <2>3, RowsDropped
<1>9. ASSUME NEW p \in Procs, RestartStore(p) PROVE RowsInv'
  <2>1. Moves(p, Nothing, db.holder)
    BY <1>0, <1>9, NothingShape DEF RestartStore, Moves
  <2> QED BY <2>1, NothingShape, RowsDropped
<1>10. ASSUME NEW p \in Procs, BranchCached(p) PROVE RowsInv'
  <2>1. PICK id \in 0..Len(store[p].sess.ents) :
          MayRestOn(store[p].sess, id) /\ store' = [store EXCEPT ![p].sess.leaf = id]
    BY <1>10 DEF BranchCached
  <2>2. Follows(store[p]) /\ db.holder = p /\ db' = db /\ head' = head
    BY <1>10 DEF BranchCached, HoldsRow, RowsInv
  <2>3. PICK x, s : x = store[p] /\ s = x.sess
    OBVIOUS
  <2>4. Sound(s) /\ s.ents = db.rows /\ s.base = db.base
    BY <2>2, <2>3 DEF Follows
  <2>5. PICK t : t = [s EXCEPT !.leaf = id]
    OBVIOUS
  <2>6. id \in s.base..Len(s.ents)
    <3>1. s.base \in Nat /\ Len(s.ents) \in Nat /\ id \in 0..Len(s.ents) /\ MayRestOn(s, id)
      BY <2>1, <2>3, <2>4, EntryOf DEF Sound
    <3> QED BY <3>1 DEF MayRestOn, Root
  <2>7. Sound(t) /\ t.ents = db.rows /\ t.base = db.base
    BY <2>4, <2>5, <2>6, MovedSound
  <2>8. PICK y : y = [x EXCEPT !.sess = t]
    OBVIOUS
  <2>9. Shape(y) /\ y.sess = t /\ y.stale = x.stale
    BY <1>0, <2>3, <2>8, SetSess
  <2>10. store' = [store EXCEPT ![p] = y]
    BY <1>0, <2>1, <2>3, <2>5, <2>8
  <2>11. Moves(p, y, db.holder)
    BY <1>0, <2>2, <2>9, <2>10 DEF Moves
  <2>12. Follows(y)
    BY <2>2, <2>3, <2>7, <2>9 DEF Follows
  <2> QED BY <2>11, <2>12, RowsLoaded
<1>11. ASSUME NEW p \in Procs, MoveHead(p) PROVE RowsInv'
  BY <1>11, RowsAppended DEF MoveHead
<1>12. CASE UNCHANGED dbVars
  BY <1>12 DEF dbVars, RowsInv, StoreShape, RowsRaised, RowsTold, Stored, Caches, Follows, Dropped
<1> QED
  BY <1>1, <1>3, <1>4, <1>5, <1>6, <1>7, <1>8, <1>9, <1>10, <1>11, <1>12,
     RowsAppended, RowsInserted, RowsRead DEF DbNext

\* The rows are the session: whatever holds were lost, broken, taken over or
\* let go and whatever was deleted and made again, a process whose append the
\* database will take has the rows the database holds, whoever opens the
\* session finds the head its last writer left, and no row appended by this
\* writer sits under a header of an earlier minor (sqlite.go's appendLocked,
\* claim and load).
THEOREM RowsAreTheSession ==
  ASSUME Formats \subseteq {"old", "new"}
  PROVE  DbInit /\ [][DbNext]_dbVars => []RowsKeepTheSession
<1>1. RowsInv => RowsKeepTheSession
  <2>1. RowsInv => RowsFollow
    BY DEF RowsInv, RowsFollow, Follows
  <2>2. RowsInv => RowsReadBack
    BY DEF RowsInv, RowsReadBack, RowsTold, HeadIs
  <2> QED BY <2>1, <2>2 DEF RowsInv, RowsKeepTheSession
<1>2. RowsInv /\ [DbNext]_dbVars => RowsInv'
  BY RowsStep
<1> QED
  BY <1>1, <1>2, RowsInit, PTL

-----------------------------------------------------------------------------
(* The origin of a fork: the walk up the parents.  It is of at most Walks  *)
(* steps; what holds of it is shown by its length.                         *)

\* One step of the walk, from n and what the walk of n - 1 finds.
Further(k, n, shorter) ==
  [s \in Everyone |->
     IF n = 0 \/ s = Nobody THEN <<>>
     ELSE IF ~HoldsBase(k, s) THEN <<>>
     ELSE IF Stops(k, s) THEN <<s>>
     ELSE <<s>> \o shorter[k[s].parent]]

\* A set that has 0 and the successor of each of its members below m has every
\* number up to m.
LEMMA Counting ==
  ASSUME NEW m \in Nat, NEW S, 0 \in S, \A n \in 1..m : n - 1 \in S => n \in S
  PROVE  0..m \subseteq S
<1> SUFFICES ASSUME 0..m \ S /= {} PROVE FALSE
  OBVIOUS
<1>1. PICK x \in 0..m \ S : \A y \in 0..m \ S : x <= y
  BY LeastOf, 0..m \ S \in SUBSET Nat
<1>2. x \in 1..m /\ x - 1 \in 0..m /\ ~(x <= x - 1)
  BY <1>1
<1>3. x - 1 \in S
  BY <1>1, <1>2
<1> QED BY <1>1, <1>2, <1>3

\* The walk is what its definition says of it.
LEMMA UpwardIs ==
  ASSUME NEW k
  PROVE  Upward(k) = [n \in 0..Walks |-> Further(k, n, Upward(k)[n - 1])]
<1> DEFINE Fits(f, m) == f = [n \in 0..m |-> Further(k, n, f[n - 1])]
           S == {m \in 0..Walks : \E f : Fits(f, m)}
<1>0. Walks \in Nat
  BY OriginAssumption
<1>1. 0 \in S
  <2> DEFINE f == [n \in 0..0 |-> Further(k, n, 0)]
  <2>1. Fits(f, 0)
    BY DEF Further
  <2> QED BY <2>1, <1>0
<1>2. ASSUME NEW m \in 1..Walks, m - 1 \in S PROVE m \in S
  <2>1. PICK f : Fits(f, m - 1)
    BY <1>2
  <2> DEFINE g == [n \in 0..m |-> Further(k, n, f[n - 1])]
  <2>2. \A n \in 0..m-1 : g[n] = f[n]
    <3>1. \A n \in 0..m-1 : f[n] = Further(k, n, f[n - 1])
      BY <2>1
    <3>2. \A n \in 0..m-1 : n \in 0..m
      OBVIOUS
    <3> HIDE DEF Fits
    <3> QED BY <3>1, <3>2
  <2>3. ASSUME NEW n \in 0..m PROVE Further(k, n, f[n - 1]) = Further(k, n, g[n - 1])
    <3>1. CASE n = 0
      BY <3>1 DEF Further
    <3>2. CASE n /= 0
      <4>1. n - 1 \in 0..m-1
        BY <3>2
      <4> HIDE DEF g
      <4> QED BY <4>1, <2>2
    <3> QED BY <3>1, <3>2
  <2>4. Fits(g, m)
    BY <2>3
  <2>5. m \in 0..Walks
    BY <1>0
  <2> HIDE DEF Fits, g
  <2> QED BY <2>4, <2>5
<1>3. Walks \in S
  <2> HIDE DEF S
  <2>1. 0..Walks \subseteq S
    BY <1>0, <1>1, <1>2, Counting
  <2> QED BY <1>0, <2>1
<1>4. PICK f : Fits(f, Walks)
  BY <1>3
<1>5. Upward(k) = CHOOSE g : Fits(g, Walks)
  BY DEF Upward, Further
<1>6. Fits(CHOOSE g : Fits(g, Walks), Walks)
  <2> HIDE DEF Fits
  <2> QED BY <1>4
<1> QED BY <1>5, <1>6

LEMMA UpwardStep ==
  ASSUME NEW k, NEW n \in 0..Walks, NEW s \in Everyone
  PROVE  Upward(k)[n][s] =
           IF n = 0 \/ s = Nobody THEN <<>>
           ELSE IF ~HoldsBase(k, s) THEN <<>>
           ELSE IF Stops(k, s) THEN <<s>>
           ELSE <<s>> \o Upward(k)[n - 1][k[s].parent]
<1> DEFINE u == Upward(k)
<1>1. u = [i \in 0..Walks |-> Further(k, i, u[i - 1])]
  BY UpwardIs
<1> HIDE DEF u
<1>2. u[n] = Further(k, n, u[n - 1])
  BY <1>1
<1>3. Further(k, n, u[n - 1])[s] =
           IF n = 0 \/ s = Nobody THEN <<>>
           ELSE IF ~HoldsBase(k, s) THEN <<>>
           ELSE IF Stops(k, s) THEN <<s>>
           ELSE <<s>> \o u[n - 1][k[s].parent]
  BY DEF Further
<1> QED BY <1>2, <1>3 DEF u

\* A store's sessions, and the parts of it a caller may read.
Stores == [Ids -> Shapes]

LEMMA ShapeOf ==
  ASSUME NEW k \in Stores, NEW s \in Ids
  PROVE  /\ k[s].at \in {"none", "lacks", "owns", "prefix"} /\ k[s].parent \in Everyone
         /\ k[s].parent /= Nobody => k[s].at = "prefix"
  BY DEF Stores, Shapes, Absent, Everyone

\* A sequence's elements, of one element put before a sequence.
LEMMA Before ==
  ASSUME NEW S, NEW a \in S, NEW t \in Seq(S)
  PROVE  /\ <<a>> \o t \in Seq(S) /\ <<a>> \o t /= <<>>
         /\ ToSet(<<a>> \o t) = {a} \cup ToSet(t)
         /\ Last(<<a>> \o t) = IF t = <<>> THEN a ELSE Last(t)
<1> DEFINE u == <<a>> \o t
<1>1. u \in Seq(S) /\ Len(u) = Len(t) + 1 /\ u[1] = a /\ \A i \in 1..Len(t) : u[i + 1] = t[i]
  OBVIOUS
<1>2. Len(t) \in Nat /\ DOMAIN t = 1..Len(t) /\ DOMAIN u = 1..Len(t) + 1
  BY <1>1
<1> HIDE DEF u
<1>3. ToSet(u) = {a} \cup ToSet(t)
  <2>1. \A i \in 1..Len(t) + 1 : i = 1 \/ (i - 1 \in 1..Len(t) /\ i = (i - 1) + 1)
    BY <1>2
  <2>2. \A i \in 1..Len(t) : i + 1 \in 1..Len(t) + 1
    BY <1>2
  <2>3. 1 \in 1..Len(t) + 1
    BY <1>2
  <2>4. ASSUME NEW x \in ToSet(u) PROVE x \in {a} \cup ToSet(t)
    <3>1. PICK i \in 1..Len(t) + 1 : x = u[i]
      BY <1>2 DEF ToSet
    <3>2. CASE i = 1
      BY <1>1, <3>1, <3>2
    <3>3. CASE i /= 1
      <4>1. i - 1 \in 1..Len(t) /\ i = (i - 1) + 1
        BY <2>1, <3>3
      <4>2. x = t[i - 1]
        BY <1>1, <3>1, <4>1
      <4> QED BY <1>2, <4>1, <4>2 DEF ToSet
    <3> QED BY <3>2, <3>3
  <2>5. ASSUME NEW x \in ToSet(t) PROVE x \in ToSet(u)
    <3>1. PICK i \in 1..Len(t) : x = t[i]
      BY <1>2 DEF ToSet
    <3> QED BY <1>1, <1>2, <2>2, <3>1 DEF ToSet
  <2>6. a \in ToSet(u)
    BY <1>1, <1>2, <2>3 DEF ToSet
  <2> QED BY <2>4, <2>5, <2>6
<1>4. Last(u) = IF t = <<>> THEN a ELSE Last(t)
  <2>1. CASE t = <<>>
    BY <1>1, <2>1 DEF Last
  <2>2. CASE t /= <<>>
    <3>1. Len(t) \in 1..Len(t)
      BY <1>2, <2>2
    <3> QED BY <1>1, <2>2, <3>1 DEF Last
  <2> QED BY <2>1, <2>2
<1> QED BY <1>1, <1>3, <1>4, <1>2 DEF u

\* The elements of a sequence are its set's, its last among them.
LEMMA LastIn ==
  ASSUME NEW S, NEW t \in Seq(S)
  PROVE  ToSet(t) \subseteq S /\ (t /= <<>> => Last(t) \in ToSet(t))
<1>1. Len(t) \in Nat /\ DOMAIN t = 1..Len(t) /\ \A i \in 1..Len(t) : t[i] \in S
  OBVIOUS
<1>2. t /= <<>> => Len(t) \in 1..Len(t)
  BY <1>1
<1> QED BY <1>1, <1>2 DEF ToSet, Last

\* The walks are of sessions that hold the base.
Holding(k) == {s \in Ids : HoldsBase(k, s)}

LEMMA HeldSeq == ASSUME NEW k, NEW t \in Seq(Holding(k)) PROVE t \in Seq(Ids)
<1>1. Len(t) \in Nat /\ DOMAIN t = 1..Len(t) /\ t = [i \in 1..Len(t) |-> t[i]]
  OBVIOUS
<1>2. \A i \in 1..Len(t) : t[i] \in Ids
  BY <1>1 DEF Holding
<1> QED BY <1>1, <1>2

LEMMA UpwardType ==
  ASSUME NEW k \in Stores
  PROVE  \A n \in 0..Walks, s \in Everyone :
            Upward(k)[n][s] \in Seq(Ids) /\ Upward(k)[n][s] \in Seq(Holding(k))
<1> DEFINE S == {n \in 0..Walks : \A s \in Everyone : Upward(k)[n][s] \in Seq(Holding(k))}
<1>0. Walks \in Nat
  BY OriginAssumption
<1>1. <<>> \in Seq(Holding(k))
  OBVIOUS
<1>2. 0 \in S
  <2>1. 0 \in 0..Walks
    BY <1>0
  <2>2. ASSUME NEW s \in Everyone PROVE Upward(k)[0][s] = <<>>
    BY <2>1, UpwardStep
  <2> QED BY <1>1, <2>1, <2>2
<1>3. ASSUME NEW n \in 1..Walks, n - 1 \in S PROVE n \in S
  <2>1. n \in 0..Walks /\ n /= 0
    BY <1>0
  <2>2. \A s \in Everyone : Upward(k)[n - 1][s] \in Seq(Holding(k))
    BY <1>3
  <2>3. ASSUME NEW s \in Everyone PROVE Upward(k)[n][s] \in Seq(Holding(k))
    <3>1. CASE s = Nobody \/ ~HoldsBase(k, s)
      <4>1. Upward(k)[n][s] = <<>>
        BY <2>1, <3>1, UpwardStep
      <4> QED BY <1>1, <4>1
    <3>2. CASE s /= Nobody /\ HoldsBase(k, s)
      <4>1. s \in Ids /\ s \in Holding(k)
        BY <3>2 DEF Everyone, Holding
      <4>2. k[s].parent \in Everyone
        BY <4>1, ShapeOf
      <4>3. <<s>> \in Seq(Holding(k))
        BY <4>1
      <4>4. <<s>> \o Upward(k)[n - 1][k[s].parent] \in Seq(Holding(k))
        BY <2>2, <4>1, <4>2, Before
      <4>5. Upward(k)[n][s] \in {<<s>>, <<s>> \o Upward(k)[n - 1][k[s].parent]}
        BY <2>1, <3>2, UpwardStep
      <4> QED BY <4>3, <4>4, <4>5
    <3> QED BY <3>1, <3>2
  <2> QED BY <2>1, <2>3
<1>4. 0..Walks \subseteq S
  <2> HIDE DEF S
  <2> QED BY <1>0, <1>2, <1>3, Counting
<1> QED BY <1>4, HeldSeq

\* k as a caller sees it who may read only these sessions.
SeenOf(k, may) == [s \in Ids |-> IF s \in may THEN k[s] ELSE Absent]

LEMMA SeenType ==
  ASSUME NEW k \in Stores, NEW may \in SUBSET Ids
  PROVE  /\ SeenOf(k, may) \in Stores
         /\ \A s \in may : SeenOf(k, may)[s] = k[s]
         /\ \A s \in Ids : HoldsBase(SeenOf(k, may), s) <=> s \in may /\ HoldsBase(k, s)
  BY DEF SeenOf, Stores, Shapes, HoldsBase, Absent

\* A chain of readable sessions ends for such a caller where it ends.
LEMMA EndsAlike ==
  ASSUME NEW k \in Stores, NEW may \in SUBSET Ids, NEW c \in Seq(Ids), ToSet(c) \subseteq may
  PROVE  ChainEnds(SeenOf(k, may), c) <=> ChainEnds(k, c)
<1>1. c /= <<>> => Last(c) \in may
  BY LastIn
<1> QED BY <1>1, SeenType DEF ChainEnds, Stops

\* What such a caller's walk finds: readable sessions; the same chain, if the
\* chain is of readable sessions or the walk comes to an end.
Alike(k, may, n, s) ==
  LET c == Upward(k)[n][s]
      d == Upward(SeenOf(k, may))[n][s]
  IN /\ ToSet(d) \subseteq may
     /\ ToSet(c) \subseteq may => d = c
     /\ ChainEnds(SeenOf(k, may), d) => d = c

LEMMA EmptyAlike ==
  ASSUME NEW k, NEW may
  PROVE  ToSet(<<>>) \subseteq may /\ ~ChainEnds(k, <<>>)
  BY DEF ToSet, ChainEnds

LEMMA WalksAlike ==
  ASSUME NEW k \in Stores, NEW may \in SUBSET Ids
  PROVE  \A n \in 0..Walks : \A s \in Everyone : Alike(k, may, n, s)
<1> DEFINE j == SeenOf(k, may)
           S == {n \in 0..Walks : \A s \in Everyone : Alike(k, may, n, s)}
<1>0. Walks \in Nat /\ j \in Stores
  BY OriginAssumption, SeenType
<1>2. 0 \in S
  <2>1. ASSUME NEW s \in Everyone PROVE Upward(k)[0][s] = <<>> /\ Upward(j)[0][s] = <<>>
    <3>1. 0 \in 0..Walks
      BY <1>0
    <3>2. \A l : Upward(l)[0][s] =
              IF 0 = 0 \/ s = Nobody THEN <<>>
              ELSE IF ~HoldsBase(l, s) THEN <<>>
              ELSE IF Stops(l, s) THEN <<s>>
              ELSE <<s>> \o Upward(l)[0 - 1][l[s].parent]
      BY <3>1, UpwardStep, Zenon
    <3> HIDE DEF j
    <3> QED BY <3>2
  <2> HIDE DEF j
  <2>2. \A s \in Everyone : Alike(k, may, 0, s)
    BY <2>1, EmptyAlike DEF Alike, j
  <2> QED BY <1>0, <2>2
<1>3. ASSUME NEW n \in 1..Walks, n - 1 \in S PROVE n \in S
  <2>1. n \in 0..Walks /\ n /= 0 /\ n - 1 \in 0..Walks
    BY <1>0
  <2>2. ASSUME NEW s \in Everyone PROVE Alike(k, may, n, s)
    <3> DEFINE c == Upward(k)[n][s]
               d == Upward(j)[n][s]
               p == k[s].parent
               a == Upward(k)[n - 1][p]
               b == Upward(j)[n - 1][p]
    <3>1. /\ c = IF s = Nobody THEN <<>> ELSE IF ~HoldsBase(k, s) THEN <<>>
                 ELSE IF Stops(k, s) THEN <<s>> ELSE <<s>> \o a
          /\ d = IF s = Nobody THEN <<>> ELSE IF ~HoldsBase(j, s) THEN <<>>
                 ELSE IF Stops(j, s) THEN <<s>> ELSE <<s>> \o Upward(j)[n - 1][j[s].parent]
      <4>1. \A l : Upward(l)[n][s] =
              IF n = 0 \/ s = Nobody THEN <<>>
              ELSE IF ~HoldsBase(l, s) THEN <<>>
              ELSE IF Stops(l, s) THEN <<s>>
              ELSE <<s>> \o Upward(l)[n - 1][l[s].parent]
        BY <2>1, UpwardStep, Zenon
      <4> HIDE DEF j
      <4> QED BY <2>1, <4>1
    <3>2. CASE s = Nobody \/ ~HoldsBase(k, s)
      <4>1. s /= Nobody => s \in Ids
        BY DEF Everyone
      <4>2. c = <<>> /\ d = <<>>
        BY <3>1, <3>2, <4>1, SeenType
      <4> HIDE DEF c, d
      <4> QED BY <4>2, EmptyAlike DEF Alike, c, d
    <3>3. CASE s /= Nobody /\ HoldsBase(k, s) /\ s \notin may
      <4>1. s \in Ids /\ <<>> \in Seq(Ids)
        BY <3>3 DEF Everyone
      <4>2. d = <<>>
        BY <3>1, <3>3, <4>1, SeenType
      <4>3. s \in ToSet(c)
        <5>1. c = <<s>> \/ c = <<s>> \o a
          BY <3>1, <3>3
        <5>2. <<s>> = <<s>> \o <<>>
          BY <4>1
        <5>3. a \in Seq(Ids)
          BY <2>1, <4>1, UpwardType, ShapeOf
        <5> HIDE DEF a, c
        <5>4. /\ ToSet(<<s>> \o a) = {s} \cup ToSet(a)
              /\ ToSet(<<s>> \o <<>>) = {s} \cup ToSet(<<>>)
          BY <4>1, <5>3, Before
        <5> QED BY <5>1, <5>2, <5>4
      <4> HIDE DEF c, d
      <4> QED BY <3>3, <4>2, <4>3, EmptyAlike DEF Alike, c, d
    <3>4. CASE s /= Nobody /\ HoldsBase(k, s) /\ s \in may
      <4>1. s \in Ids /\ j[s] = k[s] /\ HoldsBase(j, s) /\ (Stops(j, s) <=> Stops(k, s))
        BY <3>4, SeenType DEF Stops
      <4>2. p \in Everyone /\ a \in Seq(Ids) /\ b \in Seq(Ids)
        <5>1. p \in Everyone
          BY <4>1, ShapeOf
        <5> QED BY <1>0, <2>1, <5>1, UpwardType
      <4>3. CASE Stops(k, s)
        <5>1. c = <<s>> /\ d = <<s>>
          BY <3>1, <3>4, <4>1, <4>3
        <5>2. ToSet(<<s>>) = {s}
          BY DEF ToSet
        <5> HIDE DEF c, d
        <5> QED BY <3>4, <5>1, <5>2 DEF Alike, c, d
      <4>4. CASE ~Stops(k, s)
        <5>1. c = <<s>> \o a /\ d = <<s>> \o b
          BY <3>1, <3>4, <4>1, <4>4
        <5>2. Alike(k, may, n - 1, p)
          BY <1>3, <4>2
        <5>3. /\ ToSet(b) \subseteq may /\ (ToSet(a) \subseteq may => b = a)
              /\ ChainEnds(j, b) => b = a
          BY <5>2 DEF Alike
        <5> HIDE DEF c, d, a, b, p, j
        <5>4. ToSet(c) = {s} \cup ToSet(a) /\ ToSet(d) = {s} \cup ToSet(b)
          BY <4>1, <4>2, <5>1, Before
        <5>5. ChainEnds(j, d) => ChainEnds(j, b)
          <6>1. Last(d) = IF b = <<>> THEN s ELSE Last(b)
            BY <4>1, <4>2, <5>1, Before
          <6> QED BY <4>1, <4>4, <6>1 DEF ChainEnds
        <5>6. /\ ToSet(d) \subseteq may /\ (ToSet(c) \subseteq may => d = c)
              /\ ChainEnds(j, d) => d = c
          BY <3>4, <5>1, <5>3, <5>4, <5>5
        <5> QED BY <5>6 DEF Alike, c, d, j
      <4> QED BY <4>3, <4>4
    <3> QED BY <3>2, <3>3, <3>4
  <2> QED BY <2>1, <2>2
<1>4. 0..Walks \subseteq S
  <2> HIDE DEF S
  <2> QED BY <1>0, <1>2, <1>3, Counting
<1> QED BY <1>4

-----------------------------------------------------------------------------
(* The pick.                                                               *)

Chains == [chain : Seq(Ids), ends : BOOLEAN]
Holders == [owners : SUBSET Ids, onPrefix : SUBSET Ids]

LEMMA MinIn ==
  ASSUME NEW S \in SUBSET Ids, S /= {}
  PROVE  Min(S) \in S
<1>1. \E x \in S : \A y \in S : x <= y
  BY LeastOf, OriginAssumption
<1> QED BY <1>1 DEF Min

\* The pick is of what was gathered and is admitted, and fails only where
\* nothing gathered is.
LEMMA Picked ==
  ASSUME NEW c \in Chains, NEW h \in Holders, NEW may \in SUBSET Ids, c.ends => c.chain /= <<>>
  PROVE  LET id == Pick(c, h, may)
         IN  /\ id \in Everyone
             /\ id /= Nobody => id \in may /\ id \in ToSet(c.chain) \cup h.owners \cup h.onPrefix
             /\ id = Nobody => (h.owners \cup h.onPrefix) \cap may = {}
<1>0. Nobody \notin Ids
  BY OriginAssumption DEF Nobody
<1>1. c.chain \in Seq(Ids) /\ h.owners \subseteq Ids /\ h.onPrefix \subseteq Ids
  BY DEF Chains, Holders
<1>2. CASE c.ends /\ ToSet(c.chain) \subseteq may
  <2>1. Last(c.chain) \in ToSet(c.chain)
    BY <1>1, <1>2, LastIn
  <2>2. Pick(c, h, may) = Last(c.chain)
    BY <1>2 DEF Pick
  <2> QED BY <1>0, <1>2, <2>1, <2>2 DEF Everyone
<1>3. CASE ~(c.ends /\ ToSet(c.chain) \subseteq may) /\ h.owners \cap may /= {}
  <2>1. Min(h.owners \cap may) \in h.owners \cap may
    BY <1>3, MinIn
  <2>2. Pick(c, h, may) = Min(h.owners \cap may)
    BY <1>3 DEF Pick
  <2> QED BY <1>0, <2>1, <2>2 DEF Everyone
<1>4. CASE ~(c.ends /\ ToSet(c.chain) \subseteq may) /\ h.owners \cap may = {} /\ h.onPrefix \cap may /= {}
  <2>1. Min(h.onPrefix \cap may) \in h.onPrefix \cap may
    BY <1>4, MinIn
  <2>2. Pick(c, h, may) = Min(h.onPrefix \cap may)
    BY <1>4 DEF Pick
  <2> QED BY <1>0, <2>1, <2>2 DEF Everyone
<1>5. CASE ~(c.ends /\ ToSet(c.chain) \subseteq may) /\ h.owners \cap may = {} /\ h.onPrefix \cap may = {}
  <2>1. Pick(c, h, may) = Nobody
    BY <1>5 DEF Pick
  <2> QED BY <1>0, <1>5, <2>1 DEF Everyone
<1> QED BY <1>2, <1>3, <1>4, <1>5

\* What is gathered of a store.
LEMMA Gathered ==
  ASSUME NEW k \in Stores, NEW named \in Everyone
  PROVE  /\ ChainOf(k, named) \in Chains /\ HoldersOf(k) \in Holders
         /\ ChainOf(k, named).ends => ChainOf(k, named).chain /= <<>>
         /\ ChainOf(k, named).chain = Upward(k)[Walks][named]
         /\ ToSet(ChainOf(k, named).chain) \subseteq Holding(k)
         /\ HoldersOf(k).owners \cup HoldersOf(k).onPrefix = Holding(k)
<1>1. Walks \in 0..Walks
  BY OriginAssumption
<1>2. Chain(k, named) \in Seq(Ids) /\ ToSet(Chain(k, named)) \subseteq Holding(k)
  <2>1. Chain(k, named) \in Seq(Ids) /\ Chain(k, named) \in Seq(Holding(k))
    BY <1>1, UpwardType DEF Chain
  <2> QED BY <2>1, LastIn
<1>3. HoldersOf(k).owners = {s \in Ids : k[s].at = "owns"} /\ HoldersOf(k).onPrefix = {s \in Ids : k[s].at = "prefix"}
  BY DEF HoldersOf
<1>4. HoldersOf(k).owners \cup HoldersOf(k).onPrefix = Holding(k)
  BY <1>3 DEF Holding, HoldsBase
<1>5. HoldersOf(k) \in Holders
  BY DEF HoldersOf, Holders
<1> QED BY <1>2, <1>4, <1>5 DEF ChainOf, ChainEnds, Chains, Chain

\* It is the pick of a caller for whom the others are not there.
LEMMA PickBlind ==
  ASSUME NEW k \in Stores, NEW named \in Everyone, NEW may \in SUBSET Ids
  PROVE  Pick(ChainOf(k, named), HoldersOf(k), may)
           = Pick(ChainOf(SeenOf(k, may), named), HoldersOf(SeenOf(k, may)), Ids)
<1> DEFINE j == SeenOf(k, may)
           c == ChainOf(k, named)
           d == ChainOf(j, named)
           h == HoldersOf(k)
           i == HoldersOf(j)
<1>0. j \in Stores /\ Walks \in 0..Walks
  BY SeenType, OriginAssumption
<1>1. i.owners \cap Ids = h.owners \cap may /\ i.onPrefix \cap Ids = h.onPrefix \cap may
  BY DEF HoldersOf, SeenOf, Absent
<1>2. /\ c.chain \in Seq(Ids) /\ d.chain \in Seq(Ids)
      /\ c.chain = Upward(k)[Walks][named] /\ d.chain = Upward(j)[Walks][named]
      /\ c.ends = ChainEnds(k, c.chain) /\ d.ends = ChainEnds(j, d.chain)
  <2>1. \A l \in Stores : /\ ChainOf(l, named).chain \in Seq(Ids)
                          /\ ChainOf(l, named).chain = Upward(l)[Walks][named]
                          /\ ChainOf(l, named).ends = ChainEnds(l, ChainOf(l, named).chain)
    <3>1. ASSUME NEW l \in Stores
          PROVE  ChainOf(l, named).ends = ChainEnds(l, ChainOf(l, named).chain)
      BY DEF ChainOf
    <3>2. ASSUME NEW l \in Stores
          PROVE  ChainOf(l, named).chain \in Seq(Ids) /\ ChainOf(l, named).chain = Upward(l)[Walks][named]
      BY Gathered DEF Chains
    <3> QED BY <3>1, <3>2
  <2> HIDE DEF j
  <2> QED BY <1>0, <2>1
<1>3. Alike(k, may, Walks, named)
  BY <1>0, WalksAlike
<1>4. /\ ToSet(d.chain) \subseteq may /\ (ToSet(c.chain) \subseteq may => d.chain = c.chain)
      /\ d.ends => d.chain = c.chain
  BY <1>2, <1>3 DEF Alike
<1>5. (c.ends /\ ToSet(c.chain) \subseteq may) <=> d.ends
  <2>1. ASSUME ToSet(c.chain) \subseteq may, d.chain = c.chain PROVE d.ends = c.ends
    <3>1. ChainEnds(j, c.chain) <=> ChainEnds(k, c.chain)
      BY <1>2, <2>1, EndsAlike
    <3> QED BY <1>2, <2>1, <3>1 DEF ChainEnds
  <2> HIDE DEF c, d
  <2> QED BY <1>4, <2>1
<1>6. ToSet(d.chain) \subseteq Ids
  BY <1>2, LastIn
<1> HIDE DEF c, d, h, i, j
<1>7. Pick(c, h, may) = Pick(d, i, Ids)
  BY <1>1, <1>4, <1>5, <1>6 DEF Pick
<1> QED BY <1>7 DEF c, d, h, i, j

-----------------------------------------------------------------------------
(* The call.                                                               *)

Calls == [pc : {"chain", "holders", "asking", "taking", "placing", "made", "refused"},
          named : Everyone, may : SUBSET Ids, asked : BOOLEAN, tries : Nat,
          c : Chains, h : Holders, from : Everyone]

OriginType ==
  /\ backend \in {"memory", "sqlite", "jsonl"} /\ kept \in Stores /\ fork \in Calls
  /\ backend \in Backends
  /\ changes \in 0..MaxChanges /\ steady \in SUBSET Ids

\* What was gathered may have gone since, and then something was changed in
\* this try.
StillThere ==
  changes = fork.tries =>
    /\ fork.pc \in {"holders", "asking"} => ToSet(fork.c.chain) \subseteq Holding(kept)
    /\ fork.pc = "asking" => fork.h.owners \cup fork.h.onPrefix \subseteq Holding(kept)
    /\ fork.pc = "taking" => fork.from \in Holding(kept)

\* Each try but the first was made for a change; what held the base all the
\* while was gathered; the origin is one the caller may read.
CallInv ==
  /\ Calling => fork.tries <= changes /\ steady \subseteq Holding(kept)
  /\ fork.pc \in {"holders", "asking"} /\ fork.c.ends => fork.c.chain /= <<>>
  /\ fork.pc = "asking" => steady \subseteq fork.h.owners \cup fork.h.onPrefix
  /\ fork.pc = "taking" => fork.from \in Ids
  /\ fork.pc \in {"taking", "placing"} /\ fork.from /= Nobody => fork.from \in fork.may
  /\ fork.pc = "placing" /\ backend = "memory" => fork.from = Nobody

\* The store does not change more often than the call looks again.
LooksOften == \A b \in Backends \ {"jsonl"} : MaxChanges < MaxTries[b]

OriginInv == OriginType /\ StillThere /\ CallInv /\ (LooksOften => RefusedOnlyWithoutBase)

LEMMA InitInv == OriginInit => OriginInv
<1> SUFFICES ASSUME OriginInit PROVE OriginInv
  OBVIOUS
<1>1. PICK n \in Everyone : fork = [Unbegun EXCEPT !.named = n]
  BY DEF OriginInit
<1>2. fork = [pc |-> "chain", named |-> n, may |-> {}, asked |-> FALSE, tries |-> 0,
              c |-> NoChain, h |-> NoHolders, from |-> Nobody]
  BY <1>1 DEF Unbegun
<1>3. NoChain \in Chains /\ NoHolders \in Holders
  BY DEF NoChain, NoHolders, Chains, Holders
<1>4. OriginType
  <2>1. fork \in Calls
    BY <1>2, <1>3 DEF Calls, Everyone
  <2>2. backend \in Backends /\ kept \in Stores /\ changes = 0 /\ steady \in SUBSET Ids
    BY DEF OriginInit, Stores
  <2>3. 0 \in 0..MaxChanges /\ Backends \subseteq {"memory", "sqlite", "jsonl"}
    BY OriginAssumption
  <2> QED BY <2>1, <2>2, <2>3 DEF OriginType
<1>5. steady \subseteq Holding(kept) /\ changes = 0
  BY DEF OriginInit, Holding
<1> QED BY <1>2, <1>4, <1>5 DEF OriginInv, StillThere, CallInv, RefusedOnlyWithoutBase

\* No step of the call, or of another's, moves these.
LEMMA GatherChainKeeps ==
  ASSUME OriginInv, GatherChain
  PROVE  OriginInv'
<1> DEFINE cc == ChainOf(kept, fork.named)
           hh == HoldersOf(kept)
<1>1. fork \in Calls /\ kept \in Stores /\ fork.pc = "chain" /\ fork.named \in Everyone
  BY DEF OriginInv, OriginType, GatherChain, Calls
<1>2. /\ cc \in Chains /\ hh \in Holders /\ (cc.ends => cc.chain /= <<>>)
      /\ ToSet(cc.chain) \subseteq Holding(kept) /\ hh.owners \cup hh.onPrefix = Holding(kept)
  BY <1>1, Gathered
<1>3. fork.tries <= changes /\ steady \subseteq Holding(kept)
  BY <1>1 DEF OriginInv, CallInv, Calling
<1> HIDE DEF cc, hh
<1>4. \/ backend = "memory" /\ fork' = [fork EXCEPT !.pc = "asking", !.c = cc, !.h = hh]
      \/ backend /= "memory" /\ fork' = [fork EXCEPT !.pc = "holders", !.c = cc]
  BY DEF GatherChain, cc, hh
<1>5. UNCHANGED <<backend, kept, changes, steady>>
  BY DEF GatherChain
<1>6. /\ fork' \in Calls /\ fork'.pc \in {"asking", "holders"} /\ fork'.c = cc
      /\ fork'.tries = fork.tries /\ (fork'.pc = "asking" => fork'.h = hh)
  BY <1>1, <1>2, <1>4 DEF Calls
<1>7. OriginType'
  BY <1>5, <1>6 DEF OriginInv, OriginType
<1>8. StillThere'
  BY <1>2, <1>5, <1>6 DEF StillThere
<1>9. CallInv'
  BY <1>2, <1>3, <1>5, <1>6 DEF CallInv, Calling
<1> QED BY <1>6, <1>7, <1>8, <1>9 DEF OriginInv, RefusedOnlyWithoutBase, LooksOften

LEMMA GatherHoldersKeeps ==
  ASSUME OriginInv, GatherHolders
  PROVE  OriginInv'
<1> DEFINE hh == HoldersOf(kept)
<1>1. fork \in Calls /\ kept \in Stores /\ fork.pc = "holders" /\ Nobody \in Everyone
  BY DEF OriginInv, OriginType, GatherHolders, Everyone
<1>2. hh \in Holders /\ hh.owners \cup hh.onPrefix = Holding(kept)
  BY <1>1, Gathered
<1> HIDE DEF hh
<1>3. fork' = [fork EXCEPT !.pc = "asking", !.h = hh] /\ UNCHANGED <<backend, kept, changes, steady>>
  BY DEF GatherHolders, hh
<1>4. /\ fork' \in Calls /\ fork'.pc = "asking" /\ fork'.c = fork.c /\ fork'.h = hh
      /\ fork'.tries = fork.tries
  BY <1>1, <1>2, <1>3 DEF Calls
<1>5. OriginType'
  BY <1>3, <1>4 DEF OriginInv, OriginType
<1>6. StillThere'
  BY <1>1, <1>2, <1>3, <1>4 DEF OriginInv, StillThere
<1>7. CallInv'
  BY <1>1, <1>2, <1>3, <1>4 DEF OriginInv, CallInv, Calling
<1> QED BY <1>4, <1>5, <1>6, <1>7 DEF OriginInv, RefusedOnlyWithoutBase, LooksOften

LEMMA AskReadableKeeps ==
  ASSUME OriginInv, AskReadable
  PROVE  OriginInv'
<1>1. fork \in Calls /\ kept \in Stores /\ fork.pc = "asking" /\ fork.c \in Chains /\ fork.h \in Holders
  BY DEF OriginInv, OriginType, AskReadable, Calls
<1>2. UNCHANGED <<backend, kept, changes, steady>>
  BY DEF AskReadable
<1>3. PICK may \in IF fork.asked THEN {fork.may} ELSE SUBSET Ids :
        LET id == Pick(fork.c, fork.h, may)
            next == [Unbegun EXCEPT !.named = fork.named, !.tries = fork.tries,
                      !.may = may, !.asked = TRUE, !.from = id]
        IN \/ id /= Nobody /\ fork' = [next EXCEPT !.pc = "taking"]
           \/ id = Nobody /\ fork' \in {[next EXCEPT !.pc = "refused"], [next EXCEPT !.pc = "placing"]}
  BY DEF AskReadable
<1>4. may \in SUBSET Ids
  BY <1>1 DEF Calls
<1> DEFINE id == Pick(fork.c, fork.h, may)
<1>5. fork.c.ends => fork.c.chain /= <<>>
  BY <1>1 DEF OriginInv, CallInv
<1>6. /\ id \in Everyone
      /\ id /= Nobody => id \in may /\ id \in ToSet(fork.c.chain) \cup fork.h.owners \cup fork.h.onPrefix
      /\ id = Nobody => (fork.h.owners \cup fork.h.onPrefix) \cap may = {}
  BY <1>1, <1>4, <1>5, Picked
<1>7. \E to \in {"taking", "refused", "placing"} :
        /\ to = "taking" <=> id /= Nobody
        /\ fork' = [pc |-> to, named |-> fork.named, may |-> may, asked |-> TRUE, tries |-> fork.tries,
                    c |-> NoChain, h |-> NoHolders, from |-> id]
  BY <1>3 DEF Unbegun
<1> HIDE DEF id
<1>8. NoChain \in Chains /\ NoHolders \in Holders
  BY DEF NoChain, NoHolders, Chains, Holders
<1>9. /\ fork' \in Calls /\ fork'.pc \in {"taking", "refused", "placing"} /\ fork'.from = id
      /\ fork'.may = may /\ fork'.tries = fork.tries /\ (fork'.pc = "taking" <=> id /= Nobody)
  BY <1>1, <1>4, <1>6, <1>7, <1>8 DEF Calls
<1>10. OriginType'
  BY <1>2, <1>9 DEF OriginInv, OriginType
<1>11. StillThere'
  <2>1. changes = fork.tries => ToSet(fork.c.chain) \cup fork.h.owners \cup fork.h.onPrefix \subseteq Holding(kept)
    BY <1>1 DEF OriginInv, StillThere
  <2> QED BY <1>2, <1>6, <1>9, <2>1 DEF StillThere
<1>12. CallInv'
  <2>1. fork.tries <= changes /\ steady \subseteq Holding(kept)
    BY <1>1 DEF OriginInv, CallInv, Calling
  <2>2. id /= Nobody => id \in Ids
    BY <1>4, <1>6
  <2> QED BY <1>2, <1>6, <1>9, <2>1, <2>2 DEF CallInv, Calling
<1>13. RefusedOnlyWithoutBase'
  <2>1. steady \subseteq fork.h.owners \cup fork.h.onPrefix
    BY <1>1 DEF OriginInv, CallInv
  <2> QED BY <1>2, <1>6, <1>9, <2>1 DEF RefusedOnlyWithoutBase
<1> QED BY <1>10, <1>11, <1>12, <1>13 DEF OriginInv

LEMMA TakeOriginKeeps ==
  ASSUME OriginInv, TakeOrigin
  PROVE  OriginInv'
<1>1. /\ fork \in Calls /\ fork.pc = "taking" /\ UNCHANGED <<backend, kept, changes, steady>>
      /\ IF backend = "memory" THEN fork' = [fork EXCEPT !.pc = "made"] ELSE fork' = [fork EXCEPT !.pc = "placing"]
  BY DEF OriginInv, OriginType, TakeOrigin, MakeFork
<1>2. /\ fork' \in Calls /\ fork'.pc \in {"made", "placing"} /\ (fork'.pc = "placing" => backend /= "memory")
      /\ fork'.from = fork.from /\ fork'.may = fork.may /\ fork'.tries = fork.tries
  BY <1>1 DEF Calls
<1>3. OriginType' /\ StillThere'
  BY <1>1, <1>2 DEF OriginInv, OriginType, StillThere
<1>4. CallInv'
  BY <1>1, <1>2 DEF OriginInv, CallInv, Calling
<1> QED BY <1>2, <1>3, <1>4 DEF OriginInv, RefusedOnlyWithoutBase, LooksOften

LEMMA LookAgainKeeps ==
  ASSUME OriginInv, LookAgain
  PROVE  OriginInv'
<1>1. /\ fork \in Calls /\ fork.pc = "taking" /\ fork.tries \in Nat /\ changes \in 0..MaxChanges
      /\ MaxChanges \in Nat /\ backend \in Backends /\ backend \in {"memory", "sqlite", "jsonl"}
  BY OriginAssumption DEF OriginInv, OriginType, LookAgain, Calls
<1>2. backend /= "jsonl" /\ fork.from \notin Holding(kept) /\ UNCHANGED <<backend, kept, changes, steady>>
  BY DEF LookAgain, StillHeld, Holding
<1>3. fork.tries + 1 <= changes
  <2>1. fork.tries <= changes /\ changes /= fork.tries
    BY <1>1, <1>2 DEF OriginInv, CallInv, Calling, StillThere
  <2> QED BY <1>1, <2>1
<1>4. LooksOften => fork.tries + 1 < MaxTries[backend]
  <2> SUFFICES ASSUME LooksOften PROVE fork.tries + 1 < MaxTries[backend]
    OBVIOUS
  <2>1. MaxChanges < MaxTries[backend] /\ MaxTries[backend] \in Nat
    BY <1>1, <1>2 DEF LooksOften, MaxTries
  <2> QED BY <1>1, <1>3, <2>1
<1>5. \E to \in {"chain", "refused"} :
        /\ LooksOften => to = "chain"
        /\ fork' = [fork EXCEPT !.tries = fork.tries + 1, !.from = Nobody, !.pc = to]
  BY <1>4 DEF LookAgain
<1>6. /\ fork' \in Calls /\ fork'.pc \in {"chain", "refused"} /\ fork'.tries = fork.tries + 1
      /\ LooksOften => fork'.pc = "chain"
  <2>1. PICK to \in {"chain", "refused"} :
        /\ LooksOften => to = "chain"
        /\ fork' = [fork EXCEPT !.tries = fork.tries + 1, !.from = Nobody, !.pc = to]
    BY <1>5
  <2>2. Nobody \in Everyone /\ fork.tries + 1 \in Nat
    BY <1>1 DEF Everyone
  <2> QED BY <1>1, <2>1, <2>2 DEF Calls
<1>7. OriginType' /\ StillThere'
  BY <1>2, <1>6 DEF OriginInv, OriginType, StillThere
<1>8. CallInv'
  BY <1>1, <1>2, <1>3, <1>6 DEF OriginInv, CallInv, Calling
<1> QED BY <1>6, <1>7, <1>8 DEF OriginInv, RefusedOnlyWithoutBase, LooksOften

LEMMA PlaceKeeps ==
  ASSUME OriginInv, PlaceFork
  PROVE  OriginInv'
<1>1. /\ fork \in Calls /\ fork.pc = "placing" /\ UNCHANGED <<backend, kept, changes, steady>>
      /\ fork' = [fork EXCEPT !.pc = "made"]
  BY DEF OriginInv, OriginType, PlaceFork, MakeFork
<1>2. fork' \in Calls /\ fork'.pc = "made"
  BY <1>1 DEF Calls
<1> QED BY <1>1, <1>2 DEF OriginInv, OriginType, StillThere, CallInv, Calling, RefusedOnlyWithoutBase, LooksOften

LEMMA ChangeKeeps ==
  ASSUME OriginInv, NEW s \in Ids, NEW shape \in Shapes, Change(s, shape)
  PROVE  OriginInv'
<1>1. /\ fork \in Calls /\ Calling /\ fork' = fork /\ backend' = backend
      /\ changes \in Nat /\ changes < MaxChanges /\ changes' = changes + 1 /\ MaxChanges \in Nat
      /\ kept \in Stores /\ kept' = [kept EXCEPT ![s] = shape] /\ fork.tries \in Nat
      /\ steady' = {t \in steady : HoldsBase(kept', t)}
  BY OriginAssumption DEF OriginInv, OriginType, Change, Calls
<1>2. kept' \in Stores /\ changes' \in 0..MaxChanges /\ steady' \subseteq steady
  BY <1>1 DEF Stores
<1>3. OriginType'
  BY <1>1, <1>2 DEF OriginInv, OriginType
<1>4. fork.tries <= changes /\ changes' /= fork'.tries /\ fork'.tries <= changes'
  BY <1>1 DEF OriginInv, CallInv
<1>5. steady' \subseteq Holding(kept')
  BY <1>1 DEF Holding, OriginInv, OriginType
<1>6. CallInv'
  BY <1>1, <1>2, <1>4, <1>5 DEF OriginInv, CallInv, Calling
<1>7. RefusedOnlyWithoutBase'
  BY <1>1 DEF Calling, RefusedOnlyWithoutBase
<1> QED BY <1>3, <1>4, <1>6, <1>7 DEF OriginInv, StillThere

LEMMA InvKept ==
  ASSUME OriginInv, [OriginNext]_originVars
  PROVE  OriginInv'
<1>1. CASE GatherChain
  BY <1>1, GatherChainKeeps
<1>2. CASE GatherHolders
  BY <1>2, GatherHoldersKeeps
<1>3. CASE AskReadable
  BY <1>3, AskReadableKeeps
<1>4. CASE TakeOrigin
  BY <1>4, TakeOriginKeeps
<1>5. CASE LookAgain
  BY <1>5, LookAgainKeeps
<1>6. CASE PlaceFork
  BY <1>6, PlaceKeeps
<1>7. ASSUME NEW s \in Ids, OriginDeleted(s) \/ OriginAdded(s) \/ OriginWritten(s) PROVE OriginInv'
  <2>1. PICK shape \in Shapes : Change(s, shape)
    BY <1>7 DEF OriginDeleted, OriginAdded, OriginWritten, Shapes
  <2> QED BY <2>1, ChangeKeeps
<1>8. CASE UNCHANGED originVars
  BY <1>8 DEF originVars, OriginInv, OriginType, StillThere, CallInv, Calling, RefusedOnlyWithoutBase, LooksOften
<1> QED BY <1>1, <1>2, <1>3, <1>4, <1>5, <1>6, <1>7, <1>8 DEF OriginNext

\* A fork's origin is the one a store without the sessions its caller may not
\* read would give it, and a create is refused only for want of one, if the
\* store does not change more often than the call looks again
\* (Candidates.Pick, lockOrigin, forkOrigin).
THEOREM OriginsAreRight == LooksOften /\ OriginSpec => []OriginsRight
<1> SUFFICES ASSUME LooksOften PROVE OriginSpec => []OriginsRight
  OBVIOUS
<1>1. OriginInit => OriginInv
  BY InitInv
<1>2. OriginInv /\ [OriginNext]_originVars => OriginInv'
  BY InvKept
<1>3. OriginInv => OriginsRight
  <2> SUFFICES ASSUME OriginInv PROVE PickIsBlind
    BY DEF OriginInv, OriginsRight
  <2>1. kept \in Stores /\ fork.named \in Everyone
    BY DEF OriginInv, OriginType, Calls
  <2>2. \A may \in SUBSET Ids : Seen(may) = SeenOf(kept, may)
    BY DEF Seen, SeenOf
  <2> QED BY <2>1, <2>2, PickBlind DEF PickIsBlind
<1> QED BY <1>1, <1>2, <1>3, PTL DEF OriginSpec

\* A fork is made of a session its caller may read, in the memory store of one
\* that holds the base then (heldOrigin, lockOrigin).
THEOREM ForksHaveHeldOrigins == OriginSpec => ForkIsOfAHeldOrigin
<1> DEFINE Good == fork'.pc = "made" /\ fork'.from /= Nobody =>
       /\ fork'.from \in fork'.may
       /\ backend = "memory" => HoldsBase(kept, fork'.from)
<1>1. OriginInit => OriginInv
  BY InitInv
<1>2. OriginInv /\ [OriginNext]_originVars => OriginInv'
  BY InvKept
<1>3. OriginInv /\ [OriginNext]_originVars => [Good]_originVars
  <2> SUFFICES ASSUME OriginInv, OriginNext, fork'.pc = "made", fork'.from /= Nobody
               PROVE  fork'.from \in fork'.may /\ (backend = "memory" => HoldsBase(kept, fork'.from))
    OBVIOUS
  <2>0. fork \in Calls
    BY DEF OriginInv, OriginType
  <2>1. CASE TakeOrigin
    BY <2>0, <2>1 DEF TakeOrigin, MakeFork, StillHeld, OriginInv, CallInv, Calls
  <2>2. CASE PlaceFork
    BY <2>0, <2>2 DEF PlaceFork, MakeFork, OriginInv, CallInv, Calls
  <2>3. ~GatherChain /\ ~GatherHolders
    BY <2>0 DEF GatherChain, GatherHolders, Calls
  <2>4. ~AskReadable /\ ~LookAgain
    BY <2>0 DEF AskReadable, LookAgain, Unbegun, Calls
  <2>5. \A s \in Ids : ~(OriginDeleted(s) \/ OriginAdded(s) \/ OriginWritten(s))
    BY <2>0 DEF OriginDeleted, OriginAdded, OriginWritten, Change, Calling
  <2> QED BY <2>1, <2>2, <2>3, <2>4, <2>5 DEF OriginNext
<1> QED BY <1>1, <1>2, <1>3, PTL DEF OriginSpec, ForkIsOfAHeldOrigin
-----------------------------------------------------------------------------
(* The repair of a content store's log.                                    *)

CopyShape(c) == c = [data |-> c.data, at |-> c.at]

\* What a repair under way has read is the log, and past its copy the last log
\* kept aside is that one, durable once the directory is.
CopyInv ==
  /\ IsSeq(aside) /\ \A i \in DOMAIN aside : CopyShape(aside[i])
  /\ rep = [at |-> rep.at, data |-> rep.data]
  /\ rep.at \in {"idle", "flush", "copy", "dirsync", "rename"}
  /\ rep.at # "idle" => rep.data = lines
  /\ rep.at \in {"dirsync", "rename"} => aside # <<>> /\ aside[Len(aside)].data = lines
  /\ rep.at = "rename" => aside[Len(aside)].at = "durable"

LEMMA CopyInit == RepairInit => CopyInv
<1>1. <<>> \in Seq({})
  OBVIOUS
<1> QED BY <1>1 DEF RepairInit, CopyInv, NoRepair, IsSeq

\* The copies the last fsync of the directory reached.
LEMMA CopiesCut ==
  ASSUME IsSeq(aside), \A i \in DOMAIN aside : CopyShape(aside[i]), NEW k \in 0..Len(aside),
         aside' = SubSeq(aside, 1, k)
  PROVE  IsSeq(aside') /\ \A i \in DOMAIN aside' : CopyShape(aside'[i])
<1>1. PICK S : aside \in Seq(S)
  BY DEF IsSeq
<1>2. aside' \in Seq(S) /\ Len(aside') = k /\ \A i \in 1..k : aside'[i] = aside[i]
  BY <1>1, FirstOnes
<1>3. \A i \in 1..k : i \in DOMAIN aside
  BY <1>1
<1>4. DOMAIN aside' = 1..k
  BY <1>2
<1> QED BY <1>2, <1>3, <1>4 DEF IsSeq

LEMMA LastDurable ==
  ASSUME IsSeq(aside)
  PROVE  Top1({i \in DOMAIN aside : aside[i].at = "durable"}) \in 0..Len(aside)
<1>1. PICK n \in Nat : n = Len(aside) /\ DOMAIN aside = 1..n
  BY DEF IsSeq
<1>2. PICK D : D = {i \in DOMAIN aside : aside[i].at = "durable"}
  OBVIOUS
<1>3. D \in SUBSET (0..n)
  BY <1>1, <1>2
<1>4. D # {} => Newest(D) \in 0..n
  BY <1>3, NewestIs
<1>5. Top1(D) \in 0..n
  BY <1>1, <1>4 DEF Top1, Newest
<1> QED BY <1>1, <1>2, <1>5

LEMMA CopyStep == CopyInv /\ [RepairNext]_repairVars => CopyInv'
<1> SUFFICES ASSUME CopyInv, [RepairNext]_repairVars PROVE CopyInv'
  OBVIOUS
<1>0. NoRepair = [at |-> NoRepair.at, data |-> NoRepair.data] /\ NoRepair.at = "idle"
  BY DEF NoRepair
<1>1. ASSUME rep.at = "idle", rep' = rep, aside' = aside PROVE CopyInv'
  BY <1>1 DEF CopyInv
<1>2. CASE RepairStart
  BY <1>2 DEF RepairStart, CopyInv
<1>3. CASE RepairFlush
  BY <1>3 DEF RepairFlush, CopyInv
<1>4. CASE RepairCopy
  <2>1. PICK c, n : c = [data |-> rep.data, at |-> "written"] /\ n = Len(aside)
    OBVIOUS
  <2>2. PICK S : aside \in Seq(S) /\ n \in Nat
    BY <2>1 DEF CopyInv, IsSeq
  <2>3. aside \in Seq(S \cup {c})
    BY <2>2, SeqWiden
  <2>4. aside' = Append(aside, c) /\ CopyShape(c)
    BY <1>4, <2>1 DEF RepairCopy, CopyShape
  <2>5. /\ aside' \in Seq(S \cup {c}) /\ Len(aside') = n + 1 /\ DOMAIN aside' = 1..n + 1
        /\ aside'[n + 1] = c /\ \A i \in 1..n : aside'[i] = aside[i]
    BY <2>1, <2>2, <2>3, <2>4
  <2>6. \A i \in DOMAIN aside' : CopyShape(aside'[i])
    <3>1. DOMAIN aside = 1..n /\ \A i \in 1..n + 1 : i \in 1..n \/ i = n + 1
      BY <2>1, <2>2
    <3> QED BY <2>4, <2>5, <3>1 DEF CopyInv
  <2>7. aside' # <<>>
    <3>1. n + 1 # 0 /\ Len(<<>>) = 0
      BY <2>2
    <3> QED BY <2>5, <3>1
  <2>8. rep.at = "copy" /\ rep' = [at |-> "dirsync", data |-> rep.data] /\ lines' = lines
    BY <1>4 DEF RepairCopy, CopyInv
  <2>9. aside'[Len(aside')].data = lines'
    BY <2>1, <2>5, <2>8 DEF CopyInv
  <2> QED BY <2>5, <2>6, <2>7, <2>8, <2>9 DEF CopyInv, IsSeq
<1>5. CASE RepairDirSync
  <2>1. rep.at = "dirsync" /\ rep' = [at |-> "rename", data |-> rep.data] /\ lines' = lines
    BY <1>5 DEF RepairDirSync, CopyInv
  <2>2. PICK n \in Nat : n = Len(aside) /\ DOMAIN aside = 1..n
    BY DEF CopyInv, IsSeq
  <2>3. aside' = [i \in 1..n |-> [aside[i] EXCEPT !.at = "durable"]]
    BY <1>5, <2>2 DEF RepairDirSync
  <2>4. \A i \in 1..n : aside'[i] = [data |-> aside[i].data, at |-> "durable"]
    <3>1. TAKE i \in 1..n
    <3>2. PICK c : c = aside[i]
      OBVIOUS
    <3>3. c = [data |-> c.data, at |-> c.at]
      BY <2>2, <3>2 DEF CopyInv, CopyShape
    <3>4. [c EXCEPT !.at = "durable"] = [data |-> c.data, at |-> "durable"]
      BY <3>3
    <3> QED BY <2>3, <3>2, <3>4
  <2>5. \A i \in 1..n : CopyShape(aside'[i])
    <3>1. TAKE i \in 1..n
    <3>2. PICK c, d : c = aside'[i] /\ d = aside[i].data
      OBVIOUS
    <3>3. c = [data |-> d, at |-> "durable"]
      BY <2>4, <3>2
    <3>4. c.data = d /\ c.at = "durable"
      BY <3>3
    <3> QED BY <3>2, <3>3, <3>4 DEF CopyShape
  <2>6. DOMAIN aside' = 1..n
    BY <2>3
  <2>7. PICK S : S = {aside'[i] : i \in 1..n}
    OBVIOUS
  <2>8. aside' \in Seq(S) /\ Len(aside') = n
    BY <2>3, <2>7, MadeSeq, aside' \in [1..n -> S]
  <2>9. n \in 1..n
    <3>1. aside # <<>>
      BY <2>1 DEF CopyInv
    <3> QED BY <2>2, <3>1 DEF CopyInv, IsSeq
  <2>10. aside'[Len(aside')].data = lines' /\ aside'[Len(aside')].at = "durable" /\ aside' # <<>>
    <3>1. aside[n].data = lines
      BY <2>1, <2>2 DEF CopyInv
    <3> QED BY <2>1, <2>4, <2>8, <2>9, <3>1
  <2> QED BY <2>1, <2>5, <2>6, <2>8, <2>10 DEF CopyInv, IsSeq
<1>6. CASE RepairRename
  <2>1. rep' = NoRepair
    BY <1>6 DEF RepairRename
  <2>2. CASE UNCHANGED aside
    BY <1>0, <2>1, <2>2 DEF CopyInv
  <2>3. CASE aside' = Front(aside)
    <3>1. aside # <<>>
      BY <1>6 DEF RepairRename, CopyInv
    <3>2. Len(aside) - 1 \in 0..Len(aside)
      BY <3>1 DEF CopyInv, IsSeq
    <3>3. aside' = SubSeq(aside, 1, Len(aside) - 1)
      BY <2>3 DEF Front
    <3> QED BY <1>0, <2>1, <3>2, <3>3, CopiesCut DEF CopyInv
  <2> QED BY <1>6, <2>2, <2>3 DEF RepairRename
<1>7. ASSUME NEW power \in BOOLEAN, RepairKilled(power) PROVE CopyInv'
  <2>1. rep' = NoRepair
    BY <1>7 DEF RepairKilled
  <2>2. CASE UNCHANGED aside
    BY <1>0, <2>1, <2>2 DEF CopyInv
  <2>3. CASE aside' = SubSeq(aside, 1, Top1({i \in DOMAIN aside : aside[i].at = "durable"}))
    <3>1. PICK k : k = Top1({i \in DOMAIN aside : aside[i].at = "durable"})
      OBVIOUS
    <3>2. k \in 0..Len(aside)
      BY <3>1, LastDurable DEF CopyInv
    <3> QED BY <1>0, <2>1, <2>3, <3>1, <3>2, CopiesCut DEF CopyInv
  <2> QED BY <1>7, <2>2, <2>3 DEF RepairKilled
<1>8. ASSUME NEW e \in Items, HeadItem(e) \/ \E lazy, moves \in BOOLEAN : AppendItem(e, lazy, moves) PROVE CopyInv'
  BY <1>1, <1>8 DEF HeadItem, AppendItem, Writes, BeforeRepair
<1>9. ASSUME NEW gone \in SUBSET Items, Loss(gone) PROVE CopyInv'
  BY <1>1, <1>9 DEF Loss, BeforeRepair
<1>10. ASSUME NEW i \in DOMAIN lines, NEW w \in {"op", "entry", "head", "rest"}, DamageLine(i, w) PROVE CopyInv'
  BY <1>1, <1>10 DEF DamageLine, BeforeRepair
<1>11. ASSUME NEW e \in Items, Rot(e) PROVE CopyInv'
  BY <1>1, <1>11 DEF Rot, BeforeRepair
<1>12. CASE UNCHANGED repairVars
  BY <1>12 DEF repairVars, CopyInv
<1> QED
  BY <1>2, <1>3, <1>4, <1>5, <1>6, <1>7, <1>8, <1>9, <1>10, <1>11, <1>12 DEF RepairNext

\* A repair puts its log in the damaged one's place, the only step that ends
\* the damage, with the damaged log kept aside and durable, whatever kills and
\* power losses came before (Repair).
THEOREM DamagedLogsAreKept == RepairInit /\ [][RepairNext]_repairVars => DamagedLogKept
<1> DEFINE Copied == \E i \in DOMAIN aside : aside[i].data = lines /\ aside[i].at = "durable"
<1>1. CopyInv /\ [RepairNext]_repairVars =>
        [DamagedLog(lines) /\ ~DamagedLog(lines') => Copied]_repairVars
  <2> SUFFICES ASSUME CopyInv, RepairNext, DamagedLog(lines), ~DamagedLog(lines') PROVE Copied
    OBVIOUS
  <2>1. CASE RepairRename
    <3>1. aside # <<>> /\ aside[Len(aside)].data = lines /\ aside[Len(aside)].at = "durable"
      BY <2>1 DEF RepairRename, CopyInv
    <3>2. Len(aside) \in DOMAIN aside
      BY <3>1 DEF CopyInv, IsSeq
    <3> QED BY <3>1, <3>2
  <2>2. ASSUME NEW i \in DOMAIN lines, NEW w \in {"op", "entry", "head", "rest"}, DamageLine(i, w) PROVE FALSE
    <3>1. PICK j \in DOMAIN lines : Damaged(lines, j)
      BY DEF DamagedLog
    <3>2. j # i
      BY <2>2, <3>1 DEF DamageLine
    <3>3. j \in DOMAIN lines' /\ lines'[j] = lines[j]
      BY <2>2, <3>2 DEF DamageLine
    <3> QED BY <3>1, <3>3 DEF DamagedLog, Damaged
  <2>3. CASE lines' = lines
    BY <2>3
  <2>4. CASE ~DamagedLog(lines)
    BY <2>4
  <2> QED
    BY <2>1, <2>2, <2>3, <2>4 DEF RepairNext, HeadItem, AppendItem, Writes, Loss, Rot,
       RepairStart, RepairFlush, RepairCopy, RepairDirSync, RepairKilled
<1>2. CopyInv /\ [RepairNext]_repairVars => CopyInv'
  BY CopyStep
<1> QED
  BY <1>1, <1>2, CopyInit, PTL DEF DamagedLogKept

=============================================================================
