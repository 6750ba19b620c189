----------------------------- MODULE SessionTree -----------------------------
(***************************************************************************)
(* The session in memory: its entries in file order, the tree they form    *)
(* and the leaf, as values.  A session is a record                         *)
(*                                                                         *)
(*     ents   its entries in file order; an entry's id is its position,    *)
(*            which stands for the hash: ids never repeat and a parent     *)
(*            precedes its children,                                       *)
(*     base   how many entries are the prefix a fork opened with (0: none),*)
(*     leaf   where the next append hangs, Root for the universal root,    *)
(*     read   the state of the reader's leaf rule, kept up entry by entry. *)
(*                                                                         *)
(* An entry has a type, a parent, and a target.  "leaf" is a label entry   *)
(* carrying the leaf label, "clear" one carrying a null label.             *)
(***************************************************************************)
EXTENDS Integers, Sequences, FiniteSets

Root   == 0    \* the empty context every first entry hangs from
NoMark == -1   \* no leaf label is in force
Nowhere == -2  \* the id of no entry of the session

IsLabel(e) == e.type = "leaf"

Newest(S) == CHOOSE i \in S : \A j \in S : j <= i

(***************************************************************************)
(* Paths.  Ancestry[i] is every entry from the first one down to i.  Ids   *)
(* grow along a path, so the set is the path.                              *)
(***************************************************************************)
Ancestry(ents) ==
  LET anc[i \in 0..Len(ents)] ==
        IF i = Root THEN {} ELSE anc[ents[i].parent] \cup {i}
  IN  anc

PathTo(s, id) == Ancestry(s.ents)[id]

\* The entries strictly below id, anywhere in the session.
Below(ents, id) ==
  LET anc == Ancestry(ents)
  IN  {i \in 1..Len(ents) : id = Root \/ id \in anc[i] \ {i}}

Held(s, id) == id \in 1..Len(s.ents)

(***************************************************************************)
(* Where an entry may hang and where the leaf may rest.                    *)
(***************************************************************************)
CheckOwnParent(s, parent) == parent /= Root /\ parent >= s.base

CheckParentRule(s, parent) ==
  /\ parent = Root \/ Held(s, parent)
  /\ s.base > 0 => CheckOwnParent(s, parent)

MayRestOn(s, id) ==
  IF id = Root THEN s.base = 0
               ELSE Held(s, id) /\ id >= s.base /\ ~IsLabel(s.ents[id])

\* Up from id off the leaf labels; the base stands in for what is above it.
NotOnLabel(s, id) ==
  LET up[i \in 0..Len(s.ents)] ==
        IF i /= Root /\ IsLabel(s.ents[i]) THEN up[s.ents[i].parent] ELSE i
  IN  IF up[id] < s.base THEN s.base ELSE up[id]

(***************************************************************************)
(* The reader's rule: the newest entry under the leaf label in force that  *)
(* came after it, the label's target when none did, the last line when no  *)
(* label is in force.                                                      *)
(***************************************************************************)
LeafMarks(s) ==
  LET after[i \in 0..Len(s.ents)] ==
        IF i = 0 THEN [marked |-> NoMark, at |-> 0]
        ELSE LET e == s.ents[i] IN
             CASE IsLabel(e) /\ MayRestOn(s, e.target) -> [marked |-> e.target, at |-> i]
               [] e.type = "clear" /\ e.target = after[i-1].marked -> [marked |-> NoMark, at |-> 0]
               [] OTHER -> after[i-1]
  IN  after

DurableLeafAt(s) == LeafMarks(s)[Len(s.ents)]

\* What a leaf label on target, sitting on line at, puts in force.
Mark(s, target, at) ==
  IF target = NoMark
  THEN [n |-> Len(s.ents), marked |-> NoMark, at |-> 0, under |-> {}, tip |-> NoMark]
  ELSE LET below == Below(s.ents, target)
           later == {i \in below : i > at}
       IN  [n |-> Len(s.ents), marked |-> target, at |-> at, under |-> below \cup {target},
            tip |-> IF later = {} THEN target ELSE Newest(later)]

NoRead == [n |-> -1, marked |-> NoMark, at |-> 0, under |-> {}, tip |-> NoMark]

ReadLeafState(s) == LET m == DurableLeafAt(s) IN Mark(s, m.marked, m.at)

\* Where a session's entries and a reader's state of them say the leaf is.
Resolved(s, read) ==
  IF s.ents = <<>> THEN Root
  ELSE NotOnLabel(s, IF read.marked = NoMark THEN Len(s.ents) ELSE read.tip)

ResolveLeaf(s) == Resolved(s, ReadLeafState(s))

\* read, a state of the first i - 1 entries, brought to entry i, which is under
\* the label in force or is not.
UpTo(read, i)  == [read EXCEPT !.n = i]
UnderLabel(read, i) ==
  [n |-> i, marked |-> read.marked, at |-> read.at, under |-> read.under \cup {i}, tip |-> i]

ExtendRead(s, read, i) ==
  LET e == s.ents[i]
  IN  CASE IsLabel(e) /\ MayRestOn(s, e.target) -> UpTo(Mark(s, e.target, i), i)
        [] e.type = "clear" /\ e.target = read.marked -> UpTo(Mark(s, NoMark, 0), i)
        [] OTHER ->
             IF read.marked /= NoMark /\ e.parent \in read.under
             THEN UnderLabel(read, i)
             ELSE UpTo(read, i)

ReadUpTo(s) ==
  LET upTo[i \in s.read.n..Len(s.ents)] ==
        IF i = s.read.n THEN s.read ELSE ExtendRead(s, upTo[i-1], i)
  IN  upTo

ReadCaughtUp(s) == IF s.read = NoRead THEN ReadLeafState(s) ELSE ReadUpTo(s)[Len(s.ents)]

(***************************************************************************)
(* Appends.                                                                *)
(***************************************************************************)
NewSession == [ents |-> <<>>, base |-> 0, leaf |-> Root, read |-> NoRead]

OutcomeFor(s, e) ==
  IF IsLabel(e) THEN IF MayRestOn(s, e.target) THEN "leaf moved" ELSE "leaf not moved"
  ELSE IF e.parent = s.leaf THEN "continued" ELSE "branched"

MoveLeafFor(s, e, id) ==
  CASE OutcomeFor(s, e) = "leaf moved" -> e.target
    [] OutcomeFor(s, e) = "continued"  -> id
    [] OTHER                           -> s.leaf

Add(s, e) == [s EXCEPT !.ents = Append(@, e)]

Commit(s, e) ==
  [Add(s, e) EXCEPT !.leaf = MoveLeafFor(Add(s, e), e, Len(s.ents) + 1)]

\* A follower's append: the leaf goes where the reader's rule puts it.
ReadOf(s) == IF s.read.n = Len(s.ents) THEN s.read ELSE ReadLeafState(s)

ReadAs(s, read) == [s EXCEPT !.read = read, !.leaf = Resolved(s, read)]

Extend(s, e) == ReadAs(Add(s, e), ExtendRead(Add(s, e), ReadOf(s), Len(s.ents) + 1))

LeafMark(s) == [type |-> "leaf", parent |-> s.leaf, target |-> s.leaf]

\* The label a store of lines appends after an append, so that a reader of
\* the lines finds the session's head; the set is empty when none is needed.
LeafMarkNeeded(s) ==
  IF s.ents = <<>> \/ ~MayRestOn(s, s.leaf) \/ Resolved(s, ReadCaughtUp(s)) = s.leaf
  THEN {} ELSE {LeafMark(s)}

\* Mutant: no label goes ahead of a branch.
LeafMarkBeforeNone(s, e) == {}

\* A label in force keeps the head where it is, whatever hangs at parent.
KeptByLabel(s, read, parent) ==
  read.marked /= NoMark /\ parent \notin read.under /\ NotOnLabel(s, read.tip) = s.leaf

\* The same decided ahead of e: a label that goes before e when e, on its
\* own, would read back as the head.
LeafMarkBefore(s, e) ==
  IF \/ e.parent = s.leaf \/ s.leaf = Root
     \/ IsLabel(e)
     \/ s.leaf \in PathTo(s, e.parent)
     \/ s.ents /= <<>> /\ KeptByLabel(s, ReadCaughtUp(s), e.parent)
  THEN {} ELSE {LeafMark(s)}

\* The label whose append moves the head from expected to to; refused when
\* the head is elsewhere or may not rest on to.
HeadLabel(s, expected, to) ==
  IF s.leaf = expected /\ MayRestOn(s, to)
  THEN {[type |-> "leaf", parent |-> IF to = Root THEN s.leaf ELSE to, target |-> to]}
  ELSE {}

\* A session read from lines: what every reader of a file makes of it.
ReadSession(ents, base) ==
  LET s == [ents |-> ents, base |-> base, leaf |-> Root, read |-> NoRead]
  IN  [s EXCEPT !.leaf = ResolveLeaf(s)]

\* A file whose lines a reader takes: each hangs where it may.
Readable(ents, base) ==
  \A i \in 1..Len(ents) :
    /\ ents[i].parent \in 0..i-1
    /\ IF i <= base THEN ents[i].parent = i - 1
       ELSE base > 0 => ents[i].parent >= base

\* The session a fork at id opens with: the path to id, renumbered.
Fork(s, id) ==
  LET path == PathTo(s, id)
      place(i) == Cardinality({j \in path : j <= i})
      renamed(e) == [e EXCEPT !.parent = IF @ = Root THEN Root ELSE place(@),
                              !.target = IF @ \in path \cup {Root, Nowhere} THEN (IF @ > 0 THEN place(@) ELSE @) ELSE Nowhere]
      at(k) == CHOOSE i \in path : place(i) = k
      ents == [k \in 1..Cardinality(path) |-> renamed(s.ents[at(k)])]
  IN  [NewSession EXCEPT !.ents = ents, !.base = Len(ents), !.leaf = Len(ents)]
==============================================================================
