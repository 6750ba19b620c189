------------------------------ MODULE MCCasLog ------------------------------
(* Small instances of CasLog.  e1 hangs from the root and e2 from e1; e3 is *)
(* a second root; lab is a leaf label under e2 that targets e1.  e1 and e3  *)
(* share a content object.                                                  *)
EXTENDS CasLogInv, TLC

CONSTANTS e1, e2, e3, lab, o1, o2, o3, ol

MCNames == [e \in Entries |->
    CASE e = e1 -> {o1} [] e = e2 -> {o2} [] e = e3 -> {o1, o3} [] OTHER -> {ol}]

MCParent == [e \in Entries |->
    CASE e = e2 -> e1 [] e = lab -> e2 [] OTHER -> Root]

MCLeafTarget == [l \in Entries \cap {lab} |-> e1]

\* Sessions are interchangeable.
MCSymmetry == Permutations(Sessions)

=============================================================================
