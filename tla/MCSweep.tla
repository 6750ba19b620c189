------------------------------ MODULE MCSweep ------------------------------
(* The two sweeps: of a content store's objects, and of the sidecar blobs   *)
(* of the other stores.  A behaviour is of one of them.                     *)
EXTENDS Sweep, BlobStore, TLC

CONSTANTS b1, b2, m1, m2, n1

VARIABLE part

MCContentOf == [e \in Entries |-> IF e = "e" THEN "c" ELSE "d"]
MCBlobsOf   == [c \in {"c", "d"} |-> IF c = "c" THEN {"b"} ELSE {}]
MCParentOf  == [e \in Entries |-> IF e = "f" THEN "e" ELSE "none"]

Loose(objs, age) == [o \in {"e", "f", "c", "d", "b"} |-> IF o \in objs THEN age ELSE "none"]
Log(recs) == [inc |-> 1, base |-> "none", recs |-> recs]
Gone      == [inc |-> 0, base |-> "none", recs |-> <<>>]
Rec(e)    == [entry |-> e, blobs |-> IF e = "e" THEN {"b"} ELSE {}]

One == {"e", "c", "b"}

\* One session holding e, its objects loose or packed and old; or the
\* objects of a deleted session's e left behind.
MCStarts ==
  {[loose |-> Loose(One, "old"), packs |-> <<>>, logs |-> ("s" :> l @@ "t" :> Gone)] :
     l \in {Log(<<Rec("e")>>), Log(<<>>)}}
  \cup
  {[loose |-> Loose({}, "old"), packs |-> [p \in {One} |-> "old"], logs |-> ("s" :> l @@ "t" :> Gone)] :
     l \in {Log(<<Rec("e")>>), Log(<<>>)}}

Symmetry == Permutations(Writers)

MCInit ==
  /\ Init /\ BlobInit /\ part \in {"objects", "blobs"}
  /\ part = "objects" => kind = "jsonl" /\ blob = Never /\ \A b \in Holders : ~held[b].in
  /\ part = "blobs" => loose = Loose(One, "old") /\ Len(logs["s"].recs) = 0

MCNext ==
  /\ \/ part = "objects" /\ Next /\ UNCHANGED blobVars
     \/ part = "blobs" /\ BlobNext /\ UNCHANGED vars
  /\ UNCHANGED part

MCSpec == MCInit /\ [][MCNext]_<<vars, blobVars, part>>
=============================================================================
