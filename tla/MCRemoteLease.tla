--------------------------- MODULE MCRemoteLease ----------------------------
(* RemoteLease for model checking: clients and entries are interchangeable. *)
EXTENDS RemoteLeaseInv, TLC

MCSymmetry == Permutations(Clients) \cup Permutations(Entries)

=============================================================================
