------------------------------ MODULE MCFollow ------------------------------
(* Following, of each of the four stores, by one client.                   *)
EXTENDS Follow
=============================================================================
