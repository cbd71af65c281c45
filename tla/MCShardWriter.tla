--------------------------- MODULE MCShardWriter ---------------------------
(***************************************************************************)
(* Instances of ShardWriter for TLC: the first two events share a key.     *)
(***************************************************************************)
EXTENDS ShardWriter

CONSTANTS e1, e2, e3, k1, k2

MCKeyHash == [e \in Events |-> IF e = e3 THEN k2 ELSE k1]
=============================================================================
