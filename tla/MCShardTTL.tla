----------------------------- MODULE MCShardTTL ----------------------------
(***************************************************************************)
(* Instances of ShardTTL for TLC: the events have different keys.          *)
(***************************************************************************)
EXTENDS ShardTTL

CONSTANTS e1, e2, k1, k2

MCKeyHash == [e \in Events |-> IF e = e1 THEN k1 ELSE k2]
=============================================================================
