---------------------------- MODULE MCMetaStore ----------------------------
(***************************************************************************)
(* MetaStore for TLC, with bytes of two values.  Shards 1 and 2 are the    *)
(* bytes <<0, 1>> and <<1, 0>>, so that a carry lies between neighbours, as*)
(* one does between the numbers 1 and 2 of the WAL and between the expiry  *)
(* hours 1 and 2.  Keys 1 and 3 belong to shard 1, key 2 to shard 2.       *)
(***************************************************************************)
EXTENDS MetaStore

MCKeyHash == [e \in Events |-> e]
=============================================================================
