----------------------------- MODULE MCTTLQuery ----------------------------
(***************************************************************************)
(* Instance of TTLQuery for TLC: every block has one event.                *)
(***************************************************************************)
EXTENDS TTLQuery

CONSTANTS e1, k1

MCKeyHash == [e \in Events |-> k1]
=============================================================================
