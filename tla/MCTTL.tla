------------------------------- MODULE MCTTL -------------------------------
(***************************************************************************)
(* Instance of TTL for TLC: every block has one event.                     *)
(***************************************************************************)
EXTENDS TTL

CONSTANTS e1, k1

MCKeyHash == [e \in Events |-> k1]
=============================================================================
