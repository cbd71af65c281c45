--------------------------- MODULE MCWriterQuery ---------------------------
(***************************************************************************)
(* Instances of WriterQuery for TLC: the events have different keys.       *)
(***************************************************************************)
EXTENDS WriterQuery

CONSTANTS e1, e2, k1, k2

MCKeyHash == [e \in Events |-> IF e = e1 THEN k1 ELSE k2]
=============================================================================
