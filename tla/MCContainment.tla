---------------------------- MODULE MCContainment ----------------------------
(* Instances of Containment for TLC. *)
EXTENDS Containment, TLC

AllPositions == [r \in Receipts |-> 1 .. MaxSeq]
=============================================================================
