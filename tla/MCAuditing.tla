----------------------------- MODULE MCAuditing -----------------------------
(* Instances of Auditing for TLC: r1 and r2 come first and are stubborn, r3 *)
(* comes above them or beside r1, r4 last.                                  *)
EXTENDS Auditing, TLC

CONSTANTS r1, r2, r3, r4

FewPositions == r1 :> {1} @@ r2 :> {2} @@ r3 :> {1, 3} @@ r4 :> {4}
=============================================================================
