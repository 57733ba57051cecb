----------------------------- MODULE MCHandover -----------------------------
(* Instances of Handover for TLC. *)
EXTENDS Handover

CONSTANTS c1, c2, c3

TwoCells == {c1, c2}
ThreeCells == {c1, c2, c3}
=============================================================================
