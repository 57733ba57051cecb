-------------------------- MODULE MCCellSelection --------------------------
(* Instances of CellSelection for TLC. *)
EXTENDS CellSelection

CONSTANTS c1, c2, c3

ThreeCells == {c1, c2, c3}
TwoCells == {c1, c2}

\* Too weak to attach to; attachable though negative, a tenth apart or not; and
\* positive, a tenth apart or not.
MixedLevels == {-20, -12, -11, 10, 11, 12}
\* Within a tenth of one another.
WeakLevels == {-11, -10}
AnyOrder == {}
FixedOrder == {<<c1, c2>>}
Minus14 == -14
Minus80 == -80
=============================================================================
