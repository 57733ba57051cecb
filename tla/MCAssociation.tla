--------------------------- MODULE MCAssociation ---------------------------
(* Small instances of Ieee80211Association, with its last request, for TLC. *)
EXTENDS AssociationRequests

CONSTANTS a1, a2

NoAPs == {}
OneAP == {a1}
OtherAP == {a2}
BothAPs == {a1, a2}

\* Along a road with two access points: each one alone, their overlap, and none.
RoadMoves == SUBSET {a1, a2}
\* In reach of the only access point, or not.
OneApMoves == {{a1}, {}}

OneChannel == <<3>>
AllOnThree == [a \in AP |-> 3]
=============================================================================
