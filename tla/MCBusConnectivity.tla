------------------------- MODULE MCBusConnectivity -------------------------
(* An instance of BusConnectivity for TLC. *)
EXTENDS BusConnectivity

CONSTANTS a1, a2, a3

NoAPs == {}
AllAPs == {a1, a2, a3}
CompanyAPs == {a1, a2}

\* Along a road: only the foreign a3, then a1 beside it, then a1 and a2.
RoadPastForeign == {{a3}, {a1, a3}, {a1, a2}}

TwoChannels == <<1, 3>>
OnePerChannel == [a \in AP |-> IF a = a2 THEN 3 ELSE 1]
=============================================================================
