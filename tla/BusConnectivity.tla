-------------------------- MODULE BusConnectivity --------------------------
(***************************************************************************)
(* The bus as a whole: the WiFi association (Ieee80211Association) and the *)
(* application that switches interfaces (InterfaceControl) meet in the     *)
(* agent's signal, which the application hears within the call that emits  *)
(* it.  The bus stays up: no lifecycle operation is under way.             *)
(***************************************************************************)
EXTENDS Ieee80211Association

VARIABLES isBus, hasAgent, stage, controlTimer, haveForwarded, ConnectionToAP, nic, routes

appVars == <<isBus, hasAgent, stage, controlTimer, haveForwarded, ConnectionToAP, nic, routes>>
busVars == <<vars, appVars>>

IC == INSTANCE InterfaceControl WITH LifecycleOps <- {}, association <- signal

BusInit == Init /\ IC!Init /\ hasAgent

\* An association step, with the signal it may emit.  The first control step
\* comes 0.1 s after the start, before the earliest end of a scan (probeDelay and
\* minChannelTime, 0.25 s), so it precedes every confirm.
Connect(A) ==
    /\ A
    /\ ~haveForwarded => toAgent' = <<>>
    /\ IF signal' # signal THEN IC!AgentEmits(signal') ELSE UNCHANGED appVars

\* The control timer may fall on the very instant of an association step, between
\* two messages of it.
Control == IC!Tick /\ UNCHANGED vars

BusNext == Connect(Next) \/ Control

BusSpec == BusInit /\ [][BusNext]_busVars

BusFairness ==
    /\ WF_busVars(Control)
    /\ WF_busVars(Connect(AgentStep)) /\ WF_busVars(Connect(CommandStep))
    /\ WF_busVars(Connect(TimerStep))
    /\ WF_busVars(Connect(~Reachable(assocAP) /\ BeaconTimeout))
    /\ \A a \in AP : /\ SF_busVars(Connect(HandleBeacon(a)))
                     /\ WF_busVars(Connect(StaFrameStep(a)))
                     /\ WF_busVars(Connect(ApFrameStep(a)))
                     /\ WF_busVars(Connect(OutOfReach(a)))

BusFairSpec == BusSpec /\ BusFairness

-----------------------------------------------------------------------------
(* Properties *)

\* The application believes what the MIB says, once the messages of an instant are
\* processed, and never thinks WiFi there when it is not: it missed no signal.
BeliefFollowsMib ==
    /\ ConnectionToAP => isAssociated
    /\ Quiet => ConnectionToAP = isAssociated

\* A control step leaves a bus on its WiFi route only while the MIB says that the
\* station is associated, though the news come by another module, between two
\* messages of an association step too.  (What handleUpperPacket still discards was
\* on its way from the application to the MAC when the association was lost.)
WifiOnlyWhenAssociated ==
    [][Control /\ isBus /\ IC!DefaultVia("wlan0") \in routes' => isAssociated]_busVars

\* A control step puts the bus on its WiFi route, and no other, whenever the station
\* is associated and has said so: also when it comes back to the same access point.
WifiUsedWhenAssociated ==
    [][Control /\ isBus /\ Quiet /\ isAssociated
        => IC!DefaultInterfaces(routes') = {"wlan0"}]_busVars

\* A bus that stays in reach of an access point of its SSID ends up with its
\* default route on WiFi; out of reach of them all, on the cellular interface.
RouteFollowsCoverage ==
    \A R \in Moves : isBus /\ Stays(R)
        => <>[](IC!DefaultVia(IF R \cap DefaultSsidAP # {} THEN "wlan0" ELSE "cellular") \in routes)
=============================================================================
