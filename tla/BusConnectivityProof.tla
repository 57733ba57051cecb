------------------------ MODULE BusConnectivityProof ------------------------
(***************************************************************************)
(* Proofs about the bus as a whole: the application never misses a signal  *)
(* of the agent, so its belief about the WiFi is the MIB's, and its        *)
(* control step chooses the WiFi route exactly while the station is        *)
(* associated.  The phases of the station (Ieee80211AssociationProof)      *)
(* carry over, as the control loop leaves the association alone.           *)
(***************************************************************************)
EXTENDS BusConnectivity, Ieee80211AssociationProof

\* The application repeats the agent's signal; before it subscribes, in its first
\* control step, there is none, and there is an agent to subscribe to.
BusInv ==
    /\ IInv
    /\ ConnectionToAP = signal
    /\ ~haveForwarded => ~signal /\ toAgent = <<>>
    /\ hasAgent

\* The signal rises with a confirm of the management entity only.
LEMMA SignalRises ==
    ASSUME IInv, [Next]_vars, toAgent = <<>>, ~signal
    PROVE  ~signal'
<1>1. signal \in BOOLEAN
  BY DEF IInv, TypeInv
<1>2. AgentStep => signal' = signal
  BY DEF AgentStep, StartUp, ProcessScanConfirm, ProcessAuthenticateConfirm,
     ProcessAssociateConfirm, AssociateFailed, AssociateSucceeded, AgentReceives
<1>3. CommandStep => signal' = signal
  BY DEF CommandStep, ProcessScanCommand, ProcessAuthenticateCommand, ProcessAssociateCommand,
     MgmtReceives, agentVars
<1>4. TimerStep \/ ReceptionBusy \/ Move => signal' = signal
  BY DEF TimerStep, AssocTimeout, SendProbe, MinChannelTimeBusy, ChannelTimeOver, AuthTimeout,
     ReceptionBusy, Move, agentVars
<1>5. BeaconTimeout => ~signal'
  BY DEF BeaconTimeout, HearsBeaconLost
<1>6. \A a \in AP : HandleBeacon(a) \/ StaFrameStep(a) => signal' = signal
  BY DEF HandleBeacon, StaFrameStep, HandleProbeResponse, HandleAuthenticationFrame,
     AuthFrameIgnored, AuthFrameOutOfSeq, AuthFrameContinues, AuthFrameCompletes,
     HandleDeauthenticationFrame, HandleAssociationResponseFrame, AssocRespIgnored,
     AssocRespAccepted, StaReceives, agentVars
<1>7. \A a \in AP : ApFrameStep(a) \/ ApStop(a) \/ ApStart(a) \/ OutOfReach(a) \/ Interference(a)
                    => signal' = signal
  BY DEF ApFrameStep, ApHandleProbeRequest, ApHandleAuthenticationFrame, ApAuthOutOfSeq,
     ApAuthStep, ApHandleAssociationRequestFrame, ApAssocRefused, ApAssocGranted, ApReceives,
     ApStop, ApStart, OutOfReach, Interference, DropHead, agentVars
<1>8. UNCHANGED vars => signal' = signal
  BY DEF vars
<1> QED BY <1>2, <1>3, <1>4, <1>5, <1>6, <1>7, <1>8 DEF Next

\* A control step leaves the bus with the default route it believes in, and no other.
LEMMA ControlChooses ==
    ASSUME Control, isBus
    PROVE  /\ ConnectionToAP => IC!DefaultInterfaces(routes') = {"wlan0"}
           /\ ~ConnectionToAP => IC!DefaultInterfaces(routes') = {"cellular"}
<1>1. \/ ConnectionToAP /\ IC!Switch("DOWN", "wlan0")
      \/ ~ConnectionToAP /\ IC!Switch("UP", "cellular")
  BY DEF Control, IC!Tick, IC!UseWlan, IC!UseCellular
\* A default route that was just added is the only one.
<1>2. ASSUME NEW R, NEW i \in IC!Iface
      PROVE  IC!DefaultInterfaces(IC!AddDefault(R, i)) = {i}
  BY DEF IC!DefaultInterfaces, IC!AddDefault, IC!DefaultVia
<1> QED BY <1>1, <1>2 DEF IC!Switch, IC!Iface

LEMMA BusInitInv == BusInit => BusInv
<1> SUFFICES ASSUME BusInit PROVE BusInv
  OBVIOUS
<1>1. IInv /\ toAgent = <<>> /\ signal = FALSE
  BY InitIInv DEF BusInit, Init
<1>2. haveForwarded = FALSE /\ ConnectionToAP = FALSE /\ hasAgent
  BY DEF BusInit, IC!Init
<1> QED BY <1>1, <1>2 DEF BusInv

LEMMA BusNextInv == BusInv /\ [BusNext]_busVars => BusInv'
<1> SUFFICES ASSUME BusInv, [BusNext]_busVars PROVE BusInv'
  OBVIOUS
<1>1. CASE Control
  <2>1. /\ UNCHANGED vars /\ haveForwarded' = TRUE
        /\ ConnectionToAP' = ConnectionToAP /\ hasAgent' = hasAgent
    BY <1>1 DEF Control, IC!Tick, BusInv
  <2>2. IInv' /\ signal' = signal
    BY <2>1, NextIInv DEF BusInv, vars
  <2> QED BY <2>1, <2>2 DEF BusInv
<1>2. CASE Connect(Next) \/ UNCHANGED busVars
  <2>1. IInv'
    BY <1>2, NextIInv DEF BusInv, Connect, busVars
  <2>2. UNCHANGED <<haveForwarded, hasAgent>>
    BY <1>2 DEF Connect, busVars, appVars, IC!AgentEmits
  <2>3. ~haveForwarded => ~signal' /\ toAgent' = <<>>
    BY <1>2, SignalRises DEF BusInv, Connect, busVars, vars
  <2>4. ConnectionToAP' = signal'
    <3>1. CASE signal' = signal
      BY <1>2, <3>1 DEF Connect, busVars, appVars, BusInv
    <3>2. CASE signal' # signal
      <4>1. signal \in BOOLEAN /\ signal' \in BOOLEAN
        BY <2>1 DEF BusInv, IInv, TypeInv
      <4>2. haveForwarded
        BY <2>3, <3>2, <4>1 DEF BusInv
      <4> QED BY <1>2, <3>2, <4>2 DEF Connect, busVars, vars, IC!AgentEmits
    <3> QED BY <3>1, <3>2
  <2> QED BY <2>1, <2>2, <2>3, <2>4 DEF BusInv
<1> QED BY <1>1, <1>2 DEF BusNext

LEMMA BusInvariance == BusSpec => []BusInv
<1>1. BusInit => BusInv
  BY BusInitInv
<1>2. BusInv /\ [BusNext]_busVars => BusInv'
  BY BusNextInv
<1> QED BY <1>1, <1>2, PTL DEF BusSpec

-----------------------------------------------------------------------------
(* What follows from it *)

\* The application misses no signal: it believes what the MIB says.
THEOREM BeliefIsTrue == BusSpec => []BeliefFollowsMib
<1>1. ASSUME BusInv PROVE BeliefFollowsMib
  <2>1. signal => isAssociated
    BY <1>1 DEF BusInv, IInv, Phase, Starting, ScanAsked, Scanning, ScanReported, AuthAsked,
       Authenticating, AuthFailed, AuthSucceeded, AssocAsked, Associating, AssocFailed,
       AssocReported, Associated, Fresh, NotAssociated
  <2>2. Quiet /\ isAssociated => signal
    BY <1>1, QuietPhase DEF BusInv, Starting, Scanning, Authenticating, Associating, Associated,
       Fresh, NotAssociated
  <2>3. signal \in BOOLEAN /\ isAssociated \in BOOLEAN
    BY <1>1 DEF BusInv, IInv, TypeInv
  <2>4. ConnectionToAP = signal
    BY <1>1 DEF BusInv
  <2> QED BY <2>1, <2>2, <2>3, <2>4 DEF BeliefFollowsMib
<1> QED BY <1>1, BusInvariance, PTL

\* A control step leaves the WiFi route to a station that is associated only, even when
\* it falls between two messages of an association step.
THEOREM WifiIsLeft == BusSpec => WifiOnlyWhenAssociated
<1>1. ASSUME BusInv, Control, isBus, IC!DefaultVia("wlan0") \in routes' PROVE isAssociated
  <2>1. "wlan0" \in IC!DefaultInterfaces(routes')
    BY <1>1 DEF IC!DefaultInterfaces, IC!Iface
  <2>2. ConnectionToAP
    BY <1>1, <2>1, ControlChooses
  <2> QED BY <1>1, <2>2 DEF BusInv, IInv, Phase, Starting, ScanAsked, Scanning, ScanReported,
       AuthAsked, Authenticating, AuthFailed, AuthSucceeded, AssocAsked, Associating, AssocFailed,
       AssocReported, Associated, Fresh, NotAssociated
<1>2. BusInv => [Control /\ isBus /\ IC!DefaultVia("wlan0") \in routes' => isAssociated]_busVars
  BY <1>1
<1> QED BY <1>2, BusInvariance, PTL DEF BusSpec, WifiOnlyWhenAssociated

\* A control step puts an associated bus on WiFi.
THEOREM WifiIsUsed == BusSpec => WifiUsedWhenAssociated
<1>1. ASSUME BusInv, Control, isBus, Quiet, isAssociated
      PROVE  IC!DefaultInterfaces(routes') = {"wlan0"}
  <2>1. signal
    BY <1>1, QuietPhase DEF BusInv, Starting, Scanning, Authenticating, Associating, Associated,
       Fresh, NotAssociated
  <2> QED BY <1>1, <2>1, ControlChooses DEF BusInv
<1>2. BusInv => [Control /\ isBus /\ Quiet /\ isAssociated
                    => IC!DefaultInterfaces(routes') = {"wlan0"}]_busVars
  BY <1>1
<1> QED BY <1>2, BusInvariance, PTL DEF BusSpec, WifiUsedWhenAssociated
=============================================================================
