-------------------------- MODULE InterfaceControl --------------------------
(***************************************************************************)
(* The bus chooses between WiFi and cellular: the control loop of          *)
(* AppBusDataCollection, the two network interfaces it switches            *)
(* (NetworkInterface), the IPv4 routing table that follows them            *)
(* (Ipv4RoutingTable), the routes of HostAutoConfiguratorM, and the        *)
(* lifecycle operations all of them handle.                                *)
(*                                                                         *)
(* Routes are told apart by what the code treats differently: the default  *)
(* route, the direct route to the WiFi network, and the routes generated   *)
(* from interface netmasks.  A control step ends when it has chosen the    *)
(* route and handed the data packet to UDP: the way of the packet from     *)
(* there through IP, ARP and the MAC takes events of its own and is not    *)
(* modelled.                                                               *)
(*                                                                         *)
(* A definition that stands before a similar one and is used nowhere is a  *)
(* faulty variant of it, which the mutation runs put in its place.         *)
(***************************************************************************)
EXTENDS Naturals, FiniteSets

CONSTANT LifecycleOps   \* the operations that take the bus down, of "stop", "crash"

VARIABLES
    isBus,          \* the external id starts with "buses_cosenza."
    hasAgent,       \* the node has a module wlan[0].agent
    stage,          \* how far a lifecycle operation has taken the node
    controlTimer,   \* controlTimer is scheduled
    haveForwarded,  \* subscribed to the agent's signal
    ConnectionToAP,
    association,    \* the last value the agent emitted on stateAssociationSignal
    nic, routes

vars == <<isBus, hasAgent, stage, controlTimer, haveForwarded, ConnectionToAP,
          association, nic, routes>>

-----------------------------------------------------------------------------
(* NetworkInterface *)

Iface == {"wlan0", "cellular"}
Nic == [state : {"UP", "DOWN"}, carrier : BOOLEAN]
NicOn == [state |-> "UP", carrier |-> TRUE]
NicOff == [state |-> "DOWN", carrier |-> FALSE]

IsUp(n) == n.state = "UP" /\ n.carrier

\* setState: going DOWN takes the carrier away, going UP leaves it as it is.
SetStateAndCarrier(n, s) == [state |-> s, carrier |-> s = "UP"]
SetState(n, s) == [state |-> s, carrier |-> n.carrier /\ s = "UP"]

-----------------------------------------------------------------------------
(* Ipv4RoutingTable *)

Route == [kind : {"default", "direct", "netmask"}, via : Iface]
DefaultViaNothing(i) == [kind |-> "default", via |-> "nullptr"]
DefaultVia(i) == [kind |-> "default", via |-> i]
DirectWlan == [kind |-> "direct", via |-> "wlan0"]
NetmaskRoutes(n) == {[kind |-> "netmask", via |-> i] : i \in {j \in Iface : IsUp(n[j])}}

\* interfaceStateChangedSignal: the netmask routes are rebuilt, and every route
\* through an interface that is not up is deleted.
OnStateChangeDeletes(R, n, i) == {r \in R : r.via = i => IsUp(n[i])}
OnStateChange(R, n, i) ==
    {r \in R : r.kind # "netmask" /\ (r.via = i => IsUp(n[i]))} \cup NetmaskRoutes(n)

\* addRoute of a default route replaces the one there is.
AddDefaultAlso(R, i) == R \cup {DefaultVia(i)}
AddDefault(R, i) == {r \in R : r.kind # "default"} \cup {DefaultVia(i)}

DefaultInterfaces(R) == {i \in Iface : DefaultVia(i) \in R}

\* The routes of a node whose interfaces are up: those of HostAutoConfiguratorM
\* and the netmask routes.  In a bus created during the simulation IP2Nic then
\* replaces the default route by one through the cellular interface, once.
ConfiguredRoutes(i, n) == {DefaultVia(i), DirectWlan} \cup NetmaskRoutes(n)

Init ==
    /\ isBus \in BOOLEAN /\ hasAgent \in BOOLEAN
    /\ stage = "UP"
    /\ controlTimer = TRUE
    /\ haveForwarded = FALSE /\ ConnectionToAP = FALSE /\ association = FALSE
    /\ nic = [i \in Iface |-> NicOn]
    /\ \E i \in Iface : routes = ConfiguredRoutes(i, nic)

-----------------------------------------------------------------------------
(* AppBusDataCollection *)

\* receiveSignal, which only a subscriber gets.
AgentEmitsSticky(v) ==
    /\ hasAgent
    /\ association' = v
    /\ ConnectionToAP' = IF haveForwarded THEN ConnectionToAP \/ v ELSE ConnectionToAP
    /\ UNCHANGED <<isBus, hasAgent, stage, controlTimer, haveForwarded, nic, routes>>
AgentEmits(v) ==
    /\ hasAgent
    /\ association' = v
    /\ ConnectionToAP' = IF haveForwarded THEN v ELSE ConnectionToAP
    /\ UNCHANGED <<isBus, hasAgent, stage, controlTimer, haveForwarded, nic, routes>>

\* The cellular interface is switched, then the default route is replaced.
SwitchAfterRoute(s, i) ==
    LET n == [nic EXCEPT !.cellular = SetState(@, s)]
        changed == nic.cellular.state # s
    IN  /\ nic' = IF changed THEN n ELSE nic
        /\ routes' = IF changed THEN OnStateChange(AddDefault(routes, i), n, "cellular")
                                ELSE AddDefault(routes, i)
Switch(s, i) ==
    LET n == [nic EXCEPT !.cellular = SetState(@, s)]
        changed == nic.cellular.state # s
    IN  /\ nic' = IF changed THEN n ELSE nic
        /\ routes' = AddDefault(IF changed THEN OnStateChange(routes, n, "cellular")
                                           ELSE routes, i)

UseWlan == ConnectionToAP /\ Switch("DOWN", "wlan0")
UseCellularIfUp == ~ConnectionToAP /\ IsUp(nic.cellular) /\ Switch("UP", "cellular")
UseCellular == ~ConnectionToAP /\ Switch("UP", "cellular")

\* The control timer: controlInterface, and the timer is scheduled again.  The
\* subscription is retried at every control step until there is an agent.  The
\* application takes the timer before the framework asks whether it is up, so one
\* that outlived a crash still switches interfaces.  (Its packet then meets UDP
\* while UDP is down: dropped with a warning within the instant of the crash, a
\* runtime error later; the model lets the node go on in either case.)  No event
\* falls between two interfaces of one lifecycle stage.
Tick ==
    /\ controlTimer /\ stage # "LINK"
    /\ haveForwarded' = (haveForwarded \/ hasAgent)
    /\ \/ isBus /\ (UseWlan \/ UseCellular)
       \/ ~isBus /\ UNCHANGED <<nic, routes>>
    /\ UNCHANGED <<isBus, hasAgent, stage, controlTimer, ConnectionToAP, association>>

-----------------------------------------------------------------------------
(* Lifecycle operations.  LifecycleController runs a stage in all modules and  *)
(* waits for those that are not done at once, so other events come between     *)
(* stages; within a stage the modules follow each other in submodule order,    *)
(* which is left open.                                                         *)

Stage == {"UP", "APPLICATION_STOPPED", "NETWORK_STOPPED", "DOWN", "LINK", "LINK_STARTED",
          "NETWORK", "TRANSPORT"}

LifecycleStep(from, to) ==
    /\ stage = from
    /\ stage' = to
    /\ UNCHANGED <<isBus, hasAgent, haveForwarded, ConnectionToAP, association>>

\* stopApplication cancels the control timer.
StopApplicationKeepsTimer ==
    /\ "stop" \in LifecycleOps
    /\ LifecycleStep("UP", "APPLICATION_STOPPED")
    /\ UNCHANGED <<controlTimer, nic, routes>>
StopApplication ==
    /\ "stop" \in LifecycleOps
    /\ LifecycleStep("UP", "APPLICATION_STOPPED")
    /\ controlTimer' = FALSE
    /\ UNCHANGED <<nic, routes>>

StopNetworkLayer ==
    /\ LifecycleStep("APPLICATION_STOPPED", "NETWORK_STOPPED")
    /\ routes' = {}
    /\ UNCHANGED <<controlTimer, nic>>

\* The routing table goes on following the interfaces after it was emptied.
SetInterface(i, n) ==
    /\ nic' = [nic EXCEPT ![i] = n]
    /\ routes' = OnStateChange(routes, nic', i)
    /\ UNCHANGED controlTimer

StopInterface(i) ==
    /\ nic[i].state = "UP"
    /\ SetInterface(i, NicOff)
    /\ LifecycleStep("NETWORK_STOPPED",
           IF \A j \in Iface : nic'[j] = NicOff THEN "DOWN" ELSE "NETWORK_STOPPED")

\* A crash takes everything down within the instant, but leaves the timer.
Crash ==
    /\ "crash" \in LifecycleOps
    /\ LifecycleStep("UP", "DOWN")
    /\ nic' = [i \in Iface |-> NicOff]
    /\ routes' = {}
    /\ UNCHANGED controlTimer

\* A late control step may have left the cellular interface up without a carrier.
StartInterface(i) ==
    /\ nic[i] # NicOn
    /\ SetInterface(i, NicOn)
    /\ stage \in {"DOWN", "LINK"}
    /\ LifecycleStep(stage, IF \A j \in Iface : nic'[j] = NicOn THEN "LINK_STARTED" ELSE "LINK")

\* HostAutoConfiguratorM adds its routes; setting the addresses rebuilds the rest.
StartNetworkLayer ==
    /\ LifecycleStep("LINK_STARTED", "NETWORK")
    /\ routes' = AddDefault(routes, "wlan0") \cup {DirectWlan} \cup NetmaskRoutes(nic)
    /\ UNCHANGED <<controlTimer, nic>>

StartTransportLayer ==
    /\ LifecycleStep("NETWORK", "TRANSPORT")
    /\ routes' = {r \in routes : r.kind # "netmask"} \cup NetmaskRoutes(nic)
    /\ UNCHANGED <<controlTimer, nic>>

\* startApplication schedules the control timer unless there is one.
StartApplication ==
    /\ LifecycleStep("TRANSPORT", "UP")
    /\ controlTimer' = TRUE
    /\ UNCHANGED <<nic, routes>>

LifecycleNext ==
    \/ StopApplication
    \/ StopNetworkLayer
    \/ Crash
    \/ StartNetworkLayer
    \/ StartTransportLayer
    \/ StartApplication
    \/ \E i \in Iface : StopInterface(i) \/ StartInterface(i)

Next ==
    \/ Tick
    \/ \E v \in BOOLEAN : AgentEmits(v)
    \/ LifecycleNext

Spec == Init /\ [][Next]_vars

\* The control timer is delivered when it is due.
FairSpec == Spec /\ WF_vars(Tick)

-----------------------------------------------------------------------------
(* Properties *)

\* Every variable keeps to its type.
TypeOK ==
    /\ isBus \in BOOLEAN /\ hasAgent \in BOOLEAN /\ stage \in Stage /\ controlTimer \in BOOLEAN
    /\ haveForwarded \in BOOLEAN /\ ConnectionToAP \in BOOLEAN
    /\ association \in BOOLEAN
    /\ nic \in [Iface -> Nic]
    /\ routes \subseteq Route

\* Whatever order of switching, stopping, crashing and starting: a node that is up
\* has one default route, no route leads to an interface that is switched off, and
\* nothing is left in the table of a node that is down.  (A control timer that
\* outlived a crash works on the table of the node that is down, until the
\* interfaces have started.)
TimerOutlived == controlTimer /\ stage \in {"DOWN", "LINK"}
RoutesUsable ==
    /\ stage = "UP" => \E i \in Iface : DefaultInterfaces(routes) = {i}
    /\ ~TimerOutlived => /\ \A r \in routes : nic[r.via].state = "UP"
                         /\ stage = "DOWN" => routes = {}

\* The netmask routes are those of the interfaces that can carry traffic, however
\* often the table was rebuilt, once the stop has not just emptied it.
NetmaskRoutesFollow ==
    stage # "NETWORK_STOPPED" =>
        {r \in routes : r.kind = "netmask"} = NetmaskRoutes(nic)

\* The control loop never dies while the application is up, and a bus that was
\* stopped has no control timer left: nothing is switched during stop and start.
TimerFollowsApplication == controlTimer = (stage = "UP")

\* The framework asks of every module that its timers go with it, and throws "Self
\* message ... received when ... is down" where it sees one that did not.
NoTimerWhenDown == controlTimer => stage = "UP"

\* Only the start of the node gives an interface its carrier back: what switching
\* the interface off took away, switching it on does not restore.
CarrierOnlyByStart ==
    [][\A i \in Iface : ~nic[i].carrier /\ nic'[i].carrier => stage \in {"DOWN", "LINK"}]_vars

\* What the control loop promises (TechnologySelection), of the routing table and
\* the interfaces it works on: while the bus is up the default route follows the
\* last news, and a bus that starts again is back on its WiFi route.
Selected == IF stage # "UP" \/ DefaultInterfaces(routes) = {} THEN "none"
            ELSE CHOOSE i \in DefaultInterfaces(routes) : TRUE
TS == INSTANCE TechnologySelection
          WITH enabled <- stage = "UP", wifi <- ConnectionToAP, selected <- Selected
ImplementsSelection == TS!Spec

\* A bus whose news do not change any more ends up on the interface they name: the
\* fairness of TechnologySelection.
KeepsSelecting == isBus => TS!Fairness
=============================================================================
