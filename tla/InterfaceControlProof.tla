----------------------- MODULE InterfaceControlProof -----------------------
(***************************************************************************)
(* Proofs about InterfaceControl, for every set of lifecycle operations:   *)
(* the routing table is usable in whatever order the interfaces are        *)
(* switched, stopped and started, and without crashes the control loop     *)
(* implements TechnologySelection.                                         *)
(***************************************************************************)
EXTENDS InterfaceControl, TLAPS

-----------------------------------------------------------------------------
(* The inductive invariant *)

\* An interface that is down carries nothing; WiFi is only switched by the
\* lifecycle, the cellular interface by the control loop as well.
Working == {"UP", "APPLICATION_STOPPED", "NETWORK", "TRANSPORT"}
InterfacesByStage ==
    /\ \A i \in Iface : nic[i].carrier => nic[i].state = "UP"
    /\ stage \in Working \cup {"LINK_STARTED"} => nic["wlan0"].state = "UP"
    /\ stage = "DOWN" /\ ~controlTimer => \A i \in Iface : nic[i].state = "DOWN"

\* A stop takes the control timer with it, a crash does not.
StopTakesTimer == stage \in {"APPLICATION_STOPPED", "NETWORK_STOPPED"} => ~controlTimer

\* There is one default route from the run of HostAutoConfiguratorM until the routing
\* table is emptied.
RoutesByStage == stage \in Working => \E i \in Iface : DefaultInterfaces(routes) = {i}

LeadSomewhere(R, n) == \A r \in R : n[r.via].state = "UP"
RoutesLeadSomewhere == ~TimerOutlived => LeadSomewhere(routes, nic)

IInv ==
    /\ TypeOK
    /\ InterfacesByStage
    /\ StopTakesTimer
    /\ RoutesByStage
    /\ RoutesLeadSomewhere
    /\ NetmaskRoutesFollow

-----------------------------------------------------------------------------
(* Lemmas about the operators on routing tables *)

\* After addRoute of a default route there is that one, and the netmask routes are
\* untouched.
LEMMA AddDefaultLemma ==
    ASSUME NEW R \in SUBSET Route, NEW i \in Iface
    PROVE  /\ AddDefault(R, i) \in SUBSET Route
           /\ DefaultInterfaces(AddDefault(R, i)) = {i}
           /\ {r \in AddDefault(R, i) : r.kind = "netmask"} = {r \in R : r.kind = "netmask"}
           /\ \A r \in AddDefault(R, i) : r \in R \/ r.via = i
<1>1. AddDefault(R, i) \in SUBSET Route
  BY DEF AddDefault, DefaultVia, Route
<1>2. DefaultInterfaces(AddDefault(R, i)) = {i}
  BY DEF AddDefault, DefaultVia, DefaultInterfaces, Route
<1>3. {r \in AddDefault(R, i) : r.kind = "netmask"} = {r \in R : r.kind = "netmask"}
  BY DEF AddDefault, DefaultVia
<1>4. \A r \in AddDefault(R, i) : r \in R \/ r.via = i
  BY DEF AddDefault, DefaultVia
<1> QED BY <1>1, <1>2, <1>3, <1>4

\* When the routing table has followed a state change of interface i, its netmask
\* routes are those of the interfaces that are up, its other routes are old ones,
\* and none leads to i unless i is up.
LEMMA OnStateChangeLemma ==
    ASSUME NEW R \in SUBSET Route, NEW n \in [Iface -> Nic], NEW i \in Iface
    PROVE  /\ OnStateChange(R, n, i) \in SUBSET Route
           /\ {r \in OnStateChange(R, n, i) : r.kind = "netmask"} = NetmaskRoutes(n)
           /\ \A r \in OnStateChange(R, n, i) :
                 /\ r.kind = "netmask" => IsUp(n[r.via])
                 /\ r.kind # "netmask" => r \in R /\ (r.via = i => IsUp(n[i]))
<1>1. NetmaskRoutes(n) \in SUBSET Route
  BY DEF NetmaskRoutes, Route
<1>2. \A r \in NetmaskRoutes(n) : r.kind = "netmask" /\ IsUp(n[r.via])
  BY DEF NetmaskRoutes
<1> QED BY <1>1, <1>2 DEF OnStateChange

-----------------------------------------------------------------------------
(* The invariant holds *)

LEMMA InitIInv == Init => IInv
<1> SUFFICES ASSUME Init PROVE IInv
  OBVIOUS
<1>1. nic \in [Iface -> Nic] /\ \A i \in Iface : nic[i] = NicOn
  BY DEF Init, Iface, Nic, NicOn
<1>2. NetmaskRoutes(nic) \in SUBSET Route
      /\ \A r \in NetmaskRoutes(nic) : r.kind = "netmask"
  BY DEF NetmaskRoutes, Route
<1> PICK i \in Iface : routes = ConfiguredRoutes(i, nic)
  BY DEF Init
<1>3. routes \subseteq Route
  BY <1>2 DEF ConfiguredRoutes, Route, Iface, DefaultVia, DirectWlan
<1>4. TypeOK
  BY <1>1, <1>3 DEF Init, TypeOK, Stage
<1>5. InterfacesByStage /\ StopTakesTimer /\ RoutesLeadSomewhere
  BY <1>1, <1>3 DEF Init, InterfacesByStage, StopTakesTimer, RoutesLeadSomewhere,
                    LeadSomewhere, NicOn, Iface, Route
<1>6. DefaultInterfaces(routes) = {i}
  BY <1>2 DEF DefaultInterfaces, ConfiguredRoutes, DefaultVia, DirectWlan, Iface
<1>7. RoutesByStage
  BY <1>6 DEF Init, RoutesByStage, Iface, Working
<1>8. NetmaskRoutesFollow
  BY <1>2 DEF NetmaskRoutesFollow, ConfiguredRoutes, DefaultVia, DirectWlan
<1> QED BY <1>4, <1>5, <1>7, <1>8 DEF IInv

\* A switch leaves the node with the default route it asked for; on a node whose
\* routes lead somewhere and whose WiFi interface is up, they still do.
LEMMA SwitchLemma ==
    ASSUME IInv, NEW s \in {"UP", "DOWN"}, NEW i \in Iface, Switch(s, i),
           i = "cellular" => s = "UP"
    PROVE  /\ nic' \in [Iface -> Nic] /\ nic'["wlan0"] = nic["wlan0"]
           /\ \A j \in Iface : nic'[j].carrier => nic'[j].state = "UP" /\ nic[j].carrier
           /\ routes' \subseteq Route
           /\ DefaultInterfaces(routes') = {i}
           /\ nic["wlan0"].state = "UP" /\ LeadSomewhere(routes, nic)
                 => LeadSomewhere(routes', nic')
           /\ {r \in routes : r.kind = "netmask"} = NetmaskRoutes(nic)
                 => {r \in routes' : r.kind = "netmask"} = NetmaskRoutes(nic')
<1> DEFINE n == [nic EXCEPT !["cellular"] = SetState(@, s)]
           changed == nic["cellular"].state # s
           R == IF changed THEN OnStateChange(routes, n, "cellular") ELSE routes
<1>1. /\ nic \in [Iface -> Nic] /\ routes \in SUBSET Route
      /\ \A j \in Iface : nic[j].carrier => nic[j].state = "UP"
  BY DEF IInv, TypeOK, InterfacesByStage
<1>2. nic' = (IF changed THEN n ELSE nic) /\ routes' = AddDefault(R, i)
  BY DEF Switch
<1>3. SetState(nic["cellular"], s) \in Nic
  BY <1>1 DEF SetState, Nic, Iface
<1>4. n \in [Iface -> Nic] /\ n["wlan0"] = nic["wlan0"] /\ n["cellular"] = SetState(nic["cellular"], s)
  BY <1>1, <1>3 DEF Iface
<1>5. /\ R \in SUBSET Route
      /\ changed => /\ {r \in R : r.kind = "netmask"} = NetmaskRoutes(n)
                    /\ \A r \in R :
                         /\ r.kind = "netmask" => IsUp(n[r.via])
                         /\ r.kind # "netmask"
                              => r \in routes /\ (r.via = "cellular" => IsUp(n["cellular"]))
  <2>1. "cellular" \in Iface
    BY DEF Iface
  <2> HIDE DEF n
  <2>2. /\ OnStateChange(routes, n, "cellular") \in SUBSET Route
        /\ {r \in OnStateChange(routes, n, "cellular") : r.kind = "netmask"} = NetmaskRoutes(n)
        /\ \A r \in OnStateChange(routes, n, "cellular") :
              /\ r.kind = "netmask" => IsUp(n[r.via])
              /\ r.kind # "netmask"
                   => r \in routes /\ (r.via = "cellular" => IsUp(n["cellular"]))
    BY <2>1, <1>1, <1>4, OnStateChangeLemma
  <2> QED BY <2>2, <1>1
<1>6. nic' \in [Iface -> Nic] /\ nic'["wlan0"] = nic["wlan0"]
  BY <1>1, <1>2, <1>4
<1>7. nic'["cellular"].state = s
  BY <1>1, <1>2, <1>4 DEF SetState
<1>8. \A j \in Iface : nic'[j].carrier => nic'[j].state = "UP" /\ nic[j].carrier
  BY <1>1, <1>2, <1>4 DEF SetState, Iface
<1>9. changed \/ (R = routes /\ nic' = nic)
  BY <1>2
<1>10. changed => nic' = n
  BY <1>2
<1> HIDE DEF n, changed, R
<1>11. /\ routes' \subseteq Route /\ DefaultInterfaces(routes') = {i}
       /\ {r \in routes' : r.kind = "netmask"} = {r \in R : r.kind = "netmask"}
       /\ \A r \in routes' : r \in R \/ r.via = i
  <2>1. R \in SUBSET Route
    BY <1>5
  <2>2. /\ AddDefault(R, i) \in SUBSET Route
        /\ DefaultInterfaces(AddDefault(R, i)) = {i}
        /\ {r \in AddDefault(R, i) : r.kind = "netmask"} = {r \in R : r.kind = "netmask"}
        /\ \A r \in AddDefault(R, i) : r \in R \/ r.via = i
    BY <2>1, AddDefaultLemma
  <2> QED BY <2>2, <1>2
<1>12. ASSUME nic["wlan0"].state = "UP", LeadSomewhere(routes, nic)
       PROVE  \A r \in R : nic'[r.via].state = "UP"
  <2>1. CASE ~changed
    BY <2>1, <1>9, <1>12 DEF LeadSomewhere
  <2>2. CASE changed
    <3> SUFFICES ASSUME NEW r \in R PROVE nic'[r.via].state = "UP"
      OBVIOUS
    <3>1. r \in Route
      BY <1>5
    <3>2. r.via = "cellular" \/ r.via = "wlan0"
      BY <3>1 DEF Route, Iface
    <3>3. CASE r.kind = "netmask"
      BY <2>2, <3>3, <1>5, <1>10 DEF IsUp
    <3>4. CASE r.kind # "netmask" /\ r.via = "cellular"
      BY <2>2, <3>4, <1>5, <1>10 DEF IsUp
    <3>5. CASE r.via = "wlan0"
      BY <3>5, <1>6, <1>12
    <3> QED BY <3>2, <3>3, <3>4, <3>5
  <2> QED BY <2>1, <2>2
<1>13. ASSUME nic["wlan0"].state = "UP", LeadSomewhere(routes, nic)
       PROVE  LeadSomewhere(routes', nic')
  <2>1. \A r \in R : nic'[r.via].state = "UP"
    BY <1>12, <1>13
  <2> QED BY <2>1, <1>6, <1>7, <1>11, <1>13 DEF Iface, LeadSomewhere
<1>14. {r \in routes : r.kind = "netmask"} = NetmaskRoutes(nic)
          => {r \in routes' : r.kind = "netmask"} = NetmaskRoutes(nic')
  BY <1>5, <1>9, <1>10, <1>11
<1> QED BY <1>6, <1>8, <1>11, <1>13, <1>14

\* When an interface is stopped or started, routes that led somewhere still do, and
\* the table gains netmask routes only.
LEMMA SetInterfaceLemma ==
    ASSUME IInv, NEW i \in Iface, NEW m \in {NicOn, NicOff}, SetInterface(i, m)
    PROVE  /\ nic' \in [Iface -> Nic] /\ nic'[i] = m
           /\ \A j \in Iface : j # i => nic'[j] = nic[j]
           /\ routes' \subseteq Route
           /\ {r \in routes' : r.kind = "netmask"} = NetmaskRoutes(nic')
           /\ LeadSomewhere(routes, nic) => LeadSomewhere(routes', nic')
<1>1. nic \in [Iface -> Nic] /\ routes \in SUBSET Route
  BY DEF IInv, TypeOK
<1>2. NicOn \in Nic /\ NicOff \in Nic
  BY DEF NicOn, NicOff, Nic
<1>3. /\ nic' \in [Iface -> Nic] /\ nic'[i] = m
      /\ \A j \in Iface : j # i => nic'[j] = nic[j]
  BY <1>1, <1>2 DEF SetInterface
<1>4. routes' = OnStateChange(routes, nic', i)
  BY DEF SetInterface
<1>5. /\ routes' \in SUBSET Route
      /\ {r \in routes' : r.kind = "netmask"} = NetmaskRoutes(nic')
      /\ \A r \in routes' :
            /\ r.kind = "netmask" => IsUp(nic'[r.via])
            /\ r.kind # "netmask" => r \in routes /\ (r.via = i => IsUp(nic'[i]))
  BY <1>1, <1>3, <1>4, OnStateChangeLemma
<1>6. ASSUME LeadSomewhere(routes, nic), NEW r \in routes' PROVE nic'[r.via].state = "UP"
  <2>1. r.via \in Iface
    BY <1>5 DEF Route
  <2>2. CASE r.kind = "netmask" \/ r.via = i
    BY <2>2, <1>5 DEF IsUp
  <2>3. CASE r.kind # "netmask" /\ r.via # i
    BY <2>1, <2>3, <1>3, <1>5, <1>6 DEF LeadSomewhere
  <2> QED BY <2>2, <2>3
<1> QED BY <1>3, <1>5, <1>6 DEF LeadSomewhere

\* Every step preserves the invariant.
LEMMA NextIInv == IInv /\ [Next]_vars => IInv'
<1> SUFFICES ASSUME IInv, [Next]_vars PROVE IInv'
  OBVIOUS
<1> USE DEF IInv
<1>1. CASE Tick
  <2>1. /\ controlTimer /\ stage \notin {"LINK", "APPLICATION_STOPPED", "NETWORK_STOPPED"}
        /\ stage' = stage /\ haveForwarded' \in BOOLEAN
        /\ UNCHANGED <<isBus, hasAgent, controlTimer, ConnectionToAP, association>>
        /\ StopTakesTimer'
    BY <1>1 DEF Tick, StopTakesTimer, TypeOK
  <2>2. CASE ~isBus
    <3>1. UNCHANGED <<nic, routes>>
      BY <1>1, <2>2 DEF Tick
    <3> QED BY <2>1, <3>1 DEF TypeOK, InterfacesByStage, RoutesByStage, RoutesLeadSomewhere,
               LeadSomewhere, TimerOutlived, NetmaskRoutesFollow, DefaultInterfaces, NetmaskRoutes
  <2>3. CASE isBus
    <3>1. Switch("DOWN", "wlan0") \/ Switch("UP", "cellular")
      BY <1>1, <2>3 DEF Tick, UseWlan, UseCellular
    <3>2. PICK s \in {"UP", "DOWN"}, i \in Iface :
             Switch(s, i) /\ (i = "cellular" => s = "UP")
      BY <3>1 DEF Iface
    <3>3. /\ nic' \in [Iface -> Nic] /\ nic'["wlan0"] = nic["wlan0"]
          /\ \A j \in Iface : nic'[j].carrier => nic'[j].state = "UP" /\ nic[j].carrier
          /\ routes' \subseteq Route
          /\ DefaultInterfaces(routes') = {i}
          /\ nic["wlan0"].state = "UP" /\ LeadSomewhere(routes, nic)
                => LeadSomewhere(routes', nic')
          /\ {r \in routes : r.kind = "netmask"} = NetmaskRoutes(nic)
                => {r \in routes' : r.kind = "netmask"} = NetmaskRoutes(nic')
      BY <3>2, SwitchLemma
    <3>4. TypeOK'
      BY <2>1, <3>3 DEF TypeOK
    <3>5. InterfacesByStage'
      BY <2>1, <3>3 DEF InterfacesByStage
    <3>6. RoutesLeadSomewhere'
      <4>1. CASE stage = "DOWN"
        BY <4>1, <2>1 DEF RoutesLeadSomewhere, TimerOutlived
      <4>2. CASE stage # "DOWN"
        <5>1. nic["wlan0"].state = "UP"
          BY <4>2, <2>1 DEF TypeOK, Stage, InterfacesByStage, Working
        <5> QED BY <4>2, <5>1, <2>1, <3>3 DEF RoutesLeadSomewhere, TimerOutlived
      <4> QED BY <4>1, <4>2
    <3>7. RoutesByStage'
      BY <2>1, <3>3 DEF RoutesByStage
    <3>8. NetmaskRoutesFollow'
      BY <2>1, <3>3 DEF NetmaskRoutesFollow
    <3> QED BY <2>1, <3>4, <3>5, <3>6, <3>7, <3>8
  <2> QED BY <2>2, <2>3
<1>2. ASSUME NEW v \in BOOLEAN, AgentEmits(v) PROVE IInv'
  BY <1>2 DEF AgentEmits, TypeOK, InterfacesByStage, StopTakesTimer, RoutesByStage,
              RoutesLeadSomewhere, LeadSomewhere, TimerOutlived, NetmaskRoutesFollow,
              DefaultInterfaces, NetmaskRoutes
<1>3. CASE StopApplication
  BY <1>3 DEF StopApplication, LifecycleStep, TypeOK, Stage, Working, InterfacesByStage,
              StopTakesTimer, RoutesByStage, RoutesLeadSomewhere, LeadSomewhere,
              TimerOutlived, NetmaskRoutesFollow, DefaultInterfaces, NetmaskRoutes
<1>4. CASE StopNetworkLayer
  BY <1>4 DEF StopNetworkLayer, LifecycleStep, TypeOK, Stage, Working,
              InterfacesByStage, StopTakesTimer, RoutesByStage, RoutesLeadSomewhere,
              LeadSomewhere, TimerOutlived, NetmaskRoutesFollow
<1>5. CASE Crash
  <2>1. nic' \in [Iface -> Nic] /\ \A i \in Iface : nic'[i] = NicOff
    BY <1>5 DEF Crash, NicOff, Nic
  <2>2. NetmaskRoutes(nic') = {}
    BY <2>1 DEF NetmaskRoutes, IsUp, NicOff
  <2> QED BY <1>5, <2>1, <2>2 DEF Crash, LifecycleStep, TypeOK, Stage, Working, NicOff,
             InterfacesByStage, StopTakesTimer, RoutesByStage, RoutesLeadSomewhere,
             LeadSomewhere, TimerOutlived, NetmaskRoutesFollow
<1>6. CASE StartNetworkLayer
  <2> DEFINE R == AddDefault(routes, "wlan0")
  <2>1. /\ stage = "LINK_STARTED" /\ stage' = "NETWORK" /\ nic' = nic
        /\ routes' = R \cup {DirectWlan} \cup NetmaskRoutes(nic)
        /\ UNCHANGED <<isBus, hasAgent, haveForwarded, ConnectionToAP, association, controlTimer>>
    BY <1>6 DEF StartNetworkLayer, LifecycleStep
  <2>2. nic["wlan0"].state = "UP"
    BY <2>1 DEF InterfacesByStage
  <2>3. "wlan0" \in Iface /\ routes \in SUBSET Route
    BY DEF TypeOK, Iface
  <2>4. /\ R \in SUBSET Route
        /\ DefaultInterfaces(R) = {"wlan0"}
        /\ {r \in R : r.kind = "netmask"} = {r \in routes : r.kind = "netmask"}
        /\ \A r \in R : r \in routes \/ r.via = "wlan0"
    BY <2>3, AddDefaultLemma
  <2>5. /\ NetmaskRoutes(nic) \in SUBSET Route
        /\ \A r \in NetmaskRoutes(nic) : r.kind = "netmask" /\ nic[r.via].state = "UP"
        /\ {r \in routes : r.kind = "netmask"} = NetmaskRoutes(nic)
    BY <2>1 DEF NetmaskRoutes, Route, IsUp, NetmaskRoutesFollow
  <2>6. DirectWlan \in Route /\ DirectWlan.kind = "direct" /\ DirectWlan.via = "wlan0"
    BY <2>3 DEF DirectWlan, Route
  <2> HIDE DEF R
  <2>7. routes' \subseteq Route /\ \A r \in routes' : nic'[r.via].state = "UP"
    BY <2>1, <2>2, <2>4, <2>5, <2>6 DEF RoutesLeadSomewhere, LeadSomewhere,
                                        TimerOutlived
  <2>8. DefaultInterfaces(routes') = DefaultInterfaces(R)
    BY <2>1, <2>5, <2>6 DEF DefaultInterfaces, DefaultVia
  <2>9. {r \in routes' : r.kind = "netmask"} = NetmaskRoutes(nic')
    BY <2>1, <2>4, <2>5, <2>6
  <2> QED BY <2>1, <2>3, <2>4, <2>7, <2>8, <2>9 DEF TypeOK, Stage, Working,
             InterfacesByStage, StopTakesTimer, RoutesByStage, RoutesLeadSomewhere,
             LeadSomewhere, TimerOutlived, NetmaskRoutesFollow
<1>7. CASE StartTransportLayer
  <2>1. /\ stage = "NETWORK" /\ stage' = "TRANSPORT" /\ nic' = nic
        /\ routes' = {r \in routes : r.kind # "netmask"} \cup NetmaskRoutes(nic)
        /\ UNCHANGED <<isBus, hasAgent, haveForwarded, ConnectionToAP, association, controlTimer>>
    BY <1>7 DEF StartTransportLayer, LifecycleStep
  <2>2. {r \in routes : r.kind = "netmask"} = NetmaskRoutes(nic)
    BY <2>1 DEF NetmaskRoutesFollow
  <2>3. routes' = routes
    BY <2>1, <2>2
  <2> QED BY <2>1, <2>2, <2>3 DEF TypeOK, Stage, Working, InterfacesByStage,
             StopTakesTimer, RoutesByStage, RoutesLeadSomewhere, LeadSomewhere,
             TimerOutlived, NetmaskRoutesFollow, DefaultInterfaces
<1>8. CASE StartApplication
  BY <1>8 DEF StartApplication, LifecycleStep, TypeOK, Stage, Working,
              InterfacesByStage, StopTakesTimer, RoutesByStage, RoutesLeadSomewhere,
              LeadSomewhere, TimerOutlived, NetmaskRoutesFollow, DefaultInterfaces,
              NetmaskRoutes
<1>9. ASSUME NEW i \in Iface, StopInterface(i) PROVE IInv'
  <2>1. /\ stage = "NETWORK_STOPPED" /\ stage' \in {"DOWN", "NETWORK_STOPPED"}
        /\ stage' = "DOWN" => \A j \in Iface : nic'[j] = NicOff
        /\ controlTimer' = controlTimer
        /\ UNCHANGED <<isBus, hasAgent, haveForwarded, ConnectionToAP, association>>
    BY <1>9 DEF StopInterface, SetInterface, LifecycleStep
  <2>2. /\ nic' \in [Iface -> Nic] /\ nic'[i] = NicOff
        /\ \A j \in Iface : j # i => nic'[j] = nic[j]
        /\ routes' \subseteq Route
        /\ {r \in routes' : r.kind = "netmask"} = NetmaskRoutes(nic')
        /\ LeadSomewhere(routes, nic) => LeadSomewhere(routes', nic')
    BY <1>9, SetInterfaceLemma DEF StopInterface
  <2>3. RoutesLeadSomewhere'
    BY <2>1, <2>2 DEF RoutesLeadSomewhere, TimerOutlived, StopTakesTimer
  <2>4. InterfacesByStage'
    BY <2>1, <2>2 DEF InterfacesByStage, NicOff, Working
  <2> QED BY <2>1, <2>2, <2>3, <2>4 DEF TypeOK, Stage, Working, StopTakesTimer,
             RoutesByStage, NetmaskRoutesFollow
<1>10. ASSUME NEW i \in Iface, StartInterface(i) PROVE IInv'
  <2>1. /\ stage \in {"DOWN", "LINK"} /\ stage' \in {"LINK", "LINK_STARTED"}
        /\ stage' = "LINK_STARTED" => \A j \in Iface : nic'[j] = NicOn
        /\ controlTimer' = controlTimer
        /\ UNCHANGED <<isBus, hasAgent, haveForwarded, ConnectionToAP, association>>
    BY <1>10 DEF StartInterface, SetInterface, LifecycleStep
  <2>2. /\ nic' \in [Iface -> Nic] /\ nic'[i] = NicOn
        /\ \A j \in Iface : j # i => nic'[j] = nic[j]
        /\ routes' \subseteq Route
        /\ {r \in routes' : r.kind = "netmask"} = NetmaskRoutes(nic')
        /\ LeadSomewhere(routes, nic) => LeadSomewhere(routes', nic')
    BY <1>10, SetInterfaceLemma DEF StartInterface
  <2>3. RoutesLeadSomewhere'
    <3>1. CASE stage' = "LINK_STARTED"
      BY <2>1, <2>2, <3>1 DEF RoutesLeadSomewhere, LeadSomewhere, NicOn, Route
    <3>2. CASE stage' = "LINK"
      BY <2>1, <2>2, <3>2 DEF RoutesLeadSomewhere, TimerOutlived
    <3> QED BY <2>1, <3>1, <3>2
  <2>4. InterfacesByStage'
    BY <2>1, <2>2 DEF InterfacesByStage, NicOn, Working, Iface
  <2> QED BY <2>1, <2>2, <2>3, <2>4 DEF TypeOK, Stage, Working, StopTakesTimer,
             RoutesByStage, NetmaskRoutesFollow
<1>11. CASE UNCHANGED vars
  BY <1>11 DEF vars, TypeOK, InterfacesByStage, StopTakesTimer, RoutesByStage,
               RoutesLeadSomewhere, LeadSomewhere, TimerOutlived, NetmaskRoutesFollow,
               DefaultInterfaces, NetmaskRoutes
<1> QED BY <1>1, <1>2, <1>3, <1>4, <1>5, <1>6, <1>7, <1>8, <1>9, <1>10, <1>11
        DEF Next, LifecycleNext

\* IInv is an invariant of every behaviour.
LEMMA Invariance == Spec => []IInv
<1>1. Init => IInv
  BY InitIInv
<1>2. IInv /\ [Next]_vars => IInv'
  BY NextIInv
<1> QED BY <1>1, <1>2, PTL DEF Spec

-----------------------------------------------------------------------------
(* What follows from it *)

\* Type correctness.
THEOREM TypeCorrect == Spec => []TypeOK
<1>1. IInv => TypeOK
  BY DEF IInv
<1> QED BY <1>1, Invariance, PTL

\* In whatever order the node is switched, stopped, crashed and started, a node that
\* is up has exactly one default route, no route leads to an interface that is
\* switched off, and a node that is down has no route, as long as no control timer has
\* outlived a crash.
THEOREM RoutesAreUsable == Spec => []RoutesUsable
<1>1. ASSUME IInv PROVE RoutesUsable
  <2>1. stage = "UP" => \E i \in Iface : DefaultInterfaces(routes) = {i}
    BY <1>1 DEF IInv, RoutesByStage, Working
  <2>2. ASSUME ~TimerOutlived PROVE \A r \in routes : nic[r.via].state = "UP"
    BY <1>1, <2>2 DEF IInv, RoutesLeadSomewhere, LeadSomewhere
  <2>3. ASSUME ~TimerOutlived, stage = "DOWN" PROVE routes = {}
    <3> SUFFICES ASSUME NEW r \in routes PROVE FALSE
      OBVIOUS
    <3>1. r.via \in Iface
      BY <1>1 DEF IInv, TypeOK, Route
    <3> QED BY <1>1, <2>2, <2>3, <3>1 DEF IInv, InterfacesByStage, TimerOutlived
  <2> QED BY <2>1, <2>2, <2>3 DEF RoutesUsable
<1> QED BY <1>1, Invariance, PTL

\* The netmask routes are those of the interfaces that can carry traffic.
THEOREM NetmaskRoutesAreCurrent == Spec => []NetmaskRoutesFollow
<1>1. IInv => NetmaskRoutesFollow
  BY DEF IInv
<1> QED BY <1>1, Invariance, PTL

\* Whatever the control loop does, only the start of the node gives an interface its
\* carrier back.
THEOREM CarrierReturnsByStartOnly == Spec => CarrierOnlyByStart
<1> DEFINE Step == \A i \in Iface : ~nic[i].carrier /\ nic'[i].carrier => stage \in {"DOWN", "LINK"}
<1>1. ASSUME IInv, [Next]_vars PROVE [Step]_vars
  <2> SUFFICES ASSUME NEW i \in Iface, ~nic[i].carrier, nic'[i].carrier
               PROVE  stage \in {"DOWN", "LINK"}
    OBVIOUS
  <2>1. nic \in [Iface -> Nic]
    BY <1>1 DEF IInv, TypeOK
  <2>2. nic' # nic
    OBVIOUS
  <2>3. CASE Tick
    <3>1. PICK s \in {"UP", "DOWN"}, j \in Iface : Switch(s, j)
      BY <2>2, <2>3 DEF Tick, UseWlan, UseCellular, Iface
    <3> QED BY <2>1, <2>2, <3>1 DEF Switch, SetState
  <2>4. CASE Crash
    BY <2>4 DEF Crash, NicOff
  <2>5. ASSUME NEW j \in Iface, StopInterface(j) PROVE FALSE
    BY <2>1, <2>5 DEF StopInterface, SetInterface, NicOff
  <2>6. ASSUME NEW j \in Iface, StartInterface(j) PROVE stage \in {"DOWN", "LINK"}
    BY <2>6 DEF StartInterface
  <2> QED BY <1>1, <2>2, <2>3, <2>4, <2>5, <2>6
          DEF Next, LifecycleNext, AgentEmits, StopApplication, StopNetworkLayer,
              StartNetworkLayer, StartTransportLayer, StartApplication, vars
<1> QED BY <1>1, Invariance, PTL DEF Spec, CarrierOnlyByStart

-----------------------------------------------------------------------------
(* Without crashes *)

\* A bus that is stopped has cancelled its control timer, and has it again when it is
\* up: the framework never sees a timer of an application that is down.
THEOREM TimerIsFollowing ==
    ASSUME "crash" \notin LifecycleOps
    PROVE  Spec => []TimerFollowsApplication
<1> DEFINE Inv == controlTimer = (stage = "UP") /\ stage \in Stage
<1>1. Init => Inv
  BY DEF Init, Stage
<1>2. Inv /\ [Next]_vars => Inv'
  <2> SUFFICES ASSUME Inv, [Next]_vars PROVE Inv'
    OBVIOUS
  <2>1. CASE Tick \/ (\E v \in BOOLEAN : AgentEmits(v)) \/ UNCHANGED vars
    BY <2>1 DEF Tick, AgentEmits, vars
  <2>2. CASE StopApplication \/ StopNetworkLayer \/ StartNetworkLayer
             \/ StartTransportLayer \/ StartApplication
    BY <2>2 DEF StopApplication, StopNetworkLayer, StartNetworkLayer, StartTransportLayer,
                StartApplication, LifecycleStep, Stage
  <2>3. ASSUME NEW i \in Iface, StopInterface(i) \/ StartInterface(i) PROVE Inv'
    BY <2>3 DEF StopInterface, StartInterface, SetInterface, LifecycleStep, Stage
  <2>4. ~Crash
    BY DEF Crash
  <2> QED BY <2>1, <2>2, <2>3, <2>4 DEF Next, LifecycleNext
<1>3. Inv => TimerFollowsApplication
  BY DEF TimerFollowsApplication
<1> QED BY <1>1, <1>2, <1>3, PTL DEF Spec

\* A bus that starts again has the WiFi route of HostAutoConfiguratorM: the control
\* loop cannot change it before the application is up.
StartsOnWlan == stage \in {"NETWORK", "TRANSPORT"} => DefaultInterfaces(routes) = {"wlan0"}

LEMMA StartsOnWlanStep ==
    ASSUME IInv, StartsOnWlan, TimerFollowsApplication, [Next]_vars
    PROVE  StartsOnWlan'
<1>1. CASE Tick
  BY <1>1 DEF Tick, TimerFollowsApplication, StartsOnWlan
<1>2. CASE StartNetworkLayer
  <2>1. "wlan0" \in Iface /\ routes \in SUBSET Route
    BY DEF IInv, TypeOK, Iface
  <2>2. DefaultInterfaces(AddDefault(routes, "wlan0")) = {"wlan0"}
    BY <2>1, AddDefaultLemma
  <2>3. routes' = AddDefault(routes, "wlan0") \cup {DirectWlan} \cup NetmaskRoutes(nic)
    BY <1>2 DEF StartNetworkLayer
  <2>4. DefaultInterfaces(routes') = DefaultInterfaces(AddDefault(routes, "wlan0"))
    BY <2>3 DEF DefaultInterfaces, DefaultVia, DirectWlan, NetmaskRoutes
  <2> QED BY <2>2, <2>4 DEF StartsOnWlan
<1>3. CASE StartTransportLayer
  BY <1>3 DEF StartTransportLayer, LifecycleStep, StartsOnWlan, DefaultInterfaces, DefaultVia,
              NetmaskRoutes
<1>4. CASE (\E v \in BOOLEAN : AgentEmits(v)) \/ UNCHANGED vars
  BY <1>4 DEF AgentEmits, vars, StartsOnWlan, DefaultInterfaces
<1>5. CASE StopApplication \/ StopNetworkLayer \/ Crash \/ StartApplication
  BY <1>5 DEF StopApplication, StopNetworkLayer, Crash, StartApplication, LifecycleStep,
              StartsOnWlan
<1>6. ASSUME NEW i \in Iface, StopInterface(i) \/ StartInterface(i) PROVE StartsOnWlan'
  BY <1>6 DEF StopInterface, StartInterface, LifecycleStep, StartsOnWlan
<1> QED BY <1>1, <1>2, <1>3, <1>4, <1>5, <1>6 DEF Next, LifecycleNext

\* The control loop, on the routing table and the interfaces as they are, does what
\* TechnologySelection promises: one interface is selected, by the last news, at a
\* control step and at no other time, and a bus that comes up again is on WiFi.
THEOREM Refinement ==
    ASSUME "crash" \notin LifecycleOps
    PROVE  Spec => ImplementsSelection
<1> DEFINE Inv == IInv /\ TimerFollowsApplication /\ StartsOnWlan
<1>1. Spec => []Inv
  <2>1. Init => StartsOnWlan
    BY DEF Init, StartsOnWlan
  <2>2. IInv /\ TimerFollowsApplication /\ StartsOnWlan /\ [Next]_vars => StartsOnWlan'
    BY StartsOnWlanStep
  <2> QED BY <2>1, <2>2, Invariance, TimerIsFollowing, PTL DEF Spec
<1>2. \A i \in Iface : DefaultInterfaces(routes) = {i} /\ stage = "UP" => Selected = i
  BY DEF Selected
<1>3. \A i \in Iface : (DefaultInterfaces(routes) = {i} /\ stage = "UP" => Selected = i)'
  BY DEF Selected
<1>4. Init => TS!Init
  <2> SUFFICES ASSUME Init PROVE TS!Init
    OBVIOUS
  <2> PICK i \in Iface : routes = ConfiguredRoutes(i, nic)
    BY DEF Init
  <2>1. DefaultInterfaces(routes) = {i}
    BY DEF ConfiguredRoutes, DefaultInterfaces, DefaultVia, DirectWlan, NetmaskRoutes, Iface
  <2>2. Selected = i
    BY <2>1, <1>2 DEF Init
  <2> QED BY <2>2 DEF Init, TS!Init, Iface
<1>5. Inv /\ [Next]_vars => [TS!Next]_(TS!vars)
  <2> SUFFICES ASSUME Inv, [Next]_vars PROVE TS!Next \/ UNCHANGED TS!vars
    OBVIOUS
  <2>1. ConnectionToAP \in BOOLEAN /\ stage = "UP" => controlTimer
    BY DEF IInv, TypeOK, TimerFollowsApplication
  <2>2. CASE Tick /\ isBus
    <3>1. /\ stage = "UP" /\ stage' = "UP" /\ ConnectionToAP' = ConnectionToAP
          /\ UseWlan \/ UseCellular
      BY <2>2 DEF Tick, TimerFollowsApplication
    <3>2. CASE UseWlan
      <4>1. DefaultInterfaces(routes') = {"wlan0"}
        BY <3>2, SwitchLemma DEF UseWlan, Iface
      <4>2. Selected' = "wlan0"
        BY <4>1, <3>1, <1>3 DEF Iface
      <4> QED BY <4>2, <3>1, <3>2 DEF UseWlan, TS!Next, TS!Select, TS!Choice
    <3>3. CASE UseCellular
      <4>1. DefaultInterfaces(routes') = {"cellular"}
        BY <3>3, SwitchLemma DEF UseCellular, Iface
      <4>2. Selected' = "cellular"
        BY <4>1, <3>1, <1>3 DEF Iface
      <4> QED BY <4>2, <3>1, <3>3 DEF UseCellular, TS!Next, TS!Select, TS!Choice
    <3> QED BY <3>1, <3>2, <3>3
  <2>3. CASE (Tick /\ ~isBus) \/ UNCHANGED vars
    <3>1. stage' = stage /\ ConnectionToAP' = ConnectionToAP /\ routes' = routes
      BY <2>3 DEF Tick, vars
    <3>2. DefaultInterfaces(routes') = DefaultInterfaces(routes)
      BY <3>1
    <3> QED BY <3>1, <3>2 DEF TS!vars, Selected
  <2>4. ASSUME NEW v \in BOOLEAN, AgentEmits(v) PROVE TS!Next \/ UNCHANGED TS!vars
    BY <2>1, <2>4 DEF AgentEmits, TS!Next, TS!News, TS!vars, Selected, DefaultInterfaces
  <2>5. CASE StopApplication
    BY <2>5 DEF StopApplication, LifecycleStep, TS!Next, TS!Disable, Selected
  <2>6. CASE StartApplication
    <3>1. DefaultInterfaces(routes') = {"wlan0"} /\ stage' = "UP" /\ stage # "UP"
      BY <2>6 DEF StartApplication, LifecycleStep, StartsOnWlan, DefaultInterfaces
    <3>2. Selected' = "wlan0"
      BY <3>1, <1>3 DEF Iface
    <3> QED BY <3>1, <3>2, <2>6 DEF StartApplication, LifecycleStep, TS!Next, TS!Enable
  <2>7. CASE StopNetworkLayer \/ StartNetworkLayer \/ StartTransportLayer
    BY <2>7 DEF StopNetworkLayer, StartNetworkLayer, StartTransportLayer, LifecycleStep,
                TS!vars, Selected
  <2>8. ASSUME NEW i \in Iface, StopInterface(i) \/ StartInterface(i)
        PROVE  UNCHANGED TS!vars
    BY <2>8 DEF StopInterface, StartInterface, LifecycleStep, TS!vars, Selected
  <2>9. ~Crash
    BY DEF Crash
  <2> QED BY <2>2, <2>3, <2>4, <2>5, <2>6, <2>7, <2>8, <2>9 DEF Next, LifecycleNext
<1> QED BY <1>1, <1>4, <1>5, PTL DEF Spec, ImplementsSelection, TS!Spec
=============================================================================
