# A verification development for OmnetMultiTechnology

The repository simulates city buses that send their data over WiFi where an
access point of the bus company can be heard, and over LTE everywhere else.  Its
own application (`AppBusDataCollection`) switches between the two technologies;
the WiFi association comes from INET (partly patched: `Ieee80211AgentSta`,
`Ieee80211MacM`, `HostAutoConfiguratorM`), the vehicles from Veins and SUMO, the
cellular network from Simu5G.

This directory holds TLA+ models of the parts that decide *which technology a
bus uses*, and of what becomes of the packets of a bus that *changes its cell*,
down to the retransmissions of its uplink; TLC configurations that check the models,
and TLAPS proofs about them.  `PROJECT.json` lists components, runs,
hazards, theorems and the source lines every definition stands for.

Contents: [1 Inventory](#1-inventory) - [2 Modules](#2-modules-and-code) -
[3 Runs](#3-runs) - [4 Fairness](#4-fairness) - [5 Findings](#5-findings) -
[6 Proofs](#6-proofs) - [7 Not modelled](#7-what-is-not-modelled) -
[8 Plan](#8-plan)

Paths below are relative to `src/`; `inet/` stands for `inet4.4/src/inet/`,
`veins_inet/` for
`veins-veins-5.2/subprojects/veins_inet/src/veins_inet/`.

## 1 Inventory

### 1.1 The system's parts

| component | source | state it keeps | operations |
|---|---|---|---|
| Station agent | `inet/linklayer/ieee80211/mgmt/Ieee80211AgentSta.cc` | start-up timer, `prevAP`; nothing about its own progress | `handleResponse` (scan, authenticate, associate confirms), `receiveSignal` (beacons lost), emits `stateAssociationSignal` |
| Station management | `.../mgmt/Ieee80211MgmtSta.cc`, `Ieee80211MgmtBase.cc` | scan state and timer, `apList` with one authentication per AP, `assocTimeoutMsg`, `assocAP` with its beacon timer, the MIB's `isAssociated` | commands of the agent, timers, management frames, radio reception signal |
| Access point management | `.../mgmt/Ieee80211MgmtAp.cc` | `staList` (next expected frame), the MIB's station status | authentication, association, probe frames, beacons, `start`/`stop` |
| MAC, queue, radio | `.../mac/Ieee80211MacM.cc`, `mac/coordinationfunction/Dcf.cc`, `inet/queueing/queue/PacketQueue.cc`, `Ieee80211Radio.cc` | frames waiting, retry counters, tuned channel | queueing, sending, retransmission, giving up |
| Path of a data packet | `inet/networklayer/ipv4/Ipv4.cc`, `inet/networklayer/arp/ipv4/Arp.cc`, `.../mac/Ieee80211MacM.cc` | packets that wait for ARP, the ARP cache | look up, resolve, send, discard; not modelled (section 7) |
| Bus application | `BusCosenzaProject/src/node_bus/apps/AppBusDataCollection.cc` | `ConnectionToAP`, `haveForwarded`, `controlTimer` | `receiveSignal`, `controlInterface` every second, `startApplication`, `stopApplication` |
| Network interface | `inet/networklayer/common/NetworkInterface.cc` | `state`, `carrier` | `setState`, `setCarrier`, lifecycle operations |
| Routing table | `inet/networklayer/ipv4/Ipv4RoutingTable.cc` | the vector of routes, a destination cache | add, delete, look up, follow interface changes, lifecycle operations |
| Address configurator | `inet/networklayer/configurator/ipv4/HostAutoConfiguratorM.cc` | none | adds addresses and routes when the network layer starts |
| Lifecycle | `inet/common/lifecycle/*` | stage of the operation under way | start, stop and crash of a node, stage by stage |
| Choice of the serving cell | `simu5G/src/stack/phy/layer/LtePhyUe.cc` | serving and candidate cell, the level and the hysteresis remembered, two timers, the `CellInfo` that has the UE | `handoverHandler` on each broadcast, `triggerHandover`, `doHandover` |
| Data path of a handover | `simu5G/src/stack/ip2nic/IP2Nic.cc`, `stack/handoverManager/LteHandoverManager.cc`, `x2/LteX2Manager.cc`, `corenetwork/gtp/GtpUserX2.cc` | at a cell `hoForwarding_`, `hoHolding_`, `hoFromX2_`, `hoFromIp_`; at the UE `ueHold_`, `ueHoldFromIp_` | hold, forward, tunnel, flush; the X2 commands "start" and "complete" |
| Core network | `simu5G/src/corenetwork/`, `common/binder/Binder.cc` | the next hop of a UE, packets in GTP tunnels | look up, tunnel, remove |
| HARQ of the uplink | `simu5G/src/stack/mac/layer/LteMacUe.cc`, `LteMacEnb.cc`, `LteMacBase.cc`, `stack/mac/buffer/harq/`, `stack/mac/scheduler/LteSchedulerEnbUl.cc` | units of the UE, processes of the eNodeB, the grant, two process counters | main loops once a TTI: grant, transmit, retransmit, feedback; `deleteQueues` at a handover |
| RLC AM | `simu5G/src/stack/rlc/am/buffer/` | windows and timers | transmit, retransmit; window moves |
| Vehicle management | `veins-veins-5.2/src/veins/modules/mobility/traci/TraCIScenarioManager.cc` | hosts by vehicle id, counters | subscription results create, move and delete vehicles |

### 1.2 How they interact

```
   AppBusDataCollection --setState--> NetworkInterface --signal--> Ipv4RoutingTable
        ^      |  ^---------- addRoute / deleteRoute ---------------------^
        |      +--- packet: UDP, IP, ARP, interface --> Ieee80211MacM / LTE
        | stateAssociationSignal (a call)                      | asks the MIB
   Ieee80211AgentSta <== commands, confirms (zero delay) ==> Ieee80211MgmtSta --> MIB
                     <-- l2BeaconLostSignal (a call) ----          |
                                                    frames through queue, MAC, radio
                                                                   |
                                                        Ieee80211MgmtAp (one per AP)
```

* *Messages without delay* between agent and management entity: both sides run to
  completion before the next timer or frame.  The rule is `Quiet` in the model.
* *Calls that look like messages*: signals are handled inside the emitting call,
  so `BeaconTimeout` changes the agent's state, puts the new scan command on the
  gate and lets the application hear the loss, all in one step.
* *Shared state*: the MIB is written by the management entity and read by the MAC
  when a packet of the application arrives there; the routing table is written by the
  configurator, the interfaces and the application.
* *A handover has two clocks.*  The UE calls into the `IP2Nic` of both cells and of
  itself directly (`LtePhyUe::triggerHandover`, `doHandover`), while source and target
  tell each other over X2, where commands (SCTP) and packets (UDP) travel apart; and the
  core goes on sending to the old cell what it had looked up before.
* *The radio interface is a clocked one.*  UE and eNodeB run a main loop at every TTI and
  exchange grants, PDUs and feedback, each on the air for one TTI.  They agree on the
  process in turn by counting TTIs, each for itself.
* *Delays and losses*: frames wait in queues, are retransmitted, and are given up.
* *Lifecycle*: stages with other events between them.

### 1.3 What is hard, and what makes each part correct

| part | hard behaviour | correct when |
|---|---|---|
| association | an agent without state drives an entity that throws in every wrong state; late answers of abandoned attempts; five timers | exactly one activity at a time; no command throws; a confirm answers the last request; the association is with the access point that was asked; it ends only by announced beacon loss; it is reached and left eventually |
| access point | stations that come back half-way; restart that clears one table and not the other; association marked before its response is delivered | both ends agree; a returning station is not refused |
| interface control | interface switch deletes routes by callback while the application rewrites them; stages of start and stop between control steps | one usable default route; netmask routes follow the interfaces; the selection follows the last news |
| whole bus | the application polls news once a second, the MIB changes at any time | a control step leaves the route on WiFi only with an association, and puts it there with one; the route ends up where the coverage is |
| choice of the cell | broadcasts of one turn in a row, each compared with what the last one left behind; timers between them | a handover has a target that was heard in its turn and is not much weaker; a handover under way is not changed; the UE settles |
| handover | commands and packets overtake each other and the completion; several handovers in a row, detachments in between | no packet is duplicated, vanishes or is overtaken; forwarding and holding follow the handover and end; nothing stays behind in a queue |
| HARQ | two counters in step without a message that says so; a handover deletes buffers but not what is on the air | feedback and PDUs meet the process they are for; nothing is delivered twice; a retransmission is granted in its turn and ends |

The full list of hazards, each at its line with the properties that cover it or
the reason why none does, is `hazards` in `PROJECT.json`.

## 2 Modules and code

| module | models |
|---|---|
| `Ieee80211Association` | agent, station management, access points, and the medium between them |
| `AssociationRequests` | the association with the request the agent made last, as a history variable |
| `InterfaceControl` | the application's control loop, interfaces, routing table, lifecycle |
| `TechnologySelection` | abstract: what the control loop promises |
| `BusConnectivity` | the composition: association + interface control of one bus |
| `CellSelection` | the choice of the serving cell by a UE |
| `ServingCell` | abstract: one cell at a time, one handover at a time |
| `Handover` | the packets of a UE while its serving cell changes as `ServingCell` says |
| `Delivery` | abstract: a packet is delivered once or lost |
| `HarqUplink` | the uplink HARQ of a UE, from the grant to the feedback, and handovers |
| `MCAssociation`, `MCInterfaceControl`, `MCBusConnectivity`, `MCCellSelection`, `MCHandover`, `MCHarqUplink` | finite instances for TLC |
| `Ieee80211AssociationProof`, `Ieee80211AgreementProof`, `InterfaceControlProof`, `BusConnectivityProof`, `CellSelectionProof`, `HandoverProof`, `HandoverDeliveryProof`, `HarqUplinkProof` | theorems and proofs |

A definition that stands just before a similar one and is used nowhere is a
*faulty variant*: a plausible mistake in that piece of code.  `mutants` in
`PROJECT.json` says which property finds it when it replaces the right one.

### 2.1 Ieee80211Association

Variables keep the names of the code.  `apList` is the code's list of `ApInfo`
by access point (`known`: in the list); a `Timer` is `"none"` (null pointer),
`"running"` (scheduled) or `"fired"` (delivered but not deleted, which the code
does in the timeout branches of `handleTimer`: the pointer keeps counting as
"in progress" in every later check, and the model relies on that as the code
does).  `ap` is, per access point, whether it operates, the entry of the station
in `staList` and its status in the MIB, which are separate in the code: `stop()`
clears one and not the other.  `up[a]` and `down[a]` are the frames on the way,
in order, at most `QueueCapacity` each.

Actions are handlers: `ProcessScanConfirm`, `ProcessAuthenticateConfirm`,
`ProcessAssociateConfirm`, `StartUp` (agent); `Process...Command`, one action per
timer, one per frame type and per exit of the handler (station);
`ApHandle...` (access point); `Move`, `OutOfReach`, `Interference`, `ApStop`,
`ApStart` (environment).  A frame leaves the sender's queue and is handled in one
step; the acknowledged delivery of the MAC makes a frame either arrive once and
in order or be given up.

Abstractions: addresses, SSIDs and rates are membership in `AP` and
`DefaultSsidAP`; the order of the BSS list is left open (any suitable access
point may be first); times are left out except for two facts: with `Timely` no
timeout outruns a frame under way, and the first control step precedes the first
confirm (in `BusConnectivity`).  A beacon is heard whenever its access point is
`Reachable` (in range, operating, on the tuned channel); it carries nothing but
its sender.  A command that would throw is not a step: `CommandAccepted` says
that there never is one.

`AssociationRequests` adds the history variable `request`, the last message the agent
put on the gate to the management entity.  The code keeps it nowhere: a confirm does not
say what it answers, the association confirm not even which access point it is about,
and an association response is taken from any access point that is known
(`Ieee80211MgmtSta.cc:630`).  `ConfirmIsCurrent` and `AssociatedAsRequested` compare what
was confirmed, and the access point of the association, with what was asked.

### 2.2 InterfaceControl and TechnologySelection

`nic[i]` holds `state` and `carrier` apart, because `setState(DOWN)` clears both
and `setState(UP)` sets one.  A route is its kind (default, direct, netmask) and
interface: a packet to the server matches a default route only.  `Tick` is
`handleMessage` of the application: the subscription, which is retried at every
control step until the agent is found (`hasAgent`), the interface switch (with the
callback of the routing table, `OnStateChange`), and the default route.  It ends
with the packet handed to UDP: on its way from there each layer is an event of its own.
`stage` is how far a stop,
crash or start has come; `LifecycleController` finishes a stage in all modules
before the next one, and a crash is done within the instant.  `Tick` is not bound
to `stage = "UP"`: the application takes its timer before the framework asks
whether it is up, which is what makes the crash finding possible.  A timer that
outlived a crash puts a default route into the emptied table, and `RoutesUsable`
says so (`TimerOutlived`): until the interfaces have started, such a table may lead
to one that is off.  In the code the packet of that step meets UDP while UDP is down,
which is a warning within the instant of the crash and a runtime error later; the model
lets the node go on in either case.

A bus that is created while the simulation runs, which is every bus of the scenario
but those of the first instant, gets a default route through its cellular interface
from `IP2Nic` (`IP2Nic.cc:97-111`); one that is there from the beginning has the
WiFi interface for its default until the first control step.  `Init` admits both.

`TechnologySelection` has the selected interface, the last news and whether the
node is up; `InterfaceControl` implements it (`ImplementsSelection`) with
`selected` read off the routing table.  The refinement is of the crash-free
system, since a crashed node goes on choosing routes.

### 2.3 BusConnectivity

Extends the association and instantiates `InterfaceControl` with
`association <- signal`.  `Connect(A)` is an association step `A` together with
the application's `receiveSignal`, when `A` emits; `Control` is a control step at
any instant, between two zero-delay messages included.  No lifecycle operation
is under way, and the node has an agent.  The first control step comes 0.1 s after the start; the shortest
scan ends after `probeDelay` + `minChannelTime` = 0.25 s, so it precedes every
confirm, and `Connect` says so.

### 2.4 CellSelection and ServingCell

`Broadcast(c)` is `handoverHandler` with its five exits: a serving cell that beats the
remembered level (and cancels the starter), that does not, or that is lost, and another
cell that beats it or not.  Levels are integers; the hysteresis, a tenth of a level, is
kept in tenths, so that no rounding enters.  All eNodeBs broadcast at the same time in
an order that depends on when they were created: `Before` fixes it or, empty, leaves it
open; `OutOfRange` admits that broadcasts are missed.  `NewTurn` comes when starter and
trigger are done (the starter follows the broadcasts by `handoverDelta`, turns are
`broadcastMessageInterval` apart), with any new levels.  `CellInfo` is the set of cells
that have the UE in theirs.

`CellSelection` implements `ServingCell` with `serving <- masterId_` and `target` the
candidate while the trigger is scheduled.

### 2.5 Handover and Delivery

`Handover` instantiates `ServingCell` with its own `serving` and `target`: its
`TriggerHandover` and `DoHandover` are `Start` and `Complete` together with the calls
that `LtePhyUe` makes in them.  So whatever choice `CellSelection` makes, and more, is a
behaviour of the handover here, and the data path need not know levels.

Packets are numbers in the order of sending, per direction.  `core[c]` is the GTP tunnel
to cell `c`, `x2Ctrl[<<s, t>>]` and `x2Data[<<s, t>>]` the two ways from `s` to `t` over
X2, each in order and free to overtake the other; `stack[c]` is what the RLC and MAC
layers of a cell have for the UE, who takes it in order (`Deliver`) or not at all
(`AirLoss`).  `FromIpBs` is the choice between `Forward`, `Hold` and `ToStackBs`.  The
IP2Nic of the UE changes its master at the start of a handover, the binder at the end:
`ueMaster` and `serving`.  The two need not agree at first either, as the UE's IP2Nic
reads the configured master before `LtePhyUe` selects the best cell.

`displaced` is a history variable: the packets that were in a tunnel, to a cell or
between two, when the UE changed its cell.  They are the ones the code makes no effort
to keep in order; everything else it does.

`x2InTime` is an assumption on the network, chosen at the start: commands over X2 arrive
before the handover they announce is completed and before the next one is started.  A
handover takes 50 ms at least and two are a broadcast interval (1 s) apart, an X2 link
takes well below a millisecond; an SCTP retransmission could break it.  Properties that
need it say so; the model runs both ways.

`Handover` implements `Delivery`: with `pending` the packets in tunnels and queues, every
step sends, delivers, loses, or moves packets without making a second copy of one.

### 2.6 HarqUplink

A TTI has three phases: the main loop of the eNodeB (`EnbLoop`), that of the UE
(`UeIdle`, `Retransmit`, `MacPduMake`, `NothingToSend`), and the arrival of the frames
sent in the TTI before (`Arrive`, or `FromOldMaster`, which deletes them): a frame takes
one TTI and its priority, 10, puts it after the loops, whose priority is 1
(`LtePhyBase.cc:142-152`).  The two loops do not interact within a TTI, so their order is
fixed.  A handover comes before the loops, and not twice while a frame is under way.

`EnbLoop` is the part of `LteMacEnb::handleSelfMessage` that concerns the uplink: extract
what is decoded, count the processes (`UpdateHarqDescs`), grant, purge what is not
decoded.  A grant carries no process number; the model notes in it the PDU the scheduler
had in mind (or `NewData`), which the code does not, and which only the properties read.
`UeTurn` is what every way through the loop of the UE has in common: it advances the
counter and drops the grant.  The unit of a UE is `EMPTY`, `WAITING` or `BUFFERED` with
the number of its transmissions; a process of the eNodeB is `EMPTY` or `EVALUATING`, as
the other two states do not outlast the loop that enters them.

Left open: whether the channel lets a PDU be decoded, and whether new data is granted,
which random access, buffer status reports and the other UEs decide (`MoreGrants` bounds
it).  `fbTimer` is `harqFbEvaluationTimer`.  `undisturbed` is a history variable: no
handover so far, and the first grant was used.  An unused one sets the counter of the UE,
while the eNodeB sets its own by the first PDU it receives.

What a model of this code has to say aloud: the scheduler looks at the process *two*
after its own, in the one loop in which that process can be found corrupted.  Feedback
comes back `RoundTripOf(timer)` TTIs after its PDU was sent: `timer + 2`, and never less
than 4, as a PDU is evaluated in a loop after its arrival at the earliest.  The scheduler
finds what it looks for exactly if this is `harqProcesses` (`FitsInRound`).  With the default
4 of 8 it never is, and a unit that was NACKed waits until a grant of new data happens to
come in its turn; `RetransmissionInTurn` states both directions, and that no unit is
without its grant if the round trip fits.

`RoundTripAssumption` says that feedback is back before the next turn of its process.
Nothing in the code tests it; the defaults satisfy it.  It is needed: with five processes
and the default timer, the UE makes a new PDU in the turn of a unit that still waits and
throws it away (`TurnIsFree` fails; the other parts of `HarqConsistent` still hold there).  The comments around this
code are no help: the counter "keeps track of currently active process"
(`LteSchedulerEnbUl.h:43`), which it does not after a handover; the UE says "no harq
counter is updated since no transmission is sent" (`LteMacUe.cc:797`) in the branch
after which `:983` updates it, and the mutant that follows the comment breaks the turns.

## 3 Runs

| run | instance | properties | shows |
|---|---|---|---|
| `assoc_untimed` | 2 APs, any mix in range, queue 1, timeouts at any moment | `TypeOK`, `OneDriver`, `CommandAccepted`, `ConfirmIsCurrent`, `SignalAgreesWithMib`, `EndsByBeaconLoss` | whatever is late or lost, agent and entity keep one activity, answer the last request, and announce the truth |
| `assoc_delayed` | 1 AP that may restart, queue 2, 2 authentication frames, timeouts at any moment | `ResponseAccepted` | answers of earlier attempts never come from a forgotten AP |
| `assoc_roaming` | 2 APs, one may restart, queue 2, `Timely` | `Agreement`, `NoAuthError`, `AssociatedAsRequested` | both ends agree on the association, which is with the AP that was asked; a return is not refused |
| `interface_control` | stops, crashes and starts | `TypeOK`, `RoutesUsable`, `NetmaskRoutesFollow`, `CarrierOnlyByStart` | the table stays usable between any two stages |
| `interface_stop` | stops and starts | `TimerFollowsApplication`, `ImplementsSelection`, `KeepsSelecting` | the loop implements the selection |
| `interface_crash` | violation | `NoTimerWhenDown` | finding 5.1 |
| `cell_selection` | 3 cells, 6 levels from below `minRssi` to positive ones, a tenth apart and less; any order, any broadcast missed | `TypeOK`, `HandoverHasTarget`, `TargetIsJustified`, `KnownToServingCell`, `ImplementsServingCell`, `SettlesWhenPositive` | no order of broadcasts starts a handover that makes no sense |
| `cell_ping_pong` | violation; 2 cells, fixed order, none missed | `Settles` | finding 5.2 |
| `handover` | 2 cells, 3 handovers, attachments or detachments, 2 packets each way | `TypeOK`, `ForwardingMatchesHandover`, `HoldingMatchesHandover`, `OnlyDisplacedStayBehind`, `InOrder`, `UplinkInOrder`, `UplinkHasNextHop`, `ImplementsDelivery`, `HandoverEnds` | what becomes of packets during handovers |
| `harq_uplink` | 2 cells, 8 processes, 1 retransmission, evaluation timer 4 or 6, 2 PDUs, 1 handover | `HarqConsistent`, `RetransmissionInTurn`, `RetransmissionsEnd` | processes and counters of UE and eNodeB fit together |
| `bus` | 2 APs of the company and a foreign one, in a row, on 2 channels; passive scan, queue 2, `Timely` | `BeliefFollowsMib`, `WifiOnlyWhenAssociated`, `WifiUsedWhenAssociated`, `RouteFollowsCoverage`, `AssociationFollowsCoverage` | the composition works end to end |

`TypeOK` of the association says more than types: no gate ever holds two
messages.

**Bounds and why they are enough.**  The control flow of station and agent does
not count access points: it matters whether a frame comes from the one asked or
from another, and whether that one is known.  Two access points give all of
these, the overlap of two cells, and the gap between them.  The queue bound only
drops frames, which interference may do anyway; with capacity 2 a frame of an
abandoned attempt and one of the present attempt are under way together, with
`assoc_untimed` one in each direction and per access point.  The scenario uses
one channel (`channelsToScan = "3"`) and an active scan; the composed run checks two
channels with a passive one, where a channel may have no access point in reach,
and a foreign access point that must not be taken for one of the company.
Four authentication frames are the longer of the two exchanges the code admits;
`assoc_delayed` uses two.  The theorems of section 6 hold for all of these.

For the choice of the cell, three cells give a serving one, a candidate and another
that displaces the candidate; the six levels lie on both sides of `minRssi` (-14 here,
`minSnr` of the tables is near it), of zero, and of the hysteresis.  The safety
properties are proved for all cells and levels.  For the handover, two cells and three
handovers let a UE leave, come back, and leave again while messages of the first
handover are on their way, which is where commands and entries of different handovers
can meet; a third cell adds no new kind of pair (the invariants were also checked with
three cells).  Two packets show an order and a duplicate.  The counters are bounded and
end, so the run does not check deadlock; the proofs of section 6 hold for any bounds and
any cells.

For the HARQ, the number of processes is the one the code uses (8), so that wrapping and
the distance of the two counters are real (the invariants, the inductive ones of section 6
among them, were also checked with four, five and six).  One retransmission distinguishes a unit that
is sent again from one that is given up; two PDUs let a process be used while another
waits.  One handover leaves grants, feedback and PDUs of the old cell on the air in every
combination; the invariants were also checked with a second one, back to the old cell
with its old counter.  Timer 6 is the value that fits eight processes, 4 the default.
The proofs of section 6 hold for any of these numbers.

`ResponseAccepted` has a limit worth knowing: with *two* access points and frames
that stay under way longer than the 5 s timeouts, a response of a forgotten
access point can meet the association with the other, and
`handleAssociationResponseFrame` throws (`Ieee80211MgmtSta.cc:631`).  The MAC
gives a frame up long before 5 s, so the run states the property for one access
point and leaves timing open there; that a response never comes from a *forgotten other*
access point is not what this run shows but the theorem, for any access points with `Timely`.

`AssociatedAsRequested` has the same limit.  The response of an access point that was asked
first, later than the timeout, is accepted as the answer to the request to another one
that is known as well: with two access points and without `Timely`, TLC finds the station
associated with the one it did not ask last.  Neither does the confirm of that
association show it, as it names no access point, so `ConfirmIsCurrent` holds without
`Timely`.

`WifiOnlyWhenAssociated` and `WifiUsedWhenAssociated` are about the control step.  A packet
already handed to UDP can still be discarded by `handleUpperPacket`, when the scan command
clears the MIB while the packet is between two layers or waits for ARP.

## 4 Fairness

* Agent, command, timer and control steps: weak.  They are events in the
  simulator's queue, which it delivers in time order.
* Frames (`StaFrameStep`, `ApFrameStep`, `OutOfReach`): weak.  The MAC sends the
  head of its queue or gives it up after the retry limit.
* `HandleBeacon`: strong.  Beacons come every 100 ms (`beaconInterval`), an
  access point that is in reach again and again for whole channel times
  (`maxChannelTime` 300 ms in a passive scan) is heard.
* The beacon timeout: weak, but only while the access point of the association
  cannot be reached; otherwise beacons keep putting it off.
* Handover starter and trigger, broadcasts and turns: weak.  They are timers of the
  simulator; which cells are heard in a turn is left open.
* X2 commands (`ReceiveHandoverCommand`): weak.  SCTP delivers what it is given.  No
  fairness for packets, in tunnels or on the air.
* The TTI of `HarqUplink`: weak.  Its ticks are self messages.  No fairness for decoding
  or for grants of new data: `RetransmissionsEnd` needs neither.
* Losses, moves, restarts, noise and handovers: none.

The liveness properties of association and bus (`AssociationFollowsCoverage`,
`RouteFollowsCoverage`) assume, of the environment, what a stationary bus has:
from some moment on it stays where it is, no frame is lost by interference, and
no beacon timeout happens in reach (`Stays`).  Losing a frame that its receiver
would ignore is the same step as receiving it, so only the loss of a frame that
matters is excluded; otherwise the assumption would rule out every behaviour in
which a frame is ever ignored.

## 5 Findings

**5.1 A crash leaves the control timer** (run `interface_crash`).
`handleCrashOperation` (`veins_inet/VeinsInetApplicationBase.cc:114-117`)
destroys the socket and does not cancel the timer, and the application takes the
timer before the check of `OperationalMixinImpl.h:74` could refuse it.  A crashed
bus goes on switching interfaces, adds a default route to the emptied table, and sends
into a UDP that is down, which drops the packet with a warning in the instant of the
crash and throws later (`OperationalMixinImpl.h:75-78`).
No scenario of the repository crashes a bus, but the class claims to support it.

**5.2 The hysteresis works backwards at negative levels** (run `cell_ping_pong`).
"Hysteresis threshold to evaluate handover: it introduces a small polarization to avoid
multiple subsequent handovers" (`LtePhyUe.h:48-49`).  The threshold is a tenth of the
level (`LtePhyUe.cc:699`), a mean SINR in dB, and so is negative at the edge of a cell,
where handovers happen.  The comparison at `:299` then accepts a cell up to a tenth
*weaker* than what is remembered.  With two cells at -10 or -11 dB, fluctuating within
the polarization, the UE hands over back and forth.  With positive levels a UE settles
even when all levels fluctuate within a tenth of one another (`SettlesWhenPositive`,
checked for any order of the broadcasts).

## 6 Proofs

Every theorem holds for all values of the constants under the named assumptions of its
module.  They say that constants have the right type, with two exceptions:
`AssociationAssumption` (four or two authentication frames, a queue that holds
something) and `RoundTripAssumption` (section 2.6).  Nothing is assumed finite except
where cardinalities are counted, which concerns sets of at most one element.  Every
safety property and every refinement that a passing run checks is the statement of a
theorem.

**Association.**  None of the properties is inductive: whether a command will
throw depends on what both sides did several messages ago.  The invariant is
`IInv == TypeInv /\ Phase`, where `Phase` says that the station is in one of
thirteen phases (`Starting`, `ScanAsked`, `Scanning`, `ScanReported`,
`AuthAsked`, `Authenticating`, `AuthFailed`, `AuthSucceeded`, `AssocAsked`,
`Associating`, `AssocFailed`, `AssocReported`, `Associated`); each lists the
messages on the gates, the timers that run and what may be left over from
earlier attempts.  There is one lemma per action, and each property is read off
the phases.  `TypeInv` holds two facts the phases need: `prevAP` stays
unspecified (the confirm carries no address), and an access point that asks the
station to go on has not reached its last frame, so sequence numbers stay in
range.

| theorem | property |
|---|---|
| `TypeCorrect` | `TypeOK` |
| `OneDriverAtATime` | `OneDriver` |
| `CommandsAreAccepted` | `CommandAccepted` |
| `SignalIsTruthful` | `SignalAgreesWithMib` |
| `AssociationEndsByBeaconLoss` | `EndsByBeaconLoss` |
| `Ieee80211AgreementProof!EndsAgree` | `Agreement` |
| `Ieee80211AgreementProof!NobodyIsRefused` | `NoAuthError` |
| `Ieee80211AgreementProof!ResponsesAreAccepted` | `ResponseAccepted` |
| `Ieee80211AgreementProof!ConfirmsAnswerTheRequest` | `ConfirmIsCurrent` |
| `Ieee80211AgreementProof!AssociatesAsRequested` | `AssociatedAsRequested` |

`ConfirmsAnswerTheRequest` holds for all timings: `AskedInv` adds to the phases which
request a command on the gate, a running scan, and each running timer belong to.  The other four of
`Ieee80211AgreementProof` need the frames.  `MediumInv` says what may be on its way: nothing, the one
frame of an authentication that its receiver expects, the one frame of an association, or,
while the station scans or is about to, what a broken attempt left over; an associated
station has nothing on its way and its access point has its status.  The theorems assume
`Timely`, as the run `assoc_roaming` does; `ResponsesAreAccepted` also holds without it for
a single access point, the instance of its run.  For `AssociatesAsRequested` the invariant
`AnswererInv` says in addition that, while the station waits for a response, only the
access point its agent asked for has frames under way.

**Interface control.**  `RoutesUsable` needs to know which stages have a default
route (`RoutesByStage`), that no route leads to an interface that is off even
between stages unless a timer outlived a crash (`RoutesLeadSomewhere`), which interfaces
are on in which stage (`InterfacesByStage`), and that a stop takes the timer with it
(`StopTakesTimer`).  Lemmas state what adding a default route and
following an interface change do to a table.  `TimerIsFollowing` and `Refinement`
assume `"crash" \notin LifecycleOps`; the refinement maps every step to a step of
`TechnologySelection` or a stutter.

| theorem | property |
|---|---|
| `TypeCorrect` | `TypeOK` |
| `RoutesAreUsable` | `RoutesUsable` |
| `NetmaskRoutesAreCurrent` | `NetmaskRoutesFollow` |
| `CarrierReturnsByStartOnly` | `CarrierOnlyByStart` |
| `TimerIsFollowing` | `TimerFollowsApplication` |
| `Refinement` | `ImplementsSelection` |

**Composition.**  `BusInv` adds to the phases that the application's belief is
the agent's last announcement, that nothing is announced before it has
subscribed, and that the WiFi interface stays on; the phases carry over, as a
control step leaves the association alone.

| theorem | property |
|---|---|
| `BeliefIsTrue` | `BeliefFollowsMib` |
| `WifiIsLeft` | `WifiOnlyWhenAssociated` |
| `WifiIsUsed` | `WifiUsedWhenAssociated` |

**Choice of the cell.**  The invariant ties the remembered level to a cell heard in
this turn whenever the starter is scheduled, and bounds how much later broadcasts of the
turn can have lowered it.  No assumption on levels or on the number of cells.

| theorem | property |
|---|---|
| `TypeCorrect` | `TypeOK` |
| `AlwaysHandoverHasTarget` | `HandoverHasTarget` |
| `AlwaysTargetIsJustified` | `TargetIsJustified` |
| `AlwaysKnownToServingCell` | `KnownToServingCell` |
| `Refinement` | `ImplementsServingCell` |

**Handover.**  `IInv` is the conjunction of `TypeOK`, `UeInv` (whether the IP2Nic of the
UE has a master, before and during a handover), `ControlInv` (which commands may be on
their way, from the target or from the serving cell, and what the two tables of each
cell say meanwhile) and `BehindInv` (a tunnel to a cell that does not serve the UE holds
displaced packets only, and so does the tunnel between two cells with no handover under
way).  `ControlInv` and `BehindInv` assume `x2InTime`, as the properties do.

| theorem | property |
|---|---|
| `TypeCorrect` | `TypeOK` |
| `AlwaysUplinkHasNextHop` | `UplinkHasNextHop` |
| `AlwaysUplinkInOrder` | `UplinkInOrder` |
| `AlwaysForwardingMatchesHandover` | `ForwardingMatchesHandover` |
| `AlwaysHoldingMatchesHandover` | `HoldingMatchesHandover` |
| `AlwaysOnlyDisplacedStayBehind` | `OnlyDisplacedStayBehind` |
| `HandoverDeliveryProof!Refinement` | `ImplementsDelivery` |
| `HandoverDeliveryProof!AlwaysInOrder` | `InOrder` |

`HandoverDeliveryProof` shows that every step of `Handover` is a step of `Delivery` or a
stutter, without any assumption on the speed of the X2 commands.  It lays all queues a
packet may stand in (the core network, the tunnels, the two buffers and the stack of each
cell) into one family, `Queues`; the inductive invariant `Once` says that no packet stands
in two places of the family: without it, a packet delivered from one queue could still
be pending in another.  Lemmas about
families of queues (taking the head, putting at the end, emptying, moving one queue to
the end of another) do the counting once; each action is one of these changes.

Its second part, about the order, adds two invariants.  `StrayInv`: packets that no change of cell
found in a tunnel are in the stack of the serving cell only, and none is held because it
came from the core network too early.  `OrderInv`: the way to the UE has five stages
(delivered, stacks, packets held by the target, tunnels, core network), each queue is in
order and each stage is ahead of those behind it, but for displaced packets.  Invariants
over single queues would not do: the path through the tunnel and the direct one overtake
each other unless the stages are compared as wholes.

**HARQ.**  Every frame takes one TTI, and the UE's counter advances in each, so the counter
is a clock.  `Since(p)` is the number of TTIs since the last turn of process `p`, read off
the counter, and it tells where the PDU or the feedback of `p` is: sent (0), on the air (1),
evaluated for so many loops (its age and 1 or 2), fed back (`RoundTrip - 2`), feedback on the
air (`RoundTrip - 1`).  `StageInv` says this for every process; as the stages lie at
different distances, no process is in two of them, and as `RoundTrip` is at most the number
of processes, none is left when the turn comes again.  That is the whole argument about
the modulus: it is done once, in the lemmas about the clock (`SuccIs`, `SinceInArrive`,
`SinceInLoops`).  The other parts of the inductive invariant are `WaitingInv` (a unit waits
exactly as long as one of the stages has its process), `UnitInv` (no two units with the
same PDU, and none with one that was given up), `FeedbackInv` (one feedback for a unit, with
its number), `PhaseInv` (which frames are empty in which phase, and that nothing is sent
before the first grant), and `PassedOnIsDone` itself.  After a handover the invariant
speaks only of frames from the present cell (`air.enb = cell`); those of the old one are
deleted, and the counter of the UE, which a handover leaves alone, goes on being the clock.

`RetransmissionsInTurn` adds `TurnInv`, all of it up to the first handover.
`CounterInv`: once the eNodeB knows the UE, its counter is the UE's in the loop of the
eNodeB; it starts from 0 in the loop after the first PDU arrives, when the UE, who sent that PDU
in the turn of process `HarqProcesses - 2`, has counted to 0 as well.  `GrantInv`: a grant meant for a PDU
travels with the NACK of this PDU, at distance `HarqProcesses - 2`, then `- 1`, from the
turn of its process.  `NackInv`: if the round trip takes a round, a NACK has its grant
with it, and a unit with a PDU to retransmit is the one in turn.

| theorem | property |
|---|---|
| `Consistency` | `HarqConsistent` |
| `RetransmissionsInTurn` | `RetransmissionInTurn` |

**Only model-checked.**  Liveness (`AssociationFollowsCoverage`, `KeepsSelecting`,
`RouteFollowsCoverage`, `SettlesWhenPositive`, `HandoverEnds`, `RetransmissionsEnd`):
fairness and ENABLED are beyond the prover.  For `RetransmissionsEnd` the safety half is
proved: where the round trip fits, a unit to retransmit is in turn and has its grant
(`RetransmissionInTurn`), so what is left to fairness is that the next loop of the UE comes.

## 7 What is not modelled

* Station commands nobody sends (deauthenticate, disassociate, reassociate), the
  frames that only they would cause, and the choice of a BSS by power, which
  `defaultSsid` disables.
* Channel access, acknowledgements and collisions: a frame arrives, waits or is
  lost.  The radio is tuned at once, where the MAC may defer the command until
  the medium is free.
* The path of a data packet after the application has handed it to UDP.  UDP, IPv4, LLC and
  MAC take it in events of their own, so that the state the route was chosen in can
  change before it gets through.  On `wlan0` IPv4 parks it until ARP has resolved the next
  hop (`Ipv4.cc:1064-1071`), ARP retries or gives up (`Arp.cc`) and forgets with time.  A packet is
  dropped at an interface that is down (`NetworkInterface.cc:64-81`) and by the MAC of a
  station that is not associated (`Ieee80211MacM.cc:156-166`).  The models say which way
  packets are sent, not that they arrive.
* Several stations at one access point: their entries do not meet.
* The routing table's destination cache, metrics, multicast and file formats;
  addresses; payloads; log output.
* Handover: the NR stack and dual connectivity (two masters, split bearers), multicast,
  device-to-device links, the removal of a UE (`LtePhyUe::finish`, which leaves its
  entries at the cells), the layers below (PDCP, RLC, MAC) beyond keeping, delivering or
  losing packets in order.  The parameter `losslessHandover` is read by the handover
  manager and used nowhere.
* HARQ: the downlink (where the eNodeB transmits and chooses processes freely), several
  carriers and codewords, periodic grants, random access and buffer status reports, the
  MAC of device-to-device UEs and of NR UEs, loops of UE and eNodeB that are not aligned.
  Several UEs share resource blocks but no process.
* The acknowledged mode of RLC: a component of its own, above the MAC; in `Handover`
  the layers of a cell appear as `stack`.
* The TraCI protocol (bytes to and from SUMO), radio propagation, statistics, the
  NED and ini files, and the parts of INET, Simu5G and Veins that take no part in
  the choice of technology or of the cell.  They make up nearly all of the
  repository's files.

## 8 Plan

Written so far: everything in section 2, in the order association, interface
control, selection, composition, choice of the cell, handover and the uplink HARQ, each with
its proofs.
What could follow, in this order:

1. The downlink HARQ, whose transmission counter a receiver process shares between its
   codewords and whose units give themselves feedback when they were not sent; then
   `RlcAm`: transmit and receive windows with retransmission; theorem: the receive window
   never passes a missing packet silently.  Both would refine `stack` of `Handover`.
2. The removal of a UE during a handover, and the NR path.
3. `VehicleManager`: creation and deletion of vehicles by subscription results,
   the region of interest, and the counters that end the simulation.
4. The MAC's deferred channel command and the routing cache, as refinements of
   `tuned` and of the choice of a route.
5. The path of a data packet with ARP: what a parked packet meets when the association is
   lost and found again, and that no packet waits for ever.
