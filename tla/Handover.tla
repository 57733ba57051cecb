------------------------------ MODULE Handover ------------------------------
(***************************************************************************)
(* The packets of a UE during its handovers: the IP2Nic modules of the UE  *)
(* and of the eNodeBs, the handover commands and the tunnelled packets     *)
(* they exchange over X2, and the tunnel of the core network to the        *)
(* serving cell.  Which cell serves the UE is left to ServingCell, which   *)
(* CellSelection implements.                                               *)
(*                                                                         *)
(* Packets are numbered in the order in which they are sent, downlink and  *)
(* uplink apart.                                                           *)
(*                                                                         *)
(* A definition that stands before a similar one and is used nowhere is a  *)
(* faulty variant of it, which the mutation runs put in its place.         *)
(***************************************************************************)
EXTENDS Naturals, Sequences

CONSTANTS
    Cell, NoCell, Idle,
    DownMax, UpMax,     \* packets sent to and by the UE
    HandoverMax         \* handovers, attachments and detachments of the UE

ASSUME CellAssumption == NoCell \notin Cell /\ Idle \notin Cell \cup {NoCell}
ASSUME BoundAssumption == {DownMax, UpMax, HandoverMax} \subseteq Nat

VARIABLES
    serving,        \* masterId_ of the UE and its next hop in the binder
    target,         \* the cell of the handover that was triggered
    handovers,      \* how many were
    x2InTime,       \* X2 commands are faster than a handover (an assumption on the network)
    ueMaster,       \* masterId_ of the UE's IP2Nic
    ueHold, ueHoldFromIp,
    upSent, upToStack,      \* packets the UE's applications sent, and IP2Nic handed down
    hoForwarding, hoHolding, hoFromX2, hoFromIp,    \* of the IP2Nic of each cell
    stack,          \* the packets a cell's RLC and MAC have for the UE
    x2Ctrl, x2Data, \* commands and tunnelled packets between two cells
    core,           \* packets tunnelled from the gateway to a cell
    downSent, received, lost,
    displaced       \* history: packets in the tunnels when the serving cell changed

SC == INSTANCE ServingCell

ueVars == <<ueMaster, ueHold, ueHoldFromIp, upSent, upToStack>>
cellVars == <<hoForwarding, hoHolding, hoFromX2, hoFromIp, stack>>
netVars == <<x2Ctrl, x2Data, core>>
downVars == <<downSent, received, lost, displaced>>
handoverVars == <<serving, target, handovers, x2InTime>>
vars == <<handoverVars, ueVars, cellVars, netVars, downVars>>

Place == Cell \cup {NoCell}
Link == Cell \X Cell
Elements(s) == {s[i] : i \in DOMAIN s}

-----------------------------------------------------------------------------

Init ==
    /\ serving \in Cell /\ target = Idle /\ handovers = 0
    /\ x2InTime \in BOOLEAN
    /\ ueMaster \in Cell     \* the configured cell, which need not be the selected one
    /\ ueHold = FALSE /\ ueHoldFromIp = <<>>
    /\ upSent = 0 /\ upToStack = <<>>
    /\ hoForwarding = [c \in Cell |-> NoCell] /\ hoHolding = {}
    /\ hoFromX2 = [c \in Cell |-> <<>>] /\ hoFromIp = [c \in Cell |-> <<>>]
    /\ stack = [c \in Cell |-> <<>>]
    /\ x2Ctrl = [l \in Link |-> <<>>] /\ x2Data = [l \in Link |-> <<>>]
    /\ core = [c \in Cell |-> <<>>]
    /\ downSent = 0 /\ received = <<>> /\ lost = {} /\ displaced = {}

-----------------------------------------------------------------------------
(* The handover *)

\* A handover takes longer than a command between two cells, two handovers are a
\* broadcast interval apart.
CommandsHaveArrived == x2InTime => \A l \in Link : x2Ctrl[l] = <<>>

SendCommand(s, t, command) == x2Ctrl' = [x2Ctrl EXCEPT ![<<s, t>>] = Append(@, command)]

\* The source forwards what it gets for the UE, and tells the target to hold.
TriggerHandoverSource(c) ==
    /\ hoForwarding' = [hoForwarding EXCEPT ![serving] = c]
    /\ SendCommand(serving, c, "start")

TriggerHandoverUeHoldsIfAttached(c) ==
    /\ ueMaster' = c
    /\ ueHold' = (ueHold \/ (serving # NoCell /\ c # NoCell))
    /\ UNCHANGED <<ueHoldFromIp, upSent, upToStack>>
TriggerHandoverUe(c) ==
    /\ ueMaster' = c
    /\ ueHold' = (ueHold \/ c # NoCell)
    /\ UNCHANGED <<ueHoldFromIp, upSent, upToStack>>

TriggerHandover(c) ==
    /\ handovers < HandoverMax /\ CommandsHaveArrived
    /\ SC!Start(c)
    /\ handovers' = handovers + 1
    /\ TriggerHandoverUe(c)
    /\ IF serving # NoCell /\ c # NoCell
       THEN TriggerHandoverSource(c)
       ELSE UNCHANGED <<hoForwarding, x2Ctrl>>
    /\ UNCHANGED <<x2InTime, hoHolding, hoFromX2, hoFromIp, stack, x2Data, core, downVars>>

\* Held packets go down when the UE has a cell.
SignalHandoverCompleteUeKeepsQueue ==
    /\ UNCHANGED <<ueMaster, upSent>>
    /\ IF ueMaster # NoCell
       THEN /\ upToStack' = upToStack \o ueHoldFromIp
            /\ ueHold' = FALSE /\ UNCHANGED ueHoldFromIp
       ELSE UNCHANGED <<ueHold, ueHoldFromIp, upToStack>>
SignalHandoverCompleteUe ==
    /\ UNCHANGED <<ueMaster, upSent>>
    /\ IF ueMaster # NoCell
       THEN /\ upToStack' = upToStack \o ueHoldFromIp
            /\ ueHold' = FALSE /\ ueHoldFromIp' = <<>>
       ELSE UNCHANGED <<ueHold, ueHoldFromIp, upToStack>>

\* The source may stop forwarding; what was held goes to the stack, what came over X2
\* first.
SignalHandoverCompleteTargetNotSource ==
    /\ stack' = [stack EXCEPT ![serving] = <<>>,
                              ![target] = @ \o hoFromX2[target] \o hoFromIp[target]]
    /\ hoFromX2' = [hoFromX2 EXCEPT ![target] = <<>>]
    /\ hoFromIp' = [hoFromIp EXCEPT ![target] = <<>>]
    /\ hoHolding' = hoHolding \ {target}
    /\ UNCHANGED x2Ctrl
SignalHandoverCompleteTargetKeepsQueue ==
    /\ SendCommand(target, serving, "complete")
    /\ stack' = [stack EXCEPT ![serving] = <<>>,
                              ![target] = @ \o hoFromX2[target] \o hoFromIp[target]]
    /\ hoFromIp' = [hoFromIp EXCEPT ![target] = <<>>]
    /\ hoHolding' = hoHolding \ {target}
    /\ UNCHANGED hoFromX2
SignalHandoverCompleteTargetKeepsHolding ==
    /\ SendCommand(target, serving, "complete")
    /\ stack' = [stack EXCEPT ![serving] = <<>>,
                              ![target] = @ \o hoFromX2[target] \o hoFromIp[target]]
    /\ hoFromX2' = [hoFromX2 EXCEPT ![target] = <<>>]
    /\ hoFromIp' = [hoFromIp EXCEPT ![target] = <<>>]
    /\ UNCHANGED hoHolding
SignalHandoverCompleteTarget ==
    /\ SendCommand(target, serving, "complete")
    /\ stack' = [stack EXCEPT ![serving] = <<>>,
                              ![target] = @ \o hoFromX2[target] \o hoFromIp[target]]
    /\ hoFromX2' = [hoFromX2 EXCEPT ![target] = <<>>]
    /\ hoFromIp' = [hoFromIp EXCEPT ![target] = <<>>]
    /\ hoHolding' = hoHolding \ {target}

InTunnels ==
    {p \in 1 .. downSent : \/ \E l \in Link : p \in Elements(x2Data[l])
                          \/ \E c \in Cell : p \in Elements(core[c])}

\* The buffers of the old cell are deleted, those of the new one filled.
DoHandover ==
    /\ CommandsHaveArrived
    /\ SC!Complete
    /\ lost' = IF serving = NoCell THEN lost ELSE lost \cup Elements(stack[serving])
    /\ SignalHandoverCompleteUe
    /\ IF serving # NoCell /\ target # NoCell
       THEN SignalHandoverCompleteTarget
       ELSE /\ stack' = [c \in Cell |-> IF c = serving THEN <<>> ELSE stack[c]]
            /\ UNCHANGED <<hoHolding, hoFromX2, hoFromIp, x2Ctrl>>
    /\ displaced' = displaced \cup InTunnels
    /\ UNCHANGED <<handovers, x2InTime, hoForwarding, x2Data, core, downSent, received>>

-----------------------------------------------------------------------------
(* X2 *)

\* The target takes "start" for a reason to hold, the source "complete" for one to
\* stop forwarding.
ReceiveHandoverCommandForgotten(s, t) ==
    /\ x2Ctrl[<<s, t>>] # <<>>
    /\ x2Ctrl' = [x2Ctrl EXCEPT ![<<s, t>>] = Tail(@)]
    /\ IF Head(x2Ctrl[<<s, t>>]) = "start"
       THEN hoHolding' = hoHolding \cup {t} /\ UNCHANGED hoForwarding
       ELSE UNCHANGED <<hoHolding, hoForwarding>>
    /\ UNCHANGED <<handoverVars, ueVars, hoFromX2, hoFromIp, stack, x2Data, core, downVars>>
ReceiveHandoverCommand(s, t) ==
    /\ x2Ctrl[<<s, t>>] # <<>>
    /\ x2Ctrl' = [x2Ctrl EXCEPT ![<<s, t>>] = Tail(@)]
    /\ IF Head(x2Ctrl[<<s, t>>]) = "start"
       THEN hoHolding' = hoHolding \cup {t} /\ UNCHANGED hoForwarding
       ELSE hoForwarding' = [hoForwarding EXCEPT ![t] = NoCell] /\ UNCHANGED hoHolding
    /\ UNCHANGED <<handoverVars, ueVars, hoFromX2, hoFromIp, stack, x2Data, core, downVars>>

\* A tunnelled packet waits for the end of a handover, whether or not there is one.
ReceiveTunneledPacketInFront(s, t) ==
    /\ x2Data[<<s, t>>] # <<>>
    /\ x2Data' = [x2Data EXCEPT ![<<s, t>>] = Tail(@)]
    /\ hoFromX2' = [hoFromX2 EXCEPT ![t] = <<Head(x2Data[<<s, t>>])>> \o @]
    /\ UNCHANGED <<handoverVars, ueVars, hoForwarding, hoHolding, hoFromIp, stack,
                   x2Ctrl, core, downVars>>
ReceiveTunneledPacket(s, t) ==
    /\ x2Data[<<s, t>>] # <<>>
    /\ x2Data' = [x2Data EXCEPT ![<<s, t>>] = Tail(@)]
    /\ hoFromX2' = [hoFromX2 EXCEPT ![t] = Append(@, Head(x2Data[<<s, t>>]))]
    /\ UNCHANGED <<handoverVars, ueVars, hoForwarding, hoHolding, hoFromIp, stack,
                   x2Ctrl, core, downVars>>

-----------------------------------------------------------------------------
(* Downlink *)

\* The gateway tunnels a packet to the next hop, and removes it when there is none.
GatewaySendUncounted ==
    LET p == downSent + 1
    IN /\ downSent < DownMax
       /\ UNCHANGED downSent
       /\ IF serving = NoCell
          THEN lost' = lost \cup {p} /\ UNCHANGED core
          ELSE core' = [core EXCEPT ![serving] = Append(@, p)] /\ UNCHANGED lost
       /\ UNCHANGED <<handoverVars, ueVars, cellVars, x2Ctrl, x2Data, received, displaced>>
GatewaySend ==
    LET p == downSent + 1
    IN /\ downSent < DownMax
       /\ downSent' = p
       /\ IF serving = NoCell
          THEN lost' = lost \cup {p} /\ UNCHANGED core
          ELSE core' = [core EXCEPT ![serving] = Append(@, p)] /\ UNCHANGED lost
       /\ UNCHANGED <<handoverVars, ueVars, cellVars, x2Ctrl, x2Data, received, displaced>>

\* fromIpBs of cell c: forward, or else hold, or else send down.
ForwardNoReturn(c, p) ==
    /\ hoForwarding[c] # NoCell
    /\ x2Data' = [x2Data EXCEPT ![<<c, hoForwarding[c]>>] = Append(@, p)]
    /\ stack' = [stack EXCEPT ![c] = Append(@, p)]
    /\ UNCHANGED <<hoFromIp, lost>>
Forward(c, p) ==
    /\ hoForwarding[c] # NoCell
    /\ x2Data' = [x2Data EXCEPT ![<<c, hoForwarding[c]>>] = Append(@, p)]
    /\ UNCHANGED <<hoFromIp, stack, lost>>

Hold(c, p) ==
    /\ hoForwarding[c] = NoCell /\ c \in hoHolding
    /\ hoFromIp' = [hoFromIp EXCEPT ![c] = Append(@, p)]
    /\ UNCHANGED <<x2Data, stack, lost>>

ToStackBs(c, p) ==
    /\ hoForwarding[c] = NoCell /\ c \notin hoHolding
    /\ IF serving = NoCell
       THEN lost' = lost \cup {p} /\ UNCHANGED stack
       ELSE stack' = [stack EXCEPT ![c] = Append(@, p)] /\ UNCHANGED lost
    /\ UNCHANGED <<hoFromIp, x2Data>>

FromIpBs(c) ==
    /\ core[c] # <<>>
    /\ core' = [core EXCEPT ![c] = Tail(@)]
    /\ LET p == Head(core[c]) IN Forward(c, p) \/ Hold(c, p) \/ ToStackBs(c, p)
    /\ UNCHANGED <<handoverVars, ueVars, hoForwarding, hoHolding, hoFromX2, x2Ctrl,
                   downSent, received, displaced>>

\* The air: the UE takes frames of its master only, until it has changed it.  A cell
\* may give up on a packet.
Deliver ==
    /\ serving # NoCell
    /\ stack[serving] # <<>>
    /\ stack' = [stack EXCEPT ![serving] = Tail(@)]
    /\ received' = Append(received, Head(stack[serving]))
    /\ UNCHANGED <<handoverVars, ueVars, hoForwarding, hoHolding, hoFromX2, hoFromIp,
                   netVars, downSent, lost, displaced>>

AirLoss(c) ==
    /\ stack[c] # <<>>
    /\ stack' = [stack EXCEPT ![c] = Tail(@)]
    /\ lost' = lost \cup {Head(stack[c])}
    /\ UNCHANGED <<handoverVars, ueVars, hoForwarding, hoHolding, hoFromX2, hoFromIp,
                   netVars, downSent, received, displaced>>

-----------------------------------------------------------------------------
(* Uplink *)

\* fromIpUe: hold, or delete when detached, or send down.
FromIpUe ==
    LET p == upSent + 1
    IN /\ upSent < UpMax
       /\ upSent' = p
       /\ \/ ueHold /\ ueHoldFromIp' = Append(ueHoldFromIp, p) /\ UNCHANGED upToStack
          \/ ~ueHold /\ ueMaster = NoCell /\ UNCHANGED <<ueHoldFromIp, upToStack>>
          \/ /\ ~ueHold /\ ueMaster # NoCell
             /\ upToStack' = Append(upToStack, p) /\ UNCHANGED ueHoldFromIp
       /\ UNCHANGED <<handoverVars, ueMaster, ueHold, cellVars, netVars, downVars>>

-----------------------------------------------------------------------------

Next ==
    \/ \E c \in Place : TriggerHandover(c)
    \/ DoHandover
    \/ \E s, t \in Cell : ReceiveHandoverCommand(s, t) \/ ReceiveTunneledPacket(s, t)
    \/ GatewaySend
    \/ \E c \in Cell : FromIpBs(c) \/ AirLoss(c)
    \/ Deliver
    \/ FromIpUe

Spec == Init /\ [][Next]_vars

\* The handover's timer expires, and X2 delivers commands.
FairSpec ==
    /\ Spec
    /\ WF_vars(DoHandover)
    /\ WF_vars(\E s, t \in Cell : ReceiveHandoverCommand(s, t))

-----------------------------------------------------------------------------
(* Properties *)

\* Every variable keeps to its type; a packet that is anywhere was sent.
TypeOK ==
    LET Down == Seq(1 .. downSent)
        Up == Seq(1 .. upSent)
    IN /\ serving \in Place /\ target \in Place \cup {Idle}
       /\ handovers \in 0 .. HandoverMax
       /\ x2InTime \in BOOLEAN /\ ueMaster \in Place /\ ueHold \in BOOLEAN
       /\ downSent \in 0 .. DownMax /\ upSent \in 0 .. UpMax
       /\ ueHoldFromIp \in Up /\ upToStack \in Up
       /\ hoForwarding \in [Cell -> Place] /\ hoHolding \subseteq Cell
       /\ hoFromX2 \in [Cell -> Down] /\ hoFromIp \in [Cell -> Down]
       /\ stack \in [Cell -> Down] /\ core \in [Cell -> Down]
       /\ x2Ctrl \in [Link -> Seq({"start", "complete"})] /\ x2Data \in [Link -> Down]
       /\ received \in Down /\ {lost, displaced} \subseteq SUBSET (1 .. downSent)

UnderWay(s, t) == serving = s /\ target = t

\* hoForwarding_ is "for temporary forwarding of data during handover": a cell
\* forwards only to the target of the handover its UE is in, or until the command
\* that is under way to it stops it; and the source of a handover does forward.
ForwardingMatchesHandover ==
    x2InTime =>
        /\ \A c, t \in Cell : hoForwarding[c] = t =>
               UnderWay(c, t) \/ "complete" \in Elements(x2Ctrl[<<t, c>>])
        /\ \A c, t \in Cell : UnderWay(c, t) => hoForwarding[c] = t

\* hoHolding_ is "for temporary holding": only the target of a handover holds, and
\* only a cell that holds has packets from IP in its queue.
HoldingMatchesHandover ==
    /\ x2InTime => \A c \in hoHolding : c = target /\ serving \in Cell
    /\ \A c \in Cell : hoFromIp[c] # <<>> => c \in hoHolding

\* A packet waits in the queues of a cell to which no handover is under way only if
\* it was in a tunnel already when the UE changed its cell: the completed handover
\* has left none behind.  (A late one does wait, for the next handover to that cell.)
OnlyDisplacedStayBehind ==
    x2InTime => \A c \in Cell : ~(target = c /\ serving \in Cell) =>
        Elements(hoFromX2[c]) \cup Elements(hoFromIp[c]) \subseteq displaced

Increasing(s) == \A i, j \in DOMAIN s : i < j => s[i] < s[j]

\* The UE gets its packets in the order in which they were sent, through any number
\* of handovers, except those that were in a tunnel when it changed its cell.
InOrder ==
    x2InTime => \A i, j \in DOMAIN received :
        i < j /\ displaced \cap {received[i], received[j]} = {} => received[i] < received[j]

\* IP2Nic of the UE hands down what the applications send in order and once,
\* whatever was held in between.
UplinkInOrder == Increasing(upToStack \o ueHoldFromIp)

\* The UE holds during an attachment or a handover and at no other time, so that it
\* never sends down a packet before it has a next hop: the IP2Nic knows a new master
\* from the start of a handover, the binder only from its end.
UplinkHasNextHop ==
    /\ ueHold <=> target \in Cell
    /\ ueHoldFromIp # <<>> => ueHold
    /\ ~ueHold /\ ueMaster # NoCell => serving # NoCell

\* No packet is duplicated, none vanishes, none comes back after it was lost.
InQueues ==
    {p \in 1 .. downSent : \E c \in Cell :
        p \in Elements(hoFromX2[c]) \cup Elements(hoFromIp[c]) \cup Elements(stack[c])}
D == INSTANCE Delivery WITH Packet <- 1 .. DownMax, pending <- InTunnels \cup InQueues
ImplementsDelivery == D!Spec

\* Forwarding and holding end.
HandoverEnds ==
    \A c \in Cell : /\ hoForwarding[c] # NoCell ~> hoForwarding[c] = NoCell
                    /\ x2InTime /\ c \in hoHolding ~> c \notin hoHolding
=============================================================================
