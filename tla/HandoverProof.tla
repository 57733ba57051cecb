--------------------------- MODULE HandoverProof ---------------------------
(***************************************************************************)
(* Proofs about Handover, for every set of cells, every number of packets  *)
(* and every number of handovers: forwarding and holding match the         *)
(* handover, a completed handover leaves no packet behind but those that   *)
(* were in a tunnel, and the uplink stays in order.                        *)
(***************************************************************************)
EXTENDS Handover, TLAPS

-----------------------------------------------------------------------------
(* Lemmas about sequences *)

\* The elements of a sequence, and of what remains without its head.
LEMMA ElementsLemma ==
    ASSUME NEW S, NEW s \in Seq(S)
    PROVE  /\ Elements(s) \subseteq S
           /\ Elements(<<>>) = {}
           /\ s # <<>> => /\ Head(s) \in S /\ Tail(s) \in Seq(S)
                          /\ Elements(s) = {Head(s)} \cup Elements(Tail(s))
<1>1. Elements(s) \subseteq S /\ Elements(<<>>) = {}
  BY DEF Elements
<1>2. ASSUME s # <<>>
      PROVE  /\ Head(s) \in S /\ Tail(s) \in Seq(S)
             /\ Elements(s) = {Head(s)} \cup Elements(Tail(s))
  <2>1. /\ Len(s) \in Nat \ {0} /\ Head(s) = s[1] /\ Tail(s) \in Seq(S)
        /\ Len(Tail(s)) = Len(s) - 1
        /\ \A i \in 1 .. Len(s) - 1 : Tail(s)[i] = s[i + 1]
    BY <1>2
  <2>2. DOMAIN s = 1 .. Len(s) /\ DOMAIN Tail(s) = 1 .. Len(s) - 1
    BY <2>1
  <2>3. Elements(s) \subseteq {Head(s)} \cup Elements(Tail(s))
    <3> SUFFICES ASSUME NEW i \in 1 .. Len(s), i # 1
                 PROVE  s[i] \in Elements(Tail(s))
      BY <2>1, <2>2 DEF Elements
    <3>1. i - 1 \in 1 .. Len(s) - 1 /\ Tail(s)[i - 1] = s[i]
      BY <2>1
    <3> QED BY <2>2, <3>1 DEF Elements
  <2>4. {Head(s)} \cup Elements(Tail(s)) \subseteq Elements(s)
    <3>1. \A i \in 1 .. Len(s) - 1 : i + 1 \in 1 .. Len(s) /\ Tail(s)[i] = s[i + 1]
      BY <2>1
    <3>2. 1 \in 1 .. Len(s)
      BY <2>1
    <3> QED BY <2>1, <2>2, <3>1, <3>2 DEF Elements
  <2> QED BY <2>1, <2>2, <2>3, <2>4
<1> QED BY <1>1, <1>2

LEMMA EmptyLemma == Elements(<<>>) = {}
  BY DEF Elements

\* Append adds one element.
LEMMA AppendLemma ==
    ASSUME NEW S, NEW s \in Seq(S), NEW e \in S
    PROVE  /\ Append(s, e) \in Seq(S)
           /\ Elements(Append(s, e)) = Elements(s) \cup {e}
<1>1. /\ Append(s, e) \in Seq(S) /\ Len(Append(s, e)) = Len(s) + 1 /\ Len(s) \in Nat
      /\ Append(s, e)[Len(s) + 1] = e
      /\ \A i \in 1 .. Len(s) : Append(s, e)[i] = s[i]
  OBVIOUS
<1>2. DOMAIN s = 1 .. Len(s) /\ DOMAIN Append(s, e) = 1 .. Len(s) + 1
  BY <1>1
<1>3. \A i : i \in 1 .. Len(s) + 1 <=> i \in 1 .. Len(s) \/ i = Len(s) + 1
  BY <1>1
<1> QED BY <1>1, <1>2, <1>3 DEF Elements

\* A concatenation has the elements of both.
LEMMA ConcatLemma ==
    ASSUME NEW S, NEW s \in Seq(S), NEW t \in Seq(S)
    PROVE  s \o t \in Seq(S)
  OBVIOUS

\* A sequence over a set is one over a larger set.
LEMMA WidenLemma ==
    ASSUME NEW S, NEW T, S \subseteq T, NEW s \in Seq(S)
    PROVE  s \in Seq(T)
  OBVIOUS

\* A larger number at the end keeps a sequence increasing.
LEMMA IncreasingLemma ==
    ASSUME NEW n \in Nat, NEW s \in Seq(1 .. n), Increasing(s)
    PROVE  Increasing(Append(s, n + 1))
<1>1. /\ Len(s) \in Nat /\ Len(Append(s, n + 1)) = Len(s) + 1
      /\ Append(s, n + 1)[Len(s) + 1] = n + 1
      /\ \A i \in 1 .. Len(s) : Append(s, n + 1)[i] = s[i] /\ s[i] \in 1 .. n
  OBVIOUS
<1>2. DOMAIN s = 1 .. Len(s) /\ DOMAIN Append(s, n + 1) = 1 .. Len(s) + 1
  BY <1>1
<1> SUFFICES ASSUME NEW i \in 1 .. Len(s) + 1, NEW j \in 1 .. Len(s) + 1, i < j
             PROVE  Append(s, n + 1)[i] < Append(s, n + 1)[j]
  BY <1>2 DEF Increasing
<1>3. i \in 1 .. Len(s)
  BY <1>1
<1>4. CASE j = Len(s) + 1
  <2>1. Append(s, n + 1)[j] = n + 1 /\ Append(s, n + 1)[i] = s[i] /\ s[i] \in 1 .. n
    BY <1>1, <1>3, <1>4
  <2> QED BY <2>1
<1>5. CASE j \in 1 .. Len(s)
  <2>1. Append(s, n + 1)[j] = s[j] /\ Append(s, n + 1)[i] = s[i]
    BY <1>1, <1>3, <1>5
  <2>2. s[i] < s[j]
    BY <1>2, <1>3, <1>5 DEF Increasing
  <2> QED BY <2>1, <2>2
<1>6. j = Len(s) + 1 \/ j \in 1 .. Len(s)
  <2>1. Len(s) \in Nat
    OBVIOUS
  <2> QED BY <2>1
<1> QED BY <1>4, <1>5, <1>6

\* Appending to the second of two sequences appends to their concatenation; an empty
\* one adds nothing.
LEMMA ConcatAppendLemma ==
    ASSUME NEW S, NEW s \in Seq(S), NEW t \in Seq(S), NEW e \in S
    PROVE  /\ s \o Append(t, e) = Append(s \o t, e)
           /\ s \o <<>> = s
  OBVIOUS

-----------------------------------------------------------------------------
(* Types *)

LEMMA InitTypeOK == Init => TypeOK
<1> SUFFICES ASSUME Init PROVE TypeOK
  OBVIOUS
<1> USE DEF Init
<1>1. /\ 0 \in 0 .. HandoverMax /\ 0 \in 0 .. DownMax /\ 0 \in 0 .. UpMax
  BY BoundAssumption
<1>2. \A S : <<>> \in Seq(S)
  OBVIOUS
<1>3. /\ serving \in Place /\ target \in Place \cup {Idle} /\ ueMaster \in Place
      /\ hoForwarding \in [Cell -> Place] /\ hoHolding \subseteq Cell
  BY DEF Place
<1>4. {lost, displaced} \subseteq SUBSET (1 .. downSent)
  OBVIOUS
<1> QED BY <1>1, <1>2, <1>3, <1>4 DEF TypeOK

\* The conjuncts of TypeOK that speak about packets to the UE.
DownTypeOK ==
    LET Down == Seq(1 .. downSent)
    IN /\ hoFromX2 \in [Cell -> Down] /\ hoFromIp \in [Cell -> Down]
       /\ stack \in [Cell -> Down] /\ core \in [Cell -> Down] /\ x2Data \in [Link -> Down]
       /\ received \in Down /\ {lost, displaced} \subseteq SUBSET (1 .. downSent)

LEMMA TriggerTypeOK == ASSUME TypeOK, NEW c \in Place, TriggerHandover(c) PROVE TypeOK'
<1>1. /\ serving' = serving /\ target' = c /\ handovers' = handovers + 1
      /\ handovers' \in 0 .. HandoverMax
  BY BoundAssumption DEF TriggerHandover, SC!Start, TypeOK
<1>2. /\ UNCHANGED <<x2InTime, hoHolding, hoFromX2, hoFromIp, stack, x2Data, core, downSent,
                     received, lost, displaced, ueHoldFromIp, upSent, upToStack>>
      /\ ueMaster' = c /\ ueHold' \in BOOLEAN
  BY DEF TriggerHandover, TriggerHandoverUe, downVars, TypeOK
<1>3. hoForwarding' \in [Cell -> Place] /\ x2Ctrl' \in [Link -> Seq({"start", "complete"})]
  <2>1. CASE serving # NoCell /\ c # NoCell
    <3>1. <<serving, c>> \in Link
      BY <2>1 DEF TypeOK, Place, Link
    <3>2. Append(x2Ctrl[<<serving, c>>], "start") \in Seq({"start", "complete"})
      BY <3>1, AppendLemma DEF TypeOK
    <3> QED
      BY <2>1, <3>1, <3>2
      DEF TriggerHandover, TriggerHandoverSource, SendCommand, TypeOK, Place
  <2>2. CASE ~(serving # NoCell /\ c # NoCell)
    BY <2>2 DEF TriggerHandover, TypeOK
  <2> QED BY <2>1, <2>2
<1> QED BY <1>1, <1>2, <1>3 DEF TypeOK

LEMMA DoHandoverTypeOK == ASSUME TypeOK, DoHandover PROVE TypeOK'
<1>1. /\ serving' = target /\ target' = Idle /\ target # Idle
      /\ UNCHANGED <<handovers, x2InTime, hoForwarding, x2Data, core, downSent, received>>
      /\ displaced' = displaced \cup InTunnels
  BY DEF DoHandover, SC!Complete
<1>2. /\ UNCHANGED <<ueMaster, upSent>> /\ ueHold' \in BOOLEAN
      /\ upToStack' \in Seq(1 .. upSent) /\ ueHoldFromIp' \in Seq(1 .. upSent)
  <2>1. upToStack \o ueHoldFromIp \in Seq(1 .. upSent)
    BY ConcatLemma DEF TypeOK
  <2>2. <<>> \in Seq(1 .. upSent) /\ FALSE \in BOOLEAN
    OBVIOUS
  <2>3. ueHold \in BOOLEAN /\ upToStack \in Seq(1 .. upSent) /\ ueHoldFromIp \in Seq(1 .. upSent)
    BY DEF TypeOK
  <2>4. SignalHandoverCompleteUe
    BY DEF DoHandover
  <2>5. CASE ueMaster # NoCell
    BY <2>1, <2>2, <2>4, <2>5 DEF SignalHandoverCompleteUe
  <2>6. CASE ueMaster = NoCell
    BY <2>3, <2>4, <2>6 DEF SignalHandoverCompleteUe
  <2> QED BY <2>5, <2>6
<1>3. InTunnels \subseteq 1 .. downSent
  BY DEF InTunnels
<1>4. lost' \subseteq 1 .. downSent
  BY ElementsLemma DEF DoHandover, TypeOK, Place
<1>5. /\ stack' \in [Cell -> Seq(1 .. downSent)] /\ hoHolding' \subseteq Cell
      /\ hoFromX2' \in [Cell -> Seq(1 .. downSent)] /\ hoFromIp' \in [Cell -> Seq(1 .. downSent)]
      /\ x2Ctrl' \in [Link -> Seq({"start", "complete"})]
  <2>1. CASE serving # NoCell /\ target # NoCell
    <3>1. /\ serving \in Cell /\ target \in Cell
      BY <1>1, <2>1 DEF TypeOK, Place
    <3>2. <<target, serving>> \in Link
      BY <3>1 DEF Link
    <3>3. SignalHandoverCompleteTarget
      BY <2>1 DEF DoHandover
    <3>4. Append(x2Ctrl[<<target, serving>>], "complete") \in Seq({"start", "complete"})
      BY <3>2, AppendLemma DEF TypeOK
    <3>5. x2Ctrl' \in [Link -> Seq({"start", "complete"})]
      BY <3>2, <3>3, <3>4 DEF SignalHandoverCompleteTarget, SendCommand, TypeOK
    <3>6. \A q \in Seq(1 .. downSent) :
              q \o hoFromX2[target] \o hoFromIp[target] \in Seq(1 .. downSent)
      <4>1. /\ hoFromX2[target] \in Seq(1 .. downSent)
            /\ hoFromIp[target] \in Seq(1 .. downSent)
        BY <3>1 DEF TypeOK
      <4> QED BY <4>1, ConcatLemma
    <3>7. stack' \in [Cell -> Seq(1 .. downSent)]
      <4>1. stack \in [Cell -> Seq(1 .. downSent)] /\ <<>> \in Seq(1 .. downSent)
        BY DEF TypeOK
      <4> QED BY <3>3, <3>6, <4>1 DEF SignalHandoverCompleteTarget
    <3>8. /\ hoFromX2' \in [Cell -> Seq(1 .. downSent)]
          /\ hoFromIp' \in [Cell -> Seq(1 .. downSent)] /\ hoHolding' \subseteq Cell
      <4>1. <<>> \in Seq(1 .. downSent)
        OBVIOUS
      <4> QED BY <3>3, <4>1 DEF SignalHandoverCompleteTarget, TypeOK
    <3> QED BY <3>5, <3>7, <3>8
  <2>2. CASE ~(serving # NoCell /\ target # NoCell)
    <3>1. /\ stack' = [c \in Cell |-> IF c = serving THEN <<>> ELSE stack[c]]
          /\ UNCHANGED <<hoHolding, hoFromX2, hoFromIp, x2Ctrl>>
      BY <2>2 DEF DoHandover
    <3>2. <<>> \in Seq(1 .. downSent)
      OBVIOUS
    <3> QED BY <3>1, <3>2 DEF TypeOK
  <2> QED BY <2>1, <2>2
<1> QED BY <1>1, <1>2, <1>3, <1>4, <1>5 DEF TypeOK

LEMMA CommandTypeOK ==
  ASSUME TypeOK, NEW s \in Cell, NEW t \in Cell, ReceiveHandoverCommand(s, t)
  PROVE  TypeOK'
<1>1. /\ x2Ctrl' = [x2Ctrl EXCEPT ![<<s, t>>] = Tail(@)]
      /\ UNCHANGED <<serving, target, handovers, x2InTime, ueMaster, ueHold, ueHoldFromIp,
                     upSent, upToStack, hoFromX2, hoFromIp, stack, x2Data, core, downSent,
                     received, lost, displaced>>
  BY DEF ReceiveHandoverCommand, handoverVars, ueVars, downVars
<1>2. x2Ctrl' \in [Link -> Seq({"start", "complete"})]
  <2>1. <<s, t>> \in Link
    BY DEF Link
  <2>2. Tail(x2Ctrl[<<s, t>>]) \in Seq({"start", "complete"})
    BY <2>1, ElementsLemma DEF TypeOK, ReceiveHandoverCommand
  <2> QED BY <1>1, <2>1, <2>2 DEF TypeOK
<1>3. hoForwarding' \in [Cell -> Place] /\ hoHolding' \subseteq Cell
  BY DEF ReceiveHandoverCommand, TypeOK, Place
<1> QED BY <1>1, <1>2, <1>3 DEF TypeOK

LEMMA PacketTypeOK ==
  ASSUME TypeOK, NEW s \in Cell, NEW t \in Cell, ReceiveTunneledPacket(s, t)
  PROVE  TypeOK'
<1>1. /\ UNCHANGED <<serving, target, handovers, x2InTime, ueMaster, ueHold, ueHoldFromIp,
                     upSent, upToStack, hoForwarding, hoHolding, hoFromIp, stack, x2Ctrl,
                     core, downSent, received, lost, displaced>>
      /\ x2Data' = [x2Data EXCEPT ![<<s, t>>] = Tail(@)]
      /\ hoFromX2' = [hoFromX2 EXCEPT ![t] = Append(@, Head(x2Data[<<s, t>>]))]
  BY DEF ReceiveTunneledPacket, handoverVars, ueVars, downVars
<1>2. <<s, t>> \in Link
  BY DEF Link
<1>3. /\ Head(x2Data[<<s, t>>]) \in 1 .. downSent
      /\ Tail(x2Data[<<s, t>>]) \in Seq(1 .. downSent)
  BY <1>2, ElementsLemma DEF TypeOK, ReceiveTunneledPacket
<1>4. Append(hoFromX2[t], Head(x2Data[<<s, t>>])) \in Seq(1 .. downSent)
  BY <1>3, AppendLemma DEF TypeOK
<1>5. /\ x2Data' \in [Link -> Seq(1 .. downSent)]
      /\ hoFromX2' \in [Cell -> Seq(1 .. downSent)]
  BY <1>1, <1>2, <1>3, <1>4 DEF TypeOK
<1> QED BY <1>1, <1>5 DEF TypeOK

LEMMA SendTypeOK == ASSUME TypeOK, GatewaySend PROVE TypeOK'
<1> DEFINE p == downSent + 1
<1>1. /\ UNCHANGED <<serving, target, handovers, x2InTime, ueMaster, ueHold, ueHoldFromIp,
                     upSent, upToStack, hoForwarding, hoHolding, hoFromX2, hoFromIp, stack,
                     x2Ctrl, x2Data, received, displaced>>
      /\ downSent' = p
  BY DEF GatewaySend, handoverVars, ueVars, cellVars
<1>2. /\ downSent \in Nat /\ downSent' \in 0 .. DownMax
      /\ 1 .. downSent \subseteq 1 .. p /\ p \in 1 .. p
  BY <1>1, BoundAssumption DEF GatewaySend, TypeOK
<1>3. Seq(1 .. downSent) \subseteq Seq(1 .. p)
  BY <1>2, WidenLemma
<1>4. core' \in [Cell -> Seq(1 .. p)] /\ lost' \subseteq 1 .. p
  <2>1. CASE serving = NoCell
    BY <1>2, <1>3, <2>1 DEF GatewaySend, TypeOK
  <2>2. CASE serving # NoCell
    <3>1. serving \in Cell /\ core[serving] \in Seq(1 .. p)
      BY <1>3, <2>2 DEF TypeOK, Place
    <3>2. Append(core[serving], p) \in Seq(1 .. p)
      BY <1>2, <3>1, AppendLemma
    <3> QED BY <1>2, <1>3, <2>2, <3>1, <3>2 DEF GatewaySend, TypeOK
  <2> QED BY <2>1, <2>2
<1>5. DownTypeOK'
  BY <1>1, <1>2, <1>3, <1>4 DEF TypeOK, DownTypeOK
<1> QED BY <1>1, <1>2, <1>5 DEF TypeOK, DownTypeOK

LEMMA FromIpBsTypeOK == ASSUME TypeOK, NEW c \in Cell, FromIpBs(c) PROVE TypeOK'
<1> DEFINE p == Head(core[c])
<1>1. /\ UNCHANGED <<serving, target, handovers, x2InTime, ueMaster, ueHold, ueHoldFromIp,
                     upSent, upToStack, hoForwarding, hoHolding, hoFromX2, x2Ctrl,
                     downSent, received, displaced>>
      /\ core' = [core EXCEPT ![c] = Tail(@)]
      /\ Forward(c, p) \/ Hold(c, p) \/ ToStackBs(c, p)
  BY DEF FromIpBs, handoverVars, ueVars
<1>2. /\ p \in 1 .. downSent /\ Tail(core[c]) \in Seq(1 .. downSent)
  BY ElementsLemma DEF TypeOK, FromIpBs
<1>3. core' \in [Cell -> Seq(1 .. downSent)]
  BY <1>1, <1>2 DEF TypeOK
<1>4. /\ x2Data' \in [Link -> Seq(1 .. downSent)] /\ hoFromIp' \in [Cell -> Seq(1 .. downSent)]
      /\ stack' \in [Cell -> Seq(1 .. downSent)] /\ lost' \subseteq 1 .. downSent
  <2>1. CASE Forward(c, p)
    <3>1. <<c, hoForwarding[c]>> \in Link
      BY <2>1 DEF Forward, TypeOK, Place, Link
    <3>2. Append(x2Data[<<c, hoForwarding[c]>>], p) \in Seq(1 .. downSent)
      BY <1>2, <3>1, AppendLemma DEF TypeOK
    <3> QED BY <2>1, <3>1, <3>2 DEF Forward, TypeOK
  <2>2. CASE Hold(c, p)
    <3>1. Append(hoFromIp[c], p) \in Seq(1 .. downSent)
      BY <1>2, AppendLemma DEF TypeOK
    <3> QED BY <2>2, <3>1 DEF Hold, TypeOK
  <2>3. CASE ToStackBs(c, p)
    <3>1. Append(stack[c], p) \in Seq(1 .. downSent)
      BY <1>2, AppendLemma DEF TypeOK
    <3> QED BY <1>2, <2>3, <3>1 DEF ToStackBs, TypeOK
  <2> QED BY <1>1, <2>1, <2>2, <2>3
<1> QED BY <1>1, <1>3, <1>4 DEF TypeOK

LEMMA DeliverTypeOK == ASSUME TypeOK, Deliver PROVE TypeOK'
<1>1. serving \in Cell /\ stack[serving] # <<>>
  BY DEF Deliver, TypeOK, Place
<1>2. /\ Head(stack[serving]) \in 1 .. downSent
      /\ Tail(stack[serving]) \in Seq(1 .. downSent)
  BY <1>1, ElementsLemma DEF TypeOK
<1>3. Append(received, Head(stack[serving])) \in Seq(1 .. downSent)
  BY <1>2, AppendLemma DEF TypeOK
<1>4. stack' \in [Cell -> Seq(1 .. downSent)] /\ received' \in Seq(1 .. downSent)
  BY <1>1, <1>2, <1>3 DEF Deliver, TypeOK
<1> QED BY <1>4 DEF Deliver, handoverVars, ueVars, netVars, TypeOK

LEMMA AirLossTypeOK == ASSUME TypeOK, NEW c \in Cell, AirLoss(c) PROVE TypeOK'
<1>1. /\ Head(stack[c]) \in 1 .. downSent /\ Tail(stack[c]) \in Seq(1 .. downSent)
  BY ElementsLemma DEF TypeOK, AirLoss
<1>2. stack' \in [Cell -> Seq(1 .. downSent)] /\ lost' \subseteq 1 .. downSent
  BY <1>1 DEF AirLoss, TypeOK
<1> QED BY <1>2 DEF AirLoss, handoverVars, ueVars, netVars, TypeOK

LEMMA FromIpUeTypeOK == ASSUME TypeOK, FromIpUe PROVE TypeOK'
<1> DEFINE p == upSent + 1
<1>1. /\ upSent \in Nat /\ upSent' = p /\ upSent' \in 0 .. UpMax
      /\ 1 .. upSent \subseteq 1 .. p /\ p \in 1 .. p
  BY BoundAssumption DEF FromIpUe, TypeOK
<1>2. ueHoldFromIp \in Seq(1 .. p) /\ upToStack \in Seq(1 .. p)
  BY <1>1, WidenLemma DEF TypeOK
<1>3. Append(ueHoldFromIp, p) \in Seq(1 .. p) /\ Append(upToStack, p) \in Seq(1 .. p)
  BY <1>1, <1>2, AppendLemma
<1>4. ueHoldFromIp' \in Seq(1 .. p) /\ upToStack' \in Seq(1 .. p)
  BY <1>2, <1>3 DEF FromIpUe
<1> QED BY <1>1, <1>4 DEF FromIpUe, handoverVars, cellVars, netVars, downVars, TypeOK

LEMMA NextTypeOK == TypeOK /\ [Next]_vars => TypeOK'
<1> SUFFICES ASSUME TypeOK, [Next]_vars PROVE TypeOK'
  OBVIOUS
<1>1. CASE UNCHANGED vars
  BY <1>1 DEF vars, handoverVars, ueVars, cellVars, netVars, downVars, TypeOK
<1>2. CASE Next
  BY <1>2, TriggerTypeOK, DoHandoverTypeOK, CommandTypeOK, PacketTypeOK, SendTypeOK,
     FromIpBsTypeOK, DeliverTypeOK, AirLossTypeOK, FromIpUeTypeOK DEF Next
<1> QED BY <1>1, <1>2

\* Every variable of the handover keeps to its type, for every set of cells and bounds.
THEOREM TypeCorrect == Spec => []TypeOK
  BY InitTypeOK, NextTypeOK, PTL DEF Spec

-----------------------------------------------------------------------------
(* The UE *)

\* The UE's IP2Nic is a handover ahead of the UE, as far as it cares: it knows whether
\* there is a cell, not always which one.
UeInv ==
    /\ target # serving
    /\ target = Idle => (ueMaster = NoCell <=> serving = NoCell)
    /\ target # Idle => ueMaster = target
    /\ UplinkHasNextHop

LEMMA InitUeInv == Init => UeInv
  BY CellAssumption DEF Init, UeInv, UplinkHasNextHop

LEMMA NextUeInv == TypeOK /\ UeInv /\ [Next]_vars => UeInv'
<1> SUFFICES ASSUME TypeOK, UeInv, [Next]_vars PROVE UeInv'
  OBVIOUS
<1> USE CellAssumption
<1>1. ASSUME NEW c \in Place, TriggerHandover(c) PROVE UeInv'
  <2>1. /\ target = Idle /\ c # serving /\ target' = c /\ serving' = serving /\ ueMaster' = c
        /\ ueHold' = (ueHold \/ c # NoCell) /\ ueHoldFromIp' = ueHoldFromIp
    BY <1>1 DEF TriggerHandover, TriggerHandoverUe, SC!Start
  <2>2. ~ueHold /\ ueHoldFromIp = <<>>
    BY <2>1 DEF UeInv, UplinkHasNextHop
  <2> QED BY <2>1, <2>2 DEF UeInv, UplinkHasNextHop, Place
<1>2. CASE DoHandover
  <2>1. target # Idle /\ serving' = target /\ target' = Idle /\ SignalHandoverCompleteUe
    BY <1>2 DEF DoHandover, SC!Complete
  <2>2. ueMaster = target /\ ueMaster' = target /\ target \in Place
    BY <2>1 DEF UeInv, SignalHandoverCompleteUe, TypeOK
  <2>3. CASE target = NoCell
    BY <2>1, <2>2, <2>3 DEF UeInv, UplinkHasNextHop, SignalHandoverCompleteUe
  <2>4. CASE target \in Cell
    BY <2>1, <2>2, <2>4 DEF UeInv, UplinkHasNextHop, SignalHandoverCompleteUe
  <2> QED BY <2>2, <2>3, <2>4 DEF Place
<1>3. CASE FromIpUe
  BY <1>3 DEF FromIpUe, handoverVars, UeInv, UplinkHasNextHop
<1>4. ASSUME UNCHANGED <<handoverVars, ueVars>> PROVE UeInv'
  BY <1>4 DEF handoverVars, ueVars, UeInv, UplinkHasNextHop
<1>5. ASSUME NEW s \in Cell, NEW t \in Cell,
             ReceiveHandoverCommand(s, t) \/ ReceiveTunneledPacket(s, t)
      PROVE  UeInv'
  BY <1>4, <1>5 DEF ReceiveHandoverCommand, ReceiveTunneledPacket
<1>6. CASE GatewaySend \/ Deliver
  BY <1>4, <1>6 DEF GatewaySend, Deliver
<1>7. ASSUME NEW c \in Cell, FromIpBs(c) \/ AirLoss(c) PROVE UeInv'
  BY <1>4, <1>7 DEF FromIpBs, AirLoss
<1>8. CASE UNCHANGED vars
  BY <1>4, <1>8 DEF vars
<1> QED BY <1>1, <1>2, <1>3, <1>5, <1>6, <1>7, <1>8 DEF Next

\* A packet that is handed down by the UE has a next hop, and the UE holds exactly
\* while it attaches or hands over.
THEOREM AlwaysUplinkHasNextHop == Spec => []UplinkHasNextHop
<1>1. UeInv => UplinkHasNextHop
  BY DEF UeInv
<1>2. Init => TypeOK /\ UeInv
  BY InitTypeOK, InitUeInv
<1>3. TypeOK /\ UeInv /\ [Next]_vars => (TypeOK /\ UeInv)'
  BY NextTypeOK, NextUeInv
<1> QED BY <1>1, <1>2, <1>3, PTL DEF Spec

LEMMA InitUplinkInOrder == Init => UplinkInOrder
<1> SUFFICES ASSUME Init PROVE UplinkInOrder
  OBVIOUS
<1>1. upToStack \o ueHoldFromIp = <<>>
  BY DEF Init
<1> QED BY <1>1 DEF UplinkInOrder, Increasing

LEMMA NextUplinkInOrder ==
  TypeOK /\ UeInv /\ UplinkInOrder /\ [Next]_vars => UplinkInOrder'
<1> SUFFICES ASSUME TypeOK, UeInv, UplinkInOrder, [Next]_vars PROVE UplinkInOrder'
  OBVIOUS
<1> DEFINE n == upSent
<1>0. /\ n \in Nat /\ ueHoldFromIp \in Seq(1 .. n) /\ upToStack \in Seq(1 .. n)
      /\ upToStack \o ueHoldFromIp \in Seq(1 .. n)
  <2>1. n \in Nat /\ ueHoldFromIp \in Seq(1 .. n) /\ upToStack \in Seq(1 .. n)
    BY DEF TypeOK
  <2> QED BY <2>1, ConcatLemma
<1>1. CASE UNCHANGED <<upToStack, ueHoldFromIp>>
  BY <1>1 DEF UplinkInOrder
<1>2. CASE DoHandover
  <2>1. CASE ueMaster # NoCell
    <3>1. upToStack' = upToStack \o ueHoldFromIp /\ ueHoldFromIp' = <<>>
      BY <1>2, <2>1 DEF DoHandover, SignalHandoverCompleteUe
    <3>2. upToStack' \o ueHoldFromIp' = upToStack \o ueHoldFromIp
      BY <1>0, <3>1, ConcatAppendLemma
    <3> QED BY <3>2 DEF UplinkInOrder
  <2>2. CASE ueMaster = NoCell
    BY <1>1, <1>2, <2>2 DEF DoHandover, SignalHandoverCompleteUe
  <2> QED BY <2>1, <2>2
<1>3. CASE FromIpUe
  <2>1. Increasing(Append(upToStack \o ueHoldFromIp, n + 1))
    BY <1>0, IncreasingLemma DEF UplinkInOrder
  <2>2. CASE ueHold /\ ueHoldFromIp' = Append(ueHoldFromIp, n + 1) /\ UNCHANGED upToStack
    <3>1. /\ n + 1 \in Nat
          /\ upToStack \in Seq(Nat) /\ ueHoldFromIp \in Seq(Nat)
      BY <1>0, WidenLemma
    <3>2. upToStack' \o ueHoldFromIp' = Append(upToStack \o ueHoldFromIp, n + 1)
      BY <2>2, <3>1, ConcatAppendLemma
    <3> QED BY <2>1, <3>2 DEF UplinkInOrder
  <2>3. CASE ~ueHold /\ upToStack' = Append(upToStack, n + 1) /\ UNCHANGED ueHoldFromIp
    <3>1. ueHoldFromIp = <<>>
      BY <2>3 DEF UeInv, UplinkHasNextHop
    <3>2. /\ n + 1 \in Nat /\ upToStack \in Seq(Nat)
      BY <1>0, WidenLemma
    <3>3. upToStack \o ueHoldFromIp = upToStack
      BY <3>1, <3>2, ConcatAppendLemma
    <3>4. Append(upToStack, n + 1) \in Seq(Nat)
      BY <3>2, AppendLemma
    <3>5. upToStack' \o ueHoldFromIp' = Append(upToStack, n + 1)
      BY <2>3, <3>1, <3>4, ConcatAppendLemma
    <3> QED BY <2>1, <3>3, <3>5 DEF UplinkInOrder
  <2> QED BY <1>1, <1>3, <2>2, <2>3 DEF FromIpUe
<1>4. ASSUME NEW c \in Place, TriggerHandover(c) PROVE UplinkInOrder'
  BY <1>1, <1>4 DEF TriggerHandover, TriggerHandoverUe
<1>5. ASSUME NEW s \in Cell, NEW t \in Cell,
             ReceiveHandoverCommand(s, t) \/ ReceiveTunneledPacket(s, t)
      PROVE  UplinkInOrder'
  BY <1>1, <1>5 DEF ReceiveHandoverCommand, ReceiveTunneledPacket, ueVars
<1>6. CASE GatewaySend \/ Deliver
  BY <1>1, <1>6 DEF GatewaySend, Deliver, ueVars
<1>7. ASSUME NEW c \in Cell, FromIpBs(c) \/ AirLoss(c) PROVE UplinkInOrder'
  BY <1>1, <1>7 DEF FromIpBs, AirLoss, ueVars
<1>8. CASE UNCHANGED vars
  BY <1>1, <1>8 DEF vars, ueVars
<1> QED BY <1>2, <1>3, <1>4, <1>5, <1>6, <1>7, <1>8 DEF Next

\* The packets of the UE leave its IP2Nic in the order in which they were sent, and
\* each once, whatever was held.
THEOREM AlwaysUplinkInOrder == Spec => []UplinkInOrder
<1> DEFINE I == TypeOK /\ UeInv /\ UplinkInOrder
<1>1. I => UplinkInOrder
  OBVIOUS
<1>2. Init => I
  BY InitTypeOK, InitUeInv, InitUplinkInOrder
<1>3. I /\ [Next]_vars => I'
  BY NextTypeOK, NextUeInv, NextUplinkInOrder
<1> HIDE DEF I
<1> QED BY <1>1, <1>2, <1>3, PTL DEF Spec

-----------------------------------------------------------------------------
(* The control plane *)

\* What a command under way over X2 says about the handover it belongs to.
CommandInv ==
    x2InTime => \A s, t \in Cell :
        /\ "start" \in Elements(x2Ctrl[<<s, t>>]) => UnderWay(s, t)
        /\ "complete" \in Elements(x2Ctrl[<<s, t>>]) => serving = s /\ target = Idle /\ s # t

ControlInv == CommandInv /\ ForwardingMatchesHandover /\ HoldingMatchesHandover

LEMMA InitControlInv == Init => ControlInv
<1> SUFFICES ASSUME Init PROVE ControlInv
  OBVIOUS
<1>1. \A s, t \in Cell : <<s, t>> \in Link
  BY DEF Link
<1>2. \A s, t \in Cell : Elements(x2Ctrl[<<s, t>>]) = {}
  <2>1. \A s, t \in Cell : x2Ctrl[<<s, t>>] = <<>>
    BY <1>1 DEF Init
  <2> QED BY <2>1, EmptyLemma
<1>3. CommandInv
  BY <1>2 DEF CommandInv
<1>4. ForwardingMatchesHandover
  BY CellAssumption DEF Init, ForwardingMatchesHandover, UnderWay
<1>5. HoldingMatchesHandover
  BY DEF Init, HoldingMatchesHandover
<1> QED BY <1>3, <1>4, <1>5 DEF ControlInv

LEMMA ControlUnchanged ==
  ASSUME ControlInv,
         UNCHANGED <<serving, target, x2InTime, x2Ctrl, hoForwarding, hoHolding, hoFromIp>>
  PROVE  ControlInv'
  BY DEF ControlInv, CommandInv, ForwardingMatchesHandover, HoldingMatchesHandover, UnderWay

\* When the commands have arrived and no handover is under way, nobody forwards or holds.
LEMMA QuietLemma ==
  ASSUME TypeOK, ControlInv, CommandsHaveArrived, x2InTime
  PROVE  /\ \A s, t \in Cell : x2Ctrl[<<s, t>>] = <<>> /\ Elements(x2Ctrl[<<s, t>>]) = {}
         /\ \A c, t \in Cell : hoForwarding[c] = t => UnderWay(c, t)
<1>1. \A s, t \in Cell : <<s, t>> \in Link
  BY DEF Link
<1>2. \A s, t \in Cell : x2Ctrl[<<s, t>>] = <<>>
  BY <1>1 DEF CommandsHaveArrived
<1>3. \A s, t \in Cell : Elements(x2Ctrl[<<s, t>>]) = {}
  BY <1>2, EmptyLemma
<1> QED BY <1>2, <1>3 DEF ControlInv, ForwardingMatchesHandover

\* A command sent on an empty link is the only one.
LEMMA SendCommandLemma ==
  ASSUME TypeOK, NEW s \in Cell, NEW t \in Cell, NEW command \in {"start", "complete"},
         SendCommand(s, t, command), \A a, b \in Cell : Elements(x2Ctrl[<<a, b>>]) = {}
  PROVE  \A a, b \in Cell : Elements(x2Ctrl'[<<a, b>>]) =
             IF a = s /\ b = t THEN {command} ELSE {}
<1>1. \A a, b \in Cell : <<a, b>> \in Link
  BY DEF Link
<1>2. x2Ctrl[<<s, t>>] \in Seq({"start", "complete"})
  BY <1>1 DEF TypeOK
<1>3. Elements(Append(x2Ctrl[<<s, t>>], command)) = {command}
  BY <1>2, AppendLemma
<1>4. x2Ctrl'[<<s, t>>] = Append(x2Ctrl[<<s, t>>], command)
  BY <1>1 DEF SendCommand, TypeOK
<1>5. \A a, b \in Cell : ~(a = s /\ b = t) => x2Ctrl'[<<a, b>>] = x2Ctrl[<<a, b>>]
  BY <1>1 DEF SendCommand, TypeOK
<1> QED BY <1>3, <1>4, <1>5

LEMMA TriggerControlInv ==
  ASSUME TypeOK, UeInv, ControlInv, NEW c \in Place, TriggerHandover(c)
  PROVE  ControlInv'
<1> USE CellAssumption
<1>1. /\ target = Idle /\ c # serving /\ target' = c /\ serving' = serving
      /\ x2InTime' = x2InTime /\ hoHolding' = hoHolding /\ hoFromIp' = hoFromIp
      /\ CommandsHaveArrived
  BY DEF TriggerHandover, SC!Start
<1>2. HoldingMatchesHandover'
  BY <1>1 DEF ControlInv, HoldingMatchesHandover, TypeOK
<1>3. ASSUME ~x2InTime PROVE CommandInv' /\ ForwardingMatchesHandover'
  BY <1>1, <1>3 DEF CommandInv, ForwardingMatchesHandover
<1>4. ASSUME x2InTime PROVE CommandInv' /\ ForwardingMatchesHandover'
  <2>1. /\ \A s, t \in Cell : Elements(x2Ctrl[<<s, t>>]) = {}
        /\ \A x, t \in Cell : hoForwarding[x] # t
    BY <1>1, <1>4, QuietLemma DEF UnderWay
  <2>2. CASE serving # NoCell /\ c # NoCell
    <3>1. serving \in Cell /\ c \in Cell
      BY <2>2 DEF TypeOK, Place
    <3>2. hoForwarding' = [hoForwarding EXCEPT ![serving] = c] /\ SendCommand(serving, c, "start")
      BY <2>2 DEF TriggerHandover, TriggerHandoverSource
    <3>3. \A a, b \in Cell : Elements(x2Ctrl'[<<a, b>>]) =
              IF a = serving /\ b = c THEN {"start"} ELSE {}
      <4>1. SendCommand(serving, c, "start") /\ "start" \in {"start", "complete"}
        BY <3>2
      <4>2. \A s, t \in Cell : Elements(x2Ctrl[<<s, t>>]) = {}
        BY <2>1
      <4> HIDE <2>1, <3>2
      <4> QED BY <3>1, <4>1, <4>2, SendCommandLemma
    <3>4. CommandInv'
      BY <1>1, <3>3 DEF CommandInv, UnderWay
    <3>5. ForwardingMatchesHandover'
      BY <1>1, <2>1, <3>1, <3>2 DEF ForwardingMatchesHandover, UnderWay, TypeOK
    <3> QED BY <3>4, <3>5
  <2>3. CASE ~(serving # NoCell /\ c # NoCell)
    <3>1. UNCHANGED <<hoForwarding, x2Ctrl>>
      BY <2>3 DEF TriggerHandover
    <3>2. CommandInv'
      BY <2>1, <3>1 DEF CommandInv
    <3>3. ForwardingMatchesHandover'
      BY <1>1, <2>1, <2>3, <3>1 DEF ForwardingMatchesHandover, UnderWay
    <3> QED BY <3>2, <3>3
  <2> QED BY <2>2, <2>3
<1> QED BY <1>2, <1>3, <1>4 DEF ControlInv

LEMMA DoHandoverControlInv ==
  ASSUME TypeOK, UeInv, ControlInv, DoHandover
  PROVE  ControlInv'
<1> USE CellAssumption
<1>1. /\ target # Idle /\ target \in Place /\ serving' = target /\ target' = Idle
      /\ x2InTime' = x2InTime /\ hoForwarding' = hoForwarding /\ CommandsHaveArrived
      /\ target # serving
  BY DEF DoHandover, SC!Complete, TypeOK, UeInv
<1>2. CASE serving # NoCell /\ target # NoCell
  <2>1. serving \in Cell /\ target \in Cell
    BY <1>1, <1>2 DEF TypeOK, Place
  <2>2. /\ SendCommand(target, serving, "complete")
        /\ hoHolding' = hoHolding \ {target}
        /\ hoFromIp' = [hoFromIp EXCEPT ![target] = <<>>]
    BY <1>2 DEF DoHandover, SignalHandoverCompleteTarget
  <2>3. HoldingMatchesHandover'
    <3>1. x2InTime => hoHolding' = {}
      BY <2>2 DEF ControlInv, HoldingMatchesHandover
    <3>2. \A c \in Cell : hoFromIp'[c] # <<>> => c \in hoHolding'
      BY <2>2 DEF ControlInv, HoldingMatchesHandover, TypeOK
    <3> QED BY <1>1, <3>1, <3>2 DEF HoldingMatchesHandover
  <2>4. ASSUME x2InTime PROVE CommandInv' /\ ForwardingMatchesHandover'
    <3>1. /\ \A s, t \in Cell : Elements(x2Ctrl[<<s, t>>]) = {}
          /\ \A c, t \in Cell : hoForwarding[c] = t => UnderWay(c, t)
      BY <1>1, <2>4, QuietLemma
    <3>2. \A a, b \in Cell : Elements(x2Ctrl'[<<a, b>>]) =
              IF a = target /\ b = serving THEN {"complete"} ELSE {}
      BY <2>1, <2>2, <3>1, SendCommandLemma
    <3>3. CommandInv'
      <4>1. \A a, b \in Cell :
                /\ "start" \notin Elements(x2Ctrl'[<<a, b>>])
                /\ "complete" \in Elements(x2Ctrl'[<<a, b>>]) => a = target /\ b = serving
        BY <3>2
      <4> QED BY <1>1, <4>1 DEF CommandInv
    <3>4. ForwardingMatchesHandover'
      BY <1>1, <2>1, <3>1, <3>2 DEF ForwardingMatchesHandover, UnderWay
    <3> QED BY <3>3, <3>4
  <2>5. ASSUME ~x2InTime PROVE CommandInv' /\ ForwardingMatchesHandover'
    BY <1>1, <2>5 DEF CommandInv, ForwardingMatchesHandover
  <2> QED BY <2>3, <2>4, <2>5 DEF ControlInv
<1>3. CASE ~(serving # NoCell /\ target # NoCell)
  <2>1. UNCHANGED <<hoHolding, hoFromIp, x2Ctrl>>
    BY <1>3 DEF DoHandover
  <2>2. HoldingMatchesHandover'
    BY <1>1, <1>3, <2>1 DEF ControlInv, HoldingMatchesHandover, TypeOK, Place
  <2>3. ASSUME x2InTime PROVE CommandInv' /\ ForwardingMatchesHandover'
    <3>1. /\ \A s, t \in Cell : Elements(x2Ctrl[<<s, t>>]) = {}
          /\ \A c, t \in Cell : hoForwarding[c] = t => UnderWay(c, t)
      BY <1>1, <2>3, QuietLemma
    <3>2. \A c, t \in Cell : hoForwarding[c] # t
      BY <1>3, <3>1 DEF UnderWay
    <3>3. CommandInv'
      BY <2>1, <3>1 DEF CommandInv
    <3>4. ForwardingMatchesHandover'
      BY <1>1, <3>2 DEF ForwardingMatchesHandover, UnderWay
    <3> QED BY <3>3, <3>4
  <2>4. ASSUME ~x2InTime PROVE CommandInv' /\ ForwardingMatchesHandover'
    BY <1>1, <2>4 DEF CommandInv, ForwardingMatchesHandover
  <2> QED BY <2>2, <2>3, <2>4 DEF ControlInv
<1> QED BY <1>2, <1>3

LEMMA CommandControlInv ==
  ASSUME TypeOK, ControlInv, NEW s \in Cell, NEW t \in Cell, ReceiveHandoverCommand(s, t)
  PROVE  ControlInv'
<1> USE CellAssumption
<1> DEFINE command == Head(x2Ctrl[<<s, t>>])
<1>1. /\ UNCHANGED <<serving, target, x2InTime, hoFromIp>>
      /\ x2Ctrl' = [x2Ctrl EXCEPT ![<<s, t>>] = Tail(@)] /\ x2Ctrl[<<s, t>>] # <<>>
  BY DEF ReceiveHandoverCommand, handoverVars
<1>2. \A a, b \in Cell : <<a, b>> \in Link /\ (<<a, b>> = <<s, t>> <=> a = s /\ b = t)
  BY DEF Link
<1>3. /\ command \in {"start", "complete"}
      /\ Elements(x2Ctrl[<<s, t>>]) = {command} \cup Elements(x2Ctrl'[<<s, t>>])
  <2>1. x2Ctrl[<<s, t>>] \in Seq({"start", "complete"}) /\ x2Ctrl'[<<s, t>>] = Tail(x2Ctrl[<<s, t>>])
    BY <1>1, <1>2 DEF TypeOK
  <2>2. Elements(x2Ctrl'[<<s, t>>]) = Elements(Tail(x2Ctrl[<<s, t>>]))
    BY <2>1
  <2> QED BY <1>1, <2>1, <2>2, ElementsLemma
<1>4. \A a, b \in Cell : ~(a = s /\ b = t) => Elements(x2Ctrl'[<<a, b>>]) = Elements(x2Ctrl[<<a, b>>])
  <2>1. \A a, b \in Cell : ~(a = s /\ b = t) => x2Ctrl'[<<a, b>>] = x2Ctrl[<<a, b>>]
    BY <1>1, <1>2 DEF TypeOK
  <2> QED BY <2>1
<1>5. CommandInv'
  <2>1. \A a, b \in Cell : Elements(x2Ctrl'[<<a, b>>]) \subseteq Elements(x2Ctrl[<<a, b>>])
    BY <1>3, <1>4
  <2>2. UNCHANGED <<serving, target, x2InTime>>
    BY <1>1
  <2> QED BY <2>1, <2>2 DEF ControlInv, CommandInv, UnderWay
<1>6. CASE command = "start"
  <2>1. hoHolding' = hoHolding \cup {t} /\ hoForwarding' = hoForwarding
    BY <1>6 DEF ReceiveHandoverCommand
  <2>2. x2InTime => UnderWay(s, t)
    BY <1>3, <1>6 DEF ControlInv, CommandInv
  <2>3. HoldingMatchesHandover'
    BY <1>1, <2>1, <2>2 DEF ControlInv, HoldingMatchesHandover, UnderWay
  <2>4. \A a, b \in Cell : "complete" \in Elements(x2Ctrl[<<a, b>>]) =>
            "complete" \in Elements(x2Ctrl'[<<a, b>>])
    BY <1>3, <1>4, <1>6
  <2>5. ForwardingMatchesHandover'
    BY <1>1, <2>1, <2>4 DEF ControlInv, ForwardingMatchesHandover, UnderWay
  <2> QED BY <1>5, <2>3, <2>5 DEF ControlInv
<1>7. CASE command = "complete"
  <2>1. hoForwarding' = [hoForwarding EXCEPT ![t] = NoCell] /\ hoHolding' = hoHolding
    BY <1>7 DEF ReceiveHandoverCommand
  <2>2. x2InTime => target = Idle
    BY <1>3, <1>7 DEF ControlInv, CommandInv
  <2>3. HoldingMatchesHandover'
    BY <1>1, <2>1 DEF ControlInv, HoldingMatchesHandover
  <2>4. ForwardingMatchesHandover'
    <3> SUFFICES ASSUME x2InTime
                 PROVE  /\ \A c, u \in Cell : hoForwarding'[c] = u =>
                              UnderWay(c, u)' \/ "complete" \in Elements(x2Ctrl'[<<u, c>>])
                        /\ \A c, u \in Cell : ~UnderWay(c, u)'
      BY <1>1 DEF ForwardingMatchesHandover
    <3>1. \A c, u \in Cell : ~UnderWay(c, u) /\ ~UnderWay(c, u)'
      BY <1>1, <2>2 DEF UnderWay
    <3>2. ASSUME NEW c \in Cell, NEW u \in Cell, hoForwarding'[c] = u
          PROVE  "complete" \in Elements(x2Ctrl'[<<u, c>>])
      <4>1. c # t /\ hoForwarding[c] = u
        BY <2>1, <3>2 DEF TypeOK
      <4>2. "complete" \in Elements(x2Ctrl[<<u, c>>])
        BY <3>1, <4>1 DEF ControlInv, ForwardingMatchesHandover
      <4> QED BY <1>4, <4>1, <4>2
    <3> QED BY <3>1, <3>2
  <2> QED BY <1>5, <2>3, <2>4 DEF ControlInv
<1> QED BY <1>3, <1>6, <1>7

LEMMA NextControlInv == TypeOK /\ UeInv /\ ControlInv /\ [Next]_vars => ControlInv'
<1> SUFFICES ASSUME TypeOK, UeInv, ControlInv, [Next]_vars PROVE ControlInv'
  OBVIOUS
<1>1. ASSUME NEW s \in Cell, NEW t \in Cell, ReceiveTunneledPacket(s, t) PROVE ControlInv'
  BY <1>1, ControlUnchanged DEF ReceiveTunneledPacket, handoverVars
<1>2. CASE GatewaySend
  BY <1>2, ControlUnchanged DEF GatewaySend, handoverVars, cellVars
<1>3. ASSUME NEW c \in Cell, FromIpBs(c) PROVE ControlInv'
  <2>1. UNCHANGED <<serving, target, x2InTime, x2Ctrl, hoForwarding, hoHolding>>
    BY <1>3 DEF FromIpBs, handoverVars
  <2>2. CASE UNCHANGED hoFromIp
    BY <2>1, <2>2, ControlUnchanged
  <2>3. CASE c \in hoHolding /\ hoFromIp' = [hoFromIp EXCEPT ![c] = Append(@, Head(core[c]))]
    <3>1. \A d \in Cell : hoFromIp'[d] # <<>> => d \in hoHolding'
      BY <2>1, <2>3 DEF ControlInv, HoldingMatchesHandover, TypeOK
    <3> QED
      BY <2>1, <3>1
      DEF ControlInv, CommandInv, ForwardingMatchesHandover, HoldingMatchesHandover, UnderWay
  <2> QED BY <1>3, <2>2, <2>3 DEF FromIpBs, Forward, Hold, ToStackBs
<1>4. ASSUME NEW c \in Cell, AirLoss(c) PROVE ControlInv'
  BY <1>4, ControlUnchanged DEF AirLoss, handoverVars, netVars
<1>5. CASE Deliver
  BY <1>5, ControlUnchanged DEF Deliver, handoverVars, netVars
<1>6. CASE FromIpUe
  BY <1>6, ControlUnchanged DEF FromIpUe, handoverVars, cellVars, netVars
<1>7. CASE UNCHANGED vars
  BY <1>7, ControlUnchanged DEF vars, handoverVars, cellVars, netVars
<1> QED
  BY <1>1, <1>2, <1>3, <1>4, <1>5, <1>6, <1>7, TriggerControlInv, DoHandoverControlInv,
     CommandControlInv DEF Next

-----------------------------------------------------------------------------
(* The packets that stay behind *)

\* In a tunnel that is not that of the handover under way, and in the core on the way to
\* a cell that does not serve the UE, there are displaced packets only.
TunnelInv ==
    x2InTime =>
        /\ \A s, t \in Cell : ~UnderWay(s, t) => Elements(x2Data[<<s, t>>]) \subseteq displaced
        /\ \A c \in Cell : c # serving => Elements(core[c]) \subseteq displaced

BehindInv == TunnelInv /\ OnlyDisplacedStayBehind

LEMMA InitBehindInv == Init => BehindInv
<1> SUFFICES ASSUME Init PROVE BehindInv
  OBVIOUS
<1>1. /\ \A s, t \in Cell : x2Data[<<s, t>>] = <<>>
      /\ \A c \in Cell : core[c] = <<>> /\ hoFromX2[c] = <<>> /\ hoFromIp[c] = <<>>
  BY DEF Init, Link
<1> QED BY <1>1, EmptyLemma DEF BehindInv, TunnelInv, OnlyDisplacedStayBehind

LEMMA BehindUnchanged ==
  ASSUME BehindInv,
         UNCHANGED <<serving, target, x2InTime, x2Data, core, hoFromX2, hoFromIp, displaced>>
  PROVE  BehindInv'
  BY DEF BehindInv, TunnelInv, OnlyDisplacedStayBehind, UnderWay

LEMMA TriggerBehindInv ==
  ASSUME BehindInv, NEW c \in Place, TriggerHandover(c)
  PROVE  BehindInv'
<1>1. /\ target = Idle /\ serving' = serving
      /\ UNCHANGED <<x2InTime, x2Data, core, hoFromX2, hoFromIp, displaced>>
  BY DEF TriggerHandover, SC!Start, downVars
<1>2. \A s, t \in Cell : ~UnderWay(s, t) /\ ~(target = t /\ serving \in Cell)
  BY <1>1, CellAssumption DEF UnderWay
<1> QED BY <1>1, <1>2 DEF BehindInv, TunnelInv, OnlyDisplacedStayBehind

LEMMA DoHandoverBehindInv == ASSUME TypeOK, BehindInv, DoHandover PROVE BehindInv'
<1>1. /\ serving' = target /\ target' = Idle
      /\ UNCHANGED <<x2InTime, x2Data, core, downSent>>
      /\ displaced' = displaced \cup InTunnels
  BY DEF DoHandover, SC!Complete
<1>2. TunnelInv'
  <2>1. \A s, t \in Cell : Elements(x2Data[<<s, t>>]) \subseteq InTunnels
    <3>1. \A s, t \in Cell : <<s, t>> \in Link
      BY DEF Link
    <3>2. \A s, t \in Cell : Elements(x2Data[<<s, t>>]) \subseteq 1 .. downSent
      BY <3>1, ElementsLemma DEF TypeOK
    <3> QED BY <3>1, <3>2 DEF InTunnels
  <2>2. \A c \in Cell : Elements(core[c]) \subseteq InTunnels
    <3>1. \A c \in Cell : Elements(core[c]) \subseteq 1 .. downSent
      BY ElementsLemma DEF TypeOK
    <3> QED BY <3>1 DEF InTunnels
  <2> QED BY <1>1, <2>1, <2>2 DEF TunnelInv
<1>3. OnlyDisplacedStayBehind'
  <2> SUFFICES ASSUME x2InTime, NEW c \in Cell
               PROVE  Elements(hoFromX2'[c]) \cup Elements(hoFromIp'[c]) \subseteq displaced'
    BY <1>1 DEF OnlyDisplacedStayBehind
  <2>1. CASE target = c /\ serving \in Cell
    <3>1. SignalHandoverCompleteTarget
      BY <2>1, CellAssumption DEF DoHandover
    <3>2. hoFromX2'[c] = <<>> /\ hoFromIp'[c] = <<>>
      BY <2>1, <3>1 DEF SignalHandoverCompleteTarget, TypeOK
    <3> QED BY <3>2, EmptyLemma
  <2>2. CASE ~(target = c /\ serving \in Cell)
    <3>1. Elements(hoFromX2[c]) \cup Elements(hoFromIp[c]) \subseteq displaced
      BY <2>2 DEF BehindInv, OnlyDisplacedStayBehind
    <3>2. hoFromX2'[c] = hoFromX2[c] /\ hoFromIp'[c] = hoFromIp[c]
      <4>1. CASE serving # NoCell /\ target # NoCell
        <5>1. target # c
          BY <2>2, <4>1 DEF TypeOK, Place
        <5> QED BY <4>1, <5>1 DEF DoHandover, SignalHandoverCompleteTarget, TypeOK
      <4>2. CASE ~(serving # NoCell /\ target # NoCell)
        BY <4>2 DEF DoHandover
      <4> QED BY <4>1, <4>2
    <3> QED BY <1>1, <3>1, <3>2
  <2> QED BY <2>1, <2>2
<1> QED BY <1>2, <1>3 DEF BehindInv

LEMMA PacketBehindInv ==
  ASSUME TypeOK, BehindInv, NEW s \in Cell, NEW t \in Cell, ReceiveTunneledPacket(s, t)
  PROVE  BehindInv'
<1> DEFINE p == Head(x2Data[<<s, t>>])
<1>1. /\ UNCHANGED <<serving, target, x2InTime, core, hoFromIp, displaced>>
      /\ x2Data' = [x2Data EXCEPT ![<<s, t>>] = Tail(@)] /\ x2Data[<<s, t>>] # <<>>
      /\ hoFromX2' = [hoFromX2 EXCEPT ![t] = Append(@, p)]
  BY DEF ReceiveTunneledPacket, handoverVars, downVars
<1>2. \A a, b \in Cell : <<a, b>> \in Link /\ (<<a, b>> = <<s, t>> <=> a = s /\ b = t)
  BY DEF Link
<1>3. x2Data[<<s, t>>] \in Seq(1 .. downSent) /\ hoFromX2[t] \in Seq(1 .. downSent)
  BY <1>2 DEF TypeOK
<1>4. /\ p \in 1 .. downSent
      /\ Elements(x2Data[<<s, t>>]) = {p} \cup Elements(Tail(x2Data[<<s, t>>]))
  BY <1>1, <1>3, ElementsLemma
<1>5. Elements(Append(hoFromX2[t], p)) = Elements(hoFromX2[t]) \cup {p}
  <2> DEFINE S == 1 .. downSent
             q == hoFromX2[t]
  <2>1. p \in S /\ q \in Seq(S)
    BY <1>3, <1>4
  <2> HIDE DEF p, S, q
  <2>2. Elements(Append(q, p)) = Elements(q) \cup {p}
    BY <2>1, AppendLemma
  <2> QED BY <2>2 DEF q
<1>6. \A a, b \in Cell : Elements(x2Data'[<<a, b>>]) \subseteq Elements(x2Data[<<a, b>>])
  <2> SUFFICES ASSUME NEW a \in Cell, NEW b \in Cell
               PROVE  Elements(x2Data'[<<a, b>>]) \subseteq Elements(x2Data[<<a, b>>])
    OBVIOUS
  <2>1. CASE a = s /\ b = t
    <3>1. x2Data'[<<a, b>>] = Tail(x2Data[<<s, t>>])
      BY <1>1, <1>2, <2>1 DEF TypeOK
    <3> QED BY <1>4, <2>1, <3>1
  <2>2. CASE ~(a = s /\ b = t)
    <3>1. x2Data'[<<a, b>>] = x2Data[<<a, b>>]
      BY <1>1, <1>2, <2>2 DEF TypeOK
    <3> QED BY <3>1
  <2> QED BY <2>1, <2>2
<1>7. TunnelInv'
  BY <1>1, <1>6 DEF BehindInv, TunnelInv, UnderWay
<1>8. OnlyDisplacedStayBehind'
  <2> SUFFICES ASSUME x2InTime, NEW c \in Cell, ~(target = c /\ serving \in Cell)
               PROVE  Elements(hoFromX2'[c]) \cup Elements(hoFromIp[c]) \subseteq displaced
    BY <1>1 DEF OnlyDisplacedStayBehind
  <2>1. Elements(hoFromX2[c]) \cup Elements(hoFromIp[c]) \subseteq displaced
    BY DEF BehindInv, OnlyDisplacedStayBehind
  <2>2. CASE c = t
    <3>1. p \in displaced
      BY <1>4, <2>2 DEF BehindInv, TunnelInv, UnderWay
    <3>2. hoFromX2'[c] = Append(hoFromX2[t], p)
      BY <1>1, <2>2 DEF TypeOK
    <3> QED BY <1>5, <2>1, <2>2, <3>1, <3>2
  <2>3. CASE c # t
    <3>1. hoFromX2'[c] = hoFromX2[c]
      BY <1>1, <2>3 DEF TypeOK
    <3> QED BY <2>1, <3>1
  <2> QED BY <2>2, <2>3
<1> QED BY <1>7, <1>8 DEF BehindInv

LEMMA SendBehindInv == ASSUME TypeOK, BehindInv, GatewaySend PROVE BehindInv'
<1>1. UNCHANGED <<serving, target, x2InTime, x2Data, hoFromX2, hoFromIp, displaced>>
  BY DEF GatewaySend, handoverVars, cellVars
<1>2. \A c \in Cell : c # serving => core'[c] = core[c]
  BY DEF GatewaySend, TypeOK
<1> QED BY <1>1, <1>2 DEF BehindInv, TunnelInv, OnlyDisplacedStayBehind, UnderWay

LEMMA FromIpBsBehindInv ==
  ASSUME TypeOK, ControlInv, BehindInv, NEW c \in Cell, FromIpBs(c)
  PROVE  BehindInv'
<1> DEFINE p == Head(core[c])
<1>1. /\ UNCHANGED <<serving, target, x2InTime, hoFromX2, displaced>>
      /\ core' = [core EXCEPT ![c] = Tail(@)] /\ core[c] # <<>>
      /\ Forward(c, p) \/ Hold(c, p) \/ ToStackBs(c, p)
  BY DEF FromIpBs, handoverVars
<1>2. core[c] \in Seq(1 .. downSent)
  BY DEF TypeOK
<1>3. p \in 1 .. downSent /\ Elements(core[c]) = {p} \cup Elements(Tail(core[c]))
  <2> DEFINE S == 1 .. downSent
             q == core[c]
  <2>1. q # <<>> /\ q \in Seq(S)
    BY <1>1, <1>2
  <2> HIDE DEF S, q
  <2>2. Head(q) \in S /\ Elements(q) = {Head(q)} \cup Elements(Tail(q))
    BY <2>1, ElementsLemma
  <2> QED BY <2>2 DEF S, q
<1>4. \A d \in Cell : Elements(core'[d]) \subseteq Elements(core[d])
  <2> SUFFICES ASSUME NEW d \in Cell PROVE Elements(core'[d]) \subseteq Elements(core[d])
    OBVIOUS
  <2>1. CASE d = c
    <3>1. core'[d] = Tail(core[c])
      BY <1>1, <2>1 DEF TypeOK
    <3> QED BY <1>3, <2>1, <3>1
  <2>2. CASE d # c
    <3>1. core'[d] = core[d]
      BY <1>1, <2>2 DEF TypeOK
    <3> QED BY <3>1
  <2> QED BY <2>1, <2>2
<1>5. CASE Forward(c, p)
  <2> DEFINE t == hoForwarding[c]
  <2>1. /\ t \in Cell /\ UNCHANGED hoFromIp
        /\ x2Data' = [x2Data EXCEPT ![<<c, t>>] = Append(@, p)]
    BY <1>5 DEF Forward, TypeOK, Place
  <2>2. \A a, b \in Cell : <<a, b>> \in Link /\ (<<a, b>> = <<c, t>> <=> a = c /\ b = t)
    BY <2>1 DEF Link
  <2>3. ASSUME x2InTime, ~UnderWay(c, t)
        PROVE  p \in displaced
    <3>1. "complete" \in Elements(x2Ctrl[<<t, c>>])
      BY <2>1, <2>3 DEF ControlInv, ForwardingMatchesHandover
    <3>2. c # serving
      BY <2>1, <2>3, <3>1 DEF ControlInv, CommandInv
    <3> QED BY <1>3, <2>3, <3>2 DEF BehindInv, TunnelInv
  <2>4. \A a, b \in Cell :
            Elements(x2Data'[<<a, b>>]) =
                Elements(x2Data[<<a, b>>]) \cup (IF a = c /\ b = t THEN {p} ELSE {})
    <3> SUFFICES ASSUME NEW a \in Cell, NEW b \in Cell
                 PROVE  Elements(x2Data'[<<a, b>>]) =
                            Elements(x2Data[<<a, b>>]) \cup (IF a = c /\ b = t THEN {p} ELSE {})
      OBVIOUS
    <3>1. CASE a = c /\ b = t
      <4>1. x2Data'[<<a, b>>] = Append(x2Data[<<a, b>>], p)
        BY <2>1, <2>2, <3>1 DEF TypeOK
      <4>2. x2Data[<<a, b>>] \in Seq(1 .. downSent)
        BY <2>2 DEF TypeOK
      <4>3. Elements(Append(x2Data[<<a, b>>], p)) = Elements(x2Data[<<a, b>>]) \cup {p}
        <5> DEFINE S == 1 .. downSent
                   q == x2Data[<<a, b>>]
        <5>1. p \in S /\ q \in Seq(S)
          BY <1>3, <4>2
        <5> HIDE DEF p, S, q
        <5>2. Elements(Append(q, p)) = Elements(q) \cup {p}
          BY <5>1, AppendLemma
        <5> QED BY <5>2 DEF q
      <4> QED BY <3>1, <4>1, <4>3
    <3>2. CASE ~(a = c /\ b = t)
      <4>1. x2Data'[<<a, b>>] = x2Data[<<a, b>>]
        BY <2>1, <2>2, <3>2 DEF TypeOK
      <4> QED BY <3>2, <4>1
    <3> QED BY <3>1, <3>2
  <2>5. TunnelInv'
    <3> SUFFICES ASSUME x2InTime
                 PROVE  /\ \A a, b \in Cell : ~UnderWay(a, b) =>
                              Elements(x2Data'[<<a, b>>]) \subseteq displaced
                        /\ \A d \in Cell : d # serving => Elements(core'[d]) \subseteq displaced
      BY <1>1 DEF TunnelInv, UnderWay
    <3>1. ASSUME NEW a \in Cell, NEW b \in Cell, ~UnderWay(a, b)
          PROVE  Elements(x2Data'[<<a, b>>]) \subseteq displaced
      <4>1. Elements(x2Data[<<a, b>>]) \subseteq displaced
        BY <3>1 DEF BehindInv, TunnelInv
      <4>2. CASE a = c /\ b = t
        BY <2>3, <2>4, <3>1, <4>1, <4>2
      <4>3. CASE ~(a = c /\ b = t)
        BY <2>4, <4>1, <4>3
      <4> QED BY <4>2, <4>3
    <3> QED BY <1>4, <3>1 DEF BehindInv, TunnelInv
  <2>6. OnlyDisplacedStayBehind'
    BY <1>1, <2>1 DEF BehindInv, OnlyDisplacedStayBehind
  <2> QED BY <2>5, <2>6 DEF BehindInv
<1>6. CASE Hold(c, p)
  <2>1. /\ c \in hoHolding /\ UNCHANGED x2Data
        /\ hoFromIp' = [hoFromIp EXCEPT ![c] = Append(@, p)]
    BY <1>6 DEF Hold
  <2>2. TunnelInv'
    BY <1>1, <1>4, <2>1 DEF BehindInv, TunnelInv, UnderWay
  <2>3. x2InTime => c = target /\ serving \in Cell
    BY <2>1 DEF ControlInv, HoldingMatchesHandover
  <2>4. \A d \in Cell : d # c => hoFromIp'[d] = hoFromIp[d]
    BY <2>1 DEF TypeOK
  <2>5. OnlyDisplacedStayBehind'
    BY <1>1, <2>3, <2>4 DEF BehindInv, OnlyDisplacedStayBehind
  <2> QED BY <2>2, <2>5 DEF BehindInv
<1>7. CASE ToStackBs(c, p)
  <2>1. UNCHANGED <<x2Data, hoFromIp>>
    BY <1>7 DEF ToStackBs
  <2> QED
    BY <1>1, <1>4, <2>1 DEF BehindInv, TunnelInv, OnlyDisplacedStayBehind, UnderWay
<1> QED BY <1>1, <1>5, <1>6, <1>7

LEMMA NextBehindInv == TypeOK /\ ControlInv /\ BehindInv /\ [Next]_vars => BehindInv'
<1> SUFFICES ASSUME TypeOK, ControlInv, BehindInv, [Next]_vars PROVE BehindInv'
  OBVIOUS
<1>1. ASSUME NEW s \in Cell, NEW t \in Cell, ReceiveHandoverCommand(s, t) PROVE BehindInv'
  BY <1>1, BehindUnchanged DEF ReceiveHandoverCommand, handoverVars, downVars
<1>2. ASSUME NEW c \in Cell, AirLoss(c) PROVE BehindInv'
  BY <1>2, BehindUnchanged DEF AirLoss, handoverVars, netVars
<1>3. CASE Deliver
  BY <1>3, BehindUnchanged DEF Deliver, handoverVars, netVars
<1>4. CASE FromIpUe
  BY <1>4, BehindUnchanged DEF FromIpUe, handoverVars, cellVars, netVars, downVars
<1>5. CASE UNCHANGED vars
  BY <1>5, BehindUnchanged DEF vars, handoverVars, cellVars, netVars, downVars
<1> QED
  BY <1>1, <1>2, <1>3, <1>4, <1>5, TriggerBehindInv, DoHandoverBehindInv, PacketBehindInv,
     SendBehindInv, FromIpBsBehindInv DEF Next

IInv == TypeOK /\ UeInv /\ ControlInv /\ BehindInv

LEMMA Inductive == Spec => []IInv
<1>1. Init => IInv
  BY InitTypeOK, InitUeInv, InitControlInv, InitBehindInv DEF IInv
<1>2. IInv /\ [Next]_vars => IInv'
  BY NextTypeOK, NextUeInv, NextControlInv, NextBehindInv DEF IInv
<1> QED BY <1>1, <1>2, PTL DEF Spec

\* A cell forwards to the target of its UE's handover, or until the command that stops
\* it has arrived, provided that commands are faster than a handover.
THEOREM AlwaysForwardingMatchesHandover == Spec => []ForwardingMatchesHandover
<1>1. IInv => ForwardingMatchesHandover
  BY DEF IInv, ControlInv
<1> QED BY <1>1, Inductive, PTL

\* Under the same assumption only the target of a handover holds packets.
THEOREM AlwaysHoldingMatchesHandover == Spec => []HoldingMatchesHandover
<1>1. IInv => HoldingMatchesHandover
  BY DEF IInv, ControlInv
<1> QED BY <1>1, Inductive, PTL

\* And a completed handover leaves no packet in the queues of a cell, except those that
\* were in a tunnel when the UE changed its cell.
THEOREM AlwaysOnlyDisplacedStayBehind == Spec => []OnlyDisplacedStayBehind
<1>1. IInv => OnlyDisplacedStayBehind
  BY DEF IInv, BehindInv
<1> QED BY <1>1, Inductive, PTL
=============================================================================
