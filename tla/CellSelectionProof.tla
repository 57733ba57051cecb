------------------------- MODULE CellSelectionProof -------------------------
(***************************************************************************)
(* Proofs about CellSelection: the invariants hold for every set of cells, *)
(* every set of levels and every order in which the broadcasts of a turn   *)
(* are received, and the handover of the UE implements ServingCell.        *)
(***************************************************************************)
EXTENDS CellSelection, TLAPS

\* A starter has another target than the serving cell, and that target is what the
\* UE remembers.
StarterInv ==
    handoverStarter => /\ ~handoverTrigger
                       /\ candidateMasterId # masterId
                       /\ hysteresisTh = candidateMasterRssi

\* What triggerHandover leaves to doHandover.
TriggerInv == handoverTrigger => candidateMasterId # masterId

\* Nothing scheduled: the candidate is the serving cell.
QuietInv == ~handoverStarter /\ ~handoverTrigger => candidateMasterId = masterId

\* Before the serving cell is heard, the remembered level is the candidate's own.
CandidateLevelInv ==
    handoverStarter /\ candidateMasterId \in Cell /\ masterId \notin heard
        => candidateMasterRssi = level[candidateMasterId]

\* Once it is heard, the remembered level is at most the hysteresis below its level,
\* unless the serving cell was lost.
MasterLevelInv ==
    ~handoverTrigger /\ masterId \in heard /\ level[masterId] >= 0
        => /\ hysteresisTh = candidateMasterRssi
           /\ \/ 11 * candidateMasterRssi >= 10 * level[masterId]
              \/ level[masterId] < MinRssi

IInv ==
    /\ TypeOK
    /\ StarterInv /\ TriggerInv /\ QuietInv
    /\ CandidateLevelInv /\ MasterLevelInv
    /\ TargetIsReceived /\ TargetIsNotMuchWeaker /\ KnownToServingCell

LEMMA InitIInv == Init => IInv
<1> SUFFICES ASSUME Init PROVE IInv
  OBVIOUS
<1> USE CellAssumption, LevelAssumption DEF Init
<1>1. TypeOK
  <2>1. masterId \in Cell /\ cellInfo = masterId /\ knownTo = {masterId} /\ heard = {}
    OBVIOUS
  <2>2. heard \subseteq Cell /\ cellInfo \in Cell /\ knownTo \subseteq Cell
    BY <2>1
  <2>3. handoverStarter \in BOOLEAN /\ handoverTrigger \in BOOLEAN
    OBVIOUS
  <2>4. candidateMasterRssi \in Int /\ hysteresisTh \in Int
    OBVIOUS
  <2> QED BY <2>1, <2>2, <2>3, <2>4 DEF TypeOK
<1>2. KnownToServingCell
  BY DEF KnownToServingCell
<1>3. /\ StarterInv /\ TriggerInv /\ QuietInv /\ CandidateLevelInv /\ MasterLevelInv
      /\ TargetIsReceived /\ TargetIsNotMuchWeaker
  BY DEF StarterInv, TriggerInv, QuietInv, CandidateLevelInv, MasterLevelInv,
         TargetIsReceived, TargetIsNotMuchWeaker
<1> QED BY <1>1, <1>2, <1>3 DEF IInv

\* The broadcast of the serving cell.
LEMMA MasterBroadcast ==
  ASSUME IInv, Broadcast(masterId), masterId \in Cell
  PROVE  IInv'
<1> USE CellAssumption, LevelAssumption
<1> DEFINE r == level[masterId]
<1>1. /\ r \in Int /\ ~handoverTrigger /\ handoverTrigger' = FALSE
      /\ heard' = heard \cup {masterId} /\ heard' \subseteq Cell
      /\ UNCHANGED <<level, masterId, cellInfo, knownTo>>
      /\ masterId \in heard'
  BY DEF IInv, TypeOK, Broadcast, attachment
<1>2. KnownToServingCell' /\ TriggerInv' /\ CandidateLevelInv'
  BY <1>1 DEF IInv, KnownToServingCell, TriggerInv, CandidateLevelInv
<1>3. CASE MasterIsStronger(r)
  <2>1. /\ candidateMasterId' = masterId /\ candidateMasterRssi' = r
        /\ hysteresisTh' = r /\ handoverStarter' = FALSE
    BY <1>3 DEF MasterIsStronger, SetCandidate
  <2>2. TypeOK'
    BY <1>1, <2>1 DEF IInv, TypeOK
  <2>3. StarterInv' /\ QuietInv' /\ TargetIsReceived' /\ TargetIsNotMuchWeaker'
    BY <1>1, <2>1 DEF StarterInv, QuietInv, TargetIsReceived, TargetIsNotMuchWeaker
  <2>4. MasterLevelInv'
    BY <1>1, <2>1 DEF MasterLevelInv
  <2> QED BY <1>2, <2>2, <2>3, <2>4 DEF IInv
<1>4. CASE MasterIsNotStronger(r)
  <2>1. /\ candidateMasterId' = candidateMasterId /\ candidateMasterRssi' = r
        /\ hysteresisTh' = r /\ handoverStarter' = handoverStarter
        /\ ~(10 * r > 10 * candidateMasterRssi + hysteresisTh)
    BY <1>4 DEF MasterIsNotStronger, SetCandidate, Stronger
  <2>2. TypeOK' /\ StarterInv' /\ QuietInv' /\ MasterLevelInv' /\ TargetIsReceived'
    <3>1. TypeOK'
      BY <1>1, <2>1 DEF IInv, TypeOK
    <3>2. StarterInv' /\ QuietInv'
      BY <1>1, <2>1 DEF IInv, StarterInv, QuietInv
    <3>3. MasterLevelInv'
      BY <1>1, <2>1 DEF MasterLevelInv
    <3>4. TargetIsReceived'
      BY <1>1, <2>1 DEF IInv, TargetIsReceived
    <3> QED BY <3>1, <3>2, <3>3, <3>4
  <2>3. TargetIsNotMuchWeaker'
    <3> SUFFICES ASSUME handoverStarter, candidateMasterId # NoCell, r >= 0
                 PROVE  11 * level[candidateMasterId] >= 10 * r
      BY <1>1, <2>1 DEF TargetIsNotMuchWeaker
    <3>1. CASE masterId \in heard
      BY <3>1 DEF IInv, TargetIsNotMuchWeaker
    <3>2. CASE masterId \notin heard
      BY <1>1, <2>1, <3>2 DEF IInv, TypeOK, StarterInv, CandidateLevelInv
    <3> QED BY <3>1, <3>2
  <2> QED BY <1>2, <2>2, <2>3 DEF IInv
<1>5. CASE MasterIsLost(r)
  <2>0. ~(10 * r > 10 * candidateMasterRssi + hysteresisTh)
    BY <1>5 DEF MasterIsLost, Stronger
  <2>1. CASE candidateMasterId = masterId
    <3>1. /\ candidateMasterId' = NoCell /\ candidateMasterRssi' = 0
          /\ hysteresisTh' = 0 /\ handoverStarter' = TRUE
      BY <1>5, <2>1 DEF MasterIsLost, SetCandidate
    <3>2. TypeOK'
      <4>1. candidateMasterRssi' \in Int /\ hysteresisTh' \in Int
        BY <3>1
      <4>2. candidateMasterId' \in Cell \cup {NoCell} /\ handoverStarter' \in BOOLEAN
        BY <3>1
      <4> QED BY <1>1, <4>1, <4>2 DEF IInv, TypeOK
    <3>3. StarterInv' /\ QuietInv' /\ TargetIsReceived' /\ TargetIsNotMuchWeaker'
      BY <1>1, <3>1 DEF StarterInv, QuietInv, TargetIsReceived, TargetIsNotMuchWeaker
    <3>4. MasterLevelInv'
      BY <1>1, <1>5, <3>1 DEF MasterLevelInv, MasterIsLost
    <3> QED BY <1>2, <3>2, <3>3, <3>4 DEF IInv
  <2>2. CASE candidateMasterId # masterId
    <3>1. UNCHANGED <<candidateMasterId, candidateMasterRssi, hysteresisTh, handoverStarter>>
      BY <1>5, <2>2 DEF MasterIsLost, candidate
    <3>2. handoverStarter /\ hysteresisTh = candidateMasterRssi
      BY <1>1, <2>2 DEF IInv, QuietInv, StarterInv
    <3>3. TypeOK' /\ StarterInv' /\ QuietInv' /\ TargetIsReceived'
      BY <1>1, <3>1 DEF IInv, TypeOK, StarterInv, QuietInv, TargetIsReceived
    <3>4. MasterLevelInv'
      BY <1>1, <1>5, <3>1, <3>2 DEF MasterLevelInv, MasterIsLost
    <3>5. TargetIsNotMuchWeaker'
      <4> SUFFICES ASSUME candidateMasterId # NoCell, r >= 0
                   PROVE  11 * level[candidateMasterId] >= 10 * r
        BY <1>1, <3>1 DEF TargetIsNotMuchWeaker
      <4>1. CASE masterId \in heard
        BY <3>2, <4>1 DEF IInv, TargetIsNotMuchWeaker
      <4>2. CASE masterId \notin heard
        BY <1>1, <2>0, <3>2, <4>2 DEF IInv, TypeOK, CandidateLevelInv
      <4> QED BY <4>1, <4>2
    <3> QED BY <1>2, <3>3, <3>4, <3>5 DEF IInv
  <2> QED BY <2>1, <2>2
<1> QED BY <1>3, <1>4, <1>5 DEF Broadcast

\* The broadcast of another cell.
LEMMA OtherBroadcast ==
  ASSUME IInv, NEW c \in Cell, c # masterId, Broadcast(c)
  PROVE  IInv'
<1> USE CellAssumption, LevelAssumption
<1> DEFINE r == level[c]
<1>1. /\ r \in Int /\ ~handoverTrigger /\ handoverTrigger' = FALSE
      /\ heard' = heard \cup {c} /\ heard' \subseteq Cell /\ c \in heard'
      /\ UNCHANGED <<level, masterId, cellInfo, knownTo>>
      /\ OtherIsStronger(c, r)
  BY DEF IInv, TypeOK, Broadcast, attachment
<1>2. KnownToServingCell' /\ TriggerInv'
  BY <1>1 DEF IInv, KnownToServingCell, TriggerInv
<1>3. CASE r >= MinRssi /\ Stronger(r)
  <2>1. /\ candidateMasterId' = c /\ candidateMasterRssi' = r
        /\ hysteresisTh' = r /\ handoverStarter' = TRUE
        /\ 10 * r > 10 * candidateMasterRssi + hysteresisTh
    BY <1>1, <1>3 DEF OtherIsStronger, SetCandidate, Stronger
  <2>2. /\ TypeOK' /\ StarterInv' /\ QuietInv' /\ CandidateLevelInv' /\ TargetIsReceived'
    BY <1>1, <1>3, <2>1
    DEF IInv, TypeOK, StarterInv, QuietInv, CandidateLevelInv, TargetIsReceived
  <2>3. ASSUME masterId \in heard', level[masterId] >= 0
        PROVE  11 * r >= 10 * level[masterId]
    <3>1. masterId \in heard
      BY <1>1, <2>3
    <3>2. level[masterId] \in Int /\ candidateMasterRssi \in Int
      BY <3>1 DEF IInv, TypeOK
    <3>3. /\ hysteresisTh = candidateMasterRssi
          /\ \/ 11 * candidateMasterRssi >= 10 * level[masterId]
             \/ level[masterId] < MinRssi
      BY <1>1, <2>3, <3>1 DEF IInv, MasterLevelInv
    <3> QED BY <1>1, <1>3, <2>1, <2>3, <3>2, <3>3
  <2>4. MasterLevelInv' /\ TargetIsNotMuchWeaker'
    BY <1>1, <2>1, <2>3 DEF MasterLevelInv, TargetIsNotMuchWeaker
  <2> QED BY <1>2, <2>2, <2>4 DEF IInv
<1>4. CASE ~(r >= MinRssi /\ Stronger(r))
  <2>1. UNCHANGED <<candidateMasterId, candidateMasterRssi, hysteresisTh, handoverStarter>>
    BY <1>1, <1>4 DEF OtherIsStronger, candidate
  <2>2. TypeOK'
    BY <1>1, <2>1 DEF IInv, TypeOK
  <2>3. StarterInv' /\ QuietInv'
    BY <1>1, <2>1 DEF IInv, StarterInv, QuietInv
  <2>4. CandidateLevelInv' /\ MasterLevelInv'
    BY <1>1, <2>1 DEF IInv, CandidateLevelInv, MasterLevelInv
  <2>5. TargetIsReceived' /\ TargetIsNotMuchWeaker'
    BY <1>1, <2>1 DEF IInv, TargetIsReceived, TargetIsNotMuchWeaker
  <2> QED BY <1>2, <2>2, <2>3, <2>4, <2>5 DEF IInv
<1> QED BY <1>3, <1>4

LEMMA NextIInv == IInv /\ [Next]_vars => IInv'
<1> SUFFICES ASSUME IInv, [Next]_vars PROVE IInv'
  OBVIOUS
<1> USE CellAssumption, LevelAssumption
<1>1. ASSUME NEW c \in Cell, Broadcast(c) PROVE IInv'
  BY <1>1, MasterBroadcast, OtherBroadcast
<1>2. CASE NewTurn
  <2>1. /\ ~handoverStarter' /\ ~handoverTrigger' /\ ~handoverStarter /\ ~handoverTrigger
        /\ heard' = {} /\ level' \in [Cell -> Level]
        /\ UNCHANGED <<masterId, candidateMasterId, candidateMasterRssi, hysteresisTh,
                       handoverStarter, handoverTrigger, cellInfo, knownTo>>
    BY <1>2 DEF NewTurn, candidate, attachment
  <2>2. TypeOK' /\ KnownToServingCell'
    BY <2>1 DEF IInv, TypeOK, KnownToServingCell
  <2>3. StarterInv' /\ TriggerInv' /\ QuietInv'
    BY <2>1 DEF IInv, StarterInv, TriggerInv, QuietInv
  <2>4. /\ CandidateLevelInv' /\ MasterLevelInv'
        /\ TargetIsReceived' /\ TargetIsNotMuchWeaker'
    BY <2>1 DEF CandidateLevelInv, MasterLevelInv, TargetIsReceived, TargetIsNotMuchWeaker
  <2> QED BY <2>2, <2>3, <2>4 DEF IInv
<1>3. CASE TriggerHandover
  BY <1>3
  DEF TriggerHandover, candidate, attachment, IInv, TypeOK, StarterInv, TriggerInv,
      QuietInv, CandidateLevelInv, MasterLevelInv, TargetIsReceived,
      TargetIsNotMuchWeaker, KnownToServingCell
<1>4. CASE DoHandover
  <2>1. /\ handoverTrigger /\ handoverTrigger' = FALSE /\ handoverStarter' = handoverStarter
        /\ ~handoverStarter
        /\ masterId' = candidateMasterId /\ candidateMasterId' = candidateMasterId
        /\ hysteresisTh' = candidateMasterRssi /\ candidateMasterRssi' = candidateMasterRssi
        /\ heard' = {} /\ level' \in [Cell -> Level]
    BY <1>4 DEF DoHandover, IInv, StarterInv
  <2>2. cellInfo' \in Cell /\ knownTo' \subseteq Cell /\ KnownToServingCell'
    BY <1>4, <2>1 DEF DoHandover, MoveCellInfo, IInv, TypeOK, KnownToServingCell
  <2> QED
    BY <2>1, <2>2
    DEF IInv, TypeOK, StarterInv, TriggerInv, QuietInv, CandidateLevelInv, MasterLevelInv,
        TargetIsReceived, TargetIsNotMuchWeaker
<1>5. CASE UNCHANGED vars
  BY <1>5
  DEF vars, IInv, TypeOK, StarterInv, TriggerInv, QuietInv, CandidateLevelInv,
      MasterLevelInv, TargetIsReceived, TargetIsNotMuchWeaker, KnownToServingCell
<1> QED BY <1>1, <1>2, <1>3, <1>4, <1>5 DEF Next

LEMMA Inductive == Spec => []IInv
  BY InitIInv, NextIInv, PTL DEF Spec

-----------------------------------------------------------------------------

\* Every variable of the UE's handover logic keeps to its type, for every set of cells
\* and levels.
THEOREM TypeCorrect == Spec => []TypeOK
<1>1. IInv => TypeOK
  BY DEF IInv
<1> QED BY <1>1, Inductive, PTL

\* The handover starter of LtePhyUe never fires with the serving cell as its target,
\* in whatever order the broadcasts of a turn arrive.
THEOREM AlwaysHandoverHasTarget == Spec => []HandoverHasTarget
<1>1. IInv => HandoverHasTarget
  BY DEF IInv, StarterInv, QuietInv, HandoverHasTarget
<1> QED BY <1>1, Inductive, PTL

\* A handover is started only towards a cell heard in this turn at minRssi or above, and
\* at most the hysteresis weaker than a serving cell that is received at 0 dB or more,
\* although the broadcasts overwrite the remembered level.
THEOREM AlwaysTargetIsJustified == Spec => []TargetIsJustified
<1>1. IInv => TargetIsJustified
  BY DEF IInv, TargetIsJustified
<1> QED BY <1>1, Inductive, PTL

\* The CellInfo of one eNodeB has the UE: the serving one's, while there is one.
THEOREM AlwaysKnownToServingCell == Spec => []KnownToServingCell
<1>1. IInv => KnownToServingCell
  BY DEF IInv
<1> QED BY <1>1, Inductive, PTL

\* The serving cell of LtePhyUe changes as ServingCell allows: every step is a Start, a
\* Complete or a stuttering step of it.
THEOREM Refinement == Spec => ImplementsServingCell
<1> USE CellAssumption
<1>1. Init => SC!Init
  BY DEF Init, SC!Init, Target
<1>2. IInv /\ [Next]_vars => [SC!Next]_(SC!vars)
  <2> SUFFICES ASSUME IInv, [Next]_vars PROVE SC!Next \/ UNCHANGED SC!vars
    OBVIOUS
  <2>1. ASSUME NEW c \in Cell, Broadcast(c) PROVE UNCHANGED SC!vars
    BY <2>1 DEF Broadcast, attachment, SC!vars, Target
  <2>2. CASE NewTurn
    BY <2>2 DEF NewTurn, candidate, attachment, SC!vars, Target
  <2>3. CASE TriggerHandover
    <3>1. /\ Target = Idle /\ candidateMasterId # masterId
          /\ Target' = candidateMasterId /\ masterId' = masterId
      BY <2>3 DEF TriggerHandover, candidate, attachment, Target, IInv, StarterInv
    <3>2. candidateMasterId \in SC!Place
      BY DEF IInv, TypeOK, SC!Place
    <3>3. SC!Start(candidateMasterId)
      BY <3>1 DEF SC!Start
    <3> QED BY <3>2, <3>3 DEF SC!Next
  <2>4. CASE DoHandover
    <3>1. /\ Target = candidateMasterId /\ Target' = Idle
          /\ masterId' = candidateMasterId /\ candidateMasterId # Idle
      BY <2>4 DEF DoHandover, Target, IInv, TypeOK
    <3>2. SC!Complete
      BY <3>1 DEF SC!Complete
    <3> QED BY <3>2 DEF SC!Next
  <2>5. CASE UNCHANGED vars
    BY <2>5 DEF vars, SC!vars, Target
  <2> QED BY <2>1, <2>2, <2>3, <2>4, <2>5 DEF Next
<1> QED BY <1>1, <1>2, Inductive, PTL DEF Spec, ImplementsServingCell, SC!Spec
=============================================================================
