--------------------------- MODULE CellSelection ---------------------------
(***************************************************************************)
(* How a UE chooses the eNodeB that serves it: the handover logic of       *)
(* LtePhyUe.  All eNodeBs broadcast at the same time, once in a turn, and  *)
(* the UE receives them one after the other, in an order that depends on   *)
(* how the network was built; a broadcast that is stronger than what the   *)
(* UE remembers schedules the handover starter, which fires when the turn  *)
(* has been received.                                                      *)
(*                                                                         *)
(* A level is a mean SINR in dB.  The hysteresis is a tenth of a level, so *)
(* hysteresisTh holds ten times the threshold.                             *)
(*                                                                         *)
(* A definition that stands before a similar one and is used nowhere is a  *)
(* faulty variant of it, which the mutation runs put in its place.         *)
(***************************************************************************)
EXTENDS Integers

CONSTANTS
    Cell, NoCell, Idle,
    Level,          \* the levels at which an eNodeB may be received
    MinRssi,        \* minRssi_
    FirstRssi,      \* RSRP of the cell selected at initialization, in dBm
    Before,         \* pairs of eNodeBs in the order of their broadcasts: {} leaves it open
    OutOfRange      \* whether a broadcast may be missed

ASSUME CellAssumption == NoCell \notin Cell /\ Idle \notin Cell \cup {NoCell}
ASSUME LevelAssumption == Level \subseteq Int /\ MinRssi \in Int /\ FirstRssi \in Int
ASSUME BroadcastAssumption == Before \subseteq Cell \X Cell /\ OutOfRange \in BOOLEAN

VARIABLES
    level,          \* how the eNodeBs are received in this turn
    heard,          \* the eNodeBs whose broadcast of this turn was received
    masterId,
    candidateMasterId, candidateMasterRssi, hysteresisTh,
    handoverStarter,    \* handoverStarter_ is scheduled
    handoverTrigger,    \* handoverTrigger_ is scheduled
    cellInfo,       \* the eNodeB whose CellInfo cellInfo_ points to
    knownTo         \* the eNodeBs whose CellInfo has the UE

candidate == <<candidateMasterId, candidateMasterRssi, hysteresisTh>>
attachment == <<masterId, cellInfo, knownTo>>
vars == <<level, heard, masterId, candidateMasterId, candidateMasterRssi, hysteresisTh,
          handoverStarter, handoverTrigger, cellInfo, knownTo>>

-----------------------------------------------------------------------------

\* Initialization: the best cell, or the configured one, serves the UE.
Init ==
    /\ level \in [Cell -> Level] /\ heard = {}
    /\ masterId \in Cell
    /\ candidateMasterId = masterId
    /\ candidateMasterRssi = FirstRssi /\ hysteresisTh = 0
    /\ handoverStarter = FALSE /\ handoverTrigger = FALSE
    /\ cellInfo = masterId /\ knownTo = {masterId}

\* updateHysteresisTh, in tenths.
SetCandidateOnly(c, r) ==
    /\ candidateMasterId' = c
    /\ candidateMasterRssi' = r
    /\ UNCHANGED hysteresisTh
SetCandidate(c, r) ==
    /\ candidateMasterId' = c
    /\ candidateMasterRssi' = r
    /\ hysteresisTh' = r

StrongerWithinHysteresis(r) == 10 * r > 10 * candidateMasterRssi - hysteresisTh
Stronger(r) == 10 * r > 10 * candidateMasterRssi + hysteresisTh

\* A broadcast of the serving cell that beats the candidate ends the handover that
\* was about to be started.
MasterIsStrongerNoCancel(r) ==
    /\ Stronger(r)
    /\ SetCandidate(masterId, r)
    /\ UNCHANGED handoverStarter
MasterIsStronger(r) ==
    /\ Stronger(r)
    /\ SetCandidate(masterId, r)
    /\ handoverStarter' = FALSE

MasterIsNotStronger(r) ==
    /\ ~Stronger(r) /\ r >= MinRssi
    /\ SetCandidate(candidateMasterId, r)
    /\ UNCHANGED handoverStarter

\* The connection to the serving cell is lost: detach, unless a candidate was found.
MasterIsLost(r) ==
    /\ ~Stronger(r) /\ r < MinRssi
    /\ IF candidateMasterId = masterId
       THEN SetCandidate(NoCell, 0) /\ handoverStarter' = TRUE
       ELSE UNCHANGED <<candidate, handoverStarter>>

OtherIsStronger(c, r) ==
    IF r >= MinRssi /\ Stronger(r) THEN SetCandidate(c, r) /\ handoverStarter' = TRUE
                                   ELSE UNCHANGED <<candidate, handoverStarter>>

InOrder(c) ==
    /\ \A d \in heard : <<c, d>> \notin Before
    /\ OutOfRange \/ \A d \in Cell : <<d, c>> \in Before => d \in heard
TurnIsReceived == heard # {} /\ (OutOfRange \/ heard = Cell)

\* handoverHandler; while a handover is under way the broadcasts are deleted.
BroadcastAtAnyTime(c) ==
    /\ c \notin heard /\ InOrder(c)
    /\ heard' = heard \cup {c}
    /\ \/ /\ c = masterId
          /\ MasterIsStronger(level[c]) \/ MasterIsNotStronger(level[c]) \/ MasterIsLost(level[c])
       \/ /\ c # masterId
          /\ OtherIsStronger(c, level[c])
    /\ UNCHANGED <<level, handoverTrigger, attachment>>
Broadcast(c) ==
    /\ ~handoverTrigger
    /\ c \notin heard /\ InOrder(c)
    /\ heard' = heard \cup {c}
    /\ \/ /\ c = masterId
          /\ MasterIsStronger(level[c]) \/ MasterIsNotStronger(level[c]) \/ MasterIsLost(level[c])
       \/ /\ c # masterId
          /\ OtherIsStronger(c, level[c])
    /\ UNCHANGED <<level, handoverTrigger, attachment>>

\* The next turn; the handover starter follows the broadcasts of its turn by
\* handoverDelta_, the turns are a broadcast interval apart.
NewTurn ==
    /\ ~handoverStarter /\ ~handoverTrigger
    /\ TurnIsReceived
    /\ heard' = {}
    /\ level' \in [Cell -> Level]
    /\ UNCHANGED <<candidate, handoverStarter, handoverTrigger, attachment>>

TriggerHandover ==
    /\ handoverStarter /\ TurnIsReceived
    /\ handoverStarter' = FALSE /\ handoverTrigger' = TRUE
    /\ UNCHANGED <<level, heard, candidate, attachment>>

\* CellInfo: the UE leaves the cell cellInfo_ points to only when it enters another.
MoveCellInfoKeepsOld ==
    /\ cellInfo' = candidateMasterId
    /\ knownTo' = knownTo \cup {candidateMasterId}
MoveCellInfo ==
    /\ cellInfo' = candidateMasterId
    /\ knownTo' = (knownTo \ {cellInfo}) \cup {candidateMasterId}

DoHandoverMovesAlways ==
    /\ handoverTrigger
    /\ handoverTrigger' = FALSE
    /\ masterId' = candidateMasterId
    /\ hysteresisTh' = candidateMasterRssi
    /\ MoveCellInfo
    /\ heard' = {}
    /\ level' \in [Cell -> Level]
    /\ UNCHANGED <<candidateMasterId, candidateMasterRssi, handoverStarter>>
DoHandover ==
    /\ handoverTrigger
    /\ handoverTrigger' = FALSE
    /\ masterId' = candidateMasterId
    /\ hysteresisTh' = candidateMasterRssi
    /\ IF candidateMasterId # NoCell THEN MoveCellInfo ELSE UNCHANGED <<cellInfo, knownTo>>
    /\ heard' = {}
    /\ level' \in [Cell -> Level]
    /\ UNCHANGED <<candidateMasterId, candidateMasterRssi, handoverStarter>>

Next ==
    \/ \E c \in Cell : Broadcast(c)
    \/ NewTurn
    \/ TriggerHandover
    \/ DoHandover

Spec == Init /\ [][Next]_vars

\* The timers expire and the turns go on.
FairSpec ==
    /\ Spec
    /\ WF_vars(\E c \in Cell : Broadcast(c))
    /\ WF_vars(NewTurn) /\ WF_vars(TriggerHandover) /\ WF_vars(DoHandover)

-----------------------------------------------------------------------------
(* Properties *)

\* Every variable keeps to its type.
TypeOK ==
    /\ level \in [Cell -> Level] /\ heard \subseteq Cell
    /\ masterId \in Cell \cup {NoCell} /\ candidateMasterId \in Cell \cup {NoCell}
    /\ candidateMasterRssi \in Int /\ hysteresisTh \in Int
    /\ handoverStarter \in BOOLEAN /\ handoverTrigger \in BOOLEAN
    /\ cellInfo \in Cell /\ knownTo \subseteq Cell

\* triggerHandover asserts that the candidate is not the serving cell: however the
\* broadcasts of a turn are ordered, a scheduled starter always has another target,
\* and without one the candidate is the serving cell itself.
HandoverHasTarget ==
    /\ handoverStarter => candidateMasterId # masterId
    /\ ~handoverStarter /\ ~handoverTrigger => candidateMasterId = masterId

TargetIsReceived ==
    handoverStarter /\ candidateMasterId # NoCell =>
        candidateMasterId \in heard /\ level[candidateMasterId] >= MinRssi

TargetIsNotMuchWeaker ==
    handoverStarter /\ candidateMasterId # NoCell
            /\ masterId \in heard /\ level[masterId] >= 0
        => 11 * level[candidateMasterId] >= 10 * level[masterId]

\* Whatever the order of the broadcasts, which overwrite the remembered level in
\* turn: a handover is started only towards a cell that was heard in this very turn,
\* well enough to attach to; and the target of a handover from a cell that is well
\* received is at most the hysteresis weaker than it was in the same turn.
TargetIsJustified == TargetIsReceived /\ TargetIsNotMuchWeaker

\* A cell that hears its UE leave does not keep it in its CellInfo: the serving cell
\* alone has the UE, and while the UE is detached at most the cell it left.
KnownToServingCell ==
    /\ knownTo = {cellInfo}
    /\ masterId # NoCell => cellInfo = masterId

\* The serving cell changes as ServingCell says: the target of a handover under way
\* does not change any more, and no second handover is started over it.
Target == IF handoverTrigger THEN candidateMasterId ELSE Idle
SC == INSTANCE ServingCell WITH serving <- masterId, target <- Target
ImplementsServingCell == SC!Spec

\* The hysteresis is there "to avoid multiple subsequent handovers": a UE that
\* receives all cells at levels within a tenth of one another settles on one cell, or
\* on none, however the levels vary.
Magnitude(r) == IF r < 0 THEN -r ELSE r
Bands == {B \in SUBSET Level : \A q, r \in B : 10 * q <= 10 * r + Magnitude(r)}
LevelsStayTogether == \E B \in Bands : <>[](\A c \in Cell : level[c] \in B)
UeSettles == \E c \in Cell \cup {NoCell} : <>[](masterId = c)
Settles == LevelsStayTogether => UeSettles

\* It does as long as the levels are positive; and at levels any distance apart that
\* do not vary.
LevelsSettle == <>[][level' = level]_vars
SettlesWhenPositive ==
    <>[](\A c \in Cell : level[c] > 0) /\ (LevelsSettle \/ LevelsStayTogether)
        => UeSettles
=============================================================================
