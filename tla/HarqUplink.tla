----------------------------- MODULE HarqUplink -----------------------------
(***************************************************************************)
(* The uplink HARQ of one UE: its transmission processes, the reception    *)
(* processes the serving eNodeB keeps for it, the scheduler that grants    *)
(* retransmissions, and handovers.                                         *)
(*                                                                         *)
(* Time passes in TTIs.  In one, the eNodeB and the UE run their main      *)
(* loops, and then the frames sent in the TTI before arrive: a frame takes *)
(* one TTI and its priority puts it after the loops.  One carrier, one     *)
(* codeword.                                                               *)
(*                                                                         *)
(* A definition that stands before a similar one and is used nowhere is a  *)
(* faulty variant of it, which the mutation runs put in its place.         *)
(***************************************************************************)
EXTENDS Naturals

CONSTANTS
    Enb,
    MasterId,           \* the eNodeB the UE is first attached to
    HarqProcesses,      \* harqProcesses
    MaxHarqRtx,         \* maxHarqRtx
    FbTimers,           \* the values of harqFbEvaluationTimer that are considered
    MaxPdu,             \* MAC PDUs the UE makes
    HandoverMax

ASSUME HarqAssumption ==
    /\ MasterId \in Enb
    /\ HarqProcesses \in Nat
    /\ {MaxHarqRtx, MaxPdu, HandoverMax} \subseteq Nat /\ FbTimers \subseteq Nat

\* A PDU takes a TTI to arrive, after the loops; its feedback is sent when it has been
\* there for timer - 1 of them, one at least, and takes another TTI.
RoundTripOf(timer) == IF timer > 2 THEN timer + 2 ELSE 4

\* The feedback of a process is back for its next turn.  The code does not test that its
\* parameters are so; the defaults, 4 and 8, are.
ASSUME RoundTripAssumption == \A timer \in FbTimers : RoundTripOf(timer) <= HarqProcesses

VARIABLES
    phase,          \* what comes next in this TTI
    cell,           \* the serving eNodeB
    fbTimer,        \* harqFbEvaluationTimer, the same at all nodes
    grant,          \* schedulingGrant_ of the UE
    firstTx, currentHarq,
    tx,             \* the units of the UE's LteHarqBufferTx
    known,          \* harqRxBuffers_ of the serving eNodeB has the UE
    rx,             \* the units of its LteHarqBufferRx
    harqStatus,     \* of the scheduler of each eNodeB: the current process of the UE
    sent, air,      \* the frames of this TTI and of the one before
    made,           \* PDUs made; they are numbered
    extracted,      \* PDUs the eNodeB passed on
    discarded,      \* PDUs the UE gave up
    handovers,
    undisturbed     \* history: no handover, and the first grant was used

ueVars == <<grant, firstTx, currentHarq, tx, made, discarded>>
enbVars == <<known, rx, harqStatus, extracted>>
vars == <<phase, cell, fbTimer, ueVars, enbVars, sent, air, handovers, undisturbed>>

Acid == 0 .. HarqProcesses - 1
Succ(acid, k) == (acid + k) % HarqProcesses
Absent == HarqProcesses     \* harqStatus_ has no entry

Pdu == 1 .. MaxPdu
None == 0
\* A grant does not say what it is for; the model notes the PDU the scheduler had in
\* mind, for the properties.
NewData == MaxPdu + 1

EmptyTx == [st |-> "EMPTY", id |-> None, n |-> 0]
EmptyRx == [st |-> "EMPTY", id |-> None, age |-> 0, ok |-> FALSE, tries |-> 0]
NoPdu == [acid |-> 0, id |-> None, ndi |-> FALSE]
Frames(g, fb) == [enb |-> cell, grant |-> g, fb |-> fb, pdu |-> NoPdu]

-----------------------------------------------------------------------------

Init ==
    /\ phase = "Enb" /\ cell = MasterId /\ fbTimer \in FbTimers
    /\ grant = None /\ firstTx = FALSE /\ currentHarq = 0
    /\ tx = [p \in Acid |-> EmptyTx]
    /\ known = FALSE /\ rx = [p \in Acid |-> EmptyRx]
    /\ harqStatus = [e \in Enb |-> Absent]
    /\ sent = Frames(None, {}) /\ air = sent
    /\ made = 0 /\ extracted = {} /\ discarded = {}
    /\ handovers = 0 /\ undisturbed = TRUE

-----------------------------------------------------------------------------
(* The main loop of the eNodeB *)

Aged(u) == IF u.st = "EVALUATING" THEN [u EXCEPT !.age = @ + 1] ELSE u

IsEvaluated(u) == u.st = "EVALUATING" /\ u.age >= fbTimer - 1

\* The status of the units after their feedback: CORRECT ones are extracted at once,
\* CORRUPTED ones are there for the scheduler and purged at the end of the loop.
Correct(units) == {p \in Acid : IsEvaluated(units[p]) /\ units[p].ok}
Corrupted(units) ==
    {p \in Acid : /\ IsEvaluated(units[p]) /\ ~units[p].ok
                  /\ units[p].tries # MaxHarqRtx + 1}

UpdateHarqDescs ==
    IF ~known THEN harqStatus[cell]
    ELSE IF harqStatus[cell] = Absent THEN 0 ELSE Succ(harqStatus[cell], 1)

\* The process a grant of now is for.
GrantedAcidNext(status) == Succ(status, 1)
GrantedAcid(status) == Succ(status, 2)

\* A bound: no more grants when the UE has nothing left to send.
MoreGrants == made < MaxPdu \/ \E p \in Acid : tx[p].st = "BUFFERED"

\* Retransmissions come first.  Whether new data is granted is left open: it depends on
\* random access, buffer status reports and the other UEs.  There is always room.
Schedule(units, status) ==
    IF known /\ GrantedAcid(status) \in Corrupted(units)
    THEN {units[GrantedAcid(status)].id}
    ELSE {None} \cup {g \in {NewData} : MoreGrants}

EnbLoop ==
    /\ phase = "Enb" /\ phase' = "Ue"
    /\ LET units == [p \in Acid |-> Aged(rx[p])]
           evaluated == {p \in Acid : IsEvaluated(units[p])}
       IN /\ \E g \in Schedule(units, UpdateHarqDescs) :
                sent' = Frames(g, {[acid |-> p, id |-> rx[p].id, ok |-> rx[p].ok] : p \in evaluated})
          /\ extracted' = extracted \cup {rx[p].id : p \in Correct(units)}
          /\ rx' = [p \in Acid |-> IF p \in evaluated THEN EmptyRx ELSE units[p]]
    /\ harqStatus' = [harqStatus EXCEPT ![cell] = UpdateHarqDescs]
    /\ UNCHANGED <<cell, fbTimer, ueVars, known, air, handovers, undisturbed>>

-----------------------------------------------------------------------------
(* The main loop of the UE *)

\* The process whose turn it is; the first grant sets it.
Turn == IF firstTx THEN currentHarq ELSE HarqProcesses - 2

AdvanceWhenGranted == currentHarq' = IF grant = None THEN currentHarq ELSE Succ(Turn, 1)
Advance == currentHarq' = Succ(IF grant = None THEN currentHarq ELSE Turn, 1)

Transmit(p, id, n) ==
    /\ tx' = [tx EXCEPT ![p] = [st |-> "WAITING", id |-> id, n |-> n]]
    /\ sent' = [sent EXCEPT !.pdu = [acid |-> p, id |-> id, ndi |-> n = 1]]

UeTurn ==
    /\ phase = "Ue" /\ phase' = "Arrive"
    /\ Advance
    /\ grant' = None /\ firstTx' = (firstTx \/ grant # None)
    /\ UNCHANGED <<cell, fbTimer, enbVars, air, discarded, handovers>>

UeIdle ==
    /\ grant = None
    /\ UeTurn
    /\ UNCHANGED <<tx, sent, made, undisturbed>>

Retransmit ==
    /\ grant # None /\ tx[Turn].st = "BUFFERED"
    /\ UeTurn
    /\ Transmit(Turn, tx[Turn].id, tx[Turn].n + 1)
    /\ UNCHANGED <<made, undisturbed>>

\* Without a free unit the new PDU is deleted.
MacPduMake ==
    /\ grant # None /\ tx[Turn].st # "BUFFERED" /\ made < MaxPdu
    /\ UeTurn
    /\ made' = made + 1
    /\ IF tx[Turn].st = "EMPTY" THEN Transmit(Turn, made', 1) ELSE UNCHANGED <<tx, sent>>
    /\ UNCHANGED undisturbed

NothingToSend ==
    /\ grant # None /\ tx[Turn].st # "BUFFERED"
    /\ UeTurn
    /\ undisturbed' = (undisturbed /\ firstTx)
    /\ UNCHANGED <<tx, sent, made>>

UeLoop == UeIdle \/ Retransmit \/ MacPduMake \/ NothingToSend

-----------------------------------------------------------------------------
(* The frames of the TTI before *)

PduFeedback(u, ok) ==
    IF ok \/ u.n = MaxHarqRtx + 1 THEN EmptyTx ELSE [u EXCEPT !.st = "BUFFERED"]

ReceiveHarqFeedback ==
    LET result == [p \in {f.acid : f \in air.fb} |-> \E f \in air.fb : f.acid = p /\ f.ok]
    IN /\ tx' = [p \in Acid |-> IF p \in DOMAIN result THEN PduFeedback(tx[p], result[p])
                                ELSE tx[p]]
       /\ discarded' = discarded \cup
            {tx[p].id : p \in {q \in DOMAIN result : ~result[q] /\ tx[q].n = MaxHarqRtx + 1}}

\* The channel decides whether a PDU can be decoded.
InsertPdu ==
    IF air.pdu = NoPdu THEN UNCHANGED <<known, rx>>
    ELSE /\ known' = TRUE
         /\ \E ok \in BOOLEAN :
              rx' = [rx EXCEPT ![air.pdu.acid] =
                        [st |-> "EVALUATING", id |-> air.pdu.id, age |-> 0, ok |-> ok,
                         tries |-> @.tries + 1]]

EndOfTti ==
    /\ phase = "Arrive" /\ phase' = "Enb"
    /\ air' = sent /\ sent' = Frames(None, {})
    /\ UNCHANGED <<cell, fbTimer, firstTx, currentHarq, made, harqStatus, extracted,
                   handovers, undisturbed>>

Arrive ==
    /\ air.enb = cell
    /\ EndOfTti
    /\ grant' = IF air.grant = None THEN grant ELSE air.grant
    /\ ReceiveHarqFeedback
    /\ InsertPdu

\* Frames from or to an old master are deleted.
FromOldMaster ==
    /\ air.enb # cell
    /\ EndOfTti
    /\ UNCHANGED <<grant, tx, discarded, known, rx>>

-----------------------------------------------------------------------------
(* Handover *)

DeleteUeQueuesNothing == UNCHANGED tx
DeleteUeQueues == tx' = [p \in Acid |-> EmptyTx]

\* The buffers of the UE and those of the old eNodeB for the UE are deleted; the grant,
\* the counter of the UE and that of the old scheduler are not.  The arrival of the
\* frames of one handover precedes the next one.
Handover(e) ==
    /\ phase = "Enb" /\ e # cell /\ air.enb = cell
    /\ handovers < HandoverMax
    /\ cell' = e /\ handovers' = handovers + 1
    /\ DeleteUeQueues
    /\ known' = FALSE /\ rx' = [p \in Acid |-> EmptyRx]
    /\ undisturbed' = FALSE
    /\ UNCHANGED <<phase, fbTimer, grant, firstTx, currentHarq, made, discarded, harqStatus,
                   extracted, sent, air>>

-----------------------------------------------------------------------------

Tti == EnbLoop \/ UeLoop \/ Arrive \/ FromOldMaster
Next == Tti \/ \E e \in Enb : Handover(e)

Spec == Init /\ [][Next]_vars
\* The TTI tick comes every millisecond.
FairSpec == Spec /\ WF_vars(Tti)

-----------------------------------------------------------------------------
(* Properties *)

Feedback == [acid : Acid, id : Pdu, ok : BOOLEAN]
Frame == [enb : Enb, grant : None .. NewData, fb : SUBSET Feedback,
          pdu : [acid : Acid, id : None .. MaxPdu, ndi : BOOLEAN]]

TypeOK ==
    /\ phase \in {"Enb", "Ue", "Arrive"} /\ cell \in Enb /\ fbTimer \in FbTimers
    /\ grant \in None .. NewData /\ firstTx \in BOOLEAN /\ currentHarq \in Acid
    /\ \A p \in Acid : /\ tx[p].st \in {"EMPTY", "WAITING", "BUFFERED"}
                       /\ tx[p].n \in 0 .. MaxHarqRtx + 1
                       /\ rx[p].st \in {"EMPTY", "EVALUATING"} /\ rx[p].tries \in 0 .. 1
    /\ known \in BOOLEAN /\ harqStatus \in [Enb -> Acid \cup {Absent}]
    /\ \A frames \in {sent, air} :
        /\ frames.enb \in Enb /\ frames.fb \subseteq Feedback
        /\ frames.grant \in None .. NewData
    /\ made \in 0 .. MaxPdu /\ extracted \subseteq Pdu /\ discarded \subseteq Pdu
    /\ handovers \in 0 .. HandoverMax /\ undisturbed \in BOOLEAN

\* Feedback meets the unit that waits for it, or the UE throws.
FeedbackIsExpected ==
    phase = "Arrive" /\ air.enb = cell =>
        \A f \in air.fb : tx[f.acid].st = "WAITING" /\ tx[f.acid].id = f.id

\* A PDU meets a free unit, or the eNodeB throws.
PduIsExpected ==
    phase = "Arrive" /\ air.enb = cell /\ air.pdu # NoPdu => rx[air.pdu.acid].st = "EMPTY"

\* A granted process no longer waits for feedback, or the UE deletes the new PDU.
TurnIsFree == phase = "Ue" /\ grant # None => tx[Turn].st # "WAITING"

\* What the eNodeB has passed on is never sent again, nor counted as given up.
PassedOnIsDone ==
    \A id \in extracted :
        /\ id \notin discarded /\ id \notin {sent.pdu.id, air.pdu.id}
        /\ \A p \in Acid : tx[p].id = id =>
              tx[p].st = "WAITING" /\ [acid |-> p, id |-> id, ok |-> TRUE] \in sent.fb \cup air.fb

\* The processes of UE and eNodeB fit together through feedback, retransmissions and
\* handovers that delete the buffers, but neither the frames on the air nor the grant and
\* the counters: nothing throws, no PDU is thrown away, none is delivered twice.
HarqConsistent ==
    TypeOK /\ FeedbackIsExpected /\ PduIsExpected /\ TurnIsFree /\ PassedOnIsDone

\* A NACK is given in the loop in which the scheduler looks at the process.
FitsInRound == RoundTripOf(fbTimer) = HarqProcesses

\* The scheduler, which looks two processes ahead of its own counter, grants the
\* retransmission of a PDU it has just NACKed exactly if the round trip takes a round
\* (with the default parameters it does not: such a unit waits for a grant of new data to
\* come in its turn) and there are retransmissions.  A grant meant for a PDU reaches the
\* UE in the turn of that PDU, unless the UE, which counts the transmissions, has given
\* it up; and where the round trip takes a round, no unit is without its grant.  The
\* counters agree from the first PDU to the first handover.
RetransmissionInTurn ==
    phase = "Ue" /\ undisturbed =>
        /\ \A f \in sent.fb : ~f.ok => (sent.grant = f.id <=> FitsInRound /\ MaxHarqRtx > 0)
        /\ grant \in Pdu \ discarded => tx[Turn].st = "BUFFERED" /\ tx[Turn].id = grant
        /\ FitsInRound =>
              \A p \in Acid : tx[p].st = "BUFFERED" => p = Turn /\ grant = tx[p].id

\* If the round trip takes a round, no unit waits for its retransmission for ever.
SomeBuffered == \E p \in Acid : tx[p].st = "BUFFERED"
RetransmissionsEnd == SomeBuffered /\ FitsInRound ~> ~SomeBuffered \/ ~undisturbed
=============================================================================
