-------------------------- MODULE HarqUplinkProof --------------------------
(***************************************************************************)
(* Proofs about HarqUplink, for any number of processes, any timer whose   *)
(* round trip fits into a round of them, and any number of PDUs,           *)
(* retransmissions and handovers.                                          *)
(*                                                                         *)
(* The UE's own counter is the clock.  How long ago the turn of a process  *)
(* was tells where its PDU or its feedback is: on the air, with the        *)
(* eNodeB, on the air again.                                               *)
(***************************************************************************)
EXTENDS HarqUplink, TLAPS

-----------------------------------------------------------------------------
(* The inductive invariant *)

\* The process whose turn it is, or just was, in this TTI.
Now == IF phase # "Arrive" THEN currentHarq
       ELSE IF currentHarq = 0 THEN HarqProcesses - 1 ELSE currentHarq - 1

\* The TTIs since the last turn of p.
Since(p) == IF p <= Now THEN Now - p ELSE Now - p + HarqProcesses

RoundTrip == RoundTripOf(fbTimer)

PduFrame == {NoPdu} \cup [acid : Acid, id : Pdu, ndi : BOOLEAN]

TypeInv ==
    /\ phase \in {"Enb", "Ue", "Arrive"} /\ cell \in Enb /\ fbTimer \in FbTimers
    /\ grant \in None .. NewData /\ firstTx \in BOOLEAN /\ currentHarq \in Acid
    /\ tx \in [Acid -> [st : {"EMPTY", "WAITING", "BUFFERED"}, id : None .. MaxPdu,
                        n : 0 .. MaxHarqRtx + 1]]
    /\ rx \in [Acid -> [st : {"EMPTY", "EVALUATING"}, id : None .. MaxPdu, age : Nat,
                        ok : BOOLEAN, tries : 0 .. 1]]
    /\ known \in BOOLEAN /\ harqStatus \in [Enb -> Acid \cup {Absent}]
    /\ sent \in [enb : Enb, grant : None .. NewData, fb : SUBSET Feedback, pdu : PduFrame]
    /\ air \in [enb : Enb, grant : None .. NewData, fb : SUBSET Feedback, pdu : PduFrame]
    /\ made \in 0 .. MaxPdu /\ extracted \subseteq 1 .. made /\ discarded \subseteq 1 .. made
    /\ handovers \in 0 .. HandoverMax /\ undisturbed \in BOOLEAN

\* What a phase finds in the frames; only what came from this cell counts.
PhaseInv ==
    /\ phase = "Enb" => sent.grant = None /\ sent.fb = {}
    /\ phase # "Arrive" => sent.pdu = NoPdu
    /\ phase # "Enb" => sent.enb = cell
    /\ phase = "Arrive" => grant = None
    /\ air.enb # cell => sent.fb = {} /\ \A p \in Acid : rx[p].st = "EMPTY"
    /\ ~firstTx => /\ \A p \in Acid : tx[p].st = "EMPTY"
                   /\ made = 0

\* The units of the UE.
UnitInv ==
    /\ \A p \in Acid : /\ tx[p].st = "EMPTY" => tx[p] = EmptyTx
                       /\ rx[p].st = "EMPTY" => rx[p] = EmptyRx
                       /\ tx[p].st # "EMPTY" => /\ tx[p].id \in 1 .. made
                                                /\ tx[p].id \notin discarded
                                                /\ tx[p].n > 0
                       /\ tx[p].st = "BUFFERED" => /\ tx[p].n <= MaxHarqRtx
                                                   /\ tx[p].id \notin extracted
    /\ \A p, q \in Acid : tx[p].st # "EMPTY" /\ tx[p].id = tx[q].id => p = q

SentPdu(p) == sent.pdu.id # None /\ sent.pdu.acid = p
AirPdu(p) == air.enb = cell /\ air.pdu.id # None /\ air.pdu.acid = p
Evaluating(p) == rx[p].st = "EVALUATING"
SentFb(p) == \E f \in sent.fb : f.acid = p
AirFb(p) == air.enb = cell /\ \E f \in air.fb : f.acid = p

\* A unit waits as long as its PDU or feedback is somewhere ...
WaitingInv ==
    \A p \in Acid : tx[p].st = "WAITING"
                      <=> SentPdu(p) \/ AirPdu(p) \/ Evaluating(p) \/ SentFb(p) \/ AirFb(p)

\* ... and the time since its turn says where.
StageInv ==
    \A p \in Acid :
        /\ SentPdu(p) => sent.pdu.id = tx[p].id /\ Since(p) = 0
        /\ AirPdu(p) => air.pdu.id = tx[p].id /\ Since(p) = 1
        /\ Evaluating(p) => /\ rx[p].id = tx[p].id /\ rx[p].tries = 1 /\ known
                            /\ rx[p].age < RoundTrip - 3
                            /\ phase # "Enb" => rx[p].age > 0
                            /\ Since(p) = rx[p].age + (IF phase = "Enb" THEN 2 ELSE 1)
        /\ SentFb(p) => Since(p) = RoundTrip - 2
        /\ AirFb(p) => Since(p) = RoundTrip - 1

\* One feedback for a unit, with its id.
FeedbackInv ==
    /\ \A f \in sent.fb : f.id = tx[f.acid].id
    /\ \A f, g \in sent.fb : f.acid = g.acid => f = g
    /\ air.enb = cell => \A f \in air.fb : f.id = tx[f.acid].id
    /\ \A f, g \in air.fb : f.acid = g.acid => f = g

IInv == TypeInv /\ PhaseInv /\ UnitInv /\ WaitingInv /\ StageInv /\ FeedbackInv
        /\ PassedOnIsDone

-----------------------------------------------------------------------------
(* The counters and the grants, from the first PDU to the first handover *)

FirstPdu == [acid |-> HarqProcesses - 2, id |-> 1, ndi |-> TRUE]

CounterInv ==
    undisturbed =>
        /\ air.enb = cell
        /\ ~known => /\ harqStatus[cell] = Absent
                     /\ firstTx => \/ sent.pdu = FirstPdu /\ air.pdu = NoPdu
                                   \/ air.pdu = FirstPdu
        /\ known => firstTx
        /\ known /\ phase = "Enb" => UpdateHarqDescs = currentHarq
        /\ known /\ phase # "Enb" => harqStatus[cell] = Now

\* A grant for a PDU travels with its NACK, two TTIs ahead of its turn.
GrantInv ==
    undisturbed =>
        /\ sent.grant \in Pdu => \E f \in sent.fb :
              f.id = sent.grant /\ ~f.ok /\ Since(f.acid) = HarqProcesses - 2
        /\ air.grant \in Pdu => \E f \in air.fb :
              f.id = air.grant /\ ~f.ok /\ Since(f.acid) = HarqProcesses - 1
        /\ grant \in Pdu => /\ firstTx
                            /\ \/ grant \in discarded
                               \/ tx[Now].st = "BUFFERED" /\ tx[Now].id = grant

\* If the round trip takes a round, a NACK has its grant with it.
NackInv ==
    undisturbed =>
        /\ \A f \in sent.fb : ~f.ok => (sent.grant = f.id <=> FitsInRound /\ MaxHarqRtx > 0)
        /\ FitsInRound /\ MaxHarqRtx > 0 => \A f \in air.fb : ~f.ok => air.grant = f.id
        /\ FitsInRound => \A p \in Acid : tx[p].st = "BUFFERED" =>
              phase # "Arrive" /\ firstTx /\ p = Now /\ grant = tx[p].id

TurnInv == CounterInv /\ GrantInv /\ NackInv

-----------------------------------------------------------------------------
(* The clock *)

\* There are at least four processes, and the feedback of one is back in time.
LEMMA RoundTripFits ==
    ASSUME TypeInv
    PROVE  /\ HarqProcesses \in Nat /\ HarqProcesses >= 4 /\ fbTimer \in Nat
           /\ RoundTrip \in Nat /\ 4 <= RoundTrip /\ RoundTrip <= HarqProcesses
<1>1. RoundTripOf(fbTimer) <= HarqProcesses
  BY RoundTripAssumption DEF TypeInv
<1>2. fbTimer \in Nat /\ HarqProcesses \in Nat
  BY HarqAssumption DEF TypeInv
<1> QED
  BY <1>1, <1>2 DEF RoundTrip, RoundTripOf

\* The process that is k turns later, without the modulus.
LEMMA SuccIs ==
    ASSUME HarqProcesses \in Nat, HarqProcesses >= 4, NEW p \in Acid, NEW k \in {1, 2}
    PROVE  /\ Succ(p, k) = IF p + k < HarqProcesses THEN p + k ELSE p + k - HarqProcesses
           /\ Succ(p, k) \in Acid
<1> DEFINE n == p + k
<1>1. n \in Nat /\ n < 2 * HarqProcesses
  BY DEF Acid
<1>2. CASE n < HarqProcesses
  <2>1. n % HarqProcesses = n
    BY <1>1, <1>2
  <2> QED
    BY <2>1, <1>1, <1>2 DEF Succ, Acid
<1>3. CASE n >= HarqProcesses
  <2>1. n % HarqProcesses = n - HarqProcesses
    BY <1>1, <1>3
  <2> QED
    BY <2>1, <1>1, <1>3 DEF Succ, Acid
<1> QED
  BY <1>1, <1>2, <1>3

LEMMA SinceRange ==
    ASSUME TypeInv
    PROVE  /\ Now \in Acid
           /\ \A p \in Acid : Since(p) \in 0 .. HarqProcesses - 1
           /\ \A p, q \in Acid : Since(p) = Since(q) => p = q
<1>1. Now \in Acid
  BY RoundTripFits DEF TypeInv, Acid, Now
<1> QED
  BY <1>1, RoundTripFits DEF Since, Acid

\* Time passes when the frames arrive, and only then.
LEMMA SinceInArrive ==
    ASSUME TypeInv, phase = "Arrive", phase' = "Enb", currentHarq' = currentHarq
    PROVE  /\ Now' = IF Now = HarqProcesses - 1 THEN 0 ELSE Now + 1
           /\ \A p \in Acid : Since(p)' = IF Since(p) = HarqProcesses - 1 THEN 0
                                          ELSE Since(p) + 1
<1>1. Now' = IF Now = HarqProcesses - 1 THEN 0 ELSE Now + 1
  BY RoundTripFits DEF TypeInv, Acid, Now
<1> QED
  BY <1>1, RoundTripFits, SinceRange DEF Since, Acid

LEMMA SinceInLoops ==
    ASSUME TypeInv, phase # "Arrive",
           currentHarq' = IF phase' = "Arrive" THEN Succ(currentHarq, 1) ELSE currentHarq
    PROVE  Now' = Now /\ \A p \in Acid : Since(p)' = Since(p)
<1>1. currentHarq \in Acid /\ Now = currentHarq
  BY DEF TypeInv, Now
<1>2. CASE phase' = "Arrive"
  <2>1. currentHarq' = IF currentHarq + 1 < HarqProcesses THEN currentHarq + 1
                       ELSE currentHarq + 1 - HarqProcesses
    BY <1>1, <1>2, RoundTripFits, SuccIs
  <2>2. Now' = currentHarq
    BY <1>1, <1>2, <2>1, RoundTripFits DEF Now, Acid
  <2> QED
    BY <1>1, <2>2 DEF Since
<1>3. CASE phase' # "Arrive"
  BY <1>1, <1>3 DEF Now, Since
<1> QED
  BY <1>2, <1>3

-----------------------------------------------------------------------------
(* The invariant holds initially *)

LEMMA InitInv ==
    ASSUME Init
    PROVE  IInv
<1> USE HarqAssumption
<1>1. TypeInv
  <2>1. HarqProcesses \in Nat /\ HarqProcesses >= 4
    BY RoundTripAssumption DEF Init, RoundTripOf
  <2>2. /\ sent \in [enb : Enb, grant : None .. NewData, fb : SUBSET Feedback, pdu : PduFrame]
        /\ air = sent
    BY DEF Init, Frames, NewData, None, PduFrame
  <2>3. /\ tx \in [Acid -> [st : {"EMPTY", "WAITING", "BUFFERED"}, id : None .. MaxPdu,
                            n : 0 .. MaxHarqRtx + 1]]
        /\ rx \in [Acid -> [st : {"EMPTY", "EVALUATING"}, id : None .. MaxPdu, age : Nat,
                            ok : BOOLEAN, tries : 0 .. 1]]
    BY DEF Init, EmptyTx, EmptyRx, None
  <2>4. harqStatus \in [Enb -> Acid \cup {Absent}]
    BY DEF Init
  <2>5. MaxPdu \in Nat /\ HandoverMax \in Nat
    OBVIOUS
  <2>6. grant \in None .. NewData /\ currentHarq \in Acid /\ made \in 0 .. MaxPdu
        /\ handovers \in 0 .. HandoverMax
    BY <2>1, <2>5 DEF Init, NewData, None, Acid
  <2>7. extracted \subseteq 1 .. made /\ discarded \subseteq 1 .. made
    BY DEF Init
  <2>8. /\ phase \in {"Enb", "Ue", "Arrive"} /\ cell \in Enb /\ fbTimer \in FbTimers
        /\ firstTx \in BOOLEAN /\ known \in BOOLEAN /\ undisturbed \in BOOLEAN
    BY DEF Init
  <2> QED
    BY <2>2, <2>3, <2>4, <2>6, <2>7, <2>8 DEF TypeInv
<1>2. PhaseInv /\ UnitInv
  BY DEF Init, PhaseInv, UnitInv, Frames, EmptyTx, EmptyRx
<1>3. \A p \in Acid : ~SentPdu(p) /\ ~AirPdu(p) /\ ~Evaluating(p) /\ ~SentFb(p) /\ ~AirFb(p)
  BY DEF Init, SentPdu, AirPdu, Evaluating, SentFb, AirFb, Frames, NoPdu, EmptyRx
<1>4. WaitingInv /\ StageInv
  BY <1>3 DEF Init, WaitingInv, StageInv, EmptyTx
<1>5. FeedbackInv /\ PassedOnIsDone
  BY DEF Init, FeedbackInv, PassedOnIsDone, Frames
<1> QED
  BY <1>1, <1>2, <1>4, <1>5 DEF IInv

-----------------------------------------------------------------------------
(* The main loop of the eNodeB *)

\* The processes that are evaluated in this loop.
Done == {p \in Acid : rx[p].st = "EVALUATING" /\ rx[p].age = RoundTrip - 4}

\* The unit of a process after the loop, if it is not.
Units == [p \in Acid |-> Aged(rx[p])]

LEMMA DoneIs ==
    ASSUME IInv, phase = "Enb"
    PROVE  Done = {p \in Acid : IsEvaluated(Units[p])}
<1> SUFFICES ASSUME NEW p \in Acid
             PROVE  p \in Done <=> IsEvaluated(Units[p])
  BY DEF Done
<1>1. rx[p].st = "EVALUATING" => rx[p].age < RoundTrip - 3
  BY DEF IInv, StageInv, Evaluating
<1>2. rx[p].age \in Nat /\ fbTimer \in Nat
  BY RoundTripFits DEF IInv, TypeInv
<1>3. CASE rx[p].st = "EVALUATING"
  <2>1. Units[p].st = "EVALUATING" /\ Units[p].age = rx[p].age + 1
    BY <1>3 DEF Units, Aged, IInv, TypeInv
  <2> QED
    BY <2>1, <1>1, <1>2, <1>3 DEF Done, IsEvaluated, RoundTrip, RoundTripOf
<1>4. CASE rx[p].st # "EVALUATING"
  BY <1>4 DEF Done, Units, Aged, IsEvaluated
<1> QED
  BY <1>3, <1>4

\* What the loop does, in terms of Done.
LEMMA EnbLoopIs ==
    ASSUME IInv, EnbLoop
    PROVE  /\ phase = "Enb" /\ phase' = "Ue"
           /\ \E g \in Schedule(Units, UpdateHarqDescs) :
                sent' = Frames(g, {[acid |-> p, id |-> rx[p].id, ok |-> rx[p].ok] : p \in Done})
           /\ extracted' = extracted \cup {rx[p].id : p \in {q \in Done : rx[q].ok}}
           /\ rx' = [p \in Acid |-> IF p \in Done THEN EmptyRx ELSE Aged(rx[p])]
           /\ harqStatus' = [harqStatus EXCEPT ![cell] = UpdateHarqDescs]
           /\ UNCHANGED <<cell, fbTimer, ueVars, known, air, handovers, undisturbed>>
<1>1. phase = "Enb"
  BY DEF EnbLoop
<1>2. Done = {p \in Acid : IsEvaluated(Units[p])}
  BY <1>1, DoneIs
<1>3. Correct(Units) = {q \in Done : rx[q].ok}
  <2>1. \A p \in Acid : Units[p].ok = rx[p].ok
    BY DEF Units, Aged, IInv, TypeInv
  <2> QED
    BY <1>2, <2>1 DEF Correct
<1> QED
  BY <1>1, <1>2, <1>3 DEF EnbLoop, Units

LEMMA UpdateHarqDescsType ==
    ASSUME TypeInv
    PROVE  UpdateHarqDescs \in Acid \cup {Absent}
<1>1. harqStatus[cell] \in Acid \cup {Absent}
  BY DEF TypeInv
<1>2. 0 \in Acid /\ (harqStatus[cell] \in Acid => Succ(harqStatus[cell], 1) \in Acid)
  BY RoundTripFits, SuccIs DEF Acid
<1> QED
  BY <1>1, <1>2 DEF UpdateHarqDescs

LEMMA EnbLoopTypes ==
    ASSUME IInv, EnbLoop
    PROVE  TypeInv'
<1>1. TypeInv
  BY DEF IInv
<1>2. harqStatus' \in [Enb -> Acid \cup {Absent}]
  BY <1>1, EnbLoopIs, UpdateHarqDescsType DEF TypeInv
<1>3. \A p \in Acid : rx[p].st = "EVALUATING" => rx[p].id \in 1 .. made
  BY DEF IInv, WaitingInv, StageInv, UnitInv, Evaluating
<1>4. rx' \in [Acid -> [st : {"EMPTY", "EVALUATING"}, id : None .. MaxPdu, age : Nat,
                        ok : BOOLEAN, tries : 0 .. 1]]
  <2>1. EmptyRx \in [st : {"EMPTY", "EVALUATING"}, id : None .. MaxPdu, age : Nat,
                     ok : BOOLEAN, tries : 0 .. 1]
    BY HarqAssumption DEF EmptyRx, None
  <2>2. \A p \in Acid : Aged(rx[p]) \in [st : {"EMPTY", "EVALUATING"}, id : None .. MaxPdu,
                                         age : Nat, ok : BOOLEAN, tries : 0 .. 1]
    BY <1>1 DEF TypeInv, Aged
  <2> QED
    BY <2>1, <2>2, EnbLoopIs
<1>5. extracted' \subseteq 1 .. made
  <2>1. extracted \subseteq 1 .. made
    BY <1>1 DEF TypeInv
  <2>2. \A p \in Done : rx[p].id \in 1 .. made
    BY <1>3 DEF Done
  <2>3. extracted' = extracted \cup {rx[p].id : p \in {q \in Done : rx[q].ok}}
    BY EnbLoopIs
  <2> QED
    BY <2>1, <2>2, <2>3
<1>6. sent' \in [enb : Enb, grant : None .. NewData, fb : SUBSET Feedback, pdu : PduFrame]
  <2>1. PICK g \in Schedule(Units, UpdateHarqDescs) :
          sent' = Frames(g, {[acid |-> p, id |-> rx[p].id, ok |-> rx[p].ok] : p \in Done})
    BY EnbLoopIs
  <2>2. \A p \in Acid : Units[p].id \in None .. MaxPdu
    BY <1>1 DEF TypeInv, Units, Aged
  <2>3. \A p \in Corrupted(Units) : p \in Acid
    BY DEF Corrupted
  <2>4. g \in None .. NewData
    BY <2>1, <2>2, <2>3, HarqAssumption DEF Schedule, NewData, None
  <2>5. \A p \in Done : [acid |-> p, id |-> rx[p].id, ok |-> rx[p].ok] \in Feedback
    BY <1>1, <1>3 DEF Done, Feedback, TypeInv, Pdu
  <2> QED
    BY <1>1, <2>1, <2>4, <2>5 DEF Frames, PduFrame, TypeInv
<1> QED
  BY <1>1, <1>2, <1>4, <1>5, <1>6, EnbLoopIs DEF TypeInv, ueVars

LEMMA EnbLoopInv ==
    ASSUME IInv, EnbLoop
    PROVE  IInv'
<1>1. TypeInv /\ TypeInv'
  BY EnbLoopTypes DEF IInv
<1>2. phase = "Enb" /\ phase' = "Ue" /\ cell' = cell /\ tx' = tx /\ air' = air /\ made' = made
      /\ discarded' = discarded /\ known' = known /\ firstTx' = firstTx /\ RoundTrip' = RoundTrip
      /\ currentHarq' = currentHarq
  BY EnbLoopIs DEF ueVars, RoundTrip
<1>3. PICK g : sent' = Frames(g, {[acid |-> p, id |-> rx[p].id, ok |-> rx[p].ok] : p \in Done})
  BY EnbLoopIs
<1>4. /\ sent'.enb = cell /\ sent'.pdu = NoPdu
      /\ sent'.fb = {[acid |-> p, id |-> rx[p].id, ok |-> rx[p].ok] : p \in Done}
  BY <1>3 DEF Frames
<1>5. \A p \in Acid : Since(p)' = Since(p)
  <2>1. phase # "Arrive" /\ phase' # "Arrive" /\ currentHarq' = currentHarq
    BY <1>2
  <2> QED
    BY <1>1, <2>1, SinceInLoops
<1>6. \A p \in Acid :
        /\ p \in Done => rx'[p] = EmptyRx
        /\ p \notin Done => rx'[p] = Aged(rx[p])
  BY EnbLoopIs
<1>7. \A p \in Acid :
        /\ Evaluating(p)' <=> Evaluating(p) /\ p \notin Done
        /\ SentFb(p)' <=> p \in Done
        /\ Evaluating(p)' => rx'[p].age = rx[p].age + 1 /\ rx'[p].id = rx[p].id
                             /\ rx'[p].tries = rx[p].tries
        /\ AirPdu(p)' <=> AirPdu(p)
        /\ AirFb(p)' <=> AirFb(p)
        /\ ~SentPdu(p)' /\ ~SentPdu(p) /\ ~SentFb(p)
  <2>1. \A p \in Acid : SentFb(p)' <=> p \in Done
    <3>1. \A f \in sent'.fb : f.acid \in Done
      BY <1>4
    <3>2. \A p \in Done : [acid |-> p, id |-> rx[p].id, ok |-> rx[p].ok] \in sent'.fb
      BY <1>4
    <3>3. \A p \in Done : \E f \in sent'.fb : f.acid = p
      BY <3>2
    <3>4. \A p : SentFb(p)' <=> \E f \in sent'.fb : f.acid = p
      BY DEF SentFb
    <3> QED
      BY <3>1, <3>3, <3>4
  <2>2. sent.fb = {} /\ sent.pdu = NoPdu
    BY <1>2 DEF IInv, PhaseInv
  <2>3. \A p \in Acid : Evaluating(p)' <=> Evaluating(p) /\ p \notin Done
    BY <1>1, <1>6 DEF Evaluating, EmptyRx, Aged, TypeInv
  <2>4. \A p \in Acid : Evaluating(p)' => rx'[p].age = rx[p].age + 1 /\ rx'[p].id = rx[p].id
                             /\ rx'[p].tries = rx[p].tries
    BY <1>1, <1>6, <2>3 DEF Evaluating, Aged, TypeInv
  <2>5. \A p \in Acid : (AirPdu(p)' <=> AirPdu(p)) /\ (AirFb(p)' <=> AirFb(p))
    BY <1>2 DEF AirPdu, AirFb
  <2> QED
    BY <1>4, <2>1, <2>2, <2>3, <2>4, <2>5 DEF SentPdu, SentFb, NoPdu
<1>8. \A p \in Done : p \in Acid /\ Evaluating(p) /\ rx[p].age = RoundTrip - 4
  BY DEF Done, Evaluating
<1>9. PhaseInv'
  <2>1. air.enb # cell => \A p \in Acid : rx'[p].st = "EMPTY"
    BY <1>6, <1>8 DEF IInv, PhaseInv, Evaluating, Aged, EmptyRx
  <2>2. air.enb # cell => Done = {}
    BY <1>8 DEF IInv, PhaseInv, Evaluating
  <2> QED
    BY <1>2, <1>4, <2>1, <2>2 DEF IInv, PhaseInv
<1>10. UnitInv'
  <2>1. \A p \in Acid : rx'[p].st = "EMPTY" => rx'[p] = EmptyRx
    BY <1>1, <1>6 DEF IInv, UnitInv, Aged, TypeInv
  <2>2. \A p \in Acid : tx[p].st = "BUFFERED" => tx[p].id \notin extracted'
    <3>1. \A p \in Acid, q \in Done : tx[p].st = "BUFFERED" => tx[p].id # rx[q].id
      BY <1>8 DEF IInv, UnitInv, WaitingInv, StageInv
    <3> QED
      BY <3>1, EnbLoopIs DEF IInv, UnitInv
  <2> QED
    BY <1>2, <2>1, <2>2 DEF IInv, UnitInv
<1>11. WaitingInv'
  BY <1>2, <1>7, <1>8 DEF IInv, WaitingInv
<1>12. StageInv'
  <2> SUFFICES ASSUME NEW p \in Acid
               PROVE  /\ AirPdu(p) => air.pdu.id = tx[p].id /\ Since(p) = 1
                      /\ Evaluating(p)' => /\ rx'[p].id = tx[p].id /\ rx'[p].tries = 1 /\ known
                                           /\ rx'[p].age < RoundTrip - 3 /\ rx'[p].age > 0
                                           /\ Since(p) = rx'[p].age + 1
                      /\ p \in Done => Since(p) = RoundTrip - 2
                      /\ AirFb(p) => Since(p) = RoundTrip - 1
    BY <1>2, <1>5, <1>7 DEF StageInv
  <2>1. /\ Evaluating(p) => /\ rx[p].id = tx[p].id /\ rx[p].tries = 1 /\ known
                            /\ rx[p].age < RoundTrip - 3 /\ Since(p) = rx[p].age + 2
        /\ AirPdu(p) => air.pdu.id = tx[p].id /\ Since(p) = 1
        /\ AirFb(p) => Since(p) = RoundTrip - 1
        /\ rx[p].age \in Nat /\ RoundTrip \in Nat
    BY <1>2, <1>1, RoundTripFits DEF IInv, StageInv, TypeInv
  <2>2. Evaluating(p)' => rx[p].age # RoundTrip - 4 /\ Evaluating(p)
    BY <1>7 DEF Done, Evaluating
  <2> QED
    BY <1>7, <1>8, <2>1, <2>2
<1>13. FeedbackInv'
  <2>1. \A f \in sent'.fb : f.id = tx[f.acid].id
    BY <1>4, <1>8 DEF IInv, StageInv
  <2>2. \A f, h \in sent'.fb : f.acid = h.acid => f = h
    BY <1>4
  <2> QED
    BY <1>2, <2>1, <2>2 DEF IInv, FeedbackInv
<1>14. PassedOnIsDone'
  <2> SUFFICES ASSUME NEW id \in extracted'
               PROVE  /\ id \notin discarded /\ id \notin {None, air.pdu.id}
                      /\ \A p \in Acid : tx[p].id = id =>
                            tx[p].st = "WAITING"
                            /\ [acid |-> p, id |-> id, ok |-> TRUE] \in sent'.fb \cup air.fb
    BY <1>2, <1>4 DEF PassedOnIsDone, NoPdu
  <2>1. CASE id \in extracted
    <3>1. id # None
      BY <1>1, <2>1 DEF TypeInv, None
    <3>2. sent.fb = {}
      BY <1>2 DEF IInv, PhaseInv
    <3> QED
      BY <2>1, <3>1, <3>2 DEF IInv, PassedOnIsDone
  <2>2. CASE id \notin extracted
    <3>1. PICK q \in Done : rx[q].ok /\ id = rx[q].id
      BY <2>2, EnbLoopIs
    <3>2. q \in Acid /\ tx[q].st = "WAITING" /\ tx[q].id = id /\ air.enb = cell
      BY <1>8, <3>1 DEF IInv, WaitingInv, StageInv, PhaseInv, Evaluating
    <3>3. id \in 1 .. made /\ id \notin discarded
      BY <3>2 DEF IInv, UnitInv
    <3>4. id # None
      BY <3>3, <1>1 DEF None, TypeInv
    <3>5. id # air.pdu.id
      <4> SUFFICES ASSUME id = air.pdu.id PROVE FALSE
        OBVIOUS
      <4>1. air.pdu.acid \in Acid
        BY <1>1, <3>4 DEF TypeInv, PduFrame, NoPdu
      <4>2. AirPdu(air.pdu.acid)
        BY <3>2, <3>4 DEF AirPdu
      <4>3. tx[air.pdu.acid].id = id /\ Since(air.pdu.acid) = 1
        BY <4>1, <4>2 DEF IInv, StageInv
      <4>4. air.pdu.acid = q
        BY <3>2, <4>1, <4>3 DEF IInv, UnitInv
      <4>5. Since(q) = rx[q].age + 2 /\ rx[q].age \in Nat
        BY <1>1, <1>2, <1>8, <3>2 DEF IInv, StageInv, TypeInv
      <4> QED
        BY <4>3, <4>4, <4>5
    <3>6. \A p \in Acid : tx[p].id = id => p = q
      BY <3>2 DEF IInv, UnitInv
    <3>7. [acid |-> q, id |-> id, ok |-> TRUE] \in sent'.fb
      <4>1. rx[q].ok = TRUE
        BY <1>1, <3>1, <3>2 DEF TypeInv
      <4> QED
        BY <1>4, <3>1, <4>1
    <3> QED
      BY <3>2, <3>3, <3>4, <3>5, <3>6, <3>7
  <2> QED
    BY <2>1, <2>2
<1> QED
  BY <1>1, <1>9, <1>10, <1>11, <1>12, <1>13, <1>14 DEF IInv

-----------------------------------------------------------------------------
(* The main loop of the UE *)

LEMMA UeTurnIs ==
    ASSUME IInv, UeTurn
    PROVE  /\ phase = "Ue" /\ phase' = "Arrive" /\ grant' = None
           /\ firstTx' = (firstTx \/ grant # None)
           /\ Turn \in Acid /\ currentHarq' \in Acid
           /\ grant # None => Now' = Turn /\ \A p \in Acid : p = Turn => Since(p)' = 0
           /\ firstTx => \A p \in Acid : Since(p)' = Since(p)
           /\ firstTx => Turn = Now /\ Now' = Now
           /\ UNCHANGED <<cell, fbTimer, known, rx, harqStatus, extracted, air, discarded,
                          handovers>>
<1>1. TypeInv /\ HarqProcesses \in Nat /\ HarqProcesses >= 4
  BY RoundTripFits DEF IInv
<1>2. phase = "Ue" /\ phase' = "Arrive" /\ currentHarq \in Acid /\ Turn \in Acid
  BY <1>1 DEF UeTurn, Turn, TypeInv, Acid
<1>3. currentHarq' = Succ(IF grant = None THEN currentHarq ELSE Turn, 1)
  BY DEF UeTurn, Advance
<1>4. currentHarq' \in Acid
  BY <1>1, <1>2, <1>3, SuccIs
<1>5. ASSUME grant # None
      PROVE  Now' = Turn /\ \A p \in Acid : p = Turn => Since(p)' = 0
  <2>1. currentHarq' = IF Turn + 1 < HarqProcesses THEN Turn + 1 ELSE Turn + 1 - HarqProcesses
    BY <1>1, <1>2, <1>3, <1>5, SuccIs
  <2>2. Now' = Turn
    BY <1>1, <1>2, <2>1 DEF Now, Acid
  <2> QED
    BY <1>2, <2>2 DEF Since, Acid
<1>6. ASSUME firstTx
      PROVE  Now' = Now /\ \A p \in Acid : Since(p)' = Since(p)
  <2>1. currentHarq' = Succ(currentHarq, 1)
    BY <1>3, <1>6 DEF Turn
  <2> QED
    BY <1>1, <1>2, <2>1, SinceInLoops
<1>7. firstTx => Turn = Now
  BY <1>2 DEF Turn, Now
<1> QED
  BY <1>2, <1>4, <1>5, <1>6, <1>7 DEF UeTurn, enbVars

\* Before the first grant nothing is under way.
LEMMA NothingBeforeFirstTx ==
    ASSUME IInv, ~firstTx, NEW p \in Acid
    PROVE  ~SentPdu(p) /\ ~AirPdu(p) /\ ~Evaluating(p) /\ ~SentFb(p) /\ ~AirFb(p)
BY DEF IInv, PhaseInv, WaitingInv

\* In the turn of a process that does not wait, nothing of it is under way.
LEMMA NothingOfFreeUnit ==
    ASSUME IInv, NEW p \in Acid, tx[p].st # "WAITING"
    PROVE  ~SentPdu(p) /\ ~AirPdu(p) /\ ~Evaluating(p) /\ ~SentFb(p) /\ ~AirFb(p)
BY DEF IInv, WaitingInv

\* A turn without a transmission; a PDU may have been made and deleted.
LEMMA SilentTurnInv ==
    ASSUME IInv, UeTurn, tx' = tx, sent' = sent, undisturbed' \in BOOLEAN,
           \/ made' = made
           \/ grant # None /\ made' = made + 1 /\ made < MaxPdu
    PROVE  IInv'
<1>1. TypeInv /\ HarqProcesses \in Nat /\ HarqProcesses >= 4
  BY RoundTripFits DEF IInv
<1>2. /\ phase = "Ue" /\ phase' = "Arrive" /\ grant' = None /\ currentHarq' \in Acid
      /\ firstTx' = (firstTx \/ grant # None)
      /\ UNCHANGED <<cell, fbTimer, known, rx, harqStatus, extracted, air, discarded, handovers>>
  BY UeTurnIs
<1>3. made' \in 0 .. MaxPdu /\ made <= made' /\ (made' = made \/ grant # None)
  BY <1>1, HarqAssumption DEF TypeInv
<1>4. TypeInv'
  <2>1. grant' \in None .. NewData
    BY <1>2, HarqAssumption DEF None, NewData
  <2>2. extracted \subseteq 1 .. made' /\ discarded \subseteq 1 .. made'
    BY <1>1, <1>3 DEF TypeInv
  <2> QED
    BY <1>1, <1>2, <1>3, <2>1, <2>2 DEF TypeInv
<1>5. PhaseInv'
  BY <1>2, <1>3 DEF IInv, PhaseInv
<1>6. UnitInv'
  <2>1. \A p \in Acid : tx[p].id \in 1 .. made => tx[p].id \in 1 .. made'
    BY <1>1, <1>3 DEF TypeInv
  <2> QED
    BY <1>2, <2>1 DEF IInv, UnitInv
<1>7. \A p \in Acid : /\ SentPdu(p)' <=> SentPdu(p)
                      /\ AirPdu(p)' <=> AirPdu(p)
                      /\ Evaluating(p)' <=> Evaluating(p)
                      /\ SentFb(p)' <=> SentFb(p)
                      /\ AirFb(p)' <=> AirFb(p)
  BY <1>2 DEF SentPdu, AirPdu, Evaluating, SentFb, AirFb
<1>8. WaitingInv'
  BY <1>7 DEF IInv, WaitingInv
<1>9. StageInv'
  <2>1. CASE firstTx
    <3>1. \A p \in Acid : Since(p)' = Since(p)
      BY <2>1, UeTurnIs
    <3> QED
      BY <1>2, <1>7, <3>1 DEF IInv, StageInv, RoundTrip
  <2>2. CASE ~firstTx
    BY <1>7, <2>2, NothingBeforeFirstTx DEF StageInv
  <2> QED
    BY <2>1, <2>2
<1>10. FeedbackInv' /\ PassedOnIsDone'
  BY <1>2 DEF IInv, FeedbackInv, PassedOnIsDone
<1> QED
  BY <1>4, <1>5, <1>6, <1>8, <1>9, <1>10 DEF IInv

\* A turn with one: the unit did not wait, and the PDU is in no other unit.
LEMMA TransmitInv ==
    ASSUME IInv, UeTurn, grant # None, NEW id, NEW n, Transmit(Turn, id, n),
           tx[Turn].st # "WAITING", made' \in 0 .. MaxPdu, made <= made',
           id \in 1 .. made', id \notin discarded, id \notin extracted,
           n \in 1 .. MaxHarqRtx + 1, undisturbed' \in BOOLEAN,
           \A q \in Acid : q # Turn => tx[q].id # id
    PROVE  IInv'
<1>1. TypeInv /\ HarqProcesses \in Nat /\ HarqProcesses >= 4 /\ MaxPdu \in Nat
  BY RoundTripFits, HarqAssumption DEF IInv
<1>2. /\ phase = "Ue" /\ phase' = "Arrive" /\ grant' = None /\ currentHarq' \in Acid /\ firstTx'
      /\ Turn \in Acid /\ \A p \in Acid : p = Turn => Since(p)' = 0
      /\ UNCHANGED <<cell, fbTimer, known, rx, harqStatus, extracted, air, discarded, handovers>>
  BY UeTurnIs
<1>3. /\ tx'[Turn] = [st |-> "WAITING", id |-> id, n |-> n]
      /\ \A q \in Acid : q # Turn => tx'[q] = tx[q]
      /\ sent'.pdu = [acid |-> Turn, id |-> id, ndi |-> n = 1]
      /\ sent'.enb = sent.enb /\ sent'.grant = sent.grant /\ sent'.fb = sent.fb
  BY <1>1, <1>2 DEF Transmit, TypeInv
<1>4. id \in Pdu /\ id # None
  BY <1>1 DEF Pdu, None
<1>5. ~SentPdu(Turn) /\ ~AirPdu(Turn) /\ ~Evaluating(Turn) /\ ~SentFb(Turn) /\ ~AirFb(Turn)
  BY <1>2, NothingOfFreeUnit
<1>6. \A p \in Acid : /\ SentPdu(p)' <=> p = Turn
                      /\ ~SentPdu(p)
                      /\ AirPdu(p)' <=> AirPdu(p)
                      /\ Evaluating(p)' <=> Evaluating(p)
                      /\ SentFb(p)' <=> SentFb(p)
                      /\ AirFb(p)' <=> AirFb(p)
  BY <1>2, <1>3, <1>4 DEF SentPdu, AirPdu, Evaluating, SentFb, AirFb, IInv, PhaseInv, NoPdu
<1>7. TypeInv'
  <2>1. grant' \in None .. NewData
    BY <1>2, HarqAssumption DEF None, NewData
  <2>2. extracted \subseteq 1 .. made' /\ discarded \subseteq 1 .. made'
    BY <1>1 DEF TypeInv
  <2>3. tx' \in [Acid -> [st : {"EMPTY", "WAITING", "BUFFERED"}, id : None .. MaxPdu,
                          n : 0 .. MaxHarqRtx + 1]]
    <3>1. [st |-> "WAITING", id |-> id, n |-> n] \in
            [st : {"EMPTY", "WAITING", "BUFFERED"}, id : None .. MaxPdu, n : 0 .. MaxHarqRtx + 1]
      BY HarqAssumption DEF None
    <3> QED
      BY <1>1, <1>2, <3>1 DEF Transmit, TypeInv
  <2>4. sent' \in [enb : Enb, grant : None .. NewData, fb : SUBSET Feedback, pdu : PduFrame]
    <3>1. [acid |-> Turn, id |-> id, ndi |-> n = 1] \in PduFrame
      BY <1>2, <1>4 DEF PduFrame
    <3> QED
      BY <1>1, <3>1 DEF Transmit, TypeInv
  <2> QED
    BY <1>1, <1>2, <2>1, <2>2, <2>3, <2>4 DEF TypeInv
<1>8. PhaseInv'
  BY <1>2, <1>3 DEF IInv, PhaseInv
<1>9. UnitInv'
  <2>1. \A p \in Acid : tx[p].id \in 1 .. made => tx[p].id \in 1 .. made'
    BY <1>1 DEF TypeInv
  <2>2. \A p \in Acid : /\ tx'[p].st = "EMPTY" => tx'[p] = EmptyTx
                        /\ rx'[p].st = "EMPTY" => rx'[p] = EmptyRx
                        /\ tx'[p].st # "EMPTY" => /\ tx'[p].id \in 1 .. made'
                                                  /\ tx'[p].id \notin discarded
                                                  /\ tx'[p].n > 0
                        /\ tx'[p].st = "BUFFERED" => /\ tx'[p].n <= MaxHarqRtx
                                                     /\ tx'[p].id \notin extracted
    BY <1>2, <1>3, <2>1 DEF IInv, UnitInv
  <2>3. \A p, q \in Acid : tx'[p].st # "EMPTY" /\ tx'[p].id = tx'[q].id => p = q
    BY <1>2, <1>3 DEF IInv, UnitInv
  <2> QED
    BY <1>2, <2>2, <2>3 DEF UnitInv
<1>10. WaitingInv'
  BY <1>3, <1>5, <1>6 DEF IInv, WaitingInv
<1>11. StageInv'
  <2>1. CASE firstTx
    <3>1. \A p \in Acid : Since(p)' = Since(p)
      BY <2>1, UeTurnIs
    <3>2. \A p \in Acid : p # Turn => tx'[p] = tx[p] /\ ~SentPdu(p)'
      BY <1>3, <1>6
    <3>3. sent'.pdu.id = tx'[Turn].id
      BY <1>3
    <3> SUFFICES ASSUME NEW p \in Acid
                 PROVE  /\ SentPdu(p)' => sent'.pdu.id = tx'[p].id /\ Since(p)' = 0
                        /\ AirPdu(p) => air.pdu.id = tx'[p].id /\ Since(p) = 1
                        /\ Evaluating(p) => /\ rx[p].id = tx'[p].id /\ rx[p].tries = 1 /\ known
                                            /\ rx[p].age < RoundTrip - 3 /\ rx[p].age > 0
                                            /\ Since(p) = rx[p].age + 1
                        /\ SentFb(p) => Since(p) = RoundTrip - 2
                        /\ AirFb(p) => Since(p) = RoundTrip - 1
      BY <1>2, <1>6, <3>1 DEF StageInv, RoundTrip
    <3>4. CASE p = Turn
      BY <1>2, <1>5, <3>3, <3>4
    <3>5. CASE p # Turn
      BY <1>2, <3>2, <3>5 DEF IInv, StageInv
    <3> QED
      BY <3>4, <3>5
  <2>2. CASE ~firstTx
    BY <1>2, <1>3, <1>6, <2>2, NothingBeforeFirstTx DEF StageInv
  <2> QED
    BY <2>1, <2>2
<1>12. FeedbackInv'
  <2>1. \A f \in sent.fb : f.acid # Turn /\ f.acid \in Acid
    BY <1>1, <1>5 DEF SentFb, TypeInv, Feedback
  <2>2. air.enb = cell => \A f \in air.fb : f.acid # Turn /\ f.acid \in Acid
    BY <1>1, <1>5 DEF AirFb, TypeInv, Feedback
  <2> QED
    BY <1>2, <1>3, <2>1, <2>2 DEF IInv, FeedbackInv
<1>13. PassedOnIsDone'
  BY <1>2, <1>3 DEF IInv, PassedOnIsDone
<1> QED
  BY <1>7, <1>8, <1>9, <1>10, <1>11, <1>12, <1>13 DEF IInv

LEMMA UeLoopInv ==
    ASSUME IInv, UeLoop
    PROVE  IInv'
<1>1. TypeInv /\ MaxHarqRtx \in Nat /\ MaxPdu \in Nat
  BY HarqAssumption DEF IInv
<1>2. CASE UeIdle
  <2>1. UeTurn /\ tx' = tx /\ sent' = sent /\ made' = made /\ undisturbed' \in BOOLEAN
    BY <1>1, <1>2 DEF UeIdle, TypeInv
  <2> QED
    BY <2>1, SilentTurnInv
<1>3. CASE NothingToSend
  <2>1. UeTurn /\ tx' = tx /\ sent' = sent /\ made' = made /\ undisturbed' \in BOOLEAN
    BY <1>1, <1>3 DEF NothingToSend, TypeInv
  <2> QED
    BY <2>1, SilentTurnInv
<1>4. CASE Retransmit
  <2>1. Turn \in Acid
    BY <1>4, UeTurnIs DEF Retransmit
  <2>2. tx[Turn].n + 1 \in 1 .. MaxHarqRtx + 1
    BY <1>1, <1>4, <2>1 DEF IInv, UnitInv, TypeInv, Retransmit
  <2>3. \A q \in Acid : q # Turn => tx[q].id # tx[Turn].id
    BY <1>4, <2>1 DEF IInv, UnitInv, Retransmit
  <2>4. /\ tx[Turn].id \in 1 .. made /\ tx[Turn].id \notin discarded
        /\ tx[Turn].id \notin extracted
    BY <1>4, <2>1 DEF IInv, UnitInv, Retransmit
  <2>5. /\ made' \in 0 .. MaxPdu /\ made <= made' /\ undisturbed' \in BOOLEAN /\ made' = made
    BY <1>1, <1>4 DEF Retransmit, TypeInv
  <2> QED
    BY <1>4, <2>1, <2>2, <2>3, <2>4, <2>5, TransmitInv DEF Retransmit
<1>5. CASE MacPduMake
  <2>1. Turn \in Acid
    BY <1>5, UeTurnIs DEF MacPduMake
  <2>2. made' = made + 1 /\ made < MaxPdu /\ undisturbed' \in BOOLEAN /\ UeTurn /\ grant # None
    BY <1>1, <1>5 DEF MacPduMake, TypeInv
  <2>3. CASE tx[Turn].st # "EMPTY"
    BY <1>5, <2>2, <2>3, SilentTurnInv DEF MacPduMake
  <2>4. CASE tx[Turn].st = "EMPTY"
    <3>1. Transmit(Turn, made', 1)
      BY <1>5, <2>4 DEF MacPduMake
    <3>2. /\ made' \in 0 .. MaxPdu /\ made <= made' /\ made' \in 1 .. made'
          /\ 1 \in 1 .. MaxHarqRtx + 1
      BY <1>1, <2>2 DEF TypeInv
    <3>3. made' \notin discarded /\ made' \notin extracted
      BY <1>1, <2>2 DEF TypeInv
    <3>4. \A q \in Acid : tx[q].id # made'
      BY <1>1, <2>2 DEF TypeInv, IInv, UnitInv, EmptyTx, None
    <3> QED
      BY <2>2, <2>4, <3>1, <3>2, <3>3, <3>4, TransmitInv
  <2> QED
    BY <2>3, <2>4
<1> QED
  BY <1>2, <1>3, <1>4, <1>5 DEF UeLoop

-----------------------------------------------------------------------------
(* The arrival of frames *)

\* The stages are apart: each follows from the time since the turn.
LEMMA StagesApart ==
    ASSUME IInv, phase = "Arrive", NEW p \in Acid
    PROVE  /\ AirFb(p) => ~SentPdu(p) /\ ~AirPdu(p) /\ ~Evaluating(p) /\ ~SentFb(p)
           /\ SentFb(p) => ~SentPdu(p) /\ ~AirPdu(p) /\ ~Evaluating(p)
           /\ AirPdu(p) => ~SentPdu(p) /\ ~Evaluating(p)
<1>1. RoundTrip \in Nat /\ RoundTrip >= 4 /\ rx[p].age \in Nat
  BY RoundTripFits DEF IInv, TypeInv
<1> QED
  BY <1>1 DEF IInv, StageInv

\* At the end of a TTI the frames sent in it are those on the air.
LEMMA EndOfTtiIs ==
    ASSUME IInv, EndOfTti
    PROVE  /\ phase = "Arrive" /\ phase' = "Enb" /\ grant = None /\ air' = sent
           /\ sent'.enb = cell /\ sent'.grant = None /\ sent'.fb = {} /\ sent'.pdu = NoPdu
           /\ sent' \in [enb : Enb, grant : None .. NewData, fb : SUBSET Feedback, pdu : PduFrame]
           /\ \A p \in Acid : /\ ~SentPdu(p)' /\ ~SentFb(p)'
                              /\ AirPdu(p)' <=> SentPdu(p)
                              /\ AirFb(p)' <=> SentFb(p)
           /\ \A p \in Acid : Since(p) # HarqProcesses - 1 => Since(p)' = Since(p) + 1
           /\ UNCHANGED <<cell, fbTimer, firstTx, currentHarq, made, harqStatus, extracted,
                          handovers, undisturbed>>
<1>1. TypeInv
  BY DEF IInv
<1>2. /\ phase = "Arrive" /\ phase' = "Enb" /\ grant = None /\ air' = sent /\ sent.enb = cell
      /\ cell' = cell /\ currentHarq' = currentHarq
      /\ sent' = [enb |-> cell, grant |-> None, fb |-> {}, pdu |-> NoPdu]
  BY DEF EndOfTti, Frames, IInv, PhaseInv
<1>3. sent'.enb = cell /\ sent'.grant = None /\ sent'.fb = {} /\ sent'.pdu = NoPdu
  BY <1>2
<1>4. sent' \in [enb : Enb, grant : None .. NewData, fb : SUBSET Feedback, pdu : PduFrame]
  <2>1. None \in None .. NewData
    BY HarqAssumption DEF None, NewData
  <2> QED
    BY <1>1, <1>2, <2>1 DEF TypeInv, PduFrame
<1>5. \A p \in Acid : /\ ~SentPdu(p)' /\ ~SentFb(p)'
                      /\ AirPdu(p)' <=> SentPdu(p)
                      /\ AirFb(p)' <=> SentFb(p)
  BY <1>2, <1>3 DEF SentPdu, SentFb, AirPdu, AirFb, NoPdu
<1>6. \A p \in Acid : Since(p) # HarqProcesses - 1 => Since(p)' = Since(p) + 1
  BY <1>1, <1>2, SinceInArrive
<1> QED
  BY <1>2, <1>3, <1>4, <1>5, <1>6 DEF EndOfTti

LEMMA FromOldMasterInv ==
    ASSUME IInv, FromOldMaster
    PROVE  IInv'
<1>1. TypeInv /\ RoundTrip \in Nat /\ RoundTrip >= 4 /\ RoundTrip <= HarqProcesses
      /\ HarqProcesses \in Nat
  BY RoundTripFits DEF IInv
<1>2. EndOfTti /\ air.enb # cell /\ UNCHANGED <<grant, tx, discarded, known, rx>>
  BY DEF FromOldMaster
<1>3. \A p \in Acid : ~AirPdu(p) /\ ~AirFb(p) /\ ~Evaluating(p) /\ ~Evaluating(p)'
                      /\ rx[p].st = "EMPTY"
  BY <1>2 DEF AirPdu, AirFb, Evaluating, IInv, PhaseInv
<1>4. TypeInv'
  BY <1>1, <1>2, EndOfTtiIs DEF TypeInv
<1>5. PhaseInv'
  BY <1>2, <1>3, EndOfTtiIs DEF IInv, PhaseInv
<1>6. UnitInv'
  BY <1>2, EndOfTtiIs DEF IInv, UnitInv
<1>7. WaitingInv'
  BY <1>2, <1>3, EndOfTtiIs DEF IInv, WaitingInv
<1>8. StageInv'
  <2> SUFFICES ASSUME NEW p \in Acid
               PROVE  /\ SentPdu(p) => sent.pdu.id = tx[p].id /\ Since(p)' = 1
                      /\ SentFb(p) => Since(p)' = RoundTrip - 1
    BY <1>2, <1>3, EndOfTtiIs DEF StageInv, RoundTrip
  <2>1. Since(p) # HarqProcesses - 1 => Since(p)' = Since(p) + 1
    BY <1>2, EndOfTtiIs
  <2> QED
    BY <1>1, <2>1 DEF IInv, StageInv
<1>9. FeedbackInv'
  BY <1>2, EndOfTtiIs DEF IInv, FeedbackInv
<1>10. PassedOnIsDone'
  <2> SUFFICES ASSUME NEW id \in extracted
               PROVE  /\ id \notin discarded /\ id \notin {None, sent.pdu.id}
                      /\ \A p \in Acid : tx[p].id = id =>
                            tx[p].st = "WAITING" /\ [acid |-> p, id |-> id, ok |-> TRUE] \in sent.fb
    BY <1>2, EndOfTtiIs DEF PassedOnIsDone, NoPdu
  <2>1. id # None
    BY <1>1 DEF TypeInv, None
  <2>2. ASSUME NEW p \in Acid, tx[p].id = id
        PROVE  [acid |-> p, id |-> id, ok |-> TRUE] \in sent.fb
    <3>1. tx[p].st = "WAITING"
      BY <2>2 DEF IInv, PassedOnIsDone
    <3>2. SentPdu(p) \/ SentFb(p)
      BY <1>3, <3>1 DEF IInv, WaitingInv
    <3>3. ~SentPdu(p) /\ ~SentFb(p)
      BY <1>2, <2>2 DEF IInv, PassedOnIsDone, StageInv, PhaseInv, SentFb
    <3> QED
      BY <3>2, <3>3
  <2> QED
    BY <2>1, <2>2 DEF IInv, PassedOnIsDone
<1> QED
  BY <1>4, <1>5, <1>6, <1>7, <1>8, <1>9, <1>10 DEF IInv

\* What a frame with feedback does to the units: each has one feedback at most.
LEMMA ReceiveHarqFeedbackIs ==
    ASSUME IInv, air.enb = cell, ReceiveHarqFeedback
    PROVE  /\ \A p \in Acid : ~AirFb(p) => tx'[p] = tx[p]
           /\ \A f \in air.fb :
                /\ f.acid \in Acid /\ AirFb(f.acid) /\ tx[f.acid].st = "WAITING"
                /\ f.id = tx[f.acid].id
                /\ tx'[f.acid] = PduFeedback(tx[f.acid], f.ok)
                /\ ~f.ok /\ tx[f.acid].n = MaxHarqRtx + 1 => f.id \in discarded'
           /\ discarded \subseteq discarded'
           /\ \A id \in discarded' : \/ id \in discarded
                                     \/ \E f \in air.fb : ~f.ok /\ f.id = id
                                                          /\ tx[f.acid].n = MaxHarqRtx + 1
           /\ DOMAIN tx' = Acid
<1> DEFINE answered == {f.acid : f \in air.fb}
           result == [p \in answered |-> \E f \in air.fb : f.acid = p /\ f.ok]
<1>1. /\ tx' = [p \in Acid |-> IF p \in answered THEN PduFeedback(tx[p], result[p]) ELSE tx[p]]
      /\ discarded' = discarded \cup
           {tx[p].id : p \in {q \in answered : ~result[q] /\ tx[q].n = MaxHarqRtx + 1}}
  BY DEF ReceiveHarqFeedback
<1>2. \A p \in Acid : p \in answered <=> AirFb(p)
  BY DEF AirFb
<1>3. \A f \in air.fb : f.acid \in Acid /\ f.ok \in BOOLEAN /\ f.acid \in answered
  BY DEF IInv, TypeInv, Feedback
<1>4. \A f \in air.fb : AirFb(f.acid) /\ tx[f.acid].st = "WAITING" /\ f.id = tx[f.acid].id
  <2>1. \A f \in air.fb : AirFb(f.acid)
    BY DEF AirFb
  <2> QED
    BY <1>3, <2>1 DEF IInv, WaitingInv, FeedbackInv
<1>5. \A f \in air.fb : result[f.acid] = f.ok
  <2> SUFFICES ASSUME NEW f \in air.fb
               PROVE  result[f.acid] = f.ok
    OBVIOUS
  <2>1. \A g \in air.fb : g.acid = f.acid => g = f
    BY DEF IInv, FeedbackInv
  <2>2. f.acid \in answered /\ f.ok \in BOOLEAN
    BY <1>3
  <2>3. result[f.acid] = (\E g \in air.fb : g.acid = f.acid /\ g.ok)
    BY <2>2
  <2> QED
    BY <2>1, <2>2, <2>3
<1>6. \A f \in air.fb : tx'[f.acid] = PduFeedback(tx[f.acid], f.ok)
  <2> HIDE DEF answered, result
  <2> QED
    BY <1>1, <1>3, <1>5
<1>7. \A f \in air.fb : ~f.ok /\ tx[f.acid].n = MaxHarqRtx + 1 => f.id \in discarded'
  <2> HIDE DEF answered, result
  <2> QED
    BY <1>1, <1>3, <1>4, <1>5
<1>8. \A id \in discarded' : \/ id \in discarded
                             \/ \E f \in air.fb : ~f.ok /\ f.id = id
                                                  /\ tx[f.acid].n = MaxHarqRtx + 1
  <2> SUFFICES ASSUME NEW p \in answered, ~result[p], tx[p].n = MaxHarqRtx + 1
               PROVE  \E f \in air.fb : ~f.ok /\ f.id = tx[p].id
                                        /\ tx[f.acid].n = MaxHarqRtx + 1
    <3> HIDE DEF answered, result
    <3> QED
      BY <1>1
  <2>1. PICK f \in air.fb : f.acid = p
    OBVIOUS
  <2> HIDE DEF answered, result
  <2> QED
    BY <2>1, <1>4, <1>5
<1>9. \A p \in Acid : ~AirFb(p) => tx'[p] = tx[p]
  <2> HIDE DEF answered, result
  <2> QED
    BY <1>1, <1>2
<1> QED
  BY <1>1, <1>3, <1>4, <1>6, <1>7, <1>8, <1>9

LEMMA InsertPduIs ==
    ASSUME IInv, phase = "Arrive", air.enb = cell, InsertPdu
    PROVE  /\ \A p \in Acid : ~AirPdu(p) => rx'[p] = rx[p]
           /\ \A p \in Acid : AirPdu(p) => \E ok \in BOOLEAN :
                 known' /\ rx'[p] = [st |-> "EVALUATING", id |-> air.pdu.id, age |-> 0,
                                     ok |-> ok, tries |-> 1]
           /\ known' \in BOOLEAN /\ (known => known')
           /\ known' /\ ~known => \E p \in Acid : AirPdu(p)
           /\ rx' \in [Acid -> [st : {"EMPTY", "EVALUATING"}, id : None .. MaxPdu, age : Nat,
                                ok : BOOLEAN, tries : 0 .. 1]]
<1>1. TypeInv
  BY DEF IInv
<1>2. CASE air.pdu = NoPdu
  BY <1>1, <1>2 DEF InsertPdu, TypeInv, AirPdu, NoPdu
<1>3. CASE air.pdu # NoPdu
  <2>1. air.pdu.acid \in Acid /\ air.pdu.id \in Pdu /\ air.pdu.id # None
    BY <1>1, <1>3 DEF TypeInv, PduFrame, Pdu, None
  <2>2. \A p \in Acid : AirPdu(p) <=> p = air.pdu.acid
    BY <2>1 DEF AirPdu
  <2>3. rx[air.pdu.acid].tries = 0
    BY <2>1, <2>2, StagesApart DEF Evaluating, IInv, TypeInv, UnitInv, EmptyRx
  <2>4. PICK ok \in BOOLEAN : rx' = [rx EXCEPT ![air.pdu.acid] =
            [st |-> "EVALUATING", id |-> air.pdu.id, age |-> 0, ok |-> ok, tries |-> @.tries + 1]]
    BY <1>3 DEF InsertPdu
  <2>5. known' = TRUE
    BY <1>3 DEF InsertPdu
  <2>6. rx' = [rx EXCEPT ![air.pdu.acid] =
            [st |-> "EVALUATING", id |-> air.pdu.id, age |-> 0, ok |-> ok, tries |-> 1]]
    BY <2>3, <2>4
  <2>7. [st |-> "EVALUATING", id |-> air.pdu.id, age |-> 0, ok |-> ok, tries |-> 1] \in
          [st : {"EMPTY", "EVALUATING"}, id : None .. MaxPdu, age : Nat, ok : BOOLEAN,
           tries : 0 .. 1]
    BY <2>1, HarqAssumption DEF Pdu, None
  <2>8. \A p \in Acid : p # air.pdu.acid => rx'[p] = rx[p]
    BY <1>1, <2>6 DEF TypeInv
  <2>9. rx'[air.pdu.acid] = [st |-> "EVALUATING", id |-> air.pdu.id, age |-> 0, ok |-> ok,
                             tries |-> 1]
    BY <1>1, <2>1, <2>6 DEF TypeInv
  <2>10. rx' \in [Acid -> [st : {"EMPTY", "EVALUATING"}, id : None .. MaxPdu, age : Nat,
                           ok : BOOLEAN, tries : 0 .. 1]]
    BY <1>1, <2>6, <2>7 DEF TypeInv
  <2> QED
    BY <2>1, <2>2, <2>5, <2>8, <2>9, <2>10
<1> QED
  BY <1>2, <1>3

\* A unit after its feedback.
LEMMA AnsweredUnit ==
    ASSUME IInv, Arrive, NEW p \in Acid, AirFb(p)
    PROVE  \/ tx'[p] = EmptyTx
           \/ /\ tx'[p].st = "BUFFERED" /\ tx'[p].id = tx[p].id /\ tx'[p].n = tx[p].n
              /\ tx[p].n <= MaxHarqRtx
              /\ [acid |-> p, id |-> tx[p].id, ok |-> FALSE] \in air.fb
<1>1. air.enb = cell /\ ReceiveHarqFeedback
  BY DEF Arrive
<1>2. PICK f \in air.fb : f.acid = p
  BY DEF AirFb
<1>3. tx'[p] = PduFeedback(tx[p], f.ok) /\ f.id = tx[p].id
  BY <1>1, <1>2, ReceiveHarqFeedbackIs
<1>4. CASE f.ok \/ tx[p].n = MaxHarqRtx + 1
  BY <1>3, <1>4 DEF PduFeedback
<1>5. CASE ~f.ok /\ tx[p].n # MaxHarqRtx + 1
  <2>1. tx'[p] = [tx[p] EXCEPT !.st = "BUFFERED"]
    BY <1>3, <1>5 DEF PduFeedback
  <2>2. tx[p] \in [st : {"EMPTY", "WAITING", "BUFFERED"}, id : None .. MaxPdu, n : 0 .. MaxHarqRtx + 1]
    BY DEF IInv, TypeInv
  <2>3. tx[p].n <= MaxHarqRtx
    BY <1>5, <2>2, HarqAssumption
  <2>4. f = [acid |-> p, id |-> tx[p].id, ok |-> FALSE]
    <3>1. f \in [acid : Acid, id : Pdu, ok : BOOLEAN]
      BY <1>2 DEF IInv, TypeInv, Feedback
    <3> QED
      BY <3>1, <1>2, <1>3, <1>5
  <2> QED
    BY <1>2, <2>1, <2>2, <2>3, <2>4
<1> QED
  BY <1>4, <1>5

LEMMA ArriveInv ==
    ASSUME IInv, Arrive
    PROVE  IInv'
<1>1. TypeInv /\ RoundTrip \in Nat /\ RoundTrip >= 4 /\ RoundTrip <= HarqProcesses
      /\ HarqProcesses \in Nat
  BY RoundTripFits DEF IInv
<1>2. EndOfTti /\ air.enb = cell /\ ReceiveHarqFeedback /\ InsertPdu /\ phase = "Arrive"
      /\ phase' = "Enb" /\ sent.enb = cell
  BY DEF Arrive, EndOfTti, IInv, PhaseInv
<1>3. \A p \in Acid : Evaluating(p)' <=> Evaluating(p) \/ AirPdu(p)
  BY <1>2, InsertPduIs DEF Evaluating
<1>4. \A p \in Acid :
        /\ ~AirFb(p) => tx'[p] = tx[p]
        /\ AirFb(p) => tx[p].st = "WAITING" /\ tx'[p].st # "WAITING"
        /\ tx'[p].st # "EMPTY" => tx'[p].id = tx[p].id /\ tx'[p].n = tx[p].n /\ tx[p].st # "EMPTY"
  <2>1. \A p \in Acid : ~AirFb(p) => tx'[p] = tx[p]
    BY <1>2, ReceiveHarqFeedbackIs
  <2>2. \A p \in Acid : AirFb(p) => tx[p].st = "WAITING"
    BY DEF IInv, WaitingInv
  <2>3. \A p \in Acid : AirFb(p) =>
          /\ tx'[p].st # "WAITING"
          /\ tx'[p].st # "EMPTY" => tx'[p].id = tx[p].id /\ tx'[p].n = tx[p].n
    <3> SUFFICES ASSUME NEW p \in Acid, AirFb(p)
                 PROVE  /\ tx'[p].st # "WAITING"
                        /\ tx'[p].st # "EMPTY" => tx'[p].id = tx[p].id /\ tx'[p].n = tx[p].n
      OBVIOUS
    <3>1. CASE tx'[p] = EmptyTx
      BY <3>1 DEF EmptyTx
    <3>2. CASE tx'[p].st = "BUFFERED" /\ tx'[p].id = tx[p].id /\ tx'[p].n = tx[p].n
      BY <3>2
    <3> QED
      BY <3>1, <3>2, AnsweredUnit
  <2> QED
    BY <2>1, <2>2, <2>3
<1>5. \A p \in Acid : tx'[p].id \in {tx[p].id, None}
  <2> SUFFICES ASSUME NEW p \in Acid, AirFb(p)
               PROVE  tx'[p].id \in {tx[p].id, None}
    BY <1>4
  <2>1. CASE tx'[p] = EmptyTx
    BY <2>1 DEF EmptyTx
  <2>2. CASE tx'[p].id = tx[p].id
    BY <2>2
  <2> QED
    BY <2>1, <2>2, AnsweredUnit
<1>6. TypeInv'
  <2>1. tx' \in [Acid -> [st : {"EMPTY", "WAITING", "BUFFERED"}, id : None .. MaxPdu,
                          n : 0 .. MaxHarqRtx + 1]]
    <3> DEFINE Unit == [st : {"EMPTY", "WAITING", "BUFFERED"}, id : None .. MaxPdu,
                        n : 0 .. MaxHarqRtx + 1]
    <3>1. \A p \in Acid : tx[p] \in Unit
      BY <1>1 DEF TypeInv
    <3>2. \A p \in Acid, ok \in BOOLEAN : PduFeedback(tx[p], ok) \in Unit
      <4>1. EmptyTx \in Unit
        BY HarqAssumption DEF EmptyTx, None
      <4> QED
        BY <3>1, <4>1 DEF PduFeedback
    <3>3. \A f \in air.fb : f.ok \in BOOLEAN
      BY <1>1 DEF TypeInv, Feedback
    <3>4. \A p \in Acid : AirFb(p) => tx'[p] \in Unit
      BY <1>2, <3>2, <3>3, ReceiveHarqFeedbackIs DEF AirFb
    <3>5. \A p \in Acid : tx'[p] \in Unit
      BY <1>4, <3>1, <3>4
    <3>6. tx' = [p \in Acid |-> tx'[p]]
      BY <1>2 DEF ReceiveHarqFeedback
    <3> QED
      BY <3>5, <3>6
  <2>2. grant' \in None .. NewData
    BY <1>1 DEF Arrive, TypeInv
  <2>3. discarded' \subseteq 1 .. made
    <3>1. discarded \subseteq 1 .. made
      BY <1>1 DEF TypeInv
    <3>2. \A f \in air.fb : f.acid \in Acid /\ tx[f.acid].st = "WAITING" /\ f.id = tx[f.acid].id
      BY <1>2, ReceiveHarqFeedbackIs
    <3>3. \A f \in air.fb : f.id \in 1 .. made
      BY <3>2 DEF IInv, UnitInv
    <3>4. \A id \in discarded' : id \in discarded \/ \E f \in air.fb : f.id = id
      BY <1>2, ReceiveHarqFeedbackIs
    <3> QED
      BY <3>1, <3>3, <3>4
  <2>4. EndOfTti /\ sent' \in [enb : Enb, grant : None .. NewData, fb : SUBSET Feedback,
                               pdu : PduFrame]
        /\ air' = sent /\ UNCHANGED <<cell, fbTimer, firstTx, currentHarq, made, harqStatus,
                                      extracted, handovers, undisturbed>>
    BY <1>2, EndOfTtiIs
  <2>5. known' \in BOOLEAN
        /\ rx' \in [Acid -> [st : {"EMPTY", "EVALUATING"}, id : None .. MaxPdu, age : Nat,
                             ok : BOOLEAN, tries : 0 .. 1]]
    BY <1>2, InsertPduIs
  <2> QED
    BY <1>1, <1>2, <2>1, <2>2, <2>3, <2>4, <2>5 DEF TypeInv
<1>7. PhaseInv'
  <2>1. \A p \in Acid : tx'[p].st # "EMPTY" => tx[p].st # "EMPTY"
    BY <1>4
  <2> QED
    BY <1>2, <2>1, EndOfTtiIs DEF IInv, PhaseInv
<1>8. UnitInv'
  <2>1. \A p \in Acid : tx'[p].st = "EMPTY" => tx'[p] = EmptyTx
    BY <1>4, AnsweredUnit DEF IInv, UnitInv
  <2>2. \A p \in Acid : rx'[p].st = "EMPTY" => rx'[p] = EmptyRx
    <3>1. \A p \in Acid : ~AirPdu(p) => rx'[p] = rx[p]
      BY <1>2, InsertPduIs
    <3>2. \A p \in Acid : AirPdu(p) => rx'[p].st = "EVALUATING"
      BY <1>3 DEF Evaluating
    <3> QED
      BY <3>1, <3>2 DEF IInv, UnitInv
  <2>3. \A p \in Acid : tx'[p].st # "EMPTY" => /\ tx'[p].id \in 1 .. made
                                               /\ tx'[p].id \notin discarded'
                                               /\ tx'[p].n > 0
    <3> SUFFICES ASSUME NEW p \in Acid, tx'[p].st # "EMPTY", tx[p].id \in discarded'
                 PROVE  FALSE
      BY <1>4 DEF IInv, UnitInv
    <3>1. tx[p].st # "EMPTY" /\ tx[p].id \notin discarded
      BY <1>4 DEF IInv, UnitInv
    <3>2. PICK f \in air.fb : ~f.ok /\ f.id = tx[p].id /\ tx[f.acid].n = MaxHarqRtx + 1
      BY <1>2, <3>1, ReceiveHarqFeedbackIs
    <3>3. f.acid = p
      BY <1>2, <3>1, <3>2, ReceiveHarqFeedbackIs DEF IInv, UnitInv
    <3>4. tx'[p] = PduFeedback(tx[p], f.ok)
      BY <1>2, <3>3, ReceiveHarqFeedbackIs
    <3> QED
      BY <3>2, <3>3, <3>4 DEF PduFeedback, EmptyTx
  <2>4. \A p \in Acid : tx'[p].st = "BUFFERED" => /\ tx'[p].n <= MaxHarqRtx
                                                  /\ tx'[p].id \notin extracted
    <3> SUFFICES ASSUME NEW p \in Acid, tx'[p].st = "BUFFERED"
                 PROVE  tx'[p].n <= MaxHarqRtx /\ tx'[p].id \notin extracted
      OBVIOUS
    <3>1. CASE ~AirFb(p)
      BY <1>4, <3>1 DEF IInv, UnitInv
    <3>2. CASE AirFb(p)
      <4>1. /\ tx'[p].id = tx[p].id /\ tx'[p].n = tx[p].n /\ tx[p].n <= MaxHarqRtx
            /\ [acid |-> p, id |-> tx[p].id, ok |-> FALSE] \in air.fb
        BY <3>2, AnsweredUnit DEF EmptyTx
      <4>2. ~SentFb(p)
        BY <1>2, <3>2, StagesApart
      <4>3. [acid |-> p, id |-> tx[p].id, ok |-> TRUE] \notin sent.fb
        BY <4>2 DEF SentFb
      <4>4. [acid |-> p, id |-> tx[p].id, ok |-> TRUE] \notin air.fb
        BY <4>1 DEF IInv, FeedbackInv
      <4> QED
        BY <4>1, <4>3, <4>4 DEF IInv, PassedOnIsDone
    <3> QED
      BY <3>1, <3>2
  <2>5. \A p, q \in Acid : tx'[p].st # "EMPTY" /\ tx'[p].id = tx'[q].id => p = q
    <3>1. \A p \in Acid : tx'[p].st # "EMPTY" => tx[p].st # "EMPTY" /\ tx'[p].id = tx[p].id
                                                 /\ tx[p].id # None
      BY <1>1, <1>4 DEF IInv, UnitInv, TypeInv, None
    <3> QED
      BY <3>1, <1>5 DEF IInv, UnitInv
  <2>6. made' = made /\ extracted' = extracted
    BY <1>2, EndOfTtiIs
  <2> QED
    BY <2>1, <2>2, <2>3, <2>4, <2>5, <2>6 DEF UnitInv
<1>9. WaitingInv'
  <2> SUFFICES ASSUME NEW p \in Acid
               PROVE  tx'[p].st = "WAITING" <=> SentPdu(p) \/ Evaluating(p) \/ AirPdu(p) \/ SentFb(p)
    BY <1>2, <1>3, EndOfTtiIs DEF WaitingInv
  <2>1. CASE AirFb(p)
    BY <1>2, <1>4, <2>1, StagesApart
  <2>2. CASE ~AirFb(p)
    BY <1>4, <2>2 DEF IInv, WaitingInv
  <2> QED
    BY <2>1, <2>2
<1>10. StageInv'
  <2> SUFFICES ASSUME NEW p \in Acid
               PROVE  /\ SentPdu(p) => sent.pdu.id = tx'[p].id /\ Since(p)' = 1
                      /\ SentFb(p) => Since(p)' = RoundTrip - 1
                      /\ Evaluating(p) \/ AirPdu(p) =>
                           /\ rx'[p].id = tx'[p].id /\ rx'[p].tries = 1 /\ known'
                           /\ rx'[p].age < RoundTrip - 3
                           /\ Since(p)' = rx'[p].age + 2
    BY <1>2, <1>3, EndOfTtiIs DEF StageInv, RoundTrip
  <2>1. Since(p) # HarqProcesses - 1 => Since(p)' = Since(p) + 1
    BY <1>2, EndOfTtiIs
  <2>2. rx[p].age \in Nat
    BY <1>1 DEF TypeInv
  <2>3. SentPdu(p) \/ SentFb(p) \/ Evaluating(p) \/ AirPdu(p) => tx'[p] = tx[p]
    BY <1>2, <1>4, StagesApart
  <2>4. ASSUME SentPdu(p)
        PROVE  sent.pdu.id = tx'[p].id /\ Since(p)' = 1
    BY <1>1, <2>1, <2>3, <2>4 DEF IInv, StageInv
  <2>5. ASSUME SentFb(p)
        PROVE  Since(p)' = RoundTrip - 1
    BY <1>1, <2>1, <2>5 DEF IInv, StageInv
  <2>6. ASSUME AirPdu(p)
        PROVE  /\ rx'[p].id = tx'[p].id /\ rx'[p].tries = 1 /\ known'
               /\ rx'[p].age < RoundTrip - 3 /\ Since(p)' = rx'[p].age + 2
    <3>1. PICK ok \in BOOLEAN :
            known' /\ rx'[p] = [st |-> "EVALUATING", id |-> air.pdu.id, age |-> 0, ok |-> ok,
                                tries |-> 1]
      BY <1>2, <2>6, InsertPduIs
    <3> QED
      BY <1>1, <2>1, <2>3, <2>6, <3>1 DEF IInv, StageInv
  <2>7. ASSUME Evaluating(p), ~AirPdu(p)
        PROVE  /\ rx'[p].id = tx'[p].id /\ rx'[p].tries = 1 /\ known'
               /\ rx'[p].age < RoundTrip - 3 /\ Since(p)' = rx'[p].age + 2
    <3>1. rx'[p] = rx[p] /\ (known => known')
      BY <1>2, <2>7, InsertPduIs
    <3>2. /\ rx[p].id = tx[p].id /\ rx[p].tries = 1 /\ known /\ rx[p].age < RoundTrip - 3
          /\ Since(p) = rx[p].age + 1
      BY <1>2, <2>7 DEF IInv, StageInv
    <3> QED
      BY <1>1, <2>1, <2>2, <2>3, <2>7, <3>1, <3>2
  <2> QED
    BY <2>4, <2>5, <2>6, <2>7
<1>11. FeedbackInv'
  <2>1. \A f \in sent.fb : f.id = tx'[f.acid].id
    <3> SUFFICES ASSUME NEW f \in sent.fb
                 PROVE  f.id = tx'[f.acid].id
      OBVIOUS
    <3>1. f.acid \in Acid /\ SentFb(f.acid) /\ f.id = tx[f.acid].id
      BY <1>1 DEF TypeInv, Feedback, SentFb, IInv, FeedbackInv
    <3>2. ~AirFb(f.acid)
      BY <1>2, <3>1, StagesApart
    <3> QED
      BY <1>4, <3>1, <3>2
  <2> QED
    BY <1>2, <2>1, EndOfTtiIs DEF IInv, FeedbackInv
<1>12. PassedOnIsDone'
  <2> SUFFICES ASSUME NEW id \in extracted
               PROVE  /\ id \notin discarded' /\ id \notin {None, sent.pdu.id}
                      /\ \A p \in Acid : tx'[p].id = id =>
                            tx'[p].st = "WAITING" /\ [acid |-> p, id |-> id, ok |-> TRUE] \in sent.fb
    BY <1>2, EndOfTtiIs DEF PassedOnIsDone, NoPdu
  <2>1. id # None
    BY <1>1 DEF TypeInv, None
  <2>2. \A p \in Acid : tx[p].id = id => tx[p].st = "WAITING"
            /\ [acid |-> p, id |-> id, ok |-> TRUE] \in sent.fb \cup air.fb
    BY DEF IInv, PassedOnIsDone
  <2>3. id \notin discarded'
    <3> SUFFICES ASSUME id \in discarded' PROVE FALSE
      OBVIOUS
    <3>1. id \notin discarded
      BY DEF IInv, PassedOnIsDone
    <3>2. PICK f \in air.fb : ~f.ok /\ f.id = id
      BY <1>2, <3>1, ReceiveHarqFeedbackIs
    <3>3. f.acid \in Acid /\ AirFb(f.acid) /\ tx[f.acid].id = id
      BY <1>2, <3>2, ReceiveHarqFeedbackIs
    <3>4. [acid |-> f.acid, id |-> id, ok |-> TRUE] \notin sent.fb
      BY <1>2, <3>3, StagesApart DEF SentFb
    <3>5. [acid |-> f.acid, id |-> id, ok |-> TRUE] \notin air.fb
      BY <3>2 DEF IInv, FeedbackInv
    <3> QED
      BY <2>2, <3>3, <3>4, <3>5
  <2>4. ASSUME NEW p \in Acid, tx'[p].id = id
        PROVE  tx'[p].st = "WAITING" /\ [acid |-> p, id |-> id, ok |-> TRUE] \in sent.fb
    <3>1. tx[p].id = id
      BY <1>5, <2>1, <2>4
    <3>2. ~AirFb(p)
      <4> SUFFICES ASSUME AirFb(p) PROVE FALSE
        OBVIOUS
      <4>1. tx'[p].st = "BUFFERED"
        <5>1. tx'[p] # EmptyTx
          BY <2>1, <2>4 DEF EmptyTx
        <5> QED
          BY <5>1, AnsweredUnit
      <4> QED
        BY <1>8, <2>4, <4>1, EndOfTtiIs, <1>2 DEF UnitInv
    <3>3. [acid |-> p, id |-> id, ok |-> TRUE] \notin air.fb
      BY <1>2, <3>2 DEF AirFb
    <3> QED
      BY <1>4, <2>2, <3>1, <3>2, <3>3
  <2>5. id # sent.pdu.id
    BY DEF IInv, PassedOnIsDone
  <2> QED
    BY <2>1, <2>3, <2>4, <2>5
<1> QED
  BY <1>6, <1>7, <1>8, <1>9, <1>10, <1>11, <1>12 DEF IInv

-----------------------------------------------------------------------------
(* Handover, and all of it *)

LEMMA HandoverInv ==
    ASSUME IInv, NEW e \in Enb, Handover(e)
    PROVE  IInv'
<1>1. TypeInv
  BY DEF IInv
<1>2. /\ phase = "Enb" /\ phase' = "Enb" /\ cell' = e /\ e # cell /\ air.enb = cell
      /\ handovers < HandoverMax /\ handovers' = handovers + 1
      /\ tx' = [p \in Acid |-> EmptyTx] /\ rx' = [p \in Acid |-> EmptyRx]
      /\ known' = FALSE /\ undisturbed' = FALSE
      /\ UNCHANGED <<fbTimer, grant, firstTx, currentHarq, made, discarded, harqStatus, extracted,
                     sent, air>>
  BY DEF Handover, DeleteUeQueues
<1>3. sent.fb = {} /\ sent.pdu = NoPdu
  BY <1>2 DEF IInv, PhaseInv
<1>4. TypeInv'
  <2>1. tx' \in [Acid -> [st : {"EMPTY", "WAITING", "BUFFERED"}, id : None .. MaxPdu,
                          n : 0 .. MaxHarqRtx + 1]]
        /\ rx' \in [Acid -> [st : {"EMPTY", "EVALUATING"}, id : None .. MaxPdu, age : Nat,
                             ok : BOOLEAN, tries : 0 .. 1]]
    BY <1>2, HarqAssumption DEF EmptyTx, EmptyRx, None
  <2>2. handovers' \in 0 .. HandoverMax
    BY <1>1, <1>2, HarqAssumption DEF TypeInv
  <2> QED
    BY <1>1, <1>2, <2>1, <2>2 DEF TypeInv
<1>5. PhaseInv' /\ UnitInv'
  BY <1>2, <1>3 DEF IInv, PhaseInv, UnitInv, EmptyTx, EmptyRx
<1>6. \A p \in Acid : ~SentPdu(p)' /\ ~AirPdu(p)' /\ ~Evaluating(p)' /\ ~SentFb(p)' /\ ~AirFb(p)'
  BY <1>2, <1>3 DEF SentPdu, AirPdu, Evaluating, SentFb, AirFb, NoPdu, EmptyRx
<1>7. WaitingInv' /\ StageInv'
  BY <1>2, <1>6 DEF WaitingInv, StageInv, EmptyTx
<1>8. FeedbackInv'
  BY <1>2, <1>3 DEF IInv, FeedbackInv
<1>9. PassedOnIsDone'
  <2>1. \A id \in extracted : id # None
    BY <1>1 DEF TypeInv, None
  <2> QED
    BY <1>2, <2>1 DEF IInv, PassedOnIsDone, EmptyTx
<1> QED
  BY <1>4, <1>5, <1>7, <1>8, <1>9 DEF IInv

LEMMA StutterInv ==
    ASSUME IInv, UNCHANGED vars
    PROVE  IInv'
BY DEF IInv, TypeInv, PhaseInv, UnitInv, WaitingInv, StageInv, FeedbackInv, PassedOnIsDone, vars,
       ueVars, enbVars, SentPdu, AirPdu, Evaluating, SentFb, AirFb, Since, Now, RoundTrip

LEMMA InductiveInvariant ==
    Spec => []IInv
<1>1. Init => IInv
  BY InitInv
<1>2. IInv /\ [Next]_vars => IInv'
  BY EnbLoopInv, UeLoopInv, ArriveInv, FromOldMasterInv, HandoverInv, StutterInv DEF Next, Tti
<1> QED
  BY <1>1, <1>2, PTL DEF Spec

-----------------------------------------------------------------------------
(* What follows from it alone *)

LEMMA TypesFollow ==
    ASSUME IInv
    PROVE  TypeOK
<1>1. TypeInv
  BY DEF IInv
<1>2. \A p \in Acid : /\ tx[p].st \in {"EMPTY", "WAITING", "BUFFERED"}
                      /\ tx[p].n \in 0 .. MaxHarqRtx + 1
                      /\ rx[p].st \in {"EMPTY", "EVALUATING"} /\ rx[p].tries \in 0 .. 1
  BY <1>1 DEF TypeInv
<1>3. \A frames \in {sent, air} : /\ frames.enb \in Enb /\ frames.fb \subseteq Feedback
                                  /\ frames.grant \in None .. NewData
  BY <1>1 DEF TypeInv
<1>4. extracted \subseteq Pdu /\ discarded \subseteq Pdu
  BY <1>1, HarqAssumption DEF TypeInv, Pdu
<1> QED
  BY <1>1, <1>2, <1>3, <1>4 DEF TypeInv, TypeOK

LEMMA ConsistencyFollows ==
    ASSUME IInv
    PROVE  HarqConsistent
<1>1. FeedbackIsExpected
  <2> SUFFICES ASSUME air.enb = cell, NEW f \in air.fb
               PROVE  tx[f.acid].st = "WAITING" /\ tx[f.acid].id = f.id
    BY DEF FeedbackIsExpected
  <2>1. f.acid \in Acid /\ AirFb(f.acid)
    BY DEF IInv, TypeInv, Feedback, AirFb
  <2> QED
    BY <2>1 DEF IInv, WaitingInv, FeedbackInv
<1>2. PduIsExpected
  <2> SUFFICES ASSUME phase = "Arrive", air.enb = cell, air.pdu # NoPdu
               PROVE  rx[air.pdu.acid].st = "EMPTY"
    BY DEF PduIsExpected
  <2>1. air.pdu.acid \in Acid /\ air.pdu.id # None
    BY DEF IInv, TypeInv, PduFrame, Pdu, None
  <2>2. ~Evaluating(air.pdu.acid)
    BY <2>1, StagesApart DEF AirPdu
  <2> QED
    BY <2>1, <2>2 DEF Evaluating, IInv, TypeInv
<1>3. TurnIsFree
  <2> SUFFICES ASSUME phase = "Ue"
               PROVE  tx[Turn].st # "WAITING"
    BY DEF TurnIsFree
  <2>1. TypeInv /\ HarqProcesses \in Nat /\ HarqProcesses >= 4 /\ RoundTrip \in Nat /\ RoundTrip >= 4
    BY RoundTripFits DEF IInv
  <2>2. Turn \in Acid
    BY <2>1 DEF Turn, TypeInv, Acid
  <2>3. CASE ~firstTx
    BY <2>2, <2>3 DEF IInv, PhaseInv
  <2>4. CASE firstTx
    <3>1. Since(Turn) = 0
      BY <2>1, <2>2, <2>4 DEF Turn, Since, Now, Acid
    <3>2. ~SentPdu(Turn)
      BY DEF SentPdu, IInv, PhaseInv, NoPdu
    <3>3. ~AirPdu(Turn) /\ ~Evaluating(Turn) /\ ~SentFb(Turn) /\ ~AirFb(Turn)
      BY <2>1, <2>2, <3>1 DEF IInv, StageInv, TypeInv
    <3> QED
      BY <2>2, <3>2, <3>3 DEF IInv, WaitingInv
  <2> QED
    BY <2>3, <2>4
<1> QED
  BY <1>1, <1>2, <1>3, TypesFollow DEF HarqConsistent, IInv

\* For any parameters with a round trip that fits into a round: feedback and PDUs meet the
\* processes they are for, nothing throws, no PDU is thrown away, none is delivered twice,
\* whatever arrives and wherever the UE goes.
THEOREM Consistency == Spec => []HarqConsistent
BY InductiveInvariant, ConsistencyFollows, PTL

-----------------------------------------------------------------------------
(* The counters and the grants: each action *)

LEMMA InitTurn ==
    ASSUME Init
    PROVE  TurnInv
<1>1. air.enb = cell /\ sent.fb = {} /\ air.fb = {} /\ sent.grant = None /\ air.grant = None
  BY DEF Init, Frames
<1>2. harqStatus[cell] = Absent
  BY HarqAssumption DEF Init
<1>3. None \notin Pdu /\ \A p \in Acid : tx[p].st = "EMPTY"
  BY DEF Init, None, Pdu, EmptyTx
<1> QED
  BY <1>1, <1>2, <1>3 DEF Init, TurnInv, CounterInv, GrantInv, NackInv

\* A grant for a PDU is for the process two turns ahead, which is evaluated and NACKed.
LEMMA GrantForPdu ==
    ASSUME IInv, known, phase = "Enb", UpdateHarqDescs = currentHarq,
           NEW g \in Schedule(Units, UpdateHarqDescs), g \in Pdu
    PROVE  /\ GrantedAcid(currentHarq) \in Done /\ ~rx[GrantedAcid(currentHarq)].ok
           /\ g = rx[GrantedAcid(currentHarq)].id
           /\ MaxHarqRtx > 0
<1> DEFINE p == GrantedAcid(currentHarq)
<1>1. g \notin {None, NewData}
  BY HarqAssumption DEF Pdu, None, NewData
<1>2. p \in Corrupted(Units) /\ g = Units[p].id
  BY <1>1 DEF Schedule
<1>3. p \in Acid /\ IsEvaluated(Units[p]) /\ ~Units[p].ok /\ Units[p].tries # MaxHarqRtx + 1
  BY <1>2 DEF Corrupted
<1>4. p \in Done
  BY <1>3, DoneIs
<1>5. Units[p].ok = rx[p].ok /\ Units[p].tries = rx[p].tries /\ Units[p].id = rx[p].id
  BY <1>3 DEF Units, Aged, IInv, TypeInv
<1>6. rx[p].tries = 1
  BY <1>4 DEF Done, IInv, StageInv, Evaluating
<1> QED
  BY <1>2, <1>3, <1>4, <1>5, <1>6, HarqAssumption

\* The process two turns ahead is the one whose turn was two less than a round ago.
LEMMA GrantedAcidSince ==
    ASSUME TypeInv, phase = "Enb"
    PROVE  /\ GrantedAcid(currentHarq) \in Acid
           /\ \A p \in Acid : p = GrantedAcid(currentHarq) <=> Since(p) = HarqProcesses - 2
<1>1. HarqProcesses \in Nat /\ HarqProcesses >= 4 /\ currentHarq \in Acid /\ Now = currentHarq
  BY RoundTripFits DEF TypeInv, Now
<1>2. /\ GrantedAcid(currentHarq) = IF currentHarq + 2 < HarqProcesses THEN currentHarq + 2
                                    ELSE currentHarq + 2 - HarqProcesses
      /\ GrantedAcid(currentHarq) \in Acid
  BY <1>1, SuccIs DEF GrantedAcid
<1> QED
  BY <1>1, <1>2 DEF Since, Acid

LEMMA EnbLoopTurn ==
    ASSUME IInv, TurnInv, EnbLoop
    PROVE  TurnInv'
<1>1. TypeInv /\ RoundTrip \in Nat /\ RoundTrip >= 4
  BY RoundTripFits DEF IInv
<1>2. /\ phase = "Enb" /\ phase' = "Ue" /\ cell \in Enb
      /\ harqStatus' = [harqStatus EXCEPT ![cell] = UpdateHarqDescs]
      /\ UNCHANGED <<cell, fbTimer, grant, firstTx, currentHarq, tx, discarded, known, air,
                     undisturbed>>
  BY <1>1, EnbLoopIs DEF ueVars, TypeInv
<1>3. PICK g \in Schedule(Units, UpdateHarqDescs) :
        sent' = Frames(g, {[acid |-> p, id |-> rx[p].id, ok |-> rx[p].ok] : p \in Done})
  BY EnbLoopIs
<1>4. /\ sent'.grant = g /\ sent'.pdu = NoPdu /\ sent.pdu = NoPdu
      /\ sent'.fb = {[acid |-> p, id |-> rx[p].id, ok |-> rx[p].ok] : p \in Done}
  BY <1>2, <1>3 DEF Frames, IInv, PhaseInv
<1>5. Now' = Now /\ \A p \in Acid : Since(p)' = Since(p)
  <2>1. phase # "Arrive" /\ phase' # "Arrive" /\ currentHarq' = currentHarq
    BY <1>2
  <2> QED
    BY <1>1, <2>1, SinceInLoops
<1>6. harqStatus'[cell] = UpdateHarqDescs /\ Now = currentHarq
  BY <1>1, <1>2 DEF TypeInv, Now
<1>7. CounterInv'
  <2>1. ~known => UpdateHarqDescs = harqStatus[cell]
    BY DEF UpdateHarqDescs
  <2>2. NoPdu # FirstPdu
    BY DEF NoPdu, FirstPdu, None
  <2> QED
    BY <1>2, <1>4, <1>5, <1>6, <2>1, <2>2 DEF TurnInv, CounterInv
<1>8. \A p \in Done : p \in Acid /\ known /\ Since(p) = RoundTrip - 2
                      /\ rx[p].tries = 1 /\ rx[p].id \in Pdu
  <2> SUFFICES ASSUME NEW p \in Done
               PROVE  p \in Acid /\ known /\ Since(p) = RoundTrip - 2
                      /\ rx[p].tries = 1 /\ rx[p].id \in Pdu
    OBVIOUS
  <2>1. p \in Acid /\ Evaluating(p) /\ rx[p].age = RoundTrip - 4
    BY DEF Done, Evaluating
  <2>2. known /\ rx[p].tries = 1 /\ rx[p].id = tx[p].id /\ Since(p) = rx[p].age + 2
    BY <1>2, <2>1 DEF IInv, StageInv
  <2>3. tx[p].id \in 1 .. made
    BY <2>1 DEF IInv, WaitingInv, UnitInv
  <2> QED
    BY <1>1, <2>1, <2>2, <2>3, HarqAssumption DEF TypeInv, Pdu
<1>9. ASSUME undisturbed
      PROVE  /\ g \in Pdu => \E f \in sent'.fb :
                   f.id = g /\ ~f.ok /\ Since(f.acid) = HarqProcesses - 2
             /\ \A f \in sent'.fb : ~f.ok => (g = f.id <=> FitsInRound /\ MaxHarqRtx > 0)
  <2> DEFINE q == GrantedAcid(currentHarq)
  <2>1. q \in Acid /\ \A p \in Acid : p = q <=> Since(p) = HarqProcesses - 2
    BY <1>1, <1>2, GrantedAcidSince
  <2>2. known => UpdateHarqDescs = currentHarq
    BY <1>2, <1>9 DEF TurnInv, CounterInv
  <2>3. ~known => g \notin Pdu
    BY HarqAssumption DEF Schedule, Pdu, None, NewData
  <2>4. g \in Pdu => q \in Done /\ ~rx[q].ok /\ g = rx[q].id /\ MaxHarqRtx > 0
    BY <1>2, <2>2, <2>3, GrantForPdu
  <2> HIDE DEF q
  <2>5. ASSUME g \in Pdu
        PROVE  \E f \in sent'.fb : f.id = g /\ ~f.ok /\ Since(f.acid) = HarqProcesses - 2
    <3>1. [acid |-> q, id |-> rx[q].id, ok |-> rx[q].ok] \in sent'.fb
      BY <1>4, <2>4, <2>5
    <3>2. Since(q) = HarqProcesses - 2
      BY <2>1
    <3> QED
      BY <2>4, <2>5, <3>1, <3>2
  <2>6. ASSUME NEW p \in Done, ~rx[p].ok
        PROVE  g = rx[p].id <=> FitsInRound /\ MaxHarqRtx > 0
    <3>1. g = rx[p].id => FitsInRound /\ MaxHarqRtx > 0
      <4>1. g = rx[p].id => q \in Done /\ MaxHarqRtx > 0
        BY <1>8, <2>4
      <4>2. q \in Done => RoundTrip - 2 = HarqProcesses - 2
        BY <1>8, <2>1
      <4> QED
        BY <1>1, <4>1, <4>2, HarqAssumption DEF FitsInRound, RoundTrip
    <3>2. ASSUME FitsInRound, MaxHarqRtx > 0
          PROVE  g = rx[p].id
      <4>1. p = q
        BY <1>8, <2>1, <3>2 DEF FitsInRound, RoundTrip
      <4>2. p \in Acid /\ Units[p].ok = rx[p].ok /\ Units[p].tries = rx[p].tries
            /\ Units[p].id = rx[p].id
        BY <1>1, <1>8 DEF Units, Aged, TypeInv
      <4>3. IsEvaluated(Units[p])
        BY <1>2, <4>2, DoneIs
      <4>4. rx[p].tries # MaxHarqRtx + 1
        BY <1>8, <3>2, HarqAssumption
      <4>5. p \in Corrupted(Units)
        BY <2>6, <4>2, <4>3, <4>4 DEF Corrupted
      <4>6. known /\ UpdateHarqDescs = currentHarq
        BY <1>8, <2>2
      <4>7. Schedule(Units, UpdateHarqDescs) = {Units[p].id}
        BY <4>1, <4>5, <4>6 DEF Schedule, q
      <4> QED
        BY <4>2, <4>7
    <3> QED
      BY <3>1, <3>2
  <2>7. \A f \in sent'.fb : ~f.ok => (g = f.id <=> FitsInRound /\ MaxHarqRtx > 0)
    BY <1>4, <2>6
  <2> QED
    BY <2>5, <2>7
<1>10. GrantInv'
  <2>1. \A f \in sent'.fb : f.acid \in Acid
    BY <1>4, <1>8
  <2>2. \A f \in air.fb : f.acid \in Acid
    BY <1>1 DEF TypeInv, Feedback
  <2>3. undisturbed => (g \in Pdu => \E f \in sent'.fb :
              f.id = g /\ ~f.ok /\ Since(f.acid) = HarqProcesses - 2)
    BY <1>9
  <2>4. undisturbed /\ air.grant \in Pdu => \E f \in air.fb :
              f.id = air.grant /\ ~f.ok /\ Since(f.acid) = HarqProcesses - 1
    BY DEF TurnInv, GrantInv
  <2>5. undisturbed /\ grant \in Pdu =>
           firstTx /\ (grant \in discarded \/ (tx[Now].st = "BUFFERED" /\ tx[Now].id = grant))
    BY DEF TurnInv, GrantInv
  <2> QED
    BY <1>2, <1>4, <1>5, <2>1, <2>2, <2>3, <2>4, <2>5 DEF GrantInv
<1>11. NackInv'
  <2>1. FitsInRound' = FitsInRound
    BY <1>2 DEF FitsInRound
  <2>2. undisturbed => \A f \in sent'.fb : ~f.ok => (g = f.id <=> FitsInRound /\ MaxHarqRtx > 0)
    BY <1>9
  <2> QED
    BY <1>2, <1>4, <1>5, <2>1, <2>2 DEF TurnInv, NackInv
<1> QED
  BY <1>7, <1>10, <1>11 DEF TurnInv

\* The main loop of the UE: what it sends, and the units it leaves.
LEMMA UeLoopIs ==
    ASSUME IInv, UeLoop
    PROVE  /\ UeTurn
           /\ sent'.fb = sent.fb /\ sent'.grant = sent.grant
           /\ undisturbed' => undisturbed
           /\ undisturbed' /\ ~firstTx /\ grant # None => sent'.pdu = FirstPdu
           /\ \A p \in Acid : tx'[p].st = "BUFFERED" =>
                 tx[p].st = "BUFFERED" /\ ~(p = Turn /\ grant # None)
<1>1. TypeInv /\ Turn \in Acid /\ UeTurn
  BY UeTurnIs DEF IInv, UeLoop, UeIdle, Retransmit, MacPduMake, NothingToSend
<1>2. ~firstTx => made = 0 /\ \A p \in Acid : tx[p].st = "EMPTY"
  BY DEF IInv, PhaseInv
<1>3. CASE UeIdle
  BY <1>1, <1>3 DEF UeIdle
<1>4. ASSUME NEW id, NEW n, Transmit(Turn, id, n)
      PROVE  /\ sent'.fb = sent.fb /\ sent'.grant = sent.grant
             /\ sent'.pdu = [acid |-> Turn, id |-> id, ndi |-> n = 1]
             /\ \A p \in Acid : tx'[p].st = "BUFFERED" => tx[p].st = "BUFFERED" /\ p # Turn
  BY <1>1, <1>4 DEF Transmit, TypeInv
<1>5. CASE Retransmit
  <2>1. firstTx /\ undisturbed' = undisturbed
    BY <1>1, <1>2, <1>5 DEF Retransmit
  <2>2. Transmit(Turn, tx[Turn].id, tx[Turn].n + 1)
    BY <1>5 DEF Retransmit
  <2>3. /\ sent'.fb = sent.fb /\ sent'.grant = sent.grant
        /\ \A p \in Acid : tx'[p].st = "BUFFERED" => tx[p].st = "BUFFERED" /\ p # Turn
    BY <1>4, <2>2
  <2> QED
    BY <1>1, <2>1, <2>3
<1>6. CASE MacPduMake
  <2>1. undisturbed' = undisturbed /\ made' = made + 1 /\ tx[Turn].st # "BUFFERED"
    BY <1>6 DEF MacPduMake
  <2>2. CASE tx[Turn].st = "EMPTY"
    <3>1. Transmit(Turn, made', 1)
      BY <1>6, <2>2 DEF MacPduMake
    <3>2. ~firstTx => made' = 1 /\ Turn = HarqProcesses - 2
      BY <1>2, <2>1 DEF Turn
    <3>3. sent'.pdu = [acid |-> Turn, id |-> made', ndi |-> TRUE]
      BY <1>4, <3>1
    <3> QED
      BY <1>1, <1>4, <2>1, <3>1, <3>2, <3>3 DEF FirstPdu
  <2>3. CASE tx[Turn].st # "EMPTY"
    <3>1. tx' = tx /\ sent' = sent /\ firstTx
      BY <1>1, <1>2, <1>6, <2>3 DEF MacPduMake
    <3> QED
      BY <1>1, <2>1, <3>1
  <2> QED
    BY <2>2, <2>3
<1>7. CASE NothingToSend
  BY <1>1, <1>7 DEF NothingToSend
<1> QED
  BY <1>3, <1>5, <1>6, <1>7 DEF UeLoop

LEMMA UeLoopTurn ==
    ASSUME IInv, TurnInv, UeLoop
    PROVE  TurnInv'
<1>1. TypeInv /\ UeTurn /\ phase = "Ue" /\ phase' = "Arrive" /\ grant' = None
  BY UeLoopIs, UeTurnIs DEF IInv
<1>2. /\ firstTx' = (firstTx \/ grant # None)
      /\ firstTx => Turn = Now /\ Now' = Now /\ \A p \in Acid : Since(p)' = Since(p)
      /\ UNCHANGED <<cell, fbTimer, known, harqStatus, air, discarded>>
  BY <1>1, UeTurnIs
<1>3. /\ sent.pdu = NoPdu /\ sent.pdu # FirstPdu
      /\ \A f \in sent.fb : f.acid \in Acid /\ firstTx
  <2>1. sent.pdu = NoPdu
    BY <1>1 DEF IInv, PhaseInv
  <2>2. \A f \in sent.fb : f.acid \in Acid /\ SentFb(f.acid)
    BY <1>1 DEF TypeInv, Feedback, SentFb
  <2> QED
    BY <2>1, <2>2, NothingBeforeFirstTx DEF NoPdu, FirstPdu, None
<1>4. ASSUME air.enb = cell
      PROVE  /\ ~firstTx => air.pdu = NoPdu
             /\ \A f \in air.fb : f.acid \in Acid /\ firstTx
  <2>1. air.pdu # NoPdu => air.pdu.acid \in Acid /\ AirPdu(air.pdu.acid)
    BY <1>1, <1>4 DEF TypeInv, PduFrame, Pdu, None, AirPdu
  <2>2. \A f \in air.fb : f.acid \in Acid /\ AirFb(f.acid)
    BY <1>1, <1>4 DEF TypeInv, Feedback, AirFb
  <2> QED
    BY <2>1, <2>2, NothingBeforeFirstTx
<1> SUFFICES ASSUME undisturbed'
             PROVE  TurnInv'
  BY DEF TurnInv, CounterInv, GrantInv, NackInv
<1>5. undisturbed /\ air.enb = cell
  BY UeLoopIs DEF TurnInv, CounterInv
<1>6. CounterInv'
  <2>1. ~known => harqStatus[cell] = Absent
    BY <1>5 DEF TurnInv, CounterInv
  <2>2. ASSUME ~known, firstTx'
        PROVE  \/ sent'.pdu = FirstPdu /\ air.pdu = NoPdu
               \/ air.pdu = FirstPdu
    <3>1. firstTx => air.pdu = FirstPdu
      BY <1>3, <1>5, <2>2 DEF TurnInv, CounterInv
    <3>2. ~firstTx => sent'.pdu = FirstPdu /\ air.pdu = NoPdu
      BY <1>2, <1>4, <1>5, <2>2, UeLoopIs
    <3> QED
      BY <3>1, <3>2
  <2>3. known => firstTx /\ harqStatus[cell] = Now
    BY <1>1, <1>5 DEF TurnInv, CounterInv
  <2> QED
    BY <1>1, <1>2, <1>5, <2>1, <2>2, <2>3 DEF CounterInv
<1>7. GrantInv'
  <2>1. None \notin Pdu
    BY DEF None, Pdu
  <2>2. sent.grant \in Pdu => \E f \in sent.fb :
          f.id = sent.grant /\ ~f.ok /\ Since(f.acid)' = HarqProcesses - 2
    BY <1>2, <1>3, <1>5 DEF TurnInv, GrantInv
  <2>3. air.grant \in Pdu => \E f \in air.fb :
          f.id = air.grant /\ ~f.ok /\ Since(f.acid)' = HarqProcesses - 1
    BY <1>2, <1>4, <1>5 DEF TurnInv, GrantInv
  <2> QED
    BY <1>1, <1>2, <2>1, <2>2, <2>3, UeLoopIs DEF GrantInv
<1>8. NackInv'
  <2>1. FitsInRound' = FitsInRound
    BY <1>2 DEF FitsInRound
  <2>2. ASSUME FitsInRound, NEW p \in Acid, tx'[p].st = "BUFFERED"
        PROVE  FALSE
    <3>1. tx[p].st = "BUFFERED" /\ ~(p = Turn /\ grant # None)
      BY <2>2, UeLoopIs
    <3>2. firstTx /\ p = Now /\ grant = tx[p].id
      BY <1>5, <2>2, <3>1 DEF TurnInv, NackInv
    <3>3. tx[p].id # None
      BY <1>1, <3>1 DEF IInv, UnitInv, TypeInv, None
    <3> QED
      BY <1>2, <3>1, <3>2, <3>3
  <2>3. \A f \in sent.fb : ~f.ok => (sent.grant = f.id <=> FitsInRound /\ MaxHarqRtx > 0)
    BY <1>5 DEF TurnInv, NackInv
  <2>4. FitsInRound /\ MaxHarqRtx > 0 => \A f \in air.fb : ~f.ok => air.grant = f.id
    BY <1>5 DEF TurnInv, NackInv
  <2> QED
    BY <1>2, <2>1, <2>2, <2>3, <2>4, UeLoopIs DEF NackInv
<1> QED
  BY <1>6, <1>7, <1>8 DEF TurnInv

\* When the frames arrive, the next turn is that of the process a round less one ago.
LEMMA NextTurnIs ==
    ASSUME IInv, EndOfTti
    PROVE  /\ Now \in Acid /\ currentHarq' = Succ(Now, 1) /\ Now' = currentHarq'
           /\ \A p \in Acid : Since(p) = HarqProcesses - 1 => p = Now'
           /\ \A p \in Acid : p = HarqProcesses - 2 /\ Since(p) = 1 => currentHarq' = 0
<1>1. TypeInv /\ HarqProcesses \in Nat /\ HarqProcesses >= 4 /\ Now \in Acid
  BY RoundTripFits, SinceRange DEF IInv
<1>2. phase = "Arrive" /\ phase' = "Enb" /\ currentHarq' = currentHarq
  BY EndOfTtiIs
<1>3. Now' = currentHarq' /\ Now' = IF Now = HarqProcesses - 1 THEN 0 ELSE Now + 1
  <2>1. Now' = IF Now = HarqProcesses - 1 THEN 0 ELSE Now + 1
    BY <1>1, <1>2, SinceInArrive
  <2>2. Now' = currentHarq'
    BY <1>2 DEF Now
  <2> QED
    BY <2>1, <2>2
<1>4. Succ(Now, 1) = IF Now + 1 < HarqProcesses THEN Now + 1 ELSE Now + 1 - HarqProcesses
  BY <1>1, SuccIs
<1>5. \A p \in Acid : /\ Since(p) = HarqProcesses - 1 => p = Now'
                      /\ p = HarqProcesses - 2 /\ Since(p) = 1 => Now' = 0
  BY <1>1, <1>3 DEF Since, Acid
<1> QED
  BY <1>1, <1>3, <1>4, <1>5 DEF Acid

LEMMA ArriveTurn ==
    ASSUME IInv, TurnInv, Arrive
    PROVE  TurnInv'
<1>1. TypeInv /\ HarqProcesses \in Nat /\ HarqProcesses >= 4
  BY RoundTripFits DEF IInv
<1>2. air.enb = cell /\ EndOfTti /\ ReceiveHarqFeedback /\ InsertPdu
  BY DEF Arrive
<1>3. /\ phase = "Arrive" /\ phase' = "Enb" /\ grant = None /\ air' = sent
      /\ sent'.grant = None /\ sent'.fb = {}
      /\ \A p \in Acid : Since(p) # HarqProcesses - 1 => Since(p)' = Since(p) + 1
      /\ UNCHANGED <<cell, fbTimer, firstTx, currentHarq, harqStatus, undisturbed>>
  BY <1>2, EndOfTtiIs
<1>4. sent.enb = cell /\ grant' = air.grant
  BY <1>3 DEF IInv, PhaseInv, Arrive
<1>5. \A f \in air.fb : f.acid \in Acid /\ AirFb(f.acid) /\ firstTx
  <2>1. \A f \in air.fb : f.acid \in Acid /\ AirFb(f.acid)
    BY <1>2, ReceiveHarqFeedbackIs
  <2> QED
    BY <2>1, NothingBeforeFirstTx
<1> SUFFICES ASSUME undisturbed'
             PROVE  TurnInv'
  BY DEF TurnInv, CounterInv, GrantInv, NackInv
<1>6. undisturbed
  BY <1>3
<1>7. CounterInv'
  <2>1. ASSUME ~known', firstTx
        PROVE  harqStatus[cell] = Absent /\ sent.pdu = FirstPdu
    <3>1. ~known /\ air.pdu = NoPdu
      BY <1>2, <2>1 DEF InsertPdu
    <3>2. NoPdu # FirstPdu
      BY DEF NoPdu, FirstPdu, None
    <3> QED
      BY <1>6, <2>1, <3>1, <3>2 DEF TurnInv, CounterInv
  <2>2. ~known' => harqStatus[cell] = Absent
    <3>1. ~known' => ~known
      BY <1>2, <1>3, InsertPduIs
    <3> QED
      BY <1>6, <3>1 DEF TurnInv, CounterInv
  <2>3. ASSUME known', ~known
        PROVE  firstTx /\ UpdateHarqDescs' = currentHarq'
    <3>1. PICK p \in Acid : AirPdu(p)
      BY <1>2, <1>3, <2>3, InsertPduIs
    <3>2. firstTx /\ Since(p) = 1
      BY <3>1, NothingBeforeFirstTx DEF IInv, StageInv
    <3>3. harqStatus[cell] = Absent /\ air.pdu = FirstPdu
      BY <1>6, <2>3, <3>1, <3>2 DEF TurnInv, CounterInv, AirPdu, NoPdu
    <3>4. p = HarqProcesses - 2
      BY <3>1, <3>3 DEF AirPdu, FirstPdu
    <3>5. currentHarq' = 0
      BY <1>2, <3>2, <3>4, NextTurnIs
    <3> QED
      BY <1>3, <2>3, <3>2, <3>3, <3>5 DEF UpdateHarqDescs
  <2>4. ASSUME known', known
        PROVE  firstTx /\ UpdateHarqDescs' = currentHarq'
    <3>1. firstTx /\ harqStatus[cell] = Now
      BY <1>3, <1>6, <2>4 DEF TurnInv, CounterInv
    <3>2. Now # Absent /\ currentHarq' = Succ(Now, 1)
      BY <1>1, <1>2, NextTurnIs DEF Acid, Absent
    <3>3. UpdateHarqDescs' = Succ(Now, 1)
      BY <1>3, <2>4, <3>1, <3>2 DEF UpdateHarqDescs
    <3> QED
      BY <3>1, <3>2, <3>3
  <2> QED
    BY <1>3, <1>4, <2>1, <2>2, <2>3, <2>4 DEF CounterInv
<1>8. GrantInv'
  <2>1. None \notin Pdu
    BY DEF None, Pdu
  <2>2. ASSUME sent.grant \in Pdu
        PROVE  \E f \in sent.fb : f.id = sent.grant /\ ~f.ok /\ Since(f.acid)' = HarqProcesses - 1
    <3>1. PICK f \in sent.fb : f.id = sent.grant /\ ~f.ok /\ Since(f.acid) = HarqProcesses - 2
      BY <1>6, <2>2 DEF TurnInv, GrantInv
    <3>2. f.acid \in Acid
      BY <1>1 DEF TypeInv, Feedback
    <3>3. Since(f.acid)' = HarqProcesses - 1
      BY <1>1, <1>3, <3>1, <3>2
    <3> QED
      BY <3>1, <3>3
  <2>3. ASSUME air.grant \in Pdu
        PROVE  /\ firstTx
               /\ \/ air.grant \in discarded'
                  \/ tx'[Now'].st = "BUFFERED" /\ tx'[Now'].id = air.grant
    <3>1. PICK f \in air.fb : f.id = air.grant /\ ~f.ok /\ Since(f.acid) = HarqProcesses - 1
      BY <1>6, <2>3 DEF TurnInv, GrantInv
    <3>2. f.acid \in Acid /\ f.acid = Now' /\ firstTx
      BY <1>2, <1>5, <3>1, NextTurnIs
    <3>3. /\ f.id = tx[f.acid].id
          /\ tx'[f.acid] = PduFeedback(tx[f.acid], FALSE)
          /\ tx[f.acid].n = MaxHarqRtx + 1 => f.id \in discarded'
      <4>1. f.ok = FALSE
        BY <1>1, <3>1 DEF TypeInv, Feedback
      <4> QED
        BY <1>2, <3>1, <4>1, ReceiveHarqFeedbackIs
    <3>4. tx[f.acid].n # MaxHarqRtx + 1 =>
             tx'[f.acid].st = "BUFFERED" /\ tx'[f.acid].id = tx[f.acid].id
      BY <1>1, <3>2, <3>3 DEF PduFeedback, TypeInv
    <3> QED
      BY <3>1, <3>2, <3>3, <3>4
  <2> QED
    BY <1>3, <1>4, <2>1, <2>2, <2>3 DEF GrantInv
<1>9. NackInv'
  <2>1. FitsInRound' = FitsInRound
    BY <1>3 DEF FitsInRound
  <2>2. FitsInRound /\ MaxHarqRtx > 0 => \A f \in sent.fb : ~f.ok => sent.grant = f.id
    BY <1>6 DEF TurnInv, NackInv
  <2>3. ASSUME FitsInRound, NEW p \in Acid, tx'[p].st = "BUFFERED"
        PROVE  firstTx /\ p = Now' /\ grant' = tx'[p].id
    <3>1. AirFb(p)
      <4>1. tx[p].st # "BUFFERED"
        BY <1>3, <1>6, <2>3 DEF TurnInv, NackInv
      <4> QED
        BY <1>2, <2>3, <4>1, ReceiveHarqFeedbackIs
    <3>2. /\ tx'[p].id = tx[p].id /\ tx[p].n <= MaxHarqRtx
          /\ [acid |-> p, id |-> tx[p].id, ok |-> FALSE] \in air.fb
      BY <2>3, <3>1, AnsweredUnit DEF EmptyTx
    <3>3. tx[p].n > 0 /\ tx[p].n \in Nat
      BY <1>1, <3>1, HarqAssumption DEF IInv, WaitingInv, UnitInv, TypeInv
    <3>4. MaxHarqRtx > 0
      BY <3>2, <3>3, HarqAssumption
    <3>5. air.grant = tx[p].id
      BY <1>6, <2>3, <3>2, <3>4 DEF TurnInv, NackInv
    <3>6. Since(p) = HarqProcesses - 1
      BY <2>3, <3>1 DEF IInv, StageInv, FitsInRound, RoundTrip
    <3> QED
      BY <1>2, <1>4, <1>5, <3>2, <3>5, <3>6, NextTurnIs
  <2> QED
    BY <1>3, <2>1, <2>2, <2>3 DEF NackInv
<1> QED
  BY <1>7, <1>8, <1>9 DEF TurnInv

-----------------------------------------------------------------------------
(* The counters and the grants: all of it *)

LEMMA TurnInvariant == Spec => [](IInv /\ TurnInv)
<1>1. Init => IInv /\ TurnInv
  BY InitInv, InitTurn
<1>2. IInv /\ TurnInv /\ [Next]_vars => (IInv /\ TurnInv)'
  <2> SUFFICES ASSUME IInv, TurnInv, [Next]_vars
               PROVE  TurnInv'
    BY EnbLoopInv, UeLoopInv, ArriveInv, FromOldMasterInv, HandoverInv, StutterInv DEF Next, Tti
  <2>1. CASE FromOldMaster
    <3>1. ~undisturbed'
      BY <2>1 DEF FromOldMaster, EndOfTti, TurnInv, CounterInv
    <3> QED
      BY <3>1 DEF TurnInv, CounterInv, GrantInv, NackInv
  <2>2. CASE \E e \in Enb : Handover(e)
    <3>1. ~undisturbed'
      BY <2>2 DEF Handover
    <3> QED
      BY <3>1 DEF TurnInv, CounterInv, GrantInv, NackInv
  <2>3. CASE UNCHANGED vars
    BY <2>3 DEF TurnInv, CounterInv, GrantInv, NackInv, UpdateHarqDescs, Now, Since, FitsInRound,
                vars, ueVars, enbVars
  <2> QED
    BY <2>1, <2>2, <2>3, EnbLoopTurn, UeLoopTurn, ArriveTurn DEF Next, Tti
<1> QED
  BY <1>1, <1>2, PTL DEF Spec

LEMMA RetransmissionFollows ==
    ASSUME IInv, TurnInv
    PROVE  RetransmissionInTurn
<1> SUFFICES ASSUME phase = "Ue", undisturbed
             PROVE  /\ \A f \in sent.fb : ~f.ok => (sent.grant = f.id <=> FitsInRound /\ MaxHarqRtx > 0)
                    /\ grant \in Pdu \ discarded =>
                          tx[Turn].st = "BUFFERED" /\ tx[Turn].id = grant
                    /\ FitsInRound =>
                          \A p \in Acid : tx[p].st = "BUFFERED" => p = Turn /\ grant = tx[p].id
  BY DEF RetransmissionInTurn
<1>1. firstTx => Turn = Now
  BY DEF Turn, Now
<1> QED
  BY <1>1 DEF TurnInv, GrantInv, NackInv

\* For any parameters with a round trip that fits into a round, from the first PDU to the
\* first handover: the scheduler, looking two processes ahead of its own counter, grants the
\* retransmission of a PDU it has just NACKed exactly if the round trip takes a whole round,
\* that grant reaches the UE in the turn of the PDU, and then no unit waits without one.
THEOREM RetransmissionsInTurn == Spec => []RetransmissionInTurn
BY TurnInvariant, RetransmissionFollows, PTL
=============================================================================
