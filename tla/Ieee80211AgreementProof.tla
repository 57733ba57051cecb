---------------------- MODULE Ieee80211AgreementProof ----------------------
(***************************************************************************)
(* Proofs about Ieee80211Association that need the frames in the queues:   *)
(* station and access point agree on the association, nobody is refused    *)
(* without cause, and no response comes from an access point the station   *)
(* does not know, for every set of access points that may be restarted;    *)
(* then about AssociationRequests: what answers the agent's last request.  *)
(* Except where noted they assume that no timer outruns a frame (Timely).  *)
(***************************************************************************)
EXTENDS Ieee80211AssociationProof, AssociationRequests

-----------------------------------------------------------------------------
(* What is in the queues.  One request is under way at a time: nothing, one  *)
(* frame of an authentication, one of an association, or, as long as the     *)
(* station is scanning or about to, whatever earlier attempts left over.     *)

Silence == \A a \in AP : Silent(a)
Carries(a, u, d) == up[a] = u /\ down[a] = d /\ \A b \in AP \ {a} : Silent(b)

\* An access point that cannot have forgotten the station expects the frame on its way.
AuthUp(a) ==
    \E n \in Nat : /\ Carries(a, <<AuthFrame(n, FALSE)>>, <<>>)
                   /\ apList[a].authSeqExpected = n + 1
                   /\ \/ a \in Restartable \/ n = 1
                      \/ ap[a].listed /\ ap[a].authSeqExpected = n
AuthDown(a) ==
    \E n \in Nat, last \in BOOLEAN :
        /\ Carries(a, <<>>, <<AuthFrame(n, last)>>)
        /\ apList[a].authSeqExpected = n
        /\ \/ a \in Restartable \/ last
           \/ ap[a].listed /\ ap[a].authSeqExpected = n + 1
AuthRefused(a) == a \in Restartable /\ Carries(a, <<>>, <<AuthError>>)

AuthUnderWay ==
    \E a \in AP : /\ Quiet /\ apList[a].authTimer = "running"
                  /\ AuthUp(a) \/ AuthDown(a) \/ AuthRefused(a)

AssocUnderWay ==
    \E a \in AP : /\ Quiet /\ assocTimer = "running" /\ apList[a].known
                  /\ \/ Carries(a, <<MgmtFrame("AssocReq")>>, <<>>)
                     \/ Carries(a, <<>>, <<MgmtFrame("Deauth")>>)
                     \/ /\ Carries(a, <<>>, <<MgmtFrame("AssocResp")>>)
                        /\ ap[a].status = "ASSOCIATED"

NoAuthFrame == {f \in Frame : f.type # "Auth"}
OkFrame == {f \in Frame : f.ok}
GivenUp ==
    \/ isScanning \/ toMgmt = <<ScanRequest>>
    \/ \E a \in AP : toAgent = <<AuthenticateConfirm(a, FALSE)>>
LeftOver ==
    /\ GivenUp /\ ~isAssociated
    /\ \A a \in AP \ Restartable : up[a] \in Seq(NoAuthFrame) /\ down[a] \in Seq(OkFrame)

MediumInv ==
    /\ Silence \/ AuthUnderWay \/ AssocUnderWay \/ LeftOver
    /\ isAssociated => assocAP \in AP /\ Silence /\ ap[assocAP].status = "ASSOCIATED"

KnownInv == assocTimer # "none" => \E a \in AP : apList[a].known

-----------------------------------------------------------------------------
(* Lemmas about frames and queues *)

\* What tells the frames apart.
LEMMA FramesLemma ==
    /\ \A n, l : /\ AuthFrame(n, l).type = "Auth" /\ AuthFrame(n, l).seq = n
                 /\ AuthFrame(n, l).ok = TRUE /\ AuthFrame(n, l).last = l
    /\ AuthError.type = "Auth" /\ AuthError.ok = FALSE /\ AuthError.seq = 0
    /\ \A t : MgmtFrame(t).type = t /\ MgmtFrame(t).ok = TRUE
  BY DEF AuthFrame, AuthError, MgmtFrame

\* A queue has room for one frame.
LEMMA RoomLemma == \A f : Enqueue(<<>>, f) = <<f>>
<1> TAKE f
<1>1. Len(<<>>) = 0 /\ 0 < QueueCapacity
  BY AssociationAssumption
<1> QED BY <1>1, GateLemma DEF Enqueue

\* The first frame of an exchange is put on its way.
LEMMA SendLemma ==
    ASSUME TypeInv, Silence, NEW a \in AP, NEW f,
           up' = [up EXCEPT ![a] = Enqueue(@, f)], down' = down
    PROVE  Carries(a, <<f>>, <<>>)'
<1>1. up \in [AP -> Seq(Frame)] /\ up[a] = <<>> /\ \A b \in AP : up[b] = <<>> /\ down[b] = <<>>
  BY DEF TypeInv, Silence, Silent
<1>2. up'[a] = <<f>> /\ \A b \in AP \ {a} : up'[b] = <<>>
  BY <1>1, RoomLemma
<1> QED BY <1>1, <1>2 DEF Carries, Silent

\* A frame arrives: nothing is left, or its answer.
LEMMA ArriveUpLemma ==
    ASSUME TypeInv, NEW a \in AP, NEW f, Carries(a, <<f>>, <<>>),
           up' = [up EXCEPT ![a] = Tail(@)]
    PROVE  /\ down' = down => Silence'
           /\ \A g : down' = [down EXCEPT ![a] = Enqueue(@, g)] => Carries(a, <<>>, <<g>>)'
<1>1. /\ up \in [AP -> Seq(Frame)] /\ down \in [AP -> Seq(DownFrame)]
      /\ up[a] = <<f>> /\ down[a] = <<>>
      /\ \A b \in AP \ {a} : up[b] = <<>> /\ down[b] = <<>>
  BY DEF TypeInv, Carries, Silent
<1>2. \A b \in AP : up'[b] = <<>>
  BY <1>1, GateLemma
<1>3. ASSUME NEW g, down' = [down EXCEPT ![a] = Enqueue(@, g)]
      PROVE  down'[a] = <<g>> /\ \A b \in AP \ {a} : down'[b] = <<>>
  BY <1>1, <1>3, RoomLemma
<1>4. ASSUME NEW g, down' = [down EXCEPT ![a] = Enqueue(@, g)] PROVE Carries(a, <<>>, <<g>>)'
  BY <1>2, <1>3, <1>4 DEF Carries, Silent
<1>5. down' = down => Silence'
  BY <1>1, <1>2 DEF Silence, Silent
<1> QED BY <1>4, <1>5

LEMMA ArriveDownLemma ==
    ASSUME TypeInv, NEW a \in AP, NEW f, Carries(a, <<>>, <<f>>),
           down' = [down EXCEPT ![a] = Tail(@)]
    PROVE  /\ up' = up => Silence'
           /\ \A g : up' = [up EXCEPT ![a] = Enqueue(@, g)] => Carries(a, <<g>>, <<>>)'
<1>1. /\ up \in [AP -> Seq(Frame)] /\ down \in [AP -> Seq(DownFrame)]
      /\ down[a] = <<f>> /\ up[a] = <<>>
      /\ \A b \in AP \ {a} : up[b] = <<>> /\ down[b] = <<>>
  BY DEF TypeInv, Carries, Silent
<1>2. \A b \in AP : down'[b] = <<>>
  BY <1>1, GateLemma
<1>3. ASSUME NEW g, up' = [up EXCEPT ![a] = Enqueue(@, g)]
      PROVE  up'[a] = <<g>> /\ \A b \in AP \ {a} : up'[b] = <<>>
  BY <1>1, <1>3, RoomLemma
<1>4. ASSUME NEW g, up' = [up EXCEPT ![a] = Enqueue(@, g)] PROVE Carries(a, <<g>>, <<>>)'
  BY <1>2, <1>3, <1>4 DEF Carries, Silent
<1>5. up' = up => Silence'
  BY <1>1, <1>2 DEF Silence, Silent
<1> QED BY <1>4, <1>5

\* Nothing but the frame of the exchange can be the next to arrive.
LEMMA OnlyLemma ==
    ASSUME NEW a \in AP, NEW b \in AP, NEW u, NEW d, Carries(a, u, d),
           up[b] # <<>> \/ down[b] # <<>>
    PROVE  b = a
  BY DEF Carries, Silent

-----------------------------------------------------------------------------
(* The station's own steps *)

LEMMA InitMediumInv == Init => MediumInv /\ KnownInv
  BY DEF Init, MediumInv, KnownInv, Silence, Silent

\* A step that leaves the medium, the access points and the association alone.
LEMMA SilentStays ==
    ASSUME Silence, MediumInv, UNCHANGED <<up, down, isAssociated, assocAP>>,
           \A a \in AP : ap'[a].status = ap[a].status
    PROVE  MediumInv'
  BY DEF MediumInv, Silence, Silent

LEMMA LeftOverStays ==
    ASSUME LeftOver, UNCHANGED <<up, down>>, ~isAssociated', GivenUp'
    PROVE  MediumInv'
  BY DEF MediumInv, LeftOver

LEMMA AgentStepMedium ==
  ASSUME IInv, MediumInv, AgentStep
  PROVE  MediumInv'
<1>1. /\ UNCHANGED <<up, down, isAssociated, assocAP, ap>>
      /\ startUp \/ toAgent # <<>>
  BY DEF AgentStep, StartUp, ProcessScanConfirm, ProcessAuthenticateConfirm, AgentReceives,
     ProcessAssociateConfirm, AssociateFailed, AssociateSucceeded, assocVars, medium
<1>2. CASE Silence
  BY <1>1, <1>2, SilentStays
<1>3. CASE AuthUnderWay \/ AssocUnderWay
  <2>1. PICK a \in AP : Quiet /\ (apList[a].authTimer = "running" \/ assocTimer = "running")
    BY <1>3 DEF AuthUnderWay, AssocUnderWay
  <2>2. Starting
    BY <1>1, <2>1, QuietPhase DEF Quiet, Scanning, Authenticating, Associating, Associated
  <2> QED BY <2>1, <2>2 DEF Starting, Fresh, NoAuthTimer
<1>4. CASE LeftOver
  <2>1. PICK a \in AP : toAgent = <<AuthenticateConfirm(a, FALSE)>>
    <3>1. CASE isScanning
      BY <1>1, <3>1 DEF IInv, Phase, Starting, ScanAsked, Scanning, ScanReported, AuthAsked,
         Authenticating, AuthFailed, AuthSucceeded, AssocAsked, Associating, AssocFailed,
         AssocReported, Associated, NotScanning, Gates
    <3>2. CASE toMgmt = <<ScanRequest>>
      <4>1. toAgent = <<>> /\ ScanAsked
        BY <3>2, CommandPhase, GateLemma DEF ScanRequest
      <4> QED BY <1>1, <4>1 DEF ScanAsked
    <3> QED BY <1>4, <3>1, <3>2 DEF LeftOver, GivenUp
  <2>2. AuthFailed
    <3>1. /\ toAgent # <<>> /\ Head(toAgent).type = "Authenticate" /\ Head(toAgent).ok = FALSE
      BY <2>1, GateLemma DEF AuthenticateConfirm
    <3> HIDE <2>1
    <3> QED BY <3>1, GateLemma DEF IInv, Phase, Starting, ScanAsked, Scanning, ScanReported,
         AuthAsked, Authenticating, AuthSucceeded, AssocAsked, Associating, AssocFailed,
         AssocReported, Associated, Gates, ScanConfirm, AuthenticateConfirm, AssociateConfirm
  <2>3. ProcessAuthenticateConfirm /\ toMgmt = <<>> /\ ~Head(toAgent).ok
    BY <1>1, <1>4, <2>1, <2>2, GateLemma DEF AgentStep, StartUp, ProcessScanConfirm, AgentReceives,
       ProcessAssociateConfirm, AssociateFailed, AssociateSucceeded, AuthFailed, Gates,
       AuthenticateConfirm
  <2>4. toMgmt' = <<ScanRequest>>
    BY <2>3, GateLemma DEF ProcessAuthenticateConfirm
  <2> QED BY <1>1, <1>4, <2>4, LeftOverStays DEF LeftOver, GivenUp
<1> QED BY <1>2, <1>3, <1>4 DEF MediumInv

LEMMA CommandStepMedium ==
  ASSUME IInv, MediumInv, CommandStep
  PROVE  MediumInv'
<1>1. TypeInv /\ toMgmt # <<>> /\ toAgent = <<>> /\ ~Quiet
  BY CommandPhase DEF IInv, CommandStep, ProcessScanCommand, ProcessAuthenticateCommand,
     ProcessAssociateCommand, MgmtReceives, Quiet
<1>2. Silence \/ LeftOver
  BY <1>1 DEF MediumInv, AuthUnderWay, AssocUnderWay
<1>3. CASE ProcessScanCommand
  <2>1. isScanning' /\ ~isAssociated' /\ UNCHANGED <<up, down>>
    <3>1. 0 # Len(ChannelList)
      BY AssociationAssumption
    <3> QED BY <1>3, <3>1 DEF ProcessScanCommand, ScanNextChannel, MgmtReceives
  <2>2. CASE Silence
    BY <2>1, <2>2 DEF MediumInv, Silence, Silent
  <2>3. CASE LeftOver
    BY <2>1, <2>3, LeftOverStays DEF GivenUp
  <2> QED BY <1>2, <2>2, <2>3
<1>4. ASSUME ~ProcessScanCommand PROVE Silence
  <2>1. AuthAsked \/ AssocAsked
    BY <1>1, <1>4, CommandPhase DEF CommandStep, ProcessAuthenticateCommand,
       ProcessAssociateCommand, MgmtReceives
  <2>2. ~isScanning /\ toAgent = <<>> /\ Head(toMgmt).type # "Scan"
    BY <2>1, GateLemma DEF AuthAsked, AssocAsked, NotScanning, Gates, AuthenticateRequest,
       AssociateRequest
  <2>3. Head(<<ScanRequest>>).type = "Scan"
    BY GateLemma DEF ScanRequest
  <2>4. ~GivenUp
    BY <2>2, <2>3, GateLemma DEF GivenUp
  <2> QED BY <1>2, <2>4 DEF LeftOver
<1>5. CASE ProcessAuthenticateCommand
  <2>1. AuthAsked /\ Silence
    BY <1>1, <1>4, <1>5, CommandPhase DEF ProcessAuthenticateCommand, ProcessScanCommand, MgmtReceives
  <2>2. PICK a \in AP : apList[a].known /\ Gates(<<AuthenticateRequest(a)>>, <<>>)
    BY <2>1 DEF AuthAsked
  <2>3. Head(toMgmt).ap = a /\ Tail(toMgmt) = <<>>
    BY <2>2, GateLemma DEF Gates, AuthenticateRequest
  <2>4. /\ up' = [up EXCEPT ![a] = Enqueue(@, AuthFrame(1, FALSE))] /\ down' = down
        /\ toMgmt' = <<>> /\ toAgent' = <<>> /\ isAssociated' = isAssociated
        /\ apList' = [apList EXCEPT ![a].authSeqExpected = 2, ![a].authTimer = "running"]
    BY <1>1, <1>5, <2>3 DEF ProcessAuthenticateCommand, MgmtReceives, assocVars
  <2>5. Carries(a, <<AuthFrame(1, FALSE)>>, <<>>)'
    BY <1>1, <2>1, <2>4, SendLemma
  <2>6. /\ apList'[a].authSeqExpected = 1 + 1 /\ apList'[a].authTimer = "running"
        /\ ~isAssociated'
    BY <1>1, <2>1, <2>4 DEF TypeInv, ApInfo, AuthAsked, Fresh, NotAssociated
  <2>7. AuthUp(a)'
    BY <2>5, <2>6 DEF AuthUp
  <2> QED BY <2>4, <2>6, <2>7 DEF MediumInv, AuthUnderWay, Quiet
<1>6. CASE ProcessAssociateCommand
  <2>1. AssocAsked /\ Silence
    BY <1>1, <1>4, <1>6, CommandPhase DEF ProcessAssociateCommand, ProcessScanCommand, MgmtReceives
  <2>2. PICK a \in AP : apList[a].known /\ Gates(<<AssociateRequest(a)>>, <<>>)
    BY <2>1 DEF AssocAsked
  <2>3. Head(toMgmt).ap = a /\ Tail(toMgmt) = <<>>
    BY <2>2, GateLemma DEF Gates, AssociateRequest
  <2>4. /\ up' = [up EXCEPT ![a] = Enqueue(@, MgmtFrame("AssocReq"))] /\ down' = down
        /\ toMgmt' = <<>> /\ toAgent' = <<>> /\ isAssociated' = isAssociated
        /\ assocTimer' = "running" /\ apList' = apList
    BY <1>1, <1>6, <2>3 DEF ProcessAssociateCommand, MgmtReceives
  <2>5. Carries(a, <<MgmtFrame("AssocReq")>>, <<>>)' /\ ~isAssociated'
    BY <1>1, <2>1, <2>4, SendLemma DEF AssocAsked, NotAssociated
  <2> QED BY <2>2, <2>4, <2>5 DEF MediumInv, AssocUnderWay, Quiet
<1> QED BY <1>3, <1>5, <1>6 DEF CommandStep

\* While a frame of an exchange is on its way the station waits for it.
LEMMA WaitingLemma ==
    ASSUME IInv, Quiet
    PROVE  /\ AuthUnderWay => Authenticating
           /\ AssocUnderWay => Associating
           /\ LeftOver => Scanning
<1>1. Starting \/ Scanning \/ Authenticating \/ Associating \/ Associated
  BY QuietPhase
<1>2. AuthUnderWay => Authenticating
  BY <1>1 DEF AuthUnderWay, Starting, Scanning, Associating, Associated, Fresh, NoAuthTimer
<1>3. AssocUnderWay => Associating
  BY <1>1 DEF AssocUnderWay, Starting, Scanning, Authenticating, Associated, Fresh
<1>4. LeftOver => isScanning
  BY GateLemma DEF LeftOver, GivenUp, Quiet
<1>5. LeftOver => Scanning
  BY <1>1, <1>4 DEF Starting, Authenticating, Associating, Associated, NotScanning
<1> QED BY <1>2, <1>3, <1>5

\* A step that leaves the frames, the access points' records and the station's part of the
\* exchange alone.
LEMMA ElsewhereMedium ==
    ASSUME IInv, MediumInv, Quiet, Quiet',
           UNCHANGED <<up, down, isScanning, assocTimer, isAssociated, assocAP>>,
           \A a \in AP : /\ ap'[a].status = ap[a].status
                         /\ a \notin Restartable =>
                                /\ ap'[a].listed = ap[a].listed
                                /\ ap'[a].authSeqExpected = ap[a].authSeqExpected
                         /\ apList[a].known => apList'[a].known
                         /\ apList'[a].authTimer = apList[a].authTimer
                         /\ apList'[a].authSeqExpected = apList[a].authSeqExpected
    PROVE  MediumInv'
<1>1. CASE Silence
  BY <1>1, SilentStays
<1>2. CASE AuthUnderWay
  <2>1. PICK a \in AP : /\ apList[a].authTimer = "running"
                        /\ AuthUp(a) \/ AuthDown(a) \/ AuthRefused(a)
    BY <1>2 DEF AuthUnderWay
  <2>2. \A u, d : Carries(a, u, d) => Carries(a, u, d)'
    BY DEF Carries, Silent
  <2>3. AuthUp(a) => AuthUp(a)'
    BY <2>2 DEF AuthUp
  <2>4. AuthDown(a) => AuthDown(a)'
    BY <2>2 DEF AuthDown
  <2>5. AuthRefused(a) => AuthRefused(a)'
    BY <2>2 DEF AuthRefused
  <2>6. ~isAssociated
    BY <1>2, WaitingLemma DEF Authenticating, NotAssociated
  <2> QED BY <2>1, <2>3, <2>4, <2>5, <2>6 DEF MediumInv, AuthUnderWay
<1>3. CASE AssocUnderWay
  <2>1. \A a \in AP : \A u, d : Carries(a, u, d) => Carries(a, u, d)'
    BY DEF Carries, Silent
  <2>2. ~isAssociated
    BY <1>3, WaitingLemma DEF Associating, NotAssociated
  <2> QED BY <1>3, <2>1, <2>2 DEF MediumInv, AssocUnderWay
<1>4. CASE LeftOver
  <2>1. isScanning
    BY <1>4, WaitingLemma DEF Scanning
  <2> QED BY <1>4, <2>1, LeftOverStays DEF LeftOver, GivenUp
<1> QED BY <1>1, <1>2, <1>3, <1>4 DEF MediumInv

LEMMA TimerMedium ==
  ASSUME Timely, IInv, MediumInv, TimerStep \/ BeaconTimeout
  PROVE  MediumInv'
<1>1. /\ TypeInv /\ Quiet
      /\ UNCHANGED <<ap, down, isAssociated, assocAP>>
  BY DEF IInv, TimerStep, BeaconTimeout, AssocTimeout, SendProbe, MinChannelTimeBusy,
     ChannelTimeOver, AuthTimeout, TimerFires, assocVars
<1>2. CASE AssocTimeout \/ ChannelTimeOver \/ \E a \in AP : AuthTimeout(a)
  <2>1. Silence /\ UNCHANGED up
    BY <1>2 DEF AssocTimeout, ChannelTimeOver, AuthTimeout, MayExpire, Silence
  <2> QED BY <1>1, <2>1, SilentStays
<1>3. CASE BeaconTimeout
  <2>1. isAssociated /\ UNCHANGED up
    BY <1>1, <1>3, QuietPhase DEF BeaconTimeout, Starting, Scanning, Authenticating, Associating,
       Associated, Fresh, NotAssociated
  <2> QED BY <1>1, <2>1, SilentStays DEF MediumInv
<1>4. CASE MinChannelTimeBusy
  BY <1>1, <1>4, ElsewhereMedium DEF MinChannelTimeBusy, gateVars, assocVars, Quiet
<1>5. CASE SendProbe
  <2>1. Scanning
    BY <1>1, <1>5, QuietPhase DEF SendProbe, Starting, Authenticating, Associating, Associated,
       NotScanning
  <2>2. Silence \/ LeftOver
    BY <1>1, <2>1, WaitingLemma DEF MediumInv, Authenticating, Associating, Scanning, NotScanning
  <2>3. MgmtFrame("ProbeReq") \in NoAuthFrame
    BY FrameLemma, FramesLemma DEF NoAuthFrame, FrameType
  <2>4. ASSUME NEW a \in AP \ Restartable
        PROVE  up'[a] \in Seq(NoAuthFrame) /\ down'[a] \in Seq(OkFrame)
    <3>1. up[a] \in Seq(NoAuthFrame) /\ down[a] \in Seq(OkFrame)
      <4>1. <<>> \in Seq(NoAuthFrame) /\ <<>> \in Seq(OkFrame)
        OBVIOUS
      <4> QED BY <2>2, <4>1 DEF LeftOver, Silence, Silent
    <3>2. Enqueue(up[a], MgmtFrame("ProbeReq")) \in Seq(NoAuthFrame)
      BY <2>3, <3>1, EnqueueLemma
    <3>3. up'[a] \in {up[a], Enqueue(up[a], MgmtFrame("ProbeReq"))}
      BY <1>5 DEF SendProbe
    <3> QED BY <1>1, <3>1, <3>2, <3>3
  <2>5. isScanning' /\ ~isAssociated'
    BY <1>1, <1>5, <2>1 DEF SendProbe, Scanning, Fresh, NotAssociated
  <2> QED BY <2>4, <2>5 DEF MediumInv, LeftOver, GivenUp
<1> QED BY <1>2, <1>3, <1>4, <1>5 DEF TimerStep

-----------------------------------------------------------------------------
(* Frames that reach the station *)

\* A frame left over is dealt with, by either side, without a new authentication error
\* of an access point that was not restarted.
LEMMA LeftOverFrames ==
    ASSUME LeftOver, UNCHANGED <<isScanning, isAssociated>>, isScanning,
           \A a \in AP \ Restartable :
               up'[a] \in Seq(NoAuthFrame) /\ down'[a] \in Seq(OkFrame)
    PROVE  MediumInv'
  BY DEF MediumInv, LeftOver, GivenUp

LEMMA StaFrameMedium ==
  ASSUME IInv, MediumInv, NEW a \in AP, StaFrameStep(a)
  PROVE  MediumInv'
<1> DEFINE f == Head(down[a])
<1>1. /\ TypeInv /\ Quiet /\ down[a] # <<>>
      /\ down' = [down EXCEPT ![a] = Tail(@)]
      /\ UNCHANGED <<toMgmt, isScanning, ap>>
  BY DEF IInv, StaFrameStep, HandleProbeResponse, HandleAuthenticationFrame, AuthFrameIgnored,
     AuthFrameOutOfSeq, AuthFrameContinues, AuthFrameCompletes, HandleDeauthenticationFrame,
     HandleAssociationResponseFrame, AssocRespIgnored, AssocRespAccepted, StaReceives, scanVars
<1>2. ~Silence /\ ~isAssociated
  BY <1>1 DEF MediumInv, Silence, Silent
<1>3. f.type \in {"ProbeResp", "Auth", "Deauth", "AssocResp"}
  BY DEF StaFrameStep, HandleProbeResponse, HandleAuthenticationFrame, AuthFrameIgnored,
     AuthFrameOutOfSeq, AuthFrameContinues, AuthFrameCompletes, HandleDeauthenticationFrame,
     HandleAssociationResponseFrame, AssocRespIgnored, AssocRespAccepted, StaReceives
\* The steps that take a frame, by its type.
<1>4. /\ f.type = "ProbeResp" => UNCHANGED <<up, isAssociated, assocAP>>
      /\ f.type = "Auth" => HandleAuthenticationFrame(a) /\ UNCHANGED <<isAssociated, assocAP>>
      /\ f.type = "Deauth" => UNCHANGED <<up, isAssociated, assocAP>>
      /\ f.type = "AssocResp" => HandleAssociationResponseFrame(a) /\ UNCHANGED up
  BY DEF StaFrameStep, HandleProbeResponse, HandleAuthenticationFrame, AuthFrameIgnored,
     AuthFrameOutOfSeq, AuthFrameContinues, AuthFrameCompletes, HandleDeauthenticationFrame,
     HandleAssociationResponseFrame, AssocRespIgnored, AssocRespAccepted, StaReceives, assocVars
<1> HIDE DEF f
<1>5. CASE LeftOver
  <2>1. Scanning
    BY <1>1, <1>5, WaitingLemma
  <2>2. UNCHANGED <<up, isAssociated>>
    <3>1. ~AuthInProgress(a) /\ ~AssocPending
      BY <2>1 DEF Scanning, Fresh, NoAuthTimer, AuthInProgress, AssocPending
    <3> QED BY <1>3, <1>4, <3>1 DEF HandleAuthenticationFrame, AuthFrameIgnored, AuthFrameOutOfSeq,
         AuthFrameContinues, AuthFrameCompletes, HandleAssociationResponseFrame, AssocRespIgnored,
         AssocRespAccepted, assocVars
  <2>3. ASSUME NEW b \in AP \ Restartable
        PROVE  up'[b] \in Seq(NoAuthFrame) /\ down'[b] \in Seq(OkFrame)
    <3>1. up[b] \in Seq(NoAuthFrame) /\ down[b] \in Seq(OkFrame)
      BY <1>5 DEF LeftOver
    <3>2. down[b] # <<>> => Tail(down[b]) \in Seq(OkFrame)
      BY <3>1, DequeueLemma
    <3>3. down'[b] = IF b = a THEN Tail(down[b]) ELSE down[b]
      BY <1>1 DEF TypeInv
    <3> QED BY <1>1, <2>2, <3>1, <3>2, <3>3
  <2> QED BY <1>1, <1>5, <2>1, <2>2, <2>3, LeftOverFrames DEF Scanning
<1>6. CASE AuthUnderWay
  <2>1. PICK b \in AP : /\ apList[b].authTimer = "running"
                        /\ AuthUp(b) \/ AuthDown(b) \/ AuthRefused(b)
    BY <1>6 DEF AuthUnderWay
  <2>2. b = a /\ ~AuthUp(b)
    BY <1>1, <2>1, OnlyLemma DEF AuthUp, AuthDown, AuthRefused, Carries
  <2>3. Authenticating /\ apList[a].authTimer = "running"
    BY <1>1, <1>6, <2>1, <2>2, WaitingLemma
  <2>4. AuthInProgress(a)
    BY <2>3 DEF Authenticating, NobodyAuthenticated, AuthInProgress
  <2>5. Carries(a, <<>>, <<f>>) /\ f.type = "Auth"
    BY <2>1, <2>2, FramesLemma, GateLemma DEF AuthDown, AuthRefused, Carries, f
  <2>6. ~isAssociated' /\ HandleAuthenticationFrame(a)
    BY <1>2, <1>4, <2>5
  <2>7. CASE AuthFrameCompletes(a)
    <3>1. up' = up
      BY <2>7 DEF AuthFrameCompletes
    <3> QED BY <1>1, <2>5, <2>6, <3>1, ArriveDownLemma DEF MediumInv
  <2>8. CASE AuthFrameContinues(a)
    <3>1. /\ f.seq = apList[a].authSeqExpected /\ f.ok /\ ~f.last
          /\ up' = [up EXCEPT ![a] = Enqueue(@, AuthFrame(f.seq + 1, FALSE))]
          /\ apList' = [apList EXCEPT ![a].authSeqExpected = apList[a].authSeqExpected + 2]
          /\ toAgent' = toAgent
      BY <2>8 DEF AuthFrameContinues, NextFromAP, f
    <3>2. ~AuthRefused(a)
      BY <3>1, FramesLemma, GateLemma DEF AuthRefused, Carries, f
    <3>3. PICK n \in Nat, last \in BOOLEAN :
              /\ Carries(a, <<>>, <<AuthFrame(n, last)>>)
              /\ apList[a].authSeqExpected = n
              /\ \/ a \in Restartable \/ last
                 \/ ap[a].listed /\ ap[a].authSeqExpected = n + 1
      BY <2>1, <2>2, <3>2 DEF AuthDown
    <3>4. f = AuthFrame(n, last)
      BY <3>3, GateLemma DEF Carries, f
    <3>5. f.seq = n /\ ~last
      BY <3>1, <3>4, FramesLemma
    <3>6. Carries(a, <<AuthFrame(n + 1, FALSE)>>, <<>>)'
      BY <1>1, <2>5, <3>1, <3>5, ArriveDownLemma
    <3>7. apList'[a].authSeqExpected = (n + 1) + 1 /\ apList'[a].authTimer = "running"
      BY <1>1, <2>3, <3>1, <3>3 DEF TypeInv, ApInfo
    <3>8. a \in Restartable \/ (ap'[a].listed /\ ap'[a].authSeqExpected = n + 1)
      BY <1>1, <3>3, <3>5
    <3>9. AuthUp(a)'
      <4>1. n + 1 \in Nat
        OBVIOUS
      <4> QED BY <3>6, <3>7, <3>8, <4>1, Zenon DEF AuthUp
    <3> QED BY <1>1, <2>6, <3>1, <3>7, <3>9 DEF MediumInv, AuthUnderWay, Quiet
  <2>9. CASE AuthFrameOutOfSeq(a)
    <3>1. /\ f.seq # apList[a].authSeqExpected
          /\ up' = [up EXCEPT ![a] = Enqueue(@, AuthError)]
          /\ toAgent' = <<AuthenticateConfirm(a, FALSE)>>
      BY <1>1, <2>9, GateLemma DEF AuthFrameOutOfSeq, f, Quiet
    <3>2. ~AuthDown(a)
      <4> SUFFICES ASSUME AuthDown(a) PROVE FALSE
        OBVIOUS
      <4>1. PICK n \in Nat, last \in BOOLEAN : /\ Carries(a, <<>>, <<AuthFrame(n, last)>>)
                                               /\ apList[a].authSeqExpected = n
        BY DEF AuthDown
      <4>2. f = AuthFrame(n, last)
        BY <4>1, GateLemma DEF Carries, f
      <4> QED BY <3>1, <4>1, <4>2, FramesLemma
    <3>3. a \in Restartable
      BY <2>1, <2>2, <3>2 DEF AuthRefused
    <3>4. Carries(a, <<AuthError>>, <<>>)'
      BY <1>1, <2>5, <3>1, ArriveDownLemma
    <3>5. \A b1 \in AP \ Restartable :
              up'[b1] \in Seq(NoAuthFrame) /\ down'[b1] \in Seq(OkFrame)
      <4>1. <<>> \in Seq(NoAuthFrame) /\ <<>> \in Seq(OkFrame)
        OBVIOUS
      <4> QED BY <3>3, <3>4, <4>1 DEF Carries, Silent
    <3> QED BY <2>6, <3>1, <3>5 DEF MediumInv, LeftOver, GivenUp
  <2> QED BY <2>4, <2>6, <2>7, <2>8, <2>9 DEF HandleAuthenticationFrame, AuthFrameIgnored
<1>7. CASE AssocUnderWay
  <2>1. PICK b \in AP : \/ Carries(b, <<MgmtFrame("AssocReq")>>, <<>>)
                        \/ Carries(b, <<>>, <<MgmtFrame("Deauth")>>)
                        \/ /\ Carries(b, <<>>, <<MgmtFrame("AssocResp")>>)
                           /\ ap[b].status = "ASSOCIATED"
    BY <1>7 DEF AssocUnderWay
  <2>2. b = a /\ ~Carries(b, <<MgmtFrame("AssocReq")>>, <<>>)
    BY <1>1, <2>1, OnlyLemma DEF Carries
  <2>3. /\ Carries(a, <<>>, <<f>>) /\ f.type \in {"Deauth", "AssocResp"} /\ f.ok = TRUE
        /\ f.type = "AssocResp" => ap[a].status = "ASSOCIATED"
    BY <2>1, <2>2, FramesLemma, GateLemma DEF Carries, f
  <2>4. Silence'
    BY <1>1, <1>4, <2>3, ArriveDownLemma
  <2>5. isAssociated' => assocAP' = a /\ f.type = "AssocResp"
    BY <1>2, <1>4, <2>3 DEF HandleAssociationResponseFrame, AssocRespIgnored, AssocRespAccepted,
       assocVars, f
  <2> QED BY <1>1, <2>3, <2>4, <2>5 DEF MediumInv
<1> QED BY <1>2, <1>5, <1>6, <1>7 DEF MediumInv

-----------------------------------------------------------------------------
(* Frames that reach an access point, restarts, losses *)

LEMMA ApFrameMedium ==
  ASSUME IInv, MediumInv, NEW a \in AP, ApFrameStep(a)
  PROVE  MediumInv'
<1> DEFINE f == Head(up[a])
<1>1. /\ TypeInv /\ Quiet /\ up[a] # <<>>
      /\ up' = [up EXCEPT ![a] = Tail(@)]
      /\ UNCHANGED <<toMgmt, toAgent, isScanning, apList, assocTimer, isAssociated, assocAP>>
  BY DEF IInv, ApFrameStep, ApHandleProbeRequest, ApHandleAuthenticationFrame, ApAuthOutOfSeq,
     ApAuthStep, ApHandleAssociationRequestFrame, ApAssocRefused, ApAssocGranted, ApReceives,
     gateVars, scanVars, assocVars
<1>2. ~Silence /\ ~isAssociated
  BY <1>1 DEF MediumInv, Silence, Silent
\* The answers to a frame, by its type.
<1>3. /\ f.type \in {"ProbeReq", "Auth", "AssocReq"}
      /\ f.type = "ProbeReq" => ap' = ap /\ ApSends(a, MgmtFrame("ProbeResp"))
      /\ f.type = "Auth" => ApAuthOutOfSeq(a) \/ ApAuthStep(a)
      /\ f.type = "AssocReq" => ApAssocRefused(a) \/ ApAssocGranted(a)
  BY DEF ApFrameStep, ApHandleProbeRequest, ApHandleAuthenticationFrame, ApAuthOutOfSeq,
     ApAuthStep, ApHandleAssociationRequestFrame, ApAssocRefused, ApAssocGranted, ApReceives
<1> HIDE DEF f
<1>4. CASE LeftOver
  <2>1. Scanning
    BY <1>1, <1>4, WaitingLemma
  <2>2. ASSUME NEW b \in AP \ Restartable
        PROVE  up'[b] \in Seq(NoAuthFrame) /\ down'[b] \in Seq(OkFrame)
    <3>1. up[b] \in Seq(NoAuthFrame) /\ down[b] \in Seq(OkFrame)
      BY <1>4 DEF LeftOver
    <3>2. up'[b] \in Seq(NoAuthFrame)
      <4>1. up[b] # <<>> => Tail(up[b]) \in Seq(NoAuthFrame)
        BY <3>1, DequeueLemma
      <4>2. up'[b] = IF b = a THEN Tail(up[b]) ELSE up[b]
        BY <1>1 DEF TypeInv
      <4> QED BY <1>1, <3>1, <4>1, <4>2
    <3>3. CASE b = a
      <4>1. f \in NoAuthFrame
        BY <1>1, <3>1, <3>3, DequeueLemma DEF f
      <4>2. PICK t \in {"ProbeResp", "Deauth", "AssocResp"} : ApSends(a, MgmtFrame(t))
        BY <1>3, <4>1 DEF NoAuthFrame, ApAssocRefused, ApAssocGranted
      <4>3. MgmtFrame(t) \in OkFrame
        BY FrameLemma, FramesLemma DEF OkFrame, FrameType
      <4>4. Enqueue(down[b], MgmtFrame(t)) \in Seq(OkFrame)
        BY <3>1, <4>3, EnqueueLemma
      <4>5. down'[b] = Enqueue(down[b], MgmtFrame(t))
        BY <1>1, <3>3, <4>2 DEF ApSends, TypeInv
      <4> QED BY <3>2, <4>4, <4>5
    <3>4. CASE b # a
      <4>1. down'[b] = down[b]
        BY <1>1, <1>3, <3>4 DEF ApSends, ApAuthOutOfSeq, ApAuthStep, ApAssocRefused,
           ApAssocGranted, TypeInv
      <4> QED BY <3>1, <3>2, <4>1
    <3> QED BY <3>3, <3>4
  <2> QED BY <1>1, <1>4, <2>1, <2>2, LeftOverFrames DEF Scanning
<1>5. CASE AuthUnderWay
  <2>1. PICK b \in AP : /\ apList[b].authTimer = "running"
                        /\ AuthUp(b) \/ AuthDown(b) \/ AuthRefused(b)
    BY <1>5 DEF AuthUnderWay
  <2>2. b = a /\ AuthUp(b)
    BY <1>1, <2>1, OnlyLemma DEF AuthUp, AuthDown, AuthRefused, Carries
  <2>3. PICK n \in Nat : /\ Carries(a, <<AuthFrame(n, FALSE)>>, <<>>)
                         /\ apList[a].authSeqExpected = n + 1
                         /\ \/ a \in Restartable \/ n = 1
                            \/ ap[a].listed /\ ap[a].authSeqExpected = n
    BY <2>2 DEF AuthUp
  <2>4. f = AuthFrame(n, FALSE)
    BY <2>3, GateLemma DEF Carries, f
  <2>5. f.type = "Auth" /\ f.seq = n
    BY <2>4, FramesLemma
  <2>6. CASE ApAuthStep(a)
    <3> DEFINE isLast == n + 1 = NumAuthSteps
    <3>1. /\ ApSends(a, AuthFrame(n + 1, isLast)) /\ ap[a] \in ApState
          /\ ap' = [ap EXCEPT ![a] =
                    [@ EXCEPT !.listed = TRUE,
                              !.status = IF isLast THEN "AUTHENTICATED" ELSE ApStatus(a),
                              !.authSeqExpected = IF isLast THEN n ELSE n + 2]]
      BY <1>1, <2>5, <2>6 DEF ApAuthStep, TypeInv, f
    <3>2. Carries(a, <<>>, <<AuthFrame(n + 1, isLast)>>)'
      BY <1>1, <2>3, <3>1, ArriveUpLemma DEF ApSends
    <3>3. isLast \/ (ap'[a].listed /\ ap'[a].authSeqExpected = (n + 1) + 1)
      BY <1>1, <3>1 DEF TypeInv, ApState
    <3>4. isLast \in BOOLEAN /\ n + 1 \in Nat /\ apList'[a].authSeqExpected = n + 1
      BY <1>1, <2>3
    <3> HIDE DEF isLast
    <3>5. AuthDown(a)'
      BY <3>2, <3>3, <3>4 DEF AuthDown
    <3> QED BY <1>1, <1>2, <2>1, <2>2, <3>5 DEF MediumInv, AuthUnderWay, Quiet
  <2>7. CASE ApAuthOutOfSeq(a)
    <3>1. n # ApExpected(a) /\ ApSends(a, AuthError)
      BY <2>5, <2>7 DEF ApAuthOutOfSeq, f
    <3>2. a \in Restartable
      BY <2>3, <2>5, <3>1 DEF ApExpected, ApFresh, f
    <3>3. Carries(a, <<>>, <<AuthError>>)'
      BY <1>1, <2>3, <3>1, ArriveUpLemma DEF ApSends
    <3>4. AuthRefused(a)'
      BY <3>2, <3>3 DEF AuthRefused
    <3> QED BY <1>1, <1>2, <2>1, <2>2, <3>4 DEF MediumInv, AuthUnderWay, Quiet
  <2> QED BY <1>3, <2>5, <2>6, <2>7
<1>6. CASE AssocUnderWay
  <2>1. PICK b \in AP : /\ assocTimer = "running" /\ apList[b].known
                        /\ \/ Carries(b, <<MgmtFrame("AssocReq")>>, <<>>)
                           \/ Carries(b, <<>>, <<MgmtFrame("Deauth")>>)
                           \/ Carries(b, <<>>, <<MgmtFrame("AssocResp")>>)
    BY <1>6 DEF AssocUnderWay
  <2>2. b = a /\ Carries(a, <<MgmtFrame("AssocReq")>>, <<>>)
    BY <1>1, <2>1, OnlyLemma DEF Carries
  <2>3. f = MgmtFrame("AssocReq")
    BY <2>2, GateLemma DEF Carries, f
  <2>4. f.type = "AssocReq"
    BY <2>3, FramesLemma
  <2>5. \/ Carries(a, <<>>, <<MgmtFrame("Deauth")>>)'
        \/ Carries(a, <<>>, <<MgmtFrame("AssocResp")>>)' /\ ap'[a].status = "ASSOCIATED"
    <3>1. CASE ApAssocRefused(a)
      BY <1>1, <2>2, <3>1, ArriveUpLemma DEF ApAssocRefused, ApSends
    <3>2. CASE ApAssocGranted(a)
      <4>1. ap' = [ap EXCEPT ![a].status = "ASSOCIATED"] /\ ap[a] \in ApState /\ ap \in [AP -> ApState]
        BY <1>1, <3>2 DEF ApAssocGranted, TypeInv
      <4>2. ap'[a].status = "ASSOCIATED"
        BY <4>1 DEF ApState
      <4>3. Carries(a, <<>>, <<MgmtFrame("AssocResp")>>)'
        BY <1>1, <2>2, <3>2, ArriveUpLemma DEF ApAssocGranted, ApSends
      <4> QED BY <4>2, <4>3
    <3> QED BY <1>3, <2>4, <3>1, <3>2
  <2> QED BY <1>1, <1>2, <2>1, <2>2, <2>5 DEF MediumInv, AssocUnderWay, Quiet
<1> QED BY <1>2, <1>4, <1>5, <1>6 DEF MediumInv

LEMMA DropMedium ==
  ASSUME IInv, MediumInv, NEW a \in AP, DropHead(a)
  PROVE  MediumInv'
<1>1. /\ TypeInv /\ Quiet
      /\ UNCHANGED <<toMgmt, toAgent, isScanning, apList, assocTimer, isAssociated, assocAP>>
      /\ \/ up[a] # <<>> /\ up' = [up EXCEPT ![a] = Tail(@)] /\ down' = down
         \/ down[a] # <<>> /\ down' = [down EXCEPT ![a] = Tail(@)] /\ up' = up
  BY DEF IInv, DropHead, gateVars, scanVars, assocVars
<1>2. ~Silence /\ ~isAssociated
  BY <1>1 DEF MediumInv, Silence, Silent
<1>3. CASE LeftOver
  <2>1. isScanning
    BY <1>1, <1>3, WaitingLemma DEF Scanning
  <2>2. ASSUME NEW b \in AP \ Restartable
        PROVE  up'[b] \in Seq(NoAuthFrame) /\ down'[b] \in Seq(OkFrame)
    <3>1. up[b] \in Seq(NoAuthFrame) /\ down[b] \in Seq(OkFrame)
      BY <1>3 DEF LeftOver
    <3>2. /\ up[b] # <<>> => Tail(up[b]) \in Seq(NoAuthFrame)
          /\ down[b] # <<>> => Tail(down[b]) \in Seq(OkFrame)
      BY <3>1, DequeueLemma
    <3>3. \/ up'[b] = (IF b = a THEN Tail(up[b]) ELSE up[b]) /\ down'[b] = down[b] /\ up[a] # <<>>
          \/ down'[b] = (IF b = a THEN Tail(down[b]) ELSE down[b]) /\ up'[b] = up[b]
                /\ down[a] # <<>>
      BY <1>1 DEF TypeInv
    <3> QED BY <3>1, <3>2, <3>3
  <2> QED BY <1>1, <1>3, <2>1, <2>2, LeftOverFrames
<1>4. CASE AuthUnderWay \/ AssocUnderWay
  <2>1. PICK b \in AP : \E f : Carries(b, <<f>>, <<>>) \/ Carries(b, <<>>, <<f>>)
    BY <1>4 DEF AuthUnderWay, AssocUnderWay, AuthUp, AuthDown, AuthRefused
  <2>2. PICK f : b = a /\ (Carries(a, <<f>>, <<>>) \/ Carries(a, <<>>, <<f>>))
    BY <1>1, <2>1, OnlyLemma
  <2>3. CASE Carries(a, <<f>>, <<>>)
    <3>1. down[a] = <<>>
      BY <2>3 DEF Carries
    <3>2. Silence'
      BY <1>1, <2>3, <3>1, ArriveUpLemma
    <3> QED BY <1>1, <1>2, <3>2 DEF MediumInv
  <2>4. CASE Carries(a, <<>>, <<f>>)
    <3>1. up[a] = <<>>
      BY <2>4 DEF Carries
    <3>2. Silence'
      BY <1>1, <2>4, <3>1, ArriveDownLemma
    <3> QED BY <1>1, <1>2, <3>2 DEF MediumInv
  <2> QED BY <2>2, <2>3, <2>4
<1> QED BY <1>2, <1>3, <1>4 DEF MediumInv

\* Beacons, restarts, moves and noise leave the frames under way as they are.
LEMMA OtherMedium ==
  ASSUME IInv, MediumInv,
         \/ Move \/ ReceptionBusy
         \/ \E a \in AP : HandleBeacon(a) \/ ApStop(a) \/ ApStart(a)
  PROVE  MediumInv'
<1>1. /\ TypeInv /\ Quiet /\ Quiet'
      /\ UNCHANGED <<up, down, isScanning, assocTimer, isAssociated, assocAP>>
  BY DEF IInv, Move, ReceptionBusy, HandleBeacon, ApStop, ApStart, Quiet, gateVars, scanVars,
     assocVars, medium
<1>2. \A b \in AP : /\ apList[b].known => apList'[b].known
                    /\ apList'[b].authTimer = apList[b].authTimer
                    /\ apList'[b].authSeqExpected = apList[b].authSeqExpected
  <2>1. ASSUME NEW a \in AP, HandleBeacon(a)
        PROVE  apList' = [apList EXCEPT ![a].known = TRUE]
    BY <2>1 DEF HandleBeacon, StoreAPInfo
  <2>2. apList' = apList \/ \E a \in AP : HandleBeacon(a)
    BY DEF Move, ReceptionBusy, ApStop, ApStart
  <2>3. ASSUME NEW a \in AP, apList' = [apList EXCEPT ![a].known = TRUE], NEW b \in AP
        PROVE  /\ apList[b].known => apList'[b].known
               /\ apList'[b].authTimer = apList[b].authTimer
               /\ apList'[b].authSeqExpected = apList[b].authSeqExpected
    BY <1>1, <2>3 DEF TypeInv, ApInfo
  <2> QED BY <2>1, <2>2, <2>3
<1>3. \A b \in AP : /\ ap'[b].status = ap[b].status
                    /\ b \notin Restartable => /\ ap'[b].listed = ap[b].listed
                                               /\ ap'[b].authSeqExpected = ap[b].authSeqExpected
  <2>1. CASE UNCHANGED ap
    BY <2>1
  <2>2. ASSUME NEW a \in AP, ApStop(a) \/ ApStart(a)
        PROVE  \/ /\ a \in Restartable
                  /\ ap' = [ap EXCEPT ![a] = [@ EXCEPT !.listed = FALSE, !.isUp = FALSE]]
               \/ ap' = [ap EXCEPT ![a] = [@ EXCEPT !.isUp = TRUE]]
    BY <1>1, <2>2 DEF ApStop, ApStart, Forgotten, TypeInv, ApState
  <2>3. ASSUME NEW a \in AP,
               \/ /\ a \in Restartable
                  /\ ap' = [ap EXCEPT ![a] = [@ EXCEPT !.listed = FALSE, !.isUp = FALSE]]
               \/ ap' = [ap EXCEPT ![a] = [@ EXCEPT !.isUp = TRUE]],
               NEW b \in AP
        PROVE  /\ ap'[b].status = ap[b].status
               /\ b \notin Restartable => /\ ap'[b].listed = ap[b].listed
                                          /\ ap'[b].authSeqExpected = ap[b].authSeqExpected
    <3>1. ap \in [AP -> ApState] /\ ap[a] \in ApState
      BY <1>1 DEF TypeInv
    <3>2. CASE b # a
      <4>1. ap'[b] = ap[b]
        BY <2>3, <3>1, <3>2
      <4> QED BY <4>1
    <3>3. CASE b = a
      <4>1. \/ b \in Restartable /\ ap'[b] = [ap[b] EXCEPT !.listed = FALSE, !.isUp = FALSE]
            \/ ap'[b] = [ap[b] EXCEPT !.isUp = TRUE]
        BY <2>3, <3>1, <3>3
      <4> QED BY <3>1, <3>3, <4>1 DEF ApState
    <3> QED BY <3>2, <3>3
  <2>4. UNCHANGED ap \/ \E a \in AP : ApStop(a) \/ ApStart(a)
    BY DEF Move, ReceptionBusy, HandleBeacon
  <2> QED BY <2>1, <2>2, <2>3, <2>4
<1> QED BY <1>1, <1>2, <1>3, ElsewhereMedium

-----------------------------------------------------------------------------
(* The invariant holds *)

LEMMA NextMedium == ASSUME Timely, IInv, MediumInv, [Next]_vars PROVE MediumInv'
<1>1. CASE AgentStep
  BY <1>1, AgentStepMedium
<1>2. CASE CommandStep
  BY <1>2, CommandStepMedium
<1>3. CASE TimerStep \/ BeaconTimeout
  BY <1>3, TimerMedium
<1>4. CASE Move \/ ReceptionBusy \/ \E a \in AP : HandleBeacon(a) \/ ApStop(a) \/ ApStart(a)
  BY <1>4, OtherMedium
<1>5. ASSUME NEW a \in AP, StaFrameStep(a) PROVE MediumInv'
  BY <1>5, StaFrameMedium
<1>6. ASSUME NEW a \in AP, ApFrameStep(a) PROVE MediumInv'
  BY <1>6, ApFrameMedium
<1>7. ASSUME NEW a \in AP, OutOfReach(a) \/ Interference(a) PROVE MediumInv'
  BY <1>7, DropMedium DEF OutOfReach, Interference
<1>8. CASE UNCHANGED vars
  BY <1>8 DEF vars, MediumInv, Silence, Silent, AuthUnderWay, AuthUp, AuthDown, AuthRefused,
     AssocUnderWay, LeftOver, GivenUp, Carries, Quiet
<1> QED BY <1>1, <1>2, <1>3, <1>4, <1>5, <1>6, <1>7, <1>8 DEF Next

\* Station and medium together.
LEMMA MediumInvariance == ASSUME Timely PROVE Spec => [](IInv /\ MediumInv)
<1>1. Init => IInv /\ MediumInv
  BY InitIInv, InitMediumInv
<1>2. IInv /\ MediumInv /\ [Next]_vars => IInv' /\ MediumInv'
  BY NextIInv, NextMedium
<1> QED BY <1>1, <1>2, PTL DEF Spec

-----------------------------------------------------------------------------
(* What follows from it *)

\* Station and access point agree on an association, whatever frames were lost and although
\* an access point that was restarted has lost its station list.
THEOREM EndsAgree == ASSUME Timely PROVE Spec => []Agreement
<1>1. MediumInv => Agreement
  BY DEF MediumInv, Agreement
<1> QED BY <1>1, MediumInvariance, PTL

\* An access point that was not restarted turns nobody down with an authentication error,
\* however often the station comes back and whatever attempt was broken off.
THEOREM NobodyIsRefused == ASSUME Timely PROVE Spec => []NoAuthError
<1>1. ASSUME MediumInv, NEW a \in AP \ Restartable, NEW i \in DOMAIN down[a]
      PROVE  down[a][i].ok
  <2>1. down[a] # <<>>
    OBVIOUS
  <2>2. CASE LeftOver
    <3>1. down[a] \in Seq(OkFrame)
      BY <2>2 DEF LeftOver
    <3>2. down[a][i] \in OkFrame
      BY <3>1
    <3> QED BY <3>2 DEF OkFrame
  <2>3. ASSUME NEW f, NEW b \in AP, Carries(b, <<>>, <<f>>), f.ok PROVE down[a][i].ok
    <3>1. b = a /\ down[a] = <<f>>
      BY <2>1, <2>3, OnlyLemma DEF Carries
    <3>2. i = 1 /\ down[a][i] = f
      BY <3>1
    <3> QED BY <2>3, <3>2
  <2>4. ASSUME NEW b \in AP, NEW u, Carries(b, u, <<>>) PROVE FALSE
    <3>1. b = a
      BY <2>1, <2>4 DEF Carries, Silent
    <3> QED BY <2>1, <2>4, <3>1 DEF Carries
  <2>5. CASE AuthUnderWay
    <3>1. PICK b \in AP : AuthUp(b) \/ AuthDown(b) \/ AuthRefused(b)
      BY <2>5 DEF AuthUnderWay
    <3>2. ~AuthUp(b)
      BY <2>4 DEF AuthUp
    <3>3. ~AuthRefused(b)
      BY <2>1 DEF AuthRefused, Carries, Silent
    <3>4. PICK n \in Nat, last \in BOOLEAN : Carries(b, <<>>, <<AuthFrame(n, last)>>)
      BY <3>1, <3>2, <3>3 DEF AuthDown
    <3>5. AuthFrame(n, last).ok
      BY FramesLemma
    <3> QED BY <2>3, <3>4, <3>5
  <2>6. CASE AssocUnderWay
    <3>1. PICK b \in AP : \/ Carries(b, <<MgmtFrame("AssocReq")>>, <<>>)
                          \/ Carries(b, <<>>, <<MgmtFrame("Deauth")>>)
                          \/ Carries(b, <<>>, <<MgmtFrame("AssocResp")>>)
      BY <2>6 DEF AssocUnderWay
    <3>2. MgmtFrame("Deauth").ok /\ MgmtFrame("AssocResp").ok
      BY FramesLemma
    <3> QED BY <2>3, <2>4, <3>1, <3>2
  <2> QED BY <1>1, <2>1, <2>2, <2>5, <2>6 DEF MediumInv, Silence, Silent
<1>2. MediumInv => NoAuthError
  BY <1>1 DEF NoAuthError
<1> QED BY <1>2, MediumInvariance, PTL

\* The station waits for an association with an access point it knows; this one needs no
\* assumption on time.
LEMMA KnownInvariance == Spec => [](IInv /\ KnownInv)
<1>1. ASSUME IInv, KnownInv, [Next]_vars PROVE KnownInv'
  <2>1. ASSUME \A a \in AP : apList[a].known => apList'[a].known,
               assocTimer' # "none" => assocTimer # "none"
        PROVE  KnownInv'
    BY <1>1, <2>1 DEF KnownInv
  <2>2. TypeInv
    BY <1>1 DEF IInv
  <2>3. CASE ProcessScanCommand
    <3>1. ScanAsked
      BY <1>1, <2>3, CommandPhase DEF ProcessScanCommand, MgmtReceives
    <3>2. assocTimer' = "none"
      BY <2>3, <3>1 DEF ProcessScanCommand, CancelledAssocTimer, ScanAsked
    <3> QED BY <3>2 DEF KnownInv
  <2>4. CASE ProcessAssociateCommand
    <3>1. AssocAsked
      BY <1>1, <2>4, CommandPhase DEF ProcessAssociateCommand, MgmtReceives
    <3> QED BY <2>4, <3>1 DEF ProcessAssociateCommand, AssocAsked, KnownInv
  <2>5. CASE AgentStep
    BY <2>1, <2>5 DEF AgentStep, StartUp, ProcessScanConfirm, ProcessAuthenticateConfirm,
       ProcessAssociateConfirm, AssociateFailed, AssociateSucceeded, AgentReceives, assocVars
  <2>6. CASE ProcessAuthenticateCommand
    <3>1. PICK a : /\ apList' = [apList EXCEPT ![a].authSeqExpected = 2, ![a].authTimer = "running"]
                   /\ assocTimer' = assocTimer
      BY <2>6 DEF ProcessAuthenticateCommand, assocVars
    <3> QED BY <2>1, <2>2, <3>1 DEF TypeInv, ApInfo
  <2>7. CASE TimerStep \/ BeaconTimeout \/ ReceptionBusy \/ Move
    <3>1. CASE \E a \in AP : AuthTimeout(a)
      <4>1. PICK a \in AP : apList' = [apList EXCEPT ![a].authTimer = "fired"]
        BY <3>1 DEF AuthTimeout
      <4>2. assocTimer' = assocTimer
        BY <3>1 DEF AuthTimeout, assocVars
      <4> QED BY <2>1, <2>2, <4>1, <4>2 DEF TypeInv, ApInfo
    <3>2. CASE AssocTimeout
      BY <2>1, <3>2 DEF AssocTimeout
    <3> QED BY <2>1, <2>7, <3>1, <3>2 DEF TimerStep, SendProbe, MinChannelTimeBusy,
               ChannelTimeOver, BeaconTimeout, ReceptionBusy, Move, assocVars
  <2>8. ASSUME NEW a \in AP, HandleBeacon(a) \/ StaFrameStep(a) PROVE KnownInv'
    <3>1. assocTimer' = assocTimer \/ assocTimer' = "none"
      BY <2>8 DEF HandleBeacon, StaFrameStep, HandleProbeResponse, HandleAuthenticationFrame,
         AuthFrameIgnored, AuthFrameOutOfSeq, AuthFrameContinues, AuthFrameCompletes,
         HandleDeauthenticationFrame, HandleAssociationResponseFrame, AssocRespIgnored,
         AssocRespAccepted, assocVars
    <3>2. \/ apList' = apList
          \/ apList' = [apList EXCEPT ![a].known = TRUE]
          \/ apList' = [apList EXCEPT ![a].authTimer = "none"]
          \/ apList' = [apList EXCEPT ![a].isAuthenticated = FALSE]
          \/ apList' = [apList EXCEPT ![a].authSeqExpected = NextFromAP(a)]
          \/ apList' = [apList EXCEPT ![a].isAuthenticated = Head(down[a]).ok,
                                      ![a].authTimer = "none"]
      BY <2>8 DEF HandleBeacon, StaFrameStep, HandleProbeResponse, HandleAuthenticationFrame,
         AuthFrameIgnored, AuthFrameOutOfSeq, AuthFrameContinues, AuthFrameCompletes,
         HandleDeauthenticationFrame, HandleAssociationResponseFrame, AssocRespIgnored,
         AssocRespAccepted, StoreAPInfo
    <3>3. \A b \in AP : apList[b].known => apList'[b].known
      BY <2>2, <3>2 DEF TypeInv, ApInfo
    <3> QED BY <2>1, <3>1, <3>3
  <2>9. ASSUME NEW a \in AP,
               ApFrameStep(a) \/ ApStop(a) \/ ApStart(a) \/ OutOfReach(a) \/ Interference(a)
        PROVE  KnownInv'
    BY <2>1, <2>9 DEF ApFrameStep, ApHandleProbeRequest, ApHandleAuthenticationFrame,
       ApAuthOutOfSeq, ApAuthStep, ApHandleAssociationRequestFrame, ApAssocRefused,
       ApAssocGranted, ApReceives, ApStop, ApStart, OutOfReach, Interference, DropHead, assocVars
  <2>10. CASE UNCHANGED vars
    BY <2>1, <2>10 DEF vars
  <2> QED BY <1>1, <2>3, <2>4, <2>5, <2>6, <2>7, <2>8, <2>9, <2>10 DEF Next, CommandStep
<1>2. Init => IInv /\ KnownInv
  BY InitIInv, InitMediumInv
<1>3. IInv /\ KnownInv /\ [Next]_vars => IInv' /\ KnownInv'
  BY <1>1, NextIInv
<1> QED BY <1>2, <1>3, PTL DEF Spec

\* No association response throws: it comes from an access point in the station's list, if
\* frames are faster than timers, or if there is only one access point.
THEOREM ResponsesAreAccepted ==
    ASSUME Timely \/ \E x \in AP : AP = {x} PROVE Spec => []ResponseAccepted
<1>1. CASE Timely
  <2>1. ASSUME IInv, MediumInv PROVE ResponseAccepted
    <3> SUFFICES ASSUME NEW a \in AP, Quiet, down[a] # <<>>, Head(down[a]).type = "AssocResp",
                        assocTimer # "none"
                 PROVE  apList[a].known
      BY DEF ResponseAccepted, AssocResponseThrows, AssocPending
    <3>1. Associating
      BY <2>1, QuietPhase DEF Starting, Scanning, Authenticating, Associated, Fresh
    <3>2. AssocUnderWay
      BY <2>1, <3>1, WaitingLemma DEF MediumInv, Silence, Silent, Associating, Authenticating,
         Scanning, NotScanning
    <3>3. PICK b \in AP : /\ apList[b].known
                          /\ \E u, d : Carries(b, u, d)
      BY <3>2 DEF AssocUnderWay
    <3>4. a = b
      BY <3>3, OnlyLemma
    <3> QED BY <3>3, <3>4
  <2>2. Spec => [](IInv /\ MediumInv)
    BY <1>1, MediumInvariance
  <2> QED BY <2>1, <2>2, PTL
<1>2. CASE \E x \in AP : AP = {x}
  <2>1. KnownInv => ResponseAccepted
    BY <1>2 DEF KnownInv, ResponseAccepted, AssocResponseThrows, AssocPending
  <2> QED BY <2>1, KnownInvariance, PTL
<1> QED BY <1>1, <1>2

-----------------------------------------------------------------------------
(* The request the agent made last (AssociationRequests).  Whatever the        *)
(* station is at it does for that request: an invariant for every timing.      *)

AskedInv ==
    /\ toMgmt # <<>> => request = Head(toMgmt)
    /\ isScanning => request.type = "Scan"
    /\ \A a \in AP : apList[a].authTimer = "running" => request = AuthenticateRequest(a)
    /\ assocTimer = "running" => request.type = "Associate"
    /\ ConfirmIsCurrent

\* What tells the messages on the gates apart.
LEMMA MessagesLemma ==
    /\ ScanRequest.type = "Scan"
    /\ \A a : AuthenticateRequest(a).type = "Authenticate" /\ AuthenticateRequest(a).ap = a
    /\ \A a : AssociateRequest(a).type = "Associate" /\ AssociateRequest(a).ap = a
    /\ \A A : ScanConfirm(A).type = "Scan"
    /\ \A a, ok : AuthenticateConfirm(a, ok).type = "Authenticate" /\ AuthenticateConfirm(a, ok).ap = a
    /\ \A ok : AssociateConfirm(ok).type = "Associate"
  BY DEF ScanRequest, AuthenticateRequest, AssociateRequest, ScanConfirm, AuthenticateConfirm,
     AssociateConfirm

\* A gate holds one message at most.
LEMMA OneMessage ==
    IInv => /\ toMgmt = <<>> \/ \E c : toMgmt = <<c>>
            /\ toAgent = <<>> \/ \E c : toAgent = <<c>>
  BY DEF IInv, Phase, Starting, ScanAsked, Scanning, ScanReported, AuthAsked, Authenticating,
     AuthFailed, AuthSucceeded, AssocAsked, Associating, AssocFailed, AssocReported, Associated,
     Gates

\* While a request waits on its gate the station is at nothing else.
LEMMA RequestPending ==
    IInv /\ toMgmt # <<>>
        => /\ toAgent = <<>> /\ ~isScanning /\ assocTimer # "running"
           /\ \A a \in AP : apList[a].authTimer # "running"
           /\ isAssociated => toMgmt = <<ScanRequest>>
<1> SUFFICES ASSUME IInv, toMgmt # <<>>
             PROVE  /\ toAgent = <<>> /\ ~isScanning /\ assocTimer # "running"
                    /\ \A a \in AP : apList[a].authTimer # "running"
                    /\ isAssociated => toMgmt = <<ScanRequest>>
  OBVIOUS
<1>1. ScanAsked \/ AuthAsked \/ AssocAsked
  BY DEF IInv, Phase, Starting, Scanning, ScanReported, Authenticating, AuthFailed,
     AuthSucceeded, Associating, AssocFailed, AssocReported, Associated, Gates
<1> QED BY <1>1 DEF ScanAsked, AuthAsked, AssocAsked, Gates, NotScanning, Fresh, NoAuthTimer,
           NoAuthRunning, NotAssociated

\* Both lemmas of the state a step leads to.
LEMMA NextOneMessage ==
    (IInv => /\ toMgmt = <<>> \/ \E c : toMgmt = <<c>>
             /\ toAgent = <<>> \/ \E c : toAgent = <<c>>)'
  BY OneMessage, PTL

LEMMA NextRequestPending ==
    (IInv /\ toMgmt # <<>>
        => /\ toAgent = <<>> /\ ~isScanning /\ assocTimer # "running"
           /\ \A a \in AP : apList[a].authTimer # "running"
           /\ isAssociated => toMgmt = <<ScanRequest>>)'
  BY RequestPending, PTL

\* A station that waits for an answer of an access point waits for one.
LEMMA QuietPending ==
    ASSUME IInv, Quiet
    PROVE  /\ scanTimer # "none" => isScanning
           /\ assocTimer # "none" => Associating
           /\ \A a \in AP : apList[a].authTimer # "none" => apList[a].authTimer = "running"
  BY QuietPhase DEF Starting, Scanning, Authenticating, Associating, Associated, NotScanning,
     Fresh, NoAuthTimer

\* A step between two requests starts nothing, and a confirm it brings ends what the
\* station was at.
LEMMA AnswerLemma ==
    ASSUME IInv, Next, toMgmt = <<>>, toMgmt' = <<>>
    PROVE  /\ isScanning' => isScanning
           /\ \A a \in AP : apList'[a].authTimer = "running" => apList[a].authTimer = "running"
           /\ assocTimer' = "running" => assocTimer = "running"
           /\ \/ toAgent' \in {toAgent, <<>>}
              \/ isScanning /\ toAgent' = <<ScanConfirm(KnownAPs)>>
              \/ \E a \in AP : /\ apList[a].authTimer = "running"
                               /\ \E ok : toAgent' = <<AuthenticateConfirm(a, ok)>>
              \/ assocTimer = "running" /\ \E ok : toAgent' = <<AssociateConfirm(ok)>>
<1> DEFINE P == /\ isScanning' => isScanning
                /\ \A a \in AP : apList'[a].authTimer = "running" => apList[a].authTimer = "running"
                /\ assocTimer' = "running" => assocTimer = "running"
                /\ \/ toAgent' \in {toAgent, <<>>}
                   \/ isScanning /\ toAgent' = <<ScanConfirm(KnownAPs)>>
                   \/ \E a \in AP : /\ apList[a].authTimer = "running"
                                    /\ \E ok : toAgent' = <<AuthenticateConfirm(a, ok)>>
                   \/ assocTimer = "running" /\ \E ok : toAgent' = <<AssociateConfirm(ok)>>
<1>1. apList \in [AP -> ApInfo]
  BY DEF IInv, TypeInv
<1>2. CASE AgentStep
  <2>1. UNCHANGED <<isScanning, apList, assocTimer>>
    BY <1>2 DEF AgentStep, StartUp, ProcessScanConfirm, ProcessAuthenticateConfirm,
       ProcessAssociateConfirm, AssociateFailed, AssociateSucceeded, AgentReceives, scanVars,
       assocVars
  <2>2. toAgent' = toAgent \/ (toAgent # <<>> /\ toAgent' = Tail(toAgent))
    BY <1>2 DEF AgentStep, StartUp, ProcessScanConfirm, ProcessAuthenticateConfirm,
       ProcessAssociateConfirm, AssociateFailed, AssociateSucceeded, AgentReceives
  <2>3. toAgent' \in {toAgent, <<>>}
    BY <2>2, OneMessage, GateLemma
  <2> QED BY <2>1, <2>3
<1>3. ~CommandStep
  BY DEF CommandStep, ProcessScanCommand, ProcessAuthenticateCommand, ProcessAssociateCommand,
     MgmtReceives
<1>4. CASE ChannelTimeOver
  <2>1. Quiet /\ isScanning /\ channelIndex \in 0..Len(ChannelList) /\ TypeInv
        /\ UNCHANGED <<apList, assocTimer>> /\ toAgent = <<>> /\ ScanNextChannel(channelIndex)
    BY <1>4, QuietPending DEF ChannelTimeOver, TimerFires, Quiet, IInv, TypeInv, assocVars
  <2> QED BY <2>1, ScanNextChannelLemma
<1>5. CASE AssocTimeout
  BY <1>5, GateLemma DEF AssocTimeout, TimerFires, Quiet, scanVars
<1>6. ASSUME NEW a \in AP, AuthTimeout(a) PROVE P
  <2>1. /\ toAgent' = <<AuthenticateConfirm(a, FALSE)>> /\ apList[a].authTimer = "running"
        /\ UNCHANGED <<isScanning, assocTimer>>
    BY <1>6, GateLemma DEF AuthTimeout, TimerFires, Quiet, scanVars, assocVars
  <2>2. \A b \in AP : apList'[b].authTimer = "running" => apList[b].authTimer = "running"
    BY <1>1, <1>6 DEF AuthTimeout, ApInfo
  <2> QED BY <2>1, <2>2
<1>7. CASE SendProbe \/ MinChannelTimeBusy \/ BeaconTimeout \/ ReceptionBusy \/ Move
  BY <1>7 DEF SendProbe, MinChannelTimeBusy, BeaconTimeout, ReceptionBusy, Move, gateVars,
     scanVars, assocVars
<1>8. ASSUME NEW a \in AP, HandleBeacon(a) \/ HandleProbeResponse(a) PROVE P
  <2>1. UNCHANGED <<toAgent, isScanning, assocTimer>> /\ StoreAPInfo(a)
    BY <1>8 DEF HandleBeacon, HandleProbeResponse, StaReceives, gateVars, scanVars, assocVars
  <2>2. \A b \in AP : apList'[b].authTimer = "running" => apList[b].authTimer = "running"
    BY <1>1, <2>1 DEF StoreAPInfo, ApInfo
  <2> QED BY <2>1, <2>2
<1>9. ASSUME NEW a \in AP, HandleAuthenticationFrame(a) PROVE P
  <2>1. Quiet /\ toAgent = <<>> /\ UNCHANGED <<isScanning, assocTimer>>
    BY <1>9 DEF HandleAuthenticationFrame, AuthFrameIgnored, AuthFrameOutOfSeq,
       AuthFrameContinues, AuthFrameCompletes, StaReceives, Quiet, scanVars, assocVars
  <2>2. AuthInProgress(a) => apList[a].authTimer = "running"
    BY <2>1, QuietPending DEF AuthInProgress
  <2>3. \A b \in AP : apList'[b].authTimer = "running" => apList[b].authTimer = "running"
    <3>1. CASE AuthFrameIgnored(a)
      BY <3>1 DEF AuthFrameIgnored
    <3>2. CASE AuthFrameOutOfSeq(a)
      BY <1>1, <3>2 DEF AuthFrameOutOfSeq, ApInfo
    <3>3. CASE AuthFrameContinues(a)
      BY <1>1, <3>3 DEF AuthFrameContinues, ApInfo
    <3>4. CASE AuthFrameCompletes(a)
      <4>1. \A b \in AP : b # a => apList'[b] = apList[b]
        BY <1>1, <3>4 DEF AuthFrameCompletes
      <4>2. apList'[a].authTimer = "none"
        BY <1>1, <3>4 DEF AuthFrameCompletes, ApInfo
      <4> QED BY <4>1, <4>2
    <3> QED BY <1>9, <3>1, <3>2, <3>3, <3>4 DEF HandleAuthenticationFrame
  <2>4. \/ toAgent' = toAgent
        \/ AuthInProgress(a) /\ \E ok : toAgent' = <<AuthenticateConfirm(a, ok)>>
    BY <1>9, <2>1, GateLemma DEF HandleAuthenticationFrame, AuthFrameIgnored, AuthFrameOutOfSeq,
       AuthFrameContinues, AuthFrameCompletes
  <2> QED BY <2>1, <2>2, <2>3, <2>4
<1>10. ASSUME NEW a \in AP, HandleDeauthenticationFrame(a) PROVE P
  <2>1. UNCHANGED <<toAgent, isScanning, assocTimer>>
    BY <1>10 DEF HandleDeauthenticationFrame, StaReceives, scanVars, assocVars
  <2>2. \A b \in AP : apList'[b].authTimer = "running" => apList[b].authTimer = "running"
    BY <1>1, <1>10 DEF HandleDeauthenticationFrame, ApInfo
  <2> QED BY <2>1, <2>2
<1>11. ASSUME NEW a \in AP, HandleAssociationResponseFrame(a) PROVE P
  <2>1. Quiet /\ toAgent = <<>> /\ UNCHANGED <<isScanning, apList>>
    BY <1>11 DEF HandleAssociationResponseFrame, AssocRespIgnored, AssocRespAccepted,
       StaReceives, Quiet, scanVars
  <2>2. CASE AssocRespIgnored(a)
    BY <2>1, <2>2 DEF AssocRespIgnored, assocVars
  <2>3. CASE AssocRespAccepted(a)
    <3>1. assocTimer = "running"
      BY <2>1, <2>3, QuietPending DEF AssocRespAccepted, AssocPending, Associating
    <3> QED BY <2>1, <2>3, <3>1, GateLemma DEF AssocRespAccepted
  <2> QED BY <1>11, <2>2, <2>3 DEF HandleAssociationResponseFrame
<1>12. ASSUME NEW a \in AP, ApFrameStep(a) \/ ApStop(a) \/ ApStart(a) PROVE P
  BY <1>12 DEF ApFrameStep, ApHandleProbeRequest, ApHandleAuthenticationFrame, ApAuthOutOfSeq,
     ApAuthStep, ApHandleAssociationRequestFrame, ApAssocRefused, ApAssocGranted, ApReceives,
     ApStop, ApStart, gateVars, scanVars, assocVars
<1>13. ASSUME NEW a \in AP, OutOfReach(a) \/ Interference(a) PROVE P
  BY <1>13 DEF OutOfReach, Interference, DropHead, gateVars, scanVars, assocVars
<1> QED BY <1>2, <1>3, <1>4, <1>5, <1>6, <1>7, <1>8, <1>9, <1>10, <1>11, <1>12, <1>13
        DEF Next, TimerStep, StaFrameStep

\* Only the management entity takes a request off the gate.
LEMMA TakenByCommand ==
    ASSUME IInv, Next, toMgmt # <<>>, toMgmt' = <<>>
    PROVE  CommandStep
<1>1. ~Quiet /\ toAgent = <<>> /\ ~startUp
  BY CommandPhase DEF Quiet, IInv, Phase, Starting, ScanAsked, Scanning, ScanReported, AuthAsked,
     Authenticating, AuthFailed, AuthSucceeded, AssocAsked, Associating, AssocFailed,
     AssocReported, Associated, Gates
<1>2. ~AgentStep
  BY <1>1 DEF AgentStep, StartUp, ProcessScanConfirm, ProcessAuthenticateConfirm,
     ProcessAssociateConfirm, AssociateFailed, AssociateSucceeded, AgentReceives
<1>3. ~TimerStep /\ ~BeaconTimeout /\ ~ReceptionBusy /\ ~Move
  BY <1>1 DEF TimerStep, AssocTimeout, SendProbe, MinChannelTimeBusy, ChannelTimeOver, AuthTimeout,
     TimerFires, BeaconTimeout, ReceptionBusy, Move
<1>4. \A a \in AP : ~HandleBeacon(a) /\ ~StaFrameStep(a)
  BY <1>1 DEF HandleBeacon, StaFrameStep, HandleProbeResponse, HandleAuthenticationFrame,
     AuthFrameIgnored, AuthFrameOutOfSeq, AuthFrameContinues, AuthFrameCompletes,
     HandleDeauthenticationFrame, HandleAssociationResponseFrame, AssocRespIgnored,
     AssocRespAccepted, StaReceives
<1>5. \A a \in AP : /\ ~ApFrameStep(a) /\ ~ApStop(a) /\ ~ApStart(a)
                    /\ ~OutOfReach(a) /\ ~Interference(a)
  BY <1>1 DEF ApFrameStep, ApHandleProbeRequest, ApHandleAuthenticationFrame, ApAuthOutOfSeq,
     ApAuthStep, ApHandleAssociationRequestFrame, ApAssocRefused, ApAssocGranted, ApReceives,
     ApStop, ApStart, OutOfReach, Interference, DropHead
<1> QED BY <1>2, <1>3, <1>4, <1>5 DEF Next

\* The invariant for every timing.
LEMMA AskedStep ==
    ASSUME IInv, AskedInv, [RequestsNext]_requestVars
    PROVE  AskedInv'
<1>1. IInv'
  BY NextIInv DEF RequestsNext, requestVars
<1>2. CASE UNCHANGED requestVars
  BY <1>2 DEF requestVars, vars, AskedInv, ConfirmIsCurrent
<1>3. CASE RequestsNext /\ toMgmt' # <<>>
  <2>1. PICK c : toMgmt' = <<c>>
    BY <1>1, <1>3, NextOneMessage
  <2>2. request' = Head(toMgmt')
    <3>1. <<c>>[Len(<<c>>)] = c
      OBVIOUS
    <3> QED BY <1>3, <2>1, <3>1, GateLemma DEF RequestsNext, SendRequest
  <2>3. /\ toAgent' = <<>> /\ ~isScanning' /\ assocTimer' # "running"
        /\ \A a \in AP : apList'[a].authTimer # "running"
        /\ isAssociated' => toMgmt' = <<ScanRequest>>
    BY <1>1, <1>3, NextRequestPending
  <2> QED BY <2>2, <2>3 DEF AskedInv, ConfirmIsCurrent
\* The management entity takes the request.
<1>4. CASE RequestsNext /\ toMgmt # <<>> /\ toMgmt' = <<>>
  <2>1. /\ toAgent = <<>> /\ ~isScanning /\ assocTimer # "running"
        /\ \A a \in AP : apList[a].authTimer # "running"
        /\ apList \in [AP -> ApInfo]
    <3>1. apList \in [AP -> ApInfo]
      BY DEF IInv, TypeInv
    <3> QED BY <1>4, <3>1, RequestPending
  <2>2. request' = request /\ request = Head(toMgmt)
    BY <1>4 DEF RequestsNext, SendRequest, AskedInv
  <2>3. CommandStep
    BY <1>4, <2>1, TakenByCommand DEF RequestsNext
  <2>4. CASE ProcessScanCommand
    <3>1. request.type = "Scan"
      BY <2>2, <2>4 DEF ProcessScanCommand, MgmtReceives
    <3>2. /\ \A a \in AP : apList'[a].authTimer = "none"
          /\ assocTimer' # "running"
      BY <2>1, <2>4 DEF ProcessScanCommand, ClearedAPList, UnknownAP, CancelledAssocTimer
    <3>3. toAgent' = <<>>
      <4>1. 0 # Len(ChannelList)
        BY AssociationAssumption
      <4> QED BY <2>1, <2>4, <4>1 DEF ProcessScanCommand, ScanNextChannel
    <3> QED BY <1>4, <2>2, <3>1, <3>2, <3>3 DEF AskedInv, ConfirmIsCurrent
  <2>5. CASE ProcessAuthenticateCommand
    <3>1. AuthAsked
      BY <1>4, <2>5, CommandPhase DEF ProcessAuthenticateCommand, MgmtReceives
    <3>2. PICK a \in AP : toMgmt = <<AuthenticateRequest(a)>>
      BY <3>1 DEF AuthAsked, Gates
    <3>3. Head(toMgmt) = AuthenticateRequest(a) /\ Head(toMgmt).ap = a
      BY <3>2, GateLemma, MessagesLemma
    <3>4. /\ apList' = [apList EXCEPT ![a].authSeqExpected = 2, ![a].authTimer = "running"]
          /\ UNCHANGED <<toAgent, isScanning, assocTimer>>
      BY <2>5, <3>3 DEF ProcessAuthenticateCommand, assocVars
    <3>5. \A b \in AP : b # a => apList'[b] = apList[b]
      BY <2>1, <3>4
    <3> QED BY <1>4, <2>1, <2>2, <3>3, <3>4, <3>5 DEF AskedInv, ConfirmIsCurrent
  <2>6. CASE ProcessAssociateCommand
    <3>1. request.type = "Associate"
      BY <2>2, <2>6 DEF ProcessAssociateCommand, MgmtReceives
    <3> QED BY <1>4, <2>1, <2>2, <2>6, <3>1 DEF ProcessAssociateCommand, AskedInv, ConfirmIsCurrent
  <2> QED BY <2>3, <2>4, <2>5, <2>6 DEF CommandStep
<1>5. CASE RequestsNext /\ toMgmt = <<>> /\ toMgmt' = <<>>
  <2>1. request' = request
    BY <1>5 DEF RequestsNext, SendRequest
  <2>2. /\ isScanning' => isScanning
        /\ \A a \in AP : apList'[a].authTimer = "running" => apList[a].authTimer = "running"
        /\ assocTimer' = "running" => assocTimer = "running"
        /\ \/ toAgent' \in {toAgent, <<>>}
           \/ isScanning /\ toAgent' = <<ScanConfirm(KnownAPs)>>
           \/ \E a \in AP : /\ apList[a].authTimer = "running"
                            /\ \E ok : toAgent' = <<AuthenticateConfirm(a, ok)>>
           \/ assocTimer = "running" /\ \E ok : toAgent' = <<AssociateConfirm(ok)>>
    BY <1>5, AnswerLemma DEF RequestsNext
  <2>3. ConfirmIsCurrent'
    <3>1. CASE toAgent' \in {toAgent, <<>>}
      BY <2>1, <3>1 DEF AskedInv, ConfirmIsCurrent
    <3>2. CASE isScanning /\ toAgent' = <<ScanConfirm(KnownAPs)>>
      <4>1. Head(toAgent').type = "Scan" /\ request.type = "Scan"
        BY <3>2, GateLemma, MessagesLemma DEF AskedInv
      <4> QED BY <2>1, <4>1 DEF ConfirmIsCurrent
    <3>3. ASSUME NEW a \in AP, apList[a].authTimer = "running",
                 NEW ok, toAgent' = <<AuthenticateConfirm(a, ok)>>
          PROVE  ConfirmIsCurrent'
      <4>1. Head(toAgent').type = "Authenticate" /\ Head(toAgent').ap = a
        BY <3>3, GateLemma, MessagesLemma
      <4>2. request.type = "Authenticate" /\ request.ap = a
        BY <3>3, MessagesLemma DEF AskedInv
      <4> QED BY <2>1, <4>1, <4>2 DEF ConfirmIsCurrent
    <3>4. ASSUME assocTimer = "running", NEW ok, toAgent' = <<AssociateConfirm(ok)>>
          PROVE  ConfirmIsCurrent'
      <4>1. Head(toAgent').type = "Associate" /\ request.type = "Associate"
        BY <3>4, GateLemma, MessagesLemma DEF AskedInv
      <4> QED BY <2>1, <4>1 DEF ConfirmIsCurrent
    <3> QED BY <2>2, <3>1, <3>2, <3>3, <3>4
  <2> QED BY <1>5, <2>1, <2>2, <2>3 DEF AskedInv
<1> QED BY <1>2, <1>3, <1>4, <1>5

LEMMA AskedInvariance == RequestsSpec => [](IInv /\ AskedInv)
<1>1. RequestsInit => IInv /\ AskedInv
  <2> SUFFICES ASSUME RequestsInit PROVE IInv /\ AskedInv
    OBVIOUS
  <2> QED BY InitIInv DEF RequestsInit, Init, AskedInv, ConfirmIsCurrent, UnknownAP
<1>2. IInv /\ AskedInv /\ [RequestsNext]_requestVars => IInv' /\ AskedInv'
  BY AskedStep, NextIInv DEF RequestsNext, requestVars
<1> QED BY <1>1, <1>2, PTL DEF RequestsSpec

\* However late answers and timers come, a confirm answers the last request of the agent.
THEOREM ConfirmsAnswerTheRequest == RequestsSpec => []ConfirmIsCurrent
<1>1. AskedInv => ConfirmIsCurrent
  BY DEF AskedInv
<1> QED BY <1>1, AskedInvariance, PTL

\* Where no timer outruns a frame, the frames that are under way while the station waits
\* for an association response are those of the access point it was told to ask.
AnswererInv ==
    /\ assocTimer = "running" => \A a \in AP : Silent(a) \/ request = AssociateRequest(a)
    /\ AssociatedAsRequested

\* Outside the commands, a frame comes up only where there was one, or in a scan.
LEMMA NoNewFrames ==
    ASSUME TypeInv, Next, ~CommandStep, ~isScanning, NEW a \in AP, Silent(a),
           scanTimer # "none" => isScanning
    PROVE  Silent(a)'
<1>1. /\ up \in [AP -> Seq(Frame)] /\ down \in [AP -> Seq(DownFrame)]
      /\ up[a] = <<>> /\ down[a] = <<>>
  BY DEF TypeInv, Silent
<1>2. CASE AgentStep \/ TimerStep \/ BeaconTimeout \/ ReceptionBusy \/ Move
  BY <1>1, <1>2 DEF AgentStep, StartUp, ProcessScanConfirm, ProcessAuthenticateConfirm,
     ProcessAssociateConfirm, AssociateFailed, AssociateSucceeded, AgentReceives, TimerStep,
     AssocTimeout, SendProbe, MinChannelTimeBusy, ChannelTimeOver, AuthTimeout, TimerFires,
     BeaconTimeout, ReceptionBusy, Move, medium, Silent
<1>3. ASSUME NEW b \in AP, StaFrameStep(b) PROVE Silent(a)'
  <2>1. down[b] # <<>> /\ down' = [down EXCEPT ![b] = Tail(@)]
    BY <1>3 DEF StaFrameStep, HandleProbeResponse, HandleAuthenticationFrame, AuthFrameIgnored,
       AuthFrameOutOfSeq, AuthFrameContinues, AuthFrameCompletes, HandleDeauthenticationFrame,
       HandleAssociationResponseFrame, AssocRespIgnored, AssocRespAccepted, StaReceives
  <2>2. up' = up \/ \E f : up' = [up EXCEPT ![b] = Enqueue(@, f)]
    BY <1>3 DEF StaFrameStep, HandleProbeResponse, HandleAuthenticationFrame, AuthFrameIgnored,
       AuthFrameOutOfSeq, AuthFrameContinues, AuthFrameCompletes, HandleDeauthenticationFrame,
       HandleAssociationResponseFrame, AssocRespIgnored, AssocRespAccepted
  <2>3. a # b
    BY <1>1, <2>1
  <2> QED BY <1>1, <2>1, <2>2, <2>3 DEF Silent
<1>4. ASSUME NEW b \in AP, ApFrameStep(b) PROVE Silent(a)'
  <2>1. /\ up[b] # <<>> /\ up' = [up EXCEPT ![b] = Tail(@)]
        /\ \E f : ApSends(b, f)
    BY <1>4 DEF ApFrameStep, ApHandleProbeRequest, ApHandleAuthenticationFrame, ApAuthOutOfSeq,
       ApAuthStep, ApHandleAssociationRequestFrame, ApAssocRefused, ApAssocGranted, ApReceives
  <2>2. a # b
    BY <1>1, <2>1
  <2> QED BY <1>1, <2>1, <2>2 DEF Silent, ApSends
<1>5. ASSUME NEW b \in AP, HandleBeacon(b) \/ ApStop(b) \/ ApStart(b) PROVE Silent(a)'
  BY <1>1, <1>5 DEF HandleBeacon, ApStop, ApStart, medium, Silent
<1>6. ASSUME NEW b \in AP, OutOfReach(b) \/ Interference(b) PROVE Silent(a)'
  BY <1>1, <1>6 DEF OutOfReach, Interference, DropHead, Silent
<1> QED BY <1>2, <1>3, <1>4, <1>5, <1>6 DEF Next

\* Only an accepted response associates the station, with the access point it came from.
LEMMA AssociatesBy ==
    ASSUME IInv, Next, ~CommandStep, isAssociated'
    PROVE  \/ isAssociated /\ assocAP' = assocAP
           \/ /\ assocTimer = "running"
              /\ \E a \in AP : assocAP' = a /\ ~Silent(a)
<1>1. CASE \E a \in AP : AssocRespAccepted(a)
  <2>1. PICK a \in AP : AssocRespAccepted(a)
    BY <1>1
  <2>2. Quiet /\ down[a] # <<>> /\ assocTimer # "none"
    BY <2>1 DEF AssocRespAccepted, StaReceives, AssocPending
  <2>3. assocTimer = "running"
    BY <2>2, QuietPending DEF Associating
  <2>4. assocAP' = a
    <3>1. Head(down[a]).ok \in BOOLEAN
      BY <2>1, StaReceivesLemma DEF AssocRespAccepted, IInv, FrameType, DownFrame, Frame
    <3>2. isAssociated' = Head(down[a]).ok
      BY <2>1 DEF AssocRespAccepted
    <3>3. Head(down[a]).ok = TRUE
      BY <3>1, <3>2
    <3> QED BY <2>1, <3>3 DEF AssocRespAccepted
  <2> QED BY <2>2, <2>3, <2>4 DEF Silent
<1>2. CASE \A a \in AP : ~AssocRespAccepted(a)
  <2>1. AgentStep \/ TimerStep \/ BeaconTimeout \/ ReceptionBusy \/ Move
            => UNCHANGED <<isAssociated, assocAP>>
    BY DEF AgentStep, StartUp, ProcessScanConfirm, ProcessAuthenticateConfirm,
       ProcessAssociateConfirm, AssociateFailed, AssociateSucceeded, AgentReceives, TimerStep,
       AssocTimeout, SendProbe, MinChannelTimeBusy, ChannelTimeOver, AuthTimeout,
       BeaconTimeout, ReceptionBusy, Move, assocVars
  <2>2. ASSUME NEW a \in AP, HandleBeacon(a) \/ StaFrameStep(a)
        PROVE  UNCHANGED <<isAssociated, assocAP>>
    BY <1>2, <2>2 DEF HandleBeacon, StaFrameStep, HandleProbeResponse,
       HandleAuthenticationFrame, AuthFrameIgnored, AuthFrameOutOfSeq, AuthFrameContinues,
       AuthFrameCompletes, HandleDeauthenticationFrame, HandleAssociationResponseFrame,
       AssocRespIgnored, assocVars
  <2>3. ASSUME NEW a \in AP, ApFrameStep(a) \/ ApStop(a) \/ ApStart(a)
        PROVE  UNCHANGED <<isAssociated, assocAP>>
    BY <2>3 DEF ApFrameStep, ApHandleProbeRequest, ApHandleAuthenticationFrame,
       ApAuthOutOfSeq, ApAuthStep, ApHandleAssociationRequestFrame, ApAssocRefused,
       ApAssocGranted, ApReceives, ApStop, ApStart, assocVars
  <2>4. ASSUME NEW a \in AP, OutOfReach(a) \/ Interference(a)
        PROVE  UNCHANGED <<isAssociated, assocAP>>
    BY <2>4 DEF OutOfReach, Interference, DropHead, assocVars
  <2>5. UNCHANGED <<isAssociated, assocAP>>
    BY <2>1, <2>2, <2>3, <2>4 DEF Next
  <2> QED BY <2>5
<1> QED BY <1>1, <1>2

LEMMA AnswererStep ==
    ASSUME Timely, IInv, MediumInv, AskedInv, AnswererInv, [RequestsNext]_requestVars
    PROVE  AnswererInv'
<1>1. IInv' /\ MediumInv'
  BY NextIInv, NextMedium DEF RequestsNext, requestVars
<1>2. CASE UNCHANGED requestVars
  BY <1>2 DEF requestVars, vars, AnswererInv, AssociatedAsRequested, Silent
<1>3. CASE RequestsNext /\ toMgmt' # <<>>
  BY <1>1, <1>3, NextRequestPending DEF AnswererInv, AssociatedAsRequested
\* The management entity takes the request: only an association puts its timer to work.
<1>4. CASE RequestsNext /\ toMgmt # <<>> /\ toMgmt' = <<>>
  <2>1. CommandStep
    BY <1>4, TakenByCommand DEF RequestsNext
  <2>2. assocTimer # "running"
    BY <1>4, RequestPending
  <2>3. request' = request /\ request = Head(toMgmt)
    BY <1>4 DEF RequestsNext, SendRequest, AskedInv
  <2>4. CASE ProcessScanCommand
    <3>1. ~isAssociated' /\ assocTimer' # "running"
      BY <2>2, <2>4 DEF ProcessScanCommand, CancelledAssocTimer
    <3> QED BY <3>1 DEF AnswererInv, AssociatedAsRequested
  <2>5. CASE ProcessAuthenticateCommand
    <3>1. AuthAsked
      BY <1>4, <2>5, CommandPhase DEF ProcessAuthenticateCommand, MgmtReceives
    <3>2. ~isAssociated' /\ assocTimer' # "running"
      BY <2>2, <2>5, <3>1 DEF ProcessAuthenticateCommand, AuthAsked, Fresh, NotAssociated, assocVars
    <3> QED BY <3>2 DEF AnswererInv, AssociatedAsRequested
  <2>6. CASE ProcessAssociateCommand
    <3>1. AssocAsked
      BY <1>4, <2>6, CommandPhase DEF ProcessAssociateCommand, MgmtReceives
    <3>2. PICK a \in AP : toMgmt = <<AssociateRequest(a)>>
      BY <3>1 DEF AssocAsked, Gates
    <3>3. request = AssociateRequest(a) /\ Head(toMgmt).ap = a
      BY <2>3, <3>2, GateLemma, MessagesLemma
    <3>4. ~isAssociated'
      BY <2>6, <3>1 DEF ProcessAssociateCommand, AssocAsked, NotAssociated
    <3>5. Silence
      <4>1. ~isScanning /\ toAgent = <<>> /\ ~Quiet
        BY <1>4, RequestPending DEF Quiet
      <4>2. Head(toMgmt).type = "Associate" /\ Head(<<ScanRequest>>).type = "Scan"
        BY <3>2, GateLemma, MessagesLemma
      <4>3. ~LeftOver
        BY <4>1, <4>2, GateLemma DEF LeftOver, GivenUp
      <4> QED BY <4>1, <4>3 DEF MediumInv, AuthUnderWay, AssocUnderWay
    <3>6. ASSUME NEW b \in AP, b # a PROVE Silent(b)'
      <4>1. up' = [up EXCEPT ![a] = Enqueue(@, MgmtFrame("AssocReq"))] /\ down' = down
        BY <2>6, <3>3 DEF ProcessAssociateCommand, MgmtReceives
      <4>2. up \in [AP -> Seq(Frame)]
        BY DEF IInv, TypeInv
      <4> QED BY <3>5, <3>6, <4>1, <4>2 DEF Silence, Silent
    <3> QED BY <2>3, <3>3, <3>4, <3>6 DEF AnswererInv, AssociatedAsRequested
  <2> QED BY <2>1, <2>4, <2>5, <2>6 DEF CommandStep
<1>5. CASE RequestsNext /\ toMgmt = <<>> /\ toMgmt' = <<>>
  <2>1. Next /\ request' = request
    BY <1>5 DEF RequestsNext, SendRequest
  <2>2. ~CommandStep
    BY <1>5 DEF CommandStep, ProcessScanCommand, ProcessAuthenticateCommand,
       ProcessAssociateCommand, MgmtReceives
  <2>3. ASSUME assocTimer' = "running", NEW a \in AP
        PROVE  Silent(a)' \/ request' = AssociateRequest(a)
    <3>1. assocTimer = "running"
      BY <1>5, <2>1, <2>3, AnswerLemma
    <3>2. TypeInv /\ ~isScanning /\ scanTimer = "none"
      BY <3>1 DEF IInv, Phase, Starting, ScanAsked, Scanning, ScanReported, AuthAsked,
         Authenticating, AuthFailed, AuthSucceeded, AssocAsked, Associating, AssocFailed,
         AssocReported, Associated, Fresh, NotScanning
    <3> QED BY <2>1, <2>2, <3>1, <3>2, NoNewFrames DEF AnswererInv
  <2>4. ASSUME isAssociated' PROVE request' = AssociateRequest(assocAP')
    <3>1. CASE isAssociated /\ assocAP' = assocAP
      BY <1>5, <2>1, <3>1 DEF AnswererInv, AssociatedAsRequested
    <3>2. CASE assocTimer = "running" /\ \E a \in AP : assocAP' = a /\ ~Silent(a)
      BY <2>1, <3>2 DEF AnswererInv
    <3> QED BY <2>1, <2>2, <2>4, <3>1, <3>2, AssociatesBy
  <2> QED BY <2>3, <2>4 DEF AnswererInv, AssociatedAsRequested
<1> QED BY <1>2, <1>3, <1>4, <1>5

\* Where no timer outruns a frame, the station is associated with the access point it was
\* told to associate with, until it is told to scan, although the management entity takes
\* the response of any access point it knows.
THEOREM AssociatesAsRequested ==
    ASSUME Timely PROVE RequestsSpec => []AssociatedAsRequested
<1>1. RequestsInit => MediumInv /\ AnswererInv
  <2> SUFFICES ASSUME RequestsInit PROVE MediumInv /\ AnswererInv
    OBVIOUS
  <2> QED BY InitMediumInv DEF RequestsInit, Init, AnswererInv, AssociatedAsRequested
<1>2. IInv /\ MediumInv /\ AskedInv /\ AnswererInv /\ [RequestsNext]_requestVars
          => MediumInv' /\ AnswererInv'
  BY AnswererStep, NextMedium DEF RequestsNext, requestVars
<1>3. AnswererInv => AssociatedAsRequested
  BY DEF AnswererInv
<1> QED BY <1>1, <1>2, <1>3, AskedInvariance, PTL DEF RequestsSpec
=============================================================================
