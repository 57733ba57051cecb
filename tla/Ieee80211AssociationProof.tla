---------------------- MODULE Ieee80211AssociationProof ----------------------
(***************************************************************************)
(* Proofs about Ieee80211Association, for every set of access points,      *)
(* channel list, queue capacity and timing: agent and management entity    *)
(* never work on different requests, so no command meets a state in which  *)
(* it throws, and the applications are told the truth about the WiFi.      *)
(***************************************************************************)
EXTENDS Ieee80211Association, SequenceTheorems, FiniteSetTheorems, TLAPS

-----------------------------------------------------------------------------
(* The inductive invariant: types first *)

\* An access point that asks the station to go on has not reached its last step.
DownFrame == {f \in Frame : f.type = "Auth" /\ f.ok /\ ~f.last => f.seq < NumAuthSteps}

\* An access point expects the odd frames of the exchange.
TypeInv ==
    /\ startUp \in BOOLEAN /\ prevAP = NoAP /\ signal \in BOOLEAN
    /\ isScanning \in BOOLEAN
    /\ scanTimer \in {"none", "probeDelay", "minChannelTime", "maxChannelTime"}
    /\ channelIndex \in 0..Len(ChannelList)
    /\ busyChannelDetected \in BOOLEAN
    /\ tuned \in Nat
    /\ apList \in [AP -> ApInfo]
    /\ assocTimer \in Timer /\ isAssociated \in BOOLEAN
    /\ assocAP \in AP \cup {NoAP}
    /\ beaconTimer \in Timer
    /\ ap \in [AP -> ApState]
    /\ \A a \in AP : ap[a].authSeqExpected \in {1, NumAuthSteps - 1}
    /\ inRange \in Moves
    /\ up \in [AP -> Seq(Frame)] /\ down \in [AP -> Seq(DownFrame)]

-----------------------------------------------------------------------------
(* ... then the phase the station is in.  Every phase has one driver. *)

Gates(commands, confirms) == toMgmt = commands /\ toAgent = confirms

NotScanning == ~isScanning /\ scanTimer = "none"
NoAuthTimer == \A a \in AP : apList[a].authTimer = "none"
NoAuthRunning == \A a \in AP : apList[a].authTimer # "running"
NobodyAuthenticated == \A a \in AP : ~apList[a].isAuthenticated
NotAssociated == ~isAssociated /\ beaconTimer # "running" /\ ~signal
\* The station has no authentication or association of its own.
Fresh == NoAuthTimer /\ NobodyAuthenticated /\ assocTimer = "none" /\ NotAssociated

Starting == startUp /\ Gates(<<>>, <<>>) /\ NotScanning /\ Fresh

\* After a failure or a beacon loss; the next command clears what is left over.
ScanAsked ==
    /\ ~startUp /\ Gates(<<ScanRequest>>, <<>>)
    /\ NotScanning /\ NoAuthRunning
    /\ assocTimer # "running" /\ beaconTimer # "running" /\ ~signal
    /\ isAssociated => assocTimer = "none" /\ beaconTimer = "fired"

Scanning ==
    /\ ~startUp /\ Gates(<<>>, <<>>)
    /\ isScanning /\ scanTimer # "none" /\ Fresh

ScanReported ==
    /\ ~startUp /\ Gates(<<>>, <<ScanConfirm(KnownAPs)>>)
    /\ NotScanning /\ Fresh

AuthAsked ==
    /\ ~startUp /\ NotScanning /\ Fresh
    /\ \E a \in AP : apList[a].known /\ Gates(<<AuthenticateRequest(a)>>, <<>>)

Authenticating ==
    /\ ~startUp /\ Gates(<<>>, <<>>)
    /\ NotScanning /\ NobodyAuthenticated /\ assocTimer = "none" /\ NotAssociated
    /\ \E a \in AP : /\ apList[a].known /\ apList[a].authTimer = "running"
                     /\ \A b \in AP : b # a => apList[b].authTimer = "none"

AuthFailed ==
    /\ ~startUp /\ NotScanning /\ NoAuthRunning /\ assocTimer = "none" /\ NotAssociated
    /\ \E a \in AP : Gates(<<>>, <<AuthenticateConfirm(a, FALSE)>>)

AuthSucceeded ==
    /\ ~startUp /\ NotScanning /\ NoAuthTimer /\ assocTimer = "none" /\ NotAssociated
    /\ \E a \in AP : /\ apList[a].known /\ apList[a].isAuthenticated
                     /\ Gates(<<>>, <<AuthenticateConfirm(a, TRUE)>>)

AssocAsked ==
    /\ ~startUp /\ NotScanning /\ NoAuthTimer /\ assocTimer = "none" /\ NotAssociated
    /\ \E a \in AP : /\ apList[a].known /\ apList[a].isAuthenticated
                     /\ Gates(<<AssociateRequest(a)>>, <<>>)

Associating ==
    /\ ~startUp /\ Gates(<<>>, <<>>)
    /\ NotScanning /\ NoAuthTimer /\ assocTimer = "running" /\ NotAssociated

AssocFailed ==
    /\ ~startUp /\ Gates(<<>>, <<AssociateConfirm(FALSE)>>)
    /\ NotScanning /\ NoAuthTimer /\ assocTimer # "running" /\ NotAssociated

AssocReported ==
    /\ ~startUp /\ Gates(<<>>, <<AssociateConfirm(TRUE)>>)
    /\ NotScanning /\ NoAuthTimer /\ assocTimer = "none"
    /\ isAssociated /\ beaconTimer = "running" /\ ~signal

Associated ==
    /\ ~startUp /\ Gates(<<>>, <<>>)
    /\ NotScanning /\ NoAuthTimer /\ assocTimer = "none"
    /\ isAssociated /\ beaconTimer = "running" /\ signal

Phase ==
    \/ Starting \/ ScanAsked \/ Scanning \/ ScanReported \/ AuthAsked
    \/ Authenticating \/ AuthFailed \/ AuthSucceeded \/ AssocAsked
    \/ Associating \/ AssocFailed \/ AssocReported \/ Associated

IInv == TypeInv /\ Phase

-----------------------------------------------------------------------------
(* Lemmas about queues *)

\* A gate that holds one message is empty when it was taken, and one that was empty
\* holds the message that was put on it.
LEMMA GateLemma ==
    ASSUME NEW x
    PROVE  /\ Head(<<x>>) = x /\ Tail(<<x>>) = <<>> /\ <<x>> # <<>>
           /\ Append(<<>>, x) = <<x>>
OBVIOUS

\* What the queue does not drop it keeps in type.
LEMMA EnqueueLemma ==
    ASSUME NEW S, NEW q \in Seq(S), NEW f \in S
    PROVE  Enqueue(q, f) \in Seq(S)
BY DEF Enqueue

LEMMA DequeueLemma ==
    ASSUME NEW S, NEW q \in Seq(S), q # <<>>
    PROVE  Head(q) \in S /\ Tail(q) \in Seq(S)
BY HeadTailProperties

\* The frames the station and the access points send.
LEMMA FrameLemma ==
    /\ \A t \in FrameType : MgmtFrame(t) \in Frame
    /\ \A t \in FrameType \ {"Auth"} : MgmtFrame(t) \in DownFrame
    /\ AuthError \in DownFrame
    /\ \A n \in 0..NumAuthSteps, l \in BOOLEAN : AuthFrame(n, l) \in Frame
    /\ \A n \in 0..NumAuthSteps : AuthFrame(n, TRUE) \in DownFrame
    /\ \A n \in 0..(NumAuthSteps - 1) : AuthFrame(n, FALSE) \in DownFrame
<1>1. NumAuthSteps \in Nat /\ 0 \in 0..NumAuthSteps /\ 0..(NumAuthSteps - 1) \subseteq 0..NumAuthSteps
  BY AssociationAssumption
<1>2. /\ \A t \in FrameType : MgmtFrame(t) \in Frame /\ MgmtFrame(t).type = t
      /\ AuthError \in Frame /\ AuthError.ok = FALSE
      /\ \A n \in 0..NumAuthSteps, l \in BOOLEAN :
            AuthFrame(n, l) \in Frame /\ AuthFrame(n, l).last = l /\ AuthFrame(n, l).seq = n
  BY <1>1 DEF MgmtFrame, AuthError, AuthFrame, Frame, FrameType
<1>3. \A n \in 0..(NumAuthSteps - 1) : n < NumAuthSteps
  BY <1>1
<1> QED BY <1>1, <1>2, <1>3 DEF DownFrame

-----------------------------------------------------------------------------
(* The agent's steps *)

LEMMA InitIInv == Init => IInv
<1> SUFFICES ASSUME Init PROVE IInv
  OBVIOUS
<1>1. ChannelList[1] \in Nat /\ 0 \in 0..Len(ChannelList)
  BY AssociationAssumption
<1>2. UnknownAP \in ApInfo
  BY DEF UnknownAP, ApInfo, Timer
<1>3. [isUp |-> TRUE, listed |-> FALSE, authSeqExpected |-> 1,
       status |-> "NOT_AUTHENTICATED"] \in ApState
  BY DEF ApState, StaStatus
<1>4. apList \in [AP -> ApInfo] /\ ap \in [AP -> ApState]
      /\ \A a \in AP : ap[a].authSeqExpected = 1
  BY <1>2, <1>3 DEF Init
<1>5. up \in [AP -> Seq(Frame)] /\ down \in [AP -> Seq(DownFrame)]
  BY DEF Init
<1>6. TypeInv
  BY <1>1, <1>4, <1>5 DEF Init, TypeInv, Timer
<1>7. Phase
  BY DEF Init, Phase, Starting, Gates, NotScanning, Fresh, NoAuthTimer, NobodyAuthenticated,
         NotAssociated, UnknownAP
<1> QED BY <1>6, <1>7 DEF IInv

LEMMA AgentStepIInv == IInv /\ AgentStep => IInv'
<1> SUFFICES ASSUME IInv, AgentStep PROVE IInv'
  OBVIOUS
<1> USE DEF IInv
<1>1. CASE StartUp
  <2>1. TypeInv'
    BY <1>1 DEF StartUp, TypeInv, scanVars, assocVars, medium
  <2>2. Starting
    BY <1>1 DEF StartUp, Phase, ScanAsked, Scanning, ScanReported, AuthAsked, Authenticating,
         AuthFailed, AuthSucceeded, AssocAsked, Associating, AssocFailed, AssocReported, Associated
  <2>3. ScanAsked'
    BY <1>1, <2>2, GateLemma DEF StartUp, Starting, ScanAsked, Gates, NotScanning, Fresh, NoAuthTimer,
         NoAuthRunning, NotAssociated, scanVars, assocVars
  <2> QED BY <2>1, <2>3 DEF Phase
<1>2. CASE ProcessScanConfirm
  <2>1. TypeInv'
    BY <1>2 DEF ProcessScanConfirm, AgentReceives, TypeInv, scanVars, assocVars, medium
  <2>2. ScanReported
    BY <1>2, GateLemma DEF ProcessScanConfirm, AgentReceives, Phase, Starting, ScanAsked, Scanning,
         AuthAsked, Authenticating, AuthFailed, AuthSucceeded, AssocAsked, Associating, AssocFailed,
         AssocReported, Associated, Gates, AuthenticateConfirm, AssociateConfirm
  <2>3. ScanAsked' \/ AuthAsked'
    BY <1>2, <2>2, GateLemma DEF ProcessScanConfirm, AgentReceives, ScanReported, ScanAsked, AuthAsked,
         Gates, ScanConfirm, KnownAPs, NotScanning, Fresh, NoAuthTimer, NobodyAuthenticated,
         NoAuthRunning, NotAssociated, scanVars, assocVars
  <2> QED BY <2>1, <2>3 DEF Phase
<1>3. CASE ProcessAuthenticateConfirm
  <2>1. TypeInv'
    BY <1>3 DEF ProcessAuthenticateConfirm, AgentReceives, TypeInv, scanVars, assocVars, medium
  <2>2. AuthFailed \/ AuthSucceeded
    BY <1>3, GateLemma DEF ProcessAuthenticateConfirm, AgentReceives, Phase, Starting, ScanAsked,
         Scanning, ScanReported, AuthAsked, Authenticating, AssocAsked, Associating, AssocFailed,
         AssocReported, Associated, Gates, ScanConfirm, AssociateConfirm
  <2>3. AuthFailed => ScanAsked'
    BY <1>3, GateLemma DEF ProcessAuthenticateConfirm, AgentReceives, AuthFailed, ScanAsked,
         Gates, AuthenticateConfirm, NotScanning, NoAuthRunning, NotAssociated, scanVars, assocVars
  <2>4. ASSUME AuthSucceeded PROVE AssocAsked'
    <3>1. PICK a \in AP : /\ apList[a].known /\ apList[a].isAuthenticated
                          /\ Gates(<<>>, <<AuthenticateConfirm(a, TRUE)>>)
      BY <2>4 DEF AuthSucceeded
    <3>2. Head(toAgent).ok = TRUE /\ Head(toAgent).ap = a /\ Tail(toAgent) = <<>>
      BY <3>1, GateLemma DEF Gates, AuthenticateConfirm
    <3>3. toMgmt' = <<AssociateRequest(a)>> /\ toAgent' = <<>>
      BY <1>3, <3>1, <3>2, GateLemma DEF ProcessAuthenticateConfirm, AgentReceives, Gates
    <3> QED BY <1>3, <2>4, <3>1, <3>3 DEF ProcessAuthenticateConfirm, AgentReceives,
         AuthSucceeded, AssocAsked, Gates, NotScanning, NoAuthTimer, NotAssociated,
         scanVars, assocVars
  <2> QED BY <2>1, <2>2, <2>3, <2>4 DEF Phase
<1>4. CASE ProcessAssociateConfirm
  <2>1. AssocFailed \/ AssocReported
    BY <1>4, GateLemma DEF ProcessAssociateConfirm, AssociateFailed, AssociateSucceeded, AgentReceives,
         Phase, Starting, ScanAsked, Scanning, ScanReported, AuthAsked, Authenticating, AuthFailed,
         AuthSucceeded, AssocAsked, Associating, Associated, Gates, ScanConfirm, AuthenticateConfirm
  <2>2. TypeInv'
    BY <1>4, <2>1, GateLemma DEF ProcessAssociateConfirm, AssociateFailed, AssociateSucceeded,
         AgentReceives, TypeInv, AssocFailed, AssocReported, Gates, AssociateConfirm,
         scanVars, assocVars, medium
  <2>3. AssocFailed => ScanAsked'
    BY <1>4, GateLemma DEF ProcessAssociateConfirm, AssociateFailed, AssociateSucceeded,
         AgentReceives, AssocFailed, ScanAsked, Gates, AssociateConfirm, NotScanning, NoAuthTimer,
         NoAuthRunning, NotAssociated, scanVars, assocVars
  <2>4. ASSUME AssocReported PROVE Associated'
    <3>1. Head(toAgent).ok = TRUE /\ toMgmt = <<>> /\ Tail(toAgent) = <<>>
      BY <2>4, GateLemma DEF AssocReported, Gates, AssociateConfirm
    <3>2. toMgmt' = <<>> /\ toAgent' = <<>> /\ signal' = TRUE
      BY <1>4, <3>1 DEF ProcessAssociateConfirm, AssociateFailed, AssociateSucceeded,
           AgentReceives, TypeInv
    <3>3. UNCHANGED <<startUp, isScanning, scanTimer, apList, assocTimer, isAssociated, beaconTimer>>
      BY <1>4 DEF ProcessAssociateConfirm, AssociateFailed, AssociateSucceeded, AgentReceives,
           scanVars, assocVars
    <3> QED BY <2>4, <3>2, <3>3 DEF AssocReported, Associated, Gates, NotScanning, NoAuthTimer
  <2> QED BY <2>1, <2>2, <2>3, <2>4 DEF Phase
<1> QED BY <1>1, <1>2, <1>3, <1>4 DEF AgentStep

-----------------------------------------------------------------------------
(* Commands of the agent *)

\* A command tells the phase the station is in, and a quiet gate rules the others out.
LEMMA CommandPhase ==
    ASSUME IInv, toMgmt # <<>>
    PROVE  /\ toAgent = <<>>
           /\ Head(toMgmt).type = "Scan" => ScanAsked
           /\ Head(toMgmt).type = "Authenticate" => AuthAsked
           /\ Head(toMgmt).type = "Associate" => AssocAsked
<1>1. ScanAsked \/ AuthAsked \/ AssocAsked
  BY DEF IInv, Phase, Starting, Scanning, ScanReported, Authenticating, AuthFailed,
     AuthSucceeded, Associating, AssocFailed, AssocReported, Associated, Gates
<1>2. ScanAsked => toAgent = <<>> /\ Head(toMgmt).type = "Scan"
  BY GateLemma DEF ScanAsked, Gates, ScanRequest
<1>3. AuthAsked => toAgent = <<>> /\ Head(toMgmt).type = "Authenticate"
  BY GateLemma DEF AuthAsked, Gates, AuthenticateRequest
<1>4. AssocAsked => toAgent = <<>> /\ Head(toMgmt).type = "Associate"
  BY GateLemma DEF AssocAsked, Gates, AssociateRequest
<1> QED BY <1>1, <1>2, <1>3, <1>4

LEMMA QuietPhase ==
    ASSUME IInv, Quiet
    PROVE  Starting \/ Scanning \/ Authenticating \/ Associating \/ Associated
BY GateLemma DEF IInv, Phase, ScanAsked, ScanReported, AuthAsked, AuthFailed, AuthSucceeded,
   AssocAsked, AssocFailed, AssocReported, Gates, Quiet

\* scanNextChannel goes on scanning, or reports what it found.
LEMMA ScanNextChannelLemma ==
    ASSUME NEW from \in 0..Len(ChannelList), TypeInv, toAgent = <<>>, ScanNextChannel(from)
    PROVE  /\ isScanning' \in BOOLEAN /\ channelIndex' \in 0..Len(ChannelList)
           /\ scanTimer' \in {"none", "probeDelay", "minChannelTime", "maxChannelTime"}
           /\ tuned' \in Nat /\ busyChannelDetected' \in BOOLEAN
           /\ \/ /\ isScanning' = TRUE /\ scanTimer' # "none" /\ toAgent' = <<>>
              \/ /\ isScanning' = FALSE /\ scanTimer' = "none"
                 /\ toAgent' = <<ScanConfirm(KnownAPs)>> /\ from = Len(ChannelList)
<1>1. CASE from = Len(ChannelList)
  BY <1>1, GateLemma DEF ScanNextChannel, TypeInv
<1>2. CASE from # Len(ChannelList)
  <2>1. Len(ChannelList) \in Nat /\ from + 1 \in 1..Len(ChannelList)
    BY <1>2, AssociationAssumption
  <2>2. ChannelList[from + 1] \in Nat
    BY <2>1, AssociationAssumption
  <2>3. from + 1 \in 0..Len(ChannelList)
    BY <2>1
  <2>4. /\ isScanning' = TRUE /\ channelIndex' = from + 1 /\ tuned' = ChannelList[from + 1]
        /\ scanTimer' \in {"probeDelay", "maxChannelTime"}
        /\ busyChannelDetected' = FALSE /\ toAgent' = <<>>
    BY <1>2 DEF ScanNextChannel
  <2> QED BY <2>2, <2>3, <2>4
<1> QED BY <1>1, <1>2

LEMMA ScanCommandIInv == IInv /\ ProcessScanCommand => IInv'
<1> SUFFICES ASSUME IInv, ProcessScanCommand PROVE IInv'
  OBVIOUS
<1>1. ScanAsked /\ TypeInv /\ toAgent = <<>>
  BY CommandPhase DEF IInv, ProcessScanCommand, MgmtReceives
<1>2. 0 \in 0..Len(ChannelList) /\ 0 # Len(ChannelList)
  BY AssociationAssumption
<1>3. /\ isScanning' = TRUE /\ channelIndex' \in 0..Len(ChannelList)
      /\ scanTimer' \in {"probeDelay", "minChannelTime", "maxChannelTime"}
      /\ tuned' \in Nat /\ busyChannelDetected' \in BOOLEAN
      /\ toAgent' = <<>>
  BY <1>1, <1>2, ScanNextChannelLemma DEF ProcessScanCommand
<1>4. /\ startUp' = startUp /\ prevAP' = prevAP /\ signal' = signal
      /\ UNCHANGED <<ap, inRange, up, down>>
      /\ toMgmt' = <<>>
  BY <1>1, GateLemma DEF ProcessScanCommand, MgmtReceives, agentVars, ScanAsked, Gates
<1>5. UnknownAP \in ApInfo
  BY DEF UnknownAP, ApInfo, Timer
<1>6. /\ apList' \in [AP -> ApInfo]
      /\ \A a \in AP : apList'[a].authTimer = "none" /\ ~apList'[a].isAuthenticated
  BY <1>5 DEF ProcessScanCommand, ClearedAPList, UnknownAP
<1>7. /\ isAssociated' = FALSE /\ assocTimer' = "none"
      /\ assocAP' \in AP \cup {NoAP}
      /\ beaconTimer' \in Timer /\ beaconTimer' # "running"
  BY <1>1 DEF ProcessScanCommand, CancelledAssocTimer, ScanAsked, TypeInv, Timer
<1>8. TypeInv'
  BY <1>1, <1>3, <1>4, <1>6, <1>7 DEF TypeInv, Timer
<1>9. Scanning'
  BY <1>1, <1>3, <1>4, <1>6, <1>7
     DEF ScanAsked, Scanning, Gates, Fresh, NoAuthTimer, NobodyAuthenticated, NotAssociated
<1> QED BY <1>8, <1>9 DEF IInv, Phase

LEMMA AuthenticateCommandIInv == IInv /\ ProcessAuthenticateCommand => IInv'
<1> SUFFICES ASSUME IInv, ProcessAuthenticateCommand PROVE IInv'
  OBVIOUS
<1>1. AuthAsked /\ TypeInv /\ toAgent = <<>>
  BY CommandPhase DEF IInv, ProcessAuthenticateCommand, MgmtReceives
<1>2. PICK a \in AP : apList[a].known /\ Gates(<<AuthenticateRequest(a)>>, <<>>)
  BY <1>1 DEF AuthAsked
<1>3. Head(toMgmt).ap = a /\ Tail(toMgmt) = <<>>
  BY <1>2, GateLemma DEF Gates, AuthenticateRequest
<1>4. AuthFrame(1, FALSE) \in Frame /\ ApChannel[a] \in Nat
  <2>1. 1 \in 0..NumAuthSteps
    BY AssociationAssumption
  <2> QED BY <2>1, AssociationAssumption, FrameLemma
<1>5. Enqueue(up[a], AuthFrame(1, FALSE)) \in Seq(Frame)
  BY <1>1, <1>4, EnqueueLemma DEF TypeInv
<1>6. /\ apList' = [apList EXCEPT ![a].authSeqExpected = 2, ![a].authTimer = "running"]
      /\ tuned' = ApChannel[a]
      /\ up' = [up EXCEPT ![a] = Enqueue(@, AuthFrame(1, FALSE))]
      /\ toMgmt' = <<>> /\ toAgent' = <<>>
      /\ UNCHANGED <<startUp, prevAP, signal, isScanning, scanTimer, channelIndex,
                     busyChannelDetected, assocTimer, isAssociated, assocAP, beaconTimer,
                     ap, inRange, down>>
  BY <1>1, <1>3 DEF ProcessAuthenticateCommand, MgmtReceives, agentVars, assocVars
<1>7. TypeInv'
  <2>1. apList[a] \in ApInfo
    BY <1>1 DEF TypeInv
  <2>2. [apList[a] EXCEPT !.authSeqExpected = 2, !.authTimer = "running"] \in ApInfo
    BY <2>1 DEF ApInfo, Timer
  <2>3. apList' \in [AP -> ApInfo]
    BY <1>1, <1>6, <2>2 DEF TypeInv
  <2> QED BY <1>1, <1>4, <1>5, <1>6, <2>3 DEF TypeInv
<1>8. Authenticating'
  BY <1>1, <1>2, <1>6 DEF AuthAsked, Authenticating, Gates, NotScanning, Fresh, NoAuthTimer,
     NobodyAuthenticated, NotAssociated, TypeInv, ApInfo
<1> QED BY <1>7, <1>8 DEF IInv, Phase

LEMMA AssociateCommandIInv == IInv /\ ProcessAssociateCommand => IInv'
<1> SUFFICES ASSUME IInv, ProcessAssociateCommand PROVE IInv'
  OBVIOUS
<1>1. AssocAsked /\ TypeInv /\ toAgent = <<>>
  BY CommandPhase DEF IInv, ProcessAssociateCommand, MgmtReceives
<1>2. PICK a \in AP : Gates(<<AssociateRequest(a)>>, <<>>)
  BY <1>1 DEF AssocAsked
<1>3. Head(toMgmt).ap = a /\ Tail(toMgmt) = <<>>
  BY <1>2, GateLemma DEF Gates, AssociateRequest
<1>4. MgmtFrame("AssocReq") \in Frame /\ ApChannel[a] \in Nat
  BY AssociationAssumption, FrameLemma DEF FrameType
<1>5. Enqueue(up[a], MgmtFrame("AssocReq")) \in Seq(Frame)
  BY <1>1, <1>4, EnqueueLemma DEF TypeInv
<1>6. /\ tuned' = ApChannel[a] /\ assocTimer' = "running"
      /\ up' = [up EXCEPT ![a] = Enqueue(@, MgmtFrame("AssocReq"))]
      /\ toMgmt' = <<>> /\ toAgent' = <<>>
      /\ UNCHANGED <<startUp, prevAP, signal, isScanning, scanTimer, channelIndex,
                     busyChannelDetected, apList, isAssociated, assocAP, beaconTimer,
                     ap, inRange, down>>
  BY <1>1, <1>3 DEF ProcessAssociateCommand, MgmtReceives, agentVars
<1>7. TypeInv'
  BY <1>1, <1>4, <1>5, <1>6 DEF TypeInv, Timer
<1>8. Associating'
  BY <1>1, <1>6 DEF AssocAsked, Associating, Gates, NotScanning, NoAuthTimer, NotAssociated
<1> QED BY <1>7, <1>8 DEF IInv, Phase

-----------------------------------------------------------------------------
(* Timers *)

\* A quiet station stays in its phase when a step neither touches its timers (but may
\* go on to the next timer of the scan) nor authenticates it with anybody.
LEMMA QuietStays ==
    ASSUME IInv, Quiet,
           UNCHANGED <<startUp, signal, toMgmt, toAgent, isScanning, assocTimer,
                       isAssociated, beaconTimer>>,
           scanTimer' = "none" <=> scanTimer = "none",
           \A b \in AP : /\ apList[b].known => apList'[b].known
                         /\ apList'[b].isAuthenticated => apList[b].isAuthenticated
                         /\ apList'[b].authTimer = apList[b].authTimer
    PROVE  Phase'
<1>1. Starting \/ Scanning \/ Authenticating \/ Associating \/ Associated
  BY QuietPhase
<1>2. NotScanning => NotScanning'
  BY DEF NotScanning
<1>3. NoAuthTimer => NoAuthTimer'
  BY DEF NoAuthTimer
<1>4. NobodyAuthenticated => NobodyAuthenticated'
  BY DEF NobodyAuthenticated
<1>5. NotAssociated => NotAssociated'
  BY DEF NotAssociated
<1>6. Fresh => Fresh'
  BY <1>3, <1>4, <1>5 DEF Fresh
<1>7. Gates(<<>>, <<>>)' = Gates(<<>>, <<>>)
  BY DEF Gates
<1>8. Starting => Starting'
  BY <1>2, <1>6, <1>7 DEF Starting
<1>9. Scanning => Scanning'
  BY <1>6, <1>7 DEF Scanning
<1>10. Authenticating => Authenticating'
  BY <1>2, <1>4, <1>5, <1>7 DEF Authenticating
<1>11. Associating => Associating'
  BY <1>2, <1>3, <1>5, <1>7 DEF Associating
<1>12. Associated => Associated'
  BY <1>2, <1>3, <1>7 DEF Associated
<1> QED BY <1>1, <1>8, <1>9, <1>10, <1>11, <1>12 DEF Phase

LEMMA TimeoutIInv ==
    IInv /\ (AssocTimeout \/ BeaconTimeout \/ \E a \in AP : AuthTimeout(a)) => IInv'
<1> SUFFICES ASSUME IInv, AssocTimeout \/ BeaconTimeout \/ \E a \in AP : AuthTimeout(a)
             PROVE  IInv'
  OBVIOUS
<1>1. TypeInv /\ Quiet /\ toMgmt = <<>> /\ toAgent = <<>>
  BY DEF IInv, AssocTimeout, BeaconTimeout, AuthTimeout, TimerFires, Quiet
<1>2. CASE AssocTimeout
  <2>1. Associating
    BY <1>1, <1>2, QuietPhase DEF AssocTimeout, Starting, Scanning, Authenticating, Associated, Fresh
  <2>2. /\ toAgent' = <<AssociateConfirm(FALSE)>> /\ assocTimer' = "fired"
        /\ UNCHANGED <<startUp, prevAP, signal, toMgmt, isScanning, scanTimer, channelIndex,
                       busyChannelDetected, tuned, apList, isAssociated, assocAP, beaconTimer,
                       ap, inRange, up, down>>
    BY <1>1, <1>2, GateLemma DEF AssocTimeout, TimerFires, scanVars
  <2>3. TypeInv'
    BY <1>1, <2>2 DEF TypeInv, Timer
  <2>4. AssocFailed'
    BY <1>1, <2>1, <2>2 DEF Associating, AssocFailed, Gates, NotScanning, NoAuthTimer, NotAssociated
  <2> QED BY <2>3, <2>4 DEF IInv, Phase
<1>3. CASE BeaconTimeout
  <2>1. Associated
    BY <1>1, <1>3, QuietPhase DEF BeaconTimeout, Starting, Scanning, Authenticating, Associating,
       Fresh, NotAssociated
  <2>2. /\ toMgmt' = <<ScanRequest>> /\ signal' = FALSE /\ beaconTimer' = "fired"
        /\ UNCHANGED <<startUp, prevAP, toAgent, isScanning, scanTimer, channelIndex,
                       busyChannelDetected, tuned, apList, assocTimer, isAssociated, assocAP,
                       ap, inRange, up, down>>
    BY <1>1, <1>3, GateLemma DEF BeaconTimeout, HearsBeaconLost, TimerFires, scanVars
  <2>3. TypeInv'
    BY <1>1, <2>2 DEF TypeInv, Timer
  <2>4. ScanAsked'
    BY <1>1, <2>1, <2>2 DEF Associated, ScanAsked, Gates, NotScanning, NoAuthTimer, NoAuthRunning
  <2> QED BY <2>3, <2>4 DEF IInv, Phase
<1>4. ASSUME NEW a \in AP, AuthTimeout(a) PROVE IInv'
  <2>1. Authenticating
    BY <1>1, <1>4, QuietPhase DEF AuthTimeout, Starting, Scanning, Associating, Associated, Fresh,
       NoAuthTimer
  <2>2. /\ toAgent' = <<AuthenticateConfirm(a, FALSE)>>
        /\ apList' = [apList EXCEPT ![a].authTimer = "fired"]
        /\ UNCHANGED <<startUp, prevAP, signal, toMgmt, isScanning, scanTimer, channelIndex,
                       busyChannelDetected, tuned, assocTimer, isAssociated, assocAP, beaconTimer,
                       ap, inRange, up, down>>
    BY <1>1, <1>4, GateLemma DEF AuthTimeout, TimerFires, scanVars, assocVars
  <2>3. [apList[a] EXCEPT !.authTimer = "fired"] \in ApInfo
    BY <1>1 DEF TypeInv, ApInfo, Timer
  <2>4. TypeInv'
    BY <1>1, <2>2, <2>3 DEF TypeInv
  <2>5. NoAuthRunning'
    <3>1. PICK c \in AP : /\ apList[c].authTimer = "running"
                          /\ \A b \in AP : b # c => apList[b].authTimer = "none"
      BY <2>1 DEF Authenticating
    <3>2. a = c
      BY <1>4, <3>1 DEF AuthTimeout
    <3>3. \A b \in AP : apList'[b].authTimer = IF b = a THEN "fired" ELSE apList[b].authTimer
      BY <1>1, <2>2 DEF TypeInv, ApInfo
    <3> QED BY <3>1, <3>2, <3>3 DEF NoAuthRunning
  <2>6. AuthFailed'
    BY <1>1, <2>1, <2>2, <2>5 DEF Authenticating, AuthFailed, Gates, NotScanning, NotAssociated
  <2> QED BY <2>4, <2>6 DEF IInv, Phase
<1> QED BY <1>2, <1>3, <1>4

\* The timers of the scan.
LEMMA ScanTimerIInv == IInv /\ (SendProbe \/ MinChannelTimeBusy \/ ChannelTimeOver) => IInv'
<1> SUFFICES ASSUME IInv, SendProbe \/ MinChannelTimeBusy \/ ChannelTimeOver PROVE IInv'
  OBVIOUS
<1>1. TypeInv /\ Quiet /\ toMgmt = <<>> /\ toAgent = <<>> /\ scanTimer # "none"
  BY DEF IInv, SendProbe, MinChannelTimeBusy, ChannelTimeOver, TimerFires, Quiet
<1>2. CASE SendProbe
  <2>1. MgmtFrame("ProbeReq") \in Frame
    BY FrameLemma DEF FrameType
  <2>2. \A a \in AP : Enqueue(up[a], MgmtFrame("ProbeReq")) \in Seq(Frame)
    BY <1>1, <2>1, EnqueueLemma DEF TypeInv
  <2>3. up' \in [AP -> Seq(Frame)]
    BY <1>1, <1>2, <2>2 DEF SendProbe, TypeInv
  <2>4. TypeInv'
    BY <1>1, <1>2, <2>3 DEF SendProbe, TimerFires, TypeInv, gateVars, assocVars
  <2>5. Phase'
    BY <1>1, <1>2, QuietStays DEF SendProbe, TimerFires, gateVars, assocVars
  <2> QED BY <2>4, <2>5 DEF IInv
<1>3. CASE MinChannelTimeBusy
  <2>1. TypeInv'
    BY <1>1, <1>3 DEF MinChannelTimeBusy, TimerFires, TypeInv, gateVars, assocVars
  <2>2. Phase'
    BY <1>1, <1>3, QuietStays DEF MinChannelTimeBusy, TimerFires, gateVars, assocVars
  <2> QED BY <2>1, <2>2 DEF IInv
<1>4. CASE ChannelTimeOver
  <2>1. Scanning
    BY <1>1, QuietPhase DEF Starting, Authenticating, Associating, Associated, NotScanning
  <2>2. /\ isScanning' \in BOOLEAN /\ channelIndex' \in 0..Len(ChannelList)
        /\ scanTimer' \in {"none", "probeDelay", "minChannelTime", "maxChannelTime"}
        /\ tuned' \in Nat /\ busyChannelDetected' \in BOOLEAN
        /\ \/ /\ isScanning' = TRUE /\ scanTimer' # "none" /\ toAgent' = <<>>
           \/ /\ isScanning' = FALSE /\ scanTimer' = "none"
              /\ toAgent' = <<ScanConfirm(KnownAPs)>>
    <3>1. channelIndex \in 0..Len(ChannelList) /\ ScanNextChannel(channelIndex)
      BY <1>1, <1>4 DEF TypeInv, ChannelTimeOver
    <3> QED BY <1>1, <3>1, ScanNextChannelLemma
  <2>3. UNCHANGED <<startUp, prevAP, signal, toMgmt, apList, assocTimer, isAssociated, assocAP,
                    beaconTimer, ap, inRange, up, down>>
    BY <1>4 DEF ChannelTimeOver, TimerFires, assocVars
  <2>4. TypeInv'
    BY <1>1, <2>2, <2>3 DEF TypeInv
  <2>5. Fresh' /\ KnownAPs' = KnownAPs
    BY <2>1, <2>3 DEF Scanning, Fresh, NoAuthTimer, NobodyAuthenticated, NotAssociated, KnownAPs
  <2>6. ScanConfirm(KnownAPs)' = ScanConfirm(KnownAPs)
    BY <2>5 DEF ScanConfirm
  <2>7. Scanning' \/ ScanReported'
    BY <1>1, <2>1, <2>2, <2>3, <2>5, <2>6 DEF Scanning, ScanReported, Gates, NotScanning
  <2> QED BY <2>4, <2>7 DEF IInv, Phase
<1> QED BY <1>2, <1>3, <1>4

-----------------------------------------------------------------------------
(* Frames that reach the station *)

\* The frame at the head of a queue is taken off it.
LEMMA StaReceivesLemma ==
    ASSUME TypeInv, NEW a \in AP, NEW t \in FrameType, StaReceives(a, t)
    PROVE  /\ Quiet /\ toMgmt = <<>> /\ toAgent = <<>>
           /\ Head(down[a]) \in DownFrame /\ Head(down[a]).type = t
           /\ down' \in [AP -> Seq(DownFrame)]
           /\ UNCHANGED <<startUp, prevAP, signal, toMgmt, isScanning, scanTimer, channelIndex,
                          busyChannelDetected, tuned, ap, inRange>>
<1>1. down \in [AP -> Seq(DownFrame)] /\ down[a] # <<>>
  BY DEF TypeInv, StaReceives
<1>2. Head(down[a]) \in DownFrame /\ Tail(down[a]) \in Seq(DownFrame)
  BY <1>1, DequeueLemma
<1>3. down' \in [AP -> Seq(DownFrame)]
  BY <1>1, <1>2 DEF StaReceives
<1> QED BY <1>2, <1>3 DEF StaReceives, Quiet, agentVars, scanVars

LEMMA BeaconIInv == \A a \in AP : IInv /\ HandleBeacon(a) => IInv'
<1> SUFFICES ASSUME NEW a \in AP, IInv, HandleBeacon(a) PROVE IInv'
  OBVIOUS
<1>1. TypeInv /\ Quiet /\ apList' = [apList EXCEPT ![a].known = TRUE]
  BY DEF IInv, HandleBeacon, StoreAPInfo
<1>2. UNCHANGED <<startUp, prevAP, signal, toMgmt, toAgent, isScanning, scanTimer, channelIndex,
                  busyChannelDetected, tuned, assocTimer, isAssociated, assocAP, ap, inRange,
                  up, down>>
  BY DEF HandleBeacon, agentVars, gateVars, scanVars, medium
<1>3. [apList[a] EXCEPT !.known = TRUE] \in ApInfo
  BY <1>1 DEF TypeInv, ApInfo
<1>4. beaconTimer' = beaconTimer
  <2>1. isAssociated => beaconTimer = "running"
    BY <1>1, QuietPhase DEF Starting, Scanning, Authenticating, Associating, Associated, Fresh,
       NotAssociated
  <2> QED BY <2>1 DEF HandleBeacon
<1>5. TypeInv'
  BY <1>1, <1>2, <1>3, <1>4 DEF TypeInv
<1>6. \A b \in AP : /\ apList[b].known => apList'[b].known
                    /\ apList'[b].isAuthenticated => apList[b].isAuthenticated
                    /\ apList'[b].authTimer = apList[b].authTimer
  BY <1>1 DEF TypeInv, ApInfo
<1> QED BY <1>1, <1>2, <1>4, <1>5, <1>6, QuietStays DEF IInv

LEMMA ProbeResponseIInv == \A a \in AP : IInv /\ HandleProbeResponse(a) => IInv'
<1> SUFFICES ASSUME NEW a \in AP, IInv, HandleProbeResponse(a) PROVE IInv'
  OBVIOUS
<1>1. TypeInv /\ apList' = [apList EXCEPT ![a].known = TRUE]
  BY DEF IInv, HandleProbeResponse, StoreAPInfo
<1>2. /\ Quiet /\ down' \in [AP -> Seq(DownFrame)]
      /\ UNCHANGED <<startUp, prevAP, signal, toMgmt, isScanning, scanTimer, channelIndex,
                     busyChannelDetected, tuned, ap, inRange>>
  BY <1>1, StaReceivesLemma DEF HandleProbeResponse, FrameType
<1>3. UNCHANGED <<toAgent, assocTimer, isAssociated, assocAP, beaconTimer, up>>
  BY DEF HandleProbeResponse, assocVars
<1>4. [apList[a] EXCEPT !.known = TRUE] \in ApInfo
  BY <1>1 DEF TypeInv, ApInfo
<1>5. TypeInv'
  BY <1>1, <1>2, <1>3, <1>4 DEF TypeInv
<1>6. \A b \in AP : /\ apList[b].known => apList'[b].known
                    /\ apList'[b].isAuthenticated => apList[b].isAuthenticated
                    /\ apList'[b].authTimer = apList[b].authTimer
  BY <1>1 DEF TypeInv, ApInfo
<1> QED BY <1>1, <1>2, <1>3, <1>5, <1>6, QuietStays DEF IInv

LEMMA AuthenticationFrameIInv == \A a \in AP : IInv /\ HandleAuthenticationFrame(a) => IInv'
<1> SUFFICES ASSUME NEW a \in AP, IInv, HandleAuthenticationFrame(a) PROVE IInv'
  OBVIOUS
<1> DEFINE f == Head(down[a])
<1>1. TypeInv /\ StaReceives(a, "Auth")
  BY DEF IInv, HandleAuthenticationFrame, AuthFrameIgnored, AuthFrameOutOfSeq, AuthFrameContinues,
     AuthFrameCompletes
<1>2. /\ Quiet /\ toMgmt = <<>> /\ toAgent = <<>>
      /\ f \in DownFrame /\ f.type = "Auth"
      /\ down' \in [AP -> Seq(DownFrame)]
      /\ UNCHANGED <<startUp, prevAP, signal, toMgmt, isScanning, scanTimer, channelIndex,
                     busyChannelDetected, tuned, ap, inRange>>
  BY <1>1, StaReceivesLemma DEF FrameType
<1>3. UNCHANGED <<assocTimer, isAssociated, assocAP, beaconTimer>>
  BY DEF HandleAuthenticationFrame, AuthFrameIgnored, AuthFrameOutOfSeq, AuthFrameContinues,
     AuthFrameCompletes, assocVars
<1>4. f.ok \in BOOLEAN /\ f.seq \in 0..NumAuthSteps
  BY <1>2 DEF DownFrame, Frame
<1>5. apList \in [AP -> ApInfo] /\ apList[a] \in ApInfo /\ up \in [AP -> Seq(Frame)]
  BY <1>1 DEF TypeInv
\* Only the access point the station authenticates with has a timer.
<1>6. ASSUME AuthInProgress(a)
      PROVE  Authenticating /\ apList[a].authTimer = "running" /\ apList[a].known
             /\ \A b \in AP : b # a => apList[b].authTimer = "none"
  <2>1. Authenticating
    BY <1>2, <1>6, QuietPhase DEF AuthInProgress, Starting, Scanning, Associating, Associated, Fresh,
       NoAuthTimer
  <2> QED BY <1>6, <2>1 DEF AuthInProgress, Authenticating
<1> HIDE DEF f
<1>7. CASE AuthFrameIgnored(a)
  <2>1. UNCHANGED <<toAgent, apList, up>>
    BY <1>7 DEF AuthFrameIgnored
  <2>2. TypeInv'
    BY <1>1, <1>2, <1>3, <2>1 DEF TypeInv
  <2>3. Phase'
    BY <1>2, <1>3, <2>1, QuietStays
  <2> QED BY <2>2, <2>3 DEF IInv
<1>8. CASE AuthFrameOutOfSeq(a)
  <2>1. /\ AuthInProgress(a)
        /\ up' = [up EXCEPT ![a] = Enqueue(@, AuthError)]
        /\ apList' = [apList EXCEPT ![a].authTimer = "none"]
        /\ toAgent' = <<AuthenticateConfirm(a, FALSE)>>
    BY <1>2, <1>8, GateLemma DEF AuthFrameOutOfSeq
  <2>2. AuthError \in Frame
    BY FrameLemma DEF DownFrame
  <2>3. Enqueue(up[a], AuthError) \in Seq(Frame)
    BY <1>5, <2>2, EnqueueLemma
  <2>4. [apList[a] EXCEPT !.authTimer = "none"] \in ApInfo
    BY <1>5 DEF ApInfo, Timer
  <2>5. TypeInv'
    BY <1>1, <1>2, <1>3, <2>1, <2>3, <2>4 DEF TypeInv
  <2>6. \A b \in AP : apList'[b].authTimer = "none"
    BY <1>5, <1>6, <2>1 DEF ApInfo
  <2>7. AuthFailed'
    BY <1>2, <1>3, <1>6, <2>1, <2>6 DEF Authenticating, AuthFailed, Gates, NotScanning,
       NoAuthRunning, NotAssociated
  <2> QED BY <2>5, <2>7 DEF IInv, Phase
<1>9. CASE AuthFrameContinues(a)
  <2>1. /\ AuthInProgress(a)
        /\ f.ok /\ ~f.last
        /\ up' = [up EXCEPT ![a] = Enqueue(@, AuthFrame(f.seq + 1, FALSE))]
        /\ apList' = [apList EXCEPT ![a].authSeqExpected = apList[a].authSeqExpected + 2]
        /\ toAgent' = toAgent
    BY <1>9 DEF AuthFrameContinues, NextFromAP, f
  <2>2. f.seq + 1 \in 0..NumAuthSteps
    BY <1>2, <1>4, <2>1, AssociationAssumption DEF DownFrame
  <2>3. AuthFrame(f.seq + 1, FALSE) \in Frame
    BY <2>2, FrameLemma
  <2>4. Enqueue(up[a], AuthFrame(f.seq + 1, FALSE)) \in Seq(Frame)
    BY <1>5, <2>3, EnqueueLemma
  <2>5. [apList[a] EXCEPT !.authSeqExpected = apList[a].authSeqExpected + 2] \in ApInfo
    <3>1. apList[a].authSeqExpected \in Nat
      BY <1>5 DEF ApInfo
    <3>2. apList[a].authSeqExpected + 2 \in Nat
      BY <3>1
    <3>3. \A n \in Nat : [apList[a] EXCEPT !.authSeqExpected = n] \in ApInfo
      BY <1>5 DEF ApInfo
    <3> QED BY <3>2, <3>3
  <2>6. TypeInv'
    BY <1>1, <1>2, <1>3, <2>1, <2>4, <2>5 DEF TypeInv
  <2>7. \A b \in AP : /\ apList'[b].known = apList[b].known
                      /\ apList'[b].isAuthenticated = apList[b].isAuthenticated
                      /\ apList'[b].authTimer = apList[b].authTimer
    BY <1>5, <2>1 DEF ApInfo
  <2>8. Phase'
    BY <1>2, <1>3, <2>1, <2>7, QuietStays
  <2> QED BY <2>6, <2>8 DEF IInv
<1>10. CASE AuthFrameCompletes(a)
  <2>1. /\ AuthInProgress(a)
        /\ apList' = [apList EXCEPT ![a].isAuthenticated = f.ok, ![a].authTimer = "none"]
        /\ toAgent' = <<AuthenticateConfirm(a, f.ok)>>
        /\ up' = up
    BY <1>2, <1>10, GateLemma DEF AuthFrameCompletes, f
  <2>2. [apList[a] EXCEPT !.isAuthenticated = f.ok, !.authTimer = "none"] \in ApInfo
    BY <1>4, <1>5 DEF ApInfo, Timer
  <2>3. TypeInv'
    BY <1>1, <1>2, <1>3, <2>1, <2>2 DEF TypeInv
  <2>4. /\ \A b \in AP : apList'[b].authTimer = "none"
        /\ apList'[a].known = apList[a].known /\ apList'[a].isAuthenticated = f.ok
    BY <1>5, <1>6, <2>1 DEF ApInfo
  <2>5. CASE f.ok = TRUE
    <3>1. toAgent' = <<AuthenticateConfirm(a, TRUE)>>
      BY <2>1, <2>5
    <3>2. AuthSucceeded'
      BY <1>2, <1>3, <1>6, <2>1, <2>4, <2>5, <3>1 DEF Authenticating, AuthSucceeded, Gates,
         NotScanning, NoAuthTimer, NotAssociated
    <3> QED BY <2>3, <3>2 DEF IInv, Phase
  <2>6. CASE f.ok = FALSE
    <3>1. toAgent' = <<AuthenticateConfirm(a, FALSE)>>
      BY <2>1, <2>6
    <3>2. AuthFailed'
      BY <1>2, <1>3, <1>6, <2>1, <2>4, <3>1 DEF Authenticating, AuthFailed, Gates,
         NotScanning, NoAuthRunning, NotAssociated
    <3> QED BY <2>3, <3>2 DEF IInv, Phase
  <2> QED BY <1>4, <2>5, <2>6
<1> QED BY <1>7, <1>8, <1>9, <1>10 DEF HandleAuthenticationFrame

LEMMA DeauthenticationFrameIInv ==
    \A a \in AP : IInv /\ HandleDeauthenticationFrame(a) => IInv'
<1> SUFFICES ASSUME NEW a \in AP, IInv, HandleDeauthenticationFrame(a) PROVE IInv'
  OBVIOUS
<1>1. TypeInv /\ StaReceives(a, "Deauth")
  BY DEF IInv, HandleDeauthenticationFrame
<1>2. /\ Quiet /\ down' \in [AP -> Seq(DownFrame)]
      /\ UNCHANGED <<startUp, prevAP, signal, toMgmt, isScanning, scanTimer, channelIndex,
                     busyChannelDetected, tuned, ap, inRange>>
  BY <1>1, StaReceivesLemma DEF FrameType
<1>3. UNCHANGED <<toAgent, assocTimer, isAssociated, assocAP, beaconTimer, up>>
  BY DEF HandleDeauthenticationFrame, assocVars
<1>4. apList \in [AP -> ApInfo] /\ apList[a] \in ApInfo
  BY <1>1 DEF TypeInv
\* A station that waits for an authentication is authenticated with nobody.
<1>5. apList[a].isAuthenticated => apList[a].authTimer = "none"
  BY <1>2, QuietPhase DEF Starting, Scanning, Authenticating, Associating, Associated, Fresh,
     NobodyAuthenticated, NoAuthTimer
<1>6. apList' = apList \/ apList' = [apList EXCEPT ![a].isAuthenticated = FALSE]
  BY <1>5 DEF HandleDeauthenticationFrame
<1>7. [apList[a] EXCEPT !.isAuthenticated = FALSE] \in ApInfo
  BY <1>4 DEF ApInfo
<1>8. TypeInv'
  BY <1>1, <1>2, <1>3, <1>4, <1>6, <1>7 DEF TypeInv
<1>9. \A b \in AP : /\ apList[b].known => apList'[b].known
                    /\ apList'[b].isAuthenticated => apList[b].isAuthenticated
                    /\ apList'[b].authTimer = apList[b].authTimer
  BY <1>4, <1>6 DEF ApInfo
<1> QED BY <1>1, <1>2, <1>3, <1>8, <1>9, QuietStays DEF IInv

LEMMA AssociationResponseIInv ==
    \A a \in AP : IInv /\ HandleAssociationResponseFrame(a) => IInv'
<1> SUFFICES ASSUME NEW a \in AP, IInv, HandleAssociationResponseFrame(a) PROVE IInv'
  OBVIOUS
<1>1. TypeInv /\ StaReceives(a, "AssocResp")
  BY DEF IInv, HandleAssociationResponseFrame, AssocRespIgnored, AssocRespAccepted
<1>2. /\ Quiet /\ toMgmt = <<>> /\ toAgent = <<>>
      /\ Head(down[a]) \in DownFrame /\ down' \in [AP -> Seq(DownFrame)]
      /\ UNCHANGED <<startUp, prevAP, signal, toMgmt, isScanning, scanTimer, channelIndex,
                     busyChannelDetected, tuned, ap, inRange>>
  BY <1>1, StaReceivesLemma DEF FrameType
<1>3. UNCHANGED <<apList, up>>
  BY DEF HandleAssociationResponseFrame, AssocRespIgnored, AssocRespAccepted
<1>4. CASE AssocRespIgnored(a)
  <2>1. UNCHANGED <<toAgent, assocTimer, isAssociated, assocAP, beaconTimer>>
    BY <1>4 DEF AssocRespIgnored, assocVars
  <2>2. TypeInv'
    BY <1>1, <1>2, <1>3, <2>1 DEF TypeInv
  <2> QED BY <1>2, <1>3, <2>1, <2>2, QuietStays DEF IInv
<1>5. CASE AssocRespAccepted(a)
  <2> DEFINE ok == Head(down[a]).ok
  <2>1. ok \in BOOLEAN
    BY <1>2 DEF DownFrame, Frame
  <2>2. Associating
    BY <1>2, <1>5, QuietPhase DEF AssocRespAccepted, AssocPending, Starting, Scanning,
       Authenticating, Associated, Fresh
  <2>3. ~isAssociated
    BY <2>2 DEF Associating, NotAssociated
  <2>4. /\ assocTimer' = "none" /\ isAssociated' = ok
        /\ assocAP' = IF ok THEN a ELSE assocAP
        /\ beaconTimer' = IF ok THEN "running" ELSE beaconTimer
        /\ toAgent' = <<AssociateConfirm(ok)>>
    BY <1>2, <1>5, <2>3, GateLemma DEF AssocRespAccepted
  <2> HIDE DEF ok
  <2>5. TypeInv'
    BY <1>1, <1>2, <1>3, <2>1, <2>4 DEF TypeInv, Timer
  <2>6. CASE ok = TRUE
    <3>1. AssocReported'
      BY <1>2, <1>3, <2>2, <2>4, <2>6 DEF Associating, AssocReported, Gates, NotScanning, NoAuthTimer,
         NotAssociated
    <3> QED BY <2>5, <3>1 DEF IInv, Phase
  <2>7. CASE ok = FALSE
    <3>1. AssocFailed'
      BY <1>2, <1>3, <2>2, <2>4, <2>7 DEF Associating, AssocFailed, Gates, NotScanning, NoAuthTimer,
         NotAssociated
    <3> QED BY <2>5, <3>1 DEF IInv, Phase
  <2> QED BY <2>1, <2>6, <2>7
<1> QED BY <1>4, <1>5 DEF HandleAssociationResponseFrame

-----------------------------------------------------------------------------
(* The access points and the medium *)

\* A step that leaves the station alone and keeps the rest in type.
LEMMA ElsewhereIInv ==
    ASSUME IInv, Quiet,
           UNCHANGED <<agentVars, gateVars, isScanning, scanTimer, channelIndex, tuned,
                       apList, assocVars>>,
           busyChannelDetected' \in BOOLEAN,
           ap' \in [AP -> ApState],
           \A a \in AP : ap'[a].authSeqExpected \in {1, NumAuthSteps - 1},
           inRange' \in Moves,
           up' \in [AP -> Seq(Frame)], down' \in [AP -> Seq(DownFrame)]
    PROVE  IInv'
<1>1. TypeInv'
  BY DEF IInv, TypeInv, agentVars, gateVars, assocVars
<1>2. Phase'
  BY QuietStays DEF agentVars, gateVars, assocVars
<1> QED BY <1>1, <1>2 DEF IInv

LEMMA ApReceivesLemma ==
    ASSUME TypeInv, NEW a \in AP, NEW t \in FrameType, ApReceives(a, t)
    PROVE  /\ Quiet /\ Head(up[a]) \in Frame
           /\ up' \in [AP -> Seq(Frame)]
           /\ UNCHANGED <<agentVars, gateVars, isScanning, scanTimer, channelIndex, tuned,
                          apList, assocVars, busyChannelDetected, inRange>>
<1>1. up \in [AP -> Seq(Frame)] /\ up[a] # <<>>
  BY DEF TypeInv, ApReceives
<1>2. Head(up[a]) \in Frame /\ Tail(up[a]) \in Seq(Frame)
  BY <1>1, DequeueLemma
<1>3. up' \in [AP -> Seq(Frame)]
  BY <1>1, <1>2 DEF ApReceives
<1> QED BY <1>2, <1>3 DEF ApReceives, scanVars

LEMMA ApSendsLemma ==
    ASSUME TypeInv, NEW a \in AP, NEW f \in DownFrame, ApSends(a, f)
    PROVE  down' \in [AP -> Seq(DownFrame)]
<1>1. Enqueue(down[a], f) \in Seq(DownFrame)
  BY EnqueueLemma DEF TypeInv
<1> QED BY <1>1 DEF ApSends, TypeInv

LEMMA ApFrameIInv == \A a \in AP : IInv /\ ApFrameStep(a) => IInv'
<1> SUFFICES ASSUME NEW a \in AP, IInv, ApFrameStep(a) PROVE IInv'
  OBVIOUS
<1>1. /\ TypeInv /\ ap \in [AP -> ApState] /\ ap[a] \in ApState
      /\ ap[a].authSeqExpected \in {1, NumAuthSteps - 1}
      /\ \A b \in AP : ap[b].authSeqExpected \in {1, NumAuthSteps - 1}
  BY DEF IInv, TypeInv
<1>2. CASE ApHandleProbeRequest(a)
  <2>1. /\ ApReceives(a, "ProbeReq") /\ ApSends(a, MgmtFrame("ProbeResp")) /\ ap' = ap
        /\ MgmtFrame("ProbeResp") \in DownFrame
    BY <1>2, FrameLemma DEF ApHandleProbeRequest, FrameType
  <2>2. down' \in [AP -> Seq(DownFrame)]
    BY <1>1, <2>1, ApSendsLemma
  <2> QED BY <1>1, <2>1, <2>2, ApReceivesLemma, ElsewhereIInv DEF FrameType, TypeInv
<1>3. CASE ApAuthOutOfSeq(a)
  <2>1. /\ ApReceives(a, "Auth") /\ ApSends(a, AuthError)
        /\ AuthError \in DownFrame
        /\ ap' = [ap EXCEPT ![a] = [@ EXCEPT !.listed = TRUE, !.status = ApStatus(a),
                                             !.authSeqExpected = 1]]
    BY <1>3, FrameLemma DEF ApAuthOutOfSeq
  <2>2. down' \in [AP -> Seq(DownFrame)]
    BY <1>1, <2>1, ApSendsLemma
  <2>3. ApStatus(a) \in StaStatus
    BY <1>1 DEF ApStatus, ApState, StaStatus
  <2>4. [ap[a] EXCEPT !.listed = TRUE, !.status = ApStatus(a), !.authSeqExpected = 1] \in ApState
    BY <1>1, <2>3 DEF ApState
  <2>5. /\ ap' \in [AP -> ApState]
        /\ \A b \in AP : ap'[b].authSeqExpected \in {1, NumAuthSteps - 1}
    BY <1>1, <2>1, <2>4 DEF ApState
  <2> QED BY <1>1, <2>1, <2>2, <2>5, ApReceivesLemma, ElsewhereIInv DEF FrameType, TypeInv
<1>4. CASE ApAuthStep(a)
  <2> DEFINE n == Head(up[a]).seq
             isLast == n + 1 = NumAuthSteps
             status == IF isLast THEN "AUTHENTICATED" ELSE ApStatus(a)
             next == IF isLast THEN n ELSE n + 2
  <2>1. /\ ApReceives(a, "Auth") /\ n = ApExpected(a)
        /\ ApSends(a, AuthFrame(n + 1, isLast))
        /\ ap' = [ap EXCEPT ![a] = [@ EXCEPT !.listed = TRUE, !.status = status,
                                             !.authSeqExpected = next]]
    BY <1>4 DEF ApAuthStep
  <2>2. n \in {1, NumAuthSteps - 1}
    BY <1>1, <2>1 DEF ApExpected
  <2> HIDE DEF n
  \* An exchange of two steps ends with the first of them, one of four with the third.
  <2>3. /\ next \in {1, NumAuthSteps - 1} /\ next \in Nat
        /\ n + 1 \in 0..NumAuthSteps
        /\ ~isLast => n + 1 \in 0..(NumAuthSteps - 1)
    BY <2>2, AssociationAssumption
  <2>4. AuthFrame(n + 1, isLast) \in DownFrame
    <3>1. CASE isLast
      BY <2>3, <3>1, FrameLemma
    <3>2. CASE ~isLast
      BY <2>3, <3>2, FrameLemma
    <3> QED BY <3>1, <3>2
  <2>5. status \in StaStatus
    BY <1>1 DEF ApStatus, ApState, StaStatus
  <2> HIDE DEF status, next, isLast
  <2>6. down' \in [AP -> Seq(DownFrame)]
    BY <1>1, <2>1, <2>4, ApSendsLemma
  <2>7. [ap[a] EXCEPT !.listed = TRUE, !.status = status, !.authSeqExpected = next] \in ApState
    BY <1>1, <2>3, <2>5 DEF ApState
  <2>8. ap' \in [AP -> ApState]
    BY <1>1, <2>1, <2>7
  <2>9. \A b \in AP : ap'[b].authSeqExpected \in {1, NumAuthSteps - 1}
    BY <1>1, <2>1, <2>3 DEF ApState
  <2> QED BY <1>1, <2>1, <2>6, <2>8, <2>9, ApReceivesLemma, ElsewhereIInv DEF FrameType, TypeInv
<1>5. CASE ApAssocRefused(a)
  <2>1. /\ ApReceives(a, "AssocReq") /\ ApSends(a, MgmtFrame("Deauth")) /\ ap' = ap
        /\ MgmtFrame("Deauth") \in DownFrame
    BY <1>5, FrameLemma DEF ApAssocRefused, FrameType
  <2>2. down' \in [AP -> Seq(DownFrame)]
    BY <1>1, <2>1, ApSendsLemma
  <2> QED BY <1>1, <2>1, <2>2, ApReceivesLemma, ElsewhereIInv DEF FrameType, TypeInv
<1>6. CASE ApAssocGranted(a)
  <2>1. /\ ApReceives(a, "AssocReq") /\ ApSends(a, MgmtFrame("AssocResp"))
        /\ MgmtFrame("AssocResp") \in DownFrame
        /\ ap' = [ap EXCEPT ![a].status = "ASSOCIATED"]
    BY <1>6, FrameLemma DEF ApAssocGranted, FrameType
  <2>2. down' \in [AP -> Seq(DownFrame)]
    BY <1>1, <2>1, ApSendsLemma
  <2>3. [ap[a] EXCEPT !.status = "ASSOCIATED"] \in ApState
    BY <1>1 DEF ApState, StaStatus
  <2>4. /\ ap' \in [AP -> ApState]
        /\ \A b \in AP : ap'[b].authSeqExpected \in {1, NumAuthSteps - 1}
    BY <1>1, <2>1, <2>3 DEF ApState
  <2> QED BY <1>1, <2>1, <2>2, <2>4, ApReceivesLemma, ElsewhereIInv DEF FrameType, TypeInv
<1> QED BY <1>2, <1>3, <1>4, <1>5, <1>6
        DEF ApFrameStep, ApHandleAuthenticationFrame, ApHandleAssociationRequestFrame

LEMMA RestartIInv == \A a \in AP : IInv /\ (ApStop(a) \/ ApStart(a)) => IInv'
<1> SUFFICES ASSUME NEW a \in AP, IInv, ApStop(a) \/ ApStart(a) PROVE IInv'
  OBVIOUS
<1>1. /\ TypeInv /\ ap \in [AP -> ApState] /\ ap[a] \in ApState
      /\ \A b \in AP : ap[b].authSeqExpected \in {1, NumAuthSteps - 1}
  BY DEF IInv, TypeInv
<1>2. Quiet /\ UNCHANGED <<agentVars, gateVars, scanVars, apList, assocVars, inRange, medium>>
  BY DEF ApStop, ApStart
<1>3. \/ ap' = [ap EXCEPT ![a] = [@ EXCEPT !.listed = FALSE, !.isUp = FALSE]]
      \/ ap' = [ap EXCEPT ![a] = [@ EXCEPT !.isUp = TRUE]]
  BY <1>1 DEF ApStop, ApStart, Forgotten, ApState
<1>4. /\ [ap[a] EXCEPT !.listed = FALSE, !.isUp = FALSE] \in ApState
      /\ [ap[a] EXCEPT !.isUp = TRUE] \in ApState
  BY <1>1 DEF ApState
<1>5. /\ ap' \in [AP -> ApState]
      /\ \A b \in AP : ap'[b].authSeqExpected \in {1, NumAuthSteps - 1}
  BY <1>1, <1>3, <1>4 DEF ApState
<1> QED BY <1>1, <1>2, <1>5, ElsewhereIInv DEF scanVars, medium, TypeInv

LEMMA MediumIInv ==
    IInv /\ (Move \/ ReceptionBusy \/ \E a \in AP : OutOfReach(a) \/ Interference(a)) => IInv'
<1> SUFFICES ASSUME IInv, Move \/ ReceptionBusy \/ \E a \in AP : DropHead(a) PROVE IInv'
  BY DEF OutOfReach, Interference
<1>1. TypeInv
  BY DEF IInv
<1>2. CASE Move \/ ReceptionBusy
  BY <1>1, <1>2, ElsewhereIInv DEF Move, ReceptionBusy, TypeInv, scanVars, medium, gateVars
<1>3. ASSUME NEW a \in AP, DropHead(a) PROVE IInv'
  <2>1. up[a] # <<>> => Tail(up[a]) \in Seq(Frame)
    BY <1>1, DequeueLemma DEF TypeInv
  <2>2. down[a] # <<>> => Tail(down[a]) \in Seq(DownFrame)
    BY <1>1, DequeueLemma DEF TypeInv
  <2>3. up' \in [AP -> Seq(Frame)] /\ down' \in [AP -> Seq(DownFrame)]
    BY <1>1, <1>3, <2>1, <2>2 DEF DropHead, TypeInv
  <2> QED BY <1>1, <1>3, <2>3, ElsewhereIInv DEF DropHead, TypeInv, scanVars
<1> QED BY <1>2, <1>3

-----------------------------------------------------------------------------
(* The invariant holds *)

LEMMA NextIInv == IInv /\ [Next]_vars => IInv'
<1> SUFFICES ASSUME IInv, [Next]_vars PROVE IInv'
  OBVIOUS
<1>1. CASE AgentStep
  BY <1>1, AgentStepIInv
<1>2. CASE CommandStep
  BY <1>2, ScanCommandIInv, AuthenticateCommandIInv, AssociateCommandIInv DEF CommandStep
<1>3. CASE TimerStep \/ BeaconTimeout
  BY <1>3, TimeoutIInv, ScanTimerIInv DEF TimerStep
<1>4. CASE Move \/ ReceptionBusy \/ \E a \in AP : OutOfReach(a) \/ Interference(a)
  BY <1>4, MediumIInv
<1>5. ASSUME NEW a \in AP, HandleBeacon(a) \/ StaFrameStep(a) PROVE IInv'
  BY <1>5, BeaconIInv, ProbeResponseIInv, AuthenticationFrameIInv, DeauthenticationFrameIInv,
     AssociationResponseIInv DEF StaFrameStep
<1>6. ASSUME NEW a \in AP, ApFrameStep(a) \/ ApStop(a) \/ ApStart(a) PROVE IInv'
  BY <1>6, ApFrameIInv, RestartIInv
<1>7. CASE UNCHANGED vars
  <2>1. TypeInv'
    BY <1>7 DEF IInv, TypeInv, vars
  <2>2. Phase'
    BY <1>7 DEF IInv, vars, Phase, Starting, ScanAsked, Scanning, ScanReported, AuthAsked,
       Authenticating, AuthFailed, AuthSucceeded, AssocAsked, Associating, AssocFailed,
       AssocReported, Associated, Gates, KnownAPs, NotScanning, Fresh, NoAuthTimer,
       NoAuthRunning, NobodyAuthenticated, NotAssociated, ScanConfirm
  <2> QED BY <2>1, <2>2 DEF IInv
<1> QED BY <1>1, <1>2, <1>3, <1>4, <1>5, <1>6, <1>7 DEF Next

\* The station is always in one of the phases.
LEMMA Invariance == Spec => []IInv
<1>1. Init => IInv
  BY InitIInv
<1>2. IInv /\ [Next]_vars => IInv'
  BY NextIInv
<1> QED BY <1>1, <1>2, PTL DEF Spec

-----------------------------------------------------------------------------
(* What follows from it *)

\* Type correctness; above all, a gate never holds two messages.
THEOREM TypeCorrect == Spec => []TypeOK
<1>1. ASSUME IInv PROVE TypeOK
  <2>1. /\ ScanRequest \in Command
        /\ \A a \in AP : AuthenticateRequest(a) \in Command /\ AssociateRequest(a) \in Command
    BY DEF Command, ScanRequest, AuthenticateRequest, AssociateRequest
  <2>2. /\ ScanConfirm(KnownAPs) \in Confirm
        /\ \A ok \in BOOLEAN : AssociateConfirm(ok) \in Confirm
        /\ \A a \in AP, ok \in BOOLEAN : AuthenticateConfirm(a, ok) \in Confirm
    BY DEF Confirm, ScanConfirm, AssociateConfirm, AuthenticateConfirm, KnownAPs
  <2>3. /\ toMgmt \in {<<>>} \cup {<<c>> : c \in Command}
        /\ toAgent \in {<<>>} \cup {<<c>> : c \in Confirm}
    BY <1>1, <2>1, <2>2 DEF IInv, Phase, Starting, ScanAsked, Scanning, ScanReported, AuthAsked,
       Authenticating, AuthFailed, AuthSucceeded, AssocAsked, Associating, AssocFailed,
       AssocReported, Associated, Gates
  <2>4. down \in [AP -> Seq(Frame)]
    <3>1. DownFrame \subseteq Frame
      BY DEF DownFrame
    <3>2. Seq(DownFrame) \subseteq Seq(Frame)
      BY <3>1, SeqMonotonic
    <3> QED BY <1>1, <3>2 DEF IInv, TypeInv
  <2> QED BY <1>1, <2>3, <2>4 DEF IInv, TypeInv, TypeOK
<1> QED BY <1>1, Invariance, PTL

\* No command of the agent makes the management entity throw: not while it scans, for
\* an unknown access point, for one it is or is not yet authenticated with, or while it
\* is associated or waits for an answer.
THEOREM CommandsAreAccepted == Spec => []CommandAccepted
<1>1. ASSUME IInv, toMgmt # <<>>
      PROVE  LET c == Head(toMgmt)
             IN  /\ c.type = "Scan" => ~ScanThrows
                 /\ c.type = "Authenticate" => ~AuthenticateThrows(c.ap)
                 /\ c.type = "Associate" => ~AssociateThrows(c.ap)
  <2>1. Head(toMgmt).type = "Scan" => ~ScanThrows
    BY <1>1, CommandPhase DEF ScanAsked, NotScanning, ScanThrows
  <2>2. ASSUME Head(toMgmt).type = "Authenticate" PROVE ~AuthenticateThrows(Head(toMgmt).ap)
    <3>1. AuthAsked
      BY <1>1, <2>2, CommandPhase
    <3>2. PICK a \in AP : apList[a].known /\ Gates(<<AuthenticateRequest(a)>>, <<>>)
      BY <3>1 DEF AuthAsked
    <3>3. Head(toMgmt).ap = a
      BY <3>2, GateLemma DEF Gates, AuthenticateRequest
    <3> QED BY <3>1, <3>2, <3>3 DEF AuthenticateThrows, AuthAsked, Fresh, NoAuthTimer,
               NobodyAuthenticated
  <2>3. ASSUME Head(toMgmt).type = "Associate" PROVE ~AssociateThrows(Head(toMgmt).ap)
    <3>1. AssocAsked
      BY <1>1, <2>3, CommandPhase
    <3>2. PICK a \in AP : /\ apList[a].known /\ apList[a].isAuthenticated
                          /\ Gates(<<AssociateRequest(a)>>, <<>>)
      BY <3>1 DEF AssocAsked
    <3>3. Head(toMgmt).ap = a
      BY <3>2, GateLemma DEF Gates, AssociateRequest
    <3> QED BY <3>1, <3>2, <3>3 DEF AssociateThrows, AssocAsked, NotAssociated
  <2> QED BY <2>1, <2>2, <2>3
<1>2. IInv => CommandAccepted
  BY <1>1 DEF CommandAccepted
<1> QED BY <1>2, Invariance, PTL

\* The applications are told what the MIB holds: never an association that is not
\* there, and once the messages of an instant are processed, the very state of it.
THEOREM SignalIsTruthful == Spec => []SignalAgreesWithMib
<1>1. ASSUME IInv PROVE SignalAgreesWithMib
  <2>1. signal => isAssociated
    BY <1>1 DEF IInv, Phase, Starting, ScanAsked, Scanning, ScanReported, AuthAsked,
       Authenticating, AuthFailed, AuthSucceeded, AssocAsked, Associating, AssocFailed,
       AssocReported, Associated, Fresh, NotAssociated
  <2>2. ASSUME Quiet PROVE signal = isAssociated
    <3>1. Starting \/ Scanning \/ Authenticating \/ Associating \/ Associated
      BY <1>1, <2>2, QuietPhase
    <3>2. (signal /\ isAssociated) \/ (~signal /\ ~isAssociated)
      BY <3>1 DEF Starting, Scanning, Authenticating, Associating, Associated, Fresh, NotAssociated
    <3>3. signal \in BOOLEAN /\ isAssociated \in BOOLEAN
      BY <1>1 DEF IInv, TypeInv
    <3> QED BY <3>2, <3>3
  <2> QED BY <2>1, <2>2 DEF SignalAgreesWithMib
<1> QED BY <1>1, Invariance, PTL

\* Nothing but the loss of beacons ends an association or moves it elsewhere.
THEOREM AssociationEndsByBeaconLoss == Spec => EndsByBeaconLoss
<1> DEFINE Ends == isAssociated /\ (~isAssociated' \/ assocAP' # assocAP)
           Step == Ends => beaconTimer = "fired" /\ ~signal
<1>1. ASSUME IInv, [Next]_vars PROVE [Step]_vars
  <2>1. CASE ProcessScanCommand
    <3>1. ScanAsked
      BY <1>1, <2>1, CommandPhase DEF ProcessScanCommand, MgmtReceives
    <3> QED BY <3>1 DEF ScanAsked
  <2>2. ASSUME NEW a \in AP, AssocRespAccepted(a) PROVE ~isAssociated
    BY <1>1, <2>2, QuietPhase DEF AssocRespAccepted, AssocPending, StaReceives, Starting, Scanning,
       Authenticating, Associating, Associated, Fresh, NotAssociated
  <2>3. CASE UNCHANGED <<isAssociated, assocAP>>
    BY <2>3
  <2>4. AgentStep => UNCHANGED <<isAssociated, assocAP>>
    BY DEF AgentStep, StartUp, ProcessScanConfirm, ProcessAuthenticateConfirm,
       ProcessAssociateConfirm, AssociateFailed, AssociateSucceeded, AgentReceives, assocVars
  <2>5. ProcessAuthenticateCommand \/ ProcessAssociateCommand => UNCHANGED <<isAssociated, assocAP>>
    BY DEF ProcessAuthenticateCommand, ProcessAssociateCommand, assocVars
  <2>6. TimerStep \/ BeaconTimeout \/ ReceptionBusy \/ Move => UNCHANGED <<isAssociated, assocAP>>
    BY DEF TimerStep, AssocTimeout, SendProbe, MinChannelTimeBusy, ChannelTimeOver, AuthTimeout,
       BeaconTimeout, ReceptionBusy, Move, assocVars
  <2>7. \A a \in AP : HandleBeacon(a) \/ HandleProbeResponse(a) \/ HandleAuthenticationFrame(a)
                      \/ HandleDeauthenticationFrame(a) \/ AssocRespIgnored(a)
                      => UNCHANGED <<isAssociated, assocAP>>
    BY DEF HandleBeacon, HandleProbeResponse, HandleAuthenticationFrame, AuthFrameIgnored,
       AuthFrameOutOfSeq, AuthFrameContinues, AuthFrameCompletes, HandleDeauthenticationFrame,
       AssocRespIgnored, assocVars
  <2>8. \A a \in AP : ApFrameStep(a) \/ ApStop(a) \/ ApStart(a) \/ OutOfReach(a) \/ Interference(a)
                      => UNCHANGED <<isAssociated, assocAP>>
    BY DEF ApFrameStep, ApHandleProbeRequest, ApHandleAuthenticationFrame, ApAuthOutOfSeq,
       ApAuthStep, ApHandleAssociationRequestFrame, ApAssocRefused, ApAssocGranted, ApReceives,
       ApStop, ApStart, OutOfReach, Interference, DropHead, assocVars
  <2> QED BY <1>1, <2>1, <2>2, <2>3, <2>4, <2>5, <2>6, <2>7, <2>8
          DEF Next, CommandStep, StaFrameStep, HandleAssociationResponseFrame, vars
<1> QED BY <1>1, Invariance, PTL DEF Spec, EndsByBeaconLoss

\* Exactly one thing keeps the station going: it never stops looking for an access
\* point, and never pursues two requests at a time.
THEOREM OneDriverAtATime == Spec => []OneDriver
<1>1. ASSUME IInv PROVE OneDriver
  <2> DEFINE N == Cardinality(AuthRunning)
  <2>1. Bit(TRUE) = 1 /\ Bit(FALSE) = 0
    BY DEF Bit
  <2>2. Len(<<>>) = 0 /\ \A x : Len(<<x>>) = 1
    OBVIOUS
  <2>3. NoAuthRunning => N = 0
    <3>1. NoAuthRunning => AuthRunning = {}
      BY DEF NoAuthRunning, AuthRunning
    <3> QED BY <3>1, FS_EmptySet
  <2>4. NoAuthTimer => NoAuthRunning
    BY DEF NoAuthTimer, NoAuthRunning
  <2>5. Authenticating => N = 1
    <3> SUFFICES ASSUME Authenticating PROVE N = 1
      OBVIOUS
    <3>1. PICK a \in AP : /\ apList[a].authTimer = "running"
                          /\ \A b \in AP : b # a => apList[b].authTimer = "none"
      BY DEF Authenticating
    <3>2. AuthRunning = {a}
      BY <3>1 DEF AuthRunning
    <3> QED BY <3>2, FS_Singleton
  <2>6. isScanning = (scanTimer # "none")
    <3>1. isScanning \in BOOLEAN
      BY <1>1 DEF IInv, TypeInv
    <3>2. (isScanning /\ scanTimer # "none") \/ (~isScanning /\ scanTimer = "none")
      BY <1>1 DEF IInv, Phase, Starting, ScanAsked, Scanning, ScanReported, AuthAsked,
         Authenticating, AuthFailed, AuthSucceeded, AssocAsked, Associating, AssocFailed,
         AssocReported, Associated, NotScanning
    <3> QED BY <3>1, <3>2
  <2> HIDE DEF N
  <2> DEFINE Sum == Bit(startUp) + Len(toMgmt) + Len(toAgent) + Bit(isScanning) + N
                      + Bit(assocTimer = "running") + Bit(Quiet /\ beaconTimer = "running")
  <2> USE <2>1, <2>2 DEF Gates, NotScanning, Fresh, NotAssociated, Quiet, Bit
  <2>7. Starting => Sum = 1
    BY <2>3, <2>4 DEF Starting
  <2>8. ScanAsked => Sum = 1
    BY <2>3 DEF ScanAsked
  <2>9. Scanning => Sum = 1
    BY <2>3, <2>4 DEF Scanning
  <2>10. ScanReported => Sum = 1
    BY <2>3, <2>4 DEF ScanReported
  <2>11. AuthAsked => Sum = 1
    BY <2>3, <2>4 DEF AuthAsked
  <2>12. Authenticating => Sum = 1
    BY <2>5 DEF Authenticating
  <2>13. AuthFailed => Sum = 1
    BY <2>3 DEF AuthFailed
  <2>14. AuthSucceeded => Sum = 1
    BY <2>3, <2>4 DEF AuthSucceeded
  <2>15. AssocAsked => Sum = 1
    BY <2>3, <2>4 DEF AssocAsked
  <2>16. Associating => Sum = 1
    BY <2>3, <2>4 DEF Associating
  <2>17. AssocFailed => Sum = 1
    BY <2>3, <2>4 DEF AssocFailed
  <2>18. AssocReported => Sum = 1
    BY <2>3, <2>4 DEF AssocReported
  <2>19. Associated => Sum = 1
    BY <2>3, <2>4 DEF Associated
  <2>20. Sum = 1
    BY <1>1, <2>7, <2>8, <2>9, <2>10, <2>11, <2>12, <2>13, <2>14,
       <2>15, <2>16, <2>17, <2>18, <2>19 DEF IInv, Phase
  <2> QED BY <2>6, <2>20 DEF OneDriver, N
<1> QED BY <1>1, Invariance, PTL
=============================================================================
