------------------------ MODULE Ieee80211Association ------------------------
(***************************************************************************)
(* How the bus joins a WiFi access point: the station's agent              *)
(* (Ieee80211AgentSta), its management entity (Ieee80211MgmtSta), the      *)
(* management entity of every access point (Ieee80211MgmtAp) and the radio *)
(* between them.                                                           *)
(*                                                                         *)
(* Agent and management entity exchange commands and confirms over         *)
(* zero-delay gates (toMgmt, toAgent).  A timer or a frame never overtakes *)
(* such a message: the timers of an instant were scheduled long before it, *)
(* and a received frame crosses radio and MAC, more hops than the confirm  *)
(* and the command it provokes.  Quiet is that run-to-completion rule.     *)
(*                                                                         *)
(* A definition that stands before a similar one and is used nowhere is a  *)
(* faulty variant of it, which the mutation runs put in its place.         *)
(***************************************************************************)
EXTENDS Naturals, Sequences, FiniteSets

CONSTANTS
    AP,            \* the access points
    NoAP,          \* the unspecified MAC address
    ChannelList,   \* channelsToScan of the agent
    ApChannel,     \* the radio channel of each access point
    DefaultSsidAP, \* the access points that announce the agent's defaultSsid
    NumAuthSteps,  \* numAuthSteps of the access points, 2 or 4
    ActiveScan,    \* activeScan of the agent
    QueueCapacity, \* frames the MAC queue between the station and one AP holds
    Timely,        \* no timer outruns a frame that is still under way
    Restartable,   \* the access points a lifecycle operation may stop and start
    Moves          \* the sets of access points that may come into radio range

ASSUME AssociationAssumption ==
    /\ NoAP \notin AP
    /\ ChannelList \in Seq(Nat) /\ ChannelList # <<>>
    /\ ApChannel \in [AP -> Nat]
    /\ DefaultSsidAP \subseteq AP
    /\ NumAuthSteps \in {2, 4}
    /\ ActiveScan \in BOOLEAN /\ Timely \in BOOLEAN
    /\ QueueCapacity \in Nat \ {0}
    /\ Restartable \subseteq AP
    /\ Moves \subseteq SUBSET AP

VARIABLES
    \* Ieee80211AgentSta
    startUp,         \* the startUp self message is scheduled
    prevAP,          \* address of the AP of the last association confirm
    signal,          \* last value emitted on stateAssociationSignal
    \* the gates between agent and management entity
    toMgmt, toAgent,
    \* Ieee80211MgmtSta and the station's part of the MIB
    isScanning,
    scanTimer,       \* the scan self message that is scheduled, or "none"
    channelIndex, busyChannelDetected,
    tuned,           \* the channel the radio was told to use
    apList,          \* what is known of each access point
    assocTimer,      \* assocTimeoutMsg
    isAssociated, assocAP,
    beaconTimer,     \* assocAP.beaconTimeoutMsg
    \* Ieee80211MgmtAp and the access points' part of the MIB
    ap,
    \* the medium
    inRange, up, down

agentVars == <<startUp, prevAP, signal>>
gateVars  == <<toMgmt, toAgent>>
scanVars  == <<isScanning, scanTimer, channelIndex, busyChannelDetected, tuned>>
assocVars == <<assocTimer, isAssociated, assocAP, beaconTimer>>
medium    == <<up, down>>
vars == <<startUp, prevAP, signal, toMgmt, toAgent, isScanning, scanTimer,
          channelIndex, busyChannelDetected, tuned, apList, assocTimer,
          isAssociated, assocAP, beaconTimer, ap, inRange, up, down>>

-----------------------------------------------------------------------------
(* Frames, commands and confirms *)

FrameType == {"ProbeReq", "ProbeResp", "Auth", "Deauth", "AssocReq", "AssocResp"}
Frame == [type : FrameType, seq : 0..NumAuthSteps, ok : BOOLEAN, last : BOOLEAN]

MgmtFrame(t) == [type |-> t, seq |-> 0, ok |-> TRUE, last |-> FALSE]
AuthFrame(n, last) == [type |-> "Auth", seq |-> n, ok |-> TRUE, last |-> last]
\* The error frame leaves its sequence number at the default, 0.
AuthError == [type |-> "Auth", seq |-> 0, ok |-> FALSE, last |-> FALSE]

Command == [type : {"Scan", "Authenticate", "Associate"}, ap : AP \cup {NoAP}]
ScanRequest == [type |-> "Scan", ap |-> NoAP]
AuthenticateRequest(a) == [type |-> "Authenticate", ap |-> a]
AssociateRequest(a) == [type |-> "Associate", ap |-> a]

Confirm == [type : {"Scan", "Authenticate", "Associate"}, aps : SUBSET AP,
            ap : AP \cup {NoAP}, ok : BOOLEAN]
ScanConfirm(A) == [type |-> "Scan", aps |-> A, ap |-> NoAP, ok |-> TRUE]
AuthenticateConfirm(a, ok) == [type |-> "Authenticate", aps |-> {}, ap |-> a, ok |-> ok]
AssociateConfirmAddressed(ok) ==
    [type |-> "Associate", aps |-> {}, ap |-> IF ok THEN assocAP' ELSE NoAP, ok |-> ok]
\* sendAssociationConfirm does not fill in the address.
AssociateConfirm(ok) == [type |-> "Associate", aps |-> {}, ap |-> NoAP, ok |-> ok]

\* A self message: absent, scheduled, or delivered and kept in its pointer.
Timer == {"none", "running", "fired"}

ApInfo == [known : BOOLEAN, isAuthenticated : BOOLEAN,
           authSeqExpected : Nat, authTimer : Timer]
UnknownAP == [known |-> FALSE, isAuthenticated |-> FALSE,
              authSeqExpected |-> 0, authTimer |-> "none"]

StaStatus == {"NOT_AUTHENTICATED", "AUTHENTICATED", "ASSOCIATED"}
\* operating, the station has an entry in staList, its authSeqExpected, its
\* status in the MIB (absent from the map counts as not authenticated)
ApState == [isUp : BOOLEAN, listed : BOOLEAN, authSeqExpected : Nat, status : StaStatus]

-----------------------------------------------------------------------------
(* The medium *)

\* The MAC queue drops the frame that finds it full.
Enqueue(q, f) == IF Len(q) < QueueCapacity THEN Append(q, f) ELSE q

Reachable(a) == a \in inRange /\ ap[a].isUp /\ tuned = ApChannel[a]
Silent(a) == up[a] = <<>> /\ down[a] = <<>>
Quiet == toMgmt = <<>> /\ toAgent = <<>>
\* With Timely, a timeout is longer than the delay of any frame.
MayExpire == Timely => \A a \in AP : Silent(a)

Init ==
    /\ startUp = TRUE /\ prevAP = NoAP /\ signal = FALSE
    /\ toMgmt = <<>> /\ toAgent = <<>>
    /\ isScanning = FALSE /\ scanTimer = "none"
    /\ channelIndex = 0 /\ busyChannelDetected = FALSE
    /\ tuned = ChannelList[1]
    /\ apList = [a \in AP |-> UnknownAP]
    /\ assocTimer = "none" /\ isAssociated = FALSE /\ assocAP = NoAP
    /\ beaconTimer = "none"
    /\ ap = [a \in AP |-> [isUp |-> TRUE, listed |-> FALSE, authSeqExpected |-> 1,
                           status |-> "NOT_AUTHENTICATED"]]
    /\ inRange \in Moves
    /\ up = [a \in AP |-> <<>>] /\ down = [a \in AP |-> <<>>]

-----------------------------------------------------------------------------
(* Ieee80211AgentSta *)

StartUp ==
    /\ startUp
    /\ startUp' = FALSE
    /\ toMgmt' = Append(toMgmt, ScanRequest)
    /\ UNCHANGED <<prevAP, signal, toAgent, scanVars, apList, assocVars, ap, inRange, medium>>

AgentReceivesTwice(t) ==
    /\ toAgent # <<>>
    /\ Head(toAgent).type = t
    /\ UNCHANGED <<toAgent, startUp, scanVars, apList, assocVars, ap, inRange, medium>>

AgentReceives(t) ==
    /\ toAgent # <<>>
    /\ Head(toAgent).type = t
    /\ toAgent' = Tail(toAgent)
    /\ UNCHANGED <<startUp, scanVars, apList, assocVars, ap, inRange, medium>>

\* The first BSS of the list with the default SSID; the list is in the order
\* in which the access points answered, which the model leaves open.
ProcessScanConfirm ==
    LET suitable == Head(toAgent).aps \cap DefaultSsidAP
    IN  /\ AgentReceives("Scan")
        /\ \/ /\ suitable = {}
              /\ toMgmt' = Append(toMgmt, ScanRequest)
           \/ \E a \in suitable : toMgmt' = Append(toMgmt, AuthenticateRequest(a))
        /\ UNCHANGED <<prevAP, signal>>

ProcessAuthenticateConfirm ==
    /\ AgentReceives("Authenticate")
    /\ toMgmt' = Append(toMgmt, IF Head(toAgent).ok
                                THEN AssociateRequest(Head(toAgent).ap)
                                ELSE ScanRequest)
    /\ UNCHANGED <<prevAP, signal>>

AssociateFailed ==
    /\ AgentReceives("Associate")
    /\ ~Head(toAgent).ok
    /\ toMgmt' = Append(toMgmt, ScanRequest)
    /\ UNCHANGED <<prevAP, signal>>

\* The association is announced only when the AP differs from the previous one.
AssociateSucceeded ==
    LET c == Head(toAgent)
        newAP == prevAP = NoAP \/ prevAP # c.ap
    IN  /\ AgentReceives("Associate")
        /\ c.ok
        /\ signal' = (newAP \/ signal)
        /\ prevAP' = IF newAP THEN c.ap ELSE prevAP
        /\ UNCHANGED toMgmt

ProcessAssociateConfirm == AssociateFailed \/ AssociateSucceeded

\* receiveSignal: the management entity reports, in the same call, that the
\* beacons were lost.
HearsBeaconLostSilently == toMgmt' = Append(toMgmt, ScanRequest) /\ UNCHANGED signal
HearsBeaconLost == toMgmt' = Append(toMgmt, ScanRequest) /\ signal' = FALSE

-----------------------------------------------------------------------------
(* Ieee80211MgmtSta: commands of the agent *)

KnownAPs == {a \in AP : apList[a].known}

\* scanNextChannel: the next channel of the list, or the end of the scan.
ScanNextChannel(from) ==
    IF from = Len(ChannelList)
    THEN /\ isScanning' = FALSE
         /\ scanTimer' = "none"
         /\ toAgent' = Append(toAgent, ScanConfirm(KnownAPs))
         /\ UNCHANGED <<channelIndex, busyChannelDetected, tuned>>
    ELSE /\ isScanning' = TRUE
         /\ scanTimer' = IF ActiveScan THEN "probeDelay" ELSE "maxChannelTime"
         /\ channelIndex' = from + 1
         /\ tuned' = ChannelList[from + 1]
         /\ busyChannelDetected' = FALSE
         /\ UNCHANGED toAgent

\* The conditions under which processing the command throws a runtime error.
ScanThrows == isScanning
AuthenticateThrows(a) ==
    \/ ~apList[a].known
    \/ apList[a].authTimer # "none"
    \/ apList[a].isAuthenticated
AssociateThrows(a) ==
    \/ ~apList[a].known
    \/ isAssociated \/ assocTimer # "none"
    \/ ~apList[a].isAuthenticated

MgmtReceives(t) ==
    /\ toMgmt # <<>>
    /\ Head(toMgmt).type = t
    /\ toMgmt' = Tail(toMgmt)
    /\ UNCHANGED <<agentVars, ap, inRange, down>>

\* clearAPList cancels the authentication timers as well.
TimersCancelled == [a \in AP |-> [apList[a] EXCEPT !.authTimer = "none"]]
ClearedAPList == [a \in AP |-> UnknownAP]

\* A pending association is cancelled, unless there is one to disassociate from.
AssocTimerKept == assocTimer
CancelledAssocTimer == IF isAssociated THEN assocTimer ELSE "none"

ProcessScanCommandStaysAssociated ==
    /\ MgmtReceives("Scan")
    /\ ~ScanThrows
    /\ apList' = ClearedAPList
    /\ ScanNextChannel(0)
    /\ UNCHANGED <<up, assocVars>>

ProcessScanCommand ==
    /\ MgmtReceives("Scan")
    /\ ~ScanThrows
    /\ isAssociated' = FALSE
    /\ assocAP' = IF isAssociated THEN NoAP ELSE assocAP
    /\ beaconTimer' = IF isAssociated THEN "none" ELSE beaconTimer
    /\ assocTimer' = CancelledAssocTimer
    /\ apList' = ClearedAPList
    /\ ScanNextChannel(0)
    /\ UNCHANGED up

ProcessAuthenticateCommand ==
    LET a == Head(toMgmt).ap
    IN  /\ MgmtReceives("Authenticate")
        /\ ~AuthenticateThrows(a)
        /\ tuned' = ApChannel[a]
        /\ up' = [up EXCEPT ![a] = Enqueue(@, AuthFrame(1, FALSE))]
        /\ apList' = [apList EXCEPT ![a].authSeqExpected = 2, ![a].authTimer = "running"]
        /\ UNCHANGED <<toAgent, isScanning, scanTimer, channelIndex,
                       busyChannelDetected, assocVars>>

ProcessAssociateCommand ==
    LET a == Head(toMgmt).ap
    IN  /\ MgmtReceives("Associate")
        /\ ~AssociateThrows(a)
        /\ tuned' = ApChannel[a]
        /\ up' = [up EXCEPT ![a] = Enqueue(@, MgmtFrame("AssocReq"))]
        /\ assocTimer' = "running"
        /\ UNCHANGED <<toAgent, isScanning, scanTimer, channelIndex, busyChannelDetected,
                       apList, isAssociated, assocAP, beaconTimer>>

-----------------------------------------------------------------------------
(* Ieee80211MgmtSta: timers *)

TimerFires == Quiet /\ UNCHANGED <<startUp, prevAP, ap, inRange, down>>

AuthTimeout(a) ==
    /\ TimerFires
    /\ apList[a].authTimer = "running" /\ MayExpire
    /\ apList' = [apList EXCEPT ![a].authTimer = "fired"]
    /\ toAgent' = Append(toAgent, AuthenticateConfirm(a, FALSE))
    /\ UNCHANGED <<signal, toMgmt, scanVars, assocVars, up>>

AssocTimeout ==
    /\ TimerFires
    /\ assocTimer = "running" /\ MayExpire
    /\ assocTimer' = "fired"
    /\ toAgent' = Append(toAgent, AssociateConfirm(FALSE))
    /\ UNCHANGED <<signal, toMgmt, scanVars, apList, isAssociated, assocAP, beaconTimer, up>>

\* The probe request is broadcast on the channel the radio is tuned to.
SendProbe ==
    /\ TimerFires
    /\ scanTimer = "probeDelay"
    /\ up' = [a \in AP |-> IF Reachable(a) THEN Enqueue(up[a], MgmtFrame("ProbeReq"))
                                           ELSE up[a]]
    /\ scanTimer' = "minChannelTime"
    /\ UNCHANGED <<signal, gateVars, isScanning, channelIndex, busyChannelDetected,
                   tuned, apList, assocVars>>

MinChannelTimeBusy ==
    /\ TimerFires
    /\ scanTimer = "minChannelTime" /\ busyChannelDetected
    /\ scanTimer' = "maxChannelTime"
    /\ UNCHANGED <<signal, gateVars, isScanning, channelIndex, busyChannelDetected,
                   tuned, apList, assocVars, up>>

\* minChannelTime on an empty channel, or maxChannelTime.
ChannelTimeOver ==
    /\ TimerFires
    /\ \/ scanTimer = "minChannelTime" /\ ~busyChannelDetected
       \/ scanTimer = "maxChannelTime"
    /\ MayExpire
    /\ ScanNextChannel(channelIndex)
    /\ UNCHANGED <<signal, toMgmt, apList, assocVars, up>>

\* Beacons are lost out of reach of the access point, and by interference.
BeaconTimeout ==
    /\ TimerFires
    /\ beaconTimer = "running"
    /\ beaconTimer' = "fired"
    /\ HearsBeaconLost
    /\ UNCHANGED <<toAgent, scanVars, apList, assocTimer, isAssociated, assocAP, up>>

\* receptionStateChangedSignal, subscribed to during an active scan only.
ReceptionBusy ==
    /\ Quiet
    /\ isScanning /\ ActiveScan /\ ~busyChannelDetected
    /\ busyChannelDetected' = TRUE
    /\ UNCHANGED <<agentVars, gateVars, isScanning, scanTimer, channelIndex, tuned,
                   apList, assocVars, ap, inRange, medium>>

-----------------------------------------------------------------------------
(* Ieee80211MgmtSta: frames *)

StaReceives(a, t) ==
    /\ Quiet
    /\ Reachable(a)
    /\ down[a] # <<>> /\ Head(down[a]).type = t
    /\ down' = [down EXCEPT ![a] = Tail(@)]
    /\ UNCHANGED <<agentVars, toMgmt, scanVars, ap, inRange>>

\* storeAPInfo leaves the authentication state of a known AP alone.
StoreAPInfo(a) == apList' = [apList EXCEPT ![a].known = TRUE]

\* A beacon of the associated AP also restarts the beacon timer.
HandleBeacon(a) ==
    /\ Quiet
    /\ Reachable(a)
    /\ StoreAPInfo(a)
    /\ beaconTimer' = IF isAssociated /\ a = assocAP THEN "running" ELSE beaconTimer
    /\ UNCHANGED <<agentVars, gateVars, scanVars, assocTimer, isAssociated, assocAP,
                   ap, inRange, medium>>

HandleProbeResponse(a) ==
    /\ StaReceives(a, "ProbeResp")
    /\ StoreAPInfo(a)
    /\ UNCHANGED <<toAgent, assocVars, up>>

AuthInProgress(a) ==
    apList[a].known /\ ~apList[a].isAuthenticated /\ apList[a].authTimer # "none"

AuthFrameIgnored(a) ==
    /\ StaReceives(a, "Auth")
    /\ ~AuthInProgress(a)
    /\ UNCHANGED <<toAgent, apList, assocVars, up>>

AuthFrameOutOfSeqSilent(a) ==
    /\ StaReceives(a, "Auth")
    /\ AuthInProgress(a)
    /\ Head(down[a]).seq # apList[a].authSeqExpected
    /\ up' = [up EXCEPT ![a] = Enqueue(@, AuthError)]
    /\ apList' = [apList EXCEPT ![a].authTimer = "none"]
    /\ UNCHANGED <<toAgent, assocVars>>

AuthFrameOutOfSeq(a) ==
    /\ StaReceives(a, "Auth")
    /\ AuthInProgress(a)
    /\ Head(down[a]).seq # apList[a].authSeqExpected
    /\ up' = [up EXCEPT ![a] = Enqueue(@, AuthError)]
    /\ apList' = [apList EXCEPT ![a].authTimer = "none"]
    /\ toAgent' = Append(toAgent, AuthenticateConfirm(a, FALSE))
    /\ UNCHANGED assocVars

NextByOne(a) == apList[a].authSeqExpected + 1
NextFromAP(a) == apList[a].authSeqExpected + 2

AuthFrameContinues(a) ==
    LET f == Head(down[a])
    IN  /\ StaReceives(a, "Auth")
        /\ AuthInProgress(a)
        /\ f.seq = apList[a].authSeqExpected
        /\ f.ok /\ ~f.last
        /\ up' = [up EXCEPT ![a] = Enqueue(@, AuthFrame(f.seq + 1, FALSE))]
        /\ apList' = [apList EXCEPT ![a].authSeqExpected = NextFromAP(a)]
        /\ UNCHANGED <<toAgent, assocVars>>

AuthFrameCompletes(a) ==
    LET f == Head(down[a])
    IN  /\ StaReceives(a, "Auth")
        /\ AuthInProgress(a)
        /\ f.seq = apList[a].authSeqExpected
        /\ f.last \/ ~f.ok
        /\ apList' = [apList EXCEPT ![a].isAuthenticated = f.ok, ![a].authTimer = "none"]
        /\ toAgent' = Append(toAgent, AuthenticateConfirm(a, f.ok))
        /\ UNCHANGED <<assocVars, up>>

HandleAuthenticationFrame(a) ==
    \/ AuthFrameIgnored(a)
    \/ AuthFrameOutOfSeq(a)
    \/ AuthFrameContinues(a)
    \/ AuthFrameCompletes(a)

\* An authentication still in progress survives, as the code cancels its timer
\* only if the station is authenticated already.
HandleDeauthenticationFrame(a) ==
    LET info == apList[a]
    IN  /\ StaReceives(a, "Deauth")
        /\ apList' = IF ~info.known \/ ~info.isAuthenticated THEN apList
                     ELSE IF info.authTimer # "none"
                     THEN [apList EXCEPT ![a].authTimer = "none"]
                     ELSE [apList EXCEPT ![a].isAuthenticated = FALSE]
        /\ UNCHANGED <<toAgent, assocVars, up>>

AlwaysPending == TRUE
AssocPending == assocTimer # "none"

AssocRespIgnored(a) ==
    /\ StaReceives(a, "AssocResp")
    /\ ~AssocPending
    /\ UNCHANGED <<toAgent, apList, assocVars, up>>

\* The response is taken from whichever known AP sent it; from an unknown one
\* it throws.
AssocResponseThrows(a) == AssocPending /\ ~apList[a].known

AssocRespAccepted(a) ==
    LET ok == Head(down[a]).ok
    IN  /\ StaReceives(a, "AssocResp")
        /\ AssocPending /\ ~AssocResponseThrows(a)
        /\ assocTimer' = "none"
        /\ isAssociated' = ok
        /\ assocAP' = IF ok THEN a ELSE IF isAssociated THEN NoAP ELSE assocAP
        /\ beaconTimer' = IF ok THEN "running"
                          ELSE IF isAssociated THEN "none" ELSE beaconTimer
        /\ toAgent' = Append(toAgent, AssociateConfirm(ok))
        /\ UNCHANGED <<apList, up>>

HandleAssociationResponseFrame(a) == AssocRespIgnored(a) \/ AssocRespAccepted(a)

-----------------------------------------------------------------------------
(* Ieee80211MgmtAp *)

ApReceives(a, t) ==
    /\ Quiet
    /\ Reachable(a)
    /\ up[a] # <<>> /\ Head(up[a]).type = t
    /\ up' = [up EXCEPT ![a] = Tail(@)]
    /\ UNCHANGED <<agentVars, gateVars, scanVars, apList, assocVars, inRange>>

ApSends(a, f) == down' = [down EXCEPT ![a] = Enqueue(@, f)]

ApHandleProbeRequest(a) ==
    /\ ApReceives(a, "ProbeReq")
    /\ ApSends(a, MgmtFrame("ProbeResp"))
    /\ UNCHANGED ap

\* A station that is new to staList or sends the first frame of a sequence is
\* put back to the start; then the sequence number is checked.
ApFreshIfNew(a) == ~ap[a].listed
ApFresh(a) == Head(up[a]).seq = 1 \/ ~ap[a].listed
ApExpected(a) == IF ApFresh(a) THEN 1 ELSE ap[a].authSeqExpected
ApStatus(a) == IF ApFresh(a) THEN "NOT_AUTHENTICATED" ELSE ap[a].status

ApAuthOutOfSeq(a) ==
    /\ ApReceives(a, "Auth")
    /\ Head(up[a]).seq # ApExpected(a)
    /\ ap' = [ap EXCEPT ![a] = [@ EXCEPT !.listed = TRUE, !.status = ApStatus(a),
                                         !.authSeqExpected = 1]]
    /\ ApSends(a, AuthError)

ApAuthStep(a) ==
    LET n == Head(up[a]).seq
        isLast == n + 1 = NumAuthSteps
    IN  /\ ApReceives(a, "Auth")
        /\ n = ApExpected(a)
        /\ ap' = [ap EXCEPT ![a] =
                    [@ EXCEPT !.listed = TRUE,
                              !.status = IF isLast THEN "AUTHENTICATED" ELSE ApStatus(a),
                              !.authSeqExpected = IF isLast THEN n ELSE n + 2]]
        /\ ApSends(a, AuthFrame(n + 1, isLast))

ApHandleAuthenticationFrame(a) == ApAuthOutOfSeq(a) \/ ApAuthStep(a)

ApAssocRefused(a) ==
    /\ ApReceives(a, "AssocReq")
    /\ ~ap[a].listed \/ ap[a].status = "NOT_AUTHENTICATED"
    /\ ApSends(a, MgmtFrame("Deauth"))
    /\ UNCHANGED ap

ApAssocGranted(a) ==
    /\ ApReceives(a, "AssocReq")
    /\ ap[a].listed /\ ap[a].status # "NOT_AUTHENTICATED"
    /\ ap' = [ap EXCEPT ![a].status = "ASSOCIATED"]
    /\ ApSends(a, MgmtFrame("AssocResp"))

ApHandleAssociationRequestFrame(a) == ApAssocRefused(a) \/ ApAssocGranted(a)

\* stop() clears staList but not the stations of the MIB, which the MAC goes
\* on using after start().
ForgottenWithMib(s) == [s EXCEPT !.listed = FALSE, !.status = "NOT_AUTHENTICATED"]
Forgotten(s) == [s EXCEPT !.listed = FALSE]

ApStop(a) ==
    /\ Quiet
    /\ a \in Restartable /\ ap[a].isUp
    /\ ap' = [ap EXCEPT ![a] = [Forgotten(@) EXCEPT !.isUp = FALSE]]
    /\ UNCHANGED <<agentVars, gateVars, scanVars, apList, assocVars, inRange, medium>>

ApStart(a) ==
    /\ Quiet
    /\ ~ap[a].isUp
    /\ ap' = [ap EXCEPT ![a].isUp = TRUE]
    /\ UNCHANGED <<agentVars, gateVars, scanVars, apList, assocVars, inRange, medium>>

-----------------------------------------------------------------------------
(* The medium: the bus moves, frames are lost *)

Move ==
    /\ Quiet
    /\ inRange' \in Moves
    /\ UNCHANGED <<agentVars, gateVars, scanVars, apList, assocVars, ap, medium>>

DropHead(a) ==
    /\ Quiet
    /\ \/ up[a] # <<>> /\ up' = [up EXCEPT ![a] = Tail(@)] /\ UNCHANGED down
       \/ down[a] # <<>> /\ down' = [down EXCEPT ![a] = Tail(@)] /\ UNCHANGED up
    /\ UNCHANGED <<agentVars, gateVars, scanVars, apList, assocVars, ap, inRange>>

\* A frame to or from an access point that cannot be heard is lost.
OutOfReach(a) == ~Reachable(a) /\ DropHead(a)
\* The MAC gave up retransmitting.
Interference(a) == Reachable(a) /\ DropHead(a)

AgentStep == StartUp \/ ProcessScanConfirm \/ ProcessAuthenticateConfirm
             \/ ProcessAssociateConfirm
CommandStep == ProcessScanCommand \/ ProcessAuthenticateCommand \/ ProcessAssociateCommand
TimerStep == \/ AssocTimeout \/ SendProbe \/ MinChannelTimeBusy \/ ChannelTimeOver
             \/ \E a \in AP : AuthTimeout(a)
StaFrameStep(a) ==
    \/ HandleProbeResponse(a)
    \/ HandleAuthenticationFrame(a)
    \/ HandleDeauthenticationFrame(a)
    \/ HandleAssociationResponseFrame(a)
ApFrameStep(a) ==
    \/ ApHandleProbeRequest(a)
    \/ ApHandleAuthenticationFrame(a)
    \/ ApHandleAssociationRequestFrame(a)

Next ==
    \/ AgentStep
    \/ CommandStep
    \/ TimerStep
    \/ BeaconTimeout
    \/ ReceptionBusy
    \/ Move
    \/ \E a \in AP : \/ HandleBeacon(a)
                     \/ StaFrameStep(a)
                     \/ ApFrameStep(a)
                     \/ ApStop(a)
                     \/ ApStart(a)
                     \/ OutOfReach(a)
                     \/ Interference(a)

Spec == Init /\ [][Next]_vars

-----------------------------------------------------------------------------
(* Fairness: a scheduled event is delivered, and what waits in a MAC queue is *)
(* sent or given up.  Beacons come every 100 ms, more than once per channel   *)
(* of a scan: an access point that can be heard again and again is heard      *)
(* eventually, and puts off the beacon timeout while it is.  Losses, moves,   *)
(* restarts and noise are not fair.                                           *)

Fairness ==
    /\ WF_vars(AgentStep) /\ WF_vars(CommandStep) /\ WF_vars(TimerStep)
    /\ WF_vars(~Reachable(assocAP) /\ BeaconTimeout)
    /\ \A a \in AP : /\ SF_vars(HandleBeacon(a))
                     /\ WF_vars(StaFrameStep(a))
                     /\ WF_vars(ApFrameStep(a))
                     /\ WF_vars(OutOfReach(a))

FairSpec == Spec /\ Fairness

-----------------------------------------------------------------------------
(* Properties *)

\* Every variable keeps to its type; a gate never holds two messages, and only
\* a default-SSID access point is ever authenticated with.
TypeOK ==
    /\ startUp \in BOOLEAN /\ prevAP \in AP \cup {NoAP} /\ signal \in BOOLEAN
    /\ toMgmt \in {<<>>} \cup {<<c>> : c \in Command}
    /\ toAgent \in {<<>>} \cup {<<c>> : c \in Confirm}
    /\ isScanning \in BOOLEAN
    /\ scanTimer \in {"none", "probeDelay", "minChannelTime", "maxChannelTime"}
    /\ channelIndex \in 0..Len(ChannelList)
    /\ busyChannelDetected \in BOOLEAN
    /\ tuned \in Nat
    /\ apList \in [AP -> ApInfo]
    /\ assocTimer \in Timer /\ isAssociated \in BOOLEAN
    /\ assocAP \in AP \cup {NoAP}
    /\ beaconTimer \in Timer
    /\ ap \in [AP -> ApState]
    /\ inRange \in Moves
    /\ up \in [AP -> Seq(Frame)] /\ down \in [AP -> Seq(Frame)]

\* Exactly one thing keeps the station going at any time: the start-up timer, a
\* message on a gate, the scan with its timer, the timeout of the authentication
\* or association under way, or, once associated, the beacon timeout.  With none
\* of them the bus would never look for an access point again; with two of them
\* agent and management entity would work on different requests.
AuthRunning == {a \in AP : apList[a].authTimer = "running"}
Bit(b) == IF b THEN 1 ELSE 0
OneDriver ==
    /\ isScanning = (scanTimer # "none")
    /\ Bit(startUp) + Len(toMgmt) + Len(toAgent) + Bit(isScanning)
         + Cardinality(AuthRunning) + Bit(assocTimer = "running")
         + Bit(Quiet /\ beaconTimer = "running") = 1

\* No command of the agent meets a state in which the management entity throws a
\* runtime error (scan in progress, AP not known, already authenticated, already
\* associated, not yet authenticated), which ends the simulation.
CommandAccepted ==
    toMgmt # <<>> =>
        LET c == Head(toMgmt)
        IN  /\ c.type = "Scan" => ~ScanThrows
            /\ c.type = "Authenticate" => ~AuthenticateThrows(c.ap)
            /\ c.type = "Associate" => ~AssociateThrows(c.ap)

\* No association response reaches the station from an access point that is not
\* in its list while it waits for one: handleAssociationResponseFrame throws.
ResponseAccepted ==
    \A a \in AP : /\ Reachable(a) /\ Quiet
                  /\ down[a] # <<>> /\ Head(down[a]).type = "AssocResp"
                 => ~AssocResponseThrows(a)

\* What the agent announces to the applications is what the management entity
\* wrote into the MIB, by which the MAC accepts or drops their packets.
SignalAgreesWithMib ==
    /\ signal => isAssociated
    /\ Quiet => signal = isAssociated

\* An associated station is associated in the eyes of its access point as well,
\* whatever was lost on the way and even if the access point restarted.
Agreement == isAssociated => ap[assocAP].status = "ASSOCIATED"

\* A station that comes back to an access point is not turned down with an
\* Auth-ERROR, the point of the reset on frame 1 in the access point's handler.
\* (One that restarts in the middle of an authentication has forgotten the rest.)
NoAuthError ==
    \A a \in AP \ Restartable : \A i \in DOMAIN down[a] : down[a][i].ok

\* An association ends, or moves to another access point, only by the loss of
\* beacons: no late answer, timeout or restart takes it away.
EndsByBeaconLoss ==
    [][isAssociated /\ (~isAssociated' \/ assocAP' # assocAP)
         => beaconTimer = "fired" /\ ~signal]_vars

\* A bus that stays where an access point of its SSID can be heard, with no frame
\* lost any more, ends up associated for good, and says so.  (The loss of a frame
\* whose reception changes nothing cannot be told from its reception.)
Stays(R) == /\ <>[](inRange = R)
            /\ \A a \in AP :
                 <>[][Interference(a) => StaFrameStep(a) \/ ApFrameStep(a)]_vars
            /\ <>[][BeaconTimeout => assocAP \notin inRange]_vars
EventuallyAssociated ==
    \A R \in Moves : R \cap DefaultSsidAP # {} /\ Stays(R)
                        => <>[](signal /\ assocAP \in R)

\* A bus that stays out of reach of every access point of its SSID ends up not
\* associated, and says so, which sends its traffic to the cellular network.
EventuallyLost ==
    \A R \in Moves : R \cap DefaultSsidAP = {} /\ Stays(R) => <>[](~signal)

\* Scan, authentication, association and beacon loss together: where a bus stays
\* decides whether it ends up associated.
AssociationFollowsCoverage == EventuallyAssociated /\ EventuallyLost
=============================================================================
