------------------------ MODULE AssociationRequests ------------------------
(***************************************************************************)
(* Ieee80211Association with the request the agent made last.  No variable *)
(* of the code holds it: the confirms of the management entity carry no    *)
(* reference to the request they answer, and the association response is   *)
(* taken from whichever access point sent it.  The history variable is     *)
(* what tells whether an answer was the answer to the last request.        *)
(***************************************************************************)
EXTENDS Ieee80211Association

VARIABLE request    \* the last request of the agent

requestVars == <<vars, request>>

NoRequest == [type |-> "none", ap |-> NoAP]

\* Every request of the agent is put on the gate to the management entity.
SendRequest == request' = IF toMgmt' = <<>> THEN request ELSE toMgmt'[Len(toMgmt')]

RequestsInit == Init /\ request = NoRequest
RequestsNext == Next /\ SendRequest
RequestsSpec == RequestsInit /\ [][RequestsNext]_requestVars

-----------------------------------------------------------------------------
(* Properties *)

\* A pending confirm answers the request the agent made last, and a confirm of an
\* authentication names the access point asked for: an answer, a timeout or a scan
\* of an earlier attempt, however late, confirms nothing that was asked since.
ConfirmIsCurrent ==
    toAgent # <<>> =>
        LET c == Head(toAgent)
        IN  /\ c.type = request.type
            /\ c.type = "Authenticate" => c.ap = request.ap

\* The station is associated with the access point its agent asked for last, though
\* the management entity takes the response of any access point it knows, until
\* the agent, having lost its beacons, asks for a scan.
AssociatedAsRequested ==
    isAssociated => request = AssociateRequest(assocAP) \/ toMgmt = <<ScanRequest>>
=============================================================================
