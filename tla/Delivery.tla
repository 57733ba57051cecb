------------------------------ MODULE Delivery ------------------------------
(***************************************************************************)
(* What a network promises about the packets it is given, whatever moves   *)
(* underneath: a packet is delivered at most once or lost, and none        *)
(* vanishes unnoticed or comes back.                                       *)
(***************************************************************************)
EXTENDS Naturals, Sequences

CONSTANT Packet

VARIABLES pending,    \* the packets that are somewhere in the network
          received,   \* those that were delivered, in this order
          lost

vars == <<pending, received, lost>>

Init == pending = {} /\ received = <<>> /\ lost = {}

\* No packet is sent twice.
Fresh(p) == p \notin pending \cup lost \cup {received[i] : i \in DOMAIN received}

Send(p) == pending' = pending \cup {p} /\ UNCHANGED <<received, lost>>

Refuse(p) == lost' = lost \cup {p} /\ UNCHANGED <<pending, received>>

Deliver(p) ==
    /\ p \in pending
    /\ pending' = pending \ {p}
    /\ received' = Append(received, p)
    /\ UNCHANGED lost

Lose(P) ==
    /\ P \subseteq pending
    /\ pending' = pending \ P
    /\ lost' = lost \cup P
    /\ UNCHANGED received

Next ==
    \/ \E p \in Packet : Fresh(p) /\ (Send(p) \/ Refuse(p))
    \/ \E p \in pending : Deliver(p)
    \/ \E P \in SUBSET pending : Lose(P)

Spec == Init /\ [][Next]_vars
=============================================================================
