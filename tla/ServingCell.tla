---------------------------- MODULE ServingCell ----------------------------
(***************************************************************************)
(* What a handover promises about the cell that serves a UE: one cell at a *)
(* time, or none; the serving cell changes only to the target for which    *)
(* the handover was started, and a handover that is under way is completed *)
(* before another one is started.                                          *)
(***************************************************************************)
CONSTANTS Cell,     \* the eNodeBs
          NoCell,   \* no eNodeB: the UE is detached
          Idle      \* no handover is under way

VARIABLES serving, target

vars == <<serving, target>>

Place == Cell \cup {NoCell}

Init == serving \in Cell /\ target = Idle

Start(c) ==
    /\ target = Idle /\ c # serving
    /\ target' = c
    /\ UNCHANGED serving

Complete ==
    /\ target # Idle
    /\ serving' = target /\ target' = Idle

Next == Complete \/ \E c \in Place : Start(c)

Spec == Init /\ [][Next]_vars
=============================================================================
