------------------------ MODULE MCInterfaceControl ------------------------
(* Instances of InterfaceControl for TLC. *)
EXTENDS InterfaceControl

StopOrCrash == {"stop", "crash"}
StopOnly == {"stop"}
=============================================================================
