------------------------ MODULE TechnologySelection ------------------------
(***************************************************************************)
(* What the bus promises about its two radios: its traffic leaves by one   *)
(* of them, the control loop chooses it by the last news of the WiFi       *)
(* association, and while the node is down nothing leaves at all.          *)
(***************************************************************************)

VARIABLES enabled,    \* the node is up
          wifi,       \* the last news: associated with an access point
          selected    \* the interface of the default route, or "none"

vars == <<enabled, wifi, selected>>

Choice == IF wifi THEN "wlan0" ELSE "cellular"

\* A node created at the start of the simulation has the WiFi interface selected,
\* one created later the cellular interface; a restart always selects WiFi.
Init == enabled = TRUE /\ wifi = FALSE /\ selected \in {"wlan0", "cellular"}

News == wifi' \in BOOLEAN /\ UNCHANGED <<enabled, selected>>
Select == enabled /\ selected' = Choice /\ UNCHANGED <<enabled, wifi>>
Disable == enabled /\ enabled' = FALSE /\ selected' = "none" /\ UNCHANGED wifi
Enable == ~enabled /\ enabled' = TRUE /\ selected' = "wlan0" /\ UNCHANGED wifi

Next == News \/ Select \/ Disable \/ Enable

Spec == Init /\ [][Next]_vars
\* The control loop keeps choosing.
Fairness == WF_vars(Select)
=============================================================================
