---------------------------- MODULE MCHarqUplink ----------------------------
(* An instance of HarqUplink for TLC. *)
EXTENDS HarqUplink

CONSTANTS e1, e2

TwoEnbs == {e1, e2}

\* The default of harqFbEvaluationTimer, and the one that lets a retransmission fit
\* into a round of the processes.
DefaultAndFitting == {4, 6}
=============================================================================
