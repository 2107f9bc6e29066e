------------------------- MODULE MCResearchLedger -------------------------
(* Instances of ResearchLedger for TLC. *)
EXTENDS ResearchLedger

MCOneRun == {1}

\* Stages only pass through WriteStage; one that is active and one that looks
\* final are all the properties tell apart.
MCStages == {"VERIFYING", "COMPLETED"}
===========================================================================
