----------------------- MODULE MCResearchLedgerRaces -----------------------
(* Instances of ResearchLedgerRaces for TLC. *)
EXTENDS ResearchLedgerRaces

MCOneRun == {1}
MCStages == {"VERIFYING"}
===========================================================================
