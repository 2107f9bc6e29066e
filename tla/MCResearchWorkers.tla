------------------------- MODULE MCResearchWorkers -------------------------
(* Instances of ResearchWorkers for TLC. *)
EXTENDS ResearchWorkers

MCOneRun == {1}
MCStages == StageNames \cup FinalStages

\* An API process beside a worker process, or an API process alone.
MCTwoProcesses == [w \in {"s1", "s2"} |-> IF w = "s1" THEN "api" ELSE "worker"]
MCOneSlot == [w \in {"s1"} |-> "api"]
===========================================================================
