---------------------------- MODULE MCIngestion ----------------------------
(* Instances of Ingestion for TLC. *)
EXTENDS Ingestion, TLC

MCSymmetry == Permutations(Tasks)

\* Two calls in one process, and two calls in processes of their own.
MCOneProcess == [t \in Tasks |-> "api"]
MCTwoProcesses == [t \in Tasks |-> IF t = "t1" THEN "api" ELSE "worker"]
===========================================================================
