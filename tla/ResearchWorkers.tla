-------------------------- MODULE ResearchWorkers --------------------------
(***************************************************************************)
(* Worker processes over the research ledger: the polling loop of          *)
(* ResearchWorker (research/worker.py), its heartbeat, and the stages of   *)
(* ResearchAgent.execute (research/agent.py), with processes that crash    *)
(* and restart.                                                            *)
(*                                                                         *)
(* A slot is one _process_claim task.  Its pc names the next point of      *)
(* execute at which the task may be interleaved with others or lost: every *)
(* await and every transaction that leaves something durable behind.  A    *)
(* cancellation check and the stage write that follows it without an await *)
(* are one step.                                                           *)
(***************************************************************************)
EXTENDS ResearchLedger

CONSTANTS Slots,          \* task slots of all processes
          Procs,          \* processes that run a ResearchWorker
          ApiProcs,       \* those that also serve the API (create_app)
          ProcOf,         \* the process of each slot
          MaxIterations,  \* max_iterations of a run
          CrashBudget     \* bound on the crashes of a behaviour

ASSUME SlotsAssumption == ProcOf \in [Slots -> Procs] /\ ApiProcs \subseteq Procs
ASSUME IterationsAssumption == MaxIterations \in Nat \ {0}
ASSUME CrashAssumption == CrashBudget \in Nat
\* execute writes each of the visible stages.
ASSUME WorkerStagesAssumption == StageNames \cup FinalStages \subseteq Stages

VARIABLES slot,     \* the task in each slot
          loop,     \* where run_forever is in each process
          planned,  \* the attempts that appended their plan's queries
          spaces,   \* how many workspaces were created for the run
          linked,   \* does the run row name a workspace?
          crashes   \* crashes still allowed

outputs == <<planned, spaces, linked>>
workerVars == <<vars, slot, loop, outputs, crashes>>

\* free: no task.  done: a finished task the loop has not collected.
Resting == {"free", "done"}
Points == {"owner", "start", "plan", "planned", "discover", "search", "select",
           "ingest", "workspace", "link", "ingested", "analyze", "synthesize",
           "synthesizing", "verify", "finish", "complete"}
LoopStates == {"polling", "waiting", "sleeping", "down"}

SlotRecord == [pc: Points \cup Resting, run: Runs \cup {None},
               num: {None} \cup Numbers, iter: 0 .. MaxIterations]
Idle(state) == [pc |-> state, run |-> None, num |-> None, iter |-> 0]

WorkersTypeOK ==
  /\ TypeOK
  /\ slot \in [Slots -> SlotRecord]
  /\ loop \in [Procs -> LoopStates]
  /\ planned \in [Runs -> SUBSET Numbers]
  /\ spaces \in [Runs -> 0 .. AttemptCap]
  /\ linked \in [Runs -> BOOLEAN]
  /\ crashes \in 0 .. CrashBudget

WorkersInit ==
  /\ Init
  /\ slot = [w \in Slots |-> Idle("free")]
  /\ loop = [p \in Procs |-> "polling"]
  /\ planned = [r \in Runs |-> {}]
  /\ spaces = [r \in Runs |-> 0]
  /\ linked = [r \in Runs |-> FALSE]
  /\ crashes = CrashBudget

SlotsOf(p) == {w \in Slots : ProcOf[w] = p}
Free(p) == {w \in SlotsOf(p) : slot[w].pc = "free"}
Busy(w) == slot[w].pc \notin Resting

---------------------------------------------------------------------------
(* run_forever: fill the free slots; with tasks active wait for one to      *)
(* finish, else sleep for the poll interval.                                *)

Poll(p) ==
  /\ loop[p] = "polling"
  /\ Free(p) # {}
  /\ ClaimNext
  /\ \/ \E r \in Runs, w \in Free(p) :
          /\ run'[r].count > run[r].count
          /\ slot' = [slot EXCEPT ![w] = [pc |-> "owner", run |-> r,
                                          num |-> run'[r].count, iter |-> 0]]
          /\ loop' = loop
     \/ /\ \A r \in Runs : run'[r].count = run[r].count
        /\ slot' = slot
        /\ loop' = [loop EXCEPT ![p] =
                      IF Free(p) = SlotsOf(p) THEN "sleeping" ELSE "waiting"]
  /\ UNCHANGED <<outputs, crashes>>

SlotsFull(p) ==
  /\ loop[p] = "polling"
  /\ Free(p) = {}
  /\ loop' = [loop EXCEPT ![p] = "waiting"]
  /\ UNCHANGED <<vars, slot, outputs, crashes>>

\* Definitions called Mutant... are wrong on purpose, as in ResearchLedger.
\* Finished tasks stay in the set of active ones.
MutantCollect(p) ==
  /\ loop[p] = "waiting"
  /\ \E w \in SlotsOf(p) : slot[w].pc = "done"
  /\ loop' = [loop EXCEPT ![p] = "polling"]
  /\ UNCHANGED <<vars, slot, outputs, crashes>>

\* asyncio.wait returns once a task is done; the finished tasks are dropped.
Collect(p) ==
  LET finished == {w \in SlotsOf(p) : slot[w].pc = "done"}
  IN /\ loop[p] = "waiting"
     /\ finished # {}
     /\ slot' = [w \in Slots |-> IF w \in finished THEN Idle("free") ELSE slot[w]]
     /\ loop' = [loop EXCEPT ![p] = "polling"]
     /\ UNCHANGED <<vars, outputs, crashes>>

Wake(p) ==
  /\ loop[p] = "sleeping"
  /\ loop' = [loop EXCEPT ![p] = "polling"]
  /\ UNCHANGED <<vars, slot, outputs, crashes>>

---------------------------------------------------------------------------
(* Building blocks of a task. *)

Run(w) == slot[w].run
Num(w) == slot[w].num
Valid(w) == ClaimRecord(Run(w), Num(w))
Goto(w, pc) == slot' = [slot EXCEPT ![w].pc = pc]
Leave(w) == slot' = [slot EXCEPT ![w] = Idle("done")]

\* The except clauses of execute: fail the attempt if the claim still holds.
Raise(w, retryable) ==
  /\ Leave(w)
  /\ IF Valid(w) THEN FailExecution(Run(w), Num(w), retryable) ELSE UNCHANGED vars
  /\ UNCHANGED outputs

\* _status: update_research_run raises when the claim is lost or cancelled.
Status(w, s, next) ==
  \/ WriteStage(Run(w), Num(w), s) /\ Goto(w, next) /\ UNCHANGED outputs
  \/ ~(Valid(w) /\ ~run[Run(w)].cancel) /\ Raise(w, FALSE)

\* _cancelled: a requested cancellation finishes the attempt, a lost claim
\* just ends the task.
Cancelled(w) == run[Run(w)].cancel \/ ~Valid(w)

StopCancelled(w) ==
  /\ Cancelled(w)
  /\ Leave(w)
  /\ IF Valid(w) THEN CompleteExecution(Run(w), Num(w), "COMPLETED") ELSE UNCHANGED vars
  /\ UNCHANGED outputs

CheckedStatus(w, s, next) ==
  StopCancelled(w) \/ (~Cancelled(w) /\ Status(w, s, next))

---------------------------------------------------------------------------
(* The steps of a task, in the order of execute. *)

\* _process_claim fails the attempt when the run's owner is gone or disabled.
CheckOwner(w) == Goto(w, "start") /\ UNCHANGED <<vars, outputs>>
OwnerUnavailable(w) == Raise(w, FALSE)

Start(w) ==
  \/ MarkRunning(Run(w), Num(w)) /\ Goto(w, "plan") /\ UNCHANGED outputs
  \/ ~Valid(w) /\ Leave(w) /\ UNCHANGED <<vars, outputs>>

EnterPlanning(w) == Status(w, "PLANNING", "planned")

\* The planner returns: the plan is replaced, its queries are appended.
Planned(w) ==
  IF Valid(w)
    THEN /\ planned' = [planned EXCEPT ![Run(w)] = @ \cup {Num(w)}]
         /\ slot' = [slot EXCEPT ![w].pc = "discover", ![w].iter = 1]
         /\ UNCHANGED <<vars, spaces, linked>>
    ELSE Raise(w, FALSE)

EnterDiscovery(w) == CheckedStatus(w, "DISCOVERING", "search")

\* The cancellation is looked at before each query, so that it may end the
\* search between two of them.
Searched(w) == StopCancelled(w) \/ Status(w, "SELECTING", "select")

\* Nothing selected ends the loop, also when no paper was ingested before.
NothingSelected(w) == Goto(w, "synthesize") /\ UNCHANGED <<vars, outputs>>
EnterIngestion(w) == Status(w, "INGESTING", "ingest")

\* _ingest_selected looks for a cancellation before each paper: it ends the
\* attempt there, while the task goes on to its next write, which is refused.
IngestionCancelled(w) ==
  /\ run[Run(w)].cancel
  /\ CompleteExecution(Run(w), Num(w), "COMPLETED")
  /\ UNCHANGED <<slot, outputs>>

\* _ingest_selected tolerates failed papers.  With a paper ingested, a run
\* without a workspace gets one, in two transactions.
Ingested(w) ==
  /\ Goto(w, "ingested") \/ (~linked[Run(w)] /\ Goto(w, "workspace"))
  /\ UNCHANGED <<vars, outputs>>

\* The workspace is created without presenting the claim.
MutantCreateWorkspace(w) ==
  /\ spaces' = [spaces EXCEPT ![Run(w)] = @ + 1]
  /\ Goto(w, "link")
  /\ UNCHANGED <<vars, planned, linked>>

CreateWorkspace(w) ==
  IF Valid(w)
    THEN /\ spaces' = [spaces EXCEPT ![Run(w)] = @ + 1]
         /\ Goto(w, "link")
         /\ UNCHANGED <<vars, planned, linked>>
    ELSE Raise(w, FALSE)

LinkWorkspace(w) ==
  IF Valid(w) /\ ~run[Run(w)].cancel
    THEN /\ linked' = [linked EXCEPT ![Run(w)] = TRUE]
         /\ Goto(w, "ingested")
         /\ UNCHANGED <<vars, planned, spaces>>
    ELSE Raise(w, FALSE)

EnterAnalysis(w) == CheckedStatus(w, "ANALYZING", "analyze")

\* Sufficient coverage, the last iteration or no refinement leaves the loop.
Analyzed(w) ==
  \/ StopCancelled(w)
  \/ /\ ~Cancelled(w)
     /\ \/ slot' = [slot EXCEPT ![w].pc = "synthesize"]
        \/ /\ slot[w].iter < MaxIterations
           /\ slot' = [slot EXCEPT ![w].pc = "discover", ![w].iter = @ + 1]
     /\ UNCHANGED <<vars, outputs>>

EnterSynthesis(w) == CheckedStatus(w, "SYNTHESIZING", "synthesizing")

\* The report is not stored before the final stages.
MutantSynthesized(w) ==
  IF Valid(w) THEN Goto(w, "verify") /\ UNCHANGED <<vars, outputs>> ELSE Raise(w, FALSE)

Synthesized(w) ==
  IF Valid(w)
    THEN SaveReport(Run(w), Num(w)) /\ Goto(w, "verify") /\ UNCHANGED outputs
    ELSE Raise(w, FALSE)

EnterVerification(w) == Status(w, "VERIFYING", "finish")
Finish(w) == \E s \in FinalStages : Status(w, s, "complete")

Complete(w) ==
  /\ Leave(w)
  /\ IF Valid(w) THEN CompleteExecution(Run(w), Num(w), run[Run(w)].status)
                 ELSE UNCHANGED vars
  /\ UNCHANGED outputs

\* The awaits that may raise: a timeout or connection error is retryable, a
\* provider or synthesis error is not.
Awaiting == {"planned", "search", "synthesizing"}

Step(w) ==
  \/ slot[w].pc = "owner" /\ (CheckOwner(w) \/ OwnerUnavailable(w))
  \/ slot[w].pc = "start" /\ Start(w)
  \/ slot[w].pc = "plan" /\ EnterPlanning(w)
  \/ slot[w].pc = "planned" /\ Planned(w)
  \/ slot[w].pc = "discover" /\ EnterDiscovery(w)
  \/ slot[w].pc = "search" /\ Searched(w)
  \/ slot[w].pc = "select" /\ (NothingSelected(w) \/ EnterIngestion(w))
  \/ slot[w].pc = "ingest" /\ (Ingested(w) \/ IngestionCancelled(w))
  \/ slot[w].pc = "workspace" /\ CreateWorkspace(w)
  \/ slot[w].pc = "link" /\ LinkWorkspace(w)
  \/ slot[w].pc = "ingested" /\ EnterAnalysis(w)
  \/ slot[w].pc = "analyze" /\ Analyzed(w)
  \/ slot[w].pc = "synthesize" /\ EnterSynthesis(w)
  \/ slot[w].pc = "synthesizing" /\ Synthesized(w)
  \/ slot[w].pc = "verify" /\ EnterVerification(w)
  \/ slot[w].pc = "finish" /\ Finish(w)
  \/ slot[w].pc = "complete" /\ Complete(w)
  \/ slot[w].pc \in Awaiting /\ \E retryable \in BOOLEAN : Raise(w, retryable)

TaskStep(w) == Step(w) /\ UNCHANGED <<loop, crashes>>

\* The heartbeat renews whatever has become of the claim.
MutantHeartbeat(w) ==
  /\ slot[w].pc \notin Resting \cup {"owner"}
  /\ att' = [att EXCEPT ![Run(w)][Num(w)].lease = LeaseTime]
  /\ UNCHANGED <<run, report, slot, loop, outputs, crashes>>

\* The heartbeat task of a busy slot; it ends by itself once renewal fails.
Heartbeat(w) ==
  /\ slot[w].pc \notin Resting \cup {"owner"}
  /\ RenewLease(Run(w), Num(w))
  /\ UNCHANGED <<slot, loop, outputs, crashes>>

---------------------------------------------------------------------------
(* Processes, the API and the clock. *)

Crash(p) ==
  /\ crashes > 0
  /\ loop[p] # "down"
  /\ crashes' = crashes - 1
  /\ loop' = [loop EXCEPT ![p] = "down"]
  /\ slot' = [w \in Slots |-> IF ProcOf[w] = p THEN Idle("free") ELSE slot[w]]
  /\ UNCHANGED <<vars, outputs>>

Restart(p) ==
  /\ loop[p] = "down"
  /\ loop' = [loop EXCEPT ![p] = "polling"]
  /\ IF p \in ApiProcs THEN Startup ELSE UNCHANGED vars
  /\ UNCHANGED <<slot, outputs, crashes>>

Api(r) ==
  /\ CreateRun(r) \/ QueueRun(r) \/ RequestCancellation(r)
  /\ UNCHANGED <<slot, loop, outputs, crashes>>

Clock == Tick /\ UNCHANGED <<slot, loop, outputs, crashes>>

Process(p) == Poll(p) \/ SlotsFull(p) \/ Collect(p) \/ Wake(p)

WorkersNext ==
  \/ Clock
  \/ \E r \in Runs : Api(r)
  \/ \E w \in Slots : TaskStep(w) \/ Heartbeat(w)
  \/ \E p \in Procs : Process(p) \/ Crash(p) \/ Restart(p)

WorkersSpec == WorkersInit /\ [][WorkersNext]_workerVars

\* The clock runs, every await has a timeout (RESEARCH_STEP_TIMEOUT), the loop
\* polls on a timer and crashed processes are restarted.  Users, heartbeats
\* and crashes are not fair.
Fairness ==
  /\ WF_workerVars(Clock)
  /\ \A w \in Slots : WF_workerVars(TaskStep(w))
  /\ \A p \in Procs : WF_workerVars(Process(p)) /\ WF_workerVars(Restart(p))

FairSpec == WorkersSpec /\ Fairness

---------------------------------------------------------------------------
(* What workers must guarantee. *)

\* A run that completed shows the report its successful attempt wrote, and a
\* stage that looks final is never visible without a report.
CompletedHasReport ==
  \A r \in Runs :
    /\ run[r].exec = "COMPLETED" => report[r] = run[r].count
    /\ run[r].status \in FinalStages => report[r] # None

\* A task that lost its claim, to an expiry, a cancellation or a newer attempt,
\* leaves no trace, neither in the ledger nor in plan, workspaces or their link.
LostTaskLeavesNoTrace ==
  [][\A w \in Slots : Busy(w) /\ ~Valid(w) /\ slot'[w] # slot[w] =>
       UNCHANGED <<vars, outputs>>]_workerVars

\* A queued run ends, whatever its tasks, crashes and restarts do.
QueuedRunEnds ==
  \A r \in Runs : run[r].exec = "QUEUED" ~> run[r].exec \in Terminal

\* A cancellation is honoured in the end, also when the attempt that should
\* notice it is dead.
CancellationIsHonoured ==
  \A r \in Runs : run[r].cancel ~> run[r].exec = "CANCELLED"

\* The workers only ever use the ledger's own steps.
ImplementsLedger == Spec
===========================================================================
