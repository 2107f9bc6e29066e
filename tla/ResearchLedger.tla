-------------------------- MODULE ResearchLedger --------------------------
(***************************************************************************)
(* The durable research ledger: the control columns of research_runs and   *)
(* research_execution_attempts, and the SQLDatabase methods that change    *)
(* them (backend/app/db/database.py).  One method is one step: in the API  *)
(* or desktop sidecar process every method is a synchronous transaction    *)
(* called from one event loop.  ResearchLedgerRaces splits the steps for   *)
(* deployments with several processes.                                     *)
(*                                                                         *)
(* The holder of a claim is not a process here: any claim ever issued may  *)
(* be presented again at any time, however late, so what is shown holds    *)
(* for every worker.  ResearchWorkers adds the worker's own control flow.  *)
(*                                                                         *)
(* Time is relative.  lease is the time left before lease_expires_at and   *)
(* wait the time left before next_attempt_at; the code only ever compares  *)
(* either with the current time, so nothing is lost and nothing grows.     *)
(***************************************************************************)
EXTENDS Integers, FiniteSets

CONSTANTS Runs,          \* research runs, numbered in (created_at, id) order
          MaxAttempts,   \* RESEARCH_MAX_ATTEMPTS
          LeaseTime,     \* RESEARCH_CLAIM_LEASE_SECONDS
          Stages,        \* the visible stages an attempt may write
          InlineCallers  \* do callers without a worker claim runs by id?

ASSUME RunsAssumption == Runs \subseteq Nat /\ IsFiniteSet(Runs)
ASSUME MaxAttemptsAssumption == MaxAttempts \in Nat \ {0}
ASSUME LeaseTimeAssumption == LeaseTime \in Nat \ {0}
ASSUME InlineAssumption == InlineCallers \in BOOLEAN

\* Definitions called Mutant... are wrong on purpose: each is a plausible bug in
\* the definition that follows it and shows which property would find it.
MutantStartupLimit == 2

\* The literal retry limits of recover_incomplete_work and claim_research_run;
\* every other caller passes MaxAttempts.
StartupLimit == 3
InlineLimit == 3

\* No run is ever given more attempts than this (AttemptBudget), so the set of
\* attempt numbers bounds nothing.
AttemptCap == IF MaxAttempts < StartupLimit THEN StartupLimit ELSE MaxAttempts
Numbers == 1 .. AttemptCap
None == 0                  \* the NULL active_attempt_id

StageNames == {"PLANNING", "DISCOVERING", "SELECTING", "INGESTING",
               "ANALYZING", "SYNTHESIZING", "VERIFYING"}
FinalStages == {"COMPLETED", "PARTIAL"}
Statuses == StageNames \cup FinalStages
              \cup {"CREATED", "INTERRUPTED", "FAILED", "CANCELLED"}

ASSUME StagesAssumption == Stages \subseteq StageNames \cup FinalStages

Terminal == {"COMPLETED", "FAILED", "CANCELLED"}
Held == {"CLAIMED", "RUNNING", "CANCEL_REQUESTED"}
ExecutionStates == {"ABSENT", "IDLE", "QUEUED"} \cup Held \cup Terminal

Live == {"CLAIMED", "RUNNING"}
AttemptStates == {"NONE", "SUCCEEDED", "FAILED", "CANCELLED", "LOST"} \cup Live

VARIABLES run,     \* the control columns of each research_runs row
          att,     \* the attempts of each run, by attempt_number
          report   \* the attempt whose report is stored, or None

vars == <<run, att, report>>

RunRecord == [exec: ExecutionStates, status: Statuses, active: {None} \cup Numbers,
              count: {0} \cup Numbers, cancel: BOOLEAN, wait: Int]
AttemptRecord == [status: AttemptStates, lease: 0 .. LeaseTime]

TypeOK ==
  /\ run \in [Runs -> RunRecord]
  /\ att \in [Runs -> [Numbers -> AttemptRecord]]
  /\ report \in [Runs -> {None} \cup Numbers]

Init ==
  /\ run = [r \in Runs |-> [exec |-> "ABSENT", status |-> "CREATED", active |-> None,
                            count |-> 0, cancel |-> FALSE, wait |-> 0]]
  /\ att = [r \in Runs |-> [n \in Numbers |-> [status |-> "NONE", lease |-> 0]]]
  /\ report = [r \in Runs |-> None]

---------------------------------------------------------------------------
(* Helpers the methods share. *)

\* min(300, 2 ** (attempt_number - 1)) seconds before a retry.
Backoff(n) == IF 2^(n-1) < 300 THEN 2^(n-1) ELSE 300

\* The recovery scan does not look at the attempt's own verdict.
MutantExpired(r, n) == att[r][n].status # "NONE" /\ att[r][n].lease = 0

Expired(r, n) == att[r][n].status \in Live /\ att[r][n].lease = 0

\* The fence every write of a claim passes: _claim_record.
ClaimRecord(r, n) ==
  /\ run[r].active = n
  /\ att[r][n].lease > 0
  /\ att[r][n].status \in Live
  /\ run[r].exec \in Held

\* The run's cancellation waits for the worker that is gone.
MutantReleasedWaits(rec, retry, delay) ==
  IF rec.cancel
    THEN [rec EXCEPT !.active = None, !.exec = "CANCEL_REQUESTED"]
    ELSE IF retry
      THEN [rec EXCEPT !.active = None, !.exec = "QUEUED", !.wait = delay]
      ELSE [rec EXCEPT !.active = None, !.exec = "FAILED", !.status = "FAILED"]

\* The visible status of a failed run is forgotten.
MutantReleasedSilently(rec, retry, delay) ==
  [rec EXCEPT !.active = None,
              !.exec = IF rec.cancel THEN "CANCELLED" ELSE IF retry THEN "QUEUED" ELSE "FAILED",
              !.status = IF rec.cancel THEN "CANCELLED" ELSE @]

\* How a run leaves an attempt that did not finish it: a cancellation request
\* wins, then the retry budget, then failure.
Released(rec, retry, delay) ==
  IF rec.cancel
    THEN [rec EXCEPT !.active = None, !.exec = "CANCELLED", !.status = "CANCELLED"]
    ELSE IF retry
      THEN [rec EXCEPT !.active = None, !.exec = "QUEUED", !.wait = delay]
      ELSE [rec EXCEPT !.active = None, !.exec = "FAILED", !.status = "FAILED"]

FenceExpired ==
  [r \in Runs |-> [n \in Numbers |->
     IF Expired(r, n) THEN [att[r][n] EXCEPT !.status = "LOST"] ELSE att[r][n]]]

\* The retry limit is off by one.
MutantRecoverExpired(limit) ==
  [r \in Runs |->
     LET n == run[r].active
     IN  IF n # None /\ Expired(r, n) THEN Released(run[r], n <= limit, 0) ELSE run[r]]

\* _recover_expired_attempts_session: every expired attempt becomes LOST, and
\* a run whose active attempt it is is released.
RecoverExpired(limit) ==
  [r \in Runs |->
     LET n == run[r].active
     IN  IF n # None /\ Expired(r, n) THEN Released(run[r], n < limit, 0) ELSE run[r]]

\* The columns both claim methods set for the new attempt.
Granted(rec) ==
  [rec EXCEPT !.active = rec.count + 1, !.count = rec.count + 1,
              !.exec = "CLAIMED", !.wait = 0]

NewAttempt == [status |-> "CLAIMED", lease |-> LeaseTime]

Grant(r, recovered) ==
  /\ run' = [recovered EXCEPT ![r] = Granted(recovered[r])]
  /\ att' = [FenceExpired EXCEPT ![r][recovered[r].count + 1] = NewAttempt]
  /\ UNCHANGED report

---------------------------------------------------------------------------
(* The API: create, execute, cancel. *)

CreateRun(r) ==
  /\ run[r].exec = "ABSENT"
  /\ \A s \in Runs : s < r => run[s].exec # "ABSENT"
  /\ run' = [run EXCEPT ![r].exec = "IDLE"]
  /\ UNCHANGED <<att, report>>

\* A repeated execute call does not look at the lease, or at the cancellation.
MutantQueueableLeased(r) ==
  run[r].exec \in {"IDLE", "CLAIMED", "RUNNING"} /\ ~run[r].cancel

\* A row whose control columns let queue_research_run act: not terminal, not
\* cancelled, not queued, not held under an unexpired lease.
Queueable(r) ==
  /\ run[r].exec \in {"IDLE", "CLAIMED", "RUNNING"}
  /\ ~run[r].cancel
  /\ run[r].exec # "IDLE" /\ run[r].active # None => att[r][run[r].active].lease = 0

QueueRun(r) ==
  /\ Queueable(r)
  /\ run' = [run EXCEPT ![r].exec = "QUEUED", ![r].wait = 0]
  /\ UNCHANGED <<att, report>>

\* A run that has ended can still be cancelled.
MutantRequestCancellation(r) ==
  /\ run[r].exec # "ABSENT"
  /\ run' = [run EXCEPT ![r] =
       IF run[r].active = None \/ run[r].exec = "QUEUED"
         THEN [@ EXCEPT !.cancel = TRUE, !.exec = "CANCELLED", !.status = "CANCELLED"]
         ELSE [@ EXCEPT !.cancel = TRUE, !.exec = "CANCEL_REQUESTED"]]
  /\ UNCHANGED <<att, report>>

RequestCancellation(r) ==
  /\ run[r].exec \notin Terminal \cup {"ABSENT"}
  /\ run' = [run EXCEPT ![r] =
       IF run[r].active = None \/ run[r].exec = "QUEUED"
         THEN [@ EXCEPT !.cancel = TRUE, !.exec = "CANCELLED", !.status = "CANCELLED"]
         ELSE [@ EXCEPT !.cancel = TRUE, !.exec = "CANCEL_REQUESTED"]]
  /\ UNCHANGED <<att, report>>

---------------------------------------------------------------------------
(* Claiming. *)

\* The poll does not count attempts.
MutantEligible(rec) == rec.exec = "QUEUED" /\ ~rec.cancel /\ rec.wait <= 0

Eligible(rec) ==
  rec.exec = "QUEUED" /\ ~rec.cancel /\ rec.count < MaxAttempts /\ rec.wait <= 0

\* A poll recovers expired attempts of every run and, in the same
\* transaction, claims the oldest eligible run.
ClaimNext ==
  LET recovered == RecoverExpired(MaxAttempts)
      eligible == {r \in Runs : Eligible(recovered[r])}
  IN \/ /\ eligible = {}
        /\ run' = recovered
        /\ att' = FenceExpired
        /\ UNCHANGED report
     \/ \E r \in eligible :
          /\ \A s \in eligible : r <= s
          /\ Grant(r, recovered)

\* claim_research_run serves callers that execute a run by id.  It recovers
\* with a literal limit of 3, takes an IDLE run too and has no attempt bound.
\* Its branch for an expired active attempt is dead once the recovery ran
\* (HeldRunHasLiveAttempt).
ClaimRun(r) ==
  LET recovered == RecoverExpired(InlineLimit)
  IN /\ InlineCallers
     /\ run[r].exec # "ABSENT"
     /\ \/ /\ recovered[r].exec \in {"QUEUED", "IDLE"}
           /\ ~recovered[r].cancel
           /\ recovered[r].wait <= 0
           /\ Grant(r, recovered)
        \/ /\ \/ recovered[r].exec \notin {"QUEUED", "IDLE"}
              \/ recovered[r].cancel
              \/ recovered[r].wait > 0
           /\ run' = recovered
           /\ att' = FenceExpired
           /\ UNCHANGED report

---------------------------------------------------------------------------
(* Writes of a claim <<r, n>>; each one passes the fence. *)

MarkRunning(r, n) ==
  /\ ClaimRecord(r, n)
  /\ att' = [att EXCEPT ![r][n].status = "RUNNING"]
  /\ run' = [run EXCEPT ![r].exec = "RUNNING"]
  /\ UNCHANGED report

RenewLease(r, n) ==
  /\ ClaimRecord(r, n)
  /\ att' = [att EXCEPT ![r][n].lease = LeaseTime]
  /\ UNCHANGED <<run, report>>

\* update_research_run keeps the control columns and refuses every stage but
\* CANCELLED once a cancellation is recorded; the agent never writes CANCELLED.
WriteStage(r, n, s) ==
  /\ ClaimRecord(r, n)
  /\ ~run[r].cancel
  /\ run' = [run EXCEPT ![r].status = s]
  /\ UNCHANGED <<att, report>>

\* The report is saved without presenting the claim.
MutantSaveReport(r, n) ==
  /\ run[r].exec \in Held
  /\ att[r][n].status # "NONE"
  /\ report' = [report EXCEPT ![r] = n]
  /\ UNCHANGED <<run, att>>

SaveReport(r, n) ==
  /\ ClaimRecord(r, n)
  /\ report' = [report EXCEPT ![r] = n]
  /\ UNCHANGED <<run, att>>

CompleteExecution(r, n, s) ==
  /\ ClaimRecord(r, n)
  /\ IF run[r].cancel \/ run[r].exec = "CANCEL_REQUESTED"
       THEN /\ att' = [att EXCEPT ![r][n].status = "CANCELLED"]
            /\ run' = [run EXCEPT ![r].exec = "CANCELLED", ![r].status = "CANCELLED",
                                  ![r].active = None]
       ELSE /\ att' = [att EXCEPT ![r][n].status = "SUCCEEDED"]
            /\ run' = [run EXCEPT ![r].exec = "COMPLETED", ![r].status = s,
                                  ![r].active = None]
  /\ UNCHANGED report

FailExecution(r, n, retryable) ==
  /\ ClaimRecord(r, n)
  /\ att' = [att EXCEPT ![r][n].status = "FAILED"]
  /\ run' = [run EXCEPT ![r] =
               Released(@, retryable /\ n < MaxAttempts, Backoff(n))]
  /\ UNCHANGED report

---------------------------------------------------------------------------
(* Process start and the clock. *)

\* recover_incomplete_work, run by every API process before it serves.  It
\* fences as RecoverExpired does, but with a literal limit of 3 on the run's
\* attempt count and without asking whether the expired attempt is the active
\* one.  Runs that were never queued are marked INTERRUPTED.
Startup ==
  /\ att' = FenceExpired
  /\ run' = [r \in Runs |->
       IF \E n \in Numbers : Expired(r, n)
         THEN IF run[r].exec \in Terminal
                THEN run[r]
                ELSE Released(run[r], run[r].count < StartupLimit, 0)
         ELSE IF run[r].exec = "IDLE" /\ run[r].status = "CREATED"
                THEN [run[r] EXCEPT !.status = "INTERRUPTED"]
                ELSE run[r]]
  /\ UNCHANGED report

Elapse(t) == IF t > 0 THEN t - 1 ELSE 0

Tick ==
  /\ run' = [r \in Runs |-> [run[r] EXCEPT !.wait = Elapse(@)]]
  /\ att' = [r \in Runs |-> [n \in Numbers |-> [att[r][n] EXCEPT !.lease = Elapse(@)]]]
  /\ UNCHANGED report

---------------------------------------------------------------------------
ClaimStep(r, n) ==
  \/ MarkRunning(r, n)
  \/ RenewLease(r, n)
  \/ \E s \in Stages : WriteStage(r, n, s)
  \/ SaveReport(r, n)
  \/ \E s \in FinalStages : CompleteExecution(r, n, s)
  \/ \E retryable \in BOOLEAN : FailExecution(r, n, retryable)

RunStep(r) ==
  \/ CreateRun(r)
  \/ QueueRun(r)
  \/ RequestCancellation(r)
  \/ ClaimRun(r)
  \/ \E n \in Numbers : ClaimStep(r, n)

Next == Tick \/ Startup \/ ClaimNext \/ \E r \in Runs : RunStep(r)

Spec == Init /\ [][Next]_vars

---------------------------------------------------------------------------
(* What the ledger must guarantee. *)

\* A run that is held names an attempt that is still CLAIMED or RUNNING, so
\* its expiry always leads to a recovery: no run is held by nobody.
HeldRunHasLiveAttempt ==
  \A r \in Runs : run[r].exec \in Held =>
    /\ run[r].active # None
    /\ att[r][run[r].active].status \in Live

\* At most one attempt of a run is live, it is the one active_attempt_id names
\* and it is the newest: recovery and startup, which look at attempts one by
\* one, can never release a run from under a newer claim.
LiveAttemptIsNewest ==
  \A r \in Runs, n \in Numbers : att[r][n].status \in Live =>
    n = run[r].active /\ n = run[r].count

\* A run offered to workers has no attempt whose lease still runs, although
\* queue_research_run re-queues without ending the attempt it finds expired.
QueuedIsUnowned ==
  \A r \in Runs : run[r].exec = "QUEUED" =>
    \A n \in Numbers : ~(att[r][n].status \in Live /\ att[r][n].lease > 0)

\* Once a cancellation is recorded the run is never queued, completed or failed,
\* even if mark_attempt_running overwrites CANCEL_REQUESTED with RUNNING.
CancellationDominates ==
  \A r \in Runs : run[r].cancel =>
    run[r].exec \in {"RUNNING", "CANCEL_REQUESTED", "CANCELLED"}

\* No sequence of claims, inline claims, retries, expiries and restarts gives a
\* run more attempts than configured (for limits of at least the literal 3).
AttemptBudget ==
  MaxAttempts >= StartupLimit => \A r \in Runs : run[r].count <= MaxAttempts

\* An attempt that succeeded is the last one of a run that is COMPLETED: no
\* finished run is executed again.
SuccessIsFinal ==
  \A r \in Runs, n \in Numbers : att[r][n].status = "SUCCEEDED" =>
    run[r].exec = "COMPLETED" /\ n = run[r].count

\* The visible status and the execution state agree on every ending.
StatusAgrees ==
  \A r \in Runs :
    /\ run[r].exec = "COMPLETED" => run[r].status \in FinalStages
    /\ run[r].exec = "FAILED" <=> run[r].status = "FAILED"
    /\ run[r].exec = "CANCELLED" <=> run[r].status = "CANCELLED"

\* A queued run can be claimed once its wait is over, or still has an expired
\* attempt whose recovery moves it on: nothing stays QUEUED for ever.
QueuedIsClaimable ==
  \A r \in Runs : run[r].exec = "QUEUED" =>
    run[r].count < MaxAttempts \/ run[r].active # None

\* A run fails because its attempt was lost only when that was its last one.
LostFailsOnlyWhenSpent ==
  \A r \in Runs :
    run[r].exec = "FAILED" /\ run[r].count # 0
      /\ att[r][run[r].count].status = "LOST" => run[r].count >= MaxAttempts

\* Who owns a run: a held run has a live attempt, the live attempt is the one
\* it names and its newest, and an offered run is owned by nobody.
OwnershipIsSound == HeldRunHasLiveAttempt /\ LiveAttemptIsNewest /\ QueuedIsUnowned

\* How a run ends: a recorded cancellation wins, a success is the last attempt,
\* and the two status columns tell of the same ending.
EndingsAreSound == CancellationDominates /\ SuccessIsFinal /\ StatusAgrees

\* How a run moves through the queue: never more attempts than configured, no
\* failure before they are spent, and no offer that nobody can take.
QueueIsSound == QueuedIsClaimable /\ LostFailsOnlyWhenSpent /\ AttemptBudget

\* Terminal runs never change again: neither state, stage nor stored report.
TerminalIsFrozen ==
  [][\A r \in Runs : run[r].exec \in Terminal =>
       /\ run'[r].exec = run[r].exec
       /\ run'[r].status = run[r].status
       /\ report'[r] = report[r]]_vars

\* A stored report is only replaced by the same or a later attempt's: an
\* attempt that lost its claim cannot overwrite its successor's report.
ReportIsFenced == [][\A r \in Runs : report'[r] >= report[r]]_vars

\* While its lease runs, an attempt loses its run only by ending itself:
\* neither polls, restarts nor repeated execute calls take it away.
NoStealing ==
  [][\A r \in Runs, n \in Numbers :
       run[r].active = n /\ att[r][n].lease > 0 /\ run'[r].active # n =>
         att'[r][n].status \in {"SUCCEEDED", "FAILED", "CANCELLED"}]_vars

---------------------------------------------------------------------------
\* The ledger as the client sees one run.
Phase(r) ==
  CASE run[r].exec = "ABSENT" -> "absent"
    [] run[r].exec = "IDLE" -> "idle"
    [] run[r].exec = "QUEUED" -> "offered"
    [] run[r].exec \in Held -> "owned"
    [] run[r].exec = "COMPLETED" -> "completed"
    [] run[r].exec = "FAILED" -> "failed"
    [] run[r].exec = "CANCELLED" -> "cancelled"

Client(r) == INSTANCE ResearchRun
  WITH phase <- Phase(r), epoch <- run[r].count, stop <- run[r].cancel,
       published <- report[r]

\* Every run behaves as ResearchRun promises, whatever the claims, leases and
\* restarts of that run and of the others do.
\* (\A r \in Runs : Client(r)!Spec, written so that TLC can check it.)
ImplementsResearchRun ==
  /\ \A r \in Runs : Client(r)!Init
  /\ [][\A r \in Runs : [Client(r)!Next]_(Client(r)!vars)]_vars
===========================================================================
