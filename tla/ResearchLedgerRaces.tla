------------------------ MODULE ResearchLedgerRaces ------------------------
(***************************************************************************)
(* The ledger with several processes on one database.  A worker's write    *)
(* reads its run and attempt with plain SELECTs (_claim_record), decides,  *)
(* and updates the rows by primary key when the session commits.  Neither  *)
(* PostgreSQL's READ COMMITTED nor SQLite, which takes its write lock at   *)
(* the first UPDATE, repeats the check, so anything may commit in between. *)
(* The session writes the columns it changed and no others.  An attempt's  *)
(* worker is one event loop and has one such session open at a time.       *)
(*                                                                         *)
(* queue, claim and cancel hold the run row (FOR UPDATE) or the database   *)
(* (BEGIN IMMEDIATE) and stay one step, as do the recovery scans.  Callers *)
(* that claim by id live in one process and are left out.                  *)
(***************************************************************************)
EXTENDS ResearchLedger

VARIABLE txn     \* the session each attempt's worker has open

racesVars == <<vars, txn>>

Operations == {"mark", "renew", "stage", "report", "complete", "fail"}
NoTxn == [op |-> "none", arg |-> "none", cancel |-> FALSE, lease |-> 0]
Txn == [op : Operations \cup {"none"}, arg : Stages \cup FinalStages \cup {"none", "retryable"},
        cancel : BOOLEAN, lease : 0 .. LeaseTime]

RacesTypeOK ==
  /\ TypeOK
  /\ txn \in [Runs -> [Numbers -> Txn]]

RacesInit == Init /\ txn = [r \in Runs |-> [n \in Numbers |-> NoTxn]]

\* What the session has read: the fence holds, and whether a cancellation was
\* requested.  A renewal also computes the new expiry now.
Begin(r, n, op, arg) ==
  /\ txn[r][n] = NoTxn
  /\ ClaimRecord(r, n)
  /\ txn' = [txn EXCEPT ![r][n] =
       [op |-> op, arg |-> arg,
        cancel |-> run[r].cancel \/ run[r].exec = "CANCEL_REQUESTED",
        lease |-> IF op = "renew" THEN LeaseTime ELSE 0]]
  /\ UNCHANGED vars

BeginWrite(r, n) ==
  \/ att[r][n].status = "CLAIMED" /\ Begin(r, n, "mark", "none")
  \/ \E op \in {"renew", "report"} : Begin(r, n, op, "none")
  \/ ~run[r].cancel /\ \E s \in Stages : Begin(r, n, "stage", s)
  \/ \E s \in FinalStages : Begin(r, n, "complete", s)
  \/ \E arg \in {"none", "retryable"} : Begin(r, n, "fail", arg)

Ends(r, n, op) == txn[r][n].op = op /\ txn' = [txn EXCEPT ![r][n] = NoTxn]

CommitMark(r, n) ==
  /\ Ends(r, n, "mark")
  /\ att' = [att EXCEPT ![r][n].status = "RUNNING"]
  /\ run' = [run EXCEPT ![r].exec = "RUNNING"]
  /\ UNCHANGED report

\* The heartbeat writes back the claim it read together with the lease.
MutantCommitRenewal(r, n) ==
  /\ Ends(r, n, "renew")
  /\ att' = [att EXCEPT ![r][n].lease = txn[r][n].lease]
  /\ run' = [run EXCEPT ![r].active = n]
  /\ UNCHANGED report

CommitRenewal(r, n) ==
  /\ Ends(r, n, "renew")
  /\ att' = [att EXCEPT ![r][n].lease = txn[r][n].lease]
  /\ UNCHANGED <<run, report>>

\* The stage is written back with the whole snapshot it was read with.
MutantCommitStage(r, n) ==
  /\ Ends(r, n, "stage")
  /\ run' = [run EXCEPT ![r].status = txn[r][n].arg, ![r].cancel = txn[r][n].cancel]
  /\ UNCHANGED <<att, report>>

CommitStage(r, n) ==
  /\ Ends(r, n, "stage")
  /\ run' = [run EXCEPT ![r].status = txn[r][n].arg]
  /\ UNCHANGED <<att, report>>

CommitReport(r, n) ==
  /\ Ends(r, n, "report")
  /\ report' = [report EXCEPT ![r] = n]
  /\ UNCHANGED <<run, att>>

CommitCompletion(r, n) ==
  /\ Ends(r, n, "complete")
  /\ IF txn[r][n].cancel
       THEN /\ att' = [att EXCEPT ![r][n].status = "CANCELLED"]
            /\ run' = [run EXCEPT ![r].exec = "CANCELLED", ![r].status = "CANCELLED",
                                  ![r].active = None]
       ELSE /\ att' = [att EXCEPT ![r][n].status = "SUCCEEDED"]
            /\ run' = [run EXCEPT ![r].exec = "COMPLETED", ![r].status = txn[r][n].arg,
                                  ![r].active = None]
  /\ UNCHANGED report

\* The branch is chosen by the cancellation the session read.
CommitFailure(r, n) ==
  LET read == [run[r] EXCEPT !.cancel = txn[r][n].cancel]
      retry == txn[r][n].arg = "retryable" /\ n < MaxAttempts
  IN /\ Ends(r, n, "fail")
     /\ att' = [att EXCEPT ![r][n].status = "FAILED"]
     /\ run' = [run EXCEPT ![r] =
                 [Released(read, retry, Backoff(n)) EXCEPT !.cancel = run[r].cancel]]
     /\ UNCHANGED report

Commit(r, n) ==
  \/ CommitMark(r, n) \/ CommitRenewal(r, n) \/ CommitStage(r, n)
  \/ CommitReport(r, n) \/ CommitCompletion(r, n) \/ CommitFailure(r, n)

\* The worker dies or the database rolls the session back.
Rollback(r, n) ==
  /\ txn[r][n] # NoTxn
  /\ txn' = [txn EXCEPT ![r][n] = NoTxn]
  /\ UNCHANGED vars

Locked(r) == CreateRun(r) \/ QueueRun(r) \/ RequestCancellation(r)

RacesTick ==
  /\ Tick
  /\ txn' = [r \in Runs |-> [n \in Numbers |-> [txn[r][n] EXCEPT !.lease = Elapse(@)]]]

RacesNext ==
  \/ RacesTick
  \/ (Startup \/ ClaimNext \/ \E r \in Runs : Locked(r)) /\ UNCHANGED txn
  \/ \E r \in Runs, n \in Numbers : BeginWrite(r, n) \/ Commit(r, n) \/ Rollback(r, n)

RacesSpec == RacesInit /\ [][RacesNext]_racesVars

---------------------------------------------------------------------------
(* What survives the races, and what the documents promise. *)

\* A claim that was lost stays lost: no commit, however late, gives an attempt
\* its run back, and of what it had checked before its worker can commit one
\* write at most, the session it has open (_claim_record and the methods that
\* call it; the recovery scans and claims of other processes come in between).
LostClaimIsLost ==
  [][\A r \in Runs, n \in Numbers : n <= run[r].count /\ run[r].active # n =>
       /\ run'[r].active # n
       /\ txn[r][n] = NoTxn => txn'[r][n] = NoTxn]_racesVars

\* A run that is said to be COMPLETED has an attempt that succeeded: late commits
\* may overwrite the state of the run, but none they can make, and no recovery,
\* takes back the verdict an attempt was given (complete_execution, mark_attempt_running,
\* _recover_expired_attempts_session).
CompletionIsBacked ==
  \A r \in Runs : run[r].exec = "COMPLETED" => \E n \in Numbers : att[r][n].status = "SUCCEEDED"

\* A recorded cancellation request is never lost: stage snapshots keep the
\* control columns they do not own.
CancellationIsKept == [][\A r \in Runs : run[r].cancel => run'[r].cancel]_racesVars

\* docs/architecture.md, Phase 13B: finalization is cancellation-dominant.
FinalizationIsCancellationDominant ==
  \A r \in Runs : run[r].cancel => run[r].exec \notin {"COMPLETED", "FAILED"}

\* docs/architecture.md, Phase 13B: an expired or replaced claim cannot publish
\* a report.
ReplacedClaimCannotPublish ==
  [][\A r \in Runs : report'[r] # report[r] => report'[r] = run[r].count]_racesVars
===========================================================================
