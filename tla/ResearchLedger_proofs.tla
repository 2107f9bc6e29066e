----------------------- MODULE ResearchLedger_proofs -----------------------
(***************************************************************************)
(* Proofs about the ledger and about its use by several processes, for     *)
(* every number of runs, processes and task slots and every attempt limit  *)
(* and lease.                                                              *)
(*                                                                         *)
(* First ResearchLedger by itself.                                         *)
(*                                                                         *)
(* Then ResearchLedgerRaces: what is left of the ledger when the fence is  *)
(* read in one transaction and acted upon in a later one.  The invariant   *)
(* of ResearchLedger is of no use there: two attempts of a run may be live *)
(* at once, and a run may end twice.  Only facts that each commit keeps by *)
(* itself survive.                                                         *)
(*                                                                         *)
(* Last ResearchWorkers: the workers only take steps of the ledger, a task *)
(* that lost its claim changes nothing, and nothing final is visible       *)
(* without the report it speaks of.                                        *)
(***************************************************************************)
EXTENDS ResearchLedgerRaces, ResearchWorkers, TLAPS

\* What holds of one run row rec and its attempts a, and is kept by every
\* method.  It is stated of values, so that the row a recovery computes, which
\* a claim changes further in the same step, can be spoken of too.
Ownership(rec, a) ==
  /\ rec.active = None \/ rec.active = rec.count
  /\ \A n \in Numbers : a[n].status \in Live => n = rec.active
  /\ rec.exec \in Held => rec.active # None /\ a[rec.active].status \in Live
  /\ rec.exec = "QUEUED" =>
       IF rec.active = None THEN rec.count < AttemptCap
       ELSE a[rec.active].status \in Live /\ a[rec.active].lease = 0
  /\ rec.exec \in {"ABSENT", "IDLE"} => rec.active = None /\ rec.count = 0

Endings(rec, a) ==
  /\ rec.cancel => rec.exec \in {"RUNNING", "CANCEL_REQUESTED", "CANCELLED"}
  /\ rec.exec \in {"CANCEL_REQUESTED", "CANCELLED"} => rec.cancel
  /\ rec.exec \in {"COMPLETED", "FAILED"} => rec.active = None
  /\ rec.exec = "COMPLETED" => rec.status \in FinalStages
  /\ rec.exec = "FAILED" <=> rec.status = "FAILED"
  /\ rec.exec = "CANCELLED" <=> rec.status = "CANCELLED"
  /\ \A n \in Numbers : a[n].status = "SUCCEEDED" => rec.exec = "COMPLETED" /\ n = rec.count

RowInv(rec, a) == Ownership(rec, a) /\ Endings(rec, a)

IInv ==
  /\ TypeOK
  /\ \A r \in Runs : RowInv(run[r], att[r]) /\ report[r] <= run[r].count

Row == [Numbers -> AttemptRecord]

USE MaxAttemptsAssumption, LeaseTimeAssumption, StagesAssumption, InlineAssumption

\* The attempt limits in use never exceed the number of attempt numbers.
LEMMA CapFacts ==
  /\ AttemptCap \in Nat \ {0}
  /\ MaxAttempts <= AttemptCap
  /\ InlineLimit <= AttemptCap
  /\ StartupLimit <= AttemptCap
  BY DEF AttemptCap, InlineLimit, StartupLimit

\* The invariant holds at the start.
LEMMA InitIInv == Init => IInv
  <1>. SUFFICES ASSUME Init PROVE IInv
    OBVIOUS
  <1>1. TypeOK
    BY CapFacts DEF Init, TypeOK, RunRecord, AttemptRecord, Numbers, None,
       ExecutionStates, AttemptStates, Statuses
  <1>2. ASSUME NEW r \in Runs PROVE RowInv(run[r], att[r]) /\ report[r] <= run[r].count
    BY DEF Init, RowInv, Ownership, Endings, Live, Held, None, FinalStages
  <1>. QED
    BY <1>1, <1>2 DEF IInv

\* A retry wait is a number.
LEMMA BackoffType == ASSUME NEW n \in Numbers PROVE Backoff(n) \in Int
  <1>1. n \in Nat /\ n - 1 \in Nat
    BY CapFacts DEF Numbers
  <1>2. 2^(n-1) \in Int
    BY <1>1
  <1>. QED
    BY <1>2 DEF Backoff

\* Releasing a run keeps its row well typed.
LEMMA ReleasedType ==
  ASSUME NEW rec \in RunRecord, NEW retry \in BOOLEAN, NEW delay \in Int
  PROVE  Released(rec, retry, delay) \in RunRecord
  BY DEF Released, RunRecord, ExecutionStates, Terminal, Statuses, None, StageNames, FinalStages

\* Releasing a run whose attempts are all ended keeps RowInv, provided a retry
\* is only granted below the last attempt number.
LEMMA ReleasedRow ==
  ASSUME NEW rec \in RunRecord, NEW a \in Row,
         NEW retry \in BOOLEAN, NEW delay \in Int,
         \A n \in Numbers : a[n].status \notin Live /\ a[n].status # "SUCCEEDED",
         retry => rec.count < AttemptCap,
         rec.exec \notin {"ABSENT", "IDLE", "COMPLETED", "FAILED"},
         rec.exec \in {"CANCEL_REQUESTED", "CANCELLED"} => rec.cancel,
         rec.status = "FAILED" => rec.exec = "FAILED",
         rec.status = "CANCELLED" => rec.exec = "CANCELLED"
  PROVE  RowInv(Released(rec, retry, delay), a)
  <1>1. Ownership(Released(rec, retry, delay), a)
    BY DEF Released, Ownership, RunRecord, None, Held
  <1>2. Endings(Released(rec, retry, delay), a)
    BY DEF Released, Endings, RunRecord, None
  <1>. QED
    BY <1>1, <1>2 DEF RowInv

\* What fencing does to the attempts of a run: the expired ones, and only
\* those, become LOST; the rest of the row stays.
LEMMA FenceFacts ==
  ASSUME TypeOK, NEW r \in Runs
  PROVE  /\ FenceExpired[r] \in Row
         /\ \A n \in Numbers :
              /\ FenceExpired[r][n].lease = att[r][n].lease
              /\ Expired(r, n) => FenceExpired[r][n].status = "LOST"
              /\ ~Expired(r, n) => FenceExpired[r][n] = att[r][n]
  <1>1. \A n \in Numbers : att[r][n] \in AttemptRecord
    BY DEF TypeOK
  <1>2. FenceExpired[r] = [n \in Numbers |->
          IF Expired(r, n) THEN [att[r][n] EXCEPT !.status = "LOST"] ELSE att[r][n]]
    BY DEF FenceExpired
  <1>3. \A n \in Numbers : FenceExpired[r][n] =
          IF Expired(r, n) THEN [att[r][n] EXCEPT !.status = "LOST"] ELSE att[r][n]
    BY <1>2
  <1>4. \A n \in Numbers : [att[r][n] EXCEPT !.status = "LOST"] \in AttemptRecord
    BY <1>1 DEF AttemptRecord, AttemptStates
  <1>5. FenceExpired[r] \in Row
    BY <1>1, <1>2, <1>4 DEF Row
  <1>6. ASSUME NEW n \in Numbers
        PROVE  /\ FenceExpired[r][n].lease = att[r][n].lease
               /\ Expired(r, n) => FenceExpired[r][n].status = "LOST"
               /\ ~Expired(r, n) => FenceExpired[r][n] = att[r][n]
    BY <1>1, <1>3 DEF AttemptRecord
  <1>. QED
    BY <1>5, <1>6

\* Recovery keeps RowInv, whichever of the limits in use it applies, and what
\* it leaves QUEUED is owned by no attempt.
LEMMA RecoveredRow ==
  ASSUME TypeOK, NEW r \in Runs, RowInv(run[r], att[r]),
         NEW limit \in Nat, limit <= AttemptCap
  PROVE  /\ RecoverExpired(limit)[r] \in RunRecord
         /\ RecoverExpired(limit)[r].count = run[r].count
         /\ RowInv(RecoverExpired(limit)[r], FenceExpired[r])
         /\ RecoverExpired(limit)[r].exec \in {"QUEUED", "IDLE"} =>
              RecoverExpired(limit)[r].active = None
  <1>1. run[r] \in RunRecord /\ att[r] \in Row
    BY DEF TypeOK, Row
  <1>2. run[r].active \in {None} \cup Numbers /\ run[r].count \in {0} \cup Numbers
    BY <1>1 DEF RunRecord
  <1>3. None \notin Numbers
    BY CapFacts DEF None, Numbers
  <1>4. CASE run[r].active # None /\ Expired(r, run[r].active)
    <2>. DEFINE retry == run[r].active < limit
    <2>1. RecoverExpired(limit)[r] = Released(run[r], retry, 0)
      BY <1>4 DEF RecoverExpired
    <2>2. \A n \in Numbers :
            FenceExpired[r][n].status \notin Live /\ FenceExpired[r][n].status # "SUCCEEDED"
      BY <1>1, <1>2, <1>3, <1>4, FenceFacts
      DEF RowInv, Ownership, Endings, Expired, Live, None
    <2>3. run[r].active = run[r].count /\ run[r].active \in Numbers
      BY <1>2, <1>4 DEF RowInv, Ownership
    <2>4. retry \in BOOLEAN /\ (retry => run[r].count < AttemptCap)
      BY <2>3, CapFacts DEF Numbers
    <2>. HIDE DEF retry
    <2>5. /\ run[r].exec \notin {"ABSENT", "IDLE", "COMPLETED", "FAILED"}
          /\ run[r].exec \in {"CANCEL_REQUESTED", "CANCELLED"} => run[r].cancel
          /\ run[r].status = "FAILED" => run[r].exec = "FAILED"
          /\ run[r].status = "CANCELLED" => run[r].exec = "CANCELLED"
      BY <1>4 DEF RowInv, Ownership, Endings
    <2>6. RowInv(RecoverExpired(limit)[r], FenceExpired[r])
      BY <1>1, <2>1, <2>2, <2>4, <2>5, FenceFacts, ReleasedRow
    <2>7. RecoverExpired(limit)[r] \in RunRecord
      BY <1>1, <2>1, <2>4, ReleasedType
    <2>8. /\ RecoverExpired(limit)[r].count = run[r].count
          /\ RecoverExpired(limit)[r].active = None
      BY <1>1, <2>1 DEF Released, RunRecord
    <2>. QED
      BY <2>6, <2>7, <2>8
  <1>5. CASE ~(run[r].active # None /\ Expired(r, run[r].active))
    <2>1. RecoverExpired(limit)[r] = run[r]
      BY <1>5 DEF RecoverExpired
    <2>2. \A n \in Numbers : FenceExpired[r][n] = att[r][n]
      BY <1>5, <1>3, FenceFacts DEF RowInv, Ownership, Expired
    <2>3. run[r].exec \in {"QUEUED", "IDLE"} => run[r].active = None
      BY <1>5, <1>2 DEF RowInv, Ownership, Expired
    <2>4. FenceExpired[r] = att[r]
      BY <2>2, <1>1, FenceFacts DEF Row
    <2>. QED
      BY <1>1, <2>1, <2>3, <2>4
  <1>. QED
    BY <1>4, <1>5

\* A new attempt, granted to a recovered row that nothing owns, keeps RowInv.
LEMMA GrantedRow ==
  ASSUME NEW rec \in RunRecord, NEW a \in Row, RowInv(rec, a),
         rec.exec \in {"QUEUED", "IDLE"}, rec.active = None
  PROVE  /\ rec.count + 1 \in Numbers
         /\ Granted(rec) \in RunRecord
         /\ [a EXCEPT ![rec.count + 1] = NewAttempt] \in Row
         /\ RowInv(Granted(rec), [a EXCEPT ![rec.count + 1] = NewAttempt])
  <1>. DEFINE k == rec.count + 1
              b == [a EXCEPT ![k] = NewAttempt]
  <1>1. rec.count \in {0} \cup Numbers /\ rec.count < AttemptCap
    BY CapFacts DEF RunRecord, RowInv, Ownership
  <1>2. k \in Numbers
    BY <1>1, CapFacts DEF Numbers
  <1>3. Granted(rec) \in RunRecord
    <2>1. "CLAIMED" \in ExecutionStates
      BY DEF ExecutionStates, Held
    <2>. DEFINE rec1 == [rec EXCEPT !.active = k]
                rec2 == [rec1 EXCEPT !.count = k]
                rec3 == [rec2 EXCEPT !.exec = "CLAIMED"]
    <2>2. Granted(rec) = [rec3 EXCEPT !.wait = 0]
      BY DEF Granted
    <2>. HIDE DEF k
    <2>3. rec1 \in RunRecord
      BY <1>2 DEF RunRecord
    <2>. HIDE DEF rec1
    <2>4. rec2 \in RunRecord
      BY <1>2, <2>3 DEF RunRecord
    <2>. HIDE DEF rec2
    <2>5. rec3 \in RunRecord
      BY <2>1, <2>4 DEF RunRecord
    <2>. HIDE DEF rec3
    <2>. QED
      BY <2>2, <2>5 DEF RunRecord
  <1>4. NewAttempt \in AttemptRecord /\ NewAttempt.status \in Live
    BY DEF NewAttempt, AttemptRecord, AttemptStates, Live
  <1>5. b \in Row /\ b[k] = NewAttempt /\ \A n \in Numbers \ {k} : b[n] = a[n]
    BY <1>2, <1>4 DEF Row
  <1>6. /\ Granted(rec).active = k /\ Granted(rec).count = k
        /\ Granted(rec).exec = "CLAIMED" /\ Granted(rec).status = rec.status
        /\ Granted(rec).cancel = rec.cancel
    BY DEF Granted, RunRecord
  <1>7. \A n \in Numbers : a[n].status \notin Live /\ a[n].status # "SUCCEEDED"
    BY CapFacts DEF RowInv, Ownership, Endings, None, Numbers
  <1>8. NewAttempt.status # "SUCCEEDED"
    BY DEF NewAttempt
  <1>9. k # None
    BY <1>2, CapFacts DEF None, Numbers
  <1>. HIDE DEF k, b
  <1>10. Ownership(Granted(rec), b)
    BY <1>2, <1>4, <1>5, <1>6, <1>7, <1>9 DEF Ownership, Held
  <1>11. Endings(Granted(rec), b)
    BY <1>2, <1>5, <1>6, <1>7, <1>8 DEF Endings, RowInv
  <1>. QED
    BY <1>2, <1>3, <1>5, <1>10, <1>11 DEF RowInv, k, b

\* A step that recovers every run and leaves it at that.
LEMMA RecoveryStep ==
  ASSUME IInv, NEW limit \in Nat, limit <= AttemptCap,
         run' = RecoverExpired(limit), att' = FenceExpired, UNCHANGED report
  PROVE  IInv'
  <1>1. run' \in [Runs -> RunRecord]
    <2>1. \A r \in Runs : RecoverExpired(limit)[r] \in RunRecord
      BY RecoveredRow DEF IInv
    <2>. QED
      BY <2>1 DEF RecoverExpired
  <1>2. att' \in [Runs -> [Numbers -> AttemptRecord]]
    <2>1. \A r \in Runs : FenceExpired[r] \in Row
      BY FenceFacts DEF IInv
    <2>. QED
      BY <2>1 DEF FenceExpired, Row
  <1>3. \A r \in Runs : RowInv(run'[r], att'[r]) /\ report'[r] <= run'[r].count
    BY RecoveredRow DEF IInv
  <1>. QED
    BY <1>1, <1>2, <1>3 DEF IInv, TypeOK, RowInv, Ownership, Endings

\* A step that changes nothing but one run's row, attempts and report.
LEMMA RowStep ==
  ASSUME IInv, NEW r \in Runs, NEW rec \in RunRecord, NEW a \in Row,
         NEW rep \in {None} \cup Numbers, RowInv(rec, a), rep <= rec.count,
         run' = [run EXCEPT ![r] = rec], att' = [att EXCEPT ![r] = a],
         report' = [report EXCEPT ![r] = rep]
  PROVE  IInv'
  <1>1. TypeOK'
    BY DEF IInv, TypeOK, Row
  <1>2. ASSUME NEW s \in Runs PROVE RowInv(run'[s], att'[s]) /\ report'[s] <= run'[s].count
    <2>1. CASE s = r
      BY <2>1 DEF IInv, TypeOK
    <2>2. CASE s # r
      BY <2>2 DEF IInv, TypeOK
    <2>. QED
      BY <2>1, <2>2
  <1>. QED
    BY <1>1, <1>2 DEF IInv, RowInv, Ownership, Endings

\* A step that recovers every run and grants one a new attempt.
LEMMA GrantStep ==
  ASSUME IInv, NEW limit \in Nat, limit <= AttemptCap, NEW r \in Runs,
         RecoverExpired(limit)[r].exec \in {"QUEUED", "IDLE"},
         Grant(r, RecoverExpired(limit))
  PROVE  IInv'
  <1>. DEFINE rec == RecoverExpired(limit)
              k == rec[r].count + 1
              b == [FenceExpired[r] EXCEPT ![k] = NewAttempt]
  <1>1. \A s \in Runs : rec[s] \in RunRecord /\ rec[s].count = run[s].count
                        /\ RowInv(rec[s], FenceExpired[s])
    BY RecoveredRow DEF IInv
  <1>2. \A s \in Runs : FenceExpired[s] \in Row
    BY FenceFacts DEF IInv
  <1>3. rec[r].active = None
    BY RecoveredRow DEF IInv
  <1>4. k \in Numbers /\ Granted(rec[r]) \in RunRecord /\ b \in Row /\ RowInv(Granted(rec[r]), b)
    BY <1>1, <1>2, <1>3, GrantedRow
  <1>5. run' = [rec EXCEPT ![r] = Granted(rec[r])]
    BY DEF Grant
  <1>6. att' = [FenceExpired EXCEPT ![r] = b]
    BY DEF Grant
  <1>7. DOMAIN rec = Runs /\ rec = [s \in Runs |-> rec[s]]
    BY DEF RecoverExpired
  <1>8. DOMAIN FenceExpired = Runs /\ FenceExpired = [s \in Runs |-> FenceExpired[s]]
    BY DEF FenceExpired
  <1>9. Granted(rec[r]).count = run[r].count + 1
    BY <1>1 DEF Granted, RunRecord
  <1>10. report' = report
    BY DEF Grant
  <1>. HIDE DEF rec, b, k
  <1>11. TypeOK'
    <2>1. run' \in [Runs -> RunRecord]
      BY <1>1, <1>4, <1>5, <1>7
    <2>2. att' \in [Runs -> Row]
      BY <1>2, <1>4, <1>6, <1>8
    <2>. QED
      BY <2>1, <2>2, <1>10 DEF IInv, TypeOK, Row
  <1>12. ASSUME NEW s \in Runs PROVE RowInv(run'[s], att'[s]) /\ report'[s] <= run'[s].count
    <2>1. CASE s = r
      <3>1. run'[s] = Granted(rec[r]) /\ att'[s] = b
        BY <2>1, <1>5, <1>6, <1>7, <1>8
      <3>2. report'[s] <= run[r].count + 1
        BY <2>1, <1>10, CapFacts DEF IInv, TypeOK, RunRecord, Numbers, None
      <3>. QED
        BY <3>1, <3>2, <1>4, <1>9
    <2>2. CASE s # r
      <3>1. run'[s] = rec[s] /\ att'[s] = FenceExpired[s]
        BY <2>2, <1>5, <1>6, <1>7, <1>8
      <3>. QED
        BY <3>1, <1>1, <1>10 DEF IInv
    <2>. QED
      BY <2>1, <2>2
  <1>. QED
    BY <1>11, <1>12 DEF IInv, RowInv, Ownership, Endings

\* The facts about one run that the steps below start from.
LEMMA RowFacts ==
  ASSUME IInv, NEW r \in Runs
  PROVE  /\ run[r] \in RunRecord /\ att[r] \in Row /\ report[r] \in {None} \cup Numbers
         /\ RowInv(run[r], att[r]) /\ report[r] <= run[r].count
         /\ run = [run EXCEPT ![r] = run[r]]
         /\ att = [att EXCEPT ![r] = att[r]]
         /\ report = [report EXCEPT ![r] = report[r]]
  BY DEF IInv, TypeOK, Row

\* A run that passes the fence is held by the attempt that presents it.
LEMMA FenceHolds ==
  ASSUME IInv, NEW r \in Runs, NEW n \in Numbers, ClaimRecord(r, n)
  PROVE  /\ run[r].active = n /\ run[r].count = n /\ run[r].exec \in Held
         /\ att[r][n].status \in Live /\ att[r][n].lease > 0 /\ n # None
         /\ \A m \in Numbers \ {n} : att[r][m].status \notin Live
         /\ \A m \in Numbers : att[r][m].status # "SUCCEEDED"
  BY RowFacts, CapFacts DEF RowInv, Ownership, Endings, ClaimRecord, Held, None, Numbers

LEMMA CreateRunStep == ASSUME IInv, NEW r \in Runs, CreateRun(r) PROVE IInv'
  <1>. DEFINE rec == [run[r] EXCEPT !.exec = "IDLE"]
  <1>1. rec \in RunRecord /\ rec.count = run[r].count
    BY RowFacts DEF RunRecord, ExecutionStates
  <1>2. RowInv(rec, att[r])
    BY RowFacts DEF CreateRun, RowInv, Ownership, Endings, RunRecord, Held
  <1>3. run' = [run EXCEPT ![r] = rec] /\ att' = att /\ report' = report
    BY DEF CreateRun
  <1>. HIDE DEF rec
  <1>. QED
    BY <1>1, <1>2, <1>3, RowFacts, RowStep

LEMMA QueueRunStep == ASSUME IInv, NEW r \in Runs, QueueRun(r) PROVE IInv'
  <1>. DEFINE rec == [run[r] EXCEPT !.exec = "QUEUED", !.wait = 0]
  <1>1. rec \in RunRecord /\ rec.count = run[r].count
    <2>. DEFINE queued == [run[r] EXCEPT !.exec = "QUEUED"]
    <2>1. queued \in RunRecord /\ queued.count = run[r].count
      BY RowFacts DEF RunRecord, ExecutionStates
    <2>2. rec = [queued EXCEPT !.wait = 0]
      OBVIOUS
    <2>. HIDE DEF queued, rec
    <2>. QED
      BY <2>1, <2>2 DEF RunRecord
  <1>2. Ownership(rec, att[r])
    BY RowFacts, CapFacts DEF QueueRun, Queueable, RowInv, Ownership, RunRecord, Held, None
  <1>3. Endings(rec, att[r])
    BY RowFacts DEF QueueRun, Queueable, RowInv, Endings, RunRecord
  <1>4. run' = [run EXCEPT ![r] = rec] /\ att' = att /\ report' = report
    BY RowFacts DEF QueueRun, RunRecord
  <1>. HIDE DEF rec
  <1>. QED
    BY <1>1, <1>2, <1>3, <1>4, RowFacts, RowStep DEF RowInv

LEMMA RequestCancellationStep ==
  ASSUME IInv, NEW r \in Runs, RequestCancellation(r) PROVE IInv'
  <1>. DEFINE rec == IF run[r].active = None \/ run[r].exec = "QUEUED"
         THEN [run[r] EXCEPT !.cancel = TRUE, !.exec = "CANCELLED", !.status = "CANCELLED"]
         ELSE [run[r] EXCEPT !.cancel = TRUE, !.exec = "CANCEL_REQUESTED"]
  <1>1. rec \in RunRecord /\ rec.count = run[r].count
    BY RowFacts, ZenonT(60) DEF RunRecord, ExecutionStates, Terminal, Held, Statuses
  <1>2. run[r].exec \in {"IDLE", "QUEUED"} \cup Held
    BY RowFacts DEF RequestCancellation, RunRecord, ExecutionStates
  <1>3. Ownership(rec, att[r])
    BY <1>2, RowFacts DEF RowInv, Ownership, RunRecord, Held
  <1>4. Endings(rec, att[r])
    BY <1>2, RowFacts DEF RowInv, Endings, RunRecord, Held
  <1>5. run' = [run EXCEPT ![r] = rec] /\ att' = att /\ report' = report
    BY DEF RequestCancellation
  <1>. HIDE DEF rec
  <1>. QED
    BY <1>1, <1>3, <1>4, <1>5, RowFacts, RowStep DEF RowInv

LEMMA MarkRunningStep ==
  ASSUME IInv, NEW r \in Runs, NEW n \in Numbers, MarkRunning(r, n) PROVE IInv'
  <1>. DEFINE rec == [run[r] EXCEPT !.exec = "RUNNING"]
              a == [att[r] EXCEPT ![n].status = "RUNNING"]
  <1>1. ClaimRecord(r, n)
    BY DEF MarkRunning
  <1>2. rec \in RunRecord /\ rec.count = run[r].count
    BY RowFacts DEF RunRecord, ExecutionStates, Held
  <1>3. a \in Row /\ a[n].status = "RUNNING" /\ \A m \in Numbers \ {n} : a[m] = att[r][m]
    BY RowFacts DEF Row, AttemptRecord, AttemptStates, Live
  <1>4. run' = [run EXCEPT ![r] = rec] /\ att' = [att EXCEPT ![r] = a] /\ report' = report
    BY DEF MarkRunning
  <1>. HIDE DEF a
  <1>5. Ownership(rec, a)
    BY <1>1, <1>3, FenceHolds, RowFacts DEF Ownership, RunRecord, Held, Live
  <1>6. Endings(rec, a)
    BY <1>1, <1>3, FenceHolds, RowFacts DEF RowInv, Endings, RunRecord, Held
  <1>. HIDE DEF rec
  <1>. QED
    BY <1>2, <1>3, <1>4, <1>5, <1>6, RowFacts, RowStep DEF RowInv

LEMMA RenewLeaseStep ==
  ASSUME IInv, NEW r \in Runs, NEW n \in Numbers, RenewLease(r, n) PROVE IInv'
  <1>. DEFINE a == [att[r] EXCEPT ![n].lease = LeaseTime]
  <1>1. ClaimRecord(r, n)
    BY DEF RenewLease
  <1>2. a \in Row /\ \A m \in Numbers : a[m].status = att[r][m].status
    BY RowFacts DEF Row, AttemptRecord
  <1>3. att' = [att EXCEPT ![r] = a] /\ run' = run /\ report' = report
    BY DEF RenewLease
  <1>. HIDE DEF a
  <1>4. RowInv(run[r], a)
    BY <1>1, <1>2, FenceHolds, RowFacts DEF RowInv, Ownership, Endings, Held
  <1>. QED
    BY <1>2, <1>3, <1>4, RowFacts, RowStep

LEMMA WriteStageStep ==
  ASSUME IInv, NEW r \in Runs, NEW n \in Numbers, NEW s \in Stages, WriteStage(r, n, s)
  PROVE  IInv'
  <1>. DEFINE rec == [run[r] EXCEPT !.status = s]
  <1>1. ClaimRecord(r, n)
    BY DEF WriteStage
  <1>2. s \in Statuses /\ s \notin {"FAILED", "CANCELLED"}
    BY DEF Statuses, StageNames, FinalStages
  <1>3. rec \in RunRecord /\ rec.count = run[r].count
    BY <1>2, RowFacts DEF RunRecord
  <1>4. RowInv(rec, att[r])
    BY <1>1, <1>2, FenceHolds, RowFacts DEF RowInv, Ownership, Endings, RunRecord, Held
  <1>5. run' = [run EXCEPT ![r] = rec] /\ att' = att /\ report' = report
    BY DEF WriteStage
  <1>. HIDE DEF rec
  <1>. QED
    BY <1>3, <1>4, <1>5, RowFacts, RowStep

LEMMA SaveReportStep ==
  ASSUME IInv, NEW r \in Runs, NEW n \in Numbers, SaveReport(r, n) PROVE IInv'
  <1>1. run[r].count = n /\ n <= run[r].count
    BY FenceHolds, CapFacts DEF SaveReport, Numbers
  <1>2. report' = [report EXCEPT ![r] = n] /\ run' = run /\ att' = att
    BY DEF SaveReport
  <1>. QED
    BY <1>1, <1>2, RowFacts, RowStep

\* An attempt that ends itself and leaves the run ended or queued.
LEMMA EndingStep ==
  ASSUME IInv, NEW r \in Runs, NEW n \in Numbers, ClaimRecord(r, n),
         NEW outcome \in {"SUCCEEDED", "FAILED", "CANCELLED"}, NEW rec \in RunRecord,
         rec.count = run[r].count, rec.active = None,
         rec.exec \in Terminal \/ (rec.exec = "QUEUED" /\ rec.count < AttemptCap),
         Endings(rec, [att[r] EXCEPT ![n].status = outcome]),
         run' = [run EXCEPT ![r] = rec], att' = [att EXCEPT ![r][n].status = outcome],
         UNCHANGED report
  PROVE  IInv'
  <1>. DEFINE a == [att[r] EXCEPT ![n].status = outcome]
  <1>1. a \in Row /\ a[n].status = outcome /\ \A m \in Numbers \ {n} : a[m] = att[r][m]
    BY RowFacts DEF Row, AttemptRecord, AttemptStates
  <1>2. att' = [att EXCEPT ![r] = a]
    OBVIOUS
  <1>3. Endings(rec, a)
    OBVIOUS
  <1>. HIDE DEF a
  <1>4. \A m \in Numbers : a[m].status \notin Live
    BY <1>1, FenceHolds DEF Live
  <1>5. Ownership(rec, a)
    BY <1>4 DEF Ownership, Held, Terminal
  <1>. QED
    BY <1>1, <1>2, <1>3, <1>5, RowFacts, RowStep DEF RowInv

LEMMA CompleteExecutionStep ==
  ASSUME IInv, NEW r \in Runs, NEW n \in Numbers, NEW s \in FinalStages,
         CompleteExecution(r, n, s)
  PROVE  IInv'
  <1>1. ClaimRecord(r, n)
    BY DEF CompleteExecution
  <1>. DEFINE a(outcome) == [att[r] EXCEPT ![n].status = outcome]
  <1>2. ASSUME NEW outcome \in {"SUCCEEDED", "CANCELLED"}
        PROVE  /\ a(outcome)[n].status = outcome
               /\ \A m \in Numbers \ {n} : a(outcome)[m] = att[r][m]
    BY RowFacts DEF Row, AttemptRecord
  <1>3. CASE run[r].cancel \/ run[r].exec = "CANCEL_REQUESTED"
    <2>. DEFINE rec == [run[r] EXCEPT !.exec = "CANCELLED", !.status = "CANCELLED", !.active = None]
    <2>1. run[r].cancel
      BY <1>3, RowFacts DEF RowInv, Endings
    <2>2. rec \in RunRecord /\ rec.count = run[r].count /\ rec.active = None
          /\ rec.exec = "CANCELLED" /\ rec.status = "CANCELLED" /\ rec.cancel
      BY <2>1, RowFacts, ZenonT(60) DEF RunRecord, ExecutionStates, Terminal, Statuses
    <2>3. /\ run' = [run EXCEPT ![r] = rec] /\ report' = report
          /\ att' = [att EXCEPT ![r][n].status = "CANCELLED"]
      BY <1>3 DEF CompleteExecution
    <2>. HIDE DEF rec
    <2>4. Endings(rec, a("CANCELLED"))
      BY <1>1, <1>2, <2>2, FenceHolds DEF Endings
    <2>. QED
      BY <1>1, <2>2, <2>3, <2>4, EndingStep DEF Terminal
  <1>4. CASE ~(run[r].cancel \/ run[r].exec = "CANCEL_REQUESTED")
    <2>. DEFINE rec == [run[r] EXCEPT !.exec = "COMPLETED", !.status = s, !.active = None]
    <2>1. s \in Statuses /\ s \notin {"FAILED", "CANCELLED"}
      BY DEF Statuses, FinalStages
    <2>2. rec \in RunRecord /\ rec.count = run[r].count /\ rec.active = None
          /\ rec.exec = "COMPLETED" /\ rec.status = s /\ ~rec.cancel
      BY <1>4, <2>1, RowFacts DEF RunRecord, ExecutionStates, Terminal
    <2>3. /\ run' = [run EXCEPT ![r] = rec] /\ report' = report
          /\ att' = [att EXCEPT ![r][n].status = "SUCCEEDED"]
      BY <1>4 DEF CompleteExecution
    <2>. HIDE DEF rec
    <2>4. Endings(rec, a("SUCCEEDED"))
      BY <1>1, <1>2, <2>1, <2>2, FenceHolds DEF Endings
    <2>. QED
      BY <1>1, <2>2, <2>3, <2>4, EndingStep DEF Terminal
  <1>. QED
    BY <1>3, <1>4

LEMMA FailExecutionStep ==
  ASSUME IInv, NEW r \in Runs, NEW n \in Numbers, NEW retryable \in BOOLEAN,
         FailExecution(r, n, retryable)
  PROVE  IInv'
  <1>. DEFINE retry == retryable /\ n < MaxAttempts
              rec == Released(run[r], retry, Backoff(n))
              a == [att[r] EXCEPT ![n].status = "FAILED"]
  <1>1. ClaimRecord(r, n)
    BY DEF FailExecution
  <1>2. retry \in BOOLEAN /\ (retry => run[r].count < AttemptCap)
    BY <1>1, FenceHolds, CapFacts DEF Numbers
  <1>3. a \in Row /\ a[n].status = "FAILED" /\ \A m \in Numbers \ {n} : a[m] = att[r][m]
    BY RowFacts DEF Row, AttemptRecord, AttemptStates
  <1>4. /\ run' = [run EXCEPT ![r] = rec] /\ report' = report
        /\ att' = [att EXCEPT ![r] = a]
    BY DEF FailExecution
  <1>. HIDE DEF retry, a
  <1>5. rec \in RunRecord
    BY <1>2, RowFacts, BackoffType, ReleasedType
  <1>6. rec.count = run[r].count
    BY RowFacts DEF Released, RunRecord
  <1>7. \A m \in Numbers : a[m].status \notin Live /\ a[m].status # "SUCCEEDED"
    BY <1>1, <1>3, FenceHolds DEF Live
  <1>8. RowInv(rec, a)
    <2>1. /\ run[r].exec \notin {"ABSENT", "IDLE", "COMPLETED", "FAILED"}
          /\ run[r].exec \in {"CANCEL_REQUESTED", "CANCELLED"} => run[r].cancel
          /\ run[r].status = "FAILED" => run[r].exec = "FAILED"
          /\ run[r].status = "CANCELLED" => run[r].exec = "CANCELLED"
      BY <1>1, FenceHolds, RowFacts DEF RowInv, Endings, Held
    <2>. QED
      BY <1>2, <1>3, <1>7, <2>1, RowFacts, BackoffType, ReleasedRow
  <1>. HIDE DEF rec
  <1>. QED
    BY <1>3, <1>4, <1>5, <1>6, <1>8, RowFacts, RowStep

\* recover_incomplete_work: a live attempt is the active one, so the scan that
\* does not ask for it releases what RecoverExpired would, by its own limit.
LEMMA StartupStep == ASSUME IInv, Startup PROVE IInv'
  <1>. DEFINE lost(r) == \E n \in Numbers : Expired(r, n)
  <1>1. ASSUME NEW r \in Runs
        PROVE  run'[r] \in RunRecord /\ run'[r].count = run[r].count /\ RowInv(run'[r], att'[r])
    <2>1. att'[r] = FenceExpired[r]
      BY DEF Startup
    <2>2. CASE lost(r)
      <3>. DEFINE retry == run[r].count < StartupLimit
                  rec == Released(run[r], retry, 0)
      <3>1. /\ Expired(r, run[r].active) /\ run[r].active \in Numbers
            /\ run[r].exec \notin {"ABSENT", "IDLE", "COMPLETED", "FAILED"}
            /\ \A n \in Numbers : att[r][n].status \in Live => Expired(r, n)
        BY <2>2, RowFacts, CapFacts DEF RowInv, Ownership, Endings, Expired, None, Numbers
      <3>2. \A n \in Numbers : FenceExpired[r][n].status \notin Live
                               /\ FenceExpired[r][n].status # "SUCCEEDED"
        BY <3>1, RowFacts, FenceFacts DEF IInv, RowInv, Endings, Live
      <3>3. retry \in BOOLEAN /\ (retry => run[r].count < AttemptCap)
        BY RowFacts, CapFacts DEF RunRecord, Numbers, StartupLimit
      <3>. HIDE DEF retry
      <3>4. CASE run[r].exec \in Terminal
        <4>1. run'[r] = run[r]
          BY <2>2, <3>4 DEF Startup
        <4>2. Ownership(run[r], FenceExpired[r])
          BY <3>2, <3>4, RowFacts DEF RowInv, Ownership, Held, Terminal
        <4>3. Endings(run[r], FenceExpired[r])
          BY <3>2, RowFacts DEF RowInv, Endings
        <4>. QED
          BY <2>1, <4>1, <4>2, <4>3, RowFacts DEF RowInv
      <3>5. CASE run[r].exec \notin Terminal
        <4>1. run'[r] = rec
          BY <2>2, <3>5 DEF Startup, retry
        <4>2. rec \in RunRecord
          BY <3>3, RowFacts, ReleasedType
        <4>3. rec.count = run[r].count
          BY RowFacts DEF Released, RunRecord
        <4>4. RowInv(rec, FenceExpired[r])
          <5>1. /\ run[r].exec \in {"CANCEL_REQUESTED", "CANCELLED"} => run[r].cancel
                /\ run[r].status = "FAILED" => run[r].exec = "FAILED"
                /\ run[r].status = "CANCELLED" => run[r].exec = "CANCELLED"
            BY RowFacts DEF RowInv, Endings
          <5>. QED
            BY <3>1, <3>2, <3>3, <5>1, RowFacts, FenceFacts, ReleasedRow DEF IInv
        <4>. QED
          BY <2>1, <4>1, <4>2, <4>3, <4>4
      <3>. QED
        BY <3>4, <3>5
    <2>3. CASE ~lost(r)
      <3>1. FenceExpired[r] = att[r]
        BY <2>3, RowFacts, FenceFacts DEF IInv, Row
      <3>2. run'[r].status \in {run[r].status, "INTERRUPTED"}
            /\ run'[r] = [run[r] EXCEPT !.status = run'[r].status]
        BY <2>3, RowFacts DEF Startup, RunRecord
      <3>3. run'[r].status # run[r].status => run[r].exec = "IDLE" /\ run[r].status = "CREATED"
        BY <2>3, RowFacts DEF Startup, RunRecord
      <3>4. run'[r] \in RunRecord /\ run'[r].count = run[r].count
        BY <3>2, RowFacts DEF RunRecord, Statuses
      <3>5. RowInv(run'[r], att[r])
        BY <3>2, <3>3, RowFacts DEF RowInv, Ownership, Endings, RunRecord
      <3>. QED
        BY <2>1, <3>1, <3>4, <3>5
    <2>. QED
      BY <2>2, <2>3
  <1>2. TypeOK'
    <2>1. run' \in [Runs -> RunRecord]
      BY <1>1 DEF Startup
    <2>2. att' \in [Runs -> Row]
      BY FenceFacts DEF Startup, IInv, FenceExpired
    <2>. QED
      BY <2>1, <2>2 DEF IInv, TypeOK, Row, Startup
  <1>3. ASSUME NEW r \in Runs PROVE RowInv(run'[r], att'[r]) /\ report'[r] <= run'[r].count
    BY <1>1, RowFacts DEF Startup
  <1>. QED
    BY <1>2, <1>3 DEF IInv, RowInv, Ownership, Endings

(* A row that differs from another in its waiting time only agrees with it  *)
(* on the fields the invariant reads.                                       *)
LEMMA OnlyTheWait ==
  ASSUME NEW x \in RunRecord, NEW y, y = [x EXCEPT !.wait = y.wait]
  PROVE  /\ y.active = x.active /\ y.count = x.count
         /\ y.exec = x.exec /\ y.status = x.status
         /\ y.cancel <=> x.cancel
  <1>1. y.active = x.active /\ y.count = x.count /\ y.exec = x.exec /\ y.status = x.status
    BY DEF RunRecord
  <1>2. y.cancel <=> x.cancel
    BY DEF RunRecord
  <1>. QED
    BY <1>1, <1>2

LEMMA TickStep == ASSUME IInv, Tick PROVE IInv'
  <1>1. ASSUME NEW r \in Runs
        PROVE  /\ run'[r] \in RunRecord /\ run'[r] = [run[r] EXCEPT !.wait = run'[r].wait]
               /\ att'[r] \in Row
               /\ \A n \in Numbers : att'[r][n].status = att[r][n].status
                    /\ (att[r][n].lease = 0 => att'[r][n].lease = 0)
    <2>1. run'[r] = [run[r] EXCEPT !.wait = Elapse(@)]
      BY DEF Tick
    <2>2. att'[r] = [n \in Numbers |-> [att[r][n] EXCEPT !.lease = Elapse(@)]]
      BY DEF Tick
    <2>3. \A n \in Numbers : att[r][n] \in AttemptRecord
      BY RowFacts DEF Row
    <2>4. \A n \in Numbers : Elapse(att[r][n].lease) \in 0 .. LeaseTime
      BY <2>3 DEF AttemptRecord, Elapse
    <2>5. Elapse(run[r].wait) \in Int
      BY RowFacts DEF RunRecord, Elapse
    <2>6. run'[r] \in RunRecord /\ run'[r] = [run[r] EXCEPT !.wait = run'[r].wait]
      BY <2>1, <2>5, RowFacts DEF RunRecord
    <2>7. att'[r] \in Row
      BY <2>2, <2>3, <2>4 DEF Row, AttemptRecord
    <2>8. \A n \in Numbers : att'[r][n].status = att[r][n].status
            /\ (att[r][n].lease = 0 => att'[r][n].lease = 0)
      BY <2>2, <2>3 DEF AttemptRecord, Elapse
    <2>. QED
      BY <2>6, <2>7, <2>8
  <1>2. TypeOK'
    <2>1. run' \in [Runs -> RunRecord]
      BY <1>1 DEF Tick
    <2>2. att' \in [Runs -> Row]
      BY <1>1 DEF Tick
    <2>. QED
      BY <2>1, <2>2 DEF IInv, TypeOK, Row, Tick
  <1>3. ASSUME NEW r \in Runs PROVE RowInv(run'[r], att'[r]) /\ report'[r] <= run'[r].count
    <2>. DEFINE rec == run'[r]
                a == att'[r]
    <2>1. /\ rec.active = run[r].active /\ rec.count = run[r].count
          /\ rec.exec = run[r].exec /\ rec.status = run[r].status
          /\ rec.cancel <=> run[r].cancel
      BY <1>1, RowFacts, OnlyTheWait
    <2>2. \A n \in Numbers : a[n].status = att[r][n].status
                             /\ (att[r][n].lease = 0 => a[n].lease = 0)
      BY <1>1
    <2>3. report'[r] <= rec.count
      BY <2>1, RowFacts DEF Tick
    <2>. HIDE DEF rec, a
    <2>4. run[r].active \in {None} \cup Numbers
      BY RowFacts DEF RunRecord
    <2>5. Ownership(rec, a)
      BY <2>1, <2>2, <2>4, RowFacts DEF RowInv, Ownership
    <2>6. Endings(rec, a)
      BY <2>1, <2>2, RowFacts DEF RowInv, Endings
    <2>. QED
      BY <2>3, <2>5, <2>6 DEF RowInv, rec, a
  <1>. QED
    BY <1>2, <1>3 DEF IInv, RowInv, Ownership, Endings

LEMMA ClaimNextStep == ASSUME IInv, ClaimNext PROVE IInv'
  <1>1. MaxAttempts \in Nat /\ MaxAttempts <= AttemptCap
    BY CapFacts
  <1>2. CASE /\ run' = RecoverExpired(MaxAttempts) /\ att' = FenceExpired
             /\ UNCHANGED report
    BY <1>1, <1>2, RecoveryStep
  <1>3. CASE \E r \in Runs : /\ Eligible(RecoverExpired(MaxAttempts)[r])
                             /\ Grant(r, RecoverExpired(MaxAttempts))
    BY <1>1, <1>3, GrantStep DEF Eligible
  <1>. QED
    BY <1>2, <1>3 DEF ClaimNext

LEMMA ClaimRunStep == ASSUME IInv, NEW r \in Runs, ClaimRun(r) PROVE IInv'
  <1>1. InlineLimit \in Nat /\ InlineLimit <= AttemptCap
    BY CapFacts DEF InlineLimit
  <1>2. CASE /\ run' = RecoverExpired(InlineLimit) /\ att' = FenceExpired
             /\ UNCHANGED report
    BY <1>1, <1>2, RecoveryStep
  <1>3. CASE /\ RecoverExpired(InlineLimit)[r].exec \in {"QUEUED", "IDLE"}
             /\ Grant(r, RecoverExpired(InlineLimit))
    BY <1>1, <1>3, GrantStep
  <1>. QED
    BY <1>2, <1>3 DEF ClaimRun

---------------------------------------------------------------------------
\* Every method of the ledger, and the clock, keeps the invariant.
LEMMA NextIInv == IInv /\ [Next]_vars => IInv'
  <1>. SUFFICES ASSUME IInv, [Next]_vars PROVE IInv'
    OBVIOUS
  <1>1. CASE Tick
    BY <1>1, TickStep
  <1>2. CASE Startup
    BY <1>2, StartupStep
  <1>3. CASE ClaimNext
    BY <1>3, ClaimNextStep
  <1>4. ASSUME NEW r \in Runs, RunStep(r) PROVE IInv'
    <2>1. CASE CreateRun(r)
      BY <2>1, CreateRunStep
    <2>2. CASE QueueRun(r)
      BY <2>2, QueueRunStep
    <2>3. CASE RequestCancellation(r)
      BY <2>3, RequestCancellationStep
    <2>4. CASE ClaimRun(r)
      BY <2>4, ClaimRunStep
    <2>5. ASSUME NEW n \in Numbers, ClaimStep(r, n) PROVE IInv'
      <3>1. CASE MarkRunning(r, n)
        BY <3>1, MarkRunningStep
      <3>2. CASE RenewLease(r, n)
        BY <3>2, RenewLeaseStep
      <3>3. CASE \E s \in Stages : WriteStage(r, n, s)
        BY <3>3, WriteStageStep
      <3>4. CASE SaveReport(r, n)
        BY <3>4, SaveReportStep
      <3>5. CASE \E s \in FinalStages : CompleteExecution(r, n, s)
        BY <3>5, CompleteExecutionStep
      <3>6. CASE \E retryable \in BOOLEAN : FailExecution(r, n, retryable)
        BY <3>6, FailExecutionStep
      <3>. QED
        BY <2>5, <3>1, <3>2, <3>3, <3>4, <3>5, <3>6 DEF ClaimStep
    <2>. QED
      BY <1>4, <2>1, <2>2, <2>3, <2>4, <2>5 DEF RunStep
  <1>5. CASE UNCHANGED vars
    BY <1>5 DEF vars, IInv, TypeOK, RowInv, Ownership, Endings
  <1>. QED
    BY <1>1, <1>2, <1>3, <1>4, <1>5 DEF Next

---------------------------------------------------------------------------
\* What a step does to one run.  The clock, a renewal, a stage, a start that
\* finds nothing to fence and whatever concerns another run leave it unmoved; a
\* recovery or a start finds its attempt lost; a poll or an inline call gives
\* it a new attempt; the rest are the methods themselves.
Limits == {MaxAttempts, InlineLimit, StartupLimit}

Unmoved(r) ==
  /\ run'[r].exec = run[r].exec /\ run'[r].active = run[r].active
  /\ run'[r].count = run[r].count /\ run'[r].cancel = run[r].cancel
  /\ run'[r].status # run[r].status => run[r].exec \notin Terminal
  /\ report'[r] = report[r]

Lost(r) ==
  /\ run[r].active \in Numbers /\ att[r][run[r].active].lease = 0
  /\ run[r].exec \in Held \cup {"QUEUED", "CANCELLED"}
  /\ \E retry \in BOOLEAN : run'[r] = Released(run[r], retry, 0)
  /\ run'[r].exec = "FAILED" => \E limit \in Limits : run[r].count >= limit
  /\ report'[r] = report[r]

Claimed(r) ==
  /\ run[r].active = None \/ att[r][run[r].active].lease = 0
  /\ run[r].exec \in Held \cup {"IDLE", "QUEUED"}
  /\ ~run[r].cancel
  /\ run'[r].exec = "CLAIMED" /\ ~run'[r].cancel
  /\ run'[r].active = run[r].count + 1 /\ run'[r].count = run[r].count + 1
  /\ report'[r] = report[r]

RowChange(r) ==
  \/ Unmoved(r) \/ Lost(r) \/ Claimed(r)
  \/ CreateRun(r) \/ QueueRun(r) \/ RequestCancellation(r)
  \/ \E n \in Numbers :
       \/ MarkRunning(r, n) \/ SaveReport(r, n)
       \/ \E s \in FinalStages : CompleteExecution(r, n, s)
       \/ \E retryable \in BOOLEAN : FailExecution(r, n, retryable)

\* A run whose row, attempts and report a step keeps is unmoved by it.
LEMMA KeptIsUnmoved ==
  ASSUME NEW r \in Runs, run'[r] = run[r], report'[r] = report[r]
  PROVE  RowChange(r)
  BY DEF RowChange, Unmoved

\* A recovery leaves the run as it is, or finds its attempt lost.
LEMMA RecoveredChange ==
  ASSUME IInv, NEW r \in Runs, NEW limit \in Nat, limit <= AttemptCap
  PROVE  \/ RecoverExpired(limit)[r] = run[r] /\ FenceExpired[r] = att[r]
         \/ /\ run[r].active \in Numbers /\ att[r][run[r].active].lease = 0
            /\ run[r].exec \in Held \cup {"QUEUED", "CANCELLED"}
            /\ \E retry \in BOOLEAN : RecoverExpired(limit)[r] = Released(run[r], retry, 0)
            /\ RecoverExpired(limit)[r].exec = "FAILED" => run[r].count >= limit
  <1>. DEFINE n == run[r].active
  <1>1. n \in {None} \cup Numbers
    BY RowFacts DEF RunRecord
  <1>2. CASE n # None /\ Expired(r, n)
    <2>1. RecoverExpired(limit)[r] = Released(run[r], n < limit, 0)
      BY <1>2 DEF RecoverExpired
    <2>2. (n < limit) \in BOOLEAN
      BY <1>1, <1>2 DEF Numbers
    <2>3. run[r].exec \notin {"ABSENT", "IDLE", "COMPLETED", "FAILED"}
      BY <1>2, RowFacts DEF RowInv, Ownership, Endings
    <2>4. run[r].exec \in Held \cup {"QUEUED", "CANCELLED"}
      BY <2>3, RowFacts DEF RunRecord, ExecutionStates, Terminal
    <2>5. n \in Int /\ run[r].count = n /\ run[r] \in RunRecord
      BY <1>1, <1>2, RowFacts DEF RowInv, Ownership, Numbers
    <2>6. RecoverExpired(limit)[r].exec = "FAILED" => run[r].count >= limit
      BY <2>1, <2>5 DEF Released, RunRecord
    <2>. QED
      BY <1>1, <1>2, <2>1, <2>2, <2>4, <2>5, <2>6 DEF Expired
  <1>3. CASE ~(n # None /\ Expired(r, n))
    <2>1. RecoverExpired(limit)[r] = run[r]
      BY <1>3 DEF RecoverExpired
    <2>2. \A m \in Numbers : FenceExpired[r][m] = att[r][m]
      BY <1>3, RowFacts, FenceFacts, CapFacts
      DEF IInv, RowInv, Ownership, Expired, None, Numbers
    <2>. QED
      BY <2>1, <2>2, RowFacts, FenceFacts DEF IInv, Row
  <1>. QED
    BY <1>2, <1>3

LEMMA RecoveryChange ==
  ASSUME IInv, NEW r \in Runs, NEW limit \in Limits, limit \in Nat, limit <= AttemptCap,
         run'[r] = RecoverExpired(limit)[r], report'[r] = report[r]
  PROVE  RowChange(r)
  BY RecoveredChange DEF RowChange, Unmoved, Lost

LEMMA GrantChange ==
  ASSUME IInv, NEW r \in Runs, NEW s \in Runs,
         NEW limit \in Limits, limit \in Nat, limit <= AttemptCap,
         RecoverExpired(limit)[s].exec \in {"QUEUED", "IDLE"},
         ~RecoverExpired(limit)[s].cancel,
         Grant(s, RecoverExpired(limit))
  PROVE  RowChange(r)
  <1>1. DOMAIN RecoverExpired(limit) = Runs
    BY DEF RecoverExpired
  <1>2. report' = report
    BY DEF Grant
  <1>3. CASE r # s
    <2>1. run'[r] = RecoverExpired(limit)[r]
      BY <1>1, <1>3 DEF Grant
    <2>. QED
      BY <1>2, <2>1, RecoveryChange
  <1>4. CASE r = s
    <2>. DEFINE rec == RecoverExpired(limit)[r]
    <2>1. run'[r] = Granted(rec)
      BY <1>1, <1>4 DEF Grant
    <2>2. rec \in RunRecord /\ rec.count = run[r].count
      BY RecoveredRow DEF IInv
    <2>3. /\ run'[r].exec = "CLAIMED" /\ run'[r].cancel = rec.cancel
          /\ run'[r].active = run[r].count + 1 /\ run'[r].count = run[r].count + 1
      BY <2>1, <2>2 DEF Granted, RunRecord
    <2>4. /\ run[r].active = None \/ att[r][run[r].active].lease = 0
          /\ run[r].exec \in Held \cup {"IDLE", "QUEUED"}
          /\ ~run[r].cancel
      <3>1. CASE rec = run[r] /\ FenceExpired[r] = att[r]
        BY <1>4, <3>1, RecoveredRow DEF IInv
      <3>2. CASE /\ run[r].active \in Numbers /\ att[r][run[r].active].lease = 0
                 /\ run[r].exec \in Held \cup {"QUEUED", "CANCELLED"}
                 /\ \E retry \in BOOLEAN : rec = Released(run[r], retry, 0)
        <4>1. ~run[r].cancel
          BY <1>4, <3>2, RowFacts DEF Released, RunRecord
        <4>2. run[r].exec # "CANCELLED"
          BY <4>1, RowFacts DEF RowInv, Endings
        <4>. QED
          BY <3>2, <4>1, <4>2
      <3>. QED
        BY <3>1, <3>2, RecoveredChange
    <2>. QED
      BY <1>2, <1>4, <2>3, <2>4 DEF RowChange, Claimed
  <1>. QED
    BY <1>3, <1>4

LEMMA StartupChange == ASSUME IInv, NEW r \in Runs, Startup PROVE RowChange(r)
  <1>1. report'[r] = report[r]
    BY DEF Startup
  <1>2. CASE \E n \in Numbers : Expired(r, n)
    <2>1. run[r].active \in Numbers /\ Expired(r, run[r].active)
          /\ run[r].exec \notin {"ABSENT", "IDLE", "COMPLETED", "FAILED"}
      BY <1>2, RowFacts, CapFacts DEF RowInv, Ownership, Endings, Expired, None, Numbers
    <2>2. run[r].exec \in Held \cup {"QUEUED", "CANCELLED"}
      BY <2>1, RowFacts DEF RunRecord, ExecutionStates, Terminal
    <2>3. CASE run[r].exec \in Terminal
      BY <1>1, <1>2, <2>3, KeptIsUnmoved DEF Startup
    <2>4. CASE run[r].exec \notin Terminal
      <3>1. run'[r] = Released(run[r], run[r].count < StartupLimit, 0)
        BY <1>2, <2>4 DEF Startup
      <3>2. (run[r].count < StartupLimit) \in BOOLEAN
        OBVIOUS
      <3>3. run'[r].exec = "FAILED" => run[r].count >= StartupLimit
        BY <3>1, RowFacts DEF Released, RunRecord, StartupLimit, Numbers
      <3>. QED
        BY <1>1, <2>1, <2>2, <3>1, <3>2, <3>3 DEF RowChange, Lost, Expired, Limits
    <2>. QED
      BY <2>3, <2>4
  <1>3. CASE ~\E n \in Numbers : Expired(r, n)
    <2>1. CASE run[r].exec = "IDLE" /\ run[r].status = "CREATED"
      <3>1. run'[r] = [run[r] EXCEPT !.status = "INTERRUPTED"]
        BY <1>3, <2>1 DEF Startup
      <3>. QED
        BY <1>1, <2>1, <3>1, RowFacts DEF RowChange, Unmoved, RunRecord, Terminal
    <2>2. CASE ~(run[r].exec = "IDLE" /\ run[r].status = "CREATED")
      BY <1>1, <1>3, <2>2, KeptIsUnmoved DEF Startup
    <2>. QED
      BY <2>1, <2>2
  <1>. QED
    BY <1>2, <1>3

LEMMA StepChange == ASSUME IInv, [Next]_vars, NEW r \in Runs PROVE RowChange(r)
  <1>1. CASE Tick
    <2>1. run'[r] = [run[r] EXCEPT !.wait = Elapse(@)] /\ report'[r] = report[r]
      BY <1>1 DEF Tick
    <2>. QED
      BY <2>1, RowFacts DEF RowChange, Unmoved, RunRecord
  <1>2. CASE Startup
    BY <1>2, StartupChange
  <1>3. CASE ClaimNext
    <2>1. MaxAttempts \in Limits /\ MaxAttempts \in Nat /\ MaxAttempts <= AttemptCap
      BY CapFacts DEF Limits
    <2>2. CASE run' = RecoverExpired(MaxAttempts) /\ UNCHANGED report
      BY <2>1, <2>2, RecoveryChange
    <2>3. CASE \E s \in Runs : /\ Eligible(RecoverExpired(MaxAttempts)[s])
                               /\ Grant(s, RecoverExpired(MaxAttempts))
      BY <2>1, <2>3, GrantChange DEF Eligible
    <2>. QED
      BY <1>3, <2>2, <2>3 DEF ClaimNext
  <1>4. ASSUME NEW s \in Runs, RunStep(s) PROVE RowChange(r)
    <2>1. CASE ClaimRun(s)
      <3>1. InlineLimit \in Limits /\ InlineLimit \in Nat /\ InlineLimit <= AttemptCap
        BY CapFacts DEF InlineLimit, Limits
      <3>2. CASE run' = RecoverExpired(InlineLimit) /\ UNCHANGED report
        BY <3>1, <3>2, RecoveryChange
      <3>3. CASE /\ RecoverExpired(InlineLimit)[s].exec \in {"QUEUED", "IDLE"}
                 /\ ~RecoverExpired(InlineLimit)[s].cancel
                 /\ Grant(s, RecoverExpired(InlineLimit))
        BY <3>1, <3>3, GrantChange
      <3>. QED
        BY <2>1, <3>2, <3>3 DEF ClaimRun
    <2>2. CASE CreateRun(s) \/ QueueRun(s) \/ RequestCancellation(s)
      <3>1. s # r => run'[r] = run[r] /\ report'[r] = report[r]
        BY <2>2 DEF CreateRun, QueueRun, RequestCancellation, IInv, TypeOK
      <3>. QED
        BY <2>2, <3>1, KeptIsUnmoved DEF RowChange
    <2>3. ASSUME NEW n \in Numbers, ClaimStep(s, n) PROVE RowChange(r)
      <3>1. s # r => run'[r] = run[r] /\ report'[r] = report[r]
        BY <2>3 DEF ClaimStep, MarkRunning, RenewLease, WriteStage, SaveReport,
           CompleteExecution, FailExecution, IInv, TypeOK
      <3>2. CASE RenewLease(s, n)
        BY <3>2, KeptIsUnmoved DEF RenewLease
      <3>3. ASSUME s = r, NEW g \in Stages, WriteStage(s, n, g) PROVE RowChange(r)
        <4>1. run'[r] = [run[r] EXCEPT !.status = g] /\ report' = report
          BY <3>3 DEF WriteStage, IInv, TypeOK
        <4>2. run[r].exec \notin Terminal
          BY <3>3 DEF WriteStage, ClaimRecord, Held, Terminal
        <4>. QED
          BY <4>1, <4>2, RowFacts DEF RowChange, Unmoved, RunRecord
      <3>4. ASSUME s = r,
                   \/ MarkRunning(s, n) \/ SaveReport(s, n)
                   \/ \E g \in FinalStages : CompleteExecution(s, n, g)
                   \/ \E retryable \in BOOLEAN : FailExecution(s, n, retryable)
            PROVE  RowChange(r)
        BY <3>4 DEF RowChange
      <3>. QED
        BY <2>3, <3>1, <3>2, <3>3, <3>4, KeptIsUnmoved DEF ClaimStep
    <2>. QED
      BY <1>4, <2>1, <2>2, <2>3 DEF RunStep
  <1>5. CASE UNCHANGED vars
    BY <1>5, KeptIsUnmoved DEF vars
  <1>. QED
    BY <1>1, <1>2, <1>3, <1>4, <1>5 DEF Next

\* What the methods do to the row they are called for.
Same(r) == /\ run'[r].active = run[r].active /\ run'[r].count = run[r].count
           /\ run'[r].cancel = run[r].cancel /\ report'[r] = report[r]

LEMMA ApiEffect ==
  ASSUME IInv, NEW r \in Runs
  PROVE  /\ CreateRun(r) => Same(r) /\ run'[r].exec = "IDLE"
         /\ QueueRun(r) => Same(r) /\ run'[r].exec = "QUEUED"
         /\ RequestCancellation(r) =>
              /\ run'[r].active = run[r].active /\ run'[r].count = run[r].count
              /\ run'[r].cancel /\ report'[r] = report[r]
              /\ run'[r].exec = IF run[r].active = None \/ run[r].exec = "QUEUED"
                                  THEN "CANCELLED" ELSE "CANCEL_REQUESTED"
  <1>1. run[r] \in RunRecord /\ run \in [Runs -> RunRecord]
    BY DEF IInv, TypeOK
  <1>2. CreateRun(r) => Same(r) /\ run'[r].exec = "IDLE"
    BY <1>1 DEF CreateRun, Same, RunRecord
  <1>3. QueueRun(r) => Same(r) /\ run'[r].exec = "QUEUED"
    <2>. SUFFICES ASSUME QueueRun(r) PROVE Same(r) /\ run'[r].exec = "QUEUED"
      OBVIOUS
    <2>1. run'[r] = [run[r] EXCEPT !.exec = "QUEUED", !.wait = 0] /\ report' = report
      BY <1>1 DEF QueueRun, RunRecord
    <2>. QED
      BY <1>1, <2>1 DEF Same, RunRecord
  <1>4. ASSUME RequestCancellation(r)
        PROVE  /\ run'[r].active = run[r].active /\ run'[r].count = run[r].count
               /\ run'[r].cancel /\ report'[r] = report[r]
               /\ run'[r].exec = IF run[r].active = None \/ run[r].exec = "QUEUED"
                                   THEN "CANCELLED" ELSE "CANCEL_REQUESTED"
    <2>1. run'[r] = IF run[r].active = None \/ run[r].exec = "QUEUED"
            THEN [run[r] EXCEPT !.cancel = TRUE, !.exec = "CANCELLED", !.status = "CANCELLED"]
            ELSE [run[r] EXCEPT !.cancel = TRUE, !.exec = "CANCEL_REQUESTED"]
      BY <1>1, <1>4 DEF RequestCancellation
    <2>. QED
      BY <1>1, <1>4, <2>1 DEF RequestCancellation, RunRecord
  <1>. QED
    BY <1>2, <1>3, <1>4

LEMMA ClaimEffect ==
  ASSUME IInv, NEW r \in Runs, NEW n \in Numbers
  PROVE  /\ MarkRunning(r, n) => Same(r) /\ run'[r].exec = "RUNNING"
         /\ SaveReport(r, n) => run'[r] = run[r] /\ report'[r] = n
         /\ \A s \in FinalStages : CompleteExecution(r, n, s) =>
              /\ run'[r].count = run[r].count /\ run'[r].cancel = run[r].cancel
              /\ report'[r] = report[r]
              /\ run'[r].exec = IF run[r].cancel THEN "CANCELLED" ELSE "COMPLETED"
              /\ att'[r][n].status \in {"SUCCEEDED", "CANCELLED"}
         /\ \A retryable \in BOOLEAN : FailExecution(r, n, retryable) =>
              /\ \E retry \in BOOLEAN : run'[r] = Released(run[r], retry, Backoff(n))
              /\ report'[r] = report[r]
              /\ att'[r][n].status = "FAILED"
  <1>1. /\ run[r] \in RunRecord /\ run \in [Runs -> RunRecord]
        /\ att \in [Runs -> Row] /\ att[r] \in Row
        /\ att[r][n] \in AttemptRecord /\ DOMAIN report = Runs
    BY DEF IInv, TypeOK, Row
  <1>2. MarkRunning(r, n) => Same(r) /\ run'[r].exec = "RUNNING"
    BY <1>1 DEF MarkRunning, Same, RunRecord
  <1>3. SaveReport(r, n) => run'[r] = run[r] /\ report'[r] = n
    BY <1>1 DEF SaveReport
  <1>4. ASSUME NEW outcome, att' = [att EXCEPT ![r][n].status = outcome]
        PROVE  att'[r][n].status = outcome
    BY <1>1, <1>4 DEF Row, AttemptRecord
  <1>5. ASSUME NEW s \in FinalStages, CompleteExecution(r, n, s)
        PROVE  /\ run'[r].count = run[r].count /\ run'[r].cancel = run[r].cancel
               /\ report'[r] = report[r]
               /\ run'[r].exec = IF run[r].cancel THEN "CANCELLED" ELSE "COMPLETED"
               /\ att'[r][n].status \in {"SUCCEEDED", "CANCELLED"}
    <2>1. run[r].exec = "CANCEL_REQUESTED" => run[r].cancel
      BY RowFacts DEF RowInv, Endings
    <2>2. att'[r][n].status \in {"SUCCEEDED", "CANCELLED"}
      BY <1>4, <1>5 DEF CompleteExecution
    <2>3. run'[r] = IF run[r].cancel
            THEN [run[r] EXCEPT !.exec = "CANCELLED", !.status = "CANCELLED", !.active = None]
            ELSE [run[r] EXCEPT !.exec = "COMPLETED", !.status = s, !.active = None]
      BY <1>1, <1>5, <2>1 DEF CompleteExecution
    <2>. QED
      BY <1>1, <1>5, <2>2, <2>3 DEF CompleteExecution, RunRecord
  <1>6. ASSUME NEW retryable \in BOOLEAN, FailExecution(r, n, retryable)
        PROVE  /\ \E retry \in BOOLEAN : run'[r] = Released(run[r], retry, Backoff(n))
               /\ report'[r] = report[r]
               /\ att'[r][n].status = "FAILED"
    <2>1. run'[r] = Released(run[r], retryable /\ n < MaxAttempts, Backoff(n))
      BY <1>1, <1>6 DEF FailExecution
    <2>2. (retryable /\ n < MaxAttempts) \in BOOLEAN
      OBVIOUS
    <2>3. att'[r][n].status = "FAILED"
      BY <1>4, <1>6 DEF FailExecution
    <2>. QED
      BY <1>6, <2>1, <2>2, <2>3 DEF FailExecution
  <1>. QED
    BY <1>2, <1>3, <1>5, <1>6

---------------------------------------------------------------------------
(* The theorems. *)

\* The invariant holds in every state of every behaviour.
THEOREM Invariant == Spec => []IInv
  <1>. QED
    BY InitIInv, NextIInv, PTL DEF Spec

\* The methods of database.py keep every column in its range, for any number
\* of runs; in particular no attempt number leaves Numbers.
THEOREM TypeCorrect == Spec => []TypeOK
  <1>1. IInv => TypeOK
    BY DEF IInv
  <1>. QED
    BY <1>1, Invariant, PTL

\* A held run always has a live attempt: _recover_expired_attempts_session
\* will find it.
THEOREM HeldIsLive == Spec => []HeldRunHasLiveAttempt
  <1>1. IInv => HeldRunHasLiveAttempt
    BY DEF IInv, HeldRunHasLiveAttempt, RowInv, Ownership
  <1>. QED
    BY <1>1, Invariant, PTL

\* One live attempt per run, the active and newest one.
THEOREM LiveIsNewest == Spec => []LiveAttemptIsNewest
  <1>1. IInv => LiveAttemptIsNewest
    BY CapFacts DEF IInv, LiveAttemptIsNewest, RowInv, Ownership, None, Numbers
  <1>. QED
    BY <1>1, Invariant, PTL

\* What queue_research_run and the retries offer to workers is owned by nobody.
THEOREM QueuedIsFree == Spec => []QueuedIsUnowned
  <1>1. IInv => QueuedIsUnowned
    <2>. SUFFICES ASSUME IInv, NEW r \in Runs, run[r].exec = "QUEUED", NEW n \in Numbers,
                         att[r][n].status \in Live, att[r][n].lease > 0
                  PROVE  FALSE
      BY DEF QueuedIsUnowned
    <2>1. n = run[r].active /\ n # None
      BY CapFacts DEF IInv, RowInv, Ownership, None, Numbers
    <2>. QED
      BY <2>1 DEF IInv, RowInv, Ownership
  <1>. QED
    BY <1>1, Invariant, PTL

\* Once request_research_cancellation committed, the run is never offered,
\* completed or failed.
THEOREM CancellationWins == Spec => []CancellationDominates
  <1>1. IInv => CancellationDominates
    BY DEF IInv, CancellationDominates, RowInv, Endings
  <1>. QED
    BY <1>1, Invariant, PTL

\* The three literal and configured limits together never exceed the
\* configured one, when that is at least the literal.
THEOREM BudgetKept == Spec => []AttemptBudget
  <1>1. IInv => AttemptBudget
    <2>. SUFFICES ASSUME IInv, MaxAttempts >= StartupLimit, NEW r \in Runs
                  PROVE  run[r].count <= MaxAttempts
      BY DEF AttemptBudget
    <2>1. AttemptCap = MaxAttempts
      BY DEF AttemptCap, StartupLimit
    <2>. QED
      BY <2>1, RowFacts DEF RunRecord, Numbers
  <1>. QED
    BY <1>1, Invariant, PTL

\* No run whose attempt succeeded is executed again.
THEOREM SuccessIsLast == Spec => []SuccessIsFinal
  <1>1. IInv => SuccessIsFinal
    BY DEF IInv, SuccessIsFinal, RowInv, Endings
  <1>. QED
    BY <1>1, Invariant, PTL

\* The status column and the execution_state column tell of the same ending.
THEOREM EndingsAgree == Spec => []StatusAgrees
  <1>1. IInv => StatusAgrees
    BY DEF IInv, StatusAgrees, RowInv, Endings
  <1>. QED
    BY <1>1, Invariant, PTL

\* With a configured limit of at least the literal 3 no run is stuck in the
\* queue; for smaller ones recover_incomplete_work can strand one.
THEOREM NothingIsStuck == MaxAttempts >= StartupLimit => (Spec => []QueuedIsClaimable)
  <1>. SUFFICES ASSUME MaxAttempts >= StartupLimit PROVE Spec => []QueuedIsClaimable
    OBVIOUS
  <1>1. AttemptCap = MaxAttempts
    BY DEF AttemptCap, StartupLimit
  <1>2. IInv => QueuedIsClaimable
    BY <1>1 DEF IInv, QueuedIsClaimable, RowInv, Ownership
  <1>. QED
    BY <1>2, Invariant, PTL

\* An attempt is only lost while it is live.
LEMMA LostAttempt ==
  ASSUME IInv, [Next]_vars, NEW r \in Runs, NEW n \in Numbers,
         att'[r][n].status = "LOST", att[r][n].status # "LOST"
  PROVE  att[r][n].status \in Live
  <1>1. att \in [Runs -> Row] /\ \A s \in Runs, m \in Numbers : att[s][m] \in AttemptRecord
    BY DEF IInv, TypeOK, Row
  <1>2. FenceExpired[r][n].status = "LOST" => att[r][n].status \in Live
    BY <1>1, FenceFacts DEF IInv, Expired
  <1>3. DOMAIN FenceExpired = Runs /\ \A s \in Runs : FenceExpired[s] \in Row
    BY FenceFacts DEF IInv, FenceExpired
  <1>4. ASSUME NEW s \in Runs, NEW recovered, Grant(s, recovered)
        PROVE  att'[r][n].status = FenceExpired[r][n].status \/ att'[r][n].status = "CLAIMED"
    BY <1>3, <1>4 DEF Grant, NewAttempt, Row
  <1>5. CASE att' = FenceExpired
    BY <1>2, <1>5
  <1>6. CASE Tick
    BY <1>1, <1>6 DEF Tick, AttemptRecord
  <1>7. ASSUME NEW s \in Runs, NEW m \in Numbers, NEW to \in AttemptStates \ {"LOST"},
               att' = [att EXCEPT ![s][m].status = to]
        PROVE  FALSE
    BY <1>1, <1>7 DEF Row, AttemptRecord
  <1>8. ASSUME NEW s \in Runs, NEW m \in Numbers, att' = [att EXCEPT ![s][m].lease = LeaseTime]
        PROVE  FALSE
    BY <1>1, <1>8 DEF Row, AttemptRecord
  <1>9. ASSUME NEW s \in Runs, NEW m \in Numbers, ClaimStep(s, m), att' # att PROVE FALSE
    <2>. DEFINE Becomes(to) == att' = [att EXCEPT ![s][m].status = to]
    <2>1. CASE MarkRunning(s, m)
      <3>1. Becomes("RUNNING")
        BY <2>1 DEF MarkRunning
      <3>. QED
        BY <1>7, <3>1 DEF AttemptStates
    <2>2. CASE RenewLease(s, m)
      BY <1>8, <2>2 DEF RenewLease
    <2>3. ASSUME NEW g \in FinalStages, CompleteExecution(s, m, g) PROVE FALSE
      <3>1. Becomes("CANCELLED") \/ Becomes("SUCCEEDED")
        BY <2>3 DEF CompleteExecution
      <3>. QED
        BY <1>7, <3>1 DEF AttemptStates
    <2>4. ASSUME NEW retryable \in BOOLEAN, FailExecution(s, m, retryable) PROVE FALSE
      <3>1. Becomes("FAILED")
        BY <2>4 DEF FailExecution
      <3>. QED
        BY <1>7, <3>1 DEF AttemptStates
    <2>. QED
      BY <1>9, <2>1, <2>2, <2>3, <2>4 DEF ClaimStep, WriteStage, SaveReport
  <1>10. att' # att
    OBVIOUS
  <1>11. ASSUME NEW s \in Runs, RunStep(s) PROVE att[r][n].status \in Live
    <2>1. CASE CreateRun(s) \/ QueueRun(s) \/ RequestCancellation(s)
      BY <1>10, <2>1 DEF CreateRun, QueueRun, RequestCancellation
    <2>2. CASE ClaimRun(s)
      BY <1>2, <1>4, <1>5, <2>2 DEF ClaimRun
    <2>3. CASE \E m \in Numbers : ClaimStep(s, m)
      BY <1>9, <1>10, <2>3
    <2>. QED
      BY <1>11, <2>1, <2>2, <2>3 DEF RunStep
  <1>12. CASE ClaimNext
    BY <1>2, <1>4, <1>5, <1>12 DEF ClaimNext
  <1>13. CASE Startup
    BY <1>5, <1>13 DEF Startup
  <1>. QED
    BY <1>6, <1>10, <1>11, <1>12, <1>13 DEF Next, vars

\* When the configured limit is the literal 3, a step fails a run over a lost
\* attempt only if that was the last one.
LEMMA SpentStep ==
  ASSUME IInv, [Next]_vars, LostFailsOnlyWhenSpent, MaxAttempts = StartupLimit
  PROVE  LostFailsOnlyWhenSpent'
  <1>. SUFFICES ASSUME NEW r \in Runs, run'[r].exec = "FAILED", run'[r].count # 0,
                       att'[r][run'[r].count].status = "LOST"
                PROVE  run'[r].count >= MaxAttempts
    BY DEF LostFailsOnlyWhenSpent
  <1>1. \A limit \in Limits : limit = MaxAttempts
    BY DEF Limits, StartupLimit, InlineLimit
  <1>2. CASE Unmoved(r)
    <2>1. run[r].exec = "FAILED" /\ run'[r].count = run[r].count /\ run[r].count \in Numbers
      BY <1>2, RowFacts DEF Unmoved, RunRecord
    <2>2. att[r][run[r].count].status \notin Live
      BY <2>1, RowFacts, CapFacts DEF RowInv, Ownership, Endings, None, Numbers
    <2>3. att[r][run[r].count].status = "LOST"
      BY <2>1, <2>2, LostAttempt
    <2>. QED
      BY <2>1, <2>3 DEF LostFailsOnlyWhenSpent
  <1>3. CASE Lost(r)
    BY <1>1, <1>3, RowFacts DEF Lost, Released, RunRecord
  <1>4. ASSUME NEW n \in Numbers, NEW retryable \in BOOLEAN, FailExecution(r, n, retryable)
        PROVE  FALSE
    <2>1. run[r].count = n /\ run[r] \in RunRecord
      BY <1>4, FenceHolds, RowFacts DEF FailExecution
    <2>2. \E retry \in BOOLEAN : run'[r] = Released(run[r], retry, Backoff(n))
      BY <1>4, ClaimEffect
    <2>3. run'[r].count = n
      BY <2>1, <2>2 DEF Released, RunRecord
    <2>. QED
      BY <1>4, <2>3, ClaimEffect
  <1>5. ASSUME NEW n \in Numbers, NEW s \in FinalStages,
               MarkRunning(r, n) \/ SaveReport(r, n) \/ CompleteExecution(r, n, s)
        PROVE  FALSE
    <2>1. ClaimRecord(r, n) /\ run[r].exec \in Held
      BY <1>5, FenceHolds DEF MarkRunning, SaveReport, CompleteExecution
    <2>. QED
      BY <1>5, <2>1, ClaimEffect DEF Held
  <1>. QED
    BY <1>2, <1>3, <1>4, <1>5, StepChange, ApiEffect DEF RowChange, Claimed, FinalStages

\* With the default limit, the literal 3, a run is queued, retried and given up
\* exactly as configured.
THEOREM QueueHolds == MaxAttempts = StartupLimit => (Spec => []QueueIsSound)
  <1>. SUFFICES ASSUME MaxAttempts = StartupLimit PROVE Spec => []QueueIsSound
    OBVIOUS
  <1>1. Spec => []QueuedIsClaimable
    BY NothingIsStuck, CapFacts DEF StartupLimit
  <1>2. Init => LostFailsOnlyWhenSpent
    BY DEF Init, LostFailsOnlyWhenSpent
  <1>3. IInv /\ [Next]_vars /\ LostFailsOnlyWhenSpent => LostFailsOnlyWhenSpent'
    BY SpentStep
  <1>. QED
    BY <1>1, <1>2, <1>3, Invariant, BudgetKept, PTL DEF Spec, QueueIsSound

\* Ownership of a run, whatever claims, recoveries, restarts and repeated
\* execute calls do to it.
THEOREM OwnershipHolds == Spec => []OwnershipIsSound
  BY HeldIsLive, LiveIsNewest, QueuedIsFree, PTL DEF OwnershipIsSound

\* Endings of a run, whatever cancellations and late attempts do to it.
THEOREM EndingsHold == Spec => []EndingsAreSound
  BY CancellationWins, SuccessIsLast, EndingsAgree, PTL DEF EndingsAreSound

\* No method touches a run that has ended.
THEOREM TerminalStays == Spec => TerminalIsFrozen
  <1>. DEFINE Frozen(r) == run[r].exec \in Terminal => /\ run'[r].exec = run[r].exec
                                                       /\ run'[r].status = run[r].status
                                                       /\ report'[r] = report[r]
  <1>1. ASSUME IInv, [Next]_vars, NEW r \in Runs PROVE Frozen(r)
    <2>. SUFFICES ASSUME run[r].exec \in Terminal
                  PROVE  /\ run'[r].exec = run[r].exec /\ run'[r].status = run[r].status
                         /\ report'[r] = report[r]
      OBVIOUS
    <2>1. CASE Unmoved(r)
      BY <2>1 DEF Unmoved
    <2>2. CASE Lost(r)
      <3>1. run[r].exec = "CANCELLED" /\ run[r].cancel /\ run[r].status = "CANCELLED"
        BY <1>1, <2>2, RowFacts DEF Lost, Held, Terminal, RowInv, Endings
      <3>. QED
        BY <1>1, <2>2, <3>1, RowFacts DEF Lost, Released, RunRecord
    <2>3. ~Claimed(r) /\ ~CreateRun(r) /\ ~QueueRun(r) /\ ~RequestCancellation(r)
      BY DEF Claimed, CreateRun, QueueRun, Queueable, RequestCancellation, Terminal, Held
    <2>4. ASSUME NEW n \in Numbers PROVE ~ClaimRecord(r, n)
      BY DEF ClaimRecord, Held, Terminal
    <2>. QED
      BY <1>1, <2>1, <2>2, <2>3, <2>4, StepChange
      DEF RowChange, MarkRunning, SaveReport, CompleteExecution, FailExecution
  <1>2. IInv /\ [Next]_vars => [\A r \in Runs : Frozen(r)]_vars
    BY <1>1
  <1>. QED
    BY <1>2, Invariant, PTL DEF Spec, TerminalIsFrozen

\* An attempt that lost its claim cannot replace its successor's report.
THEOREM ReportStaysFenced == Spec => ReportIsFenced
  <1>1. ASSUME IInv, [Next]_vars, NEW r \in Runs PROVE report'[r] >= report[r]
    <2>1. report[r] \in Int
      BY <1>1, RowFacts, CapFacts DEF None, Numbers
    <2>2. CASE report'[r] = report[r]
      BY <2>1, <2>2
    <2>3. CASE \E n \in Numbers : SaveReport(r, n)
      <3>1. PICK n \in Numbers : SaveReport(r, n)
        BY <2>3
      <3>2. report'[r] = n /\ run[r].count = n
        BY <1>1, <3>1, FenceHolds, ClaimEffect, ZenonT(60) DEF SaveReport
      <3>3. n \in Int /\ report[r] <= n
        BY <1>1, <3>2, RowFacts DEF Numbers
      <3>. QED
        BY <2>1, <3>2, <3>3
    <2>4. RowChange(r)
      BY <1>1, StepChange
    <2>. QED
      BY <1>1, <2>2, <2>3, <2>4, ApiEffect, ClaimEffect DEF RowChange, Unmoved, Lost, Claimed, Same
  <1>2. IInv /\ [Next]_vars => [\A r \in Runs : report'[r] >= report[r]]_vars
    BY <1>1
  <1>. QED
    BY <1>2, Invariant, PTL DEF Spec, ReportIsFenced

\* While its lease runs, an attempt loses its run only by ending itself.
THEOREM LeaseIsRespected == Spec => NoStealing
  <1>. DEFINE Kept(r, n) == run[r].active = n /\ att[r][n].lease > 0 /\ run'[r].active # n =>
                              att'[r][n].status \in {"SUCCEEDED", "FAILED", "CANCELLED"}
  <1>1. ASSUME IInv, [Next]_vars, NEW r \in Runs, NEW n \in Numbers PROVE Kept(r, n)
    <2>. SUFFICES ASSUME run[r].active = n, att[r][n].lease > 0, run'[r].active # n
                  PROVE  att'[r][n].status \in {"SUCCEEDED", "FAILED", "CANCELLED"}
      OBVIOUS
    <2>1. ~Unmoved(r)
      BY DEF Unmoved
    <2>2. n # None
      BY CapFacts DEF None, Numbers
    <2>3. ~Lost(r) /\ ~Claimed(r)
      BY <1>1, <2>2, RowFacts DEF Lost, Claimed, Row, AttemptRecord
    <2>4. ~CreateRun(r) /\ ~QueueRun(r) /\ ~RequestCancellation(r)
      BY <1>1, ApiEffect DEF Same
    <2>5. ASSUME NEW m \in Numbers PROVE ~MarkRunning(r, m) /\ ~SaveReport(r, m)
      BY <1>1, ClaimEffect DEF Same
    <2>6. ASSUME NEW m \in Numbers, NEW s \in FinalStages, CompleteExecution(r, m, s)
          PROVE  att'[r][n].status \in {"SUCCEEDED", "CANCELLED"}
      <3>1. m = n
        BY <2>6 DEF CompleteExecution, ClaimRecord
      <3>2. IInv
        BY <1>1
      <3>. QED
        BY <2>6, <3>1, <3>2, ClaimEffect
    <2>7. ASSUME NEW m \in Numbers, NEW retryable \in BOOLEAN, FailExecution(r, m, retryable)
          PROVE  att'[r][n].status = "FAILED"
      <3>1. m = n
        BY <2>7 DEF FailExecution, ClaimRecord
      <3>2. IInv
        BY <1>1
      <3>. QED
        BY <2>7, <3>1, <3>2, ClaimEffect
    <2>. QED
      BY <1>1, <2>1, <2>3, <2>4, <2>5, <2>6, <2>7, StepChange DEF RowChange
  <1>2. IInv /\ [Next]_vars => [\A r \in Runs, n \in Numbers : Kept(r, n)]_vars
    BY <1>1
  <1>. QED
    BY <1>2, Invariant, PTL DEF Spec, NoStealing

---------------------------------------------------------------------------
(* Every run implements ResearchRun. *)

\* The abstract step of a run, with the instance's definitions put in terms of
\* the ledger: what a move of phase leaves alone, and the moves there are.
PhaseMoves(r, from, to) ==
  /\ Phase(r) \in from /\ Phase(r)' = to
  /\ run'[r].count = run[r].count /\ run'[r].cancel = run[r].cancel
  /\ report'[r] = report[r]

LEMMA ClientMove ==
  ASSUME NEW r \in Runs,
         \/ Phase(r)' = Phase(r) /\ run'[r].count = run[r].count
              /\ run'[r].cancel = run[r].cancel /\ report'[r] = report[r]
         \/ PhaseMoves(r, {"absent"}, "idle")
         \/ ~run[r].cancel /\ PhaseMoves(r, {"idle", "owned"}, "offered")
         \/ ~run[r].cancel /\ PhaseMoves(r, {"owned"}, "completed")
         \/ ~run[r].cancel /\ PhaseMoves(r, {"offered", "owned"}, "failed")
         \/ run[r].cancel /\ PhaseMoves(r, {"owned"}, "cancelled")
  PROVE  [Client(r)!Next]_(Client(r)!vars)
  BY DEF PhaseMoves, Client!Next, Client!vars, Client!Create, Client!Offer, Client!Complete,
         Client!GiveUp, Client!Stop, Client!Move

\* The phase of each execution state, before and after a step.
LEMMA PhaseFacts ==
  ASSUME NEW r \in Runs
  PROVE  /\ run[r].exec = "ABSENT" => Phase(r) = "absent"
         /\ run[r].exec = "IDLE" => Phase(r) = "idle"
         /\ run[r].exec = "QUEUED" => Phase(r) = "offered"
         /\ run[r].exec \in Held => Phase(r) = "owned"
         /\ run[r].exec = "COMPLETED" => Phase(r) = "completed"
         /\ run[r].exec = "FAILED" => Phase(r) = "failed"
         /\ run[r].exec = "CANCELLED" => Phase(r) = "cancelled"
         /\ run'[r].exec = "IDLE" => Phase(r)' = "idle"
         /\ run'[r].exec = "QUEUED" => Phase(r)' = "offered"
         /\ run'[r].exec \in Held => Phase(r)' = "owned"
         /\ run'[r].exec = "COMPLETED" => Phase(r)' = "completed"
         /\ run'[r].exec = "FAILED" => Phase(r)' = "failed"
         /\ run'[r].exec = "CANCELLED" => Phase(r)' = "cancelled"
         /\ run'[r].exec = run[r].exec => Phase(r)' = Phase(r)
  BY DEF Phase, Held

\* How an attempt that leaves its run shows to the client.
LEMMA ReleasedMove ==
  ASSUME IInv, NEW r \in Runs, NEW retry \in BOOLEAN, NEW delay \in Int,
         run'[r] = Released(run[r], retry, delay), report'[r] = report[r],
         run[r].exec \in Held \cup {"QUEUED", "CANCELLED"}
  PROVE  [Client(r)!Next]_(Client(r)!vars)
  <1>1. run[r] \in RunRecord
    BY RowFacts
  <1>2. /\ run'[r].count = run[r].count /\ run'[r].cancel = run[r].cancel
        /\ run'[r].exec = IF run[r].cancel THEN "CANCELLED"
                          ELSE IF retry THEN "QUEUED" ELSE "FAILED"
    BY <1>1 DEF Released, RunRecord
  <1>3. CASE run[r].exec \in Held
    BY <1>2, <1>3, PhaseFacts, ClientMove DEF PhaseMoves
  <1>4. CASE run[r].exec = "QUEUED"
    <2>1. ~run[r].cancel
      BY <1>4, RowFacts DEF RowInv, Endings
    <2>. QED
      BY <1>2, <1>4, <2>1, PhaseFacts, ClientMove DEF PhaseMoves
  <1>5. CASE run[r].exec = "CANCELLED"
    <2>1. run[r].cancel
      BY <1>5, RowFacts DEF RowInv, Endings
    <2>. QED
      BY <1>2, <1>5, <2>1, PhaseFacts, ClientMove
  <1>. QED
    BY <1>3, <1>4, <1>5

LEMMA ClientStep ==
  ASSUME IInv, [Next]_vars, NEW r \in Runs
  PROVE  [Client(r)!Next]_(Client(r)!vars)
  <1>1. CASE Unmoved(r)
    BY <1>1, PhaseFacts, ClientMove DEF Unmoved
  <1>2. CASE Lost(r)
    BY <1>2, ReleasedMove DEF Lost
  <1>3. CASE Claimed(r)
    <2>1. Phase(r) \in {"idle", "offered", "owned"} /\ Phase(r)' = "owned"
      BY <1>3, PhaseFacts DEF Claimed, Held
    <2>2. ~run[r].cancel /\ run'[r].cancel = run[r].cancel
      <3>1. run'[r].cancel \in BOOLEAN /\ run[r].cancel \in BOOLEAN
        BY NextIInv, RowFacts DEF RunRecord, IInv, TypeOK
      <3>. QED
        BY <1>3, <3>1 DEF Claimed
    <2>. QED
      BY <1>3, <2>1, <2>2 DEF Claimed, Client!Next, Client!Take
  <1>4. CASE CreateRun(r)
    BY <1>4, ApiEffect, PhaseFacts, ClientMove DEF CreateRun, Same, PhaseMoves
  <1>5. CASE QueueRun(r)
    <2>1. ~run[r].cancel /\ Phase(r) \in {"idle", "owned"}
      BY <1>5, PhaseFacts DEF QueueRun, Queueable, Held
    <2>. QED
      BY <1>5, <2>1, ApiEffect, PhaseFacts, ClientMove DEF Same, PhaseMoves
  <1>6. CASE RequestCancellation(r)
    <2>1. run[r].exec \in {"IDLE", "QUEUED"} \cup Held
      BY <1>6, RowFacts DEF RequestCancellation, RunRecord, ExecutionStates
    <2>2. run[r].exec \in Held => run[r].active # None /\ run[r].exec # "QUEUED"
      BY RowFacts DEF RowInv, Ownership, Held
    <2>3. run[r].exec \in {"IDLE", "QUEUED"} => run[r].active = None \/ run[r].exec = "QUEUED"
      BY RowFacts DEF RowInv, Ownership
    <2>4. Phase(r) \in {"idle", "offered", "owned"}
          /\ Phase(r)' = IF Phase(r) = "owned" THEN "owned" ELSE "cancelled"
      BY <1>6, <2>1, <2>2, <2>3, ApiEffect, PhaseFacts DEF Held
    <2>5. run'[r].cancel = TRUE
      BY <1>6, ApiEffect, NextIInv DEF RunRecord, IInv, TypeOK
    <2>. QED
      BY <1>6, <2>4, <2>5, ApiEffect DEF Client!Next, Client!RequestStop, Client!Ended
  <1>7. ASSUME NEW n \in Numbers, MarkRunning(r, n) PROVE [Client(r)!Next]_(Client(r)!vars)
    BY <1>7, FenceHolds, ClaimEffect, PhaseFacts, ClientMove DEF MarkRunning, Same, Held
  <1>8. ASSUME NEW n \in Numbers, SaveReport(r, n) PROVE [Client(r)!Next]_(Client(r)!vars)
    <2>1. run[r].exec \in Held /\ run[r].count = n
      BY <1>8, FenceHolds DEF SaveReport
    <2>2. run'[r] = run[r] /\ report'[r] = n
      BY <1>8, ClaimEffect
    <2>. QED
      BY <2>1, <2>2, PhaseFacts DEF Client!Next, Client!Publish
  <1>9. ASSUME NEW n \in Numbers, NEW s \in FinalStages, CompleteExecution(r, n, s)
        PROVE  [Client(r)!Next]_(Client(r)!vars)
    <2>1. run[r].exec \in Held
      BY <1>9, FenceHolds DEF CompleteExecution
    <2>. QED
      BY <1>9, <2>1, ClaimEffect, PhaseFacts, ClientMove DEF PhaseMoves
  <1>10. ASSUME NEW n \in Numbers, NEW retryable \in BOOLEAN, FailExecution(r, n, retryable)
         PROVE  [Client(r)!Next]_(Client(r)!vars)
    <2>1. run[r].exec \in Held
      BY <1>10, FenceHolds DEF FailExecution
    <2>2. Backoff(n) \in Int
      BY BackoffType
    <2>. QED
      BY <1>10, <2>1, <2>2, ClaimEffect, ReleasedMove
  <1>. QED
    BY <1>1, <1>2, <1>3, <1>4, <1>5, <1>6, <1>7, <1>8, <1>9, <1>10, StepChange DEF RowChange

\* Leases, retries, recoveries and restarts show a client of one run nothing
\* but the moves of ResearchRun.
THEOREM LedgerImplementsRun == Spec => ImplementsResearchRun
  <1>1. Init => \A r \in Runs : Client(r)!Init
    <2>. SUFFICES ASSUME Init, NEW r \in Runs PROVE Client(r)!Init
      OBVIOUS
    <2>1. run[r].exec = "ABSENT" /\ run[r].count = 0 /\ run[r].cancel = FALSE /\ report[r] = 0
      BY DEF Init, None
    <2>2. Phase(r) = "absent"
      BY <2>1, PhaseFacts
    <2>. QED
      BY <2>1, <2>2 DEF Client!Init
  <1>2. IInv /\ [Next]_vars => [\A r \in Runs : [Client(r)!Next]_(Client(r)!vars)]_vars
    BY ClientStep
  <1>. QED
    BY <1>1, <1>2, Invariant, PTL DEF Spec, ImplementsResearchRun

---------------------------------------------------------------------------
(* Races. *)

\* A session that writes a stage or an ending carries one: the write it commits
\* later keeps the visible status a status.
SessionsCarryStages ==
  \A r \in Runs, n \in Numbers :
    /\ txn[r][n].op = "stage" => txn[r][n].arg \in Stages
    /\ txn[r][n].op = "complete" => txn[r][n].arg \in FinalStages

\* Only the locked claim counts attempts, and it looks at the limit itself.
CountsAreBounded == \A r \in Runs : run[r].count <= MaxAttempts

RacesInv == RacesTypeOK /\ SessionsCarryStages /\ CountsAreBounded

\* What a step may do to one run: its attempts stay within the budget, and a
\* cancellation recorded before it is recorded after it.
RowKeeps(r) ==
  /\ run'[r].count <= MaxAttempts
  /\ run[r].cancel => run'[r].cancel

\* The same of every run, with the ledger still well typed.
LedgerKeeps == TypeOK' /\ \A r \in Runs : RowKeeps(r)

\* The types of one run's columns, attempts and sessions.
LEMMA RaceRowFacts ==
  ASSUME RacesInv, NEW r \in Runs
  PROVE  /\ run[r] \in RunRecord /\ att[r] \in Row /\ txn[r] \in [Numbers -> Txn]
         /\ run[r].count <= MaxAttempts
  BY DEF RacesInv, RacesTypeOK, TypeOK, CountsAreBounded, Row

\* Releasing a run keeps its count of attempts and its cancellation.
LEMMA ReleasedKeeps ==
  ASSUME NEW rec \in RunRecord, NEW retry \in BOOLEAN, NEW delay \in Int
  PROVE  /\ Released(rec, retry, delay) \in RunRecord
         /\ Released(rec, retry, delay).count = rec.count
         /\ Released(rec, retry, delay).cancel = rec.cancel
  <1>1. Released(rec, retry, delay) \in RunRecord
    BY ReleasedType
  <1>2. /\ Released(rec, retry, delay).count = rec.count
        /\ Released(rec, retry, delay).cancel = rec.cancel
    BY DEF Released, RunRecord
  <1>. QED
    BY <1>1, <1>2

\* Recovery keeps every run's type, count and cancellation, whoever holds it.
LEMMA RecoveryKeeps ==
  ASSUME RacesInv, NEW limit \in Nat, NEW r \in Runs
  PROVE  /\ RecoverExpired(limit)[r] \in RunRecord
         /\ RecoverExpired(limit)[r].count = run[r].count
         /\ RecoverExpired(limit)[r].cancel = run[r].cancel
  <1>. DEFINE n == run[r].active
  <1>1. CASE n # None /\ Expired(r, n)
    <2>. DEFINE retry == n < limit
    <2>1. RecoverExpired(limit)[r] = Released(run[r], retry, 0)
      BY <1>1 DEF RecoverExpired
    <2>2. retry \in BOOLEAN /\ 0 \in Int
      OBVIOUS
    <2>. HIDE DEF n, retry
    <2>. QED
      BY <2>1, <2>2, RaceRowFacts, ReleasedKeeps
  <1>2. CASE ~(n # None /\ Expired(r, n))
    BY <1>2, RaceRowFacts DEF RecoverExpired
  <1>. QED
    BY <1>1, <1>2

\* A grant keeps the cancellation and counts one attempt more.
LEMMA GrantedKeeps ==
  ASSUME NEW rec \in RunRecord, rec.count + 1 \in Numbers
  PROVE  /\ Granted(rec) \in RunRecord
         /\ Granted(rec).count = rec.count + 1
         /\ Granted(rec).cancel = rec.cancel
  <1>. DEFINE k == rec.count + 1
              counted == [rec EXCEPT !.active = k, !.count = k]
  <1>1. counted \in RunRecord /\ counted.count = k /\ counted.cancel = rec.cancel
    BY DEF RunRecord
  <1>. DEFINE claimed == [counted EXCEPT !.exec = "CLAIMED"]
  <1>2. Granted(rec) = [claimed EXCEPT !.wait = 0]
    BY DEF Granted
  <1>. HIDE DEF counted
  <1>3. claimed \in RunRecord /\ claimed.count = k /\ claimed.cancel = rec.cancel
    BY <1>1 DEF RunRecord, ExecutionStates, Held
  <1>. HIDE DEF claimed
  <1>. QED
    BY <1>2, <1>3 DEF RunRecord

\* Fencing the expired attempts keeps the table of attempts well typed.
LEMMA FenceType == ASSUME RacesInv PROVE FenceExpired \in [Runs -> Row]
  <1>1. \A r \in Runs : FenceExpired[r] \in Row
    BY FenceFacts DEF RacesInv, RacesTypeOK
  <1>. QED
    BY <1>1 DEF FenceExpired

(* The steps that change one row: what is asked of the new row is enough. *)
LEMMA OneRowKeeps ==
  ASSUME RacesInv, NEW r \in Runs, NEW rec \in RunRecord, NEW a \in Row,
         NEW rep \in {None} \cup Numbers,
         rec.count <= MaxAttempts, run[r].cancel => rec.cancel,
         run' = [run EXCEPT ![r] = rec], att' = [att EXCEPT ![r] = a],
         report' = [report EXCEPT ![r] = rep]
  PROVE  LedgerKeeps
  <1>1. TypeOK'
    BY DEF RacesInv, RacesTypeOK, TypeOK, Row
  <1>2. ASSUME NEW s \in Runs PROVE RowKeeps(s)
    <2>1. CASE s = r
      BY <2>1 DEF RacesInv, RacesTypeOK, TypeOK, RowKeeps
    <2>2. CASE s # r
      BY <2>2, RaceRowFacts DEF RacesInv, RacesTypeOK, TypeOK, RowKeeps
    <2>. QED
      BY <2>1, <2>2
  <1>. QED
    BY <1>1, <1>2 DEF LedgerKeeps

\* The parts of the state a step on one run leaves as they are.
LEMMA SameRow ==
  ASSUME RacesInv, NEW r \in Runs
  PROVE  /\ run = [run EXCEPT ![r] = run[r]]
         /\ att = [att EXCEPT ![r] = att[r]]
         /\ report = [report EXCEPT ![r] = report[r]]
         /\ report[r] \in {None} \cup Numbers
  BY DEF RacesInv, RacesTypeOK, TypeOK

LEMMA StillKeeps == ASSUME RacesInv, UNCHANGED vars PROVE LedgerKeeps
  BY DEF RacesInv, RacesTypeOK, CountsAreBounded, TypeOK, LedgerKeeps, RowKeeps, vars

\* A step that recovers every run and leaves it at that.
LEMMA RecoveredKeeps ==
  ASSUME RacesInv, NEW limit \in Nat,
         run' = RecoverExpired(limit), att' = FenceExpired, UNCHANGED report
  PROVE  LedgerKeeps
  <1>1. run' \in [Runs -> RunRecord]
    BY RecoveryKeeps DEF RecoverExpired
  <1>2. TypeOK'
    BY <1>1, FenceType DEF RacesInv, RacesTypeOK, TypeOK, Row
  <1>3. \A r \in Runs : RowKeeps(r)
    BY RecoveryKeeps, RaceRowFacts DEF RowKeeps
  <1>. QED
    BY <1>2, <1>3 DEF LedgerKeeps

\* The poll grants an attempt only to a run whose attempts are not spent.
LEMMA ClaimNextKeeps == ASSUME RacesInv, ClaimNext PROVE LedgerKeeps
  <1>. DEFINE rec == RecoverExpired(MaxAttempts)
              eligible == {r \in Runs : Eligible(rec[r])}
  <1>1. CASE eligible = {} /\ run' = rec /\ att' = FenceExpired /\ UNCHANGED report
    BY <1>1, RecoveredKeeps
  <1>2. ASSUME NEW r \in eligible, Grant(r, rec) PROVE LedgerKeeps
    <2>. DEFINE k == rec[r].count + 1
    <2>1. \A s \in Runs : rec[s] \in RunRecord /\ rec[s].count = run[s].count
                          /\ rec[s].cancel = run[s].cancel
      BY RecoveryKeeps
    <2>2. r \in Runs /\ rec[r].count < MaxAttempts
      BY DEF Eligible
    <2>3. k \in Numbers /\ k <= MaxAttempts
      BY <2>1, <2>2, CapFacts DEF RunRecord, Numbers
    <2>4. DOMAIN rec = Runs
      BY DEF RecoverExpired
    <2>5. run' = [rec EXCEPT ![r] = Granted(rec[r])]
      BY <1>2 DEF Grant
    <2>6. att' = [FenceExpired EXCEPT ![r][k] = NewAttempt] /\ report' = report
      BY <1>2 DEF Grant
    <2>7. /\ Granted(rec[r]) \in RunRecord
          /\ Granted(rec[r]).count = k
          /\ Granted(rec[r]).cancel = rec[r].cancel
      BY <2>1, <2>2, <2>3, GrantedKeeps
    <2>8. NewAttempt \in AttemptRecord
      BY DEF NewAttempt, AttemptRecord, AttemptStates, Live
    <2>. HIDE DEF rec, k
    <2>9. run' \in [Runs -> RunRecord]
      BY <2>1, <2>4, <2>5, <2>7
    <2>10. att' \in [Runs -> Row]
      BY <2>2, <2>3, <2>6, <2>8, FenceType DEF Row
    <2>11. TypeOK'
      BY <2>6, <2>9, <2>10 DEF RacesInv, RacesTypeOK, TypeOK, Row
    <2>12. ASSUME NEW s \in Runs PROVE RowKeeps(s)
      <3>1. CASE s = r
        BY <3>1, <2>1, <2>2, <2>3, <2>4, <2>5, <2>7 DEF RowKeeps
      <3>2. CASE s # r
        BY <3>2, <2>1, <2>2, <2>4, <2>5, RaceRowFacts DEF RowKeeps
      <3>. QED
        BY <3>1, <3>2
    <2>. QED
      BY <2>11, <2>12 DEF LedgerKeeps
  <1>. QED
    BY <1>1, <1>2 DEF ClaimNext

\* A process that starts releases runs, and may mark one as interrupted.
LEMMA StartupKeeps == ASSUME RacesInv, Startup PROVE LedgerKeeps
  <1>1. ASSUME NEW r \in Runs
        PROVE  run'[r] \in RunRecord /\ RowKeeps(r)
    <2>. DEFINE retry == run[r].count < StartupLimit
    <2>1. retry \in BOOLEAN /\ 0 \in Int
      OBVIOUS
    <2>2. run'[r] \in {run[r], Released(run[r], retry, 0), [run[r] EXCEPT !.status = "INTERRUPTED"]}
      BY DEF Startup
    <2>. HIDE DEF retry
    <2>3. CASE run'[r] = run[r]
      BY <2>3, RaceRowFacts DEF RowKeeps
    <2>4. CASE run'[r] = Released(run[r], retry, 0)
      BY <2>1, <2>4, RaceRowFacts, ReleasedKeeps DEF RowKeeps
    <2>5. CASE run'[r] = [run[r] EXCEPT !.status = "INTERRUPTED"]
      BY <2>5, RaceRowFacts DEF RowKeeps, RunRecord, Statuses
    <2>. QED
      BY <2>2, <2>3, <2>4, <2>5
  <1>2. run' \in [Runs -> RunRecord]
    BY <1>1 DEF Startup
  <1>3. TypeOK'
    BY <1>2, FenceType DEF Startup, RacesInv, RacesTypeOK, TypeOK, Row
  <1>. QED
    BY <1>1, <1>3 DEF LedgerKeeps

\* What the API does to a run under its lock.
LEMMA LockedKeeps == ASSUME RacesInv, NEW r \in Runs, Locked(r) PROVE LedgerKeeps
  <1>1. CASE CreateRun(r)
    <2>. DEFINE rec == [run[r] EXCEPT !.exec = "IDLE"]
    <2>1. rec \in RunRecord /\ rec.count = run[r].count /\ (run[r].cancel => rec.cancel)
      BY RaceRowFacts DEF RunRecord, ExecutionStates
    <2>2. run' = [run EXCEPT ![r] = rec] /\ att' = [att EXCEPT ![r] = att[r]]
          /\ report' = [report EXCEPT ![r] = report[r]]
      BY <1>1, SameRow DEF CreateRun
    <2>. HIDE DEF rec
    <2>. QED
      BY <2>1, <2>2, RaceRowFacts, SameRow, OneRowKeeps
  <1>2. CASE QueueRun(r)
    <2>. DEFINE queued == [run[r] EXCEPT !.exec = "QUEUED"]
                rec == [queued EXCEPT !.wait = 0]
    <2>1. queued \in RunRecord /\ queued.count = run[r].count /\ queued.cancel = run[r].cancel
      BY RaceRowFacts DEF RunRecord, ExecutionStates
    <2>2. run' = [run EXCEPT ![r] = rec] /\ att' = [att EXCEPT ![r] = att[r]]
          /\ report' = [report EXCEPT ![r] = report[r]]
      BY <1>2, SameRow, RaceRowFacts DEF QueueRun, RunRecord
    <2>. HIDE DEF queued
    <2>3. rec \in RunRecord /\ rec.count = run[r].count /\ (run[r].cancel => rec.cancel)
      BY <2>1 DEF RunRecord
    <2>. HIDE DEF rec
    <2>. QED
      BY <2>2, <2>3, RaceRowFacts, SameRow, OneRowKeeps
  <1>3. CASE RequestCancellation(r)
    <2>. DEFINE rec == IF run[r].active = None \/ run[r].exec = "QUEUED"
           THEN [run[r] EXCEPT !.cancel = TRUE, !.exec = "CANCELLED", !.status = "CANCELLED"]
           ELSE [run[r] EXCEPT !.cancel = TRUE, !.exec = "CANCEL_REQUESTED"]
    <2>1. rec \in RunRecord /\ rec.count = run[r].count /\ rec.cancel
      BY RaceRowFacts DEF RunRecord, ExecutionStates, Terminal, Held, Statuses
    <2>2. run' = [run EXCEPT ![r] = rec] /\ att' = [att EXCEPT ![r] = att[r]]
          /\ report' = [report EXCEPT ![r] = report[r]]
      BY <1>3, SameRow DEF RequestCancellation
    <2>. HIDE DEF rec
    <2>. QED
      BY <2>1, <2>2, RaceRowFacts, SameRow, OneRowKeeps
  <1>. QED
    BY <1>1, <1>2, <1>3 DEF Locked

\* The clock.
LEMMA TickKeeps == ASSUME RacesInv, Tick PROVE LedgerKeeps
  <1>1. ASSUME NEW r \in Runs PROVE run'[r] \in RunRecord /\ att'[r] \in Row /\ RowKeeps(r)
    <2>1. run'[r] = [run[r] EXCEPT !.wait = Elapse(@)] /\ Elapse(run[r].wait) \in Int
      BY RaceRowFacts DEF Tick, Elapse, RunRecord
    <2>2. att'[r] = [n \in Numbers |-> [att[r][n] EXCEPT !.lease = Elapse(@)]]
      BY DEF Tick
    <2>3. \A n \in Numbers : Elapse(att[r][n].lease) \in 0 .. LeaseTime
      BY RaceRowFacts DEF Row, AttemptRecord, Elapse
    <2>4. run'[r] \in RunRecord /\ RowKeeps(r)
      BY <2>1, RaceRowFacts DEF RunRecord, RowKeeps
    <2>5. att'[r] \in Row
      BY <2>2, <2>3, RaceRowFacts DEF Row, AttemptRecord
    <2>. QED
      BY <2>4, <2>5
  <1>2. run' \in [Runs -> RunRecord] /\ att' \in [Runs -> Row]
    BY <1>1 DEF Tick
  <1>3. TypeOK'
    BY <1>2 DEF Tick, RacesInv, RacesTypeOK, TypeOK, Row
  <1>. QED
    BY <1>1, <1>3 DEF LedgerKeeps

\* A session that commits writes the columns it owns and no others; what it
\* chose by its stale reading changes neither the count nor the cancellation.
LEMMA CommitKeeps ==
  ASSUME RacesInv, NEW r \in Runs, NEW n \in Numbers, Commit(r, n) PROVE LedgerKeeps
  <1>. DEFINE status(s) == [att[r] EXCEPT ![n].status = s]
  <1>1. \A s \in AttemptStates : status(s) \in Row
    BY RaceRowFacts DEF Row, AttemptRecord
  <1>2. {"RUNNING", "CANCELLED", "SUCCEEDED", "FAILED"} \subseteq AttemptStates
    BY DEF AttemptStates, Live
  <1>3. txn[r][n].lease \in 0 .. LeaseTime /\ txn[r][n].cancel \in BOOLEAN
    BY RaceRowFacts DEF Txn
  <1>4. CASE CommitMark(r, n)
    <2>. DEFINE rec == [run[r] EXCEPT !.exec = "RUNNING"]
    <2>1. rec \in RunRecord /\ rec.count = run[r].count /\ (run[r].cancel => rec.cancel)
      BY RaceRowFacts DEF RunRecord, ExecutionStates, Held
    <2>2. run' = [run EXCEPT ![r] = rec] /\ report' = report
          /\ att' = [att EXCEPT ![r] = status("RUNNING")]
      BY <1>4 DEF CommitMark
    <2>. HIDE DEF rec, status
    <2>. QED
      BY <1>1, <1>2, <2>1, <2>2, RaceRowFacts, SameRow, OneRowKeeps
  <1>5. CASE CommitRenewal(r, n)
    <2>. DEFINE a == [att[r] EXCEPT ![n].lease = txn[r][n].lease]
    <2>1. a \in Row
      BY <1>3, RaceRowFacts DEF Row, AttemptRecord
    <2>2. att' = [att EXCEPT ![r] = a] /\ run' = [run EXCEPT ![r] = run[r]]
          /\ report' = [report EXCEPT ![r] = report[r]]
      BY <1>5, SameRow DEF CommitRenewal
    <2>. HIDE DEF a
    <2>. QED
      BY <2>1, <2>2, RaceRowFacts, SameRow, OneRowKeeps
  <1>6. CASE CommitStage(r, n)
    <2>. DEFINE rec == [run[r] EXCEPT !.status = txn[r][n].arg]
    <2>1. txn[r][n].arg \in Statuses
      BY <1>6 DEF CommitStage, Ends, RacesInv, SessionsCarryStages, Statuses
    <2>2. rec \in RunRecord /\ rec.count = run[r].count /\ (run[r].cancel => rec.cancel)
      BY <2>1, RaceRowFacts DEF RunRecord
    <2>3. run' = [run EXCEPT ![r] = rec] /\ att' = [att EXCEPT ![r] = att[r]]
          /\ report' = [report EXCEPT ![r] = report[r]]
      BY <1>6, SameRow DEF CommitStage
    <2>. HIDE DEF rec
    <2>. QED
      BY <2>2, <2>3, RaceRowFacts, SameRow, OneRowKeeps
  <1>7. CASE CommitReport(r, n)
    <2>1. report' = [report EXCEPT ![r] = n] /\ run' = run /\ att' = att
      BY <1>7 DEF CommitReport
    <2>. QED
      BY <2>1, RaceRowFacts, SameRow, OneRowKeeps
  <1>8. CASE CommitCompletion(r, n)
    <2>1. CASE txn[r][n].cancel
      <3>. DEFINE rec == [run[r] EXCEPT !.exec = "CANCELLED", !.status = "CANCELLED",
                                        !.active = None]
      <3>1. rec \in RunRecord /\ rec.count = run[r].count /\ (run[r].cancel => rec.cancel)
        BY RaceRowFacts DEF RunRecord, ExecutionStates, Terminal, Statuses
      <3>2. run' = [run EXCEPT ![r] = rec] /\ report' = report
            /\ att' = [att EXCEPT ![r] = status("CANCELLED")]
        BY <1>8, <2>1 DEF CommitCompletion
      <3>. HIDE DEF rec, status
      <3>. QED
        BY <1>1, <1>2, <3>1, <3>2, RaceRowFacts, SameRow, OneRowKeeps
    <2>2. CASE ~txn[r][n].cancel
      <3>. DEFINE rec == [run[r] EXCEPT !.exec = "COMPLETED", !.status = txn[r][n].arg,
                                        !.active = None]
      <3>1. txn[r][n].arg \in Statuses
        BY <1>8 DEF CommitCompletion, Ends, RacesInv, SessionsCarryStages, Statuses
      <3>2. rec \in RunRecord /\ rec.count = run[r].count /\ (run[r].cancel => rec.cancel)
        BY <3>1, RaceRowFacts DEF RunRecord, ExecutionStates, Terminal
      <3>3. run' = [run EXCEPT ![r] = rec] /\ report' = report
            /\ att' = [att EXCEPT ![r] = status("SUCCEEDED")]
        BY <1>8, <2>2 DEF CommitCompletion
      <3>. HIDE DEF rec, status
      <3>. QED
        BY <1>1, <1>2, <3>2, <3>3, RaceRowFacts, SameRow, OneRowKeeps
    <2>. QED
      BY <2>1, <2>2
  <1>9. CASE CommitFailure(r, n)
    <2>. DEFINE read == [run[r] EXCEPT !.cancel = txn[r][n].cancel]
                retry == txn[r][n].arg = "retryable" /\ n < MaxAttempts
                released == Released(read, retry, Backoff(n))
                rec == [released EXCEPT !.cancel = run[r].cancel]
    <2>1. read \in RunRecord /\ read.count = run[r].count
      BY <1>3, RaceRowFacts DEF RunRecord
    <2>2. retry \in BOOLEAN /\ Backoff(n) \in Int
      BY BackoffType
    <2>3. run' = [run EXCEPT ![r] = rec] /\ report' = report
          /\ att' = [att EXCEPT ![r] = status("FAILED")]
      BY <1>9 DEF CommitFailure
    <2>. HIDE DEF read, retry
    <2>4. released \in RunRecord /\ released.count = run[r].count
      BY <2>1, <2>2, ReleasedKeeps
    <2>. HIDE DEF released
    <2>5. rec \in RunRecord /\ rec.count = run[r].count /\ (run[r].cancel => rec.cancel)
      BY <2>4, RaceRowFacts DEF RunRecord
    <2>. HIDE DEF rec, status
    <2>. QED
      BY <1>1, <1>2, <2>3, <2>5, RaceRowFacts, SameRow, OneRowKeeps, ZenonT(60)
  <1>. QED
    BY <1>4, <1>5, <1>6, <1>7, <1>8, <1>9 DEF Commit

\* Time that has run out stays run out.
LEMMA ElapseType == ASSUME NEW t \in 0 .. LeaseTime PROVE Elapse(t) \in 0 .. LeaseTime
  BY LeaseTimeAssumption DEF Elapse

\* The sessions themselves: each is one of Txn and carries what it will write.
SessionsInv == txn \in [Runs -> [Numbers -> Txn]] /\ SessionsCarryStages

\* One session opened or closed.
LEMMA OneSession ==
  ASSUME RacesInv, NEW r \in Runs, NEW n \in Numbers, NEW t \in Txn,
         t.op = "stage" => t.arg \in Stages,
         t.op = "complete" => t.arg \in FinalStages,
         txn' = [txn EXCEPT ![r][n] = t]
  PROVE  SessionsInv'
  BY DEF RacesInv, RacesTypeOK, SessionsInv, SessionsCarryStages

LEMMA NoTxnType == NoTxn \in Txn /\ NoTxn.op = "none"
  BY DEF NoTxn, Txn

\* The lease a session carries, computed when it begins.
LEMMA RenewedLease ==
  ASSUME NEW op PROVE (IF op = "renew" THEN LeaseTime ELSE 0) \in 0 .. LeaseTime
  BY LeaseTimeAssumption

\* A session that begins.
LEMMA BeginSession ==
  ASSUME RacesInv, NEW r \in Runs, NEW n \in Numbers, NEW op \in Operations,
         NEW arg \in Stages \cup FinalStages \cup {"none", "retryable"},
         op = "stage" => arg \in Stages, op = "complete" => arg \in FinalStages,
         Begin(r, n, op, arg)
  PROVE  SessionsInv'
  <1>. DEFINE cancel == run[r].cancel \/ run[r].exec = "CANCEL_REQUESTED"
              lease == IF op = "renew" THEN LeaseTime ELSE 0
              t == [op |-> op, arg |-> arg, cancel |-> cancel, lease |-> lease]
  <1>1. txn' = [txn EXCEPT ![r][n] = t]
    BY DEF Begin
  <1>2. cancel \in BOOLEAN
    OBVIOUS
  <1>3. lease \in 0 .. LeaseTime
    BY RenewedLease
  <1>. HIDE DEF cancel, lease
  <1>4. t \in Txn /\ t.op = op /\ t.arg = arg
    BY <1>2, <1>3 DEF Txn
  <1>. HIDE DEF t
  <1>. QED
    BY <1>1, <1>4, OneSession

LEMMA SessionStep == ASSUME RacesInv, [RacesNext]_racesVars PROVE SessionsInv'
  <1>1. CASE RacesTick
    <2>1. \A r \in Runs, n \in Numbers : txn[r][n] \in Txn
                                        /\ Elapse(txn[r][n].lease) \in 0 .. LeaseTime
      <3>1. \A r \in Runs, n \in Numbers : txn[r][n] \in Txn
        BY RaceRowFacts
      <3>2. \A r \in Runs, n \in Numbers : txn[r][n] \in Txn /\ txn[r][n].lease \in 0 .. LeaseTime
        BY <3>1 DEF Txn
      <3>. QED
        BY <3>2, ElapseType
    <2>2. txn' = [r \in Runs |-> [n \in Numbers |-> [txn[r][n] EXCEPT !.lease = Elapse(@)]]]
      BY <1>1 DEF RacesTick
    <2>3. ASSUME NEW r \in Runs, NEW n \in Numbers
          PROVE  /\ txn'[r][n] \in Txn /\ txn'[r][n].op = txn[r][n].op
                 /\ txn'[r][n].arg = txn[r][n].arg
      BY <2>1, <2>2, ZenonT(60) DEF Txn
    <2>. QED
      BY <2>2, <2>3 DEF SessionsInv, SessionsCarryStages, RacesInv
  <1>2. CASE UNCHANGED txn
    BY <1>2 DEF RacesInv, RacesTypeOK, SessionsInv, SessionsCarryStages
  <1>3. ASSUME NEW r \in Runs, NEW n \in Numbers, BeginWrite(r, n) PROVE SessionsInv'
    <2>1. {"mark", "renew", "report", "stage", "complete", "fail"} \subseteq Operations
      BY DEF Operations
    <2>2. CASE Begin(r, n, "mark", "none")
      BY <2>1, <2>2, BeginSession
    <2>3. CASE Begin(r, n, "renew", "none")
      BY <2>1, <2>3, BeginSession
    <2>4. CASE Begin(r, n, "report", "none")
      BY <2>1, <2>4, BeginSession
    <2>5. ASSUME NEW s \in Stages, Begin(r, n, "stage", s) PROVE SessionsInv'
      BY <2>1, <2>5, BeginSession
    <2>6. ASSUME NEW s \in FinalStages, Begin(r, n, "complete", s) PROVE SessionsInv'
      BY <2>1, <2>6, BeginSession
    <2>7. ASSUME NEW arg \in {"none", "retryable"}, Begin(r, n, "fail", arg) PROVE SessionsInv'
      BY <2>1, <2>7, BeginSession
    <2>. QED
      BY <1>3, <2>2, <2>3, <2>4, <2>5, <2>6, <2>7 DEF BeginWrite
  <1>4. ASSUME NEW r \in Runs, NEW n \in Numbers, txn' = [txn EXCEPT ![r][n] = NoTxn]
        PROVE  SessionsInv'
    BY <1>4, NoTxnType, OneSession
  <1>5. ASSUME NEW r \in Runs, NEW n \in Numbers, Commit(r, n) \/ Rollback(r, n)
        PROVE  SessionsInv'
    BY <1>4, <1>5 DEF Commit, Rollback, Ends, CommitMark, CommitRenewal, CommitStage,
       CommitReport, CommitCompletion, CommitFailure
  <1>. QED
    BY <1>1, <1>2, <1>3, <1>5 DEF RacesNext, racesVars

\* The ledger, whatever step is taken.
LEMMA LedgerStep == ASSUME RacesInv, [RacesNext]_racesVars PROVE LedgerKeeps
  <1>1. CASE RacesTick
    BY <1>1, TickKeeps DEF RacesTick
  <1>2. CASE Startup \/ ClaimNext
    BY <1>2, StartupKeeps, ClaimNextKeeps
  <1>3. ASSUME NEW r \in Runs, Locked(r) PROVE LedgerKeeps
    BY <1>3, LockedKeeps
  <1>4. ASSUME NEW r \in Runs, NEW n \in Numbers, Commit(r, n) PROVE LedgerKeeps
    BY <1>4, CommitKeeps
  <1>5. ASSUME NEW r \in Runs, NEW n \in Numbers, BeginWrite(r, n) \/ Rollback(r, n)
        PROVE  LedgerKeeps
    BY <1>5, StillKeeps DEF BeginWrite, Begin, Rollback
  <1>6. CASE UNCHANGED racesVars
    BY <1>6, StillKeeps DEF racesVars
  <1>. QED
    BY <1>1, <1>2, <1>3, <1>4, <1>5, <1>6 DEF RacesNext

\* Every run starts with no attempt, and no session is open.
LEMMA RacesInitInv == RacesInit => RacesInv
  <1>. SUFFICES ASSUME RacesInit PROVE RacesInv
    OBVIOUS
  <1>1. TypeOK
    BY InitIInv DEF RacesInit, IInv
  <1>2. SessionsInv
    BY NoTxnType DEF RacesInit, SessionsInv, SessionsCarryStages
  <1>3. CountsAreBounded
    BY DEF RacesInit, Init, CountsAreBounded
  <1>. QED
    BY <1>1, <1>2, <1>3 DEF RacesInv, RacesTypeOK, SessionsInv

\* The invariant is inductive: each conjunct is kept by every step on its own.
THEOREM RacesInvariant == RacesSpec => []RacesInv
  <1>1. RacesInv /\ [RacesNext]_racesVars => RacesInv'
    BY SessionStep, LedgerStep
    DEF RacesInv, RacesTypeOK, SessionsInv, LedgerKeeps, RowKeeps, CountsAreBounded
  <1>. QED
    BY <1>1, RacesInitInv, PTL DEF RacesSpec

\* However the sessions of several processes interleave, ledger and sessions
\* stay well typed.
THEOREM RacesTypeCorrect == RacesSpec => []RacesTypeOK
  <1>1. RacesInv => RacesTypeOK
    BY DEF RacesInv
  <1>. QED
    BY <1>1, RacesInvariant, PTL

\* A recorded cancellation survives every stale snapshot that is written back.
THEOREM CancellationStays == RacesSpec => CancellationIsKept
  <1>1. RacesInv /\ [RacesNext]_racesVars
          => [\A r \in Runs : run[r].cancel => run'[r].cancel]_racesVars
    BY LedgerStep DEF LedgerKeeps, RowKeeps
  <1>. QED
    BY <1>1, RacesInvariant, PTL DEF RacesSpec, CancellationIsKept

---------------------------------------------------------------------------
(* Claims and verdicts under races.  A step is described by what it does to *)
(* one run, to one of its attempts and to that attempt's session.           *)

Verdicts == {"SUCCEEDED", "FAILED", "CANCELLED"}

\* The run names the attempt it named, none, or one that is new; it completes
\* with an attempt that succeeded.
RunMoves(r) ==
  /\ run'[r].count >= run[r].count
  /\ run'[r].active \in {None, run[r].active} \/ run'[r].active > run[r].count
  /\ run'[r].exec = "COMPLETED" =>
       run[r].exec = "COMPLETED" \/ \E n \in Numbers : att'[r][n].status = "SUCCEEDED"

\* An attempt is left alone, fenced, made, or written by its own session, which
\* that ends.
AttemptMoves(r, n) ==
  \/ att'[r][n].status = att[r][n].status
  \/ att[r][n].status \in Live /\ att'[r][n].status = "LOST"
  \/ n > run[r].count /\ n <= run'[r].count /\ att'[r][n].status = "CLAIMED"
  \/ txn[r][n] # NoTxn /\ txn'[r][n] = NoTxn

\* Only the attempt that holds its run opens a session.
SessionMoves(r, n) ==
  txn'[r][n] # NoTxn => txn[r][n] # NoTxn \/ (att[r][n].status \in Live /\ run[r].active = n)

Moves(r) == RunMoves(r) /\ \A n \in Numbers : AttemptMoves(r, n) /\ SessionMoves(r, n)

\* The state of the run, its number of attempts and the attempt it names.
LEMMA ReleasedMoves ==
  ASSUME NEW rec \in RunRecord, NEW retry \in BOOLEAN, NEW delay \in Int
  PROVE  /\ Released(rec, retry, delay).active = None
         /\ Released(rec, retry, delay).exec # "COMPLETED"
         /\ Released(rec, retry, delay).count = rec.count
  BY DEF Released, RunRecord

\* Numbers compare with themselves.
LEMMA RunNumbers ==
  ASSUME RacesInv, NEW r \in Runs
  PROVE  /\ run[r].count \in Nat /\ run[r].active \in Nat
         /\ run[r].count >= run[r].count
  BY RaceRowFacts, CapFacts DEF RunRecord, Numbers, None

\* A run whose columns are not touched.
LEMMA SameRunMoves ==
  ASSUME RacesInv, NEW r \in Runs,
         run'[r].count = run[r].count, run'[r].active \in {None, run[r].active},
         run'[r].exec = "COMPLETED" => run[r].exec = "COMPLETED"
  PROVE  RunMoves(r)
  BY RunNumbers DEF RunMoves

\* Recovery fences what is expired and releases the run that named it.
LEMMA FenceMoves ==
  ASSUME RacesInv, NEW r \in Runs, NEW n \in Numbers
  PROVE  \/ FenceExpired[r][n].status = att[r][n].status
         \/ att[r][n].status \in Live /\ FenceExpired[r][n].status = "LOST"
  <1>1. CASE Expired(r, n)
    <2>1. FenceExpired[r][n] = [att[r][n] EXCEPT !.status = "LOST"]
      BY <1>1 DEF FenceExpired
    <2>. QED
      BY <1>1, <2>1, RaceRowFacts DEF Expired, Row, AttemptRecord
  <1>2. CASE ~Expired(r, n)
    BY <1>2 DEF FenceExpired
  <1>. QED
    BY <1>1, <1>2

LEMMA RecoveryMoves ==
  ASSUME RacesInv, NEW limit \in Nat, NEW r \in Runs
  PROVE  /\ RecoverExpired(limit)[r].count = run[r].count
         /\ RecoverExpired(limit)[r].active \in {None, run[r].active}
         /\ RecoverExpired(limit)[r].exec = "COMPLETED" => run[r].exec = "COMPLETED"
  <1>. DEFINE n == run[r].active
  <1>1. CASE n # None /\ Expired(r, n)
    <2>. DEFINE retry == n < limit
    <2>1. RecoverExpired(limit)[r] = Released(run[r], retry, 0)
      BY <1>1 DEF RecoverExpired
    <2>2. retry \in BOOLEAN /\ 0 \in Int
      OBVIOUS
    <2>. HIDE DEF n, retry
    <2>. QED
      BY <2>1, <2>2, RaceRowFacts, ReleasedMoves
  <1>2. CASE ~(n # None /\ Expired(r, n))
    BY <1>2 DEF RecoverExpired
  <1>. QED
    BY <1>1, <1>2

\* A step that fences and recovers, and opens or closes no session.
LEMMA RecoveredMoves ==
  ASSUME RacesInv, NEW limit \in Nat, NEW r \in Runs,
         run'[r] = RecoverExpired(limit)[r], att' = FenceExpired, UNCHANGED txn
  PROVE  Moves(r)
  <1>1. RunMoves(r)
    BY RecoveryMoves, SameRunMoves
  <1>2. ASSUME NEW n \in Numbers PROVE AttemptMoves(r, n) /\ SessionMoves(r, n)
    BY FenceMoves DEF AttemptMoves, SessionMoves
  <1>. QED
    BY <1>1, <1>2 DEF Moves

\* The poll makes the next attempt of one run.
LEMMA ClaimMoves == ASSUME RacesInv, ClaimNext, UNCHANGED txn, NEW r \in Runs PROVE Moves(r)
  <1>. DEFINE rec == RecoverExpired(MaxAttempts)
              eligible == {s \in Runs : Eligible(rec[s])}
  <1>0. MaxAttempts \in Nat
    BY MaxAttemptsAssumption
  <1>1. CASE eligible = {} /\ run' = rec /\ att' = FenceExpired /\ UNCHANGED report
    BY <1>0, <1>1, RecoveredMoves
  <1>2. ASSUME NEW s \in eligible, Grant(s, rec) PROVE Moves(r)
    <2>. DEFINE k == rec[s].count + 1
    <2>1. s \in Runs /\ rec[s].count = run[s].count /\ rec[s].count < MaxAttempts
      BY <1>0, RecoveryMoves DEF Eligible
    <2>2. k \in Numbers /\ k > run[s].count
      BY <2>1, RunNumbers, CapFacts DEF Numbers
    <2>3. run' = [rec EXCEPT ![s] = Granted(rec[s])] /\ DOMAIN rec = Runs
      BY <1>2 DEF Grant, RecoverExpired
    <2>4. att' = [FenceExpired EXCEPT ![s][k] = NewAttempt]
      BY <1>2 DEF Grant
    <2>5. /\ Granted(rec[s]).count = k /\ Granted(rec[s]).active = k
          /\ Granted(rec[s]).exec = "CLAIMED"
      BY <1>0, RecoveryKeeps DEF Granted, RunRecord
    <2>. HIDE DEF rec, k
    <2>6. CASE s # r
      <3>1. run'[r] = rec[r] /\ \A n \in Numbers : att'[r][n] = FenceExpired[r][n]
        BY <2>3, <2>4, <2>6
      <3>2. RunMoves(r)
        BY <1>0, <3>1, RecoveryMoves, SameRunMoves DEF rec
      <3>3. ASSUME NEW n \in Numbers PROVE AttemptMoves(r, n) /\ SessionMoves(r, n)
        BY <3>1, FenceMoves DEF AttemptMoves, SessionMoves
      <3>. QED
        BY <3>2, <3>3 DEF Moves
    <2>7. CASE s = r
      <3>1. run'[r].count = k /\ run'[r].active = k /\ run'[r].exec = "CLAIMED"
        BY <2>1, <2>3, <2>5, <2>7
      <3>2. RunMoves(r)
        BY <2>2, <2>7, <3>1, RunNumbers DEF RunMoves, Numbers
      <3>3. FenceExpired \in [Runs -> Row]
        BY FenceType
      <3>4. ASSUME NEW n \in Numbers PROVE AttemptMoves(r, n) /\ SessionMoves(r, n)
        <4>1. CASE n = k
          <5>1. att'[r][n].status = "CLAIMED"
            BY <2>4, <2>7, <3>3, <4>1 DEF Row, NewAttempt
          <5>2. n > run[r].count /\ n <= run'[r].count
            BY <2>2, <2>7, <3>1, <4>1 DEF Numbers
          <5>. QED
            BY <5>1, <5>2 DEF AttemptMoves, SessionMoves
        <4>2. CASE n # k
          <5>1. att'[r][n] = FenceExpired[r][n]
            BY <2>4, <2>7, <3>3, <4>2 DEF Row
          <5>. QED
            BY <5>1, FenceMoves DEF AttemptMoves, SessionMoves
        <4>. QED
          BY <4>1, <4>2
      <3>. QED
        BY <3>2, <3>4 DEF Moves
    <2>. QED
      BY <2>6, <2>7
  <1>. QED
    BY <1>1, <1>2 DEF ClaimNext

LEMMA StartupMoves == ASSUME RacesInv, Startup, UNCHANGED txn, NEW r \in Runs PROVE Moves(r)
  <1>. DEFINE retry == run[r].count < StartupLimit
  <1>1. retry \in BOOLEAN /\ 0 \in Int
    OBVIOUS
  <1>2. run'[r] \in {run[r], Released(run[r], retry, 0), [run[r] EXCEPT !.status = "INTERRUPTED"]}
    BY DEF Startup
  <1>. HIDE DEF retry
  <1>3. /\ run'[r].count = run[r].count /\ run'[r].active \in {None, run[r].active}
        /\ run'[r].exec = "COMPLETED" => run[r].exec = "COMPLETED"
    <2>1. CASE run'[r] = run[r]
      BY <2>1
    <2>2. CASE run'[r] = Released(run[r], retry, 0)
      BY <1>1, <2>2, RaceRowFacts, ReleasedMoves
    <2>3. CASE run'[r] = [run[r] EXCEPT !.status = "INTERRUPTED"]
      BY <2>3, RaceRowFacts DEF RunRecord
    <2>. QED
      BY <1>2, <2>1, <2>2, <2>3
  <1>4. RunMoves(r)
    BY <1>3, SameRunMoves
  <1>5. ASSUME NEW n \in Numbers PROVE AttemptMoves(r, n) /\ SessionMoves(r, n)
    BY FenceMoves DEF Startup, AttemptMoves, SessionMoves
  <1>. QED
    BY <1>4, <1>5 DEF Moves

\* What leaves the attempts' states and the sessions alone.
LEMMA QuietMoves ==
  ASSUME RacesInv, NEW r \in Runs,
         run'[r].count = run[r].count, run'[r].active \in {None, run[r].active},
         run'[r].exec = "COMPLETED" => run[r].exec = "COMPLETED",
         \A n \in Numbers : att'[r][n].status = att[r][n].status,
         \A n \in Numbers : txn'[r][n] # NoTxn => txn[r][n] # NoTxn
  PROVE  Moves(r)
  BY SameRunMoves DEF Moves, AttemptMoves, SessionMoves

LEMMA LockedMoves ==
  ASSUME RacesInv, NEW s \in Runs, Locked(s), UNCHANGED txn, NEW r \in Runs PROVE Moves(r)
  <1>1. att' = att
    BY DEF Locked, CreateRun, QueueRun, RequestCancellation
  <1>2. /\ run'[r].count = run[r].count /\ run'[r].active = run[r].active
        /\ run'[r].exec = "COMPLETED" => run[r].exec = "COMPLETED"
    <2>1. CASE r # s
      BY <2>1 DEF Locked, CreateRun, QueueRun, RequestCancellation, RacesInv, RacesTypeOK, TypeOK
    <2>2. CASE r = s
      <3>1. run \in [Runs -> RunRecord] /\ run[r] \in RunRecord
        BY DEF RacesInv, RacesTypeOK, TypeOK
      <3>2. CASE CreateRun(s)
        <4>1. run'[r] = [run[r] EXCEPT !.exec = "IDLE"]
          BY <2>2, <3>1, <3>2 DEF CreateRun
        <4>. QED
          BY <3>1, <4>1 DEF RunRecord
      <3>3. CASE QueueRun(s)
        <4>1. run'[r] = [run[r] EXCEPT !.exec = "QUEUED", !.wait = 0]
          BY <2>2, <3>1, <3>3 DEF QueueRun
        <4>. QED
          BY <3>1, <4>1 DEF RunRecord
      <3>4. CASE RequestCancellation(s)
        <4>1. \/ run'[r] = [run[r] EXCEPT !.cancel = TRUE, !.exec = "CANCELLED",
                                          !.status = "CANCELLED"]
              \/ run'[r] = [run[r] EXCEPT !.cancel = TRUE, !.exec = "CANCEL_REQUESTED"]
          BY <2>2, <3>1, <3>4 DEF RequestCancellation
        <4>. QED
          BY <3>1, <4>1 DEF RunRecord
      <3>. QED
        BY <3>2, <3>3, <3>4 DEF Locked
    <2>. QED
      BY <2>1, <2>2
  <1>. QED
    BY <1>1, <1>2, QuietMoves

LEMMA TickMoves == ASSUME RacesInv, RacesTick, NEW r \in Runs PROVE Moves(r)
  <1>1. run'[r] = [run[r] EXCEPT !.wait = Elapse(@)]
    BY DEF RacesTick, Tick
  <1>2. \A n \in Numbers : att'[r][n] = [att[r][n] EXCEPT !.lease = Elapse(@)]
    BY DEF RacesTick, Tick
  <1>3. ASSUME NEW n \in Numbers PROVE att'[r][n].status = att[r][n].status
    <2>1. att[r][n] \in AttemptRecord
      BY RaceRowFacts DEF Row
    <2>2. att'[r][n] = [att[r][n] EXCEPT !.lease = Elapse(@)]
      BY <1>2
    <2>. QED
      BY <2>1, <2>2 DEF AttemptRecord
  <1>4. run'[r].count = run[r].count /\ run'[r].active = run[r].active /\ run'[r].exec = run[r].exec
    BY <1>1, RaceRowFacts DEF RunRecord
  <1>5. ASSUME NEW n \in Numbers, txn[r][n] = NoTxn PROVE txn'[r][n] = NoTxn
    <2>1. txn'[r][n] = [NoTxn EXCEPT !.lease = Elapse(@)]
      BY <1>5 DEF RacesTick
    <2>2. NoTxn.lease = 0 /\ Elapse(0) = 0
      BY DEF NoTxn, Elapse
    <2>3. [NoTxn EXCEPT !.lease = 0] = NoTxn
      BY DEF NoTxn
    <2>. QED
      BY <2>1, <2>2, <2>3
  <1>. QED
    BY <1>3, <1>4, <1>5, QuietMoves

\* A session that begins changes nothing else; one that is rolled back, too.
LEMMA SessionOnlyMoves ==
  ASSUME RacesInv, NEW s \in Runs, NEW m \in Numbers,
         UNCHANGED vars, NEW t, txn' = [txn EXCEPT ![s][m] = t],
         t # NoTxn => ClaimRecord(s, m), NEW r \in Runs
  PROVE  Moves(r)
  <1>1. RunMoves(r)
    BY SameRunMoves DEF vars
  <1>2. ASSUME NEW n \in Numbers PROVE AttemptMoves(r, n) /\ SessionMoves(r, n)
    <2>1. AttemptMoves(r, n)
      BY DEF AttemptMoves, vars
    <2>2. CASE r = s /\ n = m
      BY <2>1, <2>2 DEF SessionMoves, ClaimRecord, RacesInv, RacesTypeOK
    <2>3. CASE ~(r = s /\ n = m)
      BY <2>1, <2>3 DEF SessionMoves, RacesInv, RacesTypeOK
    <2>. QED
      BY <2>2, <2>3, <2>1
  <1>. QED
    BY <1>1, <1>2 DEF Moves

\* A commit closes its session and writes no other attempt; what it makes of the
\* run is left to show.
LEMMA OwnMoves ==
  ASSUME RacesInv, NEW s \in Runs, NEW m \in Numbers, NEW op \in Operations, Ends(s, m, op),
         \A n \in Numbers, q \in Runs : q # s \/ n # m => att'[q][n] = att[q][n],
         \A q \in Runs : q # s => run'[q] = run[q],
         RunMoves(s), NEW r \in Runs
  PROVE  Moves(r)
  <1>1. txn[s][m] # NoTxn
    <2>1. op # "none"
      BY DEF Operations
    <2>2. NoTxn.op = "none"
      BY DEF NoTxn
    <2>3. txn[s][m].op = op
      BY DEF Ends
    <2>. QED
      BY <2>1, <2>2, <2>3
  <1>2. txn' = [txn EXCEPT ![s][m] = NoTxn]
    BY DEF Ends
  <1>3. RunMoves(r)
    BY SameRunMoves
  <1>4. ASSUME NEW n \in Numbers PROVE AttemptMoves(r, n) /\ SessionMoves(r, n)
    <2>1. CASE r = s /\ n = m
      BY <1>1, <1>2, <2>1 DEF AttemptMoves, SessionMoves, RacesInv, RacesTypeOK
    <2>2. CASE ~(r = s /\ n = m)
      BY <1>2, <2>2 DEF AttemptMoves, SessionMoves, RacesInv, RacesTypeOK
    <2>. QED
      BY <2>1, <2>2
  <1>. QED
    BY <1>3, <1>4 DEF Moves

LEMMA CommitMoves ==
  ASSUME RacesInv, NEW s \in Runs, NEW m \in Numbers, Commit(s, m), NEW r \in Runs PROVE Moves(r)
  <1>1. {"mark", "renew", "stage", "report", "complete", "fail"} \subseteq Operations
    BY DEF Operations
  <1>2. run \in [Runs -> RunRecord] /\ att \in [Runs -> [Numbers -> AttemptRecord]]
    BY DEF RacesInv, RacesTypeOK, TypeOK
  <1>3. CASE CommitMark(s, m)
    <2>1. RunMoves(s)
      BY <1>2, <1>3, SameRunMoves DEF CommitMark, RunRecord
    <2>. QED
      BY <1>1, <1>2, <1>3, <2>1, OwnMoves DEF CommitMark
  <1>4. CASE CommitRenewal(s, m)
    <2>1. RunMoves(s)
      BY <1>4, SameRunMoves DEF CommitRenewal
    <2>. QED
      BY <1>1, <1>2, <1>4, <2>1, OwnMoves DEF CommitRenewal
  <1>5. CASE CommitStage(s, m)
    <2>1. RunMoves(s)
      BY <1>2, <1>5, SameRunMoves DEF CommitStage, RunRecord
    <2>. QED
      BY <1>1, <1>2, <1>5, <2>1, OwnMoves DEF CommitStage
  <1>6. CASE CommitReport(s, m)
    <2>1. RunMoves(s)
      BY <1>6, SameRunMoves DEF CommitReport
    <2>. QED
      BY <1>1, <1>6, <2>1, OwnMoves DEF CommitReport
  <1>7. CASE CommitCompletion(s, m)
    <2>1. RunMoves(s)
      <3>1. /\ run'[s].count = run[s].count /\ run'[s].active = None
            /\ run'[s].exec = "COMPLETED" => att'[s][m].status = "SUCCEEDED"
        BY <1>2, <1>7 DEF CommitCompletion, RunRecord, AttemptRecord
      <3>. QED
        BY <3>1, RunNumbers DEF RunMoves
    <2>2. \A n \in Numbers, q \in Runs : q # s \/ n # m => att'[q][n] = att[q][n]
      BY <1>2, <1>7 DEF CommitCompletion
    <2>3. \A q \in Runs : q # s => run'[q] = run[q]
      BY <1>2, <1>7 DEF CommitCompletion
    <2>4. Ends(s, m, "complete")
      BY <1>7 DEF CommitCompletion
    <2>. QED
      BY <1>1, <2>1, <2>2, <2>3, <2>4, OwnMoves
  <1>8. CASE CommitFailure(s, m)
    <2>. DEFINE read == [run[s] EXCEPT !.cancel = txn[s][m].cancel]
                retry == txn[s][m].arg = "retryable" /\ m < MaxAttempts
                released == Released(read, retry, Backoff(m))
                rec == [released EXCEPT !.cancel = run[s].cancel]
    <2>1. read \in RunRecord /\ read.count = run[s].count
      <3>1. run[s] \in RunRecord /\ txn[s][m].cancel \in BOOLEAN
        <4>1. txn[s][m] \in Txn
          BY RaceRowFacts
        <4>. QED
          BY <4>1, RaceRowFacts DEF Txn
      <3>. QED
        BY <3>1 DEF RunRecord
    <2>2. retry \in BOOLEAN /\ Backoff(m) \in Int
      BY BackoffType
    <2>3. run' = [run EXCEPT ![s] = rec] /\ att' = [att EXCEPT ![s][m].status = "FAILED"]
          /\ Ends(s, m, "fail")
      BY <1>8 DEF CommitFailure
    <2>. HIDE DEF read, retry
    <2>4. released \in RunRecord /\ released.count = run[s].count /\ released.active = None
          /\ released.exec # "COMPLETED"
      BY <2>1, <2>2, ReleasedKeeps, ReleasedMoves
    <2>. HIDE DEF released
    <2>5. rec.count = run[s].count /\ rec.active = None /\ rec.exec # "COMPLETED"
      BY <2>4 DEF RunRecord
    <2>. HIDE DEF rec
    <2>6. RunMoves(s)
      BY <1>2, <2>3, <2>5, SameRunMoves
    <2>. QED
      BY <1>1, <1>2, <2>3, <2>6, OwnMoves
  <1>. QED
    BY <1>3, <1>4, <1>5, <1>6, <1>7, <1>8 DEF Commit

\* Whatever step is taken.
LEMMA EveryMove == ASSUME RacesInv, [RacesNext]_racesVars, NEW r \in Runs PROVE Moves(r)
  <1>1. CASE RacesTick
    BY <1>1, TickMoves
  <1>2. CASE (Startup \/ ClaimNext) /\ UNCHANGED txn
    BY <1>2, StartupMoves, ClaimMoves
  <1>3. ASSUME NEW s \in Runs, Locked(s), UNCHANGED txn PROVE Moves(r)
    BY <1>3, LockedMoves
  <1>4. ASSUME NEW s \in Runs, NEW m \in Numbers, Commit(s, m) PROVE Moves(r)
    BY <1>4, CommitMoves
  <1>5. ASSUME NEW s \in Runs, NEW m \in Numbers, BeginWrite(s, m) PROVE Moves(r)
    <2>1. ASSUME NEW op, NEW arg, Begin(s, m, op, arg) PROVE Moves(r)
      <3>. DEFINE t == [op |-> op, arg |-> arg,
                        cancel |-> run[s].cancel \/ run[s].exec = "CANCEL_REQUESTED",
                        lease |-> IF op = "renew" THEN LeaseTime ELSE 0]
      <3>1. UNCHANGED vars /\ txn' = [txn EXCEPT ![s][m] = t] /\ ClaimRecord(s, m)
        BY <2>1 DEF Begin
      <3>. HIDE DEF t
      <3>. QED
        BY <3>1, SessionOnlyMoves
    <2>2. CASE att[s][m].status = "CLAIMED" /\ Begin(s, m, "mark", "none")
      BY <2>1, <2>2
    <2>3. CASE \E op \in {"renew", "report"} : Begin(s, m, op, "none")
      BY <2>1, <2>3
    <2>4. CASE ~run[s].cancel /\ \E stage \in Stages : Begin(s, m, "stage", stage)
      BY <2>1, <2>4
    <2>5. CASE \E stage \in FinalStages : Begin(s, m, "complete", stage)
      BY <2>1, <2>5
    <2>6. CASE \E arg \in {"none", "retryable"} : Begin(s, m, "fail", arg)
      BY <2>1, <2>6
    <2>. QED
      BY <1>5, <2>2, <2>3, <2>4, <2>5, <2>6 DEF BeginWrite
  <1>6. ASSUME NEW s \in Runs, NEW m \in Numbers, Rollback(s, m) PROVE Moves(r)
    BY <1>6, SessionOnlyMoves DEF Rollback
  <1>7. CASE UNCHANGED racesVars
    BY <1>7, QuietMoves DEF racesVars, vars
  <1>. QED
    BY <1>1, <1>2, <1>3, <1>4, <1>5, <1>6, <1>7 DEF RacesNext

\* Neither an attempt nor a session is beyond the count of attempts, and an
\* attempt with a verdict has no session left to change it.
AttemptSound(r, n) ==
  /\ att[r][n].status # "NONE" \/ txn[r][n] # NoTxn => n <= run[r].count
  /\ txn[r][n] # NoTxn => att[r][n].status \notin Verdicts

AttemptsInv == CompletionIsBacked /\ \A r \in Runs, n \in Numbers : AttemptSound(r, n)

LEMMA AttemptsStep ==
  ASSUME RacesInv, RacesInv', AttemptsInv, \A r \in Runs : Moves(r)
  PROVE  AttemptsInv'
  <1>1. ASSUME NEW r \in Runs, NEW n \in Numbers PROVE AttemptSound(r, n)'
    <2>1. AttemptSound(r, n) /\ RunMoves(r) /\ AttemptMoves(r, n) /\ SessionMoves(r, n)
      BY DEF AttemptsInv, Moves
    <2>2. run[r].count \in Nat /\ n \in Nat /\ run'[r].count \in Nat
      <3>1. n \in Nat
        BY DEF Numbers
      <3>2. run'[r] \in RunRecord
        BY DEF RacesInv, RacesTypeOK, TypeOK
      <3>. QED
        BY <3>1, <3>2, RunNumbers DEF RunRecord, Numbers
    <2>3. n <= run[r].count => n <= run'[r].count
      BY <2>1, <2>2 DEF RunMoves
    <2>4. att'[r][n].status # "NONE" => n <= run'[r].count
      BY <2>1, <2>3 DEF AttemptSound, AttemptMoves, Live
    <2>5. txn'[r][n] # NoTxn => n <= run'[r].count /\ att'[r][n].status \notin Verdicts
      BY <2>1, <2>3 DEF AttemptSound, AttemptMoves, SessionMoves, Live, Verdicts
    <2>. QED
      BY <2>4, <2>5 DEF AttemptSound
  <1>2. ASSUME NEW r \in Runs, run'[r].exec = "COMPLETED"
        PROVE  \E n \in Numbers : att'[r][n].status = "SUCCEEDED"
    <2>1. CASE run[r].exec = "COMPLETED"
      <3>1. PICK n \in Numbers : att[r][n].status = "SUCCEEDED"
        BY <2>1 DEF AttemptsInv, CompletionIsBacked
      <3>2. AttemptSound(r, n) /\ AttemptMoves(r, n)
        BY DEF AttemptsInv, Moves
      <3>3. txn[r][n] = NoTxn /\ n <= run[r].count
        BY <3>1, <3>2 DEF AttemptSound, Verdicts
      <3>4. ~(n > run[r].count)
        BY <3>3, RunNumbers DEF Numbers
      <3>5. att'[r][n].status = "SUCCEEDED"
        BY <3>1, <3>2, <3>3, <3>4 DEF AttemptMoves, Live
      <3>. QED
        BY <3>5
    <2>2. CASE run[r].exec # "COMPLETED"
      BY <1>2, <2>2 DEF Moves, RunMoves
    <2>. QED
      BY <2>1, <2>2
  <1>. QED
    BY <1>1, <1>2 DEF AttemptsInv, CompletionIsBacked

LEMMA AttemptsInit == RacesInit => AttemptsInv
  BY DEF RacesInit, Init, AttemptsInv, CompletionIsBacked, AttemptSound

\* A completed run has an attempt that succeeded, for any number of runs,
\* processes and late commits.
THEOREM CompletionStaysBacked == RacesSpec => []CompletionIsBacked
  <1>1. RacesInv /\ RacesInv' /\ AttemptsInv /\ [RacesNext]_racesVars => AttemptsInv'
    BY EveryMove, AttemptsStep
  <1>2. AttemptsInv => CompletionIsBacked
    BY DEF AttemptsInv
  <1>. QED
    BY <1>1, <1>2, AttemptsInit, RacesInvariant, PTL DEF RacesSpec

\* A lost claim is never regained, and its worker commits one write at most.
THEOREM LostClaimsStayLost == RacesSpec => LostClaimIsLost
  <1>. DEFINE StaysLost(r, n) ==
         n <= run[r].count /\ run[r].active # n =>
           run'[r].active # n /\ (txn[r][n] = NoTxn => txn'[r][n] = NoTxn)
  <1>1. ASSUME RacesInv, [RacesNext]_racesVars, NEW r \in Runs, NEW n \in Numbers
        PROVE  StaysLost(r, n)
    <2>1. RunMoves(r) /\ SessionMoves(r, n)
      BY <1>1, EveryMove DEF Moves
    <2>2. n \in Nat /\ n # None /\ run[r].count \in Nat
      BY <1>1, RunNumbers DEF Numbers, None
    <2>. QED
      BY <2>1, <2>2 DEF RunMoves, SessionMoves
  <1>2. RacesInv /\ [RacesNext]_racesVars
          => [\A r \in Runs, n \in Numbers : n <= run[r].count /\ run[r].active # n =>
                /\ run'[r].active # n
                /\ txn[r][n] = NoTxn => txn'[r][n] = NoTxn]_racesVars
    BY <1>1
  <1>. QED
    BY <1>2, RacesInvariant, PTL DEF RacesSpec, LostClaimIsLost

---------------------------------------------------------------------------
(* Workers. *)

USE SlotsAssumption, IterationsAssumption, CrashAssumption, WorkerStagesAssumption

\* The types of everything beside the ledger; how many workspaces a run may get
\* is part of the invariant below.
ProcessesTypeOK ==
  /\ slot \in [Slots -> SlotRecord]
  /\ loop \in [Procs -> LoopStates]
  /\ planned \in [Runs -> SUBSET Numbers]
  /\ spaces \in [Runs -> Nat]
  /\ linked \in [Runs -> BOOLEAN]
  /\ crashes \in 0 .. CrashBudget

\* A task presents a claim that was issued to its run.
ClaimIssued(w) ==
  Busy(w) => Run(w) \in Runs /\ Num(w) \in Numbers /\ Num(w) <= run[Run(w)].count

\* No claim is presented by two tasks.
ClaimsDiffer ==
  \A w, u \in Slots :
    Busy(w) /\ Busy(u) /\ Run(w) = Run(u) /\ Num(w) = Num(u) => w = u

\* What a task that still holds its run has done by the time it reaches a
\* point: the report is its own past the synthesis, the stage is final before
\* the attempt is completed, and the workspace it is about to create is the
\* first one of its attempt and of a run that links none.
Reached(w) ==
  Busy(w) /\ Valid(w) =>
    /\ slot[w].pc \in {"verify", "finish", "complete"} => report[Run(w)] = Num(w)
    /\ slot[w].pc = "complete" => run[Run(w)].status \in FinalStages
    /\ slot[w].pc = "workspace" => ~linked[Run(w)]
    /\ slot[w].pc # "link" /\ ~linked[Run(w)] => spaces[Run(w)] < Num(w)

\* What a reader of a run's row may conclude from it, and at most one workspace
\* per attempt.
RowTells(r) ==
  /\ run[r].exec = "COMPLETED" => report[r] = run[r].count
  /\ run[r].status \in FinalStages => report[r] # None
  /\ spaces[r] <= run[r].count

WorkersInv ==
  /\ IInv
  /\ ProcessesTypeOK
  /\ \A w \in Slots : ClaimIssued(w) /\ Reached(w)
  /\ ClaimsDiffer
  /\ \A r \in Runs : RowTells(r)

---------------------------------------------------------------------------
(* What the ledger does to a run behind the back of its worker. *)

\* The steps of the ledger that no task takes.
Background ==
  \/ Tick \/ Startup \/ ClaimNext
  \/ \E r \in Runs : CreateRun(r) \/ QueueRun(r) \/ RequestCancellation(r)

\* Such a step neither completes a run nor gives it a final stage or a report,
\* and gives no claim its lost run back; a run that stays with its claim keeps
\* its stage.
Quiet(r) ==
  /\ report'[r] = report[r]
  /\ run'[r].exec = "COMPLETED" =>
       run[r].exec = "COMPLETED" /\ run'[r].count = run[r].count
  /\ run'[r].status \in FinalStages => run'[r].status = run[r].status
  /\ run'[r].count \in {run[r].count, run[r].count + 1}
  /\ \A n \in Numbers : n <= run[r].count /\ ClaimRecord(r, n)' =>
       ClaimRecord(r, n) /\ run'[r].status = run[r].status

\* A run that is left alone.
LEMMA KeptQuiet ==
  ASSUME IInv, NEW r \in Runs, run'[r] = run[r], att'[r] = att[r], report'[r] = report[r]
  PROVE  Quiet(r)
  BY DEF Quiet, ClaimRecord

\* A run that is taken from a lost attempt.
LEMMA ReleasedQuiet ==
  ASSUME IInv, NEW r \in Runs, NEW retry \in BOOLEAN, NEW delay \in Int,
         run'[r] = Released(run[r], retry, delay), report'[r] = report[r]
  PROVE  Quiet(r)
  <1>1. /\ run'[r].active = None /\ run'[r].count = run[r].count
        /\ run'[r].exec \in {"CANCELLED", "QUEUED", "FAILED"}
        /\ run'[r].status \in {"CANCELLED", "FAILED", run[r].status}
    BY RowFacts DEF Released, RunRecord
  <1>2. None \notin Numbers
    BY CapFacts DEF None, Numbers
  <1>. QED
    BY <1>1, <1>2 DEF Quiet, ClaimRecord, FinalStages

LEMMA RecoveredQuiet ==
  ASSUME IInv, NEW r \in Runs, NEW limit \in Nat, limit <= AttemptCap,
         run'[r] = RecoverExpired(limit)[r], att'[r] = FenceExpired[r],
         report'[r] = report[r]
  PROVE  Quiet(r)
  <1>1. CASE RecoverExpired(limit)[r] = run[r] /\ FenceExpired[r] = att[r]
    BY <1>1, KeptQuiet
  <1>2. CASE \E retry \in BOOLEAN : RecoverExpired(limit)[r] = Released(run[r], retry, 0)
    BY <1>2, ReleasedQuiet
  <1>. QED
    BY <1>1, <1>2, RecoveredChange

\* A new attempt is numbered after every claim that was issued.
LEMMA GrantedQuiet ==
  ASSUME IInv, NEW r \in Runs, NEW limit \in Nat, limit <= AttemptCap,
         run'[r] = Granted(RecoverExpired(limit)[r]), report'[r] = report[r]
  PROVE  Quiet(r)
  <1>. DEFINE rec == RecoverExpired(limit)[r]
  <1>1. rec \in RunRecord /\ rec.count = run[r].count
    BY RecoveredRow DEF IInv
  <1>2. rec.status \in {"CANCELLED", "FAILED", run[r].status}
    <2>1. CASE rec = run[r]
      BY <2>1
    <2>2. ASSUME NEW retry \in BOOLEAN, rec = Released(run[r], retry, 0)
          PROVE  rec.status \in {"CANCELLED", "FAILED", run[r].status}
      BY <2>2, RowFacts DEF Released, RunRecord
    <2>. QED
      BY <2>1, <2>2, RecoveredChange
  <1>. HIDE DEF rec
  <1>3. /\ run'[r].active = run[r].count + 1 /\ run'[r].count = run[r].count + 1
        /\ run'[r].exec = "CLAIMED" /\ run'[r].status = rec.status
    BY <1>1 DEF Granted, RunRecord, rec
  <1>4. run[r].count \in Nat
    BY RowFacts, CapFacts DEF RunRecord, Numbers
  <1>5. \A n \in Numbers : n <= run[r].count => ~ClaimRecord(r, n)'
    BY <1>3, <1>4 DEF ClaimRecord, Numbers
  <1>. QED
    BY <1>2, <1>3, <1>5 DEF Quiet, FinalStages

LEMMA ClaimNextQuiet == ASSUME IInv, ClaimNext, NEW r \in Runs PROVE Quiet(r)
  <1>1. MaxAttempts \in Nat /\ MaxAttempts <= AttemptCap
    BY CapFacts
  <1>2. CASE /\ run' = RecoverExpired(MaxAttempts) /\ att' = FenceExpired
             /\ UNCHANGED report
    BY <1>1, <1>2, RecoveredQuiet
  <1>3. ASSUME NEW s \in Runs, Grant(s, RecoverExpired(MaxAttempts)) PROVE Quiet(r)
    <2>1. /\ DOMAIN RecoverExpired(MaxAttempts) = Runs /\ DOMAIN FenceExpired = Runs
          /\ report' = report
      BY <1>3 DEF RecoverExpired, FenceExpired, Grant
    <2>2. CASE r = s
      <3>1. run'[r] = Granted(RecoverExpired(MaxAttempts)[r])
        BY <1>3, <2>1, <2>2 DEF Grant
      <3>. QED
        BY <1>1, <2>1, <3>1, GrantedQuiet
    <2>3. CASE r # s
      <3>1. run'[r] = RecoverExpired(MaxAttempts)[r] /\ att'[r] = FenceExpired[r]
        BY <1>3, <2>1, <2>3 DEF Grant
      <3>. QED
        BY <1>1, <2>1, <3>1, RecoveredQuiet
    <2>. QED
      BY <2>2, <2>3
  <1>. QED
    BY <1>2, <1>3 DEF ClaimNext

LEMMA StartupQuiet == ASSUME IInv, Startup, NEW r \in Runs PROVE Quiet(r)
  <1>1. report'[r] = report[r] /\ att'[r] = FenceExpired[r]
    BY DEF Startup
  <1>. DEFINE retry == run[r].count < StartupLimit
  <1>2. retry \in BOOLEAN /\ 0 \in Int
    OBVIOUS
  <1>3. \/ run'[r] = run[r]
        \/ run'[r] = Released(run[r], retry, 0)
        \/ run[r].exec = "IDLE" /\ run'[r] = [run[r] EXCEPT !.status = "INTERRUPTED"]
    <2>1. run'[r] = IF \E n \in Numbers : Expired(r, n)
                      THEN IF run[r].exec \in Terminal
                             THEN run[r]
                             ELSE Released(run[r], retry, 0)
                      ELSE IF run[r].exec = "IDLE" /\ run[r].status = "CREATED"
                             THEN [run[r] EXCEPT !.status = "INTERRUPTED"]
                             ELSE run[r]
      BY DEF Startup
    <2>. HIDE DEF retry
    <2>. QED
      BY <2>1
  <1>. HIDE DEF retry
  <1>4. CASE run'[r] = Released(run[r], retry, 0)
    BY <1>1, <1>2, <1>4, ReleasedQuiet
  <1>5. CASE run'[r] = run[r]
    <2>1. \A n \in Numbers : FenceExpired[r][n].lease = att[r][n].lease
            /\ (FenceExpired[r][n].status \in Live => FenceExpired[r][n] = att[r][n])
      BY FenceFacts DEF IInv, Live
    <2>. QED
      BY <1>1, <1>5, <2>1 DEF Quiet, ClaimRecord
  <1>6. CASE run[r].exec = "IDLE" /\ run'[r] = [run[r] EXCEPT !.status = "INTERRUPTED"]
    BY <1>1, <1>6, RowFacts DEF Quiet, ClaimRecord, RunRecord, Held, FinalStages
  <1>. QED
    BY <1>3, <1>4, <1>5, <1>6

LEMMA TickQuiet == ASSUME IInv, Tick, NEW r \in Runs PROVE Quiet(r)
  <1>1. run'[r] = [run[r] EXCEPT !.wait = Elapse(@)] /\ report'[r] = report[r]
    BY DEF Tick
  <1>2. /\ run'[r].active = run[r].active /\ run'[r].count = run[r].count
        /\ run'[r].exec = run[r].exec /\ run'[r].status = run[r].status
    BY <1>1, RowFacts DEF RunRecord
  <1>3. \A n \in Numbers : att[r][n] \in AttemptRecord
    BY RowFacts DEF Row
  <1>4. \A n \in Numbers : att'[r][n] = [att[r][n] EXCEPT !.lease = Elapse(@)]
    BY DEF Tick
  <1>5. \A n \in Numbers : att'[r][n].status = att[r][n].status
                           /\ (att'[r][n].lease > 0 => att[r][n].lease > 0)
    <2>1. \A n \in Numbers : att'[r][n].status = att[r][n].status
                             /\ att'[r][n].lease = Elapse(att[r][n].lease)
      BY <1>3, <1>4 DEF AttemptRecord
    <2>2. \A n \in Numbers : att[r][n].lease \in Nat
      BY <1>3 DEF AttemptRecord
    <2>3. \A t \in Nat : Elapse(t) > 0 => t > 0
      BY DEF Elapse
    <2>. QED
      BY <2>1, <2>2, <2>3
  <1>. QED
    BY <1>1, <1>2, <1>5 DEF Quiet, ClaimRecord

LEMMA ApiQuiet ==
  ASSUME IInv, NEW s \in Runs, CreateRun(s) \/ QueueRun(s) \/ RequestCancellation(s),
         NEW r \in Runs
  PROVE  Quiet(r)
  <1>1. att' = att /\ report' = report
    BY DEF CreateRun, QueueRun, RequestCancellation
  <1>2. CASE r # s
    <2>1. run'[r] = run[r]
      BY <1>2 DEF CreateRun, QueueRun, RequestCancellation, IInv, TypeOK
    <2>. QED
      BY <1>1, <2>1, KeptQuiet
  <1>3. CASE r = s /\ CreateRun(r)
    <2>1. run'[r] = [run[r] EXCEPT !.exec = "IDLE"]
      BY <1>3 DEF CreateRun, IInv, TypeOK
    <2>. QED
      BY <1>1, <2>1, RowFacts DEF Quiet, ClaimRecord, RunRecord, Held
  <1>4. CASE r = s /\ QueueRun(r)
    <2>1. run'[r].exec = "QUEUED" /\ run'[r].count = run[r].count
      BY <1>4, ApiEffect DEF Same
    <2>2. run'[r].status = run[r].status
      <3>1. run \in [Runs -> RunRecord]
        BY DEF IInv, TypeOK
      <3>2. run'[r] = [run[r] EXCEPT !.exec = "QUEUED", !.wait = 0]
        BY <1>4, <3>1 DEF QueueRun, RunRecord
      <3>. QED
        BY <3>2, RowFacts DEF RunRecord
    <2>. QED
      BY <1>1, <2>1, <2>2 DEF Quiet, ClaimRecord, Held
  <1>5. CASE r = s /\ RequestCancellation(r)
    <2>1. run'[r] = IF run[r].active = None \/ run[r].exec = "QUEUED"
            THEN [run[r] EXCEPT !.cancel = TRUE, !.exec = "CANCELLED", !.status = "CANCELLED"]
            ELSE [run[r] EXCEPT !.cancel = TRUE, !.exec = "CANCEL_REQUESTED"]
      BY <1>5 DEF RequestCancellation, IInv, TypeOK
    <2>2. run[r].exec \in {"IDLE", "QUEUED"} \cup Held
      BY <1>5, RowFacts DEF RequestCancellation, RunRecord, ExecutionStates
    <2>3. CASE run[r].active = None \/ run[r].exec = "QUEUED"
      BY <1>1, <2>1, <2>3, RowFacts DEF Quiet, ClaimRecord, RunRecord, Held, FinalStages
    <2>4. CASE ~(run[r].active = None \/ run[r].exec = "QUEUED")
      <3>1. run[r].exec \in Held
        BY <2>2, <2>4, RowFacts DEF RowInv, Ownership
      <3>2. /\ run'[r].active = run[r].active /\ run'[r].count = run[r].count
            /\ run'[r].exec = "CANCEL_REQUESTED" /\ run'[r].status = run[r].status
        BY <2>1, <2>4, RowFacts DEF RunRecord
      <3>. QED
        BY <1>1, <3>1, <3>2 DEF Quiet, ClaimRecord
    <2>. QED
      BY <2>3, <2>4
  <1>. QED
    BY <1>2, <1>3, <1>4, <1>5

LEMMA BackgroundQuiet == ASSUME IInv, Background, NEW r \in Runs PROVE Quiet(r)
  BY TickQuiet, StartupQuiet, ClaimNextQuiet, ApiQuiet DEF Background

\* Background steps are steps of the ledger.
LEMMA BackgroundIsLedger == Background => Next
  BY DEF Background, Next, RunStep

---------------------------------------------------------------------------
(* Steps that leave every task where it is or remove it. *)

\* A task that is left where it is keeps its claim and what it has reached.
LEMMA KeptTask ==
  ASSUME WorkersInv, IInv', \A r \in Runs : Quiet(r), UNCHANGED outputs,
         NEW w \in Slots, slot'[w] = slot[w]
  PROVE  ClaimIssued(w)' /\ Reached(w)'
  <1>. SUFFICES ASSUME Busy(w) PROVE ClaimIssued(w)' /\ Reached(w)'
    BY DEF ClaimIssued, Reached, Busy
  <1>1. PICK r \in Runs, n \in Numbers : r = Run(w) /\ n = Num(w) /\ n <= run[r].count
    BY DEF WorkersInv, ClaimIssued
  <1>2. Run(w)' = r /\ Num(w)' = n /\ (Busy(w)' <=> Busy(w))
    BY <1>1 DEF Run, Num, Busy
  <1>3. (Valid(w)' <=> ClaimRecord(r, n)') /\ (Valid(w) <=> ClaimRecord(r, n))
    BY <1>1, <1>2 DEF Valid, ClaimRecord
  <1>4. run[r].count \in Nat
    BY <1>1, RowFacts, CapFacts DEF WorkersInv, RunRecord, Numbers
  <1>5. n <= run'[r].count
    BY <1>1, <1>4 DEF Quiet, Numbers
  <1>6. ClaimIssued(w)'
    BY <1>1, <1>2, <1>5 DEF ClaimIssued
  <1>7. ASSUME Valid(w)'
        PROVE  Valid(w) /\ run'[r].status = run[r].status /\ report'[r] = report[r]
    BY <1>1, <1>3, <1>7 DEF Quiet
  <1>8. linked' = linked /\ spaces' = spaces
    BY DEF outputs
  <1>9. Reached(w)'
    <2>. SUFFICES ASSUME Valid(w)'
                  PROVE  /\ slot[w].pc \in {"verify", "finish", "complete"} => report'[r] = n
                         /\ slot[w].pc = "complete" => run'[r].status \in FinalStages
                         /\ slot[w].pc = "workspace" => ~linked'[r]
                         /\ slot[w].pc # "link" /\ ~linked'[r] => spaces'[r] < n
      BY <1>2 DEF Reached
    <2>1. Reached(w)
      BY DEF WorkersInv
    <2>. QED
      BY <1>1, <1>7, <1>8, <2>1 DEF Reached
  <1>. QED
    BY <1>6, <1>9

\* What a row tells survives every step no task takes.
LEMMA QuietRow ==
  ASSUME WorkersInv, NEW r \in Runs, Quiet(r), UNCHANGED outputs
  PROVE  RowTells(r)'
  <1>1. run[r].count \in Nat /\ spaces[r] \in Nat
    BY RowFacts, CapFacts DEF WorkersInv, ProcessesTypeOK, RunRecord, Numbers
  <1>2. RowTells(r) /\ spaces' = spaces
    BY DEF WorkersInv, outputs
  <1>. QED
    BY <1>1, <1>2 DEF RowTells, Quiet

LEMMA QuietStep ==
  ASSUME WorkersInv, IInv', \A r \in Runs : Quiet(r), UNCHANGED outputs,
         slot' \in [Slots -> SlotRecord],
         \A w \in Slots : slot'[w] = slot[w] \/ slot'[w].pc \in Resting,
         loop' \in [Procs -> LoopStates], crashes' \in 0 .. CrashBudget
  PROVE  WorkersInv'
  <1>1. ProcessesTypeOK'
    BY DEF WorkersInv, ProcessesTypeOK, outputs
  <1>2. ASSUME NEW w \in Slots PROVE ClaimIssued(w)' /\ Reached(w)'
    <2>1. CASE slot'[w] = slot[w]
      BY <2>1, KeptTask
    <2>2. CASE slot'[w].pc \in Resting
      BY <2>2 DEF ClaimIssued, Reached, Busy
    <2>. QED
      BY <2>1, <2>2
  <1>3. ClaimsDiffer'
    BY DEF WorkersInv, ClaimsDiffer, Busy, Run, Num
  <1>4. \A r \in Runs : RowTells(r)'
    BY QuietRow
  <1>. QED
    BY <1>1, <1>2, <1>3, <1>4 DEF WorkersInv

\* A poll that claims starts a task of its own: its claim is newer than any.
LEMMA GrantedTask ==
  ASSUME WorkersInv, IInv', ClaimNext, UNCHANGED <<outputs, loop, crashes>>,
         NEW r \in Runs, NEW w \in Slots, ~Busy(w), run'[r].count > run[r].count,
         slot' = [slot EXCEPT ![w] = [pc |-> "owner", run |-> r,
                                      num |-> run'[r].count, iter |-> 0]]
  PROVE  WorkersInv'
  <1>. DEFINE k == run'[r].count
              x == [pc |-> "owner", run |-> r, num |-> k, iter |-> 0]
  <1>1. \A s \in Runs : Quiet(s)
    BY ClaimNextQuiet DEF WorkersInv
  <1>2. /\ run[r].count \in Nat /\ spaces[r] \in Nat /\ spaces[r] <= run[r].count
        /\ linked' = linked /\ spaces' = spaces
    BY RowFacts, CapFacts DEF WorkersInv, ProcessesTypeOK, RunRecord, Numbers, RowTells, outputs
  <1>3. k = run[r].count + 1
    BY <1>1, <1>2 DEF Quiet
  <1>4. k \in Numbers
    <2>1. k \in {0} \cup Numbers
      BY DEF IInv, TypeOK, RunRecord, None
    <2>. QED
      BY <1>2, <1>3, <2>1
  <1>5. x \in SlotRecord
    BY <1>4, IterationsAssumption DEF SlotRecord, Points
  <1>6. slot \in [Slots -> SlotRecord] /\ slot' = [slot EXCEPT ![w] = x]
    BY DEF WorkersInv, ProcessesTypeOK
  <1>7. slot'[w] = x /\ \A u \in Slots \ {w} : slot'[u] = slot[u]
    BY <1>6
  <1>8. x.pc = "owner" /\ x.run = r /\ x.num = k
    OBVIOUS
  <1>. HIDE DEF x, k
  <1>9. ProcessesTypeOK'
    BY <1>5, <1>6 DEF WorkersInv, ProcessesTypeOK, outputs
  <1>10. ASSUME NEW u \in Slots PROVE ClaimIssued(u)' /\ Reached(u)'
    <2>1. CASE u # w
      BY <1>1, <1>7, <2>1, KeptTask
    <2>2. CASE u = w
      <3>1. Run(w)' = r /\ Num(w)' = k /\ slot'[w].pc = "owner"
        BY <1>7, <1>8 DEF Run, Num
      <3>2. k <= run'[r].count
        BY <1>2, <1>3 DEF k
      <3>3. spaces'[r] < k
        BY <1>2, <1>3
      <3>. QED
        BY <1>4, <2>2, <3>1, <3>2, <3>3 DEF ClaimIssued, Reached
    <2>. QED
      BY <2>1, <2>2
  <1>11. ASSUME NEW u \in Slots \ {w}, Busy(u), Run(u) = r PROVE Num(u) # k
    <2>1. Num(u) <= run[r].count /\ Num(u) \in Numbers
      BY <1>11 DEF WorkersInv, ClaimIssued
    <2>. QED
      BY <1>2, <1>3, <2>1 DEF Numbers
  <1>12. ClaimsDiffer'
    <2>. SUFFICES ASSUME NEW u \in Slots, NEW v \in Slots, Busy(u)', Busy(v)',
                         Run(u)' = Run(v)', Num(u)' = Num(v)'
                  PROVE  u = v
      BY DEF ClaimsDiffer
    <2>1. CASE u = w \/ v = w
      BY <1>7, <1>8, <1>11, <2>1 DEF Busy, Run, Num
    <2>2. CASE u # w /\ v # w
      BY <1>7, <2>2 DEF WorkersInv, ClaimsDiffer, Busy, Run, Num
    <2>. QED
      BY <2>1, <2>2
  <1>13. \A s \in Runs : RowTells(s)'
    BY <1>1, QuietRow
  <1>. QED
    BY <1>9, <1>10, <1>12, <1>13 DEF WorkersInv
---------------------------------------------------------------------------
(* Steps of one task. *)

\* The claim a task presents, and that it was issued to it.
LEMMA TaskFacts ==
  ASSUME WorkersInv, NEW w \in Slots, Busy(w)
  PROVE  /\ Run(w) \in Runs /\ Num(w) \in Numbers /\ Num(w) <= run[Run(w)].count
         /\ slot[w] \in SlotRecord /\ slot[w].pc \in Points
         /\ slot[w].run = Run(w) /\ slot[w].num = Num(w)
         /\ Reached(w) /\ RowTells(Run(w))
  BY DEF WorkersInv, ProcessesTypeOK, ClaimIssued, Busy, SlotRecord, Run, Num

\* A write of a claim concerns its own run only, and leaves it with the claim
\* or with nobody.
LEMMA ClaimStepFrame ==
  ASSUME IInv, NEW r \in Runs, NEW n \in Numbers, ClaimStep(r, n)
  PROVE  /\ \A s \in Runs \ {r} :
              run'[s] = run[s] /\ att'[s] = att[s] /\ report'[s] = report[s]
         /\ ClaimRecord(r, n) /\ run[r].active = n /\ run[r].count = n
         /\ run'[r].active \in {n, None} /\ run'[r].count = n
  <1>1. ClaimRecord(r, n)
    BY DEF ClaimStep, MarkRunning, RenewLease, WriteStage, SaveReport, CompleteExecution,
       FailExecution
  <1>2. run[r].active = n /\ run[r].count = n
    BY <1>1, FenceHolds
  <1>3. \A s \in Runs \ {r} :
          run'[s] = run[s] /\ att'[s] = att[s] /\ report'[s] = report[s]
    BY DEF ClaimStep, MarkRunning, RenewLease, WriteStage, SaveReport, CompleteExecution,
       FailExecution, IInv, TypeOK
  <1>4. run \in [Runs -> RunRecord] /\ run[r] \in RunRecord
    BY DEF IInv, TypeOK
  <1>5. run'[r].active \in {n, None} /\ run'[r].count = n
    <2>1. CASE MarkRunning(r, n)
      BY <1>2, <2>1, ClaimEffect DEF Same
    <2>2. CASE RenewLease(r, n)
      BY <1>2, <2>2 DEF RenewLease
    <2>3. ASSUME NEW s \in Stages, WriteStage(r, n, s)
          PROVE  run'[r].active \in {n, None} /\ run'[r].count = n
      <3>1. run'[r] = [run[r] EXCEPT !.status = s]
        BY <1>4, <2>3 DEF WriteStage
      <3>. QED
        BY <1>2, <1>4, <3>1 DEF RunRecord
    <2>4. CASE SaveReport(r, n)
      BY <1>2, <2>4, ClaimEffect
    <2>5. ASSUME NEW s \in FinalStages, CompleteExecution(r, n, s)
          PROVE  run'[r].active \in {n, None} /\ run'[r].count = n
      <3>1. run'[r].active = None
        <4>1. CASE run[r].cancel \/ run[r].exec = "CANCEL_REQUESTED"
          <5>1. run'[r] = [run[r] EXCEPT !.exec = "CANCELLED", !.status = "CANCELLED",
                                         !.active = None]
            BY <1>4, <2>5, <4>1 DEF CompleteExecution
          <5>. QED
            BY <1>4, <5>1 DEF RunRecord
        <4>2. CASE ~(run[r].cancel \/ run[r].exec = "CANCEL_REQUESTED")
          <5>1. run'[r] = [run[r] EXCEPT !.exec = "COMPLETED", !.status = s, !.active = None]
            BY <1>4, <2>5, <4>2 DEF CompleteExecution
          <5>. QED
            BY <1>4, <5>1 DEF RunRecord
        <4>. QED
          BY <4>1, <4>2
      <3>. QED
        BY <1>2, <2>5, <3>1, ClaimEffect
    <2>6. ASSUME NEW retryable \in BOOLEAN, FailExecution(r, n, retryable)
          PROVE  run'[r].active \in {n, None} /\ run'[r].count = n
      <3>1. PICK retry \in BOOLEAN : run'[r] = Released(run[r], retry, Backoff(n))
        BY <2>6, ClaimEffect
      <3>. QED
        BY <1>2, <1>4, <3>1 DEF Released, RunRecord
    <2>. QED
      BY <2>1, <2>2, <2>3, <2>4, <2>5, <2>6 DEF ClaimStep
  <1>. QED
    BY <1>1, <1>2, <1>3, <1>5

\* Whatever one task does, the other tasks keep their claims and what they have
\* reached: it writes under its own claim, which they do not hold.
LEMMA OtherTask ==
  ASSUME WorkersInv, IInv', NEW w \in Slots, Busy(w),
         UNCHANGED vars \/ ClaimStep(Run(w), Num(w)),
         \A s \in Runs \ {Run(w)} : spaces'[s] = spaces[s] /\ linked'[s] = linked[s],
         Valid(w) \/ UNCHANGED outputs,
         NEW u \in Slots \ {w}, slot'[u] = slot[u]
  PROVE  ClaimIssued(u)' /\ Reached(u)'
  <1>. SUFFICES ASSUME Busy(u) PROVE ClaimIssued(u)' /\ Reached(u)'
    BY DEF ClaimIssued, Reached, Busy
  <1>1. PICK r \in Runs, n \in Numbers : r = Run(w) /\ n = Num(w)
    BY TaskFacts
  <1>2. PICK s \in Runs, m \in Numbers : s = Run(u) /\ m = Num(u) /\ m <= run[s].count
    BY TaskFacts
  <1>3. Run(u)' = s /\ Num(u)' = m /\ (Busy(u)' <=> Busy(u))
    BY <1>2 DEF Run, Num, Busy
  <1>4. (Valid(u)' <=> ClaimRecord(s, m)') /\ (Valid(u) <=> ClaimRecord(s, m))
        /\ (Valid(w) <=> ClaimRecord(r, n))
    BY <1>1, <1>2, <1>3 DEF Valid, ClaimRecord
  <1>5. UNCHANGED vars \/ ClaimStep(r, n)
    BY <1>1
  <1>6. s # r \/ m # n
    BY <1>1, <1>2 DEF WorkersInv, ClaimsDiffer
  <1>7. run'[s].count = run[s].count
    BY <1>5, ClaimStepFrame DEF vars, WorkersInv
  <1>8. ClaimIssued(u)'
    BY <1>2, <1>3, <1>7 DEF ClaimIssued
  <1>9. Reached(u)'
    <2>. SUFFICES ASSUME ClaimRecord(s, m)' PROVE Reached(u)'
      BY <1>4 DEF Reached
    <2>1. m # None
      BY CapFacts DEF None, Numbers
    <2>2. CASE s # r
      <3>1. run'[s] = run[s] /\ att'[s] = att[s] /\ report'[s] = report[s]
        BY <1>5, <2>2, ClaimStepFrame DEF vars, WorkersInv
      <3>2. ClaimRecord(s, m)
        BY <3>1 DEF ClaimRecord
      <3>3. spaces'[s] = spaces[s] /\ linked'[s] = linked[s]
        BY <1>1, <2>2
      <3>4. Reached(u)
        BY TaskFacts
      <3>. QED
        BY <1>2, <1>3, <1>4, <3>1, <3>2, <3>3, <3>4 DEF Reached
    <2>3. CASE s = r
      <3>1. m # n
        BY <1>6, <2>3
      <3>2. ~ClaimStep(r, n)
        BY <2>1, <2>3, <3>1, ClaimStepFrame DEF WorkersInv, ClaimRecord
      <3>3. UNCHANGED vars
        BY <1>5, <3>2
      <3>4. ClaimRecord(s, m)
        BY <3>3 DEF vars, ClaimRecord
      <3>5. ~ClaimRecord(r, n)
        BY <2>3, <3>1, <3>4 DEF ClaimRecord
      <3>6. UNCHANGED outputs
        BY <1>4, <3>5
      <3>7. Reached(u)
        BY TaskFacts
      <3>. QED
        BY <1>2, <1>3, <1>4, <3>3, <3>4, <3>6, <3>7 DEF Reached, vars, outputs
    <2>. QED
      BY <2>2, <2>3
  <1>. QED
    BY <1>8, <1>9

\* One task moves: what is left to show concerns the task and its run.
LEMMA TaskMove ==
  ASSUME WorkersInv, NEW w \in Slots, Busy(w),
         NEW r \in Runs, NEW n \in Numbers, r = Run(w), n = Num(w),
         UNCHANGED vars \/ ClaimStep(r, n),
         NEW x \in SlotRecord, x.pc \in Resting \/ (x.run = r /\ x.num = n),
         slot' = [slot EXCEPT ![w] = x], UNCHANGED <<loop, crashes>>,
         planned' \in [Runs -> SUBSET Numbers],
         spaces' \in [Runs -> Nat], linked' \in [Runs -> BOOLEAN],
         \A s \in Runs \ {r} : spaces'[s] = spaces[s] /\ linked'[s] = linked[s],
         Valid(w) \/ UNCHANGED outputs,
         Reached(w)', RowTells(r)'
  PROVE  WorkersInv'
  <1>1. [Next]_vars
    BY DEF Next, RunStep
  <1>2. IInv'
    BY <1>1, NextIInv DEF WorkersInv
  <1>3. slot'[w] = x /\ \A u \in Slots \ {w} : slot'[u] = slot[u]
    BY DEF WorkersInv, ProcessesTypeOK
  <1>4. ProcessesTypeOK'
    BY DEF WorkersInv, ProcessesTypeOK
  <1>5. ASSUME NEW u \in Slots PROVE ClaimIssued(u)' /\ Reached(u)'
    <2>1. CASE u # w
      BY <1>2, <1>3, <2>1, OtherTask
    <2>2. CASE u = w
      <3>1. run'[r].count = run[r].count
        BY ClaimStepFrame DEF vars, WorkersInv
      <3>2. n <= run[r].count
        BY TaskFacts
      <3>. QED
        BY <1>3, <2>2, <3>1, <3>2 DEF ClaimIssued, Busy, Run, Num
    <2>. QED
      BY <2>1, <2>2
  <1>6. ClaimsDiffer'
    <2>1. \A u \in Slots : Busy(u)' => Busy(u) /\ Run(u)' = Run(u) /\ Num(u)' = Num(u)
      BY <1>3 DEF Busy, Run, Num
    <2>. QED
      BY <2>1 DEF WorkersInv, ClaimsDiffer
  <1>7. ASSUME NEW s \in Runs PROVE RowTells(s)'
    <2>1. CASE s # r
      <3>1. run'[s] = run[s] /\ report'[s] = report[s]
        BY <2>1, ClaimStepFrame DEF vars, WorkersInv
      <3>. QED
        BY <2>1, <3>1 DEF WorkersInv, RowTells
    <2>. QED
      BY <2>1
  <1>. QED
    BY <1>2, <1>4, <1>5, <1>6, <1>7 DEF WorkersInv

\* A task that ends.
LEMMA TaskLeaves ==
  ASSUME WorkersInv, NEW w \in Slots, Busy(w),
         NEW r \in Runs, NEW n \in Numbers, r = Run(w), n = Num(w),
         UNCHANGED vars \/ ClaimStep(r, n), Leave(w),
         UNCHANGED <<outputs, loop, crashes>>, RowTells(r)'
  PROVE  WorkersInv'
  <1>. DEFINE x == Idle("done")
  <1>1. x \in SlotRecord /\ x.pc \in Resting
    BY IterationsAssumption DEF Idle, SlotRecord, Resting
  <1>2. slot' = [slot EXCEPT ![w] = x]
    BY DEF Leave
  <1>3. planned' = planned /\ spaces' = spaces /\ linked' = linked
    BY DEF outputs
  <1>. HIDE DEF x
  <1>4. Reached(w)'
    BY <1>1, <1>2 DEF Reached, Busy, WorkersInv, ProcessesTypeOK
  <1>. QED
    BY <1>1, <1>2, <1>3, <1>4, TaskMove DEF WorkersInv, ProcessesTypeOK

\* A row that is kept tells what it told.
LEMMA SameRowTells ==
  ASSUME WorkersInv, NEW r \in Runs, UNCHANGED <<vars, outputs>> PROVE RowTells(r)'
  BY DEF WorkersInv, RowTells, vars, outputs

\* A failed attempt leaves nothing that looks final behind.
LEMMA FailedRowTells ==
  ASSUME WorkersInv, NEW r \in Runs, NEW n \in Numbers, NEW retryable \in BOOLEAN,
         FailExecution(r, n, retryable), UNCHANGED outputs
  PROVE  RowTells(r)'
  <1>1. PICK retry \in BOOLEAN :
          run'[r] = Released(run[r], retry, Backoff(n)) /\ report'[r] = report[r]
    BY ClaimEffect DEF WorkersInv
  <1>2. /\ run'[r].count = run[r].count
        /\ run'[r].exec \in {"CANCELLED", "QUEUED", "FAILED"}
        /\ run'[r].status \in {"CANCELLED", "FAILED", run[r].status}
    BY <1>1, RowFacts DEF Released, RunRecord, WorkersInv
  <1>3. spaces' = spaces /\ RowTells(r)
    BY DEF outputs, WorkersInv
  <1>. QED
    BY <1>1, <1>2, <1>3 DEF RowTells, FinalStages

\* The exceptions of execute.
LEMMA RaiseStep ==
  ASSUME WorkersInv, NEW w \in Slots, Busy(w), NEW retryable \in BOOLEAN,
         Raise(w, retryable), UNCHANGED <<loop, crashes>>
  PROVE  WorkersInv'
  <1>1. PICK r \in Runs, n \in Numbers : r = Run(w) /\ n = Num(w)
    BY TaskFacts
  <1>2. FailExecution(r, n, retryable) \/ UNCHANGED vars
    BY <1>1 DEF Raise
  <1>3. UNCHANGED vars \/ ClaimStep(r, n)
    BY <1>2 DEF ClaimStep
  <1>4. Leave(w) /\ UNCHANGED outputs
    BY DEF Raise
  <1>5. RowTells(r)'
    BY <1>2, <1>4, SameRowTells, FailedRowTells
  <1>. QED
    BY <1>1, <1>3, <1>4, <1>5, TaskLeaves

\* A cancellation that is noticed ends the attempt, never as a success.
LEMMA StopCancelledStep ==
  ASSUME WorkersInv, NEW w \in Slots, Busy(w), StopCancelled(w), UNCHANGED <<loop, crashes>>
  PROVE  WorkersInv'
  <1>1. PICK r \in Runs, n \in Numbers : r = Run(w) /\ n = Num(w)
    BY TaskFacts
  <1>2. \/ UNCHANGED vars
        \/ run[r].cancel /\ CompleteExecution(r, n, "COMPLETED")
    BY <1>1 DEF StopCancelled, Cancelled
  <1>3. UNCHANGED vars \/ ClaimStep(r, n)
    BY <1>2 DEF ClaimStep, FinalStages
  <1>4. Leave(w) /\ UNCHANGED outputs
    BY DEF StopCancelled
  <1>5. ASSUME run[r].cancel, CompleteExecution(r, n, "COMPLETED") PROVE RowTells(r)'
    <2>1. run'[r] = [run[r] EXCEPT !.exec = "CANCELLED", !.status = "CANCELLED", !.active = None]
          /\ report' = report
      BY <1>5 DEF CompleteExecution, WorkersInv, IInv, TypeOK
    <2>2. /\ run'[r].exec = "CANCELLED" /\ run'[r].status = "CANCELLED"
          /\ run'[r].count = run[r].count
      BY <2>1, RowFacts DEF RunRecord, WorkersInv
    <2>. QED
      BY <1>4, <2>2 DEF RowTells, FinalStages, WorkersInv, outputs
  <1>6. RowTells(r)'
    BY <1>2, <1>4, <1>5, SameRowTells
  <1>. QED
    BY <1>1, <1>3, <1>4, <1>6, TaskLeaves

\* A task that goes on without writing anything, to a point before the
\* synthesis.
LEMMA WalkStep ==
  ASSUME WorkersInv, NEW w \in Slots, Busy(w), slot[w].pc # "link",
         NEW x \in SlotRecord, x.run = Run(w), x.num = Num(w),
         slot' = [slot EXCEPT ![w] = x], UNCHANGED <<vars, outputs, loop, crashes>>,
         x.pc \notin {"verify", "finish", "complete", "link"},
         x.pc = "workspace" => ~linked[Run(w)]
  PROVE  WorkersInv'
  <1>1. PICK r \in Runs, n \in Numbers : r = Run(w) /\ n = Num(w)
    BY TaskFacts
  <1>2. slot'[w] = x
    BY DEF WorkersInv, ProcessesTypeOK
  <1>3. Run(w)' = r /\ Num(w)' = n
    BY <1>1, <1>2 DEF Run, Num
  <1>4. Valid(w)' <=> Valid(w)
    BY <1>1, <1>3 DEF Valid, ClaimRecord, vars
  <1>5. linked' = linked /\ spaces' = spaces /\ planned' = planned
    BY DEF outputs
  <1>6. Reached(w)'
    BY <1>1, <1>2, <1>3, <1>4, <1>5, TaskFacts DEF Reached
  <1>. QED
    BY <1>1, <1>5, <1>6, TaskMove, SameRowTells DEF WorkersInv, ProcessesTypeOK

\* A stage that is written: it may look final only over the attempt's report.
LEMMA StatusStep ==
  ASSUME WorkersInv, NEW w \in Slots, Busy(w), slot[w].pc # "link",
         NEW s \in StageNames \cup FinalStages, NEW next \in Points, Status(w, s, next),
         UNCHANGED <<loop, crashes>>, next \notin {"workspace", "link"},
         next \in {"verify", "finish", "complete"} \/ s \in FinalStages =>
           slot[w].pc \in {"verify", "finish", "complete"},
         next = "complete" => s \in FinalStages
  PROVE  WorkersInv'
  <1>1. PICK r \in Runs, n \in Numbers : r = Run(w) /\ n = Num(w)
    BY TaskFacts
  <1>2. CASE Raise(w, FALSE)
    BY <1>2, RaiseStep
  <1>3. CASE WriteStage(Run(w), Num(w), s) /\ Goto(w, next) /\ UNCHANGED outputs
    <2>. DEFINE x == [slot[w] EXCEPT !.pc = next]
    <2>1. x \in SlotRecord /\ x.pc = next /\ x.run = r /\ x.num = n
      BY <1>1, TaskFacts DEF SlotRecord
    <2>2. slot' = [slot EXCEPT ![w] = x]
      BY <1>3 DEF Goto
    <2>. HIDE DEF x
    <2>3. slot'[w] = x
      BY <2>2 DEF WorkersInv, ProcessesTypeOK
    <2>4. WriteStage(r, n, s) /\ ClaimStep(r, n) /\ Valid(w)
      BY <1>1, <1>3, WorkerStagesAssumption DEF ClaimStep, WriteStage, Valid
    <2>5. run'[r] = [run[r] EXCEPT !.status = s] /\ report' = report
      BY <2>4 DEF WriteStage, WorkersInv, IInv, TypeOK
    <2>6. /\ run'[r].status = s /\ run'[r].exec = run[r].exec
          /\ run'[r].count = run[r].count /\ run[r].exec \in Held
      BY <2>4, <2>5, RowFacts DEF RunRecord, WorkersInv, WriteStage, ClaimRecord
    <2>7. linked' = linked /\ spaces' = spaces /\ planned' = planned
      BY <1>3 DEF outputs
    <2>8. Run(w)' = r /\ Num(w)' = n /\ slot'[w].pc = next
      BY <2>1, <2>3 DEF Run, Num
    <2>9. slot[w].pc \in {"verify", "finish", "complete"} => report[r] = n
      BY <1>1, <2>4, TaskFacts DEF Reached
    <2>10. Reached(w)'
      <3>1. ~linked[r] => spaces[r] < n
        BY <1>1, <2>4, TaskFacts DEF Reached
      <3>2. next = "complete" => run'[r].status \in FinalStages
        BY <2>6
      <3>3. next \in {"verify", "finish", "complete"} => report'[r] = n
        BY <2>5, <2>9
      <3>. QED
        BY <2>7, <2>8, <3>1, <3>2, <3>3 DEF Reached
    <2>11. RowTells(r)'
      <3>1. n # None
        BY CapFacts DEF None, Numbers
      <3>2. run'[r].exec # "COMPLETED" /\ spaces'[r] <= run'[r].count
        BY <1>1, <2>6, <2>7, TaskFacts DEF RowTells, Held
      <3>. QED
        BY <2>5, <2>6, <2>9, <3>1, <3>2 DEF RowTells
    <2>. QED
      BY <1>1, <2>1, <2>2, <2>4, <2>7, <2>10, <2>11, TaskMove DEF WorkersInv, ProcessesTypeOK
  <1>. QED
    BY <1>2, <1>3 DEF Status

\* The same behind a check for a cancellation.
LEMMA CheckedStatusStep ==
  ASSUME WorkersInv, NEW w \in Slots, Busy(w), slot[w].pc # "link",
         NEW s \in StageNames, NEW next \in Points, CheckedStatus(w, s, next),
         UNCHANGED <<loop, crashes>>,
         next \notin {"workspace", "link", "verify", "finish", "complete"}
  PROVE  WorkersInv'
  <1>1. s \notin FinalStages
    BY DEF StageNames, FinalStages
  <1>2. CASE Status(w, s, next)
    BY <1>1, <1>2, StatusStep
  <1>. QED
    BY <1>2, StopCancelledStep DEF CheckedStatus

\* An attempt that started runs.
LEMMA StartStep ==
  ASSUME WorkersInv, NEW w \in Slots, slot[w].pc = "start", Start(w),
         UNCHANGED <<loop, crashes>>
  PROVE  WorkersInv'
  <1>1. Busy(w)
    BY DEF Busy, Resting
  <1>2. PICK r \in Runs, n \in Numbers : r = Run(w) /\ n = Num(w)
    BY <1>1, TaskFacts
  <1>3. CASE MarkRunning(Run(w), Num(w)) /\ Goto(w, "plan") /\ UNCHANGED outputs
    <2>. DEFINE x == [slot[w] EXCEPT !.pc = "plan"]
    <2>1. x \in SlotRecord /\ x.pc = "plan" /\ x.run = r /\ x.num = n
      BY <1>1, <1>2, TaskFacts DEF SlotRecord, Points
    <2>2. slot' = [slot EXCEPT ![w] = x]
      BY <1>3 DEF Goto
    <2>. HIDE DEF x
    <2>3. slot'[w] = x
      BY <2>2 DEF WorkersInv, ProcessesTypeOK
    <2>4. MarkRunning(r, n) /\ ClaimStep(r, n) /\ Valid(w)
      BY <1>2, <1>3 DEF ClaimStep, MarkRunning, Valid
    <2>5. run'[r] = [run[r] EXCEPT !.exec = "RUNNING"] /\ report' = report
      BY <2>4 DEF MarkRunning, WorkersInv, IInv, TypeOK
    <2>6. /\ run'[r].status = run[r].status /\ run'[r].exec = "RUNNING"
          /\ run'[r].count = run[r].count
      BY <2>5, RowFacts DEF RunRecord, WorkersInv
    <2>7. linked' = linked /\ spaces' = spaces /\ planned' = planned
      BY <1>3 DEF outputs
    <2>8. Reached(w) /\ RowTells(r)
      BY <1>1, <1>2, TaskFacts
    <2>9. ~linked[r] => spaces[r] < n
      BY <1>1, <1>2, <2>4, <2>8 DEF Reached
    <2>10. Reached(w)'
      BY <2>1, <2>3, <2>7, <2>9 DEF Reached, Run, Num
    <2>11. RowTells(r)'
      BY <2>5, <2>6, <2>7, <2>8 DEF RowTells
    <2>. QED
      BY <1>1, <1>2, <2>1, <2>2, <2>4, <2>7, <2>10, <2>11, TaskMove
      DEF WorkersInv, ProcessesTypeOK
  <1>4. CASE Leave(w) /\ UNCHANGED <<vars, outputs>>
    BY <1>1, <1>2, <1>4, TaskLeaves, SameRowTells
  <1>. QED
    BY <1>3, <1>4 DEF Start

\* The plan of an attempt, kept under its number.
LEMMA PlannedStep ==
  ASSUME WorkersInv, NEW w \in Slots, slot[w].pc = "planned", Planned(w),
         UNCHANGED <<loop, crashes>>
  PROVE  WorkersInv'
  <1>1. Busy(w)
    BY DEF Busy, Resting
  <1>2. PICK r \in Runs, n \in Numbers : r = Run(w) /\ n = Num(w)
    BY <1>1, TaskFacts
  <1>3. CASE Valid(w)
    <2>. DEFINE x == [slot[w] EXCEPT !.pc = "discover", !.iter = 1]
    <2>1. x \in SlotRecord /\ x.pc = "discover" /\ x.run = r /\ x.num = n
      <3>1. 1 \in 0 .. MaxIterations /\ "discover" \in Points
        BY IterationsAssumption DEF Points
      <3>. QED
        BY <1>1, <1>2, <3>1, TaskFacts DEF SlotRecord
    <2>2. /\ slot' = [slot EXCEPT ![w] = x]
          /\ planned' = [planned EXCEPT ![r] = @ \cup {n}]
          /\ spaces' = spaces /\ linked' = linked /\ UNCHANGED vars
      BY <1>2, <1>3 DEF Planned
    <2>. HIDE DEF x
    <2>3. slot'[w] = x
      BY <2>2 DEF WorkersInv, ProcessesTypeOK
    <2>4. Reached(w) /\ RowTells(r)
      BY <1>1, <1>2, TaskFacts
    <2>5. ~linked[r] => spaces[r] < n
      BY <1>1, <1>2, <1>3, <2>4 DEF Reached
    <2>6. Reached(w)'
      BY <2>1, <2>2, <2>3, <2>5 DEF Reached, Run, Num
    <2>7. RowTells(r)'
      BY <2>2, <2>4 DEF RowTells, vars
    <2>8. planned' \in [Runs -> SUBSET Numbers]
      BY <2>2 DEF WorkersInv, ProcessesTypeOK
    <2>. QED
      BY <1>1, <1>2, <1>3, <2>1, <2>2, <2>6, <2>7, <2>8, TaskMove
      DEF WorkersInv, ProcessesTypeOK
  <1>4. CASE ~Valid(w)
    BY <1>1, <1>4, RaiseStep DEF Planned
  <1>. QED
    BY <1>3, <1>4

\* The attempt's workspace, its first: the count of workspaces stays within
\* that of attempts.
LEMMA CreateWorkspaceStep ==
  ASSUME WorkersInv, NEW w \in Slots, slot[w].pc = "workspace", CreateWorkspace(w),
         UNCHANGED <<loop, crashes>>
  PROVE  WorkersInv'
  <1>1. Busy(w)
    BY DEF Busy, Resting
  <1>2. PICK r \in Runs, n \in Numbers : r = Run(w) /\ n = Num(w)
    BY <1>1, TaskFacts
  <1>3. CASE Valid(w)
    <2>. DEFINE x == [slot[w] EXCEPT !.pc = "link"]
    <2>1. x \in SlotRecord /\ x.pc = "link" /\ x.run = r /\ x.num = n
      BY <1>1, <1>2, TaskFacts DEF SlotRecord, Points
    <2>2. /\ slot' = [slot EXCEPT ![w] = x]
          /\ spaces' = [spaces EXCEPT ![r] = @ + 1]
          /\ planned' = planned /\ linked' = linked /\ UNCHANGED vars
      BY <1>2, <1>3 DEF CreateWorkspace, Goto
    <2>. HIDE DEF x
    <2>3. slot'[w] = x
      BY <2>2 DEF WorkersInv, ProcessesTypeOK
    <2>4. Reached(w) /\ RowTells(r)
      BY <1>1, <1>2, TaskFacts
    <2>5. spaces[r] < n /\ spaces[r] \in Nat /\ n \in Nat
      BY <1>1, <1>2, <1>3, <2>4, CapFacts DEF Reached, WorkersInv, ProcessesTypeOK, Numbers
    <2>6. run[r].count = n
      BY <1>2, <1>3, FenceHolds DEF Valid, WorkersInv
    <2>7. Reached(w)'
      BY <2>1, <2>3 DEF Reached
    <2>8. spaces'[r] = spaces[r] + 1
      BY <2>2 DEF WorkersInv, ProcessesTypeOK
    <2>9. RowTells(r)'
      BY <2>2, <2>4, <2>5, <2>6, <2>8 DEF RowTells, vars
    <2>10. spaces' \in [Runs -> Nat] /\ \A s \in Runs \ {r} : spaces'[s] = spaces[s]
      BY <2>2, <2>5 DEF WorkersInv, ProcessesTypeOK
    <2>. QED
      BY <1>1, <1>2, <1>3, <2>1, <2>2, <2>7, <2>9, <2>10, TaskMove
      DEF WorkersInv, ProcessesTypeOK
  <1>4. CASE ~Valid(w)
    BY <1>1, <1>4, RaiseStep DEF CreateWorkspace
  <1>. QED
    BY <1>3, <1>4

\* The link: a run that names a workspace asks for no other.
LEMMA LinkWorkspaceStep ==
  ASSUME WorkersInv, NEW w \in Slots, slot[w].pc = "link", LinkWorkspace(w),
         UNCHANGED <<loop, crashes>>
  PROVE  WorkersInv'
  <1>1. Busy(w)
    BY DEF Busy, Resting
  <1>2. PICK r \in Runs, n \in Numbers : r = Run(w) /\ n = Num(w)
    BY <1>1, TaskFacts
  <1>3. CASE Valid(w) /\ ~run[Run(w)].cancel
    <2>. DEFINE x == [slot[w] EXCEPT !.pc = "ingested"]
    <2>1. x \in SlotRecord /\ x.pc = "ingested" /\ x.run = r /\ x.num = n
      BY <1>1, <1>2, TaskFacts DEF SlotRecord, Points
    <2>2. /\ slot' = [slot EXCEPT ![w] = x]
          /\ linked' = [linked EXCEPT ![r] = TRUE]
          /\ planned' = planned /\ spaces' = spaces /\ UNCHANGED vars
      BY <1>2, <1>3 DEF LinkWorkspace, Goto
    <2>. HIDE DEF x
    <2>3. slot'[w] = x
      BY <2>2 DEF WorkersInv, ProcessesTypeOK
    <2>4. linked'[r] /\ linked' \in [Runs -> BOOLEAN]
          /\ \A s \in Runs \ {r} : linked'[s] = linked[s]
      BY <2>2 DEF WorkersInv, ProcessesTypeOK
    <2>5. Reached(w)'
      BY <2>1, <2>3, <2>4 DEF Reached, Run
    <2>6. RowTells(r)'
      BY <1>1, <1>2, <2>2, TaskFacts DEF RowTells, vars
    <2>. QED
      BY <1>1, <1>2, <1>3, <2>1, <2>2, <2>4, <2>5, <2>6, TaskMove
      DEF WorkersInv, ProcessesTypeOK
  <1>4. CASE ~(Valid(w) /\ ~run[Run(w)].cancel)
    BY <1>1, <1>4, RaiseStep DEF LinkWorkspace
  <1>. QED
    BY <1>3, <1>4

\* The report is stored before any stage that looks final.
LEMMA SynthesizedStep ==
  ASSUME WorkersInv, NEW w \in Slots, slot[w].pc = "synthesizing", Synthesized(w),
         UNCHANGED <<loop, crashes>>
  PROVE  WorkersInv'
  <1>1. Busy(w)
    BY DEF Busy, Resting
  <1>2. PICK r \in Runs, n \in Numbers : r = Run(w) /\ n = Num(w)
    BY <1>1, TaskFacts
  <1>3. CASE Valid(w)
    <2>. DEFINE x == [slot[w] EXCEPT !.pc = "verify"]
    <2>1. x \in SlotRecord /\ x.pc = "verify" /\ x.run = r /\ x.num = n
      BY <1>1, <1>2, TaskFacts DEF SlotRecord, Points
    <2>2. slot' = [slot EXCEPT ![w] = x] /\ SaveReport(r, n) /\ UNCHANGED outputs
      BY <1>2, <1>3 DEF Synthesized, Goto
    <2>. HIDE DEF x
    <2>3. slot'[w] = x
      BY <2>2 DEF WorkersInv, ProcessesTypeOK
    <2>4. run'[r] = run[r] /\ report'[r] = n /\ run[r].count = n /\ run[r].exec \in Held
      <3>1. IInv /\ ClaimRecord(r, n)
        BY <2>2 DEF SaveReport, WorkersInv
      <3>2. run'[r] = run[r] /\ report'[r] = n
        BY <2>2, <3>1, ClaimEffect
      <3>. QED
        BY <3>1, <3>2, FenceHolds
    <2>5. linked' = linked /\ spaces' = spaces /\ planned' = planned
      BY <2>2 DEF outputs
    <2>6. Reached(w) /\ RowTells(r)
      BY <1>1, <1>2, TaskFacts
    <2>7. ~linked[r] => spaces[r] < n
      BY <1>1, <1>2, <1>3, <2>6 DEF Reached
    <2>8. Reached(w)'
      BY <2>1, <2>3, <2>4, <2>5, <2>7 DEF Reached, Run, Num
    <2>9. RowTells(r)'
      <3>1. n # None
        BY CapFacts DEF None, Numbers
      <3>. QED
        BY <2>4, <2>5, <2>6, <3>1 DEF RowTells
    <2>10. ClaimStep(r, n)
      BY <2>2 DEF ClaimStep
    <2>. QED
      BY <1>1, <1>2, <1>3, <2>1, <2>2, <2>5, <2>8, <2>9, <2>10, TaskMove
      DEF WorkersInv, ProcessesTypeOK
  <1>4. CASE ~Valid(w)
    BY <1>1, <1>4, RaiseStep DEF Synthesized
  <1>. QED
    BY <1>3, <1>4

\* The attempt's success is that of a run whose report it wrote and whose stage
\* is final.
LEMMA CompletionIsLedgerStep ==
  ASSUME WorkersInv, NEW w \in Slots, slot[w].pc = "complete", Valid(w)
  PROVE  run[Run(w)].status \in FinalStages /\ report[Run(w)] = Num(w)
  BY TaskFacts DEF Reached, Busy, Resting

LEMMA CompleteStep ==
  ASSUME WorkersInv, NEW w \in Slots, slot[w].pc = "complete", Complete(w),
         UNCHANGED <<loop, crashes>>
  PROVE  WorkersInv'
  <1>1. Busy(w)
    BY DEF Busy, Resting
  <1>2. PICK r \in Runs, n \in Numbers : r = Run(w) /\ n = Num(w)
    BY <1>1, TaskFacts
  <1>3. Leave(w) /\ UNCHANGED outputs
    BY DEF Complete
  <1>4. CASE Valid(w)
    <2>1. PICK s \in FinalStages : s = run[r].status
      BY <1>2, <1>4, CompletionIsLedgerStep
    <2>2. CompleteExecution(r, n, s)
      BY <1>2, <1>4, <2>1 DEF Complete
    <2>3. ClaimStep(r, n)
      BY <2>2 DEF ClaimStep
    <2>4. run'[r] = [run[r] EXCEPT !.exec = "CANCELLED", !.status = "CANCELLED", !.active = None]
          \/ run'[r] = [run[r] EXCEPT !.exec = "COMPLETED", !.status = s, !.active = None]
      BY <2>2 DEF CompleteExecution, WorkersInv, IInv, TypeOK
    <2>5. run'[r].count = run[r].count /\ run'[r].status \in {"CANCELLED", run[r].status}
      BY <2>1, <2>4, RowFacts DEF RunRecord, WorkersInv
    <2>6. run[r].count = n /\ report[r] = n /\ report' = report
      BY <1>2, <1>4, <2>2, FenceHolds, CompletionIsLedgerStep
      DEF Valid, CompleteExecution, WorkersInv
    <2>7. RowTells(r)'
      <3>1. n # None
        BY CapFacts DEF None, Numbers
      <3>. QED
        BY <1>3, <2>5, <2>6, <3>1 DEF RowTells, WorkersInv, outputs
    <2>. QED
      BY <1>1, <1>2, <1>3, <2>3, <2>7, TaskLeaves
  <1>5. CASE ~Valid(w)
    BY <1>1, <1>2, <1>3, <1>5, TaskLeaves, SameRowTells DEF Complete
  <1>. QED
    BY <1>4, <1>5

\* The points of execute between which nothing but the task moves.
LEMMA PassingStep ==
  ASSUME WorkersInv, NEW w \in Slots, UNCHANGED <<loop, crashes>>,
         \/ slot[w].pc = "owner" /\ CheckOwner(w)
         \/ slot[w].pc = "select" /\ NothingSelected(w)
         \/ slot[w].pc = "ingest" /\ Ingested(w)
  PROVE  WorkersInv'
  <1>1. Busy(w) /\ slot[w].pc # "link"
    BY DEF Busy, Resting
  <1>2. PICK next \in {"start", "synthesize", "ingested", "workspace"} :
          Goto(w, next) /\ (next = "workspace" => ~linked[Run(w)])
    BY DEF CheckOwner, NothingSelected, Ingested
  <1>3. UNCHANGED <<vars, outputs>>
    BY DEF CheckOwner, NothingSelected, Ingested
  <1>. DEFINE x == [slot[w] EXCEPT !.pc = next]
  <1>4. next \in Points
    BY <1>2 DEF Points
  <1>5. x \in SlotRecord /\ x.pc = next /\ x.run = Run(w) /\ x.num = Num(w)
    BY <1>1, <1>4, TaskFacts DEF SlotRecord
  <1>6. slot' = [slot EXCEPT ![w] = x]
    BY <1>2 DEF Goto
  <1>. HIDE DEF x
  <1>. QED
    BY <1>1, <1>2, <1>3, <1>5, <1>6, WalkStep

\* A cancellation found during the ingestion ends the attempt, and the task is
\* without a claim from then on.
LEMMA IngestionCancelledStep ==
  ASSUME WorkersInv, NEW w \in Slots, slot[w].pc = "ingest", IngestionCancelled(w),
         UNCHANGED <<loop, crashes>>
  PROVE  WorkersInv'
  <1>1. Busy(w)
    BY DEF Busy, Resting
  <1>2. PICK r \in Runs, n \in Numbers : r = Run(w) /\ n = Num(w)
    BY <1>1, TaskFacts
  <1>. DEFINE x == slot[w]
  <1>3. x \in SlotRecord /\ x.run = r /\ x.num = n /\ slot' = [slot EXCEPT ![w] = x]
    BY <1>1, <1>2, TaskFacts DEF WorkersInv, ProcessesTypeOK, IngestionCancelled
  <1>4. /\ run[r].cancel /\ CompleteExecution(r, n, "COMPLETED")
        /\ slot' = slot /\ planned' = planned /\ spaces' = spaces /\ linked' = linked
    BY <1>2 DEF IngestionCancelled, outputs
  <1>5. ClaimStep(r, n)
    BY <1>4 DEF ClaimStep, FinalStages
  <1>6. run'[r] = [run[r] EXCEPT !.exec = "CANCELLED", !.status = "CANCELLED", !.active = None]
        /\ report' = report
    BY <1>4 DEF CompleteExecution, WorkersInv, IInv, TypeOK
  <1>7. /\ run'[r].exec = "CANCELLED" /\ run'[r].status = "CANCELLED"
        /\ run'[r].count = run[r].count
    BY <1>6, RowFacts DEF RunRecord, WorkersInv
  <1>8. RowTells(r)'
    BY <1>1, <1>2, <1>4, <1>6, <1>7, TaskFacts DEF RowTells, FinalStages
  <1>9. Reached(w)'
    BY <1>2, <1>4, <1>7 DEF Reached, Valid, ClaimRecord, Held, Run, Num
  <1>10. Valid(w)
    BY <1>2, <1>4 DEF CompleteExecution, Valid
  <1>. HIDE DEF x
  <1>. QED
    BY <1>1, <1>2, <1>3, <1>4, <1>5, <1>8, <1>9, <1>10, TaskMove DEF WorkersInv, ProcessesTypeOK

\* The loop is left, or another iteration begins.
LEMMA AnalyzedStep ==
  ASSUME WorkersInv, NEW w \in Slots, slot[w].pc = "analyze", Analyzed(w),
         UNCHANGED <<loop, crashes>>
  PROVE  WorkersInv'
  <1>1. Busy(w)
    BY DEF Busy, Resting
  <1>2. CASE StopCancelled(w)
    BY <1>1, <1>2, StopCancelledStep
  <1>3. CASE ~Cancelled(w)
             /\ slot' = [slot EXCEPT ![w].pc = "synthesize"] /\ UNCHANGED <<vars, outputs>>
    <2>. DEFINE x == [slot[w] EXCEPT !.pc = "synthesize"]
    <2>1. x \in SlotRecord /\ x.pc = "synthesize" /\ x.run = Run(w) /\ x.num = Num(w)
      BY <1>1, TaskFacts DEF SlotRecord, Points
    <2>2. slot' = [slot EXCEPT ![w] = x]
      BY <1>3
    <2>. HIDE DEF x
    <2>. QED
      BY <1>1, <1>3, <2>1, <2>2, WalkStep
  <1>4. CASE /\ ~Cancelled(w) /\ slot[w].iter < MaxIterations
             /\ slot' = [slot EXCEPT ![w].pc = "discover", ![w].iter = @ + 1]
             /\ UNCHANGED <<vars, outputs>>
    <2>. DEFINE x == [slot[w] EXCEPT !.pc = "discover", !.iter = @ + 1]
    <2>1. slot[w].iter + 1 \in 0 .. MaxIterations
      <3>1. slot[w].iter \in 0 .. MaxIterations
        BY <1>1, TaskFacts DEF SlotRecord
      <3>. QED
        BY <1>4, <3>1, IterationsAssumption
    <2>2. x \in SlotRecord /\ x.pc = "discover" /\ x.run = Run(w) /\ x.num = Num(w)
      BY <1>1, <2>1, TaskFacts DEF SlotRecord, Points
    <2>3. slot' = [slot EXCEPT ![w] = x]
      BY <1>4 DEF WorkersInv, ProcessesTypeOK
    <2>. HIDE DEF x
    <2>. QED
      BY <1>1, <1>4, <2>2, <2>3, WalkStep
  <1>. QED
    BY <1>2, <1>3, <1>4 DEF Analyzed

\* The points at which a stage is written.
LEMMA StagePointStep ==
  ASSUME WorkersInv, NEW w \in Slots, UNCHANGED <<loop, crashes>>,
         \/ slot[w].pc = "plan" /\ EnterPlanning(w)
         \/ slot[w].pc = "discover" /\ EnterDiscovery(w)
         \/ slot[w].pc = "search" /\ Searched(w)
         \/ slot[w].pc = "select" /\ EnterIngestion(w)
         \/ slot[w].pc = "ingested" /\ EnterAnalysis(w)
         \/ slot[w].pc = "synthesize" /\ EnterSynthesis(w)
         \/ slot[w].pc = "verify" /\ EnterVerification(w)
         \/ slot[w].pc = "finish" /\ Finish(w)
  PROVE  WorkersInv'
  <1>1. Busy(w) /\ slot[w].pc # "link"
    BY DEF Busy, Resting
  <1>2. ASSUME NEW s \in StageNames, s \notin FinalStages,
               NEW next \in {"planned", "select", "ingest"}, Status(w, s, next)
        PROVE  WorkersInv'
    <2>1. next \in Points
      BY DEF Points
    <2>. QED
      BY <1>1, <1>2, <2>1, StatusStep
  <1>3. ASSUME NEW s \in StageNames, NEW next \in {"search", "analyze", "synthesizing"},
               CheckedStatus(w, s, next)
        PROVE  WorkersInv'
    <2>1. next \in Points
      BY DEF Points
    <2>. QED
      BY <1>1, <1>3, <2>1, CheckedStatusStep
  <1>4. {"PLANNING", "SELECTING", "INGESTING", "DISCOVERING", "ANALYZING",
         "SYNTHESIZING", "VERIFYING"} = StageNames
    BY DEF StageNames
  <1>5. \A s \in StageNames : s \notin FinalStages
    BY DEF StageNames, FinalStages
  <1>6. CASE EnterPlanning(w) \/ EnterIngestion(w)
    BY <1>2, <1>4, <1>5, <1>6 DEF EnterPlanning, EnterIngestion
  <1>10. CASE Searched(w)
    <2>1. CASE StopCancelled(w)
      BY <1>1, <2>1, StopCancelledStep
    <2>2. CASE Status(w, "SELECTING", "select")
      BY <1>2, <1>4, <1>5, <2>2
    <2>. QED
      BY <1>10, <2>1, <2>2 DEF Searched
  <1>7. CASE EnterDiscovery(w) \/ EnterAnalysis(w) \/ EnterSynthesis(w)
    BY <1>3, <1>4, <1>7 DEF EnterDiscovery, EnterAnalysis, EnterSynthesis
  <1>8. CASE slot[w].pc = "verify" /\ EnterVerification(w)
    <2>1. Status(w, "VERIFYING", "finish") /\ "finish" \in Points
      BY <1>8 DEF EnterVerification, Points
    <2>. QED
      BY <1>1, <1>4, <1>5, <1>8, <2>1, StatusStep
  <1>9. CASE slot[w].pc = "finish" /\ Finish(w)
    <2>1. PICK s \in FinalStages : Status(w, s, "complete")
      BY <1>9 DEF Finish
    <2>2. "complete" \in Points
      BY DEF Points
    <2>. QED
      BY <1>1, <1>9, <2>1, <2>2, StatusStep
  <1>. QED
    BY <1>6, <1>7, <1>8, <1>9, <1>10

\* Every step of execute keeps the invariant.
LEMMA TaskStepInv == ASSUME WorkersInv, NEW w \in Slots, TaskStep(w) PROVE WorkersInv'
  <1>1. UNCHANGED <<loop, crashes>> /\ Step(w)
    BY DEF TaskStep
  <1>2. ASSUME slot[w].pc \in Points,
               OwnerUnavailable(w) \/ \E retryable \in BOOLEAN : Raise(w, retryable)
        PROVE  WorkersInv'
    <2>1. Busy(w)
      BY <1>2 DEF Points, Busy, Resting
    <2>. QED
      BY <1>1, <1>2, <2>1, RaiseStep DEF OwnerUnavailable
  <1>3. "owner" \in Points /\ Awaiting \subseteq Points
    BY DEF Points, Awaiting
  <1>4. CASE slot[w].pc = "owner" /\ (CheckOwner(w) \/ OwnerUnavailable(w))
    BY <1>1, <1>2, <1>3, <1>4, PassingStep
  <1>5. CASE slot[w].pc \in Awaiting /\ \E retryable \in BOOLEAN : Raise(w, retryable)
    BY <1>2, <1>3, <1>5
  <1>. QED
    BY <1>1, <1>4, <1>5, StartStep, PlannedStep, CreateWorkspaceStep, LinkWorkspaceStep,
       SynthesizedStep, CompleteStep, PassingStep, IngestionCancelledStep, AnalyzedStep,
       StagePointStep
    DEF Step

\* A heartbeat renews the lease of its own claim.
LEMMA HeartbeatInv == ASSUME WorkersInv, NEW w \in Slots, Heartbeat(w) PROVE WorkersInv'
  <1>1. Busy(w) /\ RenewLease(Run(w), Num(w)) /\ UNCHANGED <<slot, loop, outputs, crashes>>
    BY DEF Heartbeat, Busy, Resting
  <1>2. PICK r \in Runs, n \in Numbers : r = Run(w) /\ n = Num(w)
    BY <1>1, TaskFacts
  <1>. DEFINE x == slot[w]
  <1>3. x \in SlotRecord /\ x.run = r /\ x.num = n /\ slot' = [slot EXCEPT ![w] = x]
    BY <1>1, <1>2, TaskFacts DEF WorkersInv, ProcessesTypeOK
  <1>4. RenewLease(r, n) /\ ClaimStep(r, n) /\ Valid(w)
    BY <1>1, <1>2 DEF ClaimStep, RenewLease, Valid
  <1>5. run' = run /\ report' = report /\ planned' = planned
        /\ spaces' = spaces /\ linked' = linked
    BY <1>1 DEF RenewLease, outputs
  <1>6. Reached(w) /\ RowTells(r)
    BY <1>1, <1>2, TaskFacts
  <1>7. Reached(w)'
    BY <1>1, <1>4, <1>5, <1>6 DEF Reached, Busy, Run, Num
  <1>8. RowTells(r)'
    BY <1>5, <1>6 DEF RowTells
  <1>. HIDE DEF x
  <1>. QED
    BY <1>1, <1>2, <1>3, <1>4, <1>5, <1>7, <1>8, TaskMove DEF WorkersInv, ProcessesTypeOK

---------------------------------------------------------------------------
(* What a task does to the ledger. *)

\* The claim that a task's step writes under, and the row it names.
Writes(w) == ClaimStep(Run(w), Num(w))

LEMMA RaiseWrites ==
  ASSUME NEW w \in Slots, NEW retryable \in BOOLEAN, Raise(w, retryable)
  PROVE  /\ UNCHANGED vars \/ Writes(w)
         /\ Valid(w) \/ UNCHANGED <<vars, outputs>>
  BY DEF Raise, Writes, ClaimStep

LEMMA StatusWrites ==
  ASSUME NEW w \in Slots, NEW s \in StageNames \cup FinalStages, NEW next, Status(w, s, next)
  PROVE  /\ UNCHANGED vars \/ Writes(w)
         /\ Valid(w) \/ UNCHANGED <<vars, outputs>>
  <1>1. CASE Raise(w, FALSE)
    BY <1>1, RaiseWrites
  <1>2. CASE WriteStage(Run(w), Num(w), s)
    BY <1>2, WorkerStagesAssumption DEF Writes, ClaimStep, WriteStage, Valid
  <1>. QED
    BY <1>1, <1>2 DEF Status

LEMMA StopWrites ==
  ASSUME NEW w \in Slots, StopCancelled(w)
  PROVE  /\ UNCHANGED vars \/ Writes(w)
         /\ Valid(w) \/ UNCHANGED <<vars, outputs>>
  BY DEF StopCancelled, Writes, ClaimStep, FinalStages

LEMMA CheckedStatusWrites ==
  ASSUME NEW w \in Slots, NEW s \in StageNames, NEW next, CheckedStatus(w, s, next)
  PROVE  /\ UNCHANGED vars \/ Writes(w)
         /\ Valid(w) \/ UNCHANGED <<vars, outputs>>
  BY StatusWrites, StopWrites DEF CheckedStatus

\* A step of execute writes to the ledger through its claim or not at all, and
\* without a claim it writes nowhere.
LEMMA TaskWrites ==
  ASSUME WorkersInv, NEW w \in Slots, TaskStep(w)
  PROVE  /\ UNCHANGED vars \/ Writes(w)
         /\ Valid(w) \/ UNCHANGED <<vars, outputs>>
  <1>. DEFINE Goal == /\ UNCHANGED vars \/ Writes(w)
                      /\ Valid(w) \/ UNCHANGED <<vars, outputs>>
  <1>1. Step(w)
    BY DEF TaskStep
  <1>2. CASE CheckOwner(w) \/ NothingSelected(w) \/ Ingested(w)
    BY <1>2 DEF CheckOwner, NothingSelected, Ingested
  <1>3. CASE Start(w)
    BY <1>3 DEF Start, Writes, ClaimStep, MarkRunning, Valid
  <1>4. CASE EnterPlanning(w) \/ EnterIngestion(w) \/ EnterVerification(w) \/ Finish(w)
    BY <1>4, StatusWrites
    DEF EnterPlanning, EnterIngestion, EnterVerification, Finish, StageNames
  <1>11. CASE Searched(w)
    BY <1>11, StatusWrites, StopWrites DEF Searched, StageNames
  <1>12. CASE IngestionCancelled(w)
    BY <1>12 DEF IngestionCancelled, Writes, ClaimStep, CompleteExecution, Valid, FinalStages
  <1>5. CASE EnterDiscovery(w) \/ EnterAnalysis(w) \/ EnterSynthesis(w)
    BY <1>5, CheckedStatusWrites DEF EnterDiscovery, EnterAnalysis, EnterSynthesis, StageNames
  <1>6. CASE Planned(w) \/ CreateWorkspace(w) \/ LinkWorkspace(w)
    <2>1. CASE Raise(w, FALSE)
      BY <2>1, RaiseWrites
    <2>2. CASE Valid(w) /\ UNCHANGED vars
      BY <2>2
    <2>. QED
      BY <1>6, <2>1, <2>2 DEF Planned, CreateWorkspace, LinkWorkspace
  <1>7. CASE Analyzed(w)
    BY <1>7, StopWrites DEF Analyzed
  <1>8. CASE Synthesized(w)
    <2>1. CASE Raise(w, FALSE)
      BY <2>1, RaiseWrites
    <2>2. CASE Valid(w) /\ SaveReport(Run(w), Num(w))
      BY <2>2 DEF Writes, ClaimStep
    <2>. QED
      BY <1>8, <2>1, <2>2 DEF Synthesized
  <1>9. CASE slot[w].pc = "complete" /\ Complete(w)
    <2>1. CASE Valid(w)
      <3>1. run[Run(w)].status \in FinalStages
        BY <1>9, <2>1, CompletionIsLedgerStep
      <3>. QED
        BY <1>9, <2>1, <3>1 DEF Complete, Writes, ClaimStep
    <2>2. CASE ~Valid(w)
      BY <1>9, <2>2 DEF Complete
    <2>. QED
      BY <2>1, <2>2
  <1>10. CASE OwnerUnavailable(w) \/ \E retryable \in BOOLEAN : Raise(w, retryable)
    BY <1>10, RaiseWrites DEF OwnerUnavailable
  <1>. HIDE DEF Goal
  <1>. QED
    BY <1>1, <1>2, <1>3, <1>4, <1>5, <1>6, <1>7, <1>8, <1>9, <1>10, <1>11, <1>12 DEF Step

\* A step of a task moves no other task.
LEMMA TaskMovesItself ==
  ASSUME WorkersInv, NEW w \in Slots, TaskStep(w), NEW u \in Slots \ {w}
  PROVE  slot'[u] = slot[u]
  BY DEF WorkersInv, ProcessesTypeOK, TaskStep, Step, CheckOwner, OwnerUnavailable, Start,
     EnterPlanning, Planned, EnterDiscovery, Searched, NothingSelected, EnterIngestion,
     Ingested, IngestionCancelled, CreateWorkspace, LinkWorkspace, EnterAnalysis, Analyzed, EnterSynthesis,
     Synthesized, EnterVerification, Finish, Complete, Raise, Status, StopCancelled,
     CheckedStatus, Goto, Leave

---------------------------------------------------------------------------
(* Processes, the API and the clock. *)

\* What processes, users and the clock do is a background step, or none.
LEMMA ProcessInv == ASSUME WorkersInv, NEW p \in Procs, Process(p) PROVE WorkersInv'
  <1>1. /\ slot \in [Slots -> SlotRecord] /\ loop \in [Procs -> LoopStates]
        /\ crashes \in 0 .. CrashBudget /\ IInv
    BY DEF WorkersInv, ProcessesTypeOK
  <1>2. UNCHANGED vars => IInv' /\ \A r \in Runs : Quiet(r)
    BY <1>1, NextIInv, KeptQuiet DEF vars
  <1>3. \A q \in LoopStates : [loop EXCEPT ![p] = q] \in [Procs -> LoopStates]
    BY <1>1
  <1>4. {"polling", "waiting", "sleeping", "down"} = LoopStates
    BY DEF LoopStates
  <1>5. Idle("free") \in SlotRecord /\ Idle("free").pc \in Resting
    BY IterationsAssumption DEF Idle, SlotRecord, Resting
  <1>6. CASE Poll(p)
    <2>1. IInv' /\ \A r \in Runs : Quiet(r)
      BY <1>1, <1>6, ClaimNextQuiet, NextIInv DEF Poll, Next
    <2>2. CASE \E r \in Runs, w \in Free(p) :
                 /\ run'[r].count > run[r].count
                 /\ slot' = [slot EXCEPT ![w] = [pc |-> "owner", run |-> r,
                                                 num |-> run'[r].count, iter |-> 0]]
                 /\ loop' = loop
      <3>1. \A w \in Free(p) : w \in Slots /\ ~Busy(w)
        BY DEF Free, SlotsOf, Busy, Resting
      <3>. QED
        BY <1>6, <2>1, <2>2, <3>1, GrantedTask DEF Poll
    <2>3. CASE /\ slot' = slot
               /\ loop' = [loop EXCEPT ![p] =
                             IF Free(p) = SlotsOf(p) THEN "sleeping" ELSE "waiting"]
      BY <1>1, <1>3, <1>4, <1>6, <2>1, <2>3, QuietStep DEF Poll
    <2>. QED
      BY <1>6, <2>2, <2>3 DEF Poll
  <1>7. CASE SlotsFull(p) \/ Wake(p)
    BY <1>1, <1>2, <1>3, <1>4, <1>7, QuietStep DEF SlotsFull, Wake
  <1>8. CASE Collect(p)
    <2>1. /\ slot' \in [Slots -> SlotRecord]
          /\ \A w \in Slots : slot'[w] = slot[w] \/ slot'[w].pc \in Resting
      BY <1>1, <1>5, <1>8 DEF Collect
    <2>. QED
      BY <1>1, <1>2, <1>3, <1>4, <1>8, <2>1, QuietStep DEF Collect
  <1>. QED
    BY <1>6, <1>7, <1>8 DEF Process

LEMMA CrashInv == ASSUME WorkersInv, NEW p \in Procs, Crash(p) PROVE WorkersInv'
  <1>1. /\ slot \in [Slots -> SlotRecord] /\ loop \in [Procs -> LoopStates]
        /\ crashes \in 0 .. CrashBudget /\ IInv /\ UNCHANGED <<vars, outputs>>
    BY DEF WorkersInv, ProcessesTypeOK, Crash
  <1>2. IInv' /\ \A r \in Runs : Quiet(r)
    BY <1>1, NextIInv, KeptQuiet DEF vars
  <1>3. Idle("free") \in SlotRecord /\ Idle("free").pc \in Resting
    BY IterationsAssumption DEF Idle, SlotRecord, Resting
  <1>4. /\ slot' \in [Slots -> SlotRecord]
        /\ \A w \in Slots : slot'[w] = slot[w] \/ slot'[w].pc \in Resting
    BY <1>1, <1>3 DEF Crash
  <1>5. loop' \in [Procs -> LoopStates]
    BY <1>1 DEF Crash, LoopStates
  <1>6. crashes' \in 0 .. CrashBudget
    BY <1>1, CrashAssumption DEF Crash
  <1>. QED
    BY <1>1, <1>2, <1>4, <1>5, <1>6, QuietStep

LEMMA RestartInv == ASSUME WorkersInv, NEW p \in Procs, Restart(p) PROVE WorkersInv'
  <1>1. /\ slot \in [Slots -> SlotRecord] /\ loop \in [Procs -> LoopStates]
        /\ crashes \in 0 .. CrashBudget /\ IInv
    BY DEF WorkersInv, ProcessesTypeOK
  <1>2. Startup \/ UNCHANGED vars
    BY DEF Restart
  <1>3. IInv' /\ \A r \in Runs : Quiet(r)
    BY <1>1, <1>2, NextIInv, StartupQuiet, KeptQuiet DEF vars, Next
  <1>4. loop' \in [Procs -> LoopStates]
    BY <1>1 DEF Restart, LoopStates
  <1>. QED
    BY <1>1, <1>3, <1>4, QuietStep DEF Restart

LEMMA OutsideInv ==
  ASSUME WorkersInv, Clock \/ \E r \in Runs : Api(r) PROVE WorkersInv'
  <1>1. /\ slot \in [Slots -> SlotRecord] /\ loop \in [Procs -> LoopStates]
        /\ crashes \in 0 .. CrashBudget /\ IInv
    BY DEF WorkersInv, ProcessesTypeOK
  <1>2. Background /\ UNCHANGED <<slot, loop, outputs, crashes>>
    BY DEF Background, Clock, Api
  <1>3. IInv' /\ \A r \in Runs : Quiet(r)
    BY <1>1, <1>2, BackgroundQuiet, BackgroundIsLedger, NextIInv
  <1>. QED
    BY <1>1, <1>2, <1>3, QuietStep

---------------------------------------------------------------------------
(* The theorems. *)

LEMMA WorkersInitInv == WorkersInit => WorkersInv
  <1>. SUFFICES ASSUME WorkersInit PROVE WorkersInv
    OBVIOUS
  <1>1. Init /\ IInv
    BY InitIInv DEF WorkersInit
  <1>2. \A w \in Slots : ~Busy(w)
    BY DEF WorkersInit, Idle, Busy, Resting
  <1>3. ProcessesTypeOK
    BY IterationsAssumption, CrashAssumption
    DEF WorkersInit, ProcessesTypeOK, SlotRecord, Idle, Resting, LoopStates
  <1>4. \A r \in Runs : RowTells(r)
    BY <1>1 DEF WorkersInit, Init, RowTells, FinalStages
  <1>. QED
    BY <1>1, <1>2, <1>3, <1>4 DEF WorkersInv, ClaimIssued, Reached, ClaimsDiffer

LEMMA WorkersNextInv == WorkersInv /\ [WorkersNext]_workerVars => WorkersInv'
  <1>. SUFFICES ASSUME WorkersInv, [WorkersNext]_workerVars PROVE WorkersInv'
    OBVIOUS
  <1>1. CASE UNCHANGED workerVars
    <2>1. IInv' /\ \A r \in Runs : Quiet(r)
      BY <1>1, NextIInv, KeptQuiet DEF workerVars, vars, WorkersInv
    <2>. QED
      BY <1>1, <2>1, QuietStep DEF workerVars, WorkersInv, ProcessesTypeOK
  <1>2. CASE WorkersNext
    BY <1>2, OutsideInv, TaskStepInv, HeartbeatInv, ProcessInv, CrashInv, RestartInv
    DEF WorkersNext
  <1>. QED
    BY <1>1, <1>2

\* The invariant holds in every state of every behaviour, for any number of
\* processes, task slots and crashes.
THEOREM WorkersInvariant == WorkersSpec => []WorkersInv
  BY WorkersInitInv, WorkersNextInv, PTL DEF WorkersSpec

\* Every variable keeps its type; in particular a run is given at most one
\* workspace per attempt, also when attempts are lost between creating a
\* workspace and linking it.
THEOREM WorkersTypeCorrect == WorkersSpec => []WorkersTypeOK
  <1>1. WorkersInv => WorkersTypeOK
    <2>. SUFFICES ASSUME WorkersInv PROVE WorkersTypeOK
      OBVIOUS
    <2>1. \A r \in Runs : spaces[r] \in 0 .. AttemptCap
      <3>1. \A r \in Runs : run[r].count \in 0 .. AttemptCap
        BY RowFacts, CapFacts DEF WorkersInv, RunRecord, Numbers
      <3>. QED
        BY <3>1, CapFacts DEF WorkersInv, ProcessesTypeOK, RowTells
    <2>. QED
      BY <2>1 DEF WorkersInv, ProcessesTypeOK, WorkersTypeOK, IInv
  <1>. QED
    BY <1>1, WorkersInvariant, PTL

\* A completed run shows the report of the attempt that completed it, and no
\* stage looks final without a report.
THEOREM CompletedIsReported == WorkersSpec => []CompletedHasReport
  <1>1. WorkersInv => CompletedHasReport
    BY DEF WorkersInv, RowTells, CompletedHasReport
  <1>. QED
    BY <1>1, WorkersInvariant, PTL

\* A task that lost its claim, to an expiry, a cancellation or a newer attempt,
\* changes neither the ledger nor plan, workspaces or link.
THEOREM LostTasksAreHarmless == WorkersSpec => LostTaskLeavesNoTrace
  <1>. DEFINE Harmless(w) == Busy(w) /\ ~Valid(w) /\ slot'[w] # slot[w] =>
                               UNCHANGED <<vars, outputs>>
  <1>1. ASSUME WorkersInv, WorkersNext, NEW w \in Slots PROVE Harmless(w)
    <2>1. CASE Clock \/ \E r \in Runs : Api(r)
      BY <2>1 DEF Clock, Api
    <2>2. ASSUME NEW u \in Slots, TaskStep(u) PROVE Harmless(w)
      BY <1>1, <2>2, TaskWrites, TaskMovesItself
    <2>3. ASSUME NEW u \in Slots, Heartbeat(u) PROVE Harmless(w)
      BY <2>3 DEF Heartbeat
    <2>4. ASSUME NEW p \in Procs, Process(p) PROVE Harmless(w)
      <3>1. CASE Poll(p)
        <4>1. \A u \in Free(p) : ~Busy(u)
          BY DEF Free, Busy, Resting
        <4>. QED
          BY <1>1, <3>1, <4>1 DEF Poll, WorkersInv, ProcessesTypeOK
      <3>2. CASE SlotsFull(p) \/ Wake(p) \/ Collect(p)
        BY <3>2 DEF SlotsFull, Wake, Collect
      <3>. QED
        BY <2>4, <3>1, <3>2 DEF Process
    <2>5. ASSUME NEW p \in Procs, Crash(p) \/ Restart(p) PROVE Harmless(w)
      BY <2>5 DEF Crash, Restart
    <2>. QED
      BY <1>1, <2>1, <2>2, <2>3, <2>4, <2>5 DEF WorkersNext
  <1>2. WorkersInv /\ [WorkersNext]_workerVars => [\A w \in Slots : Harmless(w)]_workerVars
    BY <1>1
  <1>. QED
    BY <1>2, WorkersInvariant, PTL DEF WorkersSpec, LostTaskLeavesNoTrace

\* Workers, their processes and the API take no step that is not one of the
\* ledger: all that is proved of ResearchLedger holds of every deployment.
THEOREM WorkersImplementLedger == WorkersSpec => ImplementsLedger
  <1>1. WorkersInit => Init
    BY DEF WorkersInit
  <1>2. ASSUME WorkersInv, [WorkersNext]_workerVars PROVE [Next]_vars
    <2>1. CASE Clock \/ \E r \in Runs : Api(r)
      BY <2>1 DEF Clock, Api, Next, RunStep
    <2>2. ASSUME NEW w \in Slots, TaskStep(w) PROVE [Next]_vars
      <3>1. Busy(w)
        BY <2>2 DEF TaskStep, Step, Busy, Resting, Awaiting
      <3>2. PICK r \in Runs, n \in Numbers : r = Run(w) /\ n = Num(w)
        BY <1>2, <3>1, TaskFacts
      <3>3. UNCHANGED vars \/ ClaimStep(r, n)
        BY <1>2, <2>2, <3>2, TaskWrites DEF Writes
      <3>. QED
        BY <3>3 DEF Next, RunStep
    <2>3. ASSUME NEW w \in Slots, Heartbeat(w) PROVE [Next]_vars
      <3>1. Busy(w)
        BY <2>3 DEF Heartbeat, Busy, Resting
      <3>2. PICK r \in Runs, n \in Numbers : r = Run(w) /\ n = Num(w)
        BY <1>2, <3>1, TaskFacts
      <3>3. ClaimStep(r, n)
        BY <2>3, <3>2 DEF Heartbeat, ClaimStep
      <3>. QED
        BY <3>3 DEF Next, RunStep
    <2>4. ASSUME NEW p \in Procs, Process(p) \/ Crash(p) \/ Restart(p) PROVE [Next]_vars
      BY <2>4 DEF Process, Poll, SlotsFull, Collect, Wake, Crash, Restart, Next
    <2>5. CASE UNCHANGED workerVars
      BY <2>5 DEF workerVars
    <2>. QED
      BY <1>2, <2>1, <2>2, <2>3, <2>4, <2>5 DEF WorkersNext
  <1>. QED
    BY <1>1, <1>2, WorkersInvariant, PTL DEF WorkersSpec, ImplementsLedger, Spec

\* However many processes run, crash and start again, the owner of a run is never
\* in doubt, its endings are sound and final, its report and a running lease are
\* safe, and what its client sees is a behaviour of ResearchRun.
THEOREM DeploymentKeepsTheLedger ==
  WorkersSpec => /\ []OwnershipIsSound /\ []EndingsAreSound
                 /\ TerminalIsFrozen /\ ReportIsFenced /\ NoStealing
                 /\ ImplementsResearchRun
  <1>1. WorkersSpec => Spec
    BY WorkersImplementLedger DEF ImplementsLedger
  <1>. QED
    BY <1>1, OwnershipHolds, EndingsHold, TerminalStays, ReportStaysFenced,
       LeaseIsRespected, LedgerImplementsRun, PTL
=============================================================================
