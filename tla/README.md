# PaperLens in TLA+

PaperLens ingests research papers, builds structured documents with evidence
from them, answers questions about them, and runs a research agent that plans,
searches, ingests, analyses and reports.  This directory models the parts of it
whose correctness depends on interleavings, crashes, retries, time, or on data
derived from a document that may be replaced meanwhile, together with the pure
rules that decide what a reader is shown.  TLC checks them on small instances;
TLAPS proves the safety of each of the eight state machines and of all the rules,
for every instance.

    tlc -config Ledger.cfg MCResearchLedger.tla      # one run of the table below
    tlapm ResearchLedger_proofs.tla                   # the proofs

`PROJECT.json` lists components, runs, the source lines behind every
definition, hazards, findings and theorems.

## 1. Inventory

All paths are below `src/`.  The backend is one FastAPI application
(`backend/app`) whose handlers are coroutines on one event loop; database
methods are synchronous, so inside one process a method runs without
interruption and the only switching points are awaits.  The container starts
two such processes (`backend/Dockerfile`, `uvicorn --workers 2`) and operators
may add worker processes (`python -m backend.app.research.worker`); they share
the database and the storage volume, nothing else.

| component | state | operations | what makes it correct |
|---|---|---|---|
| research execution ledger (`db/database.py` 725-1130, 1708-1909) | `research_runs` control columns, `research_execution_attempts`, `research_run_reports` | create, queue, cancel, claim next, claim by id, mark running, renew, write stage, save report, complete, fail, start-up recovery | one owner at a time, fencing of lost owners, one ending, retry budget, cancellation wins |
| research worker (`research/worker.py`) | set of active tasks, stop event | poll, process claim, heartbeat | a queued run ends; nothing is written for a lost claim |
| research agent (`research/agent.py`) | progress of one attempt | stages PLANNING ... COMPLETED, cancel | stages only under the claim; report before completion; retries idempotent |
| planner, discovery, ranking, retrieval, synthesis (`research/*.py`) | none | bounded, timed calls; deduplication, ranking, report validation | citations exist, selections within budget |
| ingestion (`ingestion/service.py`, `storage.py`) | paper row, sections, document, PDF file, concurrency gate | ingest, upload, resolve, discard | a completed paper is whole; failed work leaves nothing behind |
| PDF isolation (`ingestion/isolation.py`) | parser child processes, gate, counters | parse, time out, cancel, terminate, kill | children bounded, none outlives its call |
| arXiv client, resolver, parser (`ingestion/arxiv`, `resolver.py`, `parser.py`) | none | network and PDF I/O | bounded, safe hosts |
| normalizer, evidence registry (`document`, `evidence`) | none kept | build a document and its evidence | stable, unique ids |
| extraction, verification, interactive paper | cached analysis, verification results, interactive paper with cache keys | extract, verify, generate, current | what is served as current belongs to the current document and analysis |
| chat (`chat`, `api/routes.py` 610-640) | sessions bound to a document hash, messages, idempotency records | create session, answer | answers cite the bound document; one answer per key |
| retrieval and embeddings (`retrieval`) | cached vectors by evidence hash | retrieve, embed, fuse | vectors match their text |
| AI provider, provider configuration (`ai`, `provider_config.py`) | configuration rows, test result | generate with retries, save, test | a test result belongs to the configuration tested |
| comparison, citation graph, visualization | none | read-only views | derived from stored data |
| accounts and sessions (`auth.py`) | users, sessions, audit events | register, log in, look up, revoke | a request acts for the user its session belongs to, and for nobody once it expired or was revoked |
| request hardening (`core/hardening.py`) | metrics, rate windows | limit, reject, count | limit per window, bounded memory |
| configuration (`core/config.py`) | none | read once | values in their documented ranges |
| desktop supervisor (`desktop/src-tauri`) | three child processes, shutdown flag | boot, monitor, shut down | no child survives the shell |
| frontend, migrations, evaluation, scripts, vendored archify | - | - | not part of the run-time core |

The hard behaviours are: several processes and attempts working on one run
(leases, fencing, lost updates); crashes between two transactions of one
logical step; retries that repeat durable work; timeouts that race late
answers; state read before an await and used after it; start-up recovery that
runs while other processes are alive.  `PROJECT.json` lists each with its line
and the properties that cover it.

## 2. Which module models what

| modules | part of the system | kind |
|---|---|---|
| `ResearchLedger`, `ResearchRun` | the ledger of research runs, and what a client of one run may rely on | state machine, refinement, proofs |
| `ResearchWorkers` | worker loop, heartbeat, agent stages over the ledger | composition, refinement, liveness, proofs |
| `ResearchLedgerRaces` | the ledger with reads and commits of several processes split | state machine, proofs |
| `ResearchSearch` | what one attempt of the agent finds, selects, ingests and reports | state machine, proofs |
| `Ingestion` | a paper's row, document and file under concurrent calls | state machine, liveness, proofs |
| `PdfIsolation` | a parse and its child process | state machine, liveness, proofs |
| `PaperIntake` | what a typed input resolves to, and whether its PDF is admitted | operators, proofs |
| `DocumentStructure` | parser, normalizer and evidence registry | operators, proofs |
| `DerivedData` | extraction, verification, interactive paper over a replaceable document | state machine, proofs |
| `InteractiveAssembly` | the blocks of the interactive paper and their validation | operators, proofs |
| `ReaderViews` | charts, comparison, retrieval across papers, citation graph | operators, proofs |
| `PaperChat` | sessions, turns, retrieval and its caches, retry keys | state machine, proofs |
| `RequestLimits` | the gates every request passes | operators, proofs |
| `Accounts` | users, sessions and provider configurations over sequences of requests | operators, proofs |
| `Filters` | list comprehensions with a condition | operators |
| `ReaderRules` | the inputs of all the operator modules, and what their results must satisfy | composition, proofs |

`MC...` modules give TLC its instances, `..._proofs` modules hold theorems.
`ResearchWorkers` extends `ResearchLedger` (its stages are ledger steps) and so
does `ResearchLedgerRaces`; `ReaderRules` instantiates the six operator modules.
The other machines meet through the database only, and each of them shows what
the others do to its rows as actions of its own: `DerivedData`, `PaperChat` and
`ResearchSearch` have the replacement of a document, `Ingestion` the start of
another process.

Theorems about the rules are in `ReaderRules_proofs`, that about documents in
`DocumentStructure_proofs`, which extends it; those about `ResearchWorkers` and
`ResearchLedgerRaces` are in `ResearchLedger_proofs`, any other in the module named
after the one they are about.  Left for later: the desktop supervisor.

## 3. The modules

### ResearchLedger

State, per run: `run[r]` holds the control columns (`exec` is
`execution_state`, `status` the visible stage, `active` the attempt number
behind `active_attempt_id`, `count` is `attempt_count`, `cancel` says whether
`cancel_requested_at` is set, `wait` the time left before `next_attempt_at`);
`att[r][n]` the attempt row with `lease`, the time left before
`lease_expires_at`; `report[r]` the attempt whose report is stored.  Absolute
times are only compared with the current time, so the module keeps differences
and `Tick` counts them down.  Attempt ids and claim tokens are unique and are
represented by the attempt number.

Every database method is one action with the same guards and branches; a
method that refuses (returns `None`, `False` or raises) changes nothing.  The
callers of the claim-protected writes are not modelled here: any claim that was
ever issued may be presented at any time.  `ClaimRun` is the path of callers
without a worker (`ResearchAgent.execute` without a claim); `InlineCallers`
turns it off.  `Startup` is `recover_incomplete_work` with its literal limit
`StartupLimit` = 3.

### ResearchRun

The abstract specification: a run is created, offered, owned by one attempt at a
time with a growing epoch, may be asked to stop, publishes reports of the
current epoch only, and ends once.  `ResearchLedger!Client(r)` maps a run to it;
`ImplementsResearchRun` says that every ledger behaviour is one of `ResearchRun`
for every run.

### ResearchWorkers

Extends the ledger with processes (`loop`), task slots (`slot`), and the durable
side effects of the agent outside the ledger (`planned`, `spaces`, `linked`).
A task's `pc` names the next await or transaction boundary of
`ResearchAgent.execute`; a cancellation check and the stage write after it run
without an await in between and are one step.  The agent also looks for a
cancellation before each query and each paper it ingests, and may end there.
What planner, discovery, ingestion, analysis and synthesis return is a choice; they
may also raise or time out (`Raise`).  A crash frees the slots and stops the loop, a restart of an
API process runs `Startup`.  A disabled owner is a choice of `CheckOwner` or
`OwnerUnavailable`.  Runs start without a user-supplied workspace.

### ResearchLedgerRaces

The same ledger with several processes on one database.  A claim-protected write
is split into `Begin...` (the `SELECT`s of `_claim_record` and the decision) and
`Commit...` (the columns the session changed).  Methods that lock (`FOR UPDATE`,
`BEGIN IMMEDIATE`) stay one step; so do the recovery scans, which makes the model
show fewer races than the code has, never more.

### Ingestion

A task is one call of `IngestionService`.  Its `pc` names the next transaction or
file operation; `Awaits` are the places where the event loop may run others,
`Running` those where it may not, so `CanStep(t)` asks that no other task of the
process is in a section.  Other processes and crashes come between any two steps.

| definition | code |
|---|---|
| `Enter`, `Gated` | the semaphore of `ingest`; uploads bypass it |
| `Lookup`, `SaveLegacyDocument` | `get_by_source_identity`, and the document a legacy row lacks |
| `CreatePlaceholder`, `Begin`, `SaveMetadata`, `Store`, `MarkParsing` | the path to the parser |
| `SaveParsed`, `ReplaceDocument`, `Complete`, `ReadBack` | the three transactions that publish, and the read-back |
| `Error`, `Cancel`, `DatabaseError` | a wait that raises, `asyncio.wait_for` giving up, a rolled-back transaction |
| `HandleFailure`, `Discard`, `Fail` | the `except` blocks, `_discard_source`, `update_status("FAILED")` |
| `Crash`, `Restart`, `Recovered` | a dead process, `recover_incomplete_work` |

`Uploads` are the papers of `_ingest_pdf_bytes` (uploads and resolved PDFs), whose
failure path does not look at the row first; the others are those of `_ingest`.
A file is there or not; what a half-written file would do to the parser is one of
the parser's errors.

### PdfIsolation

`call[c]` is a call of `parse_document`, `child[c]` its child process with the pipe
and the signals sent to it.  Every look of the parent (`IsAlive`, `Drain`, `Poll`,
`Clock`) is a step of its own, because the child runs beside it.  `Terminate`,
`Kill` and `Return` are `_terminate`, called from three blocks (`block`); a
cancellation does something else in each.  A child may ignore SIGTERM; the exit of
a child is only fair once it is killed.  The end of the pipe may be seen late:
with the fork start method a sibling may hold a copy of it.

### ResearchSearch

One attempt of `ResearchAgent.execute`, alone and seen through its data: the plan
with its bounds (`BoundPlan`, `Ask` with the provider's retries), the queries of an
iteration, deduplication (`Insert` keeps what `Duplicate` does not find, or the
better of the two), ranking, selection, ingestion, analysis and the report with its
validation.  `phase` is the next await or stage; `failures` is the agent's counter
and `mishaps` counts what really went wrong (a search, an ingestion, the entry of the
paper into the workspace, an analysis), so that the two can be compared.
Papers are arXiv numbers, titles are model values with a relation `Similar`, the
relevance of a candidate is a constant.  A document may be replaced at any await.
Claims, cancellations and stages are `ResearchWorkers`' and are left out here.

### DerivedData

Requests run `extract`, `verify`, `generate` and their `current` readers over one
paper whose document may be replaced at any await.  A request's `op` is its next
await; `record`, `verdicts` and `versions` are the tables.  Caches are modelled
by their keys: a key is the tuple of what the code hashes, so that two values of
one column collide exactly when the code's inputs agree.  Evidence identifiers are
those of `_namespace_colliding_ids`: raw unless another document has them.
A crash loses the requests; a failed save loses one.

### PaperChat

A turn is one `send_chat_message`.  Its `op` is its next await: `query` and `embed`
for the embedding provider, `generate` for the chat provider.  `lexical` is the
in-process BM25 cache, `vectors` the embedding table, `messages` the transcript,
`records` the idempotency table.  The three retrieval modes are configurations;
a provider may fail at every call.

### The operator modules

`PaperIntake`, `DocumentStructure`, `InteractiveAssembly`, `ReaderViews` and
`RequestLimits` translate code that keeps no state between calls (the rate
limiter's windows are the state its operator takes and returns).  `Accounts` does the
same for routes that finish within one event-loop step: `Serve` takes the tables to
the tables after a request, `History` says what they are after each of a sequence of
them (`AreSent` says which: requests of the kinds in `Acts`, each call of a provider's
test begun and ended at most once, and begun before it ends).
`History` of `RequestLimits` does the same for the limiter's windows, and `Received`
of `PaperIntake` for a body that is downloaded chunk by chunk.  Its one route that
awaits, the test of a provider, is two requests of the sequence, `test` and `tested`,
with any others between them.  A regular
expression is the set of the readings it has; a PDF is a sequence of pages of
blocks of lines, each line a heading, text or blank; an analysis is a record of
which parts it has and what they cite.  `ReaderRules` has one initial state per
input, drawn from the constants of `MCReaderRules`, and no step that changes it; its
invariants relate what the operators make of the input to the input.  What it assumes
of those constants says which inputs a program can be given: `UsersAssumption` that
sessions last, that no address is that of a local user and that requests `AreSent`, `IntakeAssumption` that what a classifier finds of a DOI is a DOI and that no
chunk of a body is empty, `TrafficAssumption` that the clock does
not go back from one request to the next (`InOrder`), `PapersAssumption` that the
figures, tables, experiments, results and equations of a paper are lists, figures and
equations each under an id of its own, as the parser and the extraction number them,
and that the visual model relates nodes it has (`IsPaper`),
`DocumentAssumption` that pages have their images and blocks of lines and limits are
numbers, `ViewsAssumption` that results, selections and references are lists, that scores,
limits and the order of paper ids are numbers and that the parser numbers a
document's references.  `RetrieveAcross` sorts by the place each hit has among the
others: the code takes the papers' hits in turns first, and its sort, by score, paper
and evidence, undoes that.  Its limit is the one the clamp to 1 .. 40 leaves
(research/retrieval.py:42), and the rank of a hit in its paper's list stands for its
evidence id in that sort (:70).

`InteractiveAssembly` has three things a block carries beside its text: the diagram,
which `validate_paper` cuts to the evidence there is; the Archify graph made of the
diagram before that (`Archify`: columns, nodes, edges and what they cite), which it leaves
alone; and what the visual model read in a figure (`Analysed`), which it leaves alone
too.  `Grounded` is about the first, `Arranged` and `Reread` say what the others cite.

`SaveConfig` of `Accounts` is the list and the save of a provider's configuration in one
step.  They are two transactions (api/routes.py:121-136) with no await between them, so
this is one process's behaviour; section 6 has what two may do.

Definitions called `Mutant...` are not part of the model: each is a plausible
bug in the definition that follows it, and replacing that definition by it makes
the property named in `PROJECT.json` fail.

## 4. The runs

| run | bounds | shows |
|---|---|---|
| `Ledger` | 1 run, 3 attempts, lease 3 | ownership, endings, queueing, fencing, and the refinement of `ResearchRun` |
| `Workers` | 2 processes, 1 slot each, 2 attempts, 1 iteration, 1 crash | the agent only takes ledger steps, lost tasks leave no trace, completed runs have their report |
| `WorkersLive` | 1 process, 1 slot, 3 attempts, 2 iterations, 1 crash | queued runs end, cancellations are honoured |
| `Races` | 1 run, 2 attempts, lease 1 | what survives the races: a completed run has an attempt that succeeded, a lost claim stays lost, a recorded cancellation is kept |
| `RacesCancel` | as `Races` | **violated**: a completion overwrites a cancellation committed after its check |
| `Search` | 3 papers, 3 queries, 4 candidates, 2 ingestions, 2 iterations, 2 provider retries, 1 replacement | selections are distinct, within budget and fill it, COMPLETED means nothing failed, a published report resolves |
| `Ingestion` | 1 process, 2 calls, an arXiv paper, an upload and a legacy paper, all failures, 1 crash | completed papers are whole and have documents, returned ones too; who may take a completed paper back |
| `IngestionLive` | 2 API processes, 2 calls, 1 crash | no row stays unfinished |
| `Isolation` | 2 calls, 1 place, 1 cancellation each | no answer is lost, no silent child is left, children are bounded; calls end |
| `Derived` | 2 requests at a time, 4 in all, 2 papers, 2 sources, 2 replacements, 1 failed save, a crash | verdicts, analysis and interactive paper served are those of the current document |
| `Chat` | 2 turns, 1 session, 2 questions, a key, 3 retrieval modes, 2 replacements, 1 failed write, a crash | answers are grounded when saved, replies are in the transcript, at most one per question |
| `Rules` | 430 thousand inputs | the operator modules' results satisfy their six properties |

Why the bounds are enough.  Runs do not share rows; the only steps that touch
several are the recovery scans, which do to each run what they do to one, and the
theorems of section 5 cover any number of runs.  Three attempts exercise first,
middle and last of the default limit.  A lease of 3 gives a renewal, a repeated
execute and a recovery room on both sides of the expiry; a backoff of up to 4
outlasts it.  Attempts are bounded by `AttemptCap`, which `AttemptBudget` shows is
not reached from above; waits are bounded by the backoff.  `CrashBudget` is the
only bound put on behaviours.

Two calls for one paper show every interference of two ingestions, since a call
touches one row; a third paper adds nothing but the upload and the legacy path.
Calls may be requested again, so retries after a failure and after a restart are
among the behaviours.  Two parses for one place show what one leaves to the next.

In `Search`, three papers with a pair of similar titles give chains in
deduplication (a merge that makes two kept candidates alike); four candidates
exceed the selection, two iterations are the least in which something is found
again.  In `Derived`, two replacements make a document come back (A, B, A), which
is when a key that forgets the document would serve the wrong version; the other
paper is there to collide with its evidence ids.  In `Chat`, two turns of one
session interleave at every await, and the second may repeat the first's key.
The inputs of `Rules` have up to two of everything a rule counts or
deduplicates; limits are 1 or 2.  Four requests about sessions hold two sessions, a
logout between them and a use after it, at times before, at and past their expiry;
five about one provider configuration hold a save, a test, a deletion, a second save
and the end of the test.

Deadlock is checked in every run but those of `PdfIsolation`, whose calls end;
in the bounded machines the end of all requests is a step that changes nothing.

Fairness of the research modules (`FairSpec`).  Weak fairness of the clock; of each task step, since
every await of the agent is wrapped in `asyncio.wait_for` or in a client
timeout (`RESEARCH_STEP_TIMEOUT`); of each loop step, since the loop sleeps on a
timer; and of restarts, which the container's restart policy performs.  Users,
heartbeats and crashes are not fair: liveness does not rely on a lease being
renewed.

Ingestion and isolation take strong fairness of a call's own steps: the event loop
and the semaphores are first in, first out, and a step is disabled only while
another call has its turn; every wait of a call has a time limit.  A dead process
is restarted.  Nothing is assumed of a parser child except that SIGKILL ends it.

## 5. What is proved

`ResearchLedger_proofs` proves of `ResearchLedger`, for every finite set of runs, every
`MaxAttempts` and `LeaseTime` above zero, with or without inline callers:

* `Invariant`: `Spec => []IInv`.  `IInv` is `TypeOK`, for each run `RowInv`, and
  `report[r] <= run[r].count`.  `RowInv` is `Ownership` (a live attempt is the
  active and the newest one; a held run names a live attempt; attempts above the
  count do not exist; a queued run's attempt, if it still names one, has no
  lease left) and `Endings` (which combinations of
  `exec`, `status`, `cancel`, attempt status and count can occur).  None of the
  safety properties is inductive alone: that recovery may release a run, for
  instance, needs that an expired attempt is the newest one, which needs that
  claims only happen when no attempt is live.
* From it `TypeCorrect`, `HeldIsLive`, `LiveIsNewest`, `QueuedIsFree`,
  `CancellationWins`, `BudgetKept`, `SuccessIsLast`, `EndingsAgree` and
  `NothingIsStuck` (which needs `MaxAttempts >= StartupLimit`: see
  section 6), and the action properties `TerminalStays`,
  `ReportStaysFenced` and `LeaseIsRespected`.
* `LedgerImplementsRun`: the ledger implements `ResearchRun` for every run.

The argument is one lemma per action.  `RecoveredRow`, `GrantedRow` and
`ReleasedRow` treat one row under recovery, claim and release and are shared by
polls, inline claims, failures and restarts; `RowStep` lifts a step that changes
one row to `IInv'`.

* The composites the run checks follow: `OwnershipHolds`, `EndingsHold`, and
  `QueueHolds`, for the default limit (`MaxAttempts = StartupLimit`): that a run
  fails over a lost attempt only when it was the last one needs all three limits
  to agree (`Limits`, `SpentStep`).

It proves of `ResearchLedgerRaces`, for the same parameters, what is left of this
when a write may be committed long after its check:

* `RacesInvariant`: types, the budget, and that every open session carries a stage its
  write may set (`SessionsCarryStages`).  `IInv` is of no use here, since two attempts
  may be live at once and a run may end twice.
* `CancellationStays` (`CancellationIsKept`): no commit writes that column (`RowKeeps`).
* `CompletionStaysBacked` (`CompletionIsBacked`), from `AttemptsInv`: an attempt with a
  verdict has no session left to change it, and none is beyond the count
  (`AttemptSound`); and
* `LostClaimsStayLost` (`LostClaimIsLost`).  Both follow from what a step may do to a
  run, to one of its attempts and to that attempt's session (`Moves`): a run names the
  attempt it named, none or a new one, an attempt changes by being fenced or by its own
  session, which that ends, and only the attempt that holds the run opens one.

It proves of `ResearchWorkers`, for any processes, slots, iterations and crashes
(`WorkerStagesAssumption`: the ledger knows the stages the agent writes):

* `WorkersInvariant`: `IInv` and, per slot, that its claim was issued
  (`ClaimIssued`), that no two slots present one claim (`ClaimsDiffer`), and what a
  task that still holds its run has done by the time it reaches a point
  (`Reached`), from which follows what a reader may conclude from the row
  (`RowTells`).  `Background` steps, those of the ledger that no task takes, are
  `Quiet`: they give no claim its lost run back.
* `CompletedIsReported` and `LostTasksAreHarmless`, and `WorkersImplementLedger`,
  the refinement: every step of a task, a heartbeat or a process is a step of the
  ledger or none.  `DeploymentKeepsTheLedger` draws the conclusion: what is proved of
  the ledger above, down to `ResearchRun`, holds of every deployment.

`Ingestion_proofs` proves, for any papers, calls, processes and crashes:

* `IngestionTypes`, `CompletedDocuments` and `ReturnedDocuments`, in every
  deployment, from `IInv`: the type invariant, `CompletedHasDocument`, and that a
  call past `replace_document`, or returned, has its document (`Documented`).
* `CompletedWhole` and `CompletedKept`, for one process (`OneProcess`), from
  `SInv`: `IInv`, at most one call is in a section (`Exclusive`), a staged row is
  still staged at the next place of its section (`Staged`), and nobody completes a
  paper between `HandleFailure` and `Fail` (`Spared`).  With two
  processes `CompletedIsWhole` fails (section 6), so the assumption is needed.
  `CompletedIsKept` does not say that a completed paper stays: it says who can take it
  back, a call that had looked before (`Working`), that no such call is added
  (`StepStarts`), and that one of `_ingest` does it by going on, never by failing while
  the row is COMPLETED (`StepTakes`).

`MoveKeepsIInv` and `MoveKeepsSInv` say once what a step of one call has to show;
every action's lemma is an instance.

`PdfIsolation_proofs` proves, for any finite set of calls and any number of places:

* `IsolationTypes`, `SilentChildren` and `AnswersKept`, from `IInv`: the type
  invariant and `CallInv`, one predicate of a call and its child, since a step of
  a call changes nothing else (`LocalStep`).  `CallInv` says where a call can
  stand for each state of its child and pipe: that no answer is lost, for
  instance, needs that a call in `drain` or `reap` has a child that exited, whose
  pipe cannot fill any more.
* `BusyChildren`, from `IInv` and `Bounded` (the calls that hold a place are no
  more than the places): a child that parses and is not killed belongs to such
  a call.

`ResearchSearch_proofs` proves, for any results of any searches, limits above zero,
libraries and answers of the provider (`FoundAssumption` and `LibrariesAssumption`
only give them their types):

* `SelectionHolds`, `CompletionHolds`, `ReportsResolve` and `SearchTypes`, from
  `SearchInv`: candidates stay within their limit and name an arXiv paper once
  (`Candidates`), a selection is of the present ranking and leaves a place free
  only if every candidate is selected (`Selection`), an iteration that has not
  ingested yet has its own budget left (`Ingested`), a mishap is counted
  (`Mishaps`).
* The code's loops are folds, so the proofs need induction over data.  The
  library's induction theorems take an operator, so the module proves its own,
  for sets of numbers (`LeastNumber`, `SetInduction`, `BoundedInduction`), and
  states one lemma per loop (`InsertLoop`, `DiverseLoop`, `FillLoop`,
  `CollectLoop`): what holds at the start and is kept by one round holds at the
  end.  `DeduplicateNamesOnce`, `RankNamesOnce` (sorting by places is a bijection)
  and `SelectFillsBudget` are what the properties use.
* Uniqueness is claimed for papers with an arXiv identifier; see section 6 for
  the others.

`DerivedData_proofs` proves, for any papers, sources, evidence, stages, models and
requests, with the visual model on or off:

* `AnalysisHolds`, `VerdictsHold` and `ServedPaperHolds`, from `DerivedInvariant`.
  A request works on the document it read first, whatever replaced it meanwhile, so
  the invariant says of each request that what it holds is of that document
  (`RequestInv`), and of each stored row that it is of the document in its key
  (`KeyTells`, `Judged`, `PaperInv`).  The reader's comparison of keys does the
  rest.  Needed: there is some source (`SourcesAssumption`), and the block of
  figures is no stage's (`BlocksAssumption`).

`PaperChat_proofs` proves, for any turns, sessions, questions, keys, documents and
retrieval modes:

* `RepliesHold`, `OneReplyHolds` and `AnswersHold`, from `ChatInvariant`: what each
  turn has left in the transcript at each of its waits (`TurnFits`), that a record
  replays a reply the transcript has after its question (`RecordFits`), and that
  a turn's messages are a question and at most one reply (`Orderly`).
  `NoneAssumption` keeps the absent value apart from documents, keys and statuses.

`ReaderRules_proofs` proves, for any inputs its assumptions admit:

* `TrafficHolds`: `TrafficIsBounded`, for any sequence of requests from any clients
  and any limit, window and size of the map.  That a window counts no more than the
  limit says nothing of a span across two of them; the inductive invariant
  (`Windowed` in `WindowsHold`) says of each key's requests when the last window
  opened, that the map counts those since (or the window has expired, whether or not
  it was pruned), and that fewer than the limit came within a window's length before
  it opened.
* `IntakeSafe`: `IntakeIsSure`, for any text, any world and bodies of any length.
* `AccountsSafe`: `AccountsAreOwn`, for any sequence of requests.  The invariants say
  what the tables tell of the history that made them: each session is that of the one
  request that was given its token, and revoked if a logout presented it since
  (`SessionsRight`); the accounts are those that registered (`UsersRight`); a
  configuration has the secret stated last and the result of the last test that
  ended (`ConfigsRight`); a call under way is a test that started and has not ended
  (`CallsRight`).
* `PaperSafe`: `PaperIsGrounded`, for any document and analysis of that shape and any
  registered evidence.  Every block starts as one of a few forms (`IsPiece`), which
  equations, figures and tables it shows depending on the stage it stands for; what
  `SanitizeBlock` leaves of such a block cites registered evidence and has no loose
  ends, and its Archify graph and figures are those it had (`SanitizedBlock`,
  `CutFrom`).  The graph is the diagram before it was cut, and cites what the
  analysis does, registered or not (`IsArchify`, `ArrangedBlock`); a figure carries what
  the visual model read in it and in no other (`FigureBinds`, `RereadFigure`).  The
  leftover blocks complement what the blocks before them took (`BodyIs`, `BlocksAre`).
  Which items of a list a filter keeps, and where, is `AmongKeeps`: `Filters` has the
  comprehension as a recursive function, since `SelectSeq` is out of the provers' reach.
* `ViewsSafe`: `ViewsClaimNoMore`, for any results, selections of papers, searches
  and libraries.  Charts (`ChartsAreFair`) follow from what a filter keeps.  The verdicts
  (`ComparisonIsFair`) need that removing repetitions leaves the same papers, each
  once (`UniqIs`): two values stated in the list are two papers.  The evidence
  (`EvidenceIsBest`) rests on `PlacesOfHits`: the place of a hit, one more than those before
  it, is a bijection from the hits onto `1 .. Cardinality`, so that what the limit cuts
  off is no better than what it leaves.  The graph (`GraphJoins`) is an induction over the
  references: each adds one edge, and a node unless its paper is one already
  (`CitesJoin`).
* Nothing changes the input, so each is a theorem about operators on one input, and
  the induction is over the sequence in it.  `History` and `Received` are recursive
  functions; that they satisfy their equations (`HistoryRuns`, `ReceivedRuns`, and
  `RecursionRuns` for any function of that form) is
  proved by the module's own set induction, as in `ResearchSearch_proofs`.

`DocumentStructure_proofs` proves, for any pages, blocks and lines and any limits:

* `DocumentSafe`: `DocumentIsTraceable`.  The invariant of the parser's pass relates
  its state to the lines it has read: those of the sections and the pending ones are
  the lines so far, and every section starts where the one before it ends or later
  (`LineFits`); a block adds that all its characters are counted and none is pending,
  or that a limit is passed (`BlockFits`), a page the images and the limits
  of all pages before it (`PageFits`).  Lines, blocks and pages are three nested
  recursions; `LeadsRuns` does the induction once, for steps that lead from what fits
  a place to what fits the next.  Dropping an empty first section loses no line
  (`KeptText`).  That a parent is the nearest shallower section needs that the open
  sections are those no shallower one has closed, deeper ones later (`OpenFits`).
  Evidence (`EvidenceKept`) rests on paragraphs and artifacts being registered in
  the order they are numbered in, so that an identifier is a place in the
  list (`RegisteredInOrder`, `FiveLists`).
* `Joined` of `Filters`, lists put one after the other, and the parser's passes are
  recursive functions and not `FlattenSeq` and `FoldLeft`, of which nothing can be
  proved for every input.

Only model-checked: the liveness properties `QueuedRunEnds`, `CancellationIsHonoured`,
`UnfinishedEnds` and `CallEnds`, which are beyond the prover.  Every
invariant and every safety property of the passing runs is a theorem.

## 6. What the code does that one may not expect

`RacesCancel` is the violated run: docs/architecture.md:351 says that finalization
is cancellation-dominant, and TLC shows an execution in which it is not.  It needs
two processes and a window of one transaction.

The models and the reading behind them have other behaviours worth a
reader's time.  No property claims their absence, and no run is spent on them.

Research runs:

* `recover_incomplete_work` compares the attempt count with a literal 3
  (db/database.py:768).  With `RESEARCH_MAX_ATTEMPTS` = 2 it re-queues a run whose
  second attempt expired, which no poll will claim (`QueuedIsClaimable` with
  `MaxAttempts` = 2); with 4 it fails a run after its third.
* `save_research_report` (db/database.py:1897) checks the claim without locking the
  run: a session that passed before its lease expired commits its report after
  another attempt took over (`ReplacedClaimCannotPublish` of
  `ResearchLedgerRaces` is violated; docs/architecture.md:344-346 says otherwise).
* `mark_attempt_running` that read the run before it ended sets it back to
  RUNNING (`CommitMark` in `ResearchLedgerRaces`).
* A renewal that is committed after `queue_research_run` found the lease over leaves two
  attempts with leases that run; a failure committed late puts a run back in the queue
  whose newer attempt is live; and a run may be left in the queue with a cancellation
  recorded or with its attempts spent (`CommitRenewal`, `CommitFailure`).
* An attempt lost between `create_workspace` and the stage write that links it
  leaves an orphan workspace, and a retry appends its plan's queries again
  (`spaces` and `planned` in `ResearchWorkers`).
* The agent counts a paper as ingested over all iterations, so a run may ingest
  more than `max_ingested_papers` (research/agent.py:137-139); `SelectionIsBounded`
  is about each selection.
* A claim of the report passes validation if any of its numbers is in the cited
  text (research/synthesis.py:274; docs/architecture.md:217 speaks of numeric
  fidelity), one claim that fails it fails the whole run without a retry, and
  "across the selected papers" may be said of two results of one paper
  (synthesis.py:166).
* Two candidates without an arXiv identifier may both survive deduplication under
  one title: a duplicate by arXiv number redirects the index entry of its own title,
  and a later candidate of that title then replaces another paper
  (research/ranking.py:33-45).
* Titles in scripts other than Latin normalize to nothing and are all the same
  title (research/ranking.py).
* The retries of one provider call may take longer than the step's timeout.

Ingestion:

* With two processes (`backend/Dockerfile:27`) a call that fails between
  `save_parsed` and COMPLETED of another call for the same paper takes its sections
  away: `CompletedIsWhole` needs one process.
* A second call for a paper that is completed meanwhile sets it back to
  DOWNLOADING (ingestion/service.py:203, `SaveMetadata`).  When it then fails, the row is
  not COMPLETED, so its handler deletes the file and leaves the paper FAILED
  (service.py:246-247): the completed paper is gone.  `CompletedIsKept` bounds this to
  calls that looked before the paper was completed.
* A cancellation in the `finally` block of `_run_child` leaves a child that has
  answered, hangs and ignores SIGTERM without SIGKILL; `NoSilentChildLeft` is
  about children that have not answered.
* Calls for one paper share its file: one that fails while another is still parsing
  deletes it, and the other completes with a path to nothing
  (ingestion/service.py:247; `CompletedHasFile` is violated with two calls).
* A crash between `save_parsed` and COMPLETED leaves, after the restart, a FAILED
  row with sections and a source path (db/database.py:782; `FailedIsClean` is
  violated; the comment at 2103-2107 says otherwise).
* A DOI is kept in the letter case it was typed in, and with a closing bracket; an
  unknown PMID resolves to a paper titled by its number with confidence 0.92
  (ingestion/resolver.py:264-278); an arXiv URL without an identifier is an error
  rather than a plain URL, because the exception caught at resolver.py:117 is not
  the one raised.
* A heading that follows the references, an appendix for instance, does not end
  them: its paragraphs become references (ingestion/parser.py:317-335).

Derived data and chat:

* A paper with a method and a captioned figure among its first two cannot be
  assembled: `_method_block` uses a name it does not have
  (interactive/assembler.py:339; `Raises` in `InteractiveAssembly`).
* docs/architecture.md:384 says "Unsupported visual claims are dropped".  The Archify
  graph of a block is built before the diagram is validated (interactive/assembler.py:349)
  and keeps what validation drops: with an analysis of an earlier document, whose evidence
  the present one does not have, the diagram loses its nodes and the graph drawn in its
  place keeps them (`UnsupportedIsDropped` of `ReaderRules` is violated on the inputs of
  `Rules`).  The visual analysis of a figure is not validated either
  (interactive/validator.py:76-80).  It was when the figure was read
  (extraction/vlm.py:154), but by the identifiers rebuilt from the document, which are
  not the registered ones where these collided (db/database.py:2146).
* With three replacements a citation of a stored analysis may resolve to the text of
  another document: evidence is prefixed only while it collides
  (db/database.py:2146-2180), so an analysis cites raw figure ids which a later
  document takes over (`NoStaleMapping` of `DerivedData` with `MaxReplaced` = 3;
  docs/architecture.md:63 speaks of "preventing stale mappings").  What is served
  as current is not affected, since its key names the document.
* A GENERATING block survives a crash under its final key and is served as current;
  UNVERIFIED verdicts and FAILED stages are cached and not tried again.
* Two requests with one Idempotency-Key at the same time both answer
  (`OneAnswerPerKey` of `PaperChat`; db/database.py:498).
* Retrieval across papers interleaves the papers and then sorts by score, so a paper
  may get no passage (research/retrieval.py:63-71); a comparison with a paper that
  has no values is still COMPARABLE if two others agree
  (docs/architecture.md:173); a bar chart leaves results without numbers out.

Requests:

* The windows of the rate limiter let up to twice the limit less one pass within 60
  seconds, and it runs before authentication, so its key by user is never used
  (core/hardening.py:258).
* Of two processes that save a provider's settings under one name at the same time, one
  without a secret may write back the secret the other has just replaced; if the name is
  new, one request is answered 409 (api/routes.py:121-136, db/database.py:84).  `Accounts`
  is about one process.
* Saving a provider's settings keeps the last test's status, and a test that was
  running marks the new settings PASSED (api/routes.py:143-157).

## 7. What is not modelled

Event rows and their numbering, wording of prompts, explanations and messages,
database errors in the research modules (every method commits or has no effect; a
poll that meets a lock is a poll that does not happen), audit rows, cookie
attributes, what a provider's probe asks, the desktop supervisor (three threads and a
flag in Rust; its race is listed among the hazards), and every other component
marked `not_modelled` in `PROJECT.json`, each with its reason.
