----------------------------- MODULE Ingestion -----------------------------
(***************************************************************************)
(* How a paper gets into the library: IngestionService (ingest, _ingest    *)
(* and _ingest_pdf_bytes, backend/app/ingestion/service.py) over the rows  *)
(* of SQLDatabase and the files of LocalStorage.                           *)
(*                                                                         *)
(* A task is one call of the service.  Its steps are the transactions and  *)
(* file operations of the call, because another process, or a crash, can   *)
(* come between any two of them.  Within one process the event loop hands  *)
(* over only at an await: while a task is in a Running place, no other     *)
(* task of its process steps.                                              *)
(*                                                                         *)
(* A row keeps what readers tell apart: its status, whether it has         *)
(* sections and whether it points at a stored source file.  The document   *)
(* stands for the normalized document and its evidence, which              *)
(* replace_document writes in one transaction.                             *)
(***************************************************************************)
EXTENDS Integers, FiniteSets

CONSTANTS Papers,         \* paper ids of one owner
          Uploads,        \* those taken in by _ingest_pdf_bytes, not _ingest
          Legacy,         \* completed by an early version, without a document
          Tasks, Procs,   \* calls of the service, and the processes they run in
          ProcOf,
          ApiProcs,       \* the processes that run main.py's startup recovery
          MaxIngestions,  \* settings.max_concurrent_ingestions
          DatabaseFails,  \* may a transaction fail?
          CrashBudget     \* bound: crashes in one behaviour

ASSUME PapersAssumption == Uploads \subseteq Papers /\ Legacy \subseteq Papers \ Uploads
ASSUME TasksAssumption == ProcOf \in [Tasks -> Procs] /\ ApiProcs \subseteq Procs
ASSUME BoundsAssumption == /\ MaxIngestions \in Nat \ {0} /\ CrashBudget \in Nat
                           /\ DatabaseFails \in BOOLEAN

Active == {"PENDING", "FETCHING_METADATA", "DOWNLOADING", "PARSING", "PARSED"}
Statuses == Active \cup {"ABSENT", "COMPLETED", "FAILED"}

Resting == {"idle", "returned", "raised"}
Awaits == {"gate", "metadata", "download", "parse"}
Running == {"lookup", "legacy", "place", "begin", "store", "mark", "document",
            "complete", "readback", "failing", "discard", "fail"}
\* The places whose transaction is outside the call's try block, or is its
\* cleanup: an error there leaves the call at once.
Unguarded == {"lookup", "legacy", "place", "begin", "failing", "fail"}

VARIABLES row,        \* the papers table
          document,   \* which papers have a normalized document
          file,       \* which papers have their source.pdf in storage
          task,       \* where each call stands
          up,         \* the processes that are running
          crashes     \* crashes so far

vars == <<row, document, file, task, up, crashes>>

RowRecord == [status: Statuses, sections: BOOLEAN, source: BOOLEAN]
TaskRecord == [pc: Resting \cup Awaits \cup Running, paper: Papers, saved: BOOLEAN]

IngestionTypeOK ==
  /\ row \in [Papers -> RowRecord]
  /\ document \in [Papers -> BOOLEAN]
  /\ file \in [Papers -> BOOLEAN]
  /\ task \in [Tasks -> TaskRecord]
  /\ up \subseteq Procs
  /\ crashes \in 0 .. CrashBudget

Init ==
  /\ row = [p \in Papers |-> IF p \in Legacy
              THEN [status |-> "COMPLETED", sections |-> TRUE, source |-> TRUE]
              ELSE [status |-> "ABSENT", sections |-> FALSE, source |-> FALSE]]
  /\ document = [p \in Papers |-> FALSE]
  /\ file = [p \in Papers |-> p \in Legacy]
  /\ task \in [Tasks -> {[pc |-> "idle", paper |-> p, saved |-> FALSE] : p \in Papers}]
  /\ up = Procs
  /\ crashes = 0

---------------------------------------------------------------------------
(* The event loop. *)

\* Handing replace_document to a thread would let another task in before the
\* row is completed.
MutantInSection(t) == task[t].pc \in Running \ {"complete"}

InSection(t) == task[t].pc \in Running

CanStep(t) ==
  /\ ProcOf[t] \in up
  /\ \A u \in Tasks \ {t} : ProcOf[u] = ProcOf[t] => ~InSection(u)

\* One step of task t from place pc to place next.
Step(t, pc, next) ==
  /\ task[t].pc = pc
  /\ CanStep(t)
  /\ task' = [task EXCEPT ![t].pc = next]
  /\ UNCHANGED <<up, crashes>>

Untouched == UNCHANGED <<row, document, file>>
OnlyRow == UNCHANGED <<document, file>>
Paper(t) == task[t].paper
IsUpload(t) == Paper(t) \in Uploads
StatusOf(t) == row[Paper(t)].status
SetStatus(t, status) == row' = [row EXCEPT ![Paper(t)].status = status]

---------------------------------------------------------------------------
(* Calls. *)

\* A request, or a retry, reaches the service.
Request(t) ==
  /\ task[t].pc \in Resting
  /\ CanStep(t)
  /\ \E p \in Papers : task' = [task EXCEPT ![t] = [pc |-> "gate", paper |-> p, saved |-> FALSE]]
  /\ Untouched /\ UNCHANGED <<up, crashes>>

\* ingest holds the process's semaphore for the whole of _ingest; an upload
\* passes no gate.
Gated(u) == ~IsUpload(u) /\ task[u].pc \notin Resting \cup {"gate"}

Enter(t) ==
  /\ IsUpload(t) \/ Cardinality({u \in Tasks : Gated(u) /\ ProcOf[u] = ProcOf[t]}) < MaxIngestions
  /\ Step(t, "gate", "lookup")
  /\ Untouched

\* A paper that is already completed is returned as it is.
MutantLookup(t) ==
  /\ Step(t, "lookup", IF StatusOf(t) = "COMPLETED" THEN "returned" ELSE "place")
  /\ Untouched

\* get_by_source_identity finds completed rows only; _ingest gives such a row
\* the document it may lack.
Lookup(t) ==
  /\ Step(t, "lookup",
          IF StatusOf(t) # "COMPLETED" THEN "place"
          ELSE IF IsUpload(t) \/ document[Paper(t)] THEN "returned" ELSE "legacy")
  /\ Untouched

SaveLegacyDocument(t) ==
  /\ Step(t, "legacy", "returned")
  /\ document' = [document EXCEPT ![Paper(t)] = TRUE]
  /\ UNCHANGED <<row, file>>

\* A row that exists is reused, whatever its status.
CreatePlaceholder(t) ==
  /\ Step(t, "place", "begin")
  /\ row' = [row EXCEPT ![Paper(t)].status = IF @ = "ABSENT" THEN "PENDING" ELSE @]
  /\ OnlyRow

\* An upload has its bytes and goes straight to PARSING (save_metadata).
Begin(t) ==
  /\ Step(t, "begin", IF IsUpload(t) THEN "store" ELSE "metadata")
  /\ SetStatus(t, IF IsUpload(t) THEN "PARSING" ELSE "FETCHING_METADATA")
  /\ OnlyRow

SaveMetadata(t) ==
  /\ Step(t, "metadata", "download")
  /\ SetStatus(t, "DOWNLOADING")
  /\ OnlyRow

\* save_pdf: once the download has arrived, or at once for an upload.
Store(t) ==
  /\ task[t].pc = (IF IsUpload(t) THEN "store" ELSE "download")
  /\ CanStep(t)
  /\ task' = [task EXCEPT ![t].pc = IF IsUpload(t) THEN "parse" ELSE "mark", ![t].saved = TRUE]
  /\ file' = [file EXCEPT ![Paper(t)] = TRUE]
  /\ UNCHANGED <<row, document, up, crashes>>

MarkParsing(t) ==
  /\ Step(t, "mark", "parse")
  /\ SetStatus(t, "PARSING")
  /\ OnlyRow

\* save_parsed with its default status.
MutantSaveParsed(t) ==
  /\ Step(t, "parse", "document")
  /\ row' = [row EXCEPT ![Paper(t)] = [status |-> "COMPLETED", sections |-> TRUE, source |-> TRUE]]
  /\ OnlyRow

\* The isolated parser answered with sections: save_parsed stages the row.  The
\* path it writes is the path this call saved, whether or not the file is there.
SaveParsed(t) ==
  /\ Step(t, "parse", "document")
  /\ row' = [row EXCEPT ![Paper(t)] = [status |-> "PARSED", sections |-> TRUE, source |-> TRUE]]
  /\ OnlyRow

ReplaceDocument(t) ==
  /\ Step(t, "document", "complete")
  /\ document' = [document EXCEPT ![Paper(t)] = TRUE]
  /\ UNCHANGED <<row, file>>

Complete(t) ==
  /\ Step(t, "complete", "readback")
  /\ SetStatus(t, "COMPLETED")
  /\ OnlyRow

\* get_by_id; a row that is completed no more is an error.
ReadBack(t) ==
  /\ Step(t, "readback", IF StatusOf(t) = "COMPLETED" THEN "returned" ELSE "failing")
  /\ Untouched

---------------------------------------------------------------------------
(* Failure. *)

\* The client, the parser or the disk fails a call that is in its try block.
Error(t) ==
  /\ task[t].pc \in {"metadata", "download", "parse", "store"}
  /\ Step(t, task[t].pc, "failing")
  /\ Untouched

\* wait_for gives up (research/agent.py), which only research ingestion has
\* around it.  Nothing was written for a call still at the gate.
Cancel(t) ==
  /\ ~IsUpload(t)
  /\ \/ Step(t, "gate", "raised")
     \/ \E pc \in Awaits \ {"gate"} : Step(t, pc, "failing")
  /\ Untouched

\* A transaction fails and is rolled back.
DatabaseError(t) ==
  /\ DatabaseFails
  /\ \/ \E pc \in Unguarded : Step(t, pc, "raised")
     \/ \E pc \in {"metadata", "mark", "parse", "document", "complete", "readback"} :
           Step(t, pc, "failing")
  /\ Untouched

AfterFailure(t) == IF task[t].saved THEN "discard" ELSE "fail"

\* The failed call does not look whether the paper was completed meanwhile.
MutantHandleFailure(t) ==
  /\ Step(t, "failing", AfterFailure(t))
  /\ Untouched

\* _ingest leaves a paper alone that somebody completed; _ingest_pdf_bytes
\* does not look.
HandleFailure(t) ==
  /\ Step(t, "failing",
          IF ~IsUpload(t) /\ StatusOf(t) = "COMPLETED" THEN "raised" ELSE AfterFailure(t))
  /\ Untouched

\* _discard_source; the disk may refuse.
Discard(t) ==
  /\ Step(t, "discard", "fail")
  /\ \E gone \in BOOLEAN : file' = [file EXCEPT ![Paper(t)] = @ /\ ~gone]
  /\ UNCHANGED <<row, document>>

\* update_status("FAILED") takes the sections and the source pointer away.
Fail(t) ==
  /\ Step(t, "fail", "raised")
  /\ row' = [row EXCEPT ![Paper(t)] = [status |-> "FAILED", sections |-> FALSE, source |-> FALSE]]
  /\ OnlyRow

\* A process dies with its calls.
Crash(w) ==
  /\ w \in up /\ crashes < CrashBudget
  /\ up' = up \ {w}
  /\ crashes' = crashes + 1
  /\ task' = [t \in Tasks |-> IF ProcOf[t] = w THEN [task[t] EXCEPT !.pc = "idle", !.saved = FALSE]
                              ELSE task[t]]
  /\ Untouched

\* Staged rows are not counted as unfinished.
MutantRecovered(rec) ==
  IF rec.status \in Active \ {"PARSED"} THEN [rec EXCEPT !.status = "FAILED"] ELSE rec

\* recover_incomplete_work: an unfinished row fails, and keeps what it has.
Recovered(rec) ==
  IF rec.status \in Active THEN [rec EXCEPT !.status = "FAILED"] ELSE rec

Restart(w) ==
  /\ w \in Procs \ up
  /\ up' = up \cup {w}
  /\ row' = IF w \in ApiProcs THEN [p \in Papers |-> Recovered(row[p])] ELSE row
  /\ UNCHANGED <<document, file, task, crashes>>

---------------------------------------------------------------------------
Advance(t) ==
  \/ Enter(t) \/ Lookup(t) \/ SaveLegacyDocument(t) \/ CreatePlaceholder(t) \/ Begin(t)
  \/ SaveMetadata(t) \/ Store(t) \/ MarkParsing(t) \/ SaveParsed(t) \/ ReplaceDocument(t)
  \/ Complete(t) \/ ReadBack(t) \/ Error(t) \/ HandleFailure(t) \/ Discard(t) \/ Fail(t)

Next ==
  \/ \E t \in Tasks : Request(t) \/ Advance(t) \/ Cancel(t) \/ DatabaseError(t)
  \/ \E w \in Procs : Crash(w) \/ Restart(w)

IngestionSpec == Init /\ [][Next]_vars

\* The event loop and the semaphore are first in, first out and every wait of a
\* call has a time limit, so a call always comes to its next step; a process
\* that died is started again by its supervisor.
FairIngestionSpec ==
  /\ IngestionSpec
  /\ \A t \in Tasks : SF_vars(Advance(t))
  /\ \A w \in Procs : WF_vars(Restart(w))

---------------------------------------------------------------------------
(* Properties. *)

\* A completed paper has its document, however calls, processes and crashes
\* interleave: COMPLETED is written only after replace_document committed
\* (service.py, _ingest).  A legacy row has it after its next ingestion.
CompletedHasDocument ==
  \A p \in Papers \ Legacy : row[p].status = "COMPLETED" => document[p]

\* Whoever is given a paper can read its document, a legacy paper's too
\* (ingestion/service.py, the lookup of _ingest).
ReturnedHasDocument ==
  \A t \in Tasks : task[t].pc = "returned" => document[Paper(t)]

\* A completed paper has its sections and its source pointer: no call that fails
\* beside it can take them away between save_parsed and COMPLETED.  That holds in
\* one process, where the three transactions run without an await.
\* docs/security.md:53-54: a PARSED staging row is not visible as completed.
CompletedIsWhole ==
  \A p \in Papers : row[p].status = "COMPLETED" => row[p].sections /\ row[p].source

\* The source a completed paper points at is in storage: the pointer of a row is
\* taken away when its file is (update_status, database.py:2102-2107).
CompletedHasFile ==
  \A p \in Papers : row[p].status = "COMPLETED" /\ row[p].source => file[p]

\* A failed paper shows no half-populated sections and no source pointer
\* (the comment in update_status, database.py:2102-2107).
FailedIsClean ==
  \A p \in Papers : row[p].status = "FAILED" => ~row[p].sections /\ ~row[p].source

\* The call has looked, found the paper not completed, and has not ended.
Working(t, p) == Paper(t) = p /\ task[t].pc \notin Resting \cup {"gate", "lookup", "legacy"}

\* Who can take a completed paper back.  A call that looks after the paper was
\* completed does no work on it (the lookup of _ingest and _ingest_pdf_bytes), so
\* its row and its file stay as they are once the calls that looked before have
\* ended.  Until then such a call can: an upload's in any way; one of _ingest only
\* by going on with its own ingestion, which sets the row to DOWNLOADING, PARSING or
\* PARSED, and not by failing while the row is COMPLETED (get_by_id in its
\* handlers).  What it set back it can then fail, with the file.
CompletedIsKept ==
  [][\A p \in Papers : row[p].status = "COMPLETED" =>
       /\ \/ row'[p] = row[p] /\ (file[p] => file'[p])
          \/ \E t \in Tasks : Working(t, p) /\ (p \in Uploads \/ row'[p].status \in Active)
       /\ \A t \in Tasks : Working(t, p)' => Working(t, p)]_vars

\* Every ingestion ends: no row is left between PENDING and PARSED for ever, not
\* even by a process that dies (docs/operations.md:79).
UnfinishedEnds ==
  \A p \in Papers : (row[p].status \in Active) ~> (row[p].status \in {"COMPLETED", "FAILED"})
===========================================================================
