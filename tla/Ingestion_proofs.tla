-------------------------- MODULE Ingestion_proofs --------------------------
(***************************************************************************)
(* Theorems about Ingestion, for any papers, calls and processes and any   *)
(* number of crashes.                                                      *)
(*                                                                         *)
(* A completed paper has its document in every deployment, because a call  *)
(* comes to COMPLETED only over replace_document and no step takes a       *)
(* document away (IInv).  That it is whole, and who can take it back,      *)
(* needs one process: there no call steps between two places of a section  *)
(* of another (SInv).                                                      *)
(***************************************************************************)
EXTENDS Ingestion, TLAPS

\* A call that is past replace_document, or has returned, has its document.
Documented ==
  \A t \in Tasks : task[t].pc \in {"complete", "readback", "returned"} => document[task[t].paper]

IInv == IngestionTypeOK /\ CompletedHasDocument /\ Documented

LEMMA InitIInv == Init => IInv
  <1> SUFFICES ASSUME Init PROVE IInv
    OBVIOUS
  <1>1. IngestionTypeOK
    <2>1. row \in [Papers -> RowRecord]
      BY DEF Init, RowRecord, Statuses, Active
    <2>2. task \in [Tasks -> TaskRecord]
      <3>. \A p \in Papers : [pc |-> "idle", paper |-> p, saved |-> FALSE] \in TaskRecord
        BY DEF TaskRecord, Resting
      <3>. QED
        BY DEF Init
    <2>3. document \in [Papers -> BOOLEAN] /\ file \in [Papers -> BOOLEAN]
      BY DEF Init
    <2>4. up \subseteq Procs /\ crashes \in 0 .. CrashBudget
      BY BoundsAssumption DEF Init
    <2>. QED
      BY <2>1, <2>2, <2>3, <2>4 DEF IngestionTypeOK
  <1>2. CompletedHasDocument
    BY DEF Init, CompletedHasDocument
  <1>3. Documented
    BY DEF Init, Documented
  <1>. QED
    BY <1>1, <1>2, <1>3 DEF IInv

---------------------------------------------------------------------------
(* What one step of a call changes. *)

\* The call moves and keeps its paper; no other call changes.
Moved(t, next) ==
  /\ task' \in [Tasks -> TaskRecord]
  /\ task'[t].pc = next /\ task'[t].paper = task[t].paper
  /\ \A u \in Tasks \ {t} : task'[u] = task[u]

LEMMA StepMoves ==
  ASSUME IngestionTypeOK, NEW t \in Tasks, NEW pc, NEW next \in Resting \cup Awaits \cup Running,
         Step(t, pc, next)
  PROVE  /\ Moved(t, next) /\ task[t].pc = pc /\ CanStep(t)
         /\ up' \subseteq Procs /\ crashes' \in 0 .. CrashBudget
  BY DEF IngestionTypeOK, TaskRecord, Step, Moved

LEMMA PaperType == ASSUME IngestionTypeOK, NEW t \in Tasks PROVE Paper(t) \in Papers
  BY DEF IngestionTypeOK, TaskRecord, Paper

\* A row is replaced, or given another status.
LEMMA RowTypes ==
  ASSUME IngestionTypeOK, NEW p \in Papers
  PROVE  /\ \A rec \in RowRecord : [row EXCEPT ![p] = rec] \in [Papers -> RowRecord]
         /\ \A s \in Statuses : [row EXCEPT ![p].status = s] \in [Papers -> RowRecord]
  BY DEF IngestionTypeOK, RowRecord

\* The tables after a step: typed, no document is gone, and a row is completed
\* only if it was or has its document.
Tables ==
  /\ row' \in [Papers -> RowRecord]
  /\ document' \in [Papers -> BOOLEAN] /\ file' \in [Papers -> BOOLEAN]
  /\ up' \subseteq Procs /\ crashes' \in 0 .. CrashBudget
  /\ \A p \in Papers : document[p] => document'[p]
  /\ \A p \in Papers : row'[p].status = "COMPLETED" => row[p].status = "COMPLETED" \/ document'[p]

LEMMA MoveKeepsIInv ==
  ASSUME IInv, NEW t \in Tasks, NEW next, Moved(t, next), Tables,
         next \in {"complete", "readback", "returned"} => document'[task[t].paper]
  PROVE  IInv'
  <1>1. IngestionTypeOK'
    BY DEF IngestionTypeOK, Tables, Moved
  <1>2. CompletedHasDocument'
    BY DEF IInv, CompletedHasDocument, Tables
  <1>3. Documented'
    <2>. SUFFICES ASSUME NEW u \in Tasks, task'[u].pc \in {"complete", "readback", "returned"}
                  PROVE  document'[task'[u].paper]
      BY DEF Documented
    <2>1. CASE u = t
      BY <2>1 DEF Moved
    <2>2. CASE u # t
      <3>1. task'[u] = task[u] /\ document[task[u].paper]
        BY <2>2 DEF Moved, IInv, Documented
      <3>2. task[u].paper \in Papers
        BY DEF IInv, IngestionTypeOK, TaskRecord
      <3>. QED
        BY <3>1, <3>2 DEF Tables
    <2>. QED
      BY <2>1, <2>2
  <1>. QED
    BY <1>1, <1>2, <1>3 DEF IInv

\* The steps that leave the three tables alone.
LEMMA TablesUntouched ==
  ASSUME IInv, Untouched, up' \subseteq Procs, crashes' \in 0 .. CrashBudget PROVE Tables
  BY DEF IInv, IngestionTypeOK, Tables, Untouched

LEMMA QuietStep ==
  ASSUME IInv, NEW t \in Tasks, NEW pc, NEW next \in Resting \cup Awaits \cup Running,
         Step(t, pc, next), Untouched,
         next \in {"complete", "readback", "returned"} => document[Paper(t)]
  PROVE  IInv'
  <1>1. Moved(t, next) /\ up' \subseteq Procs /\ crashes' \in 0 .. CrashBudget
    BY StepMoves DEF IInv
  <1>2. Tables
    BY <1>1, TablesUntouched
  <1>3. next \in {"complete", "readback", "returned"} => document'[task[t].paper]
    BY DEF Untouched, Paper
  <1>. QED
    BY <1>1, <1>2, <1>3, MoveKeepsIInv

\* The steps that write one status which is not COMPLETED.
LEMMA StatusStep ==
  ASSUME IInv, NEW t \in Tasks, NEW pc, NEW next \in (Awaits \cup Running) \ {"complete", "readback"},
         NEW s \in Statuses, Step(t, pc, next), SetStatus(t, s), OnlyRow,
         s = "COMPLETED" => row[Paper(t)].status = "COMPLETED"
  PROVE  IInv'
  <1>1. Moved(t, next) /\ up' \subseteq Procs /\ crashes' \in 0 .. CrashBudget
    BY StepMoves DEF IInv
  <1>2. Paper(t) \in Papers
    BY PaperType DEF IInv
  <1>3. row' \in [Papers -> RowRecord]
    BY <1>2, RowTypes DEF IInv, SetStatus
  <1>4. \A p \in Papers : row'[p].status = "COMPLETED" => row[p].status = "COMPLETED"
    BY <1>2 DEF IInv, IngestionTypeOK, RowRecord, SetStatus
  <1>5. Tables
    BY <1>1, <1>3, <1>4 DEF IInv, IngestionTypeOK, Tables, OnlyRow
  <1>6. next \notin {"complete", "readback", "returned"}
    BY DEF Awaits, Running
  <1>. QED
    BY <1>1, <1>5, <1>6, MoveKeepsIInv

---------------------------------------------------------------------------
(* Every step keeps IInv. *)

LEMMA PlacesFacts ==
  /\ Awaits \cup Running \subseteq Resting \cup Awaits \cup Running
  /\ {"complete", "readback", "returned"} \cap Awaits = {}
  /\ Active \subseteq Statuses
  BY DEF Awaits, Running, Resting, Active, Statuses

LEMMA RequestKeeps == ASSUME IInv, NEW t \in Tasks, Request(t) PROVE IInv'
  <1>1. PICK p \in Papers : task' = [task EXCEPT ![t] = [pc |-> "gate", paper |-> p, saved |-> FALSE]]
    BY DEF Request
  <1>2. [pc |-> "gate", paper |-> p, saved |-> FALSE] \in TaskRecord
    BY DEF TaskRecord, Awaits
  <1>3. task' \in [Tasks -> TaskRecord]
    BY <1>1, <1>2 DEF IInv, IngestionTypeOK
  <1>4. IngestionTypeOK' /\ CompletedHasDocument'
    BY <1>3 DEF Request, Untouched, IInv, IngestionTypeOK, CompletedHasDocument
  <1>5. \A u \in Tasks : task'[u].pc \in {"complete", "readback", "returned"} => task'[u] = task[u]
    BY <1>1 DEF IInv, IngestionTypeOK
  <1>6. Documented'
    BY <1>5 DEF Documented, Request, Untouched, IInv
  <1>. QED
    BY <1>4, <1>6 DEF IInv

LEMMA LookupKeeps == ASSUME IInv, NEW t \in Tasks, Lookup(t) PROVE IInv'
  <1>. DEFINE next == IF StatusOf(t) # "COMPLETED" THEN "place"
                      ELSE IF IsUpload(t) \/ document[Paper(t)] THEN "returned" ELSE "legacy"
  <1>1. next \in Resting \cup Awaits \cup Running
    BY DEF Resting, Running
  <1>2. Step(t, "lookup", next) /\ Untouched
    BY DEF Lookup
  <1>3. next \in {"complete", "readback", "returned"} => document[Paper(t)]
    <2>1. Paper(t) \in Papers
      BY PaperType DEF IInv
    <2>2. IsUpload(t) => Paper(t) \notin Legacy
      BY PapersAssumption DEF IsUpload
    <2>. QED
      BY <2>1, <2>2 DEF IInv, CompletedHasDocument, StatusOf
  <1>. HIDE DEF next
  <1>. QED
    BY <1>1, <1>2, <1>3, QuietStep

LEMMA ReadBackKeeps == ASSUME IInv, NEW t \in Tasks, ReadBack(t) PROVE IInv'
  <1>. DEFINE next == IF StatusOf(t) = "COMPLETED" THEN "returned" ELSE "failing"
  <1>1. next \in Resting \cup Awaits \cup Running
    BY DEF Resting, Running
  <1>2. Step(t, "readback", next) /\ Untouched
    BY DEF ReadBack
  <1>3. document[Paper(t)]
    BY DEF IInv, Documented, ReadBack, Step, Paper
  <1>. HIDE DEF next
  <1>. QED
    BY <1>1, <1>2, <1>3, QuietStep

LEMMA QuietKeeps ==
  ASSUME IInv, NEW t \in Tasks,
         Enter(t) \/ Error(t) \/ Cancel(t) \/ DatabaseError(t) \/ HandleFailure(t)
  PROVE  IInv'
  <1>. DEFINE Targets == {"lookup", "failing", "raised", "discard", "fail"}
  <1>1. ASSUME NEW pc, NEW next \in Targets, Step(t, pc, next), Untouched PROVE IInv'
    <2>1. next \in Resting \cup Awaits \cup Running /\ next \notin {"complete", "readback", "returned"}
      BY DEF Resting, Running
    <2>. QED
      BY <1>1, <2>1, QuietStep
  <1>2. CASE Enter(t)
    BY <1>1, <1>2 DEF Enter
  <1>3. CASE Error(t)
    BY <1>1, <1>3 DEF Error
  <1>4. CASE Cancel(t)
    BY <1>1, <1>4 DEF Cancel
  <1>5. CASE DatabaseError(t)
    BY <1>1, <1>5 DEF DatabaseError
  <1>6. CASE HandleFailure(t)
    <2>. DEFINE next == IF ~IsUpload(t) /\ StatusOf(t) = "COMPLETED" THEN "raised" ELSE AfterFailure(t)
    <2>1. next \in Targets
      BY DEF AfterFailure
    <2>2. Step(t, "failing", next) /\ Untouched
      BY <1>6 DEF HandleFailure
    <2>. HIDE DEF next
    <2>. QED
      BY <1>1, <2>1, <2>2
  <1>. QED
    BY <1>2, <1>3, <1>4, <1>5, <1>6

LEMMA StatusKeeps ==
  ASSUME IInv, NEW t \in Tasks, CreatePlaceholder(t) \/ Begin(t) \/ SaveMetadata(t) \/ MarkParsing(t)
  PROVE  IInv'
  <1>1. CASE CreatePlaceholder(t)
    <2>. DEFINE s == IF row[Paper(t)].status = "ABSENT" THEN "PENDING" ELSE row[Paper(t)].status
    <2>1. s \in Statuses
      BY PaperType DEF IInv, IngestionTypeOK, RowRecord, Statuses, Active
    <2>2. SetStatus(t, s) /\ OnlyRow /\ Step(t, "place", "begin")
      BY <1>1, PaperType DEF CreatePlaceholder, SetStatus, IInv
    <2>3. "begin" \in (Awaits \cup Running) \ {"complete", "readback"}
      BY DEF Running
    <2>4. s = "COMPLETED" => row[Paper(t)].status = "COMPLETED"
      OBVIOUS
    <2>. HIDE DEF s
    <2>. QED
      BY <2>1, <2>2, <2>3, <2>4, StatusStep
  <1>2. ASSUME NEW pc, NEW next \in {"store", "metadata", "download", "parse"},
               NEW s \in {"PARSING", "FETCHING_METADATA", "DOWNLOADING"},
               Step(t, pc, next), SetStatus(t, s), OnlyRow
        PROVE  IInv'
    <2>1. next \in (Awaits \cup Running) \ {"complete", "readback"} /\ s \in Statuses /\ s # "COMPLETED"
      BY DEF Awaits, Running, Statuses, Active
    <2>. QED
      BY <1>2, <2>1, StatusStep
  <1>3. CASE Begin(t)
    <2>1. CASE IsUpload(t)
      BY <1>2, <1>3, <2>1 DEF Begin
    <2>2. CASE ~IsUpload(t)
      BY <1>2, <1>3, <2>2 DEF Begin
    <2>. QED
      BY <2>1, <2>2
  <1>4. CASE SaveMetadata(t)
    BY <1>2, <1>4 DEF SaveMetadata
  <1>5. CASE MarkParsing(t)
    BY <1>2, <1>5 DEF MarkParsing
  <1>. QED
    BY <1>1, <1>3, <1>4, <1>5

LEMMA StoreKeeps == ASSUME IInv, NEW t \in Tasks, Store(t) PROVE IInv'
  <1>. DEFINE next == IF IsUpload(t) THEN "parse" ELSE "mark"
  <1>1. Moved(t, next)
    <2>1. next \in Resting \cup Awaits \cup Running
      BY DEF Awaits, Running
    <2>2. task' = [task EXCEPT ![t].pc = next, ![t].saved = TRUE]
      BY DEF Store
    <2>. HIDE DEF next
    <2>. QED
      BY <2>1, <2>2 DEF IInv, IngestionTypeOK, TaskRecord, Moved
  <1>2. Tables
    BY DEF Store, IInv, IngestionTypeOK, Tables
  <1>3. next \notin {"complete", "readback", "returned"}
    OBVIOUS
  <1>. QED
    BY <1>1, <1>2, <1>3, MoveKeepsIInv

LEMMA DocumentKeeps ==
  ASSUME IInv, NEW t \in Tasks, SaveLegacyDocument(t) \/ ReplaceDocument(t) PROVE IInv'
  <1>1. PICK next \in {"returned", "complete"} : \E pc : Step(t, pc, next)
    <2>1. CASE SaveLegacyDocument(t)
      BY <2>1 DEF SaveLegacyDocument
    <2>2. CASE ReplaceDocument(t)
      BY <2>2 DEF ReplaceDocument
    <2>. QED
      BY <2>1, <2>2
  <1>2. next \in Resting \cup Awaits \cup Running
    BY DEF Resting, Running
  <1>3. Moved(t, next) /\ up' \subseteq Procs /\ crashes' \in 0 .. CrashBudget
    BY <1>1, <1>2, StepMoves DEF IInv
  <1>4. document' = [document EXCEPT ![Paper(t)] = TRUE] /\ UNCHANGED <<row, file>>
    BY DEF SaveLegacyDocument, ReplaceDocument
  <1>5. Paper(t) \in Papers
    BY PaperType DEF IInv
  <1>6. Tables
    BY <1>3, <1>4, <1>5 DEF IInv, IngestionTypeOK, Tables
  <1>7. document'[task[t].paper]
    BY <1>4, <1>5 DEF IInv, IngestionTypeOK, Paper
  <1>. QED
    BY <1>3, <1>6, <1>7, MoveKeepsIInv

\* save_parsed and update_status("FAILED") write a whole row.
LEMMA RowKeeps == ASSUME IInv, NEW t \in Tasks, SaveParsed(t) \/ Fail(t) PROVE IInv'
  <1>1. ASSUME NEW pc, NEW next \in {"document", "raised"}, NEW rec \in RowRecord,
               Step(t, pc, next), row' = [row EXCEPT ![Paper(t)] = rec], OnlyRow,
               rec.status # "COMPLETED"
        PROVE  IInv'
    <2>1. next \in Resting \cup Awaits \cup Running /\ next \notin {"complete", "readback", "returned"}
      BY DEF Resting, Running
    <2>2. Moved(t, next) /\ up' \subseteq Procs /\ crashes' \in 0 .. CrashBudget
      BY <1>1, <2>1, StepMoves DEF IInv
    <2>3. Paper(t) \in Papers
      BY PaperType DEF IInv
    <2>4. row' \in [Papers -> RowRecord]
      BY <1>1, <2>3, RowTypes DEF IInv
    <2>5. \A p \in Papers : row'[p].status = "COMPLETED" => row[p].status = "COMPLETED"
      BY <1>1, <2>3 DEF IInv, IngestionTypeOK
    <2>6. Tables
      BY <1>1, <2>2, <2>4, <2>5 DEF IInv, IngestionTypeOK, Tables, OnlyRow
    <2>. QED
      BY <2>1, <2>2, <2>6, MoveKeepsIInv
  <1>2. /\ [status |-> "PARSED", sections |-> TRUE, source |-> TRUE] \in RowRecord
        /\ [status |-> "FAILED", sections |-> FALSE, source |-> FALSE] \in RowRecord
    BY DEF RowRecord, Statuses, Active
  <1>3. CASE SaveParsed(t)
    BY <1>1, <1>2, <1>3 DEF SaveParsed
  <1>4. CASE Fail(t)
    BY <1>1, <1>2, <1>4 DEF Fail
  <1>. QED
    BY <1>3, <1>4

\* The one step that completes a paper.
LEMMA CompleteKeeps == ASSUME IInv, NEW t \in Tasks, Complete(t) PROVE IInv'
  <1>1. "readback" \in Resting \cup Awaits \cup Running /\ "COMPLETED" \in Statuses
    BY DEF Running, Statuses
  <1>2. /\ Moved(t, "readback") /\ task[t].pc = "complete"
        /\ up' \subseteq Procs /\ crashes' \in 0 .. CrashBudget
    BY <1>1, StepMoves DEF IInv, Complete
  <1>3. Paper(t) \in Papers /\ document[Paper(t)]
    BY <1>2, PaperType DEF IInv, Documented, Paper
  <1>4. row' = [row EXCEPT ![Paper(t)].status = "COMPLETED"] /\ OnlyRow
    BY DEF Complete, SetStatus
  <1>5. row' \in [Papers -> RowRecord]
    BY <1>1, <1>3, <1>4, RowTypes DEF IInv
  <1>6. \A p \in Papers : p # Paper(t) => row'[p] = row[p]
    BY <1>4 DEF IInv, IngestionTypeOK
  <1>7. Tables
    BY <1>2, <1>3, <1>4, <1>5, <1>6 DEF IInv, IngestionTypeOK, Tables, OnlyRow
  <1>8. document'[task[t].paper]
    BY <1>3, <1>4 DEF OnlyRow, Paper
  <1>. QED
    BY <1>2, <1>7, <1>8, MoveKeepsIInv

LEMMA DiscardKeeps == ASSUME IInv, NEW t \in Tasks, Discard(t) PROVE IInv'
  <1>1. "fail" \in Resting \cup Awaits \cup Running
    BY DEF Running
  <1>2. Moved(t, "fail") /\ up' \subseteq Procs /\ crashes' \in 0 .. CrashBudget
    BY <1>1, StepMoves DEF IInv, Discard
  <1>3. PICK gone \in BOOLEAN : file' = [file EXCEPT ![Paper(t)] = @ /\ ~gone]
    BY DEF Discard
  <1>4. file' \in [Papers -> BOOLEAN]
    BY <1>3 DEF IInv, IngestionTypeOK
  <1>5. Tables
    BY <1>2, <1>4 DEF IInv, IngestionTypeOK, Tables, Discard
  <1>. QED
    BY <1>2, <1>5, MoveKeepsIInv

\* The calls of a process that dies are gone; those of the others stay.
LEMMA CrashKeeps == ASSUME IInv, NEW w \in Procs, Crash(w) PROVE IInv'
  <1>1. task' \in [Tasks -> TaskRecord]
    <2>1. \A t \in Tasks : [task[t] EXCEPT !.pc = "idle", !.saved = FALSE] \in TaskRecord
      BY DEF IInv, IngestionTypeOK, TaskRecord, Resting
    <2>. QED
      BY <2>1 DEF IInv, IngestionTypeOK, Crash
  <1>2. crashes' \in 0 .. CrashBudget /\ up' \subseteq Procs
    <2>1. crashes \in 0 .. CrashBudget /\ crashes < CrashBudget /\ crashes' = crashes + 1
      BY DEF IInv, IngestionTypeOK, Crash
    <2>2. CrashBudget \in Nat
      BY BoundsAssumption
    <2>3. crashes' \in 0 .. CrashBudget
      BY <2>1, <2>2
    <2>4. up' \subseteq Procs
      BY DEF IInv, IngestionTypeOK, Crash
    <2>. QED
      BY <2>3, <2>4
  <1>3. IngestionTypeOK' /\ CompletedHasDocument'
    BY <1>1, <1>2 DEF IInv, IngestionTypeOK, CompletedHasDocument, Crash, Untouched
  <1>4. ASSUME NEW t \in Tasks, task'[t].pc \in {"complete", "readback", "returned"}
        PROVE  task'[t] = task[t]
    <2>1. CASE ProcOf[t] = w
      <3>1. task'[t].pc = "idle"
        BY <2>1 DEF Crash, IInv, IngestionTypeOK, TaskRecord
      <3>. QED
        BY <1>4, <3>1
    <2>2. CASE ProcOf[t] # w
      BY <2>2 DEF Crash
    <2>. QED
      BY <2>1, <2>2
  <1>5. Documented'
    BY <1>4 DEF Documented, IInv, Crash, Untouched
  <1>. QED
    BY <1>3, <1>5 DEF IInv

\* Startup recovery completes nothing.
LEMMA RestartKeeps == ASSUME IInv, NEW w \in Procs, Restart(w) PROVE IInv'
  <1>1. \A p \in Papers : /\ Recovered(row[p]) \in RowRecord
                          /\ Recovered(row[p]).status = "COMPLETED" => row[p].status = "COMPLETED"
    BY DEF IInv, IngestionTypeOK, RowRecord, Statuses, Active, Recovered
  <1>2. \A p \in Papers : row'[p].status = "COMPLETED" => row[p].status = "COMPLETED"
    BY <1>1 DEF Restart
  <1>3. row' \in [Papers -> RowRecord]
    BY <1>1 DEF Restart, IInv, IngestionTypeOK
  <1>4. IngestionTypeOK' /\ CompletedHasDocument'
    BY <1>2, <1>3 DEF Restart, IInv, IngestionTypeOK, CompletedHasDocument
  <1>5. Documented'
    BY DEF Restart, IInv, Documented
  <1>. QED
    BY <1>4, <1>5 DEF IInv

LEMMA NextKeepsIInv == IInv /\ [Next]_vars => IInv'
  <1> SUFFICES ASSUME IInv, [Next]_vars PROVE IInv'
    OBVIOUS
  <1>1. ASSUME NEW t \in Tasks, Request(t) \/ Advance(t) \/ Cancel(t) \/ DatabaseError(t)
        PROVE  IInv'
    BY <1>1, RequestKeeps, LookupKeeps, ReadBackKeeps, QuietKeeps, StatusKeeps, StoreKeeps,
       DocumentKeeps, RowKeeps, CompleteKeeps, DiscardKeeps DEF Advance
  <1>2. ASSUME NEW w \in Procs, Crash(w) \/ Restart(w) PROVE IInv'
    BY <1>2, CrashKeeps, RestartKeeps
  <1>3. CASE UNCHANGED vars
    BY <1>3 DEF vars, IInv, IngestionTypeOK, CompletedHasDocument, Documented
  <1>. QED
    BY <1>1, <1>2, <1>3 DEF Next

LEMMA IngestionInvariant == IngestionSpec => []IInv
  BY InitIInv, NextKeepsIInv, PTL DEF IngestionSpec

\* Every value of the state is of its type.
THEOREM IngestionTypes == IngestionSpec => []IngestionTypeOK
  BY IngestionInvariant, PTL DEF IInv

\* A completed paper has its document, for any processes, calls and crashes:
\* what _ingest's three transactions guarantee although they are not one.
THEOREM CompletedDocuments == IngestionSpec => []CompletedHasDocument
  BY IngestionInvariant, PTL DEF IInv

\* A call that returned a paper returned one with a document.
THEOREM ReturnedDocuments == IngestionSpec => []ReturnedHasDocument
  <1>1. IInv => ReturnedHasDocument
    BY DEF IInv, Documented, ReturnedHasDocument, Paper
  <1>. QED
    BY <1>1, IngestionInvariant, PTL

---------------------------------------------------------------------------
(* One process.  Its calls do not step while another is in a section, so    *)
(* what a section has read or staged is still so at its next place.         *)

OneProcess == \A t, u \in Tasks : ProcOf[t] = ProcOf[u]

Exclusive == \A t, u \in Tasks : InSection(t) /\ InSection(u) => t = u

Staged ==
  \A t \in Tasks : task[t].pc \in {"document", "complete"}
                     => row[Paper(t)].sections /\ row[Paper(t)].source

\* Between HandleFailure and Fail nobody completes the paper.
Spared ==
  \A t \in Tasks : task[t].pc \in {"discard", "fail"} /\ ~IsUpload(t) => StatusOf(t) # "COMPLETED"

SInv == IInv /\ Exclusive /\ Staged /\ Spared /\ CompletedIsWhole

\* A call moves: what its own next place asks for is all there is to show.
LEMMA MoveKeepsSInv ==
  ASSUME OneProcess, SInv, IInv', NEW t \in Tasks, NEW next, Moved(t, next), CanStep(t),
         next \in {"document", "complete"} => row'[Paper(t)].sections /\ row'[Paper(t)].source,
         next \in {"discard", "fail"} /\ ~IsUpload(t) => row'[Paper(t)].status # "COMPLETED",
         CompletedIsWhole'
  PROVE  SInv'
  <1>1. \A u \in Tasks \ {t} : task'[u] = task[u] /\ task[u].pc \notin Running
    BY DEF Moved, CanStep, OneProcess, InSection
  <1>2. task'[t].pc = next /\ Paper(t)' = Paper(t)
    BY DEF Moved, Paper
  <1>3. Exclusive'
    BY <1>1 DEF Exclusive, InSection
  <1>4. ASSUME NEW u \in Tasks, task'[u].pc \in Running PROVE u = t
    BY <1>1, <1>4
  <1>5. Staged'
    <2>. SUFFICES ASSUME NEW u \in Tasks, task'[u].pc \in {"document", "complete"}
                  PROVE  row'[Paper(u)'].sections /\ row'[Paper(u)'].source
      BY DEF Staged
    <2>1. u = t
      BY <1>4 DEF Running
    <2>. QED
      BY <2>1, <1>2
  <1>6. Spared'
    <2>. SUFFICES ASSUME NEW u \in Tasks, task'[u].pc \in {"discard", "fail"}, ~IsUpload(u)'
                  PROVE  row'[Paper(u)'].status # "COMPLETED"
      BY DEF Spared, StatusOf
    <2>1. u = t
      BY <1>4 DEF Running
    <2>2. ~IsUpload(t)
      BY <2>1, <1>2 DEF IsUpload
    <2>. QED
      BY <2>1, <2>2, <1>2
  <1>. QED
    BY <1>3, <1>5, <1>6 DEF SInv

\* The steps that leave the rows alone, or give a row another status that is
\* not COMPLETED, towards a place that asks for nothing.
LEMMA PlainStep ==
  ASSUME OneProcess, SInv, IInv', NEW t \in Tasks, NEW pc,
         NEW next \in (Resting \cup Awaits \cup Running) \ {"document", "complete", "discard", "fail"},
         Step(t, pc, next),
         row' = row \/ \E s \in Statuses \ {"COMPLETED"} : SetStatus(t, s)
  PROVE  SInv'
  <1>1. Moved(t, next) /\ CanStep(t)
    BY StepMoves DEF SInv, IInv
  <1>2. CompletedIsWhole'
    <2>1. CASE row' = row
      BY <2>1 DEF SInv, CompletedIsWhole
    <2>2. ASSUME NEW s \in Statuses \ {"COMPLETED"}, SetStatus(t, s) PROVE CompletedIsWhole'
      BY <2>2 DEF SInv, IInv, IngestionTypeOK, RowRecord, SetStatus, CompletedIsWhole
    <2>. QED
      BY <2>1, <2>2
  <1>. QED
    BY <1>1, <1>2, MoveKeepsSInv

LEMMA PlainKeeps ==
  ASSUME OneProcess, SInv, IInv', NEW t \in Tasks,
         \/ Enter(t) \/ Lookup(t) \/ SaveLegacyDocument(t) \/ Begin(t) \/ SaveMetadata(t)
         \/ MarkParsing(t) \/ ReadBack(t) \/ Error(t) \/ Cancel(t) \/ DatabaseError(t)
  PROVE  SInv'
  <1>. DEFINE Targets == {"lookup", "returned", "legacy", "place", "store", "metadata",
                          "download", "parse", "failing", "raised"}
              Plain == row' = row \/ \E s \in Statuses \ {"COMPLETED"} : SetStatus(t, s)
  <1>1. ASSUME NEW pc, NEW next \in Targets, Step(t, pc, next), Plain PROVE SInv'
    <2>1. next \in (Resting \cup Awaits \cup Running) \ {"document", "complete", "discard", "fail"}
      BY DEF Resting, Awaits, Running
    <2>. QED
      BY <1>1, <2>1, PlainStep
  <1>2. {"PARSING", "FETCHING_METADATA", "DOWNLOADING"} \subseteq Statuses \ {"COMPLETED"}
    BY DEF Statuses, Active
  <1>3. CASE Enter(t) \/ SaveLegacyDocument(t) \/ Error(t) \/ Cancel(t) \/ DatabaseError(t)
    <2>1. row' = row
      BY <1>3 DEF Enter, SaveLegacyDocument, Error, Cancel, DatabaseError, Untouched
    <2>2. CASE Enter(t)
      BY <1>1, <2>1, <2>2 DEF Enter
    <2>3. CASE SaveLegacyDocument(t)
      BY <1>1, <2>1, <2>3 DEF SaveLegacyDocument
    <2>4. CASE Error(t)
      BY <1>1, <2>1, <2>4 DEF Error
    <2>5. CASE Cancel(t)
      BY <1>1, <2>1, <2>5 DEF Cancel
    <2>6. CASE DatabaseError(t)
      BY <1>1, <2>1, <2>6 DEF DatabaseError
    <2>. QED
      BY <1>3, <2>2, <2>3, <2>4, <2>5, <2>6
  <1>4. CASE Lookup(t)
    <2>. DEFINE next == IF StatusOf(t) # "COMPLETED" THEN "place"
                        ELSE IF IsUpload(t) \/ document[Paper(t)] THEN "returned" ELSE "legacy"
    <2>1. next \in Targets
      OBVIOUS
    <2>2. Step(t, "lookup", next) /\ row' = row
      BY <1>4 DEF Lookup, Untouched
    <2>. HIDE DEF next
    <2>. QED
      BY <1>1, <2>1, <2>2
  <1>5. CASE ReadBack(t)
    <2>. DEFINE next == IF StatusOf(t) = "COMPLETED" THEN "returned" ELSE "failing"
    <2>1. next \in Targets
      OBVIOUS
    <2>2. Step(t, "readback", next) /\ row' = row
      BY <1>5 DEF ReadBack, Untouched
    <2>. HIDE DEF next
    <2>. QED
      BY <1>1, <2>1, <2>2
  <1>6. CASE Begin(t) \/ SaveMetadata(t) \/ MarkParsing(t)
    <2>1. Plain
      BY <1>2, <1>6 DEF Begin, SaveMetadata, MarkParsing
    <2>. HIDE DEF Plain
    <2>2. CASE Begin(t)
      <3>1. CASE IsUpload(t)
        BY <1>1, <2>1, <2>2, <3>1 DEF Begin
      <3>2. CASE ~IsUpload(t)
        BY <1>1, <2>1, <2>2, <3>2 DEF Begin
      <3>. QED
        BY <3>1, <3>2
    <2>3. CASE SaveMetadata(t)
      BY <1>1, <2>1, <2>3 DEF SaveMetadata
    <2>4. CASE MarkParsing(t)
      BY <1>1, <2>1, <2>4 DEF MarkParsing
    <2>. QED
      BY <1>6, <2>2, <2>3, <2>4
  <1>. QED
    BY <1>3, <1>4, <1>5, <1>6

\* A placeholder that exists keeps its status, even COMPLETED.
LEMMA PlaceholderKeeps ==
  ASSUME OneProcess, SInv, IInv', NEW t \in Tasks, CreatePlaceholder(t) PROVE SInv'
  <1>1. "begin" \in Resting \cup Awaits \cup Running
    BY DEF Running
  <1>2. Moved(t, "begin") /\ CanStep(t)
    BY <1>1, StepMoves DEF SInv, IInv, CreatePlaceholder
  <1>3. \A p \in Papers : row'[p].status = "COMPLETED" => row'[p] = row[p]
    BY PaperType DEF SInv, IInv, IngestionTypeOK, RowRecord, CreatePlaceholder
  <1>4. CompletedIsWhole'
    BY <1>3 DEF SInv, CompletedIsWhole
  <1>. QED
    BY <1>2, <1>4, MoveKeepsSInv

LEMMA StagedKeeps ==
  ASSUME OneProcess, SInv, IInv', NEW t \in Tasks, SaveParsed(t) \/ ReplaceDocument(t) \/ Complete(t)
  PROVE  SInv'
  <1>. DEFINE Whole(rec) == rec.sections /\ rec.source
  <1>1. {"document", "complete", "readback"} \subseteq Resting \cup Awaits \cup Running
    BY DEF Running
  <1>2. Paper(t) \in Papers
    BY PaperType DEF SInv, IInv
  <1>3. CASE SaveParsed(t)
    <2>1. Moved(t, "document") /\ CanStep(t)
      BY <1>1, <1>3, StepMoves DEF SInv, IInv, SaveParsed
    <2>2. row' = [row EXCEPT ![Paper(t)] = [status |-> "PARSED", sections |-> TRUE, source |-> TRUE]]
      BY <1>3 DEF SaveParsed
    <2>3. Whole(row'[Paper(t)])
      BY <1>2, <2>2 DEF SInv, IInv, IngestionTypeOK
    <2>4. CompletedIsWhole'
      BY <1>2, <2>2 DEF SInv, IInv, IngestionTypeOK, CompletedIsWhole
    <2>. QED
      BY <2>1, <2>3, <2>4, MoveKeepsSInv
  <1>4. CASE ReplaceDocument(t)
    <2>1. Moved(t, "complete") /\ CanStep(t) /\ task[t].pc = "document"
      BY <1>1, <1>4, StepMoves DEF SInv, IInv, ReplaceDocument
    <2>2. row' = row
      BY <1>4 DEF ReplaceDocument
    <2>3. Whole(row'[Paper(t)])
      BY <2>1, <2>2 DEF SInv, Staged
    <2>4. CompletedIsWhole'
      BY <2>2 DEF SInv, CompletedIsWhole
    <2>. QED
      BY <2>1, <2>3, <2>4, MoveKeepsSInv
  <1>5. CASE Complete(t)
    <2>1. Moved(t, "readback") /\ CanStep(t) /\ task[t].pc = "complete"
      BY <1>1, <1>5, StepMoves DEF SInv, IInv, Complete
    <2>2. row' = [row EXCEPT ![Paper(t)].status = "COMPLETED"]
      BY <1>5 DEF Complete, SetStatus
    <2>3. Whole(row[Paper(t)])
      BY <2>1 DEF SInv, Staged
    <2>4. \A p \in Papers : Whole(row'[p]) \/ row'[p] = row[p]
      BY <1>2, <2>2, <2>3 DEF SInv, IInv, IngestionTypeOK, RowRecord
    <2>5. CompletedIsWhole'
      BY <2>4 DEF SInv, CompletedIsWhole
    <2>. QED
      BY <2>1, <2>5, MoveKeepsSInv
  <1>. QED
    BY <1>3, <1>4, <1>5

LEMMA FailureKeeps ==
  ASSUME OneProcess, SInv, IInv', NEW t \in Tasks, HandleFailure(t) \/ Discard(t) \/ Fail(t)
  PROVE  SInv'
  <1>1. Paper(t) \in Papers
    BY PaperType DEF SInv, IInv
  <1>2. CASE HandleFailure(t)
    <2>. DEFINE next == IF ~IsUpload(t) /\ StatusOf(t) = "COMPLETED" THEN "raised" ELSE AfterFailure(t)
    <2>1. next \in {"raised", "discard", "fail"}
      BY DEF AfterFailure
    <2>2. next # "raised" /\ ~IsUpload(t) => row[Paper(t)].status # "COMPLETED"
      BY DEF StatusOf
    <2>3. Step(t, "failing", next) /\ row' = row
      BY <1>2 DEF HandleFailure, Untouched
    <2>. HIDE DEF next
    <2>4. next \in Resting \cup Awaits \cup Running
      BY <2>1 DEF Resting, Running
    <2>5. Moved(t, next) /\ CanStep(t)
      BY <2>3, <2>4, StepMoves DEF SInv, IInv
    <2>6. CompletedIsWhole'
      BY <2>3 DEF SInv, CompletedIsWhole
    <2>7. next \notin {"document", "complete"}
      BY <2>1
    <2>8. next \in {"discard", "fail"} /\ ~IsUpload(t) => row'[Paper(t)].status # "COMPLETED"
      BY <2>2, <2>3
    <2>. QED
      BY <2>5, <2>6, <2>7, <2>8, MoveKeepsSInv
  <1>3. CASE Discard(t)
    <2>1. "fail" \in Resting \cup Awaits \cup Running
      BY DEF Running
    <2>2. Moved(t, "fail") /\ CanStep(t) /\ task[t].pc = "discard"
      BY <1>3, <2>1, StepMoves DEF SInv, IInv, Discard
    <2>3. row' = row
      BY <1>3 DEF Discard
    <2>4. ~IsUpload(t) => row'[Paper(t)].status # "COMPLETED"
      BY <2>2, <2>3 DEF SInv, Spared, StatusOf
    <2>5. CompletedIsWhole'
      BY <2>3 DEF SInv, CompletedIsWhole
    <2>. QED
      BY <2>2, <2>4, <2>5, MoveKeepsSInv
  <1>4. CASE Fail(t)
    <2>1. "raised" \in Resting \cup Awaits \cup Running
      BY DEF Resting
    <2>2. Moved(t, "raised") /\ CanStep(t)
      BY <1>4, <2>1, StepMoves DEF SInv, IInv, Fail
    <2>3. row' = [row EXCEPT ![Paper(t)] = [status |-> "FAILED", sections |-> FALSE, source |-> FALSE]]
      BY <1>4 DEF Fail
    <2>4. CompletedIsWhole'
      BY <2>3 DEF SInv, IInv, IngestionTypeOK, CompletedIsWhole
    <2>. QED
      BY <2>2, <2>4, MoveKeepsSInv
  <1>. QED
    BY <1>2, <1>3, <1>4

LEMMA StoreKeepsSInv ==
  ASSUME OneProcess, SInv, IInv', NEW t \in Tasks, Store(t) PROVE SInv'
  <1>. DEFINE next == IF IsUpload(t) THEN "parse" ELSE "mark"
  <1>1. next \in {"parse", "mark"}
    OBVIOUS
  <1>2. task' = [task EXCEPT ![t].pc = next, ![t].saved = TRUE] /\ CanStep(t) /\ row' = row
    BY DEF Store
  <1>. HIDE DEF next
  <1>3. next \in Resting \cup Awaits \cup Running
    BY <1>1 DEF Awaits, Running
  <1>4. Moved(t, next)
    BY <1>2, <1>3 DEF SInv, IInv, IngestionTypeOK, TaskRecord, Moved
  <1>5. next \notin {"document", "complete", "discard", "fail"}
    BY <1>1
  <1>6. CompletedIsWhole'
    BY <1>2 DEF SInv, CompletedIsWhole
  <1>. QED
    BY <1>2, <1>4, <1>5, <1>6, MoveKeepsSInv

\* What starts, ends or restarts calls leaves every section where it was, or
\* drops it.
LEMMA SectionsKept ==
  ASSUME SInv, IInv',
         \A u \in Tasks : task'[u].pc \in Running => task'[u] = task[u],
         \A p \in Papers : /\ row'[p].sections <=> row[p].sections
                           /\ row'[p].source <=> row[p].source
                           /\ row'[p].status = "COMPLETED" => row[p].status = "COMPLETED"
  PROVE  SInv'
  <1>1. Exclusive'
    BY DEF SInv, Exclusive, InSection
  <1>2. CompletedIsWhole'
    BY DEF SInv, CompletedIsWhole
  <1>3. Staged'
    <2>. SUFFICES ASSUME NEW u \in Tasks, task'[u].pc \in {"document", "complete"}
                  PROVE  row'[task'[u].paper].sections /\ row'[task'[u].paper].source
      BY DEF Staged, Paper
    <2>1. task'[u] = task[u]
      BY DEF Running
    <2>2. task[u].paper \in Papers
      BY DEF SInv, IInv, IngestionTypeOK, TaskRecord
    <2>. QED
      BY <2>1, <2>2 DEF SInv, Staged, Paper
  <1>4. Spared'
    <2>. SUFFICES ASSUME NEW u \in Tasks, task'[u].pc \in {"discard", "fail"}, task'[u].paper \notin Uploads
                  PROVE  row'[task'[u].paper].status # "COMPLETED"
      BY DEF Spared, Paper, IsUpload, StatusOf
    <2>1. task'[u] = task[u]
      BY DEF Running
    <2>2. task[u].paper \in Papers
      BY DEF SInv, IInv, IngestionTypeOK, TaskRecord
    <2>. QED
      BY <2>1, <2>2 DEF SInv, Spared, Paper, IsUpload, StatusOf
  <1>. QED
    BY <1>1, <1>2, <1>3, <1>4 DEF SInv

LEMMA OthersKeep ==
  ASSUME SInv, IInv',
         \/ \E t \in Tasks : Request(t)
         \/ \E w \in Procs : Crash(w) \/ Restart(w)
         \/ UNCHANGED vars
  PROVE  SInv'
  <1>1. ASSUME NEW t \in Tasks, Request(t) PROVE SInv'
    <2>1. PICK p \in Papers : task' = [task EXCEPT ![t] = [pc |-> "gate", paper |-> p, saved |-> FALSE]]
      BY <1>1 DEF Request
    <2>2. \A u \in Tasks : task'[u].pc \in Running => task'[u] = task[u]
      BY <2>1 DEF SInv, IInv, IngestionTypeOK, Running
    <2>3. row' = row
      BY <1>1 DEF Request, Untouched
    <2>. QED
      BY <2>2, <2>3, SectionsKept
  <1>2. ASSUME NEW w \in Procs, Crash(w) PROVE SInv'
    <2>1. ASSUME NEW u \in Tasks, task'[u].pc \in Running PROVE task'[u] = task[u]
      <3>1. CASE ProcOf[u] = w
        <4>1. task'[u].pc = "idle"
          BY <1>2, <3>1 DEF Crash, SInv, IInv, IngestionTypeOK, TaskRecord
        <4>. QED
          BY <2>1, <4>1 DEF Running
      <3>2. CASE ProcOf[u] # w
        BY <1>2, <3>2 DEF Crash
      <3>. QED
        BY <3>1, <3>2
    <2>2. row' = row
      BY <1>2 DEF Crash, Untouched
    <2>. QED
      BY <2>1, <2>2, SectionsKept
  <1>3. ASSUME NEW w \in Procs, Restart(w) PROVE SInv'
    <2>1. task' = task
      BY <1>3 DEF Restart
    <2>2. ASSUME NEW p \in Papers
          PROVE  /\ row'[p].sections <=> row[p].sections
                 /\ row'[p].source <=> row[p].source
                 /\ row'[p].status = "COMPLETED" => row[p].status = "COMPLETED"
      <3>1. row'[p] = row[p] \/ row'[p] = [row[p] EXCEPT !.status = "FAILED"]
        BY <1>3 DEF Restart, Recovered
      <3>. QED
        BY <3>1 DEF SInv, IInv, IngestionTypeOK, RowRecord
    <2>. QED
      BY <2>1, <2>2, SectionsKept
  <1>4. CASE UNCHANGED vars
    BY <1>4, SectionsKept DEF vars
  <1>. QED
    BY <1>1, <1>2, <1>3, <1>4

LEMMA InitSInv == Init => SInv
  <1> SUFFICES ASSUME Init PROVE SInv
    OBVIOUS
  <1>1. IInv
    BY InitIInv
  <1>2. \A t \in Tasks : task[t].pc = "idle"
    BY DEF Init
  <1>3. Exclusive /\ Staged /\ Spared
    BY <1>2 DEF Exclusive, InSection, Running, Staged, Spared
  <1>4. CompletedIsWhole
    BY DEF Init, CompletedIsWhole
  <1>. QED
    BY <1>1, <1>3, <1>4 DEF SInv

LEMMA NextKeepsSInv == ASSUME OneProcess PROVE SInv /\ [Next]_vars => SInv'
  <1> SUFFICES ASSUME SInv, [Next]_vars PROVE SInv'
    OBVIOUS
  <1>1. IInv'
    BY NextKeepsIInv DEF SInv
  <1>2. ASSUME NEW t \in Tasks, Advance(t) \/ Cancel(t) \/ DatabaseError(t) PROVE SInv'
    BY <1>1, <1>2, PlainKeeps, PlaceholderKeeps, StagedKeeps, FailureKeeps, StoreKeepsSInv DEF Advance
  <1>. QED
    BY <1>1, <1>2, OthersKeep DEF Next

\* In one process a completed paper has its sections and its source pointer,
\* whatever fails beside it: no call can come between save_parsed and COMPLETED.
THEOREM CompletedWhole == OneProcess => (IngestionSpec => []CompletedIsWhole)
  <1>. SUFFICES ASSUME OneProcess PROVE IngestionSpec => []CompletedIsWhole
    OBVIOUS
  <1>1. SInv /\ [Next]_vars => SInv'
    BY NextKeepsSInv
  <1>2. SInv => CompletedIsWhole
    BY DEF SInv
  <1>. QED
    BY <1>1, <1>2, InitSInv, PTL DEF IngestionSpec

\* The two halves of CompletedIsKept, for one paper.
Taken(p) ==
  \/ row'[p] = row[p] /\ (file[p] => file'[p])
  \/ \E t \in Tasks : Working(t, p) /\ (p \in Uploads \/ row'[p].status \in Active)
NoneStarts(p) == \A t \in Tasks : Working(t, p)' => Working(t, p)

\* A call that is at work and sets a status short of COMPLETED.
LEMMA WorkTakes ==
  ASSUME SInv, NEW t \in Tasks, task[t].pc \notin Resting \cup {"gate", "lookup", "legacy"},
         OnlyRow, row'[Paper(t)].status \in Active,
         \A q \in Papers : q # Paper(t) => row'[q] = row[q],
         NEW p \in Papers
  PROVE  Taken(p)
  BY DEF Taken, Working, OnlyRow

LEMMA StepTakes ==
  ASSUME SInv, [Next]_vars, NEW p \in Papers, row[p].status = "COMPLETED" PROVE Taken(p)
  <1>0. row \in [Papers -> RowRecord] /\ file \in [Papers -> BOOLEAN]
    BY DEF SInv, IInv, IngestionTypeOK
  <1>1. ASSUME NEW t \in Tasks, Discard(t) \/ Fail(t) PROVE Taken(p)
    <2>1. task[t].pc \in {"discard", "fail"}
      BY <1>1 DEF Discard, Fail, Step
    <2>2. CASE Paper(t) = p
      <3>1. p \in Uploads
        BY <2>1, <2>2 DEF SInv, Spared, IsUpload, StatusOf
      <3>2. Working(t, p)
        BY <2>1, <2>2 DEF Working, Resting
      <3>. QED
        BY <3>1, <3>2 DEF Taken
    <2>3. CASE Paper(t) # p
      BY <1>0, <1>1, <2>3 DEF Discard, Fail, OnlyRow, Taken
    <2>. QED
      BY <2>2, <2>3
  <1>2. ASSUME NEW w \in Procs, Restart(w) PROVE Taken(p)
    BY <1>2 DEF Restart, Recovered, Active, Taken
  <1>3. ASSUME NEW t \in Tasks, CreatePlaceholder(t) PROVE Taken(p)
    <2>1. row'[p] = row[p]
      BY <1>0, <1>3 DEF CreatePlaceholder, RowRecord
    <2>. QED
      BY <1>3, <2>1 DEF CreatePlaceholder, OnlyRow, Taken
  <1>4. ASSUME NEW t \in Tasks, SaveParsed(t) PROVE Taken(p)
    <2>1. task[t].pc = "parse" /\ OnlyRow
      BY <1>4 DEF SaveParsed, Step
    <2>2. row' = [row EXCEPT ![Paper(t)] = [status |-> "PARSED", sections |-> TRUE, source |-> TRUE]]
      BY <1>4 DEF SaveParsed
    <2>3. row'[Paper(t)].status \in Active
      BY <1>0, <2>2, PaperType DEF SInv, IInv, Active
    <2>4. \A q \in Papers : q # Paper(t) => row'[q] = row[q]
      BY <1>0, <2>2
    <2>5. task[t].pc \notin Resting \cup {"gate", "lookup", "legacy"}
      BY <2>1 DEF Resting
    <2>. QED
      BY <2>1, <2>3, <2>4, <2>5, WorkTakes
  <1>5. ASSUME NEW t \in Tasks, Begin(t) \/ SaveMetadata(t) \/ MarkParsing(t) PROVE Taken(p)
    <2>1. task[t].pc \in {"begin", "metadata", "mark"} /\ OnlyRow
      BY <1>5 DEF Begin, SaveMetadata, MarkParsing, Step
    <2>2. PICK s \in Active : SetStatus(t, s)
      BY <1>5 DEF Begin, SaveMetadata, MarkParsing, Active
    <2>3. row'[Paper(t)].status \in Active
      BY <1>0, <2>2, PaperType DEF SInv, IInv, RowRecord, SetStatus
    <2>4. \A q \in Papers : q # Paper(t) => row'[q] = row[q]
      BY <1>0, <2>2 DEF SetStatus
    <2>5. task[t].pc \notin Resting \cup {"gate", "lookup", "legacy"}
      BY <2>1 DEF Resting
    <2>. QED
      BY <2>1, <2>3, <2>4, <2>5, WorkTakes
  <1>6. ASSUME NEW t \in Tasks, Complete(t) PROVE Taken(p)
    <2>1. row'[p] = row[p]
      BY <1>0, <1>6 DEF Complete, SetStatus, RowRecord
    <2>. QED
      BY <1>6, <2>1 DEF Complete, OnlyRow, Taken
  <1>7. ASSUME NEW t \in Tasks, Store(t) PROVE Taken(p)
    BY <1>0, <1>7 DEF Store, Taken
  <1>8. ASSUME NEW t \in Tasks,
               \/ Request(t) \/ Enter(t) \/ Lookup(t) \/ SaveLegacyDocument(t) \/ ReplaceDocument(t)
               \/ ReadBack(t) \/ Error(t) \/ HandleFailure(t) \/ Cancel(t) \/ DatabaseError(t)
        PROVE  Taken(p)
    <2>1. row' = row /\ file' = file
      BY <1>8 DEF Request, Enter, Lookup, SaveLegacyDocument, ReplaceDocument, ReadBack, Error,
                  HandleFailure, Cancel, DatabaseError, Untouched
    <2>. QED
      BY <2>1 DEF Taken
  <1>9. CASE (\E w \in Procs : Crash(w)) \/ UNCHANGED vars
    BY <1>9 DEF Crash, Untouched, vars, Taken
  <1>. QED
    BY <1>1, <1>2, <1>3, <1>4, <1>5, <1>6, <1>7, <1>8, <1>9 DEF Next, Advance

\* A call that moves to a place where it works was at work already, unless it
\* looked; and who looks at a completed paper does not go to work.
LEMMA MovesStart ==
  ASSUME IInv, NEW t \in Tasks, NEW pc, NEW next \in Resting \cup Awaits \cup Running,
         Step(t, pc, next),
         pc \notin Resting \cup {"gate", "lookup", "legacy"} \/
           next \in Resting \cup {"gate", "lookup", "legacy"},
         NEW p \in Papers
  PROVE  NoneStarts(p)
  <1>1. Moved(t, next) /\ task[t].pc = pc
    BY StepMoves DEF IInv
  <1>. QED
    BY <1>1 DEF NoneStarts, Working, Moved, Paper

LEMMA StepStarts ==
  ASSUME IInv, [Next]_vars, NEW p \in Papers, row[p].status = "COMPLETED" PROVE NoneStarts(p)
  <1>. DEFINE Idle == Resting \cup {"gate", "lookup", "legacy"}
              Places == Resting \cup Awaits \cup Running
  <1>0. task \in [Tasks -> TaskRecord]
    BY DEF IInv, IngestionTypeOK
  <1>1. ASSUME NEW t \in Tasks, Request(t) PROVE NoneStarts(p)
    <2>1. task'[t].pc = "gate" /\ \A u \in Tasks \ {t} : task'[u] = task[u]
      BY <1>0, <1>1 DEF Request
    <2>. QED
      BY <2>1 DEF NoneStarts, Working, Paper
  <1>2. ASSUME NEW t \in Tasks, Enter(t) PROVE NoneStarts(p)
    <2>1. "lookup" \in Places /\ "lookup" \in Idle
      BY DEF Running
    <2>. QED
      BY <1>2, <2>1, MovesStart DEF Enter
  <1>3. ASSUME NEW t \in Tasks, Lookup(t) PROVE NoneStarts(p)
    <2>. DEFINE next == IF StatusOf(t) # "COMPLETED" THEN "place"
                        ELSE IF IsUpload(t) \/ document[Paper(t)] THEN "returned" ELSE "legacy"
    <2>1. Step(t, "lookup", next) /\ next \in Places
      BY <1>3 DEF Lookup, Resting, Running
    <2>2. CASE Paper(t) = p
      <3>1. next \in Idle
        BY <2>2 DEF StatusOf, Resting
      <3>. HIDE DEF next
      <3>. QED
        BY <2>1, <3>1, MovesStart
    <2>3. CASE Paper(t) # p
      <3>. HIDE DEF next
      <3>1. Moved(t, next)
        BY <2>1, StepMoves DEF IInv
      <3>. QED
        BY <2>3, <3>1 DEF NoneStarts, Working, Moved, Paper
    <2>. QED
      BY <2>2, <2>3
  <1>4. ASSUME NEW t \in Tasks, NEW next \in Places, NEW pc \in Places \ Idle, Step(t, pc, next)
        PROVE  NoneStarts(p)
    BY <1>4, MovesStart
  <1>5. ASSUME NEW t \in Tasks, NEW pc \in Places, Step(t, pc, "raised") PROVE NoneStarts(p)
    BY <1>5, MovesStart DEF Resting
  <1>6. ASSUME NEW t \in Tasks, SaveLegacyDocument(t) PROVE NoneStarts(p)
    BY <1>6, MovesStart DEF SaveLegacyDocument, Resting
  <1>7. ASSUME NEW t \in Tasks,
               \/ CreatePlaceholder(t) \/ Begin(t) \/ SaveMetadata(t) \/ MarkParsing(t)
               \/ SaveParsed(t) \/ ReplaceDocument(t) \/ Complete(t) \/ ReadBack(t) \/ Error(t)
               \/ HandleFailure(t) \/ Discard(t) \/ Fail(t)
        PROVE  NoneStarts(p)
    <2>1. PICK pc \in Places \ Idle, next \in Places : Step(t, pc, next)
      <3>1. {"place", "begin", "metadata", "mark", "parse", "document", "complete", "readback",
             "failing", "discard", "fail", "store", "download"} \subseteq Places \ Idle
        BY DEF Resting, Awaits, Running
      <3>2. {"returned", "raised"} \subseteq Places
        BY DEF Resting
      <3>. HIDE DEF Places, Idle
      <3>3. CASE CreatePlaceholder(t) \/ SaveMetadata(t) \/ MarkParsing(t)
        BY <3>1, <3>2, <3>3 DEF CreatePlaceholder, SaveMetadata, MarkParsing
      <3>4. CASE Begin(t)
        BY <3>1, <3>2, <3>4 DEF Begin
      <3>5. CASE SaveParsed(t) \/ ReplaceDocument(t) \/ Complete(t)
        BY <3>1, <3>2, <3>5 DEF SaveParsed, ReplaceDocument, Complete
      <3>6. CASE ReadBack(t)
        BY <3>1, <3>2, <3>6 DEF ReadBack
      <3>7. CASE Error(t)
        BY <3>1, <3>2, <3>7 DEF Error
      <3>8. CASE HandleFailure(t)
        BY <3>1, <3>2, <3>8 DEF HandleFailure, AfterFailure
      <3>9. CASE Discard(t) \/ Fail(t)
        BY <3>1, <3>2, <3>9 DEF Discard, Fail
      <3>. QED
        BY <1>7, <3>3, <3>4, <3>5, <3>6, <3>7, <3>8, <3>9
    <2>. HIDE DEF Places, Idle
    <2>. QED
      BY <1>4, <2>1
  <1>8. ASSUME NEW t \in Tasks, Store(t) PROVE NoneStarts(p)
    <2>1. /\ task'[t].paper = task[t].paper /\ \A u \in Tasks \ {t} : task'[u] = task[u]
          /\ task[t].pc \in {"store", "download"}
      BY <1>0, <1>8 DEF Store, TaskRecord
    <2>. QED
      BY <2>1 DEF NoneStarts, Working, Paper, Resting
  <1>9. ASSUME NEW t \in Tasks, Cancel(t) \/ DatabaseError(t) PROVE NoneStarts(p)
    <2>1. Unguarded \subseteq Places /\ "gate" \in Places /\ "failing" \in Places
      BY DEF Unguarded, Awaits, Running
    <2>2. (Awaits \ {"gate"}) \cup {"mark", "document", "complete", "readback"} \subseteq Places \ Idle
      BY DEF Resting, Awaits, Running
    <2>3. {"metadata", "parse"} \subseteq Places \ Idle
      BY DEF Resting, Awaits
    <2>. HIDE DEF Places, Idle
    <2>4. CASE Cancel(t)
      <3>1. CASE Step(t, "gate", "raised")
        BY <1>5, <2>1, <3>1
      <3>2. ASSUME NEW pc \in Awaits \ {"gate"}, Step(t, pc, "failing") PROVE NoneStarts(p)
        BY <1>4, <2>1, <2>2, <3>2
      <3>. QED
        BY <2>4, <3>1, <3>2 DEF Cancel
    <2>5. CASE DatabaseError(t)
      <3>1. ASSUME NEW pc \in Unguarded, Step(t, pc, "raised") PROVE NoneStarts(p)
        BY <1>5, <2>1, <3>1
      <3>2. ASSUME NEW pc \in {"metadata", "mark", "parse", "document", "complete", "readback"},
                   Step(t, pc, "failing")
            PROVE  NoneStarts(p)
        BY <1>4, <2>1, <2>2, <2>3, <3>2
      <3>. QED
        BY <2>5, <3>1, <3>2 DEF DatabaseError
    <2>. QED
      BY <1>9, <2>4, <2>5
  <1>10. ASSUME NEW w \in Procs, Crash(w) PROVE NoneStarts(p)
    <2>1. ASSUME NEW u \in Tasks PROVE task'[u] = task[u] \/ task'[u].pc = "idle"
      <3>1. CASE ProcOf[u] = w
        BY <1>0, <1>10, <3>1 DEF Crash, TaskRecord
      <3>2. CASE ProcOf[u] # w
        BY <1>10, <3>2 DEF Crash
      <3>. QED
        BY <3>1, <3>2
    <2>. QED
      BY <2>1 DEF NoneStarts, Working, Paper, Resting
  <1>11. CASE (\E w \in Procs : Restart(w)) \/ UNCHANGED vars
    BY <1>11 DEF Restart, vars, NoneStarts, Working, Paper
  <1>. QED
    BY <1>1, <1>2, <1>3, <1>6, <1>7, <1>8, <1>9, <1>10, <1>11 DEF Next, Advance

\* In one process a completed paper is taken back only by a call that looked before
\* it was completed, and by an arXiv call only in going on with its own ingestion.
THEOREM CompletedKept == OneProcess => (IngestionSpec => CompletedIsKept)
  <1>. SUFFICES ASSUME OneProcess PROVE IngestionSpec => CompletedIsKept
    OBVIOUS
  <1>1. SInv /\ [Next]_vars => SInv'
    BY NextKeepsSInv
  <1>2. SInv /\ [Next]_vars =>
          \A p \in Papers : row[p].status = "COMPLETED" => Taken(p) /\ NoneStarts(p)
    BY StepTakes, StepStarts DEF SInv
  <1>3. SInv /\ [Next]_vars =>
          [\A p \in Papers : row[p].status = "COMPLETED" =>
             /\ \/ row'[p] = row[p] /\ (file[p] => file'[p])
                \/ \E t \in Tasks : Working(t, p) /\ (p \in Uploads \/ row'[p].status \in Active)
             /\ \A t \in Tasks : Working(t, p)' => Working(t, p)]_vars
    BY <1>2 DEF Taken, NoneStarts
  <1>. QED
    BY <1>1, <1>3, InitSInv, PTL DEF IngestionSpec, CompletedIsKept
===========================================================================
