---------------------------- MODULE PdfIsolation ----------------------------
(***************************************************************************)
(* IsolatedPaperParser (backend/app/ingestion/isolation.py): a call of     *)
(* parse_document waits for a place at the semaphore, starts a child       *)
(* process, looks at it every 20 ms and ends with its answer, its death,   *)
(* the deadline or a cancellation; before it ends it deals with the child. *)
(*                                                                         *)
(* The child runs beside the call: it may answer, exit, die or hang        *)
(* between any two things the call looks at.  A child may ignore SIGTERM   *)
(* (it hangs in native code), but not SIGKILL.                             *)
(***************************************************************************)
EXTENDS Integers, FiniteSets

CONSTANTS Calls,          \* calls of parse_document
          Concurrency,    \* settings.pdf_parse_concurrency
          Cancellations   \* may a call be cancelled?

ASSUME IsolationAssumption == /\ IsFiniteSet(Calls) /\ Concurrency \in Nat \ {0}
                              /\ Cancellations \in BOOLEAN

\* Where a call stands.  Its awaits are gate, sleep, reap, termWait, killWait
\* and lastJoin.
Joins == {"termWait", "killWait"}
Places == {"idle", "gate", "alive", "drain", "poll", "clock", "sleep", "reap", "term",
           "finally", "lastJoin", "done"} \cup Joins

\* Which block of _run_child _terminate was called from.
Blocks == {"try", "except", "finally"}
Outcomes == {"none", "ok", "error", "failed", "timeout", "cancelled"}

VARIABLES call,    \* the calls
          child    \* their child processes

vars == <<call, child>>

CallRecord == [pc: Places, block: Blocks, outcome: Outcomes, late: BOOLEAN, cancelled: BOOLEAN]
ChildRecord == [state: {"none", "parsing", "answered", "exited"},
                signal: {"none", "term", "kill"},
                pipe: {"empty", "ok", "error", "eof"}]

IsolationTypeOK == call \in [Calls -> CallRecord] /\ child \in [Calls -> ChildRecord]

Init ==
  /\ call = [c \in Calls |-> [pc |-> "idle", block |-> "try", outcome |-> "none",
                              late |-> FALSE, cancelled |-> FALSE]]
  /\ child = [c \in Calls |-> [state |-> "none", signal |-> "none", pipe |-> "empty"]]

Alive(c) == child[c].state \in {"parsing", "answered"}
At(c, pc) == call[c].pc = pc
Go(c, pc) == call' = [call EXCEPT ![c].pc = pc]
End(c, pc, outcome) == call' = [call EXCEPT ![c].pc = pc, ![c].outcome = outcome]
ChildKept == UNCHANGED child

\* The calls that hold a place at the semaphore.
\* The place is given back before the child is dealt with.
MutantHolding == {c \in Calls : call[c].pc \notin {"idle", "gate", "done", "finally", "term"} \cup Joins}
Holding == {c \in Calls : call[c].pc \notin {"idle", "gate", "done"}}

---------------------------------------------------------------------------
(* The child. *)

\* _child_parse sends its result, or the code of its error.
Answer(c) ==
  /\ child[c].state = "parsing"
  /\ \E answer \in {"ok", "error"} :
       child' = [child EXCEPT ![c].state = "answered", ![c].pipe = answer]
  /\ UNCHANGED call

\* The child ends by itself or by a signal.  Its end of the pipe closes, unless
\* a sibling that was forked meanwhile still holds a copy.
Exit(c) ==
  /\ Alive(c)
  /\ \E rest \in {"empty", "eof"} :
       child' = [child EXCEPT ![c].state = "exited",
                              ![c].pipe = IF @ = "empty" THEN rest ELSE @]
  /\ UNCHANGED call

---------------------------------------------------------------------------
(* The call. *)

\* The file is gone, too large or not a PDF: rejected before the semaphore.
Request(c) ==
  /\ At(c, "idle")
  /\ Go(c, "gate") \/ End(c, "done", "error")
  /\ ChildKept

\* process.start(), which may fail; then the deadline runs.
Start(c) ==
  /\ At(c, "gate") /\ Cardinality(Holding) < Concurrency
  /\ \/ /\ Go(c, "alive")
        /\ child' = [child EXCEPT ![c].state = "parsing"]
     \/ End(c, "done", "failed") /\ ChildKept

Deadline(c) ==
  /\ c \in Holding /\ ~call[c].late
  /\ call' = [call EXCEPT ![c].late = TRUE]
  /\ ChildKept

\* while process.is_alive() or parent.poll(): is_alive comes first.
IsAlive(c) ==
  /\ At(c, "alive")
  /\ Go(c, IF Alive(c) THEN "poll" ELSE "drain")
  /\ ChildKept

\* while process.is_alive(): the pipe of a child that exited is not looked at.
MutantDrain(c) == At(c, "drain") /\ Go(c, "reap") /\ ChildKept

Drain(c) ==
  /\ At(c, "drain")
  /\ Go(c, IF child[c].pipe # "empty" THEN "poll" ELSE "reap")
  /\ ChildKept

\* if parent.poll(): the answer, or the end of the pipe.  A payload may still be
\* invalid.
Poll(c) ==
  /\ At(c, "poll")
  /\ \/ child[c].pipe = "ok" /\ End(c, "finally", "ok")
     \/ child[c].pipe \in {"ok", "error"} /\ End(c, "finally", "error")
     \/ child[c].pipe = "eof" /\ Go(c, "reap")
     \/ child[c].pipe = "empty" /\ Go(c, "clock")
  /\ ChildKept

\* The loop has no deadline.
MutantClock(c) ==
  /\ At(c, "clock")
  /\ Go(c, "sleep")
  /\ ChildKept

Clock(c) ==
  /\ At(c, "clock")
  /\ Go(c, IF call[c].late THEN "term" ELSE "sleep")
  /\ ChildKept

Wake(c) == At(c, "sleep") /\ Go(c, "alive") /\ ChildKept

\* No result: join, look at the exit code, raise.
Reap(c) == At(c, "reap") /\ End(c, "finally", "failed") /\ ChildKept

---------------------------------------------------------------------------
(* _terminate, called from the try block (deadline), from the except block *)
(* (cancellation) and from the finally block (a child that still runs).    *)

\* Back to the block it was called from.
Return(c) ==
  \/ call[c].block = "try" /\ End(c, "finally", "timeout")
  \/ call[c].block = "except" /\ End(c, "finally", "cancelled")
  \/ call[c].block = "finally" /\ Go(c, "done")

\* SIGTERM, unless the child is gone; either way a join.
Terminate(c) ==
  /\ At(c, "term")
  /\ IF Alive(c)
       THEN /\ child' = [child EXCEPT ![c].signal = IF @ = "kill" THEN @ ELSE "term"]
            /\ Go(c, "termWait")
       ELSE ChildKept /\ Go(c, "killWait")

\* SIGTERM is all a child gets.
MutantKill(c) == At(c, "termWait") /\ Return(c) /\ ChildKept

\* The child had 0.3 s.
Kill(c) ==
  /\ At(c, "termWait")
  /\ IF Alive(c)
       THEN Go(c, "killWait") /\ child' = [child EXCEPT ![c].signal = "kill"]
       ELSE Return(c) /\ ChildKept

Terminated(c) == At(c, "killWait") /\ Return(c) /\ ChildKept

Finally(c) ==
  /\ At(c, "finally")
  /\ IF Alive(c) THEN call' = [call EXCEPT ![c].pc = "term", ![c].block = "finally"]
                 ELSE Go(c, "lastJoin")
  /\ ChildKept

Close(c) == At(c, "lastJoin") /\ Go(c, "done") /\ ChildKept

\* except CancelledError: the child is terminated before the call goes on.
ToExcept(c) ==
  call' = [call EXCEPT ![c].pc = "term", ![c].block = "except", ![c].cancelled = TRUE]

\* One cancellation reaches the call at an await; in the finally block nothing
\* is left to catch it.
Cancel(c) ==
  /\ Cancellations /\ ~call[c].cancelled
  /\ \/ At(c, "sleep") /\ ToExcept(c)
     \/ At(c, "reap") /\ ToExcept(c)
     \/ call[c].pc \in Joins /\ call[c].block = "try" /\ ToExcept(c)
     \/ /\ \/ call[c].pc \in Joins /\ call[c].block = "finally"
           \/ At(c, "lastJoin")
           \/ At(c, "gate")
        /\ call' = [call EXCEPT ![c].pc = "done", ![c].outcome = "cancelled", ![c].cancelled = TRUE]
  /\ ChildKept

---------------------------------------------------------------------------
Advance(c) ==
  \/ Start(c) \/ IsAlive(c) \/ Drain(c) \/ Poll(c) \/ Clock(c) \/ Wake(c) \/ Reap(c)
  \/ Terminate(c) \/ Kill(c) \/ Terminated(c) \/ Finally(c) \/ Close(c)

Next == \E c \in Calls : Request(c) \/ Advance(c) \/ Deadline(c) \/ Cancel(c) \/ Answer(c) \/ Exit(c)

IsolationSpec == Init /\ [][Next]_vars

\* The event loop serves every call, time passes, the semaphore is first in,
\* first out, and a killed child exits.  Nothing makes a child answer or end.
FairIsolationSpec ==
  /\ IsolationSpec
  /\ \A c \in Calls : /\ SF_vars(Advance(c))
                      /\ WF_vars(Deadline(c))
                      /\ WF_vars(child[c].signal = "kill" /\ Exit(c))

---------------------------------------------------------------------------
(* Properties. *)

\* A call that ends without its child's answer leaves no child behind: it has
\* exited or it is killed, even if it ignores SIGTERM and the call is cancelled
\* at any of its awaits (_terminate and the handlers of _run_child).
NoSilentChildLeft ==
  \A c \in Calls : At(c, "done") /\ child[c].state = "parsing" => child[c].signal = "kill"

\* No more children parse at a time than the configured concurrency, those of
\* calls that time out or are cancelled included (docs/security.md:52-53).
BusyChildrenBounded ==
  Cardinality({c \in Calls : child[c].state = "parsing" /\ child[c].signal # "kill"}) <= Concurrency

\* An answer is never taken for a death: a call that reports a failed child had
\* none, or its child never answered (the order of is_alive and poll).
AnswerIsNotLost ==
  \A c \in Calls : call[c].outcome = "failed" => child[c].pipe \notin {"ok", "error"}

\* Every call ends, whatever its child does, and the calls behind it get their turn.
CallEnds == \A c \in Calls : At(c, "gate") ~> At(c, "done")
===========================================================================
