------------------------ MODULE PdfIsolation_proofs ------------------------
(***************************************************************************)
(* Theorems about PdfIsolation, for any number of calls and places.  A     *)
(* call and its child never look at another call, except at the semaphore, *)
(* so the invariant is one predicate of each pair.                         *)
(***************************************************************************)
EXTENDS PdfIsolation, FiniteSetTheorems, TLAPS

\* No child parses on unkilled.
Tamed(d) == d.state = "parsing" => d.signal = "kill"

CallInv(k, d) ==
  \* Before it starts there is no child and no outcome.
  /\ k.pc \in {"idle", "gate"} => d.state = "none" /\ k.outcome = "none"
  /\ k.pc \notin {"idle", "gate", "done"} => d.state # "none"
  \* _terminate is not called before the loop ends.
  /\ k.pc \notin {"term", "finally", "lastJoin", "done"} \cup Joins => k.block = "try"
  \* What the pipe says of the child.
  /\ d.pipe \in {"ok", "error"} => d.state \in {"answered", "exited"}
  /\ d.pipe = "eof" => d.state = "exited"
  \* A call that saw no answer before the child's end will see none.
  /\ k.pc \in {"drain", "reap"} => d.state = "exited"
  /\ k.pc = "reap" => d.pipe \notin {"ok", "error"}
  /\ k.outcome = "failed" => d.state \in {"none", "exited"} /\ d.pipe \notin {"ok", "error"}
  \* From the finally block on, and after SIGKILL.
  /\ k.pc \in {"finally", "lastJoin", "done", "killWait"} => Tamed(d)
  /\ k.pc \in {"term", "termWait"} /\ k.block = "finally" => Tamed(d)

IInv == IsolationTypeOK /\ \A c \in Calls : CallInv(call[c], child[c])

LEMMA InitIInv == Init => IInv
  BY DEF Init, IInv, IsolationTypeOK, CallRecord, ChildRecord, Places, Blocks, Outcomes,
         CallInv, Joins, Tamed

\* What IInv says of one call and its child.
LEMMA Here ==
  ASSUME IInv, NEW c \in Calls
  PROVE  call[c] \in CallRecord /\ child[c] \in ChildRecord /\ CallInv(call[c], child[c])
  BY DEF IInv, IsolationTypeOK

\* A step of one call changes that call and its child only.
LEMMA LocalStep ==
  ASSUME IInv, NEW c \in Calls, NEW k \in CallRecord, NEW d \in ChildRecord,
         call' = [call EXCEPT ![c] = k], child' = [child EXCEPT ![c] = d], CallInv(k, d)
  PROVE  IInv'
  <1>1. IsolationTypeOK'
    BY DEF IInv, IsolationTypeOK
  <1>2. ASSUME NEW e \in Calls PROVE CallInv(call'[e], child'[e])
    <2>1. CASE e = c
      <3>1. call'[e] = k /\ child'[e] = d
        BY <2>1 DEF IInv, IsolationTypeOK
      <3>. QED
        BY <3>1
    <2>2. CASE e # c
      <3>1. call'[e] = call[e] /\ child'[e] = child[e]
        BY <2>2 DEF IInv, IsolationTypeOK
      <3>. QED
        BY <3>1 DEF IInv
    <2>. QED
      BY <2>1, <2>2
  <1>. QED
    BY <1>1, <1>2 DEF IInv

\* A step that leaves the child alone.
LEMMA CallStep ==
  ASSUME IInv, NEW c \in Calls, NEW k \in CallRecord,
         call' = [call EXCEPT ![c] = k], ChildKept, CallInv(k, child[c])
  PROVE  IInv'
  <1>1. child' = [child EXCEPT ![c] = child[c]]
    BY DEF ChildKept, IInv, IsolationTypeOK
  <1>. QED
    BY <1>1, Here, LocalStep

\* The two ways a call goes on beside an unchanged child: to a place, and to a
\* place with an outcome.
LEMMA Goes ==
  ASSUME IInv, NEW c \in Calls, NEW pc \in Places, Go(c, pc), ChildKept,
         CallInv([call[c] EXCEPT !.pc = pc], child[c])
  PROVE  IInv'
  <1>. DEFINE k == [call[c] EXCEPT !.pc = pc]
  <1>1. call' = [call EXCEPT ![c] = k]
    BY DEF Go
  <1>2. k \in CallRecord
    BY Here DEF CallRecord
  <1>3. CallInv(k, child[c])
    OBVIOUS
  <1>. HIDE DEF k
  <1>. QED
    BY <1>1, <1>2, <1>3, CallStep

LEMMA Ends ==
  ASSUME IInv, NEW c \in Calls, NEW pc \in Places, NEW o \in Outcomes, End(c, pc, o), ChildKept,
         CallInv([call[c] EXCEPT !.pc = pc, !.outcome = o], child[c])
  PROVE  IInv'
  <1>. DEFINE k == [call[c] EXCEPT !.pc = pc, !.outcome = o]
  <1>1. call' = [call EXCEPT ![c] = k]
    BY DEF End
  <1>2. k \in CallRecord
    BY Here DEF CallRecord
  <1>3. CallInv(k, child[c])
    OBVIOUS
  <1>. HIDE DEF k
  <1>. QED
    BY <1>1, <1>2, <1>3, CallStep

---------------------------------------------------------------------------
(* The child. *)

LEMMA AnswerStep == ASSUME IInv, NEW c \in Calls, Answer(c) PROVE IInv'
  <1>1. PICK answer \in {"ok", "error"} :
          child' = [child EXCEPT ![c].state = "answered", ![c].pipe = answer]
    BY DEF Answer
  <1>. DEFINE d == [child[c] EXCEPT !.state = "answered", !.pipe = answer]
  <1>2. call' = [call EXCEPT ![c] = call[c]] /\ child' = [child EXCEPT ![c] = d]
    BY <1>1 DEF Answer, IInv, IsolationTypeOK
  <1>3. d \in ChildRecord
    BY Here DEF ChildRecord
  <1>4. CallInv(call[c], d)
    BY Here DEF Answer, CallInv, Joins, Tamed, ChildRecord
  <1>. HIDE DEF d
  <1>. QED
    BY <1>2, <1>3, <1>4, Here, LocalStep

LEMMA ExitStep == ASSUME IInv, NEW c \in Calls, Exit(c) PROVE IInv'
  <1>1. PICK rest \in {"empty", "eof"} :
          child' = [child EXCEPT ![c].state = "exited",
                                 ![c].pipe = IF @ = "empty" THEN rest ELSE @]
    BY DEF Exit
  <1>. DEFINE pipe == IF child[c].pipe = "empty" THEN rest ELSE child[c].pipe
              d == [child[c] EXCEPT !.state = "exited", !.pipe = pipe]
  <1>2. call' = [call EXCEPT ![c] = call[c]] /\ child' = [child EXCEPT ![c] = d]
    BY <1>1 DEF Exit, IInv, IsolationTypeOK
  <1>3. d \in ChildRecord
    <2>1. pipe \in {"empty", "ok", "error", "eof"}
      BY Here DEF ChildRecord
    <2>. HIDE DEF pipe
    <2>. QED
      BY <2>1, Here DEF ChildRecord
  <1>4. CallInv(call[c], d)
    BY Here DEF Exit, Alive, CallInv, Joins, Tamed, ChildRecord
  <1>. HIDE DEF d
  <1>. QED
    BY <1>2, <1>3, <1>4, Here, LocalStep

---------------------------------------------------------------------------
(* The call. *)

LEMMA RequestStep == ASSUME IInv, NEW c \in Calls, Request(c) PROVE IInv'
  <1>1. CASE Go(c, "gate")
    BY <1>1, Here, Goes DEF Request, At, CallInv, Joins, Tamed, CallRecord, Places
  <1>2. CASE End(c, "done", "error")
    BY <1>2, Here, Ends DEF Request, At, CallInv, Joins, Tamed, CallRecord, Places, Outcomes
  <1>. QED
    BY <1>1, <1>2 DEF Request

LEMMA StartStep == ASSUME IInv, NEW c \in Calls, Start(c) PROVE IInv'
  <1>1. CASE Go(c, "alive") /\ child' = [child EXCEPT ![c].state = "parsing"]
    <2>. DEFINE k == [call[c] EXCEPT !.pc = "alive"]
                d == [child[c] EXCEPT !.state = "parsing"]
    <2>1. call' = [call EXCEPT ![c] = k] /\ child' = [child EXCEPT ![c] = d]
      BY <1>1 DEF Go
    <2>2. k \in CallRecord /\ d \in ChildRecord
      BY Here DEF CallRecord, ChildRecord, Places
    <2>3. CallInv(k, d)
      BY Here DEF Start, At, CallInv, Joins, Tamed, CallRecord, ChildRecord
    <2>. HIDE DEF k, d
    <2>. QED
      BY <2>1, <2>2, <2>3, LocalStep, ZenonT(60)
  <1>2. CASE End(c, "done", "failed") /\ ChildKept
    BY <1>2, Here, Ends DEF Start, At, CallInv, Joins, Tamed, CallRecord, Places, Outcomes
  <1>. QED
    BY <1>1, <1>2 DEF Start

LEMMA DeadlineStep == ASSUME IInv, NEW c \in Calls, Deadline(c) PROVE IInv'
  <1>. DEFINE k == [call[c] EXCEPT !.late = TRUE]
  <1>1. call' = [call EXCEPT ![c] = k] /\ ChildKept
    BY DEF Deadline
  <1>2. k \in CallRecord
    BY Here DEF CallRecord
  <1>3. CallInv(k, child[c])
    BY Here DEF CallInv, Joins, CallRecord
  <1>. HIDE DEF k
  <1>. QED
    BY <1>1, <1>2, <1>3, CallStep

LEMMA IsAliveStep == ASSUME IInv, NEW c \in Calls, IsAlive(c) PROVE IInv'
  <1>1. CASE Alive(c)
    BY <1>1, Here, Goes DEF IsAlive, At, CallInv, Joins, Tamed, CallRecord, Places
  <1>2. CASE ~Alive(c)
    <2>1. child[c].state = "exited"
      BY <1>2, Here DEF IsAlive, At, Alive, CallInv, ChildRecord
    <2>. QED
      BY <1>2, <2>1, Here, Goes DEF IsAlive, At, CallInv, Joins, Tamed, CallRecord, Places
  <1>. QED
    BY <1>1, <1>2

LEMMA DrainStep == ASSUME IInv, NEW c \in Calls, Drain(c) PROVE IInv'
  <1>1. CASE child[c].pipe = "empty"
    BY <1>1, Here, Goes DEF Drain, At, CallInv, Joins, Tamed, CallRecord, Places
  <1>2. CASE child[c].pipe # "empty"
    BY <1>2, Here, Goes DEF Drain, At, CallInv, Joins, Tamed, CallRecord, Places
  <1>. QED
    BY <1>1, <1>2

LEMMA PollStep == ASSUME IInv, NEW c \in Calls, Poll(c) PROVE IInv'
  <1>1. ASSUME NEW o \in {"ok", "error"}, child[c].pipe \in {"ok", "error"}, End(c, "finally", o)
        PROVE  IInv'
    BY <1>1, Here, Ends DEF Poll, At, CallInv, Joins, Tamed, CallRecord, Places, Outcomes
  <1>2. CASE child[c].pipe = "eof" /\ Go(c, "reap")
    BY <1>2, Here, Goes DEF Poll, At, CallInv, Joins, Tamed, CallRecord, Places
  <1>3. CASE child[c].pipe = "empty" /\ Go(c, "clock")
    BY <1>3, Here, Goes DEF Poll, At, CallInv, Joins, Tamed, CallRecord, Places
  <1>. QED
    BY <1>1, <1>2, <1>3 DEF Poll

LEMMA ClockStep == ASSUME IInv, NEW c \in Calls, Clock(c) PROVE IInv'
  <1>1. CASE call[c].late
    BY <1>1, Here, Goes DEF Clock, At, CallInv, Joins, Tamed, CallRecord, Places
  <1>2. CASE ~call[c].late
    BY <1>2, Here, Goes DEF Clock, At, CallInv, Joins, Tamed, CallRecord, Places
  <1>. QED
    BY <1>1, <1>2

LEMMA WakeStep == ASSUME IInv, NEW c \in Calls, Wake(c) PROVE IInv'
  BY Here, Goes DEF Wake, At, CallInv, Joins, Tamed, CallRecord, Places

LEMMA ReapStep == ASSUME IInv, NEW c \in Calls, Reap(c) PROVE IInv'
  BY Here, Ends DEF Reap, At, CallInv, Joins, Tamed, CallRecord, Places, Outcomes

---------------------------------------------------------------------------
(* _terminate and the finally block. *)

\* A call may go back to any block once its child is tamed.
LEMMA ReturnStep ==
  ASSUME IInv, NEW c \in Calls, call[c].pc \in Joins, Return(c), ChildKept, Tamed(child[c])
  PROVE  IInv'
  <1>1. ASSUME NEW o \in {"timeout", "cancelled"}, End(c, "finally", o) PROVE IInv'
    BY <1>1, Here, Ends DEF CallInv, Joins, CallRecord, Places, Outcomes
  <1>2. CASE Go(c, "done")
    BY <1>2, Here, Goes DEF CallInv, Joins, CallRecord, Places
  <1>. QED
    BY <1>1, <1>2 DEF Return

\* A signal is sent to the child and the call waits for it.
LEMMA Signals ==
  ASSUME IInv, NEW c \in Calls, NEW pc \in Places, NEW s \in {"term", "kill"},
         Go(c, pc), child' = [child EXCEPT ![c].signal = s],
         CallInv([call[c] EXCEPT !.pc = pc], [child[c] EXCEPT !.signal = s])
  PROVE  IInv'
  <1>. DEFINE k == [call[c] EXCEPT !.pc = pc]
              d == [child[c] EXCEPT !.signal = s]
  <1>1. call' = [call EXCEPT ![c] = k] /\ child' = [child EXCEPT ![c] = d]
    BY DEF Go
  <1>2. k \in CallRecord /\ d \in ChildRecord
    BY Here DEF CallRecord, ChildRecord
  <1>3. CallInv(k, d)
    OBVIOUS
  <1>. HIDE DEF k, d
  <1>. QED
    BY <1>1, <1>2, <1>3, LocalStep

LEMMA TerminateStep == ASSUME IInv, NEW c \in Calls, Terminate(c) PROVE IInv'
  <1>1. CASE Alive(c)
    <2>. DEFINE s == IF child[c].signal = "kill" THEN child[c].signal ELSE "term"
    <2>1. s \in {"term", "kill"} /\ (child[c].signal = "kill" => s = "kill")
      OBVIOUS
    <2>2. child' = [child EXCEPT ![c].signal = s] /\ Go(c, "termWait") /\ At(c, "term")
      BY <1>1 DEF Terminate
    <2>3. CallInv([call[c] EXCEPT !.pc = "termWait"], [child[c] EXCEPT !.signal = s])
      BY <1>1, <2>1, <2>2, Here DEF At, Alive, CallInv, Joins, Tamed, CallRecord, ChildRecord
    <2>4. "termWait" \in Places
      BY DEF Places, Joins
    <2>. HIDE DEF s
    <2>. QED
      BY <2>1, <2>2, <2>3, <2>4, Signals
  <1>2. CASE ~Alive(c)
    BY <1>2, Here, Goes DEF Terminate, At, Alive, CallInv, Joins, Tamed, CallRecord, Places
  <1>. QED
    BY <1>1, <1>2

LEMMA KillStep == ASSUME IInv, NEW c \in Calls, Kill(c) PROVE IInv'
  <1>1. CASE Alive(c)
    <2>1. CallInv([call[c] EXCEPT !.pc = "killWait"], [child[c] EXCEPT !.signal = "kill"])
      BY <1>1, Here DEF Kill, At, Alive, CallInv, Joins, Tamed, CallRecord, ChildRecord
    <2>. QED
      BY <1>1, <2>1, Signals DEF Kill, Places, Joins
  <1>2. CASE ~Alive(c)
    BY <1>2, ReturnStep DEF Kill, At, Alive, Tamed, Joins
  <1>. QED
    BY <1>1, <1>2

LEMMA TerminatedStep == ASSUME IInv, NEW c \in Calls, Terminated(c) PROVE IInv'
  BY Here, ReturnStep DEF Terminated, At, CallInv, Joins

LEMMA FinallyStep == ASSUME IInv, NEW c \in Calls, Finally(c) PROVE IInv'
  <1>1. CASE Alive(c)
    <2>. DEFINE k == [call[c] EXCEPT !.pc = "term", !.block = "finally"]
    <2>1. call' = [call EXCEPT ![c] = k] /\ ChildKept
      BY <1>1 DEF Finally
    <2>2. k \in CallRecord
      BY Here DEF CallRecord, Places, Blocks
    <2>3. CallInv(k, child[c])
      BY Here DEF Finally, At, CallInv, Joins, CallRecord
    <2>. HIDE DEF k
    <2>. QED
      BY <2>1, <2>2, <2>3, CallStep
  <1>2. CASE ~Alive(c)
    BY <1>2, Here, Goes DEF Finally, At, CallInv, Joins, CallRecord, Places
  <1>. QED
    BY <1>1, <1>2

LEMMA CloseStep == ASSUME IInv, NEW c \in Calls, Close(c) PROVE IInv'
  BY Here, Goes DEF Close, At, CallInv, Joins, CallRecord, Places

\* A cancellation that the except block catches, at an await of the loop.
LEMMA ToExceptStep ==
  ASSUME IInv, NEW c \in Calls, call[c].block = "try", call[c].pc \in {"sleep", "reap"} \cup Joins,
         ToExcept(c), ChildKept
  PROVE  IInv'
  <1>. DEFINE k == [call[c] EXCEPT !.pc = "term", !.block = "except", !.cancelled = TRUE]
  <1>1. call' = [call EXCEPT ![c] = k]
    BY DEF ToExcept
  <1>2. k \in CallRecord
    BY Here DEF CallRecord, Places, Blocks
  <1>3. CallInv(k, child[c])
    BY Here DEF CallInv, Joins, CallRecord
  <1>. HIDE DEF k
  <1>. QED
    BY <1>1, <1>2, <1>3, CallStep

LEMMA CancelStep == ASSUME IInv, NEW c \in Calls, Cancel(c) PROVE IInv'
  <1>1. CASE ToExcept(c) /\ call[c].pc \in {"sleep", "reap"}
    <2>1. call[c].block = "try"
      BY <1>1, Here DEF CallInv, Joins
    <2>. QED
      BY <1>1, <2>1, ToExceptStep DEF Cancel
  <1>2. CASE ToExcept(c) /\ call[c].pc \in Joins /\ call[c].block = "try"
    BY <1>2, ToExceptStep DEF Cancel
  <1>3. CASE /\ \/ call[c].pc \in Joins /\ call[c].block = "finally"
                \/ At(c, "lastJoin")
                \/ At(c, "gate")
             /\ call' = [call EXCEPT ![c].pc = "done", ![c].outcome = "cancelled",
                                     ![c].cancelled = TRUE]
    <2>. DEFINE k == [call[c] EXCEPT !.pc = "done", !.outcome = "cancelled", !.cancelled = TRUE]
    <2>1. call' = [call EXCEPT ![c] = k] /\ ChildKept
      BY <1>3 DEF Cancel
    <2>2. k \in CallRecord
      BY Here DEF CallRecord, Places, Outcomes
    <2>3. Tamed(child[c])
      BY <1>3, Here DEF At, CallInv, Joins, Tamed
    <2>4. CallInv(k, child[c])
      BY <2>3, Here DEF CallInv, Joins, CallRecord
    <2>. HIDE DEF k
    <2>. QED
      BY <2>1, <2>2, <2>4, CallStep
  <1>. QED
    BY <1>1, <1>2, <1>3 DEF Cancel, At

---------------------------------------------------------------------------
LEMMA NextIInv == IInv /\ [Next]_vars => IInv'
  <1>. SUFFICES ASSUME IInv, [Next]_vars PROVE IInv'
    OBVIOUS
  <1>1. CASE UNCHANGED vars
    BY <1>1 DEF vars, IInv, IsolationTypeOK
  <1>2. ASSUME NEW c \in Calls,
               Request(c) \/ Advance(c) \/ Deadline(c) \/ Cancel(c) \/ Answer(c) \/ Exit(c)
        PROVE  IInv'
    BY <1>2, RequestStep, StartStep, IsAliveStep, DrainStep, PollStep, ClockStep, WakeStep,
       ReapStep, TerminateStep, KillStep, TerminatedStep, FinallyStep, CloseStep, DeadlineStep,
       CancelStep, AnswerStep, ExitStep DEF Advance
  <1>. QED
    BY <1>1, <1>2 DEF Next

LEMMA Invariant == IsolationSpec => []IInv
  BY InitIInv, NextIInv, PTL DEF IsolationSpec

---------------------------------------------------------------------------
(* The places at the semaphore. *)

Bounded == Cardinality(Holding) <= Concurrency

\* No step of a call moves another one.
OthersStay(c) == \A e \in Calls : e # c => call'[e] = call[e]

LEMMA FiniteHolding == IsFiniteSet(Holding) /\ Cardinality(Holding) \in Nat
  BY IsolationAssumption, FS_Subset, FS_CardinalityType DEF Holding

\* A step of a call that holds a place, or does not get one, takes none.
LEMMA NoNewHolder ==
  ASSUME Bounded, NEW c \in Calls, OthersStay(c), c \in Holding \/ c \notin Holding'
  PROVE  Bounded'
  <1>1. Holding' \subseteq Holding
    BY DEF Holding, OthersStay
  <1>2. Cardinality(Holding') \in Nat /\ Cardinality(Holding') <= Cardinality(Holding)
    BY <1>1, FiniteHolding, FS_Subset, FS_CardinalityType
  <1>. QED
    BY <1>2, FiniteHolding, IsolationAssumption DEF Bounded

LEMMA OneMoves ==
  ASSUME IInv, NEW c \in Calls
  PROVE  /\ \A pc : Go(c, pc) => OthersStay(c) /\ call'[c].pc = pc
         /\ \A pc, o : End(c, pc, o) => OthersStay(c) /\ call'[c].pc = pc
  BY DEF Go, End, OthersStay, IInv, IsolationTypeOK, CallRecord

LEMMA StartBounded == ASSUME IInv, Bounded, NEW c \in Calls, Start(c) PROVE Bounded'
  <1>1. CASE Go(c, "alive")
    <2>1. Holding' = Holding \cup {c}
      BY <1>1, OneMoves DEF Holding, OthersStay
    <2>2. c \notin Holding /\ Cardinality(Holding) < Concurrency
      BY DEF Start, At, Holding
    <2>3. Cardinality(Holding') = Cardinality(Holding) + 1
      BY <2>1, <2>2, FiniteHolding, FS_AddElement
    <2>. QED
      BY <2>2, <2>3, FiniteHolding, IsolationAssumption DEF Bounded
  <1>2. CASE End(c, "done", "failed")
    <2>1. OthersStay(c) /\ c \notin Holding'
      BY <1>2, OneMoves DEF Holding
    <2>. QED
      BY <2>1, NoNewHolder
  <1>. QED
    BY <1>1, <1>2 DEF Start

LEMMA RequestBounded == ASSUME IInv, Bounded, NEW c \in Calls, Request(c) PROVE Bounded'
  <1>1. OthersStay(c) /\ c \notin Holding'
    BY OneMoves DEF Request, Holding
  <1>. QED
    BY <1>1, NoNewHolder

LEMMA HolderBounded ==
  ASSUME IInv, Bounded, NEW c \in Calls, Next, ~Request(c), ~Start(c),
         Advance(c) \/ Deadline(c) \/ Cancel(c) \/ Answer(c) \/ Exit(c)
  PROVE  Bounded'
  <1>1. CASE Answer(c) \/ Exit(c)
    BY <1>1 DEF Answer, Exit, Bounded, Holding
  <1>2. CASE Deadline(c)
    <2>1. OthersStay(c)
      BY <1>2 DEF Deadline, OthersStay, IInv, IsolationTypeOK
    <2>. QED
      BY <1>2, <2>1, NoNewHolder DEF Deadline
  <1>3. CASE Cancel(c)
    <2>1. OthersStay(c)
      BY <1>3 DEF Cancel, ToExcept, OthersStay, IInv, IsolationTypeOK
    <2>2. CASE At(c, "gate")
      <3>1. call' = [call EXCEPT ![c].pc = "done", ![c].outcome = "cancelled", ![c].cancelled = TRUE]
        BY <1>3, <2>2 DEF Cancel, At, Joins
      <3>2. c \notin Holding'
        BY <3>1 DEF Holding, IInv, IsolationTypeOK, CallRecord
      <3>. QED
        BY <2>1, <3>2, NoNewHolder
    <2>3. CASE ~At(c, "gate")
      <3>1. c \in Holding
        BY <1>3, <2>3 DEF Cancel, At, Joins, Holding
      <3>. QED
        BY <2>1, <3>1, NoNewHolder
    <2>. QED
      BY <2>2, <2>3
  <1>4. CASE Advance(c)
    <2>1. c \in Holding
      BY <1>4 DEF Advance, IsAlive, Drain, Poll, Clock, Wake, Reap, Terminate, Kill, Terminated,
                  Finally, Close, At, Holding
    <2>2. OthersStay(c)
      <3>1. CASE Finally(c)
        BY <3>1, OneMoves DEF Finally, OthersStay, IInv, IsolationTypeOK
      <3>2. CASE Start(c) \/ IsAlive(c) \/ Drain(c) \/ Poll(c) \/ Clock(c) \/ Wake(c) \/ Reap(c)
        BY <3>2, OneMoves DEF Start, IsAlive, Drain, Poll, Clock, Wake, Reap
      <3>3. CASE Terminate(c) \/ Kill(c) \/ Terminated(c) \/ Close(c)
        BY <3>3, OneMoves DEF Terminate, Kill, Terminated, Close, Return
      <3>. QED
        BY <1>4, <3>1, <3>2, <3>3 DEF Advance
    <2>. QED
      BY <2>1, <2>2, NoNewHolder
  <1>. QED
    BY <1>1, <1>2, <1>3, <1>4

LEMMA NextBounded == IInv /\ Bounded /\ [Next]_vars => Bounded'
  <1>. SUFFICES ASSUME IInv, Bounded, [Next]_vars PROVE Bounded'
    OBVIOUS
  <1>1. CASE UNCHANGED vars
    BY <1>1 DEF vars, Bounded, Holding
  <1>2. CASE Next
    BY <1>2, StartBounded, RequestBounded, HolderBounded DEF Next
  <1>. QED
    BY <1>1, <1>2

LEMMA PlacesBounded == IsolationSpec => []Bounded
  <1>1. Init => Bounded
    <2>. SUFFICES ASSUME Init PROVE Bounded
      OBVIOUS
    <2>1. Holding = {}
      BY DEF Init, Holding
    <2>. QED
      BY <2>1, FS_EmptySet, IsolationAssumption DEF Bounded
  <1>. QED
    BY <1>1, NextBounded, Invariant, PTL DEF IsolationSpec

---------------------------------------------------------------------------
\* Calls and children keep their types.
THEOREM IsolationTypes == IsolationSpec => []IsolationTypeOK
  <1>1. IInv => IsolationTypeOK
    BY DEF IInv
  <1>. QED
    BY <1>1, Invariant, PTL

\* However many calls run, and whatever their children and cancellations do, a
\* call that ends without an answer of its child has killed it or seen it end
\* (_terminate and the handlers of _run_child).
THEOREM SilentChildren == IsolationSpec => []NoSilentChildLeft
  <1>1. IInv => NoSilentChildLeft
    BY DEF IInv, CallInv, Tamed, NoSilentChildLeft, At
  <1>. QED
    BY <1>1, Invariant, PTL

\* A call that reports the death of its child has missed no answer: is_alive is
\* looked at before poll, so a dead child's pipe is read once more.
THEOREM AnswersKept == IsolationSpec => []AnswerIsNotLost
  <1>1. IInv => AnswerIsNotLost
    BY DEF IInv, CallInv, AnswerIsNotLost
  <1>. QED
    BY <1>1, Invariant, PTL

\* Never do more children parse than there are places, those of calls that time
\* out or are cancelled included: the place is given back after the child is
\* dealt with (the async with around _run_child).
THEOREM BusyChildren == IsolationSpec => []BusyChildrenBounded
  <1>1. ASSUME IInv, Bounded PROVE BusyChildrenBounded
    <2>. DEFINE Busy == {c \in Calls : child[c].state = "parsing" /\ child[c].signal # "kill"}
    <2>1. Busy \subseteq Holding
      BY <1>1 DEF IInv, CallInv, Tamed, Holding
    <2>2. Cardinality(Busy) \in Nat /\ Cardinality(Busy) <= Cardinality(Holding)
      BY <2>1, FiniteHolding, FS_Subset, FS_CardinalityType
    <2>. HIDE DEF Busy
    <2>3. Cardinality(Busy) <= Concurrency
      BY <1>1, <2>2, FiniteHolding, IsolationAssumption DEF Bounded
    <2>. QED
      BY <2>3 DEF BusyChildrenBounded, Busy
  <1>. QED
    BY <1>1, Invariant, PlacesBounded, PTL
=============================================================================
