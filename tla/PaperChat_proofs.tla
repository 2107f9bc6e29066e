-------------------------- MODULE PaperChat_proofs --------------------------
(***************************************************************************)
(* Proofs about PaperChat, for any turns, sessions, questions, keys,       *)
(* documents and retrieval modes: what a client is told is in the          *)
(* transcript, a question has one reply there, and an answer is of the     *)
(* document its session is bound to.                                       *)
(*                                                                         *)
(* The transcript only grows, and a turn appends to it at two places with  *)
(* awaits between them; the invariant says what each place finds there.    *)
(***************************************************************************)
EXTENDS PaperChat, TLAPS

USE BoundsAssumption, NoneAssumption, ModesAssumption

---------------------------------------------------------------------------
(* Types. *)

ItemIds == ({Raw} \cup Sources) \X Numbers
Item == [id: ItemIds, doc: Sources, text: Sources \X Numbers]
Message == [turn: Turns, session: Sessions, question: Questions,
            role: {"USER", "ASSISTANT"},
            status: {None, "ANSWERED", "INSUFFICIENT_EVIDENCE", "GENERATION_FAILED"},
            cites: SUBSET Item]
ActiveTurn == [op: {"query", "embed", "generate"}, session: Sessions,
               question: Questions, key: Keys \cup {None}, doc: Sources,
               evidence: SUBSET Item, missing: SUBSET Item, items: SUBSET Item]
DoneTurn == [op: {"done"}, session: Sessions, question: Questions,
             key: Keys \cup {None}, reply: {None} \cup Message]
Turn == {Idle} \cup ActiveTurn \cup DoneTurn
Record == [scope: Sessions \X Questions \X Keys, reply: Message]
CacheEntry == [key: [source: Sources, query: Questions], items: SUBSET Item]
Vector == [doc: Sources, id: ItemIds, text: Sources \X Numbers]

ChatTypeOK ==
  /\ mode \in Modes
  /\ doc \in {None} \cup [source: Sources, raw: BOOLEAN]
  /\ sessions \in [Sessions -> {None} \cup Sources]
  /\ turn \in [Turns -> Turn]
  /\ messages \in Seq(Message)
  /\ records \subseteq Record
  /\ lexical \subseteq CacheEntry
  /\ vectors \subseteq Vector
  /\ replaced \in 0 .. MaxReplaced
  /\ failures \in 0 .. MaxFailures

---------------------------------------------------------------------------
(* The invariant. *)

\* The question of turn t is in the transcript log before position j.
AskedBefore(log, t, j) ==
  \E i \in DOMAIN log : i < j /\ log[i].turn = t /\ log[i].role = "USER"

\* A reply a client may be given to a question asked in a session.
Fits(log, reply, session, question) ==
  /\ reply.session = session /\ reply.question = question
  /\ reply.status \in {"ANSWERED", "INSUFFICIENT_EVIDENCE"}
  /\ \E j \in DOMAIN log : log[j] = reply /\ AskedBefore(log, reply.turn, j)

\* What turn t, at k, has left in the transcript: nothing before its retrieval
\* is over, its question while the provider is asked, what it returned at the
\* end.  It works on the document its session is bound to.
TurnFits(log, bound, t, k) ==
  /\ k.op \in {"new", "query", "embed"} => \A i \in DOMAIN log : log[i].turn # t
  /\ k.op = "generate" =>
       /\ \E i \in DOMAIN log : log[i].turn = t
       /\ \A i \in DOMAIN log : log[i].turn = t => log[i].role = "USER"
  /\ k.op \in {"query", "embed", "generate"} => k.doc = bound[k.session]
  /\ k.op = "done" /\ k.reply # None => Fits(log, k.reply, k.session, k.question)

RecordFits(log, rec) == Fits(log, rec.reply, rec.scope[1], rec.scope[2])

\* OneReplyPerQuestion of a given transcript.
Orderly(log) ==
  \A i, j \in DOMAIN log :
    i < j /\ log[i].turn = log[j].turn =>
      log[i].role = "USER" /\ log[j].role = "ASSISTANT"

ChatInv ==
  /\ ChatTypeOK
  /\ Orderly(messages)
  /\ \A t \in Turns : TurnFits(messages, sessions, t, turn[t])
  /\ \A rec \in records : RecordFits(messages, rec)

---------------------------------------------------------------------------
(* The transcript. *)

\* new is log with more messages at its end.
Continues(new, log) ==
  /\ DOMAIN log \subseteq DOMAIN new
  /\ \A i \in DOMAIN log : new[i] = log[i]

\* All that was added are messages of turn t.
AddsOf(new, log, t) == \A i \in DOMAIN new \ DOMAIN log : new[i].turn = t

LEMMA AppendFacts ==
  ASSUME NEW log \in Seq(Message), NEW x \in Message
  PROVE  /\ Append(log, x) \in Seq(Message)
         /\ Len(log) \in Nat /\ DOMAIN log = 1 .. Len(log)
         /\ DOMAIN Append(log, x) = DOMAIN log \cup {Len(log) + 1}
         /\ Len(Append(log, x)) = Len(log) + 1
         /\ Append(log, x)[Len(log) + 1] = x
         /\ \A i \in DOMAIN log : Append(log, x)[i] = log[i] /\ i < Len(log) + 1
         /\ Continues(Append(log, x), log)
  <1>1. /\ Append(log, x) \in Seq(Message)
        /\ Len(log) \in Nat /\ DOMAIN log = 1 .. Len(log)
        /\ Len(Append(log, x)) = Len(log) + 1
        /\ DOMAIN Append(log, x) = 1 .. (Len(log) + 1)
        /\ Append(log, x)[Len(log) + 1] = x
        /\ \A i \in 1 .. Len(log) : Append(log, x)[i] = log[i]
    OBVIOUS
  <1>. QED
    BY <1>1 DEF Continues

\* A reply that may be given may be given for ever.
LEMMA FitsStays ==
  ASSUME NEW log, NEW new, Continues(new, log),
         NEW reply, NEW s, NEW q, Fits(log, reply, s, q)
  PROVE  Fits(new, reply, s, q)
  BY DEF Fits, AskedBefore, Continues

\* Messages of one turn leave what another one has left.
LEMMA OthersStay ==
  ASSUME NEW log, NEW new, Continues(new, log), NEW t, AddsOf(new, log, t),
         NEW u, u # t, NEW bound, NEW k, TurnFits(log, bound, u, k)
  PROVE  TurnFits(new, bound, u, k)
  <1>1. \A i \in DOMAIN new : new[i].turn = u => i \in DOMAIN log /\ new[i] = log[i]
    BY DEF Continues, AddsOf
  <1>2. k.op = "done" /\ k.reply # None => Fits(new, k.reply, k.session, k.question)
    BY FitsStays DEF TurnFits
  <1>3. k.op \in {"new", "query", "embed"} => \A i \in DOMAIN new : new[i].turn # u
    BY <1>1 DEF TurnFits
  <1>4. k.op = "generate" =>
          /\ \E i \in DOMAIN new : new[i].turn = u
          /\ \A i \in DOMAIN new : new[i].turn = u => new[i].role = "USER"
    BY <1>1 DEF TurnFits, Continues
  <1>. QED
    BY <1>2, <1>3, <1>4 DEF TurnFits

\* A message keeps the order if all its turn has said before are questions and
\* it is a reply to them.
LEMMA AppendOrderly ==
  ASSUME NEW log \in Seq(Message), Orderly(log), NEW x \in Message,
         \A i \in DOMAIN log :
           log[i].turn = x.turn => log[i].role = "USER" /\ x.role = "ASSISTANT"
  PROVE  Orderly(Append(log, x))
  <1>. DEFINE new == Append(log, x)
  <1>. SUFFICES ASSUME NEW i \in DOMAIN new, NEW j \in DOMAIN new,
                       i < j, new[i].turn = new[j].turn
                PROVE  new[i].role = "USER" /\ new[j].role = "ASSISTANT"
    BY DEF Orderly
  <1>1. i \in DOMAIN log /\ new[i] = log[i]
    BY AppendFacts
  <1>2. CASE j \in DOMAIN log
    <2>1. new[j] = log[j]
      BY <1>2, AppendFacts
    <2>. QED
      BY <1>1, <1>2, <2>1 DEF Orderly
  <1>3. CASE j = Len(log) + 1
    <2>1. new[j] = x
      BY <1>3, AppendFacts
    <2>. QED
      BY <1>1, <2>1
  <1>. QED
    BY <1>2, <1>3, AppendFacts

\* The messages a turn saves are messages.
LEMMA MessageTypes ==
  ASSUME NEW t \in Turns, NEW k \in ActiveTurn, NEW cites \in SUBSET Item,
         NEW status \in {"ANSWERED", "INSUFFICIENT_EVIDENCE", "GENERATION_FAILED"}
  PROVE  /\ UserMessage(t, k) \in Message
         /\ Reply(t, k, status, cites) \in Message
  BY DEF UserMessage, Reply, Message, ActiveTurn

---------------------------------------------------------------------------
(* Types of what a turn reads and keeps. *)

LEMMA CurrentType ==
  ASSUME ChatTypeOK
  PROVE  Current \subseteq Item
  <1>1. CASE doc = None
    BY <1>1 DEF Current
  <1>2. CASE doc # None
    <2>1. doc \in [source: Sources, raw: BOOLEAN]
      BY <1>2 DEF ChatTypeOK
    <2>2. \A n \in Numbers : EvidenceId(doc, n) \in ItemIds /\ doc.source \in Sources
      BY <2>1 DEF EvidenceId, ItemIds
    <2>3. \A n \in Numbers :
            [id |-> EvidenceId(doc, n), doc |-> doc.source, text |-> <<doc.source, n>>] \in Item
      BY <2>2 DEF Item
    <2>. QED
      BY <1>2, <2>3 DEF Current, Evidence
  <1>. QED
    BY <1>1, <1>2

LEMMA LexicalTypes ==
  ASSUME ChatTypeOK, doc # None, NEW q \in Questions, NEW items \in LexicalResults(q)
  PROVE  items \in SUBSET Item /\ Remembered(q, items) \subseteq CacheEntry
  <1>1. \A c \in lexical : c.items \in SUBSET Item
    BY DEF ChatTypeOK, CacheEntry
  <1>2. items \in SUBSET Item
    BY <1>1, CurrentType DEF LexicalResults, Cached
  <1>3. LexicalKey(q) \in [source: Sources, query: Questions]
    BY DEF LexicalKey, ChatTypeOK
  <1>4. [key |-> LexicalKey(q), items |-> items] \in CacheEntry
    BY <1>2, <1>3 DEF CacheEntry
  <1>. QED
    BY <1>2, <1>4 DEF Remembered, ChatTypeOK

LEMMA EmbeddedType ==
  ASSUME ChatTypeOK, NEW source \in Sources, NEW items \in SUBSET Item
  PROVE  Embedded(source, items) \subseteq Vector
  <1>1. \A i \in items : [doc |-> source, id |-> i.id, text |-> i.text] \in Vector
    BY DEF Item, Vector
  <1>. QED
    BY <1>1 DEF Embedded, ChatTypeOK

\* The kinds of a turn's record.
LEMMA TurnKinds ==
  ASSUME NEW k \in Turn
  PROVE  /\ k.op \in {"query", "embed", "generate"} => k \in ActiveTurn
         /\ k.op \in {"new", "query", "embed", "generate", "done"}
         /\ k.op = "done" => k \in DoneTurn
  BY DEF Turn, Idle, ActiveTurn, DoneTurn

\* A turn that ends without a reply.
LEMMA RefusedFits ==
  ASSUME NEW k \in ActiveTurn, NEW log, NEW bound, NEW t
  PROVE  Refused(k) \in Turn /\ TurnFits(log, bound, t, Refused(k))
  <1>1. Refused(k) \in DoneTurn
    BY DEF Refused, Done, ActiveTurn, DoneTurn
  <1>2. Refused(k).op = "done" /\ Refused(k).reply = None
    BY DEF Refused, Done
  <1>. HIDE DEF Refused
  <1>. QED
    BY <1>1, <1>2 DEF Turn, TurnFits

---------------------------------------------------------------------------
(* What a step of one turn has to show. *)

\* What no step of a turn changes, and the caches it may fill.
Beside ==
  /\ mode' = mode /\ doc' = doc /\ sessions' = sessions /\ replaced' = replaced
  /\ lexical' \subseteq CacheEntry /\ vectors' \subseteq Vector

LEMMA MoveKeeps ==
  ASSUME ChatInv, Beside, NEW t \in Turns, NEW k \in Turn, Goes(t, k),
         messages' \in Seq(Message), Orderly(messages'),
         Continues(messages', messages), AddsOf(messages', messages, t),
         TurnFits(messages', sessions, t, k),
         records' \subseteq Record, \A rec \in records' : RecordFits(messages', rec),
         failures' \in 0 .. MaxFailures
  PROVE  ChatInv'
  <1>1. turn \in [Turns -> Turn] /\ sessions' = sessions
    BY DEF ChatInv, ChatTypeOK, Beside
  <1>2. /\ turn' \in [Turns -> Turn] /\ turn'[t] = k
        /\ \A u \in Turns : u # t => turn'[u] = turn[u]
    BY <1>1 DEF Goes
  <1>3. ChatTypeOK'
    BY <1>2 DEF ChatInv, ChatTypeOK, Beside
  <1>4. ASSUME NEW u \in Turns
        PROVE  TurnFits(messages', sessions', u, turn'[u])
    <2>1. CASE u = t
      BY <1>1, <1>2, <2>1
    <2>2. CASE u # t
      <3>1. TurnFits(messages, sessions, u, turn[u])
        BY DEF ChatInv
      <3>2. TurnFits(messages', sessions, u, turn[u])
        BY <2>2, <3>1, OthersStay
      <3>. QED
        BY <1>1, <1>2, <2>2, <3>2
    <2>. QED
      BY <2>1, <2>2
  <1>. QED
    BY <1>3, <1>4 DEF ChatInv

\* A step that saves no message and records nothing.
LEMMA QuietMove ==
  ASSUME ChatInv, Beside, NEW t \in Turns, NEW k \in Turn, Goes(t, k),
         messages' = messages, records' = records,
         TurnFits(messages, sessions, t, k), failures' \in 0 .. MaxFailures
  PROVE  ChatInv'
  <1>1. Continues(messages', messages) /\ AddsOf(messages', messages, t)
    BY DEF Continues, AddsOf
  <1>2. /\ messages' \in Seq(Message) /\ Orderly(messages') /\ records' \subseteq Record
        /\ \A rec \in records' : RecordFits(messages', rec)
        /\ TurnFits(messages', sessions, t, k)
    BY DEF ChatInv, ChatTypeOK
  <1>. QED
    BY <1>1, <1>2, MoveKeeps

LEMMA FailureBound ==
  ASSUME ChatTypeOK
  PROVE  /\ failures \in 0 .. MaxFailures
         /\ failures < MaxFailures => failures + 1 \in 0 .. MaxFailures
  BY DEF ChatTypeOK

\* A transcript in which turn t has asked and has no reply yet.
AwaitsReply(log, t) ==
  /\ log \in Seq(Message) /\ Orderly(log)
  /\ Continues(log, messages) /\ AddsOf(log, messages, t)
  /\ \E i \in DOMAIN log : log[i].turn = t
  /\ \A i \in DOMAIN log : log[i].turn = t => log[i].role = "USER"

\* The reply to a turn that awaits one keeps the transcript in order.
LEMMA ReplyFits ==
  ASSUME ChatInv, NEW t \in Turns, NEW before, AwaitsReply(before, t),
         NEW reply \in Message, reply.turn = t, reply.role = "ASSISTANT"
  PROVE  LET log == Append(before, reply) IN
         /\ log \in Seq(Message) /\ Orderly(log)
         /\ Continues(log, messages) /\ AddsOf(log, messages, t)
         /\ \E j \in DOMAIN log : log[j] = reply /\ AskedBefore(log, t, j)
         /\ \A rec \in records : RecordFits(log, rec)
  <1>. DEFINE log == Append(before, reply)
  <1>1. before \in Seq(Message) /\ Orderly(before)
        /\ Continues(before, messages) /\ AddsOf(before, messages, t)
    BY DEF AwaitsReply
  <1>2. Orderly(log)
    BY <1>1, AppendOrderly DEF AwaitsReply
  <1>3. log \in Seq(Message) /\ Continues(log, before)
    BY <1>1, AppendFacts
  <1>4. Continues(log, messages)
    BY <1>1, <1>3 DEF Continues
  <1>5. AddsOf(log, messages, t)
    <2>. SUFFICES ASSUME NEW i \in DOMAIN log \ DOMAIN messages PROVE log[i].turn = t
      BY DEF AddsOf
    <2>1. CASE i \in DOMAIN before
      BY <1>1, <1>3, <2>1 DEF AddsOf, Continues
    <2>2. CASE i = Len(before) + 1
      BY <1>1, <2>2, AppendFacts
    <2>. QED
      BY <1>1, <2>1, <2>2, AppendFacts
  <1>6. \E j \in DOMAIN log : log[j] = reply /\ AskedBefore(log, t, j)
    <2>. DEFINE j == Len(before) + 1
    <2>1. j \in DOMAIN log /\ log[j] = reply
      BY <1>1, AppendFacts
    <2>2. PICK i \in DOMAIN before : before[i].turn = t /\ before[i].role = "USER"
      BY DEF AwaitsReply
    <2>3. i \in DOMAIN log /\ log[i] = before[i] /\ i < j
      BY <1>1, AppendFacts
    <2>. QED
      BY <2>1, <2>2, <2>3 DEF AskedBefore
  <1>7. ASSUME NEW rec \in records PROVE RecordFits(log, rec)
    <2>1. RecordFits(messages, rec)
      BY DEF ChatInv
    <2>. HIDE DEF log
    <2>. QED
      BY <1>4, <2>1, FitsStays DEF RecordFits
  <1>. QED
    BY <1>2, <1>3, <1>4, <1>5, <1>6, <1>7

\* What is recorded under a key is a reply to the question of that key.
LEMMA RecordedFits ==
  ASSUME ChatInv, NEW k \in ActiveTurn, NEW log, NEW reply \in Message,
         Fits(log, reply, k.session, k.question),
         \A rec \in records : RecordFits(log, rec)
  PROVE  /\ Recorded(k, reply) \subseteq Record
         /\ \A rec \in Recorded(k, reply) : RecordFits(log, rec)
  <1>1. CASE k.key = None
    BY <1>1 DEF Recorded, ChatInv, ChatTypeOK
  <1>2. CASE k.key # None
    <2>. DEFINE new == [scope |-> Scope(k), reply |-> reply]
    <2>1. k.key \in Keys /\ k.session \in Sessions /\ k.question \in Questions
      BY <1>2 DEF ActiveTurn
    <2>2. new \in Record
      BY <2>1 DEF Record, Scope
    <2>3. new.reply = reply /\ new.scope[1] = k.session /\ new.scope[2] = k.question
      BY DEF Scope
    <2>. HIDE DEF new
    <2>4. RecordFits(log, new)
      BY <2>3 DEF RecordFits
    <2>5. Recorded(k, reply) = {r \in records : r.scope # Scope(k)} \cup {new}
      BY <1>2 DEF Recorded, new
    <2>. QED
      BY <2>2, <2>4, <2>5 DEF ChatInv, ChatTypeOK
  <1>. QED
    BY <1>1, <1>2

\* A turn that saves its reply, and returns it or loses the record.
LEMMA ReturnsKeeps ==
  ASSUME ChatInv, Beside, NEW t \in Turns, NEW k \in ActiveTurn,
         NEW before, AwaitsReply(before, t),
         NEW status \in {"ANSWERED", "INSUFFICIENT_EVIDENCE"}, NEW cites \in SUBSET Item,
         Returns(t, k, before, Reply(t, k, status, cites))
  PROVE  ChatInv'
  <1>. DEFINE reply == Reply(t, k, status, cites)
  <1>. DEFINE log == Append(before, reply)
  <1>1. /\ reply \in Message /\ reply.turn = t /\ reply.role = "ASSISTANT"
        /\ reply.session = k.session /\ reply.question = k.question
        /\ reply.status = status
    BY MessageTypes DEF Reply
  <1>2. messages' = log
    BY DEF Returns
  <1>3. \/ records' = Recorded(k, reply) /\ Goes(t, Done(k, reply)) /\ failures' = failures
        \/ /\ failures < MaxFailures /\ failures' = failures + 1
           /\ Goes(t, Refused(k)) /\ records' = records
    BY DEF Returns
  <1>. HIDE DEF reply
  <1>4. /\ log \in Seq(Message) /\ Orderly(log)
        /\ Continues(log, messages) /\ AddsOf(log, messages, t)
        /\ \E j \in DOMAIN log : log[j] = reply /\ AskedBefore(log, t, j)
        /\ \A rec \in records : RecordFits(log, rec)
    BY <1>1, ReplyFits
  <1>. HIDE DEF log
  <1>5. Fits(log, reply, k.session, k.question)
    BY <1>1, <1>4 DEF Fits
  <1>6. failures' \in 0 .. MaxFailures
    BY <1>3, FailureBound DEF ChatInv
  <1>7. CASE records' = Recorded(k, reply) /\ Goes(t, Done(k, reply))
    <2>1. Done(k, reply) \in DoneTurn
      BY <1>1 DEF Done, DoneTurn, ActiveTurn
    <2>2. /\ Done(k, reply).op = "done" /\ Done(k, reply).reply = reply
          /\ Done(k, reply).session = k.session /\ Done(k, reply).question = k.question
      BY DEF Done
    <2>3. Done(k, reply) \in Turn /\ TurnFits(log, sessions, t, Done(k, reply))
      BY <1>5, <2>1, <2>2 DEF Turn, TurnFits
    <2>4. records' \subseteq Record /\ \A rec \in records' : RecordFits(log, rec)
      BY <1>1, <1>4, <1>5, <1>7, RecordedFits
    <2>. QED
      BY <1>2, <1>4, <1>6, <1>7, <2>3, <2>4, MoveKeeps
  <1>8. CASE records' = records /\ Goes(t, Refused(k))
    <2>1. Refused(k) \in Turn /\ TurnFits(log, sessions, t, Refused(k))
      BY RefusedFits
    <2>2. records' \subseteq Record
      BY <1>8 DEF ChatInv, ChatTypeOK
    <2>. QED
      BY <1>2, <1>4, <1>6, <1>8, <2>1, <2>2, MoveKeeps
  <1>. QED
    BY <1>3, <1>7, <1>8

\* The question of a turn that has said nothing is in order, and awaits a reply.
LEMMA QuestionFits ==
  ASSUME ChatInv, NEW t \in Turns, NEW k \in ActiveTurn,
         \A i \in DOMAIN messages : messages[i].turn # t
  PROVE  AwaitsReply(Append(messages, UserMessage(t, k)), t)
  <1>. DEFINE x == UserMessage(t, k)
  <1>. DEFINE log == Append(messages, x)
  <1>1. x \in Message /\ x.turn = t /\ x.role = "USER"
    BY MessageTypes DEF UserMessage
  <1>2. messages \in Seq(Message) /\ Orderly(messages)
    BY DEF ChatInv, ChatTypeOK
  <1>. HIDE DEF x
  <1>3. /\ log \in Seq(Message) /\ Continues(log, messages)
        /\ DOMAIN log = DOMAIN messages \cup {Len(messages) + 1}
        /\ log[Len(messages) + 1] = x
        /\ \A i \in DOMAIN messages : log[i] = messages[i]
    BY <1>1, <1>2, AppendFacts
  <1>4. Orderly(log)
    BY <1>1, <1>2, AppendOrderly
  <1>. HIDE DEF log
  <1>5. \A i \in DOMAIN log : log[i].turn = t => i = Len(messages) + 1
    BY <1>3
  <1>. QED
    BY <1>1, <1>3, <1>4, <1>5 DEF AwaitsReply, AddsOf, x, log

\* A turn whose retrieval is over.
LEMMA RetrievedKeeps ==
  ASSUME ChatInv, Beside, NEW t \in Turns, NEW k \in ActiveTurn,
         \A i \in DOMAIN messages : messages[i].turn # t,
         k.doc = sessions[k.session],
         NEW items \in SUBSET Item, Retrieved(t, k, items)
  PROVE  ChatInv'
  <1>. DEFINE asked == Append(messages, UserMessage(t, k))
  <1>1. AwaitsReply(asked, t)
    BY QuestionFits
  <1>2. CASE Returns(t, k, asked, Reply(t, k, "INSUFFICIENT_EVIDENCE", {}))
    BY <1>1, <1>2, ReturnsKeeps
  <1>3. CASE /\ messages' = asked
             /\ Goes(t, [k EXCEPT !.op = "generate", !.items = items])
             /\ UNCHANGED <<records, failures>>
    <2>. DEFINE g == [k EXCEPT !.op = "generate", !.items = items]
    <2>1. g \in ActiveTurn /\ g.op = "generate" /\ g.doc = k.doc /\ g.session = k.session
      BY DEF ActiveTurn
    <2>. HIDE DEF g, asked
    <2>2. g \in Turn /\ TurnFits(asked, sessions, t, g)
      BY <1>1, <2>1 DEF Turn, TurnFits, AwaitsReply
    <2>3. records' \subseteq Record /\ failures' \in 0 .. MaxFailures
      BY <1>3 DEF ChatInv, ChatTypeOK
    <2>4. ASSUME NEW rec \in records' PROVE RecordFits(messages', rec)
      <3>1. RecordFits(messages, rec)
        BY <1>3, <2>4 DEF ChatInv
      <3>2. Continues(messages', messages)
        BY <1>1, <1>3 DEF AwaitsReply
      <3>. QED
        BY <3>1, <3>2, FitsStays DEF RecordFits
    <2>5. Goes(t, g) /\ messages' = asked
      BY <1>3 DEF g
    <2>6. /\ messages' \in Seq(Message) /\ Orderly(messages')
          /\ Continues(messages', messages) /\ AddsOf(messages', messages, t)
          /\ TurnFits(messages', sessions, t, g)
      BY <1>1, <2>2, <2>5 DEF AwaitsReply
    <2>. QED
      BY <2>2, <2>3, <2>4, <2>5, <2>6, MoveKeeps
  <1>. QED
    BY <1>2, <1>3 DEF Retrieved

---------------------------------------------------------------------------
(* The steps of a turn. *)

\* A turn in flight, with what it has left in the transcript.
LEMMA InFlightFacts ==
  ASSUME ChatInv, NEW t \in Turns, turn[t].op \in {"query", "embed", "generate"}
  PROVE  /\ turn[t] \in ActiveTurn /\ turn[t].doc = sessions[turn[t].session]
         /\ turn[t].op # "generate" => \A i \in DOMAIN messages : messages[i].turn # t
         /\ turn[t].op = "generate" => AwaitsReply(messages, t)
  <1>1. turn[t] \in Turn /\ TurnFits(messages, sessions, t, turn[t])
    BY DEF ChatInv, ChatTypeOK
  <1>2. turn[t] \in ActiveTurn
    BY <1>1, TurnKinds
  <1>3. /\ messages \in Seq(Message) /\ Orderly(messages)
        /\ Continues(messages, messages) /\ AddsOf(messages, messages, t)
    BY DEF ChatInv, ChatTypeOK, Continues, AddsOf
  <1>. QED
    BY <1>1, <1>2, <1>3 DEF TurnFits, AwaitsReply

\* An accepted question is asked of the document its session is bound to.
LEMMA AskKeeps ==
  ASSUME ChatInv, NEW t \in Turns, NEW s \in Sessions, NEW q \in Questions,
         NEW key \in Keys \cup {None}, Ask(t, s, q, key)
  PROVE  ChatInv'
  <1>. DEFINE k == [op |-> "query", session |-> s, question |-> q, key |-> key,
                    doc |-> IF doc = None THEN None ELSE doc.source,
                    evidence |-> Current, missing |-> {}, items |-> {}]
  <1>. DEFINE known == {r \in records : key # None /\ r.scope = Scope(k)}
  <1>1. /\ ChatTypeOK /\ turn[t] = Idle /\ sessions[s] # None
        /\ UNCHANGED <<mode, doc, sessions, vectors, replaced>>
    BY DEF Ask, ChatInv
  <1>2. vectors' \subseteq Vector /\ failures \in 0 .. MaxFailures
    BY <1>1 DEF ChatTypeOK
  <1>3. \A i \in DOMAIN messages : messages[i].turn # t
    BY <1>1 DEF ChatInv, TurnFits, Idle
  <1>4. lexical' = lexical => Beside
    BY <1>1, <1>2 DEF Beside, ChatTypeOK
  <1>5. CASE /\ known # {} /\ \E r \in known : Goes(t, Done(k, r.reply))
             /\ UNCHANGED <<messages, records, lexical, failures>>
    <2>1. PICK r \in known : Goes(t, Done(k, r.reply))
      BY <1>5
    <2>2. r \in records /\ r \in Record /\ r.scope = <<s, q, key>> /\ RecordFits(messages, r)
      BY <1>1 DEF ChatInv, ChatTypeOK, Scope
    <2>3. r.reply \in Message /\ r.scope[1] = s /\ r.scope[2] = q
      BY <2>2 DEF Record
    <2>. DEFINE d == Done(k, r.reply)
    <2>4. d \in DoneTurn /\ d.op = "done" /\ d.reply = r.reply
          /\ d.session = s /\ d.question = q
      BY <2>3 DEF Done, DoneTurn
    <2>. HIDE DEF d, k
    <2>5. d \in Turn /\ TurnFits(messages, sessions, t, d)
      BY <2>2, <2>3, <2>4 DEF Turn, TurnFits, RecordFits
    <2>6. Goes(t, d)
      BY <2>1 DEF d
    <2>. QED
      BY <1>2, <1>4, <1>5, <2>5, <2>6, QuietMove
  <1>6. CASE Frozen(k) /\ Goes(t, Refused(k))
             /\ UNCHANGED <<messages, records, lexical, failures>>
    <2>1. Refused(k) \in DoneTurn /\ Refused(k).op = "done" /\ Refused(k).reply = None
      BY DEF Refused, Done, DoneTurn
    <2>. HIDE DEF k
    <2>2. Refused(k) \in Turn /\ TurnFits(messages, sessions, t, Refused(k))
      BY <2>1 DEF Turn, TurnFits
    <2>. QED
      BY <1>2, <1>4, <1>6, <2>2, QuietMove
  <1>7. ASSUME ~Frozen(k)
        PROVE  k \in ActiveTurn /\ k.doc = sessions[k.session] /\ doc # None
    <2>1. doc # None /\ doc.source = sessions[s]
      BY <1>7 DEF Frozen
    <2>2. doc.source \in Sources
      BY <1>1, <2>1 DEF ChatTypeOK
    <2>3. k \in ActiveTurn
      BY <1>1, <2>1, <2>2, CurrentType DEF ActiveTurn
    <2>. QED
      BY <2>1, <2>3
  <1>8. ASSUME NEW items \in LexicalResults(q), doc # None,
               lexical' = Remembered(q, items)
        PROVE  items \in SUBSET Item /\ Beside
    BY <1>1, <1>2, <1>8, LexicalTypes DEF Beside
  <1>9. CASE /\ ~Frozen(k)
             /\ \E items \in LexicalResults(q) :
                  Retrieved(t, k, items) /\ lexical' = Remembered(q, items)
    <2>1. PICK items \in LexicalResults(q) :
            Retrieved(t, k, items) /\ lexical' = Remembered(q, items)
      BY <1>9
    <2>2. k \in ActiveTurn /\ k.doc = sessions[k.session] /\ items \in SUBSET Item /\ Beside
      BY <1>7, <1>8, <1>9, <2>1
    <2>. HIDE DEF k
    <2>. QED
      BY <1>3, <2>1, <2>2, RetrievedKeeps
  <1>10. CASE ~Frozen(k) /\ Goes(t, k) /\ UNCHANGED <<messages, records, lexical, failures>>
    <2>1. k \in ActiveTurn /\ k.doc = sessions[k.session] /\ k.op = "query"
      BY <1>7, <1>10
    <2>. HIDE DEF k
    <2>2. k \in Turn /\ TurnFits(messages, sessions, t, k)
      BY <1>3, <2>1 DEF Turn, TurnFits
    <2>. QED
      BY <1>2, <1>4, <1>10, <2>2, QuietMove
  <1>11. CASE /\ ~Frozen(k)
              /\ \E items \in LexicalResults(q) :
                   Goes(t, [k EXCEPT !.items = items]) /\ lexical' = Remembered(q, items)
              /\ UNCHANGED <<messages, records, failures>>
    <2>1. PICK items \in LexicalResults(q) :
            Goes(t, [k EXCEPT !.items = items]) /\ lexical' = Remembered(q, items)
      BY <1>11
    <2>2. k \in ActiveTurn /\ k.doc = sessions[k.session] /\ items \in SUBSET Item /\ Beside
      BY <1>7, <1>8, <1>11, <2>1
    <2>. DEFINE h == [k EXCEPT !.items = items]
    <2>3. h \in ActiveTurn /\ h.op = "query" /\ h.doc = sessions[h.session]
      BY <2>2 DEF ActiveTurn
    <2>. HIDE DEF k, h
    <2>4. h \in Turn /\ TurnFits(messages, sessions, t, h)
      BY <1>3, <2>3 DEF Turn, TurnFits
    <2>5. Goes(t, h)
      BY <2>1 DEF h
    <2>. QED
      BY <1>2, <1>11, <2>2, <2>4, <2>5, QuietMove
  <1>. QED
    BY <1>5, <1>6, <1>9, <1>10, <1>11 DEF Ask

\* What retrieval may end with, by vectors or without.
LEMMA RankedKeeps ==
  ASSUME ChatInv, Beside, NEW t \in Turns, turn[t].op \in {"query", "embed"},
         \/ FallBack(t, turn[t])
         \/ \E known : Ranked(t, turn[t], known)
  PROVE  ChatInv'
  <1>. DEFINE k == turn[t]
  <1>1. /\ k \in ActiveTurn /\ k.doc = sessions[k.session]
        /\ \A i \in DOMAIN messages : messages[i].turn # t
    BY InFlightFacts
  <1>2. PICK items \in SUBSET Item : Retrieved(t, k, items)
    <2>1. CASE FallBack(t, k)
      BY <2>1, CurrentType DEF FallBack, ChatInv
    <2>2. ASSUME NEW known, Ranked(t, k, known)
          PROVE  \E items \in SUBSET Item : Retrieved(t, k, items)
      <3>1. PICK found \in SUBSET {i \in k.evidence : \E v \in known : v.id = i.id} :
              Retrieved(t, k, found \cup k.items)
        BY <2>2 DEF Ranked
      <3>2. found \cup k.items \in SUBSET Item
        BY <1>1 DEF ActiveTurn
      <3>. QED
        BY <3>1, <3>2
    <2>. QED
      BY <2>1, <2>2
  <1>. HIDE DEF k
  <1>. QED
    BY <1>1, <1>2, RetrievedKeeps

LEMMA EmbedQueryKeeps ==
  ASSUME ChatInv, NEW t \in Turns, EmbedQuery(t)
  PROVE  ChatInv'
  <1>. DEFINE k == turn[t]
  <1>1. k.op = "query" /\ Beside
    BY DEF EmbedQuery, Beside, ChatInv, ChatTypeOK
  <1>2. CASE FallBack(t, k) \/ Ranked(t, k, StoredVectors(k.doc))
    BY <1>1, <1>2, RankedKeeps
  <1>3. CASE /\ Goes(t, [k EXCEPT !.op = "embed", !.missing = Missing(k.doc, k.evidence)])
             /\ UNCHANGED <<messages, records, failures>>
    <2>. DEFINE h == [k EXCEPT !.op = "embed", !.missing = Missing(k.doc, k.evidence)]
    <2>1. /\ k \in ActiveTurn /\ k.doc = sessions[k.session]
          /\ \A i \in DOMAIN messages : messages[i].turn # t
      BY <1>1, InFlightFacts
    <2>2. Missing(k.doc, k.evidence) \in SUBSET Item
      BY <2>1 DEF Missing, ActiveTurn
    <2>3. h \in ActiveTurn /\ h.op = "embed" /\ h.doc = sessions[h.session]
      BY <2>1, <2>2 DEF ActiveTurn
    <2>. HIDE DEF h
    <2>4. h \in Turn /\ TurnFits(messages, sessions, t, h)
      BY <2>1, <2>3 DEF Turn, TurnFits
    <2>5. Goes(t, h) /\ failures' \in 0 .. MaxFailures
      BY <1>3 DEF h, ChatInv, ChatTypeOK
    <2>. QED
      BY <1>1, <1>3, <2>4, <2>5, QuietMove
  <1>. QED
    BY <1>2, <1>3 DEF EmbedQuery

LEMMA EmbedTextsKeeps ==
  ASSUME ChatInv, NEW t \in Turns, EmbedTexts(t)
  PROVE  ChatInv'
  <1>. DEFINE k == turn[t]
  <1>1. k.op = "embed" /\ UNCHANGED <<mode, doc, sessions, lexical, replaced>>
    BY DEF EmbedTexts
  <1>2. k \in ActiveTurn
    BY <1>1, InFlightFacts
  <1>3. Embedded(k.doc, k.missing) \subseteq Vector
    BY <1>2, EmbeddedType DEF ActiveTurn, ChatInv
  <1>4. vectors' \subseteq Vector
    BY <1>3 DEF EmbedTexts, ChatInv, ChatTypeOK
  <1>5. Beside
    BY <1>1, <1>4 DEF Beside, ChatInv, ChatTypeOK
  <1>6. FallBack(t, k) \/ \E known : Ranked(t, k, known)
    BY DEF EmbedTexts
  <1>. QED
    BY <1>1, <1>5, <1>6, RankedKeeps

LEMMA GenerateKeeps ==
  ASSUME ChatInv, NEW t \in Turns, Generate(t)
  PROVE  ChatInv'
  <1>. DEFINE k == turn[t]
  <1>1. k.op = "generate" /\ Beside
    BY DEF Generate, Beside, ChatInv, ChatTypeOK
  <1>2. k \in ActiveTurn /\ AwaitsReply(messages, t)
    BY <1>1, InFlightFacts
  <1>3. CASE Returns(t, k, messages, Reply(t, k, "INSUFFICIENT_EVIDENCE", {}))
    BY <1>1, <1>2, <1>3, ReturnsKeeps
  <1>4. ASSUME NEW cites, Returns(t, k, messages, Reply(t, k, "ANSWERED", Stored(cites)))
        PROVE  ChatInv'
    <2>1. Stored(cites) \in SUBSET Item
      BY CurrentType DEF Stored, ChatInv
    <2>. QED
      BY <1>1, <1>2, <1>4, <2>1, ReturnsKeeps
  <1>5. CASE /\ messages' = Append(messages, Reply(t, k, "GENERATION_FAILED", {}))
             /\ Goes(t, Refused(k))
             /\ UNCHANGED <<records, failures>>
    <2>. DEFINE reply == Reply(t, k, "GENERATION_FAILED", {})
    <2>1. reply \in Message /\ reply.turn = t /\ reply.role = "ASSISTANT"
      BY <1>2, MessageTypes DEF Reply
    <2>2. messages' = Append(messages, reply)
      BY <1>5
    <2>. HIDE DEF reply
    <2>3. /\ messages' \in Seq(Message) /\ Orderly(messages')
          /\ Continues(messages', messages) /\ AddsOf(messages', messages, t)
          /\ \A rec \in records : RecordFits(messages', rec)
      BY <1>2, <2>1, <2>2, ReplyFits
    <2>4. Refused(k) \in Turn /\ TurnFits(messages', sessions, t, Refused(k))
      BY <1>2, RefusedFits
    <2>5. records' \subseteq Record /\ failures' \in 0 .. MaxFailures /\ records' = records
      BY <1>5 DEF ChatInv, ChatTypeOK
    <2>. QED
      BY <1>1, <1>5, <2>3, <2>4, <2>5, MoveKeeps
  <1>. QED
    BY <1>3, <1>4, <1>5 DEF Generate

LEMMA FailKeeps ==
  ASSUME ChatInv, NEW t \in Turns, Fail(t)
  PROVE  ChatInv'
  <1>1. /\ turn[t].op \in {"query", "embed", "generate"}
        /\ Goes(t, Refused(turn[t])) /\ messages' = messages /\ records' = records
        /\ failures' \in 0 .. MaxFailures /\ Beside
    BY FailureBound DEF Fail, InFlight, Beside, ChatInv, ChatTypeOK
  <1>2. turn[t] \in ActiveTurn
    BY <1>1, InFlightFacts
  <1>3. Refused(turn[t]) \in Turn /\ TurnFits(messages, sessions, t, Refused(turn[t]))
    BY <1>2, RefusedFits
  <1>. QED
    BY <1>1, <1>3, QuietMove

---------------------------------------------------------------------------
(* The steps beside the turns. *)

LEMMA CrashKeeps ==
  ASSUME ChatInv, Crash
  PROVE  ChatInv'
  <1>1. /\ turn' = [t \in Turns |-> IF InFlight(t) THEN Refused(turn[t]) ELSE turn[t]]
        /\ lexical' = {} /\ failures' \in 0 .. MaxFailures
        /\ mode' = mode /\ doc' = doc /\ sessions' = sessions /\ messages' = messages
        /\ records' = records /\ vectors' = vectors /\ replaced' = replaced
    BY FailureBound DEF Crash, ChatInv
  <1>2. ASSUME NEW t \in Turns
        PROVE  turn'[t] \in Turn /\ TurnFits(messages, sessions, t, turn'[t])
    <2>1. CASE InFlight(t)
      <3>1. turn[t] \in ActiveTurn
        BY <2>1, InFlightFacts DEF InFlight
      <3>2. turn'[t] = Refused(turn[t])
        BY <1>1, <2>1
      <3>. QED
        BY <3>1, <3>2, RefusedFits
    <2>2. CASE ~InFlight(t)
      <3>1. turn'[t] = turn[t]
        BY <1>1, <2>2
      <3>. QED
        BY <3>1 DEF ChatInv, ChatTypeOK
    <2>. QED
      BY <2>1, <2>2
  <1>3. turn' \in [Turns -> Turn]
    BY <1>1, <1>2
  <1>4. ChatTypeOK'
    BY <1>1, <1>3 DEF ChatInv, ChatTypeOK
  <1>. QED
    BY <1>1, <1>2, <1>4 DEF ChatInv

LEMMA ReplaceKeeps ==
  ASSUME ChatInv, NEW s \in Sources, ReplaceDocument(s)
  PROVE  ChatInv'
  <1>1. /\ turn' = turn /\ mode' = mode /\ sessions' = sessions /\ messages' = messages
        /\ records' = records /\ vectors' = vectors /\ lexical' = lexical
        /\ failures' = failures
        /\ replaced < MaxReplaced /\ replaced' = replaced + 1
    BY DEF ReplaceDocument
  <1>2. PICK raw \in BOOLEAN : doc' = [source |-> s, raw |-> raw]
    BY DEF ReplaceDocument
  <1>3. ChatTypeOK'
    BY <1>1, <1>2 DEF ChatInv, ChatTypeOK
  <1>. QED
    BY <1>1, <1>3 DEF ChatInv

\* A session is bound once: a turn in flight has a bound one.
LEMMA CreateSessionKeeps ==
  ASSUME ChatInv, NEW s \in Sessions, CreateSession(s)
  PROVE  ChatInv'
  <1>1. /\ turn' = turn /\ mode' = mode /\ doc' = doc /\ messages' = messages
        /\ records' = records /\ vectors' = vectors /\ lexical' = lexical
        /\ failures' = failures /\ replaced' = replaced
        /\ sessions' = [sessions EXCEPT ![s] = doc.source]
        /\ sessions[s] = None /\ doc # None
    BY DEF CreateSession
  <1>2. doc.source \in Sources /\ sessions \in [Sessions -> {None} \cup Sources]
    BY <1>1 DEF ChatInv, ChatTypeOK
  <1>3. sessions' \in [Sessions -> {None} \cup Sources]
    BY <1>1, <1>2
  <1>4. ChatTypeOK'
    BY <1>1, <1>3 DEF ChatInv, ChatTypeOK
  <1>5. ASSUME NEW t \in Turns
        PROVE  TurnFits(messages, sessions', t, turn[t])
    <2>1. TurnFits(messages, sessions, t, turn[t])
      BY DEF ChatInv
    <2>2. ASSUME turn[t].op \in {"query", "embed", "generate"}
          PROVE  turn[t].doc = sessions'[turn[t].session]
      <3>1. turn[t] \in ActiveTurn /\ turn[t].doc = sessions[turn[t].session]
        BY <2>2, InFlightFacts
      <3>2. turn[t].doc \in Sources /\ turn[t].session \in Sessions
        BY <3>1 DEF ActiveTurn
      <3>3. turn[t].session # s
        BY <1>1, <3>1, <3>2
      <3>. QED
        BY <1>1, <1>2, <3>1, <3>2, <3>3
    <2>. QED
      BY <2>1, <2>2 DEF TurnFits
  <1>. QED
    BY <1>1, <1>4, <1>5 DEF ChatInv

LEMMA StutterKeeps ==
  ASSUME ChatInv, UNCHANGED vars
  PROVE  ChatInv'
  BY DEF vars, ChatInv, ChatTypeOK

LEMMA InitInv == Init => ChatInv
  <1>. SUFFICES ASSUME Init PROVE ChatInv
    OBVIOUS
  <1>1. /\ mode \in Modes /\ doc \in {None} \cup [source : Sources, raw : BOOLEAN]
        /\ sessions = [s \in Sessions |-> None] /\ turn = [t \in Turns |-> Idle]
        /\ messages = <<>> /\ records = {} /\ lexical = {} /\ vectors = {}
        /\ replaced = 0 /\ failures = 0
    BY DEF Init
  <1>2. messages \in Seq(Message) /\ DOMAIN messages = {}
    BY <1>1
  <1>3. ChatTypeOK
    BY <1>1, <1>2 DEF ChatTypeOK, Turn
  <1>. QED
    BY <1>1, <1>2, <1>3 DEF ChatInv, Orderly, TurnFits, Idle

LEMMA StepInv == ChatInv /\ [Next]_vars => ChatInv'
  <1>. SUFFICES ASSUME ChatInv, [Next]_vars PROVE ChatInv'
    OBVIOUS
  <1>1. ASSUME NEW s \in Sources, ReplaceDocument(s) PROVE ChatInv'
    BY <1>1, ReplaceKeeps
  <1>2. ASSUME NEW s \in Sessions, CreateSession(s) PROVE ChatInv'
    BY <1>2, CreateSessionKeeps
  <1>3. ASSUME NEW s \in Sessions, GetSession(s) PROVE ChatInv'
    BY <1>3, StutterKeeps DEF GetSession
  <1>4. ASSUME NEW t \in Turns, NEW s \in Sessions, NEW q \in Questions,
               NEW key \in Keys \cup {None}, Ask(t, s, q, key)
        PROVE  ChatInv'
    BY <1>4, AskKeeps
  <1>5. ASSUME NEW t \in Turns, EmbedQuery(t) PROVE ChatInv'
    BY <1>5, EmbedQueryKeeps
  <1>6. ASSUME NEW t \in Turns, EmbedTexts(t) PROVE ChatInv'
    BY <1>6, EmbedTextsKeeps
  <1>7. ASSUME NEW t \in Turns, Generate(t) PROVE ChatInv'
    BY <1>7, GenerateKeeps
  <1>8. ASSUME NEW t \in Turns, Fail(t) PROVE ChatInv'
    BY <1>8, FailKeeps
  <1>9. CASE Crash
    BY <1>9, CrashKeeps
  <1>10. CASE UNCHANGED vars
    BY <1>10, StutterKeeps
  <1>. QED
    BY <1>1, <1>2, <1>3, <1>4, <1>5, <1>6, <1>7, <1>8, <1>9, <1>10 DEF Next

---------------------------------------------------------------------------
(* What a reader of a chat relies on. *)

\* The inductive invariant of sessions, turns, transcript and records.
THEOREM ChatInvariant == ChatSpec => []ChatInv
  BY InitInv, StepInv, PTL DEF ChatSpec

\* Type correctness of the tables, the caches and the turns.
THEOREM ChatTypes == ChatSpec => []ChatTypeOK
  <1>1. ChatInv => ChatTypeOK
    BY DEF ChatInv
  <1>. QED
    BY <1>1, ChatInvariant, PTL

\* What send_chat_message returns, at once or replayed under a key, is in the
\* transcript after the question it answers.
THEOREM RepliesHold == ChatSpec => []RepliesArePersisted
  <1>1. ChatInv => RepliesArePersisted
    <2>. SUFFICES ASSUME ChatInv, NEW t \in Turns,
                         turn[t].op = "done", turn[t].reply # None
                  PROVE  /\ turn[t].reply.session = turn[t].session
                         /\ turn[t].reply.question = turn[t].question
                         /\ turn[t].reply.status \in {"ANSWERED", "INSUFFICIENT_EVIDENCE"}
                         /\ \E i, j \in DOMAIN messages :
                              /\ i < j
                              /\ messages[j] = turn[t].reply
                              /\ messages[i].turn = turn[t].reply.turn
                              /\ messages[i].role = "USER"
      BY DEF RepliesArePersisted
    <2>1. Fits(messages, turn[t].reply, turn[t].session, turn[t].question)
      BY DEF ChatInv, TurnFits
    <2>. QED
      BY <2>1 DEF Fits, AskedBefore
  <1>. QED
    BY <1>1, ChatInvariant, PTL

\* However the turns of a session interleave and wherever they fail, a question
\* in the transcript is followed by at most one reply of its turn.
THEOREM OneReplyHolds == ChatSpec => []OneReplyPerQuestion
  <1>1. ChatInv => OneReplyPerQuestion
    BY DEF ChatInv, Orderly, OneReplyPerQuestion
  <1>. QED
    BY <1>1, ChatInvariant, PTL

---------------------------------------------------------------------------
(* What an answer cites. *)

LEMMA AddedNone ==
  ASSUME ChatTypeOK, messages' = messages
  PROVE  Added = {}
  <1>1. Len(messages) \in Nat /\ Len(messages') = Len(messages)
    BY DEF ChatTypeOK
  <1>. QED
    BY <1>1 DEF Added

LEMMA AddedOne ==
  ASSUME ChatTypeOK, NEW x \in Message, messages' = Append(messages, x)
  PROVE  Added = {x}
  <1>1. /\ Len(messages) \in Nat /\ Len(messages') = Len(messages) + 1
        /\ messages'[Len(messages) + 1] = x
    BY AppendFacts DEF ChatTypeOK
  <1>2. (Len(messages) + 1) .. Len(messages') = {Len(messages) + 1}
    BY <1>1
  <1>. QED
    BY <1>1, <1>2 DEF Added

LEMMA AddedTwo ==
  ASSUME ChatTypeOK, NEW x \in Message, NEW y \in Message,
         messages' = Append(Append(messages, x), y)
  PROVE  Added = {x, y}
  <1>. DEFINE log == Append(messages, x)
  <1>1. /\ log \in Seq(Message) /\ Len(messages) \in Nat
        /\ Len(log) = Len(messages) + 1 /\ log[Len(messages) + 1] = x
        /\ DOMAIN log = DOMAIN messages \cup {Len(messages) + 1}
    BY AppendFacts DEF ChatTypeOK
  <1>2. messages' = Append(log, y)
    OBVIOUS
  <1>. HIDE DEF log
  <1>3. /\ Len(messages') = Len(log) + 1 /\ messages'[Len(log) + 1] = y
        /\ \A i \in DOMAIN log : messages'[i] = log[i]
    BY <1>1, <1>2, AppendFacts
  <1>4. messages'[Len(messages) + 1] = x /\ messages'[Len(messages) + 2] = y
    BY <1>1, <1>3
  <1>5. (Len(messages) + 1) .. Len(messages') = {Len(messages) + 1, Len(messages) + 2}
    BY <1>1, <1>3
  <1>. QED
    BY <1>4, <1>5 DEF Added

\* The end of retrieval answers nothing: it saves the question, and at most
\* that there is too little evidence.
LEMMA RetrievedIsNoAnswer ==
  ASSUME ChatTypeOK, NEW t \in Turns, NEW k \in ActiveTurn, NEW items,
         Retrieved(t, k, items), NEW a \in Added
  PROVE  a.status # "ANSWERED"
  <1>. DEFINE x == UserMessage(t, k)
  <1>. DEFINE y == Reply(t, k, "INSUFFICIENT_EVIDENCE", {})
  <1>1. x \in Message /\ y \in Message
    BY MessageTypes
  <1>2. x.status # "ANSWERED" /\ y.status # "ANSWERED"
    BY DEF UserMessage, Reply
  <1>3. messages' = Append(Append(messages, x), y) \/ messages' = Append(messages, x)
    BY DEF Retrieved, Returns
  <1>. HIDE DEF x, y
  <1>4. Added \in {{x, y}, {x}}
    BY <1>1, <1>3, AddedOne, AddedTwo
  <1>. QED
    BY <1>2, <1>4

LEMMA AskIsNoAnswer ==
  ASSUME ChatInv, NEW t \in Turns, NEW s \in Sessions, NEW q \in Questions,
         NEW key \in Keys \cup {None}, Ask(t, s, q, key), NEW a \in Added
  PROVE  a.status # "ANSWERED"
  <1>. DEFINE k == [op |-> "query", session |-> s, question |-> q, key |-> key,
                    doc |-> IF doc = None THEN None ELSE doc.source,
                    evidence |-> Current, missing |-> {}, items |-> {}]
  <1>1. messages' = messages \/ (~Frozen(k) /\ \E items : Retrieved(t, k, items))
    BY DEF Ask
  <1>2. messages' # messages
    BY AddedNone DEF ChatInv
  <1>3. PICK items : Retrieved(t, k, items)
    BY <1>1, <1>2
  <1>4. doc # None /\ doc.source \in Sources
    BY <1>1, <1>2 DEF Frozen, ChatInv, ChatTypeOK
  <1>5. k \in ActiveTurn
    BY <1>4, CurrentType DEF ActiveTurn, ChatInv
  <1>. HIDE DEF k
  <1>. QED
    BY <1>3, <1>5, RetrievedIsNoAnswer DEF ChatInv

LEMMA EmbeddingIsNoAnswer ==
  ASSUME ChatInv, NEW t \in Turns, EmbedQuery(t) \/ EmbedTexts(t), NEW a \in Added
  PROVE  a.status # "ANSWERED"
  <1>. DEFINE k == turn[t]
  <1>1. k.op \in {"query", "embed"}
    BY DEF EmbedQuery, EmbedTexts
  <1>2. k \in ActiveTurn
    BY <1>1, InFlightFacts
  <1>3. messages' = messages \/ \E items : Retrieved(t, k, items)
    BY DEF EmbedQuery, EmbedTexts, FallBack, Ranked
  <1>. HIDE DEF k
  <1>. QED
    BY <1>2, <1>3, AddedNone, RetrievedIsNoAnswer DEF ChatInv

\* Validation and the saving of an answer share one step, so what was cited is
\* what the provider was shown, and it is there.
LEMMA AnswerIsGrounded ==
  ASSUME ChatInv, NEW t \in Turns, Generate(t), NEW a \in Added, a.status = "ANSWERED"
  PROVE  /\ doc # None /\ doc.source = sessions[a.session]
         /\ a.cites # {}
         /\ a.cites \subseteq Current \cap turn[a.turn].items
  <1>. DEFINE k == turn[t]
  <1>1. k.op = "generate" /\ k \in ActiveTurn /\ k.doc = sessions[k.session]
    BY InFlightFacts DEF Generate
  <1>2. /\ Reply(t, k, "INSUFFICIENT_EVIDENCE", {}) \in Message
        /\ Reply(t, k, "GENERATION_FAILED", {}) \in Message
        /\ Reply(t, k, "INSUFFICIENT_EVIDENCE", {}).status # "ANSWERED"
        /\ Reply(t, k, "GENERATION_FAILED", {}).status # "ANSWERED"
    BY <1>1, MessageTypes DEF Reply
  <1>3. PICK cites : /\ Valid(k, cites)
                     /\ messages' = Append(messages, Reply(t, k, "ANSWERED", Stored(cites)))
    <2>1. \/ messages' = Append(messages, Reply(t, k, "INSUFFICIENT_EVIDENCE", {}))
          \/ messages' = Append(messages, Reply(t, k, "GENERATION_FAILED", {}))
          \/ \E cites : /\ Valid(k, cites)
                        /\ messages' = Append(messages, Reply(t, k, "ANSWERED", Stored(cites)))
      BY DEF Generate, Returns
    <2>. HIDE DEF k
    <2>. QED
      BY <1>2, <2>1, AddedOne DEF ChatInv
  <1>. DEFINE found == Stored(cites)
  <1>4. found \subseteq Current /\ found \subseteq Item
    BY CurrentType DEF Stored, ChatInv
  <1>5. a = Reply(t, k, "ANSWERED", found)
    BY <1>1, <1>3, <1>4, AddedOne, MessageTypes DEF ChatInv
  <1>6. a.turn = t /\ a.session = k.session /\ a.cites = found
    BY <1>5 DEF Reply
  <1>7. found # {}
    BY <1>3 DEF Valid, Ids
  <1>8. ASSUME NEW e \in found
        PROVE  e \in k.items /\ e.doc = k.doc
    <2>1. e.id \in cites /\ e.doc = k.doc /\ e \in Item
      BY <1>3, <1>4 DEF Stored, Valid
    <2>2. PICK i \in k.items : i.id = e.id
      BY <1>3, <2>1 DEF Valid, Ids
    <2>3. i \in Item /\ i.doc = e.doc /\ i.text = e.text
      BY <1>1, <1>3, <2>1, <2>2 DEF Valid, ActiveTurn
    <2>4. i = e
      BY <2>1, <2>2, <2>3 DEF Item
    <2>. QED
      BY <2>1, <2>2, <2>4
  <1>9. doc # None /\ doc.source = k.doc
    <2>1. PICK e \in found : TRUE
      BY <1>7
    <2>2. e \in Current /\ e.doc = k.doc
      BY <1>4, <1>8
    <2>. QED
      BY <2>2 DEF Current, Evidence
  <1>. HIDE DEF found
  <1>. QED
    BY <1>1, <1>4, <1>6, <1>7, <1>8, <1>9

\* Whatever was replaced while providers were asked, an answer is saved only
\* for the active document of its session, with citations that were shown to
\* the provider and are in the registry.
THEOREM AnswersHold == ChatSpec => AnsweredIsGrounded
  <1>. DEFINE Grounded(a) ==
         a.status = "ANSWERED" =>
           /\ doc # None /\ doc.source = sessions[a.session]
           /\ a.cites # {}
           /\ a.cites \subseteq Current \cap turn[a.turn].items
  <1>1. ChatInv /\ [Next]_vars => [\A a \in Added : Grounded(a)]_vars
    <2>. SUFFICES ASSUME ChatInv, Next, NEW a \in Added PROVE Grounded(a)
      OBVIOUS
    <2>1. messages' # messages
      BY AddedNone DEF ChatInv
    <2>2. \E t \in Turns :
            \/ \E s \in Sessions, q \in Questions, key \in Keys \cup {None} : Ask(t, s, q, key)
            \/ EmbedQuery(t) \/ EmbedTexts(t) \/ Generate(t)
      BY <2>1 DEF Next, ReplaceDocument, CreateSession, GetSession, vars, Fail, Crash
    <2>. QED
      BY <2>2, AskIsNoAnswer, EmbeddingIsNoAnswer, AnswerIsGrounded
  <1>2. ChatSpec => [][\A a \in Added : Grounded(a)]_vars
    BY <1>1, ChatInvariant, PTL DEF ChatSpec
  <1>. QED
    BY <1>2 DEF AnsweredIsGrounded
=============================================================================
