----------------------------- MODULE PaperChat -----------------------------
(***************************************************************************)
(* Evidence-grounded chat about one paper: PaperChatService.answer with    *)
(* its retrievers, the stored embeddings and the idempotency records of    *)
(* the message route.                                                      *)
(*                                                                         *)
(* A turn is one POST of a question.  It gives up the event loop while the *)
(* embedding provider embeds the query, while it embeds evidence without a *)
(* stored vector, and while the chat provider answers; other turns run and *)
(* the document may be replaced in between.                                *)
(*                                                                         *)
(* A document has the id and hash of its source; its evidence ids are raw  *)
(* or prefixed (see DerivedData).                                          *)
(***************************************************************************)
EXTENDS Naturals, Sequences, FiniteSets

CONSTANTS Turns,        \* requests, each with one question
          Sessions,     \* chat sessions
          Questions,    \* normalized questions
          Keys,         \* Idempotency-Key headers
          Sources,      \* what the paper may be parsed from
          Numbers,      \* evidence numbers of a document
          Modes,        \* retrieval modes a deployment may choose
          MaxReplaced,  \* bound on documents stored in a behaviour
          MaxFailures,  \* bound on crashes and failed writes
          None

ASSUME BoundsAssumption == MaxReplaced \in Nat /\ MaxFailures \in Nat
ASSUME NoneAssumption == None \notin Sources \cup Keys \cup {"ANSWERED"}
ASSUME ModesAssumption == Modes \subseteq {"LEXICAL", "SEMANTIC", "HYBRID"}

VARIABLES mode,      \* the retrieval mode
          doc,       \* the active document
          sessions,  \* the document each session is bound to
          turn,      \* the requests
          messages,  \* chat messages in the order they were saved
          records,   \* idempotency records
          lexical,   \* the retriever's in-process cache
          vectors,   \* stored embeddings
          replaced, failures

vars == <<mode, doc, sessions, turn, messages, records, lexical, vectors, replaced, failures>>

---------------------------------------------------------------------------
(* Documents, evidence and what is retrieved. *)

Raw == "raw"
EvidenceId(d, n) == <<IF d.raw THEN Raw ELSE d.source, n>>

\* get_evidence_for_document: the registry's entries, as retrievers copy them.
Evidence(d) == {[id |-> EvidenceId(d, n), doc |-> d.source, text |-> <<d.source, n>>] : n \in Numbers}
Current == IF doc = None THEN {} ELSE Evidence(doc)
Ids(items) == {i.id : i \in items}

\* get_evidence_many
Stored(ids) == {e \in Current : e.id \in ids}

\* BM25EvidenceRetriever.retrieve ranks the active document's evidence and
\* keeps the result under the document's hash and the query.
LexicalKey(q) == [source |-> doc.source, query |-> q]
Cached(q) == {c \in lexical : c.key = LexicalKey(q)}
LexicalResults(q) ==
  IF doc = None THEN {{}}
  ELSE IF Cached(q) # {} THEN {c.items : c \in Cached(q)}
  ELSE SUBSET Current

\* Nothing is cached for a document without usable evidence.
Remembered(q, items) ==
  IF doc = None \/ Cached(q) # {} THEN lexical
  ELSE lexical \cup {[key |-> LexicalKey(q), items |-> items]}

\* save_embeddings: one row per document and evidence id.
StoredVectors(source) == {v \in vectors : v.doc = source}
Embedded(source, items) ==
  {v \in vectors : ~(v.doc = source /\ v.id \in Ids(items))}
    \cup {[doc |-> source, id |-> i.id, text |-> i.text] : i \in items}

\* Evidence whose vector is absent or of another text.
Missing(source, items) ==
  {i \in items : ~\E v \in StoredVectors(source) : v.id = i.id /\ v.text = i.text}

---------------------------------------------------------------------------
(* State. *)

Idle == [op |-> "new"]
Done(k, reply) == [op |-> "done", session |-> k.session, question |-> k.question,
                   key |-> k.key, reply |-> reply]
Refused(k) == Done(k, None)

Init ==
  /\ mode \in Modes
  /\ doc \in {None} \cup [source : Sources, raw : BOOLEAN]
  /\ sessions = [s \in Sessions |-> None]
  /\ turn = [t \in Turns |-> Idle]
  /\ messages = <<>>
  /\ records = {}
  /\ lexical = {}
  /\ vectors = {}
  /\ replaced = 0
  /\ failures = 0

\* replace_document; ids stay raw unless another document has them.
ReplaceDocument(s) ==
  /\ replaced < MaxReplaced
  /\ \E raw \in IF doc # None /\ doc.raw THEN {doc.source = s} ELSE BOOLEAN :
       doc' = [source |-> s, raw |-> raw]
  /\ replaced' = replaced + 1
  /\ UNCHANGED <<mode, sessions, turn, messages, records, lexical, vectors, failures>>

\* A session is bound to the document of its creation.
CreateSession(s) ==
  /\ sessions[s] = None
  /\ doc # None
  /\ sessions' = [sessions EXCEPT ![s] = doc.source]
  /\ UNCHANGED <<mode, doc, turn, messages, records, lexical, vectors, replaced, failures>>

---------------------------------------------------------------------------
(* A turn. *)

UserMessage(t, k) ==
  [turn |-> t, session |-> k.session, question |-> k.question, role |-> "USER",
   status |-> None, cites |-> {}]
Reply(t, k, status, cites) ==
  [turn |-> t, session |-> k.session, question |-> k.question, role |-> "ASSISTANT",
   status |-> status, cites |-> cites]

Goes(t, k) == turn' = [turn EXCEPT ![t] = k]

\* The route stores the reply under the caller's key once the turn returned.
MutantScope(k) == <<k.session, k.key>>
Scope(k) == <<k.session, k.question, k.key>>
Recorded(k, reply) ==
  IF k.key = None THEN records
  ELSE {r \in records : r.scope # Scope(k)} \cup {[scope |-> Scope(k), reply |-> reply]}

\* The turn returns a reply that was just saved.  The two writes are separate:
\* the second may fail after the first.
Returns(t, k, before, reply) ==
  /\ messages' = Append(before, reply)
  /\ \/ /\ records' = Recorded(k, reply)
        /\ Goes(t, Done(k, reply))
        /\ UNCHANGED failures
     \/ /\ k.key # None
        /\ failures < MaxFailures
        /\ failures' = failures + 1
        /\ Goes(t, Refused(k))
        /\ UNCHANGED records

\* Retrieval is over: save the question, and answer at once when nothing
\* relevant was found.  Otherwise the chat provider is asked.
MutantRetrieved(t, k, items) ==
  LET asked == Append(messages, UserMessage(t, k))
  IN \/ /\ messages' = Append(asked, Reply(t, k, "INSUFFICIENT_EVIDENCE", {}))
        /\ Goes(t, [k EXCEPT !.op = "generate", !.items = items])
        /\ UNCHANGED <<records, failures>>
     \/ /\ items # {}
        /\ messages' = asked
        /\ Goes(t, [k EXCEPT !.op = "generate", !.items = items])
        /\ UNCHANGED <<records, failures>>
Retrieved(t, k, items) ==
  LET asked == Append(messages, UserMessage(t, k))
  IN \/ Returns(t, k, asked, Reply(t, k, "INSUFFICIENT_EVIDENCE", {}))
     \/ /\ items # {}
        /\ messages' = asked
        /\ Goes(t, [k EXCEPT !.op = "generate", !.items = items])
        /\ UNCHANGED <<records, failures>>

\* BM25 without a cache, over whatever document is active by then.
FallBack(t, k) == \E items \in SUBSET Current : Retrieved(t, k, items)

\* Vectors of the evidence that still has one rank it; hybrid retrieval adds
\* what the lexical retriever found.
Ranked(t, k, known) ==
  \E found \in SUBSET {i \in k.evidence : \E v \in known : v.id = i.id} :
    Retrieved(t, k, found \cup k.items)

\* The checks of answer, up to its first await.  A session is frozen once its
\* paper has another document.
MutantFrozen(k) == FALSE
Frozen(k) == doc = None \/ doc.source # sessions[k.session]

Ask(t, s, q, key) ==
  LET k == [op |-> "query", session |-> s, question |-> q, key |-> key,
            doc |-> IF doc = None THEN None ELSE doc.source,
            evidence |-> Current, missing |-> {}, items |-> {}]
      known == {r \in records : key # None /\ r.scope = Scope(k)}
  IN /\ turn[t] = Idle
     /\ sessions[s] # None
     /\ UNCHANGED <<mode, doc, sessions, vectors, replaced>>
     /\ \/ /\ known # {}
           /\ \E r \in known : Goes(t, Done(k, r.reply))
           /\ UNCHANGED <<messages, records, lexical, failures>>
        \/ /\ known = {}
           /\ Frozen(k)
           /\ Goes(t, Refused(k))
           /\ UNCHANGED <<messages, records, lexical, failures>>
        \/ /\ known = {}
           /\ ~Frozen(k)
           /\ mode = "LEXICAL"
           /\ \E items \in LexicalResults(q) :
                Retrieved(t, k, items) /\ lexical' = Remembered(q, items)
        \/ /\ known = {}
           /\ ~Frozen(k)
           /\ mode = "SEMANTIC"
           /\ Goes(t, k)
           /\ UNCHANGED <<messages, records, lexical, failures>>
        \/ /\ known = {}
           /\ ~Frozen(k)
           /\ mode = "HYBRID"
           /\ \E items \in LexicalResults(q) :
                Goes(t, [k EXCEPT !.items = items]) /\ lexical' = Remembered(q, items)
           /\ UNCHANGED <<messages, records, failures>>

\* embed_query returned or failed.
EmbedQuery(t) ==
  LET k == turn[t]
  IN /\ k.op = "query"
     /\ \/ FallBack(t, k)
        \/ /\ Missing(k.doc, k.evidence) = {}
           /\ Ranked(t, k, StoredVectors(k.doc))
        \/ /\ Missing(k.doc, k.evidence) # {}
           /\ Goes(t, [k EXCEPT !.op = "embed", !.missing = Missing(k.doc, k.evidence)])
           /\ UNCHANGED <<messages, records, failures>>
     /\ UNCHANGED <<mode, doc, sessions, lexical, vectors, replaced>>

\* embed_texts returned or failed.  The vectors are saved for the document the
\* evidence was read from, active or not.  Embedding what another turn has
\* embedded meanwhile rewrites the same rows.
EmbedTexts(t) ==
  LET k == turn[t]
      saved == Embedded(k.doc, k.missing)
  IN /\ k.op = "embed"
     /\ \/ FallBack(t, k) /\ UNCHANGED vectors
        \/ /\ vectors' = saved
           /\ Ranked(t, k, {v \in saved : v.doc = k.doc})
     /\ UNCHANGED <<mode, doc, sessions, lexical, replaced>>

\* _validate_output: the claims cite supplied evidence of the document the
\* turn began with, and the registry still has it with the supplied text.
MutantValid(k, cites) == cites # {} /\ cites \subseteq Ids(k.items)
Valid(k, cites) ==
  /\ cites # {}
  /\ \A i \in k.items : i.doc = k.doc
  /\ cites \subseteq Ids(k.items)
  /\ Ids(Stored(cites)) = cites
  /\ \A e \in Stored(cites) :
       e.doc = k.doc /\ \A i \in k.items : i.id = e.id => i.text = e.text

\* The provider answered: with a failure, with too little evidence, or with
\* claims, which are validated.  Only a failure is not recorded for retries.
Generate(t) ==
  LET k == turn[t]
  IN /\ k.op = "generate"
     /\ \/ Returns(t, k, messages, Reply(t, k, "INSUFFICIENT_EVIDENCE", {}))
        \/ \E cites \in SUBSET (Ids(k.items) \cup Ids(Current)) :
             /\ Valid(k, cites)
             /\ Returns(t, k, messages, Reply(t, k, "ANSWERED", Stored(cites)))
        \/ /\ messages' = Append(messages, Reply(t, k, "GENERATION_FAILED", {}))
           /\ Goes(t, Refused(k))
           /\ UNCHANGED <<records, failures>>
     /\ UNCHANGED <<mode, doc, sessions, lexical, vectors, replaced>>

\* A write of a turn in flight fails: its request ends, its message is missing.
InFlight(t) == turn[t].op \in {"query", "embed", "generate"}
Fail(t) ==
  /\ InFlight(t)
  /\ failures < MaxFailures
  /\ failures' = failures + 1
  /\ Goes(t, Refused(turn[t]))
  /\ UNCHANGED <<mode, doc, sessions, messages, records, lexical, vectors, replaced>>

\* The process restarts: turns in flight and the in-process cache are gone.
Crash ==
  /\ failures < MaxFailures
  /\ failures' = failures + 1
  /\ turn' = [t \in Turns |-> IF InFlight(t) THEN Refused(turn[t]) ELSE turn[t]]
  /\ lexical' = {}
  /\ UNCHANGED <<mode, doc, sessions, messages, records, vectors, replaced>>

\* Reading a session, or asking in one that does not exist.
GetSession(s) == UNCHANGED vars

Next ==
  \/ \E s \in Sources : ReplaceDocument(s)
  \/ \E s \in Sessions : CreateSession(s) \/ GetSession(s)
  \/ \E t \in Turns :
       \/ \E s \in Sessions, q \in Questions, key \in Keys \cup {None} : Ask(t, s, q, key)
       \/ EmbedQuery(t)
       \/ EmbedTexts(t)
       \/ Generate(t)
       \/ Fail(t)
  \/ Crash

ChatSpec == Init /\ [][Next]_vars

---------------------------------------------------------------------------
(* What a reader of a chat relies on. *)

Added == {messages'[i] : i \in (Len(messages) + 1) .. Len(messages')}

\* Whatever was replaced while the providers were asked: an answer is saved
\* only while its session's document is the active one, and every passage it
\* cites is in the registry with the text the provider was shown.
AnsweredIsGrounded ==
  [][\A a \in Added :
       a.status = "ANSWERED" =>
         /\ doc # None /\ doc.source = sessions[a.session]
         /\ a.cites # {}
         /\ a.cites \subseteq Current \cap turn[a.turn].items]_vars

\* A client is only ever told what the transcript holds: a reply, replayed
\* under a key or not, answers the question asked, in its session, is not a
\* failure, and comes after the question of the turn that produced it.
RepliesArePersisted ==
  \A t \in Turns :
    LET k == turn[t]
    IN k.op = "done" /\ k.reply # None =>
         /\ k.reply.session = k.session /\ k.reply.question = k.question
         /\ k.reply.status \in {"ANSWERED", "INSUFFICIENT_EVIDENCE"}
         /\ \E i, j \in DOMAIN messages :
              /\ i < j
              /\ messages[j] = k.reply
              /\ messages[i].turn = k.reply.turn /\ messages[i].role = "USER"

\* The transcript of a turn is its question, then at most one reply, however
\* turns of a session interleave and wherever they end.
OneReplyPerQuestion ==
  \A i, j \in DOMAIN messages :
    i < j /\ messages[i].turn = messages[j].turn =>
      messages[i].role = "USER" /\ messages[j].role = "ASSISTANT"

\* database.py, IdempotencyRecord: a response cache for safe client retries.
\* A question repeated under its key is answered once.
Answered(t) == \E i \in DOMAIN messages : messages[i].turn = t /\ messages[i].status = "ANSWERED"
OneAnswerPerKey ==
  \A t, u \in Turns :
    /\ turn[t].op = "done" /\ turn[u].op = "done"
    /\ turn[t].key # None /\ turn[t].key = turn[u].key
    /\ turn[t].session = turn[u].session /\ turn[t].question = turn[u].question
    /\ Answered(t) /\ Answered(u)
    => t = u
===========================================================================
