------------------------- MODULE DerivedData_proofs -------------------------
(***************************************************************************)
(* Proofs about DerivedData, for any papers, sources, evidence, stages,    *)
(* models and requests, with the visual model on or off: what is stored    *)
(* under the key of a document is of that document, however many requests  *)
(* were under way and whatever replaced the document meanwhile.            *)
(*                                                                         *)
(* A request works on the document it read first, so the invariant says of *)
(* every request what will be true of the row it writes at its end, in     *)
(* terms of the document the request holds, never of the active one.       *)
(***************************************************************************)
EXTENDS DerivedData, FiniteSetTheorems, TLAPS

USE PapersAssumption, NumbersAssumption, BoundsAssumption, SourcesAssumption

---------------------------------------------------------------------------
(* The types of requests and verdicts. *)

Texts == SUBSET (EvidenceIds \X ({None} \cup (Sources \X Numbers)))
Key == [source: Sources, claim: Claim, model: Models, evidence: Texts]
Item == [key: Key, claim: Claim, texts: Texts]
Verdict == [key: Key, claim: Claim, texts: Texts, status: Verdicts]
Fingerprints == SUBSET SUBSET Claim

ExtractRequest == [op: {"extract"}, doc: Document, model: Models,
                   todo: SUBSET Stages, claims: SUBSET Claim]
VerifyRequest == [op: {"verify"}, todo: SUBSET Item, fresh: SUBSET Verdict]
LookRequest == [op: {"look"}, doc: Document, fingerprint: Fingerprints,
                model: Models, simplify: BOOLEAN]
SimplifyRequest == [op: {"simplify"}, doc: Document, model: Models,
                    fingerprint: Fingerprints, simplify: BOOLEAN,
                    blocks: SUBSET Block, todo: SUBSET Block, block: Block]
Request == {Idle} \cup ExtractRequest \cup VerifyRequest \cup LookRequest
             \cup SimplifyRequest

\* A paper once stored is never taken away, so a request that found one keeps one.
SubjectStays == \A r \in Requests : request[r] # Idle => doc[Subject] \in Document

TypesHold ==
  /\ DerivedTypeOK
  /\ request \in [Requests -> Request]
  /\ verdicts \subseteq Verdict
  /\ SubjectStays

---------------------------------------------------------------------------
(* The invariant. *)

\* Claims made from the document of source s.
ClaimsOf(claims, s) ==
  \A c \in claims : c.cites \subseteq OwnIds(s) /\ (~c.visual => c.source = s)

\* The key of a claim tells the claim and the texts it was judged on.
KeyTells(p) == p.key.claim = p.claim /\ p.key.evidence = p.texts

\* Only a claim whose citations are of its own document was really judged.
Judged(v) ==
  v.status # "UNVERIFIED" => \A e \in v.texts : e[2][1] = v.claim.source

StagesOf(f) == {c.stage : c \in UNION f}

\* Blocks assembled from an analysis with this fingerprint and this source.
Shows(blocks, f, s) ==
  /\ {x.name : x \in blocks} \ {FigureBlock} = StagesOf(f)
  /\ \A x \in blocks : x.cites \subseteq OwnIds(s)

\* The blocks a simplification works on are all ready; the one it waits for and
\* the ones still to do are among them.
Simplifying(t) ==
  /\ Shows(t.blocks, t.fingerprint, t.doc.source)
  /\ \A x \in t.blocks : x.status = "READY"
  /\ t.block \in t.blocks
  /\ t.todo \subseteq t.blocks \ {t.block}

RequestInv(t) ==
  /\ t.op = "extract" => ClaimsOf(t.claims, t.doc.source)
  /\ t.op = "verify" => /\ \A p \in t.todo : KeyTells(p)
                        /\ \A v \in t.fresh : KeyTells(v) /\ Judged(v)
  /\ t.op = "simplify" => Simplifying(t)

\* A stored paper shows its fingerprint, and waits for one block at most.
PaperInv(x) ==
  x # None =>
    /\ Shows(x.blocks, x.fingerprint, x.source)
    /\ \A b, c \in x.blocks : b.status = "GENERATING" /\ c.status = "GENERATING" => b = c

IInv ==
  /\ TypesHold
  /\ \A r \in Requests : RequestInv(request[r])
  /\ AnalysisIsOfItsDocument
  /\ \A v \in verdicts : KeyTells(v) /\ Judged(v)
  /\ PaperInv(paper)

---------------------------------------------------------------------------
(* Evidence ids. *)

\* The ids of a document, rebuilt ones too, are ids of its source.
LEMMA IdsAreOwn ==
  ASSUME NEW d \in Document, NEW n \in Numbers
  PROVE  /\ EvidenceId(d, n) \in EvidenceIds \cap OwnIds(d.source)
         /\ RebuiltId(d, n) \in EvidenceIds \cap OwnIds(d.source)
  <1>1. /\ d.source \in Sources /\ d.raw \in BOOLEAN
        /\ EvidenceId(d, n) \in {<<Raw, n>>, <<d.source, n>>}
        /\ RebuiltId(d, n) \in {<<Raw, n>>, <<d.source, n>>}
    BY DEF Document, EvidenceId, RebuiltId
  <1>2. <<Raw, n>> \in EvidenceIds /\ <<d.source, n>> \in EvidenceIds
    BY <1>1 DEF EvidenceIds
  <1>3. /\ EvidenceId([source |-> d.source, raw |-> TRUE], n) = <<Raw, n>>
        /\ EvidenceId([source |-> d.source, raw |-> FALSE], n) = <<d.source, n>>
    BY DEF EvidenceId
  <1>4. <<Raw, n>> \in OwnIds(d.source) /\ <<d.source, n>> \in OwnIds(d.source)
    <2>1. \A r \in BOOLEAN :
            EvidenceId([source |-> d.source, raw |-> r], n) \in OwnIds(d.source)
      BY DEF OwnIds
    <2>2. TRUE \in BOOLEAN /\ FALSE \in BOOLEAN
      OBVIOUS
    <2>. QED
      BY <1>3, <2>1, <2>2
  <1>. QED
    BY <1>1, <1>2, <1>4

LEMMA AvailableIsOwn ==
  ASSUME NEW d \in Document
  PROVE  AvailableIds(d) \subseteq EvidenceIds \cap OwnIds(d.source)
  BY IdsAreOwn DEF AvailableIds

\* The text of an id is a text of some source, or nothing.
LEMMA TextType ==
  ASSUME TypesHold, NEW id \in EvidenceIds
  PROVE  Text(id) \in {None} \cup (Sources \X Numbers)
  <1>1. CASE doc[Subject] # None
    <2>1. doc[Subject] \in Document
      BY <1>1 DEF TypesHold, DerivedTypeOK
    <2>2. doc[Subject].source \in Sources /\ id[2] \in Numbers
      BY <2>1 DEF Document, EvidenceIds
    <2>. QED
      BY <2>2 DEF Text
  <1>2. CASE doc[Subject] = None
    BY <1>2 DEF Text
  <1>. QED
    BY <1>1, <1>2

---------------------------------------------------------------------------
(* What a step of one request has to show. *)

\* Each kind of request has its own type.
LEMMA RequestKinds ==
  ASSUME NEW t \in Request
  PROVE  /\ t.op = "extract" => t \in ExtractRequest
         /\ t.op = "verify" => t \in VerifyRequest
         /\ t.op = "look" => t \in LookRequest
         /\ t.op = "simplify" => t \in SimplifyRequest
         /\ t.op \in {"idle", "extract", "verify", "look", "simplify"}
  BY DEF Request, Idle, ExtractRequest, VerifyRequest, LookRequest, SimplifyRequest

LEMMA IdleIsFine == Idle \in Request /\ RequestInv(Idle)
  BY DEF Request, Idle, RequestInv

\* A request that is under way has a document to work on.
LEMMA BusyHasDocument ==
  ASSUME TypesHold, NEW r \in Requests, request[r].op # "idle"
  PROVE  doc[Subject] \in Document /\ request[r] \in Request
  BY DEF TypesHold, SubjectStays, Idle

\* A request moves on and may write one row: the invariant is kept if the new
\* state of the request and the row it writes are as the invariant wants them.
LEMMA MoveKeeps ==
  ASSUME IInv, NEW r \in Requests, NEW t \in Request, RequestInv(t),
         t # Idle => doc[Subject] \in Document,
         Continue(r, t),
         doc' = doc, replaced' = replaced,
         arrivals' \in 0 .. MaxArrivals, failures' \in 0 .. MaxFailures,
         \/ analysis' = analysis
         \/ analysis' \in AnalysisRecord /\ ClaimsOf(analysis'.claims, analysis'.source),
         \/ verdicts' = verdicts
         \/ /\ verdicts' \subseteq Verdict
            /\ \A v \in verdicts' : KeyTells(v) /\ Judged(v),
         \/ paper' = paper
         \/ paper' \in PaperRecord /\ PaperInv(paper')
  PROVE  IInv'
  <1>1. request \in [Requests -> Request] /\ SubjectStays
    BY DEF IInv, TypesHold
  <1>2. request' \in [Requests -> Request] /\ request'[r] = t
    BY <1>1 DEF Continue
  <1>3. \A q \in Requests : q # r => request'[q] = request[q]
    BY <1>1 DEF Continue
  <1>4. SubjectStays'
    BY <1>1, <1>2, <1>3 DEF SubjectStays
  <1>5. \A q \in Requests : RequestInv(request'[q])
    BY <1>2, <1>3 DEF IInv
  <1>6. verdicts' \subseteq Verdict
    BY DEF IInv, TypesHold
  <1>7. DerivedTypeOK'
    <2>1. \A q \in Requests :
            request'[q].op \in {"idle", "extract", "verify", "look", "simplify"}
      BY <1>2, RequestKinds
    <2>2. \A v \in verdicts' : v.status \in Verdicts
      BY <1>6 DEF Verdict
    <2>3. doc' \in [Papers -> {None} \cup Document] /\ replaced' \in 0 .. MaxReplaced
      BY DEF IInv, TypesHold, DerivedTypeOK
    <2>4. (analysis' = None \/ analysis' \in AnalysisRecord)
          /\ (paper' = None \/ paper' \in PaperRecord)
      BY DEF IInv, TypesHold, DerivedTypeOK
    <2>. QED
      BY <2>1, <2>2, <2>3, <2>4 DEF DerivedTypeOK
  <1>8. AnalysisIsOfItsDocument'
    BY DEF IInv, AnalysisIsOfItsDocument, ClaimsOf
  <1>9. \A v \in verdicts' : KeyTells(v) /\ Judged(v)
    BY DEF IInv
  <1>10. PaperInv(paper')
    BY DEF IInv
  <1>. QED
    BY <1>2, <1>4, <1>5, <1>6, <1>7, <1>8, <1>9, <1>10 DEF IInv, TypesHold

\* A step that leaves the rows alone.
LEMMA QuietMove ==
  ASSUME IInv, NEW r \in Requests, NEW t \in Request, RequestInv(t),
         t # Idle => doc[Subject] \in Document,
         Continue(r, t),
         UNCHANGED <<doc, stored, replaced>>,
         arrivals' \in 0 .. MaxArrivals, failures' \in 0 .. MaxFailures
  PROVE  IInv'
  BY MoveKeeps DEF stored

\* The counters stay within their bounds.
LEMMA Bounds ==
  ASSUME TypesHold
  PROVE  /\ arrivals \in 0 .. MaxArrivals /\ failures \in 0 .. MaxFailures
         /\ replaced \in 0 .. MaxReplaced
         /\ arrivals < MaxArrivals => arrivals + 1 \in 0 .. MaxArrivals
         /\ failures < MaxFailures => failures + 1 \in 0 .. MaxFailures
         /\ replaced < MaxReplaced => replaced + 1 \in 0 .. MaxReplaced
  BY DEF TypesHold, DerivedTypeOK

\* An arriving request finds the document it will work on.
LEMMA ArrivalFacts ==
  ASSUME TypesHold, NEW r \in Requests, Arrives(r)
  PROVE  doc[Subject] \in Document /\ arrivals' \in 0 .. MaxArrivals
  BY Bounds DEF TypesHold, DerivedTypeOK, Arrives

---------------------------------------------------------------------------
(* Extraction. *)

LEMMA ExtractKeeps ==
  ASSUME IInv, NEW r \in Requests, NEW m \in Models, Extract(r, m)
  PROVE  IInv'
  <1>. DEFINE t == [op |-> "extract", doc |-> doc[Subject], model |-> m,
                    todo |-> Stages, claims |-> {}]
  <1>1. TypesHold /\ Arrives(r) /\ Continue(r, t)
        /\ UNCHANGED <<doc, stored, replaced, failures>>
    BY DEF IInv, Extract
  <1>2. doc[Subject] \in Document /\ arrivals' \in 0 .. MaxArrivals
    BY <1>1, ArrivalFacts
  <1>3. t \in ExtractRequest
    BY <1>2 DEF ExtractRequest
  <1>4. t \in Request /\ RequestInv(t)
    BY <1>3 DEF Request, RequestInv, ClaimsOf
  <1>5. failures' \in 0 .. MaxFailures
    BY <1>1, Bounds
  <1>. HIDE DEF t
  <1>. QED
    BY <1>1, <1>2, <1>4, <1>5, QuietMove

\* What a stage finds in the text of the document it was given.
LEMMA TextClaimFits ==
  ASSUME NEW t \in ExtractRequest, NEW stage \in Stages,
         NEW c \in TextClaims(t, stage)
  PROVE  c \in Claim /\ c.cites \subseteq OwnIds(t.doc.source)
         /\ c.source = t.doc.source
  <1>1. t.doc \in Document /\ t.model \in Models /\ t.doc.source \in Sources
    BY DEF ExtractRequest, Document
  <1>2. PICK cites \in UNION {SUBSET s \ {{}} : s \in Selections(t.doc)} :
          c = [stage |-> stage, source |-> t.doc.source, cites |-> cites,
               model |-> t.model, visual |-> FALSE]
    BY DEF TextClaims
  <1>3. cites \subseteq {EvidenceId(t.doc, n) : n \in Paragraphs}
    BY DEF Selections
  <1>4. \A n \in Paragraphs : n \in Numbers
    BY DEF Numbers
  <1>5. cites \subseteq EvidenceIds \cap OwnIds(t.doc.source)
    BY <1>1, <1>3, <1>4, IdsAreOwn
  <1>. QED
    BY <1>1, <1>2, <1>5 DEF Claim

\* What it finds in the file of this moment still cites the document it was given.
LEMMA VisualClaimFits ==
  ASSUME NEW t \in ExtractRequest, NEW stage \in Stages, doc[Subject] \in Document,
         NEW c \in VisualClaims(t, stage)
  PROVE  c \in Claim /\ c.cites \subseteq OwnIds(t.doc.source) /\ c.visual
  <1>1. t.doc \in Document /\ t.model \in Models /\ doc[Subject].source \in Sources
    BY DEF ExtractRequest, Document
  <1>2. PICK cites \in SUBSET {RebuiltId(t.doc, n) : n \in Numbers} \ {{}} :
          c = [stage |-> stage, source |-> doc[Subject].source, cites |-> cites,
               model |-> t.model, visual |-> TRUE]
    BY DEF VisualClaims
  <1>3. cites \subseteq EvidenceIds \cap OwnIds(t.doc.source)
    BY <1>1, IdsAreOwn
  <1>. QED
    BY <1>1, <1>2, <1>3 DEF Claim

LEMMA ExtractStageKeeps ==
  ASSUME IInv, NEW r \in Requests, NEW stage \in Stages, ExtractStage(r, stage)
  PROVE  IInv'
  <1>. DEFINE t == request[r]
  <1>. DEFINE todo == t.todo \ {stage}
  <1>1. TypesHold /\ t.op = "extract" /\ RequestInv(t)
        /\ UNCHANGED <<doc, verdicts, paper, bounds>>
    BY DEF IInv, ExtractStage
  <1>2. doc[Subject] \in Document /\ t \in Request
    BY <1>1, BusyHasDocument
  <1>3. t \in ExtractRequest
    BY <1>1, <1>2, RequestKinds
  <1>4. PICK found \in {{}} \cup {{c} : c \in TextClaims(t, stage) \cup VisualClaims(t, stage)} :
          IF todo = {}
            THEN /\ analysis' = [source |-> t.doc.source, model |-> t.model,
                                 claims |-> t.claims \cup found]
                 /\ Answer(r)
            ELSE /\ Continue(r, [t EXCEPT !.todo = todo, !.claims = @ \cup found])
                 /\ UNCHANGED analysis
    BY DEF ExtractStage
  <1>5. found \subseteq Claim /\ ClaimsOf(found, t.doc.source)
    <2>1. \A c \in TextClaims(t, stage) \cup VisualClaims(t, stage) :
            c \in Claim /\ c.cites \subseteq OwnIds(t.doc.source)
            /\ (~c.visual => c.source = t.doc.source)
      BY <1>2, <1>3, TextClaimFits, VisualClaimFits
    <2>. QED
      BY <1>4, <2>1 DEF ClaimsOf
  <1>. DEFINE claims == t.claims \cup found
  <1>6. claims \subseteq Claim /\ ClaimsOf(claims, t.doc.source)
    BY <1>1, <1>3, <1>5 DEF ExtractRequest, RequestInv, ClaimsOf
  <1>7. arrivals' \in 0 .. MaxArrivals /\ failures' \in 0 .. MaxFailures
        /\ replaced' = replaced
    BY <1>1, Bounds DEF bounds
  <1>8. CASE todo = {}
    <2>. DEFINE a == [source |-> t.doc.source, model |-> t.model, claims |-> claims]
    <2>1. a \in AnalysisRecord /\ ClaimsOf(a.claims, a.source)
      BY <1>3, <1>6 DEF ExtractRequest, AnalysisRecord, Document
    <2>2. analysis' = a /\ Continue(r, Idle)
      BY <1>4, <1>8 DEF Answer, Continue
    <2>. HIDE DEF a, claims, t
    <2>. QED
      BY <1>1, <1>7, <2>1, <2>2, IdleIsFine, MoveKeeps
  <1>9. CASE todo # {}
    <2>. DEFINE u == [t EXCEPT !.todo = todo, !.claims = claims]
    <2>1. u \in ExtractRequest /\ u.op = "extract" /\ u.claims = claims /\ u.doc = t.doc
      BY <1>3, <1>6 DEF ExtractRequest
    <2>2. u \in Request /\ RequestInv(u)
      BY <1>6, <2>1 DEF Request, RequestInv
    <2>3. Continue(r, u) /\ analysis' = analysis
      BY <1>4, <1>9
    <2>. HIDE DEF u, claims, t
    <2>. QED
      BY <1>1, <1>2, <1>7, <2>2, <2>3, MoveKeeps
  <1>. QED
    BY <1>8, <1>9

---------------------------------------------------------------------------
(* Verification. *)

\* A prepared claim is keyed by what the store holds at this moment.
LEMMA PreparedFits ==
  ASSUME TypesHold, NEW m \in Models, doc[Subject] \in Document,
         analysis \in AnalysisRecord, NEW p \in Prepared(m)
  PROVE  p \in Item /\ KeyTells(p)
  <1>1. PICK c \in analysis.claims :
          p = [key |-> VerdictKey(c, m), claim |-> c,
               texts |-> {<<id, Text(id)>> : id \in c.cites}]
    BY DEF Prepared
  <1>. DEFINE texts == {<<id, Text(id)>> : id \in c.cites}
  <1>2. c \in Claim /\ c.cites \subseteq EvidenceIds /\ doc[Subject].source \in Sources
    BY DEF AnalysisRecord, Claim, Document
  <1>3. texts \in Texts
    BY <1>2, TextType DEF Texts
  <1>4. VerdictKey(c, m) = [source |-> doc[Subject].source, claim |-> c, model |-> m,
                            evidence |-> texts]
    BY DEF VerdictKey
  <1>. HIDE DEF texts
  <1>5. VerdictKey(c, m) \in Key
    BY <1>2, <1>3, <1>4 DEF Key
  <1>6. p = [key |-> VerdictKey(c, m), claim |-> c, texts |-> texts]
    BY <1>1 DEF texts
  <1>. QED
    BY <1>2, <1>3, <1>4, <1>5, <1>6 DEF Item, KeyTells

LEMMA VerifyKeeps ==
  ASSUME IInv, NEW r \in Requests, NEW m \in Models, Verify(r, m)
  PROVE  IInv'
  <1>. DEFINE missing == {p \in Prepared(m) : p.key \notin {v.key : v \in verdicts}}
  <1>. DEFINE t == [op |-> "verify", todo |-> missing, fresh |-> {}]
  <1>1. TypesHold /\ Arrives(r) /\ analysis # None /\ Continue(r, t)
        /\ UNCHANGED <<doc, stored, replaced, failures>>
    BY DEF IInv, Verify
  <1>2. doc[Subject] \in Document /\ arrivals' \in 0 .. MaxArrivals
    BY <1>1, ArrivalFacts
  <1>3. analysis \in AnalysisRecord
    BY <1>1 DEF TypesHold, DerivedTypeOK
  <1>4. \A p \in missing : p \in Item /\ KeyTells(p)
    BY <1>1, <1>2, <1>3, PreparedFits
  <1>. HIDE DEF missing
  <1>5. t \in VerifyRequest /\ t.op = "verify"
    BY <1>4 DEF VerifyRequest
  <1>6. t \in Request /\ RequestInv(t)
    BY <1>4, <1>5 DEF Request, RequestInv
  <1>7. failures' \in 0 .. MaxFailures
    BY <1>1, Bounds
  <1>. HIDE DEF t
  <1>. QED
    BY <1>1, <1>2, <1>6, <1>7, QuietMove

\* A verdict on a prepared claim is what its key tells, and a real one is only
\* given when every citation is of the claim's own document.
LEMMA VerdictFits ==
  ASSUME NEW p \in Item, KeyTells(p),
         NEW status \in (IF Invalid(p) THEN {"UNVERIFIED"} ELSE Verdicts),
         NEW v, v = [key |-> p.key, claim |-> p.claim, texts |-> p.texts,
                     status |-> status]
  PROVE  v \in Verdict /\ KeyTells(v) /\ Judged(v)
  <1>1. status \in Verdicts
    BY DEF Verdicts
  <1>2. v \in Verdict /\ KeyTells(v)
    BY <1>1 DEF Item, Verdict, KeyTells
  <1>. SUFFICES ASSUME v.status # "UNVERIFIED"
                PROVE  \A e \in v.texts : e[2][1] = v.claim.source
    BY <1>2 DEF Judged
  <1>3. v.status = status /\ v.texts = p.texts /\ v.claim = p.claim
    OBVIOUS
  <1>4. ~Invalid(p)
    BY <1>3
  <1>. QED
    BY <1>3, <1>4 DEF Invalid

LEMMA VerifyClaimKeeps ==
  ASSUME IInv, NEW r \in Requests, NEW p \in request[r].todo, VerifyClaim(r, p)
  PROVE  IInv'
  <1>. DEFINE t == request[r]
  <1>. DEFINE todo == t.todo \ {p}
  <1>1. TypesHold /\ t.op = "verify" /\ RequestInv(t)
        /\ UNCHANGED <<doc, analysis, paper, bounds>>
    BY DEF IInv, VerifyClaim
  <1>2. doc[Subject] \in Document /\ t \in Request
    BY <1>1, BusyHasDocument
  <1>3. t \in VerifyRequest
    BY <1>1, <1>2, RequestKinds
  <1>4. PICK status \in IF Invalid(p) THEN {"UNVERIFIED"} ELSE Verdicts :
          LET fresh == t.fresh \cup {[key |-> p.key, claim |-> p.claim, texts |-> p.texts,
                                      status |-> status]}
          IN IF todo = {}
               THEN verdicts' = Upserted(fresh) /\ Answer(r)
               ELSE /\ Continue(r, [t EXCEPT !.todo = todo, !.fresh = fresh])
                    /\ UNCHANGED verdicts
    BY DEF VerifyClaim
  <1>. DEFINE v == [key |-> p.key, claim |-> p.claim, texts |-> p.texts, status |-> status]
  <1>. DEFINE fresh == t.fresh \cup {v}
  <1>5. p \in Item /\ KeyTells(p)
    BY <1>1, <1>3 DEF VerifyRequest, RequestInv
  <1>6. v \in Verdict /\ KeyTells(v) /\ Judged(v)
    BY <1>5, VerdictFits
  <1>. HIDE DEF v
  <1>7. fresh \subseteq Verdict /\ \A x \in fresh : KeyTells(x) /\ Judged(x)
    BY <1>1, <1>3, <1>6 DEF VerifyRequest, RequestInv
  <1>8. arrivals' \in 0 .. MaxArrivals /\ failures' \in 0 .. MaxFailures
        /\ replaced' = replaced
    BY <1>1, Bounds DEF bounds
  <1>9. CASE todo = {}
    <2>1. verdicts' = Upserted(fresh) /\ Continue(r, Idle)
      BY <1>4, <1>9 DEF Answer, Continue, v
    <2>. HIDE DEF fresh
    <2>2. Upserted(fresh) \subseteq verdicts \cup fresh
      BY DEF Upserted
    <2>3. verdicts \subseteq Verdict /\ \A x \in verdicts : KeyTells(x) /\ Judged(x)
      BY DEF IInv, TypesHold
    <2>4. verdicts' \subseteq Verdict /\ \A x \in verdicts' : KeyTells(x) /\ Judged(x)
      BY <1>7, <2>1, <2>2, <2>3
    <2>. HIDE DEF t
    <2>. QED
      BY <1>1, <1>8, <2>1, <2>4, IdleIsFine, MoveKeeps
  <1>10. CASE todo # {}
    <2>. DEFINE u == [t EXCEPT !.todo = todo, !.fresh = fresh]
    <2>1. Continue(r, u) /\ verdicts' = verdicts
      BY <1>4, <1>10 DEF v
    <2>2. u \in VerifyRequest /\ u.todo = todo /\ u.fresh = fresh
      BY <1>3, <1>7 DEF VerifyRequest
    <2>3. u.op = "verify" /\ u \in Request
      BY <2>2 DEF VerifyRequest, Request
    <2>. HIDE DEF u, fresh
    <2>4. RequestInv(u)
      BY <1>1, <1>7, <2>2, <2>3 DEF RequestInv
    <2>. HIDE DEF t
    <2>. QED
      BY <1>1, <1>2, <1>8, <2>1, <2>3, <2>4, MoveKeeps
  <1>. QED
    BY <1>9, <1>10

---------------------------------------------------------------------------
(* The interactive paper. *)

\* A set whose elements are all the same has one at most.
LEMMA AtMostOne ==
  ASSUME NEW S, \A x, y \in S : x = y
  PROVE  Cardinality(S) <= 1
  <1>1. CASE S = {}
    BY <1>1, FS_EmptySet
  <1>2. CASE S # {}
    <2>1. PICK x \in S : TRUE
      BY <1>2
    <2>2. S = {x}
      BY <2>1
    <2>3. Cardinality(S) = 1
      BY <2>2, FS_Singleton
    <2>. QED
      BY <2>3
  <1>. QED
    BY <1>1, <1>2

LEMMA GenerateKeeps ==
  ASSUME IInv, NEW r \in Requests, NEW m \in Models, NEW simplify \in BOOLEAN,
         Generate(r, m, simplify)
  PROVE  IInv'
  <1>. DEFINE t == [op |-> "look", doc |-> doc[Subject], fingerprint |-> Fingerprint,
                    model |-> m, simplify |-> simplify]
  <1>1. TypesHold /\ Arrives(r) /\ Continue(r, t)
        /\ UNCHANGED <<doc, stored, replaced, failures>>
    BY DEF IInv, Generate
  <1>2. doc[Subject] \in Document /\ arrivals' \in 0 .. MaxArrivals
    BY <1>1, ArrivalFacts
  <1>3. Fingerprint \in Fingerprints
    BY <1>1 DEF Fingerprint, Fingerprints, TypesHold, DerivedTypeOK, AnalysisRecord
  <1>4. t \in LookRequest /\ t.op = "look"
    BY <1>2, <1>3 DEF LookRequest
  <1>5. t \in Request /\ RequestInv(t)
    BY <1>4 DEF Request, RequestInv
  <1>6. failures' \in 0 .. MaxFailures
    BY <1>1, Bounds
  <1>. HIDE DEF t
  <1>. QED
    BY <1>1, <1>2, <1>5, <1>6, QuietMove

\* The blocks a paper starts from show the analysis they were assembled from.
LEMMA AssembledShows ==
  ASSUME NEW t \in LookRequest
  PROVE  /\ Assembled(t) \subseteq Block
         /\ Shows(Assembled(t), t.fingerprint, t.doc.source)
         /\ \A x \in Assembled(t) : x.status = "READY"
  <1>. DEFINE available == AvailableIds(t.doc)
  <1>. DEFINE figures == {IF Vlm THEN RebuiltId(t.doc, n) ELSE EvidenceId(t.doc, n) : n \in Figures}
  <1>. DEFINE claims == UNION t.fingerprint
  <1>. DEFINE names == {c.stage : c \in claims}
                         \cup IF Figures = {} THEN {} ELSE {FigureBlock}
  <1>. DEFINE Cited(b) == IF b = FigureBlock THEN figures
                          ELSE UNION {c.cites : c \in {x \in claims : x.stage = b}}
  <1>. DEFINE cites(b) == Cited(b) \cap available
  <1>1. t.doc \in Document /\ \A c \in claims : c.stage \in Stages
    BY DEF LookRequest, Fingerprints, Claim
  <1>2. \A b : cites(b) \subseteq EvidenceIds \cap OwnIds(t.doc.source)
    BY <1>1, AvailableIsOwn
  <1>3. Assembled(t) = {[name |-> b, cites |-> cites(b), status |-> "READY"] : b \in names}
    BY DEF Assembled
  <1>4. names \subseteq Stages \cup {FigureBlock}
        /\ names \ {FigureBlock} = {c.stage : c \in claims}
    BY <1>1, BlocksAssumption
  <1>. HIDE DEF cites, names
  <1>5. Assembled(t) \subseteq Block
    BY <1>2, <1>3, <1>4 DEF Block
  <1>6. {x.name : x \in Assembled(t)} = names
    <2>1. \A x \in Assembled(t) : x.name \in names
      BY <1>3
    <2>2. ASSUME NEW b \in names PROVE \E x \in Assembled(t) : x.name = b
      <3>1. [name |-> b, cites |-> cites(b), status |-> "READY"] \in Assembled(t)
        BY <1>3
      <3>. QED
        BY <3>1
    <2>. QED
      BY <2>1, <2>2
  <1>7. Shows(Assembled(t), t.fingerprint, t.doc.source)
    BY <1>2, <1>3, <1>4, <1>6 DEF Shows, StagesOf
  <1>. QED
    BY <1>3, <1>5, <1>7

\* A block that is replaced by one of its name that cites the same document
\* leaves what the paper shows.
LEMMA ReplacedShows ==
  ASSUME NEW blocks, NEW f, NEW s, Shows(blocks, f, s),
         NEW b \in blocks, NEW c, c.name = b.name, c.cites \subseteq OwnIds(s)
  PROVE  Shows(Replaced(blocks, b, c), f, s)
  <1>1. {x.name : x \in Replaced(blocks, b, c)} = {x.name : x \in blocks}
    BY DEF Replaced
  <1>. QED
    BY <1>1 DEF Shows, Replaced

\* What a version saved while a block waits for its provider, or at the end,
\* says is what the blocks of the request say.
LEMMA SaveVersionKeeps ==
  ASSUME IInv, NEW r \in Requests, doc[Subject] \in Document,
         NEW t, t.doc \in Document, t.model \in Models,
         t.fingerprint \in Fingerprints, t.simplify \in BOOLEAN,
         NEW blocks \in SUBSET Block, Shows(blocks, t.fingerprint, t.doc.source),
         \A x \in blocks : x.status = "READY",
         NEW todo \in SUBSET blocks,
         SaveVersion(r, t, blocks, todo),
         UNCHANGED <<doc, analysis, verdicts, bounds>>
  PROVE  IInv'
  <1>1. arrivals' \in 0 .. MaxArrivals /\ failures' \in 0 .. MaxFailures
        /\ replaced' = replaced /\ UNCHANGED <<doc, analysis, verdicts>>
    BY Bounds DEF bounds, IInv
  <1>2. ASSUME NEW bs \in SUBSET Block
        PROVE  PaperOf(t, bs) \in PaperRecord
    BY DEF PaperOf, PaperRecord, Document, Fingerprints
  <1>3. ASSUME NEW bs
        PROVE  /\ PaperOf(t, bs).blocks = bs
               /\ PaperOf(t, bs).fingerprint = t.fingerprint
               /\ PaperOf(t, bs).source = t.doc.source
    BY DEF PaperOf
  <1>4. CASE todo = {}
    <2>1. paper' = PaperOf(t, blocks) /\ Continue(r, Idle)
      BY <1>4 DEF SaveVersion, Answer, Continue
    <2>2. PaperInv(PaperOf(t, blocks))
      BY <1>3 DEF PaperInv
    <2>. QED
      BY <1>1, <1>2, <2>1, <2>2, IdleIsFine, MoveKeeps
  <1>5. CASE todo # {}
    <2>. DEFINE Waits(b) == [b EXCEPT !.status = "GENERATING"]
    <2>. DEFINE Next1(b) == [op |-> "simplify", doc |-> t.doc, model |-> t.model,
                             fingerprint |-> t.fingerprint, simplify |-> TRUE,
                             blocks |-> blocks, todo |-> todo \ {b}, block |-> b]
    <2>1. PICK b \in todo :
            /\ paper' = PaperOf(t, Replaced(blocks, b, Waits(b)))
            /\ Continue(r, Next1(b))
      BY <1>5 DEF SaveVersion
    <2>. DEFINE version == Replaced(blocks, b, Waits(b))
    <2>2. b \in blocks /\ b \in Block
      OBVIOUS
    <2>3. /\ Waits(b) \in Block /\ Waits(b).name = b.name /\ Waits(b).cites = b.cites
          /\ Waits(b).status = "GENERATING"
      BY <2>2 DEF Block
    <2>. HIDE DEF Waits
    <2>4. version \in SUBSET Block
      BY <2>2, <2>3 DEF Replaced
    <2>5. Shows(version, t.fingerprint, t.doc.source)
      BY <2>2, <2>3, ReplacedShows DEF Shows
    <2>6. \A x \in version : x.status = "GENERATING" => x = Waits(b)
      BY DEF Replaced
    <2>. HIDE DEF version
    <2>7. PaperInv(PaperOf(t, version))
      BY <1>3, <2>5, <2>6 DEF PaperInv
    <2>8. Next1(b) \in SimplifyRequest /\ Simplifying(Next1(b))
      BY <2>2 DEF SimplifyRequest, Simplifying
    <2>9. Next1(b) \in Request /\ RequestInv(Next1(b))
      BY <2>8 DEF Request, RequestInv, SimplifyRequest
    <2>10. paper' = PaperOf(t, version)
      BY <2>1 DEF version
    <2>. HIDE DEF Next1
    <2>. QED
      BY <1>1, <1>2, <2>1, <2>4, <2>7, <2>9, <2>10, MoveKeeps
  <1>. QED
    BY <1>4, <1>5

LEMMA AssembleKeeps ==
  ASSUME IInv, NEW r \in Requests, Assemble(r)
  PROVE  IInv'
  <1>. DEFINE t == request[r]
  <1>. DEFINE blocks == Assembled(t)
  <1>1. TypesHold /\ t.op = "look" /\ UNCHANGED <<doc, analysis, verdicts, bounds>>
    BY DEF IInv, Assemble
  <1>2. doc[Subject] \in Document /\ t \in Request
    BY <1>1, BusyHasDocument
  <1>3. t \in LookRequest
    BY <1>1, <1>2, RequestKinds
  <1>4. CASE Raises(t.fingerprint)
    <2>1. Continue(r, Idle) /\ UNCHANGED <<doc, stored, replaced>>
      BY <1>1, <1>4 DEF Assemble, Answer, Continue, stored, bounds
    <2>2. arrivals' \in 0 .. MaxArrivals /\ failures' \in 0 .. MaxFailures
      BY <1>1, Bounds DEF bounds
    <2>. QED
      BY <2>1, <2>2, IdleIsFine, QuietMove
  <1>5. CASE ~Raises(t.fingerprint)
    <2>. DEFINE todo == IF t.simplify THEN blocks ELSE {}
    <2>1. SaveVersion(r, t, blocks, todo)
      BY <1>5 DEF Assemble
    <2>2. /\ blocks \in SUBSET Block /\ Shows(blocks, t.fingerprint, t.doc.source)
          /\ \A x \in blocks : x.status = "READY"
      BY <1>3, AssembledShows
    <2>3. /\ t.doc \in Document /\ t.model \in Models
          /\ t.fingerprint \in Fingerprints /\ t.simplify \in BOOLEAN
      BY <1>3 DEF LookRequest
    <2>4. todo \in SUBSET blocks
      OBVIOUS
    <2>. HIDE DEF t, blocks, todo
    <2>. QED
      BY <1>1, <1>2, <2>1, <2>2, <2>3, <2>4, SaveVersionKeeps
  <1>. QED
    BY <1>4, <1>5

LEMMA SimplifyKeeps ==
  ASSUME IInv, NEW r \in Requests, Simplify(r)
  PROVE  IInv'
  <1>. DEFINE t == request[r]
  <1>1. /\ TypesHold /\ t.op = "simplify" /\ RequestInv(t)
        /\ UNCHANGED <<doc, analysis, verdicts, bounds>>
    BY DEF IInv, Simplify
  <1>2. doc[Subject] \in Document /\ t \in Request
    BY <1>1, BusyHasDocument
  <1>3. t \in SimplifyRequest /\ Simplifying(t)
    BY <1>1, <1>2, RequestKinds DEF RequestInv
  <1>4. PICK cites \in SUBSET AvailableIds(t.doc) :
          LET kept == IF cites = {} THEN t.block.cites ELSE cites
          IN SaveVersion(r, t, Replaced(t.blocks, t.block, [t.block EXCEPT !.cites = kept]),
                         t.todo)
    BY DEF Simplify
  <1>. DEFINE kept == IF cites = {} THEN t.block.cites ELSE cites
  <1>. DEFINE new == [t.block EXCEPT !.cites = kept]
  <1>. DEFINE blocks == Replaced(t.blocks, t.block, new)
  <1>5. /\ t.doc \in Document /\ t.model \in Models
        /\ t.fingerprint \in Fingerprints /\ t.simplify \in BOOLEAN
        /\ t.blocks \in SUBSET Block /\ t.block \in Block
    BY <1>3 DEF SimplifyRequest
  <1>6. t.block.cites \subseteq EvidenceIds \cap OwnIds(t.doc.source)
    BY <1>3, <1>5 DEF Simplifying, Shows, Block
  <1>7. kept \subseteq EvidenceIds \cap OwnIds(t.doc.source)
    BY <1>5, <1>6, AvailableIsOwn
  <1>. HIDE DEF kept
  <1>8. /\ new \in Block /\ new.name = t.block.name /\ new.cites = kept
        /\ new.status = t.block.status
    BY <1>5, <1>7 DEF Block
  <1>9. SaveVersion(r, t, blocks, t.todo)
    BY <1>4 DEF kept
  <1>. HIDE DEF new
  <1>10. blocks \in SUBSET Block /\ t.todo \in SUBSET blocks
    BY <1>3, <1>5, <1>8 DEF Simplifying, Replaced
  <1>11. \A x \in blocks : x.status = "READY"
    BY <1>3, <1>8 DEF Simplifying, Replaced
  <1>12. Shows(blocks, t.fingerprint, t.doc.source)
    BY <1>3, <1>7, <1>8, ReplacedShows DEF Simplifying
  <1>. HIDE DEF t, blocks
  <1>. QED
    BY <1>1, <1>2, <1>5, <1>9, <1>10, <1>11, <1>12, SaveVersionKeeps

---------------------------------------------------------------------------
(* The invariant holds, and with it what readers rely on. *)

\* The new document may be any: nothing derived is of it, but nothing that was
\* derived says it is.
LEMMA ReplaceKeeps ==
  ASSUME IInv, NEW p \in Papers, NEW s \in Sources, ReplaceDocument(p, s)
  PROVE  IInv'
  <1>1. /\ doc' = [doc EXCEPT ![p] = [source |-> s, raw |-> ~Collides(p, s)]]
        /\ replaced < MaxReplaced /\ replaced' = replaced + 1
        /\ analysis' = analysis /\ verdicts' = verdicts /\ paper' = paper
        /\ request' = request /\ arrivals' = arrivals /\ failures' = failures
    BY DEF ReplaceDocument, stored
  <1>. DEFINE d == [source |-> s, raw |-> ~Collides(p, s)]
  <1>2. d \in Document
    BY DEF Document, Collides
  <1>. HIDE DEF d
  <1>3. doc \in [Papers -> {None} \cup Document] /\ SubjectStays
    BY DEF IInv, TypesHold, DerivedTypeOK
  <1>4. doc' = [doc EXCEPT ![p] = d]
    BY <1>1 DEF d
  <1>5. doc' \in [Papers -> {None} \cup Document] /\ SubjectStays'
    BY <1>1, <1>2, <1>3, <1>4 DEF SubjectStays
  <1>6. DerivedTypeOK'
    BY <1>1, <1>5, Bounds DEF IInv, TypesHold, DerivedTypeOK
  <1>. QED
    BY <1>1, <1>5, <1>6 DEF IInv, TypesHold, AnalysisIsOfItsDocument

LEMMA FailKeeps ==
  ASSUME IInv, NEW r \in Requests, Fail(r)
  PROVE  IInv'
  <1>1. TypesHold
    BY DEF IInv
  <1>2. /\ Continue(r, Idle) /\ UNCHANGED <<doc, stored, replaced>>
        /\ arrivals' \in 0 .. MaxArrivals /\ failures' \in 0 .. MaxFailures
    BY <1>1, Bounds DEF Fail, Answer, Continue
  <1>. QED
    BY <1>2, IdleIsFine, QuietMove

LEMMA CrashKeeps ==
  ASSUME IInv, Crash
  PROVE  IInv'
  <1>1. /\ request' = [r \in Requests |-> Idle]
        /\ doc' = doc /\ analysis' = analysis /\ verdicts' = verdicts /\ paper' = paper
        /\ arrivals' = arrivals /\ replaced' = replaced
    BY DEF Crash, stored
  <1>2. failures' \in 0 .. MaxFailures
    BY Bounds DEF Crash, IInv
  <1>3. /\ request' \in [Requests -> Request] /\ SubjectStays'
        /\ \A r \in Requests : RequestInv(request'[r])
    BY <1>1, IdleIsFine DEF SubjectStays
  <1>4. DerivedTypeOK'
    BY <1>1, <1>2 DEF IInv, TypesHold, DerivedTypeOK, Idle
  <1>. QED
    BY <1>1, <1>3, <1>4 DEF IInv, TypesHold, AnalysisIsOfItsDocument

LEMMA InitInv == Init => IInv
  <1>. SUFFICES ASSUME Init PROVE IInv
    OBVIOUS
  <1>1. /\ analysis = None /\ verdicts = {} /\ paper = None
        /\ request = [r \in Requests |-> Idle]
        /\ arrivals = 0 /\ replaced = 0 /\ failures = 0
    BY DEF Init
  <1>2. doc \in [Papers -> {None} \cup Document]
    <2>. DEFINE first == CHOOSE s \in Sources : TRUE
    <2>1. first \in Sources
      OBVIOUS
    <2>. DEFINE d == [source |-> first, raw |-> TRUE]
    <2>2. d \in Document
      BY <2>1 DEF Document
    <2>3. doc = [p \in Papers |-> None]
          \/ doc = [p \in Papers |-> IF p = Subject THEN None ELSE d]
      BY DEF Init
    <2>. HIDE DEF d
    <2>. QED
      BY <2>2, <2>3
  <1>3. /\ request \in [Requests -> Request] /\ SubjectStays
        /\ \A r \in Requests : RequestInv(request[r])
    BY <1>1, IdleIsFine DEF SubjectStays
  <1>4. DerivedTypeOK
    BY <1>1, <1>2 DEF DerivedTypeOK, Idle
  <1>. QED
    BY <1>1, <1>3, <1>4 DEF IInv, TypesHold, AnalysisIsOfItsDocument, PaperInv

LEMMA StutterKeeps ==
  ASSUME IInv, UNCHANGED vars
  PROVE  IInv'
  <1>1. /\ doc' = doc /\ analysis' = analysis /\ verdicts' = verdicts /\ paper' = paper
        /\ request' = request /\ arrivals' = arrivals /\ replaced' = replaced
        /\ failures' = failures
    BY DEF vars, stored, bounds
  <1>. QED
    BY <1>1 DEF IInv, TypesHold, DerivedTypeOK, SubjectStays, AnalysisIsOfItsDocument

LEMMA StepInv == IInv /\ [Next]_vars => IInv'
  <1>. SUFFICES ASSUME IInv, [Next]_vars PROVE IInv'
    OBVIOUS
  <1>1. ASSUME NEW p \in Papers, NEW s \in Sources, ReplaceDocument(p, s) PROVE IInv'
    BY <1>1, ReplaceKeeps
  <1>2. ASSUME NEW r \in Requests, ExtractionStep(r) PROVE IInv'
    BY <1>2, ExtractKeeps, ExtractStageKeeps DEF ExtractionStep
  <1>3. ASSUME NEW r \in Requests, VerificationStep(r) PROVE IInv'
    BY <1>3, VerifyKeeps, VerifyClaimKeeps DEF VerificationStep
  <1>4. ASSUME NEW r \in Requests, InteractiveStep(r) PROVE IInv'
    BY <1>4, GenerateKeeps, AssembleKeeps, SimplifyKeeps DEF InteractiveStep
  <1>5. ASSUME NEW r \in Requests, Served(r) PROVE IInv'
    BY <1>5, StutterKeeps DEF Served
  <1>6. ASSUME NEW r \in Requests, Fail(r) PROVE IInv'
    BY <1>6, FailKeeps
  <1>7. CASE Crash
    BY <1>7, CrashKeeps
  <1>8. CASE UNCHANGED vars
    BY <1>8, StutterKeeps
  <1>. QED
    BY <1>1, <1>2, <1>3, <1>4, <1>5, <1>6, <1>7, <1>8 DEF Next

\* The inductive invariant of extraction, verification and interactive paper:
\* what a request holds is of the document it read, and what is stored is of
\* the document in its key, whatever replaces documents meanwhile.
THEOREM DerivedInvariant == Spec => []IInv
  BY InitInv, StepInv, PTL DEF Spec

\* Type correctness of documents, stored rows and requests.
THEOREM DerivedTypes == Spec => []DerivedTypeOK
  <1>1. IInv => DerivedTypeOK
    BY DEF IInv, TypesHold
  <1>. QED
    BY <1>1, DerivedInvariant, PTL

\* However long an extraction took, the text claims of the stored analysis are
\* of the document under whose key save_analysis stored it, and all its claims
\* cite ids of that document.
THEOREM AnalysisHolds == Spec => []AnalysisIsOfItsDocument
  <1>1. IInv => AnalysisIsOfItsDocument
    BY DEF IInv
  <1>. QED
    BY <1>1, DerivedInvariant, PTL

\* A verdict GET verification shows was reached for the claim it is shown with,
\* on the texts its citations stand for now.
THEOREM VerdictsHold == Spec => []VerdictsAreCurrent
  <1>1. IInv => VerdictsAreCurrent
    <2>. SUFFICES ASSUME IInv, NEW m \in Models, NEW x \in CurrentVerdicts(m)
                  PROVE  /\ x[2].claim = x[1].claim
                         /\ x[2].texts = x[1].texts
                         /\ x[2].status # "UNVERIFIED" =>
                              \A e \in x[2].texts : e[2][1] = x[1].claim.source
      BY DEF VerdictsAreCurrent
    <2>1. doc[Subject] # None /\ analysis # None
      BY DEF CurrentVerdicts
    <2>2. x[1] \in Prepared(m) /\ x[2] \in verdicts /\ x[1].key = x[2].key
      BY <2>1 DEF CurrentVerdicts
    <2>3. doc[Subject] \in Document /\ analysis \in AnalysisRecord /\ TypesHold
      BY <2>1 DEF IInv, TypesHold, DerivedTypeOK
    <2>4. KeyTells(x[1])
      BY <2>2, <2>3, PreparedFits
    <2>5. KeyTells(x[2]) /\ Judged(x[2])
      BY <2>2 DEF IInv
    <2>. QED
      BY <2>2, <2>4, <2>5 DEF KeyTells, Judged
  <1>. QED
    BY <1>1, DerivedInvariant, PTL

\* The interactive paper current() serves has the stages of the analysis of
\* this moment, cites the document of this moment, and waits for one block at
\* most, whichever request wrote it last.
THEOREM ServedPaperHolds == Spec => []ServedPaperIsCurrent
  <1>1. IInv => ServedPaperIsCurrent
    <2>. SUFFICES ASSUME IInv, ServedPaper # None
                  PROVE  /\ {x.name : x \in ServedPaper.blocks} \ {FigureBlock} =
                              IF analysis = None THEN {} ELSE {c.stage : c \in analysis.claims}
                         /\ \A x \in ServedPaper.blocks :
                              x.cites \subseteq OwnIds(doc[Subject].source)
                         /\ Cardinality({x \in ServedPaper.blocks : x.status = "GENERATING"}) <= 1
      BY DEF ServedPaperIsCurrent
    <2>1. /\ ServedPaper = paper /\ paper # None
          /\ paper.source = doc[Subject].source /\ paper.fingerprint = Fingerprint
      BY DEF ServedPaper
    <2>2. PaperInv(paper)
      BY DEF IInv
    <2>3. StagesOf(Fingerprint) =
            IF analysis = None THEN {} ELSE {c.stage : c \in analysis.claims}
      BY DEF StagesOf, Fingerprint
    <2>4. Cardinality({x \in paper.blocks : x.status = "GENERATING"}) <= 1
      BY <2>1, <2>2, AtMostOne DEF PaperInv
    <2>. QED
      BY <2>1, <2>2, <2>3, <2>4 DEF PaperInv, Shows
  <1>. QED
    BY <1>1, DerivedInvariant, PTL
=============================================================================
