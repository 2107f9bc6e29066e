---------------------------- MODULE DerivedData ----------------------------
(***************************************************************************)
(* What PaperLens derives from a normalized document: the analysis, the    *)
(* verdicts on its claims and the interactive paper.  Each is one or more  *)
(* rows that a request writes after several awaits on a provider, while    *)
(* other requests run and the document itself may be replaced.             *)
(*                                                                         *)
(* A document is what its source parses to, so a source stands for both    *)
(* the source hash and the document hash.  Evidence ids are per document   *)
(* ("raw") unless another stored document already has them; then they are  *)
(* prefixed with the document id.  The text of an id is <<source, number>>.*)
(***************************************************************************)
EXTENDS Integers, FiniteSets

CONSTANTS Papers,       \* papers in the database
          Subject,      \* the one whose derived data is followed
          Sources,      \* what a paper may be parsed from
          Paragraphs,   \* evidence numbers of paragraphs
          Figures,      \* evidence numbers of captioned figures
          Stages,       \* extraction stages; "method" has a visual path
          Models,       \* provider models a request may run with
          Vlm,          \* is the visual model enabled?
          Requests,     \* concurrent requests
          MaxArrivals,  \* bound on the requests that start work
          MaxReplaced,  \* bound on the documents stored in a behaviour
          MaxFailures,  \* bound on crashes and failed saves
          None

ASSUME PapersAssumption == Subject \in Papers
ASSUME NumbersAssumption ==
  /\ Paragraphs \cap Figures = {}
  /\ Paragraphs \cup Figures \subseteq Nat
ASSUME BoundsAssumption ==
  /\ MaxArrivals \in Nat /\ MaxReplaced \in Nat /\ MaxFailures \in Nat
  /\ Vlm \in BOOLEAN
ASSUME SourcesAssumption == Sources # {}
ASSUME NoneAssumption == None \notin Sources

VARIABLES doc,       \* the active document of each paper
          analysis,  \* the AnalysisRecord of the subject
          verdicts,  \* its VerificationRecords
          paper,     \* its InteractivePaperRecord
          request,   \* the requests in flight
          arrivals,  \* requests that started work so far
          replaced,  \* documents stored so far
          failures   \* crashes and failed saves so far

stored == <<analysis, verdicts, paper>>
bounds == <<arrivals, replaced, failures>>
vars == <<doc, stored, request, bounds>>

---------------------------------------------------------------------------
(* Documents and evidence. *)

Numbers == Paragraphs \cup Figures
Document == [source: Sources, raw: BOOLEAN]
Raw == "raw"
EvidenceIds == ({Raw} \cup Sources) \X Numbers

\* normalize counts paragraphs and figures; the stored ids carry the prefix.
EvidenceId(d, n) == <<IF d.raw THEN Raw ELSE d.source, n>>
AvailableIds(d) == {EvidenceId(d, n) : n \in Numbers}

\* EvidenceRegistry.build_for_document on a stored document keeps the ids of
\* paragraphs but numbers figures afresh.
RebuiltId(d, n) == IF n \in Paragraphs THEN EvidenceId(d, n) ELSE <<Raw, n>>

\* Ids of a document under any prefix it was ever stored with.
OwnIds(s) == {EvidenceId([source |-> s, raw |-> r], n) : r \in BOOLEAN, n \in Numbers}

\* get_evidence_many: the text an id of the subject stands for now.
Text(id) ==
  IF doc[Subject] # None /\ id \in AvailableIds(doc[Subject])
    THEN <<doc[Subject].source, id[2]>> ELSE None

\* _namespace_colliding_ids, run before the old document is deleted.
Collides(p, s) ==
  \E q \in Papers :
    /\ doc[q] # None
    /\ doc[q].raw
    /\ ~(q = p /\ doc[q].source = s)

\* replace_document deletes the old document with its evidence; what was
\* derived from it stays.
ReplaceDocument(p, s) ==
  /\ replaced < MaxReplaced
  /\ doc' = [doc EXCEPT ![p] = [source |-> s, raw |-> ~Collides(p, s)]]
  /\ replaced' = replaced + 1
  /\ UNCHANGED <<stored, request, arrivals, failures>>

---------------------------------------------------------------------------
(* Rows and requests. *)

Claim == [stage: Stages, source: Sources, cites: SUBSET EvidenceIds,
          model: Models, visual: BOOLEAN]
AnalysisRecord == [source: Sources, model: Models, claims: SUBSET Claim]
\* JUDGED stands for the verdicts a provider gives.
Verdicts == {"JUDGED", "UNVERIFIED"}

\* A claim block, or the block of the figures left over by the others.
FigureBlock == "figures"
Block == [name: Stages \cup {FigureBlock}, cites: SUBSET EvidenceIds,
          status: {"READY", "GENERATING"}]
ASSUME BlocksAssumption == FigureBlock \notin Stages
PaperRecord == [source: Sources, fingerprint: SUBSET SUBSET Claim,
                model: Models, simplify: BOOLEAN, blocks: SUBSET Block]

Idle == [op |-> "idle"]

\* analysis_fingerprint leaves the extraction states out; without an analysis
\* there is none.
Fingerprint == IF analysis = None THEN {} ELSE {analysis.claims}

DerivedTypeOK ==
  /\ doc \in [Papers -> {None} \cup Document]
  /\ analysis = None \/ analysis \in AnalysisRecord
  /\ \A v \in verdicts : v.status \in Verdicts
  /\ paper = None \/ paper \in PaperRecord
  /\ \A r \in Requests : request[r].op \in {"idle", "extract", "verify", "look", "simplify"}
  /\ arrivals \in 0 .. MaxArrivals
  /\ replaced \in 0 .. MaxReplaced
  /\ failures \in 0 .. MaxFailures

Init ==
  /\ doc \in {[p \in Papers |-> None],
              [p \in Papers |-> IF p = Subject THEN None
                                ELSE [source |-> CHOOSE s \in Sources : TRUE, raw |-> TRUE]]}
  /\ analysis = None
  /\ verdicts = {}
  /\ paper = None
  /\ request = [r \in Requests |-> Idle]
  /\ arrivals = 0
  /\ replaced = 0
  /\ failures = 0

Answer(r) == request' = [request EXCEPT ![r] = Idle]
Continue(r, t) == request' = [request EXCEPT ![r] = t]
Arrives(r) ==
  /\ request[r] = Idle
  /\ doc[Subject] # None
  /\ arrivals < MaxArrivals
  /\ arrivals' = arrivals + 1

---------------------------------------------------------------------------
(* ResearchExtractionService.extract *)

\* A stored analysis with the cache key of this document and model is served.
Extract(r, m) ==
  /\ Arrives(r)
  /\ ~(analysis # None /\ analysis.source = doc[Subject].source /\ analysis.model = m)
  /\ Continue(r, [op |-> "extract", doc |-> doc[Subject], model |-> m,
                  todo |-> Stages, claims |-> {}])
  /\ UNCHANGED <<doc, stored, replaced, failures>>

\* The paragraphs of the sections classified as relevant to a stage; an
\* unclassified section is relevant to none.
MutantSelections(d) == SUBSET {EvidenceId(doc[Subject], n) : n \in Paragraphs}
Selections(d) == SUBSET {EvidenceId(d, n) : n \in Paragraphs}

\* extractor.extract and validate_payload_grounding: a payload cites selected
\* evidence only, each statement at least once.
TextClaims(t, stage) ==
  {[stage |-> stage, source |-> t.doc.source, cites |-> c, model |-> t.model,
    visual |-> FALSE] :
     c \in UNION {SUBSET s \ {{}} : s \in Selections(t.doc)}}

\* extract_method_from_pdf reads the file the paper has at this moment.
VisualClaims(t, stage) ==
  IF Vlm /\ stage = "method"
    THEN {[stage |-> stage, source |-> doc[Subject].source, cites |-> c,
           model |-> t.model, visual |-> TRUE] :
            c \in SUBSET {RebuiltId(t.doc, n) : n \in Numbers} \ {{}}}
    ELSE {}

\* One stage: no evidence, no content or any failure leaves it without claims.
\* After the last one save_analysis overwrites the record, whatever it holds.
ExtractStage(r, stage) ==
  LET t == request[r]
      todo == t.todo \ {stage}
  IN /\ t.op = "extract"
     /\ stage \in t.todo
     /\ \E found \in {{}} \cup {{c} : c \in TextClaims(t, stage) \cup VisualClaims(t, stage)} :
          IF todo = {}
            THEN /\ analysis' = [source |-> t.doc.source, model |-> t.model,
                                 claims |-> t.claims \cup found]
                 /\ Answer(r)
            ELSE /\ Continue(r, [t EXCEPT !.todo = todo, !.claims = @ \cup found])
                 /\ UNCHANGED analysis
     /\ UNCHANGED <<doc, verdicts, paper, bounds>>

---------------------------------------------------------------------------
(* PaperVerificationService.verify and current *)

\* The cache key leaves the claim out.
MutantVerdictKey(c, m) ==
  [source |-> doc[Subject].source, claim |-> None, model |-> m,
   evidence |-> {<<id, Text(id)>> : id \in c.cites}]

\* document hash, claim hash, evidence hash and model.
VerdictKey(c, m) ==
  [source |-> doc[Subject].source, claim |-> c, model |-> m,
   evidence |-> {<<id, Text(id)>> : id \in c.cites}]

\* A claim is prepared with the evidence its ids resolve to.
Prepared(m) ==
  {[key |-> VerdictKey(c, m), claim |-> c, texts |-> {<<id, Text(id)>> : id \in c.cites}] :
     c \in analysis.claims}

\* _deterministic_validation_error: unresolved evidence, or evidence of
\* another document version than the claim's, is never judged.
Invalid(p) ==
  \E e \in p.texts : e[2] = None \/ e[2][1] # p.claim.source

Verify(r, m) ==
  LET cached == {v.key : v \in verdicts}
      missing == {p \in Prepared(m) : p.key \notin cached}
  IN /\ Arrives(r)
     /\ analysis # None
     /\ missing # {}
     /\ Continue(r, [op |-> "verify", todo |-> missing, fresh |-> {}])
     /\ UNCHANGED <<doc, stored, replaced, failures>>

\* save_verification_results: insert or overwrite by cache key.
Upserted(fresh) ==
  {v \in verdicts : v.key \notin {f.key : f \in fresh}} \cup fresh

\* verify_claim: a failing provider also yields a verdict, UNVERIFIED.
VerifyClaim(r, p) ==
  LET t == request[r]
      todo == t.todo \ {p}
  IN /\ t.op = "verify"
     /\ p \in t.todo
     /\ \E status \in IF Invalid(p) THEN {"UNVERIFIED"} ELSE Verdicts :
          LET fresh == t.fresh \cup {[key |-> p.key, claim |-> p.claim, texts |-> p.texts,
                                    status |-> status]}
          IN IF todo = {}
               THEN verdicts' = Upserted(fresh) /\ Answer(r)
               ELSE /\ Continue(r, [t EXCEPT !.todo = todo, !.fresh = fresh])
                    /\ UNCHANGED verdicts
     /\ UNCHANGED <<doc, analysis, paper, bounds>>

\* GET verification: each claim with the stored result under its key of this
\* moment.
CurrentVerdicts(m) ==
  IF doc[Subject] = None \/ analysis = None THEN {}
  ELSE {x \in Prepared(m) \X verdicts : x[1].key = x[2].key}

---------------------------------------------------------------------------
(* InteractivePaperService.generate and current *)

\* Blocks of the analysis, then the figures no block shows; what cites no
\* available evidence loses its citations.  With the visual model on, the
\* registry has renumbered the figures.
Assembled(t) ==
  LET available == AvailableIds(t.doc)
      figures == {IF Vlm THEN RebuiltId(t.doc, n) ELSE EvidenceId(t.doc, n) : n \in Figures}
      claims == UNION t.fingerprint
      names == {c.stage : c \in claims} \cup IF Figures = {} THEN {} ELSE {FigureBlock}
      Cited(b) == IF b = FigureBlock THEN figures
                  ELSE UNION {c.cites : c \in {x \in claims : x.stage = b}}
  IN {[name |-> b, cites |-> Cited(b) \cap available, status |-> "READY"] : b \in names}

\* _method_block refers to a name it does not have once it meets a figure.
Raises(fingerprint) ==
  /\ Figures # {}
  /\ \E c \in UNION fingerprint : c.stage = "method"

PaperOf(t, blocks) ==
  [source |-> t.doc.source, fingerprint |-> t.fingerprint, model |-> t.model,
   simplify |-> t.simplify, blocks |-> blocks]

\* The analysis fingerprint is not compared.
MutantServedPaper ==
  IF doc[Subject] # None /\ paper # None /\ paper.source = doc[Subject].source
    THEN paper ELSE None

\* current(): the stored paper if it is of this document and this analysis.
ServedPaper ==
  IF /\ doc[Subject] # None
     /\ paper # None
     /\ paper.source = doc[Subject].source
     /\ paper.fingerprint = Fingerprint
    THEN paper ELSE None

\* POST asks for a simplified paper where AI analysis is on; GET assembles
\* only when current() has nothing.
Generate(r, m, simplify) ==
  LET t == [op |-> "look", doc |-> doc[Subject], fingerprint |-> Fingerprint,
            model |-> m, simplify |-> simplify]
      cached == /\ paper # None
                /\ paper.source = t.doc.source /\ paper.fingerprint = t.fingerprint
                /\ paper.model = m /\ paper.simplify = simplify
  IN /\ Arrives(r)
     /\ ~cached
     /\ ~simplify => ServedPaper = None
     /\ Continue(r, t)
     /\ UNCHANGED <<doc, stored, replaced, failures>>

Replaced(blocks, b, c) == (blocks \ {b}) \cup {c}

\* The version stored while block b waits for the provider, or the final one.
SaveVersion(r, t, blocks, todo) ==
  IF todo = {}
    THEN paper' = PaperOf(t, blocks) /\ Answer(r)
    ELSE \E b \in todo :
           /\ paper' = PaperOf(t, Replaced(blocks, b, [b EXCEPT !.status = "GENERATING"]))
           /\ Continue(r, [op |-> "simplify", doc |-> t.doc, model |-> t.model,
                           fingerprint |-> t.fingerprint, simplify |-> TRUE,
                           blocks |-> blocks, todo |-> todo \ {b}, block |-> b])

\* Figures are looked at first when the visual model is on.
Assemble(r) ==
  LET t == request[r]
      blocks == Assembled(t)
  IN /\ t.op = "look"
     /\ IF Raises(t.fingerprint)
          THEN Answer(r) /\ UNCHANGED paper
          ELSE SaveVersion(r, t, blocks, IF t.simplify THEN blocks ELSE {})
     /\ UNCHANGED <<doc, analysis, verdicts, bounds>>

\* The provider answered: citations that are not available are dropped, all
\* of them dropped keeps the old ones, and so does a caught failure.
Simplify(r) ==
  LET t == request[r]
  IN /\ t.op = "simplify"
     /\ \E cites \in SUBSET AvailableIds(t.doc) :
          LET kept == IF cites = {} THEN t.block.cites ELSE cites
          IN SaveVersion(r, t, Replaced(t.blocks, t.block, [t.block EXCEPT !.cites = kept]),
                         t.todo)
     /\ UNCHANGED <<doc, analysis, verdicts, bounds>>

---------------------------------------------------------------------------
(* Failures, and the specification. *)

\* A save that fails ends its request; a crash ends them all.  Rows stay.
Fail(r) ==
  /\ request[r] # Idle
  /\ failures < MaxFailures
  /\ failures' = failures + 1
  /\ Answer(r)
  /\ UNCHANGED <<doc, stored, arrivals, replaced>>

Crash ==
  /\ failures < MaxFailures
  /\ \E r \in Requests : request[r] # Idle
  /\ failures' = failures + 1
  /\ request' = [r \in Requests |-> Idle]
  /\ UNCHANGED <<doc, stored, arrivals, replaced>>

\* Requests answered from the store, or refused, change nothing.
Served(r) == request[r] = Idle /\ UNCHANGED vars

ExtractionStep(r) ==
  \/ \E m \in Models : Extract(r, m)
  \/ \E stage \in Stages : ExtractStage(r, stage)

VerificationStep(r) ==
  \/ \E m \in Models : Verify(r, m)
  \/ request[r].op = "verify" /\ \E p \in request[r].todo : VerifyClaim(r, p)

InteractiveStep(r) ==
  \/ \E m \in Models, simplify \in BOOLEAN : Generate(r, m, simplify)
  \/ Assemble(r)
  \/ Simplify(r)

Next ==
  \/ \E p \in Papers, s \in Sources : ReplaceDocument(p, s)
  \/ \E r \in Requests : ExtractionStep(r) \/ VerificationStep(r) \/ InteractiveStep(r)
                         \/ Served(r) \/ Fail(r)
  \/ Crash

Spec == Init /\ [][Next]_vars

---------------------------------------------------------------------------
(* What readers rely on. *)

\* The verdict GET verification shows beside a claim was reached for this very
\* claim, on exactly the texts its citations stand for now, and only a claim
\* that cites its own document was ever really judged.
VerdictsAreCurrent ==
  \A m \in Models : \A x \in CurrentVerdicts(m) :
    LET p == x[1]
        v == x[2]
    IN /\ v.claim = p.claim
       /\ v.texts = p.texts
       /\ v.status # "UNVERIFIED" => \A e \in v.texts : e[2][1] = p.claim.source

\* However long the extraction took and whatever replaced the document
\* meanwhile: the text claims of a stored analysis are of the document whose
\* key it is stored under, and cite that document's ids.
AnalysisIsOfItsDocument ==
  analysis # None =>
    \A c \in analysis.claims :
      /\ c.cites \subseteq OwnIds(analysis.source)
      /\ ~c.visual => c.source = analysis.source

\* Whatever late requests overwrite: the paper readers are served has one
\* block per stage of the present analysis, cites the present document only,
\* and at most one of its blocks waits for the provider.
ServedPaperIsCurrent ==
  ServedPaper # None =>
    LET b == ServedPaper.blocks
    IN /\ {x.name : x \in b} \ {FigureBlock} =
            IF analysis = None THEN {} ELSE {c.stage : c \in analysis.claims}
       /\ \A x \in b : x.cites \subseteq OwnIds(doc[Subject].source)
       /\ Cardinality({x \in b : x.status = "GENERATING"}) <= 1

\* architecture.md, Source provenance: replacing a document leaves no stale
\* mapping.  A citation of the stored analysis that still resolves shows the
\* text its claim was made from.
NoStaleMapping ==
  analysis # None =>
    \A c \in analysis.claims : \A id \in c.cites :
      Text(id) # None => Text(id)[1] = c.source
===========================================================================
