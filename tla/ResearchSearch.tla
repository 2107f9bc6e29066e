--------------------------- MODULE ResearchSearch ---------------------------
(***************************************************************************)
(* What one attempt of a research run works on: the queries, candidates,   *)
(* selected and ingested papers, and the report synthesized from them,     *)
(* while documents of the owner may be replaced by other requests.         *)
(*                                                                         *)
(* ResearchWorkers has the control of the same loop (claims, fences,       *)
(* cancellation, crashes); here the attempt keeps its claim.               *)
(***************************************************************************)
EXTENDS Integers, Sequences, FiniteSets, SequencesExt

CONSTANTS Arxiv,          \* arXiv identifiers without version, numbers
          Similar,        \* pairs of titles that are nearly the same
          Relevance,      \* title -> overlap with the question, in thousandths
          Planned,        \* query sequences a provider may plan
          Found,          \* candidate sequences a search may return
          Context,        \* pairs of papers with a comparable context
          Analyses,       \* what extraction may return
          Texts,          \* document version -> evidence number -> numbers in it
          Libraries,      \* sets of papers the owner may have at the start
          MaxQueries, MaxCandidates, MaxIngested, MaxIterations, MaxCalls,
          MaxRetries,     \* of a structured request to the provider
          MaxReplaced,    \* bound on the documents replaced
          None

ASSUME NumbersAssumption == Arxiv \subseteq Nat \ {0} /\ None \notin Arxiv
ASSUME LimitsAssumption ==
  /\ {MaxQueries, MaxCandidates, MaxIngested, MaxIterations, MaxCalls} \subseteq Nat \ {0}
  /\ MaxRetries \in 0 .. 3
ASSUME FoundAssumption ==
  /\ Relevance \in [DOMAIN Relevance -> Nat]
  /\ \A found \in Found :
       found \in Seq([arxiv : {None} \cup Arxiv, title : DOMAIN Relevance, year : {None} \cup Nat])
ASSUME LibrariesAssumption == \A owned \in Libraries : owned \subseteq Arxiv
ASSUME VersionsAssumption == MaxReplaced \in Nat /\ 0 .. MaxReplaced \subseteq DOMAIN Texts

VARIABLES phase,       \* where the attempt is
          iteration,
          attempts,    \* requests for the plan sent to the provider
          queries,     \* the queries still to send in this iteration
          refined,     \* the concepts of the last refinement
          calls,       \* provider_calls
          discovered,  \* candidates found in this iteration
          candidates,  \* deduplicated, ranked and bounded
          seen,        \* seen_candidate_ids
          selected,
          ingested,    \* ingested_ids, in order
          toAnalyze,   \* ingested papers extraction has not seen in this iteration
          failures,
          library,     \* COMPLETED papers of the owner
          version,     \* the document version of each paper
          analysis,    \* the AnalysisRecord of each paper
          gathered,    \* the analyses synthesize read
          report,      \* the saved report
          mishaps      \* what went wrong in the attempt, for CompletedMeansNoFailure

search == <<attempts, queries, refined, calls, discovered>>
chosen == <<candidates, seen, selected>>
papers == <<ingested, toAnalyze, library, version, analysis>>
output == <<gathered, report>>
trouble == <<failures, mishaps>>
vars == <<phase, iteration, search, chosen, papers, output, trouble>>

Phases == {"planning", "discovering", "ingesting", "analyzing", "evaluating",
           "synthesizing", "reporting", "COMPLETED", "PARTIAL", "FAILED"}
Terminal == {"COMPLETED", "PARTIAL", "FAILED"}

SearchTypeOK ==
  /\ phase \in Phases
  /\ iteration \in 1 .. MaxIterations
  /\ attempts \in 0 .. MaxRetries + 1
  /\ calls \in 0 .. MaxCalls
  /\ Range(ingested) \subseteq library
  /\ library \subseteq Arxiv
  /\ version \in [Arxiv -> 0 .. MaxReplaced]
  /\ failures \in Nat

Init ==
  /\ phase = "planning" /\ iteration = 1
  /\ attempts = 0 /\ queries = <<>> /\ refined = {} /\ calls = 0 /\ discovered = <<>>
  /\ candidates = <<>> /\ seen = {} /\ selected = <<>>
  /\ ingested = <<>> /\ toAnalyze = <<>>
  /\ library \in Libraries
  /\ version = [p \in Arxiv |-> 0]
  /\ analysis = [p \in Arxiv |-> None]
  /\ gathered = {} /\ report = None
  /\ failures = 0 /\ mishaps = {}

Prefix(s, n) == SubSeq(s, 1, IF Len(s) < n THEN Len(s) ELSE n)
Uniq(s) == FoldLeft(LAMBDA u, x : IF x \in Range(u) THEN u ELSE Append(u, x), <<>>, s)
Least(a, b) == IF a < b THEN a ELSE b
Most(a, b) == IF a > b THEN a ELSE b

---------------------------------------------------------------------------
(* Planning. *)

QueryLimit == Most(3, Least(MaxQueries, 8))

\* deterministic_plan: the question and five variations of its concepts.
Fallback == Prefix(<<"question", "methods", "survey", "evaluation", "benchmark", "detection">>, QueryLimit)

\* _bound_plan: fewer than three queries are filled up from the fallback.
BoundPlan(planned) ==
  LET own == Prefix(Uniq(planned), QueryLimit)
  IN IF Len(own) < 3 THEN Prefix(Uniq(own \o Fallback), QueryLimit) ELSE own

StartDiscovery(q) ==
  /\ queries' = q
  /\ phase' = "discovering"

\* generate_structured asks again after a transient failure or an answer that
\* is no plan, and gives up after the last retry or at a refusal; then the
\* fallback is planned.  A provider that outlasts the step timeout ends the
\* attempt, as there is no time left for the fallback.
Ask ==
  /\ phase = "planning"
  /\ attempts' = attempts + 1
  /\ \/ \E p \in Planned : StartDiscovery(BoundPlan(p))
     \/ StartDiscovery(Fallback)
     \/ attempts < MaxRetries /\ UNCHANGED <<phase, queries>>
     \/ phase' = "FAILED" /\ UNCHANGED queries
  /\ UNCHANGED <<iteration, refined, calls, discovered, chosen, papers, output, trouble>>

\* Without a provider the plan is the fallback.
PlanLocally ==
  /\ phase = "planning"
  /\ attempts = 0
  /\ StartDiscovery(Fallback)
  /\ UNCHANGED <<attempts, iteration, refined, calls, discovered, chosen, papers, output, trouble>>

---------------------------------------------------------------------------
(* Discovery. *)

CallLimit == Least(MaxCalls, MaxCandidates)
MoreToSearch == queries # <<>> /\ calls < CallLimit

\* The rank of a result is its position in the response; an error of the
\* provider is counted, a timeout ends the attempt.
Search ==
  /\ phase = "discovering"
  /\ MoreToSearch
  /\ \/ \E found \in Found :
          /\ discovered' = discovered \o [i \in DOMAIN found |->
               [arxiv |-> found[i].arxiv, title |-> found[i].title,
                year |-> found[i].year, rank |-> i]]
          /\ phase' = phase
          /\ UNCHANGED trouble
     \/ /\ failures' = failures + 1
        /\ mishaps' = mishaps \cup {"search"}
        /\ UNCHANGED <<phase, discovered>>
     \/ phase' = "FAILED" /\ UNCHANGED <<discovered, trouble>>
  /\ queries' = Tail(queries)
  /\ calls' = calls + 1
  /\ UNCHANGED <<attempts, iteration, refined, chosen, papers, output>>

\* candidate_id is by arXiv identifier, else by title.
CandidateId(c) == IF c.arxiv # None THEN <<"arxiv", c.arxiv>> ELSE <<"title", c.title>>

\* Where the result has a duplicate of c: by identifier, by title, by a title
\* that is nearly the same; 0 if nowhere.
Duplicate(d, c) ==
  LET alike == {i \in DOMAIN d.result : <<c.title, d.result[i].title>> \in Similar}
  IN IF c.arxiv \in DOMAIN d.byArxiv THEN d.byArxiv[c.arxiv]
     ELSE IF c.title \in DOMAIN d.byTitle THEN d.byTitle[c.title]
     ELSE IF alike = {} THEN 0
     ELSE CHOOSE i \in alike : \A j \in alike : i <= j

With(f, x, y) == [z \in DOMAIN f \cup {x} |-> IF z = x THEN y ELSE f[z]]

\* A duplicate replaces the candidate it duplicates if it is ranked higher;
\* the index remembers every name a candidate came under.
Insert(d, c) ==
  LET dup == Duplicate(d, c)
      at == IF dup = 0 THEN Len(d.result) + 1 ELSE dup
  IN [result |-> IF dup = 0 THEN Append(d.result, c)
                 ELSE IF c.rank < d.result[dup].rank THEN [d.result EXCEPT ![dup] = c]
                 ELSE d.result,
      byArxiv |-> IF c.arxiv = None THEN d.byArxiv ELSE With(d.byArxiv, c.arxiv, at),
      byTitle |-> With(d.byTitle, c.title, at)]

\* Definitions called Mutant... are wrong on purpose, as in ResearchLedger.
\* Titles are compared before identifiers.
MutantDeduplicate(s) ==
  LET TitleFirst(d, c) == Insert([d EXCEPT !.byArxiv = <<>>], c)
  IN FoldLeft(TitleFirst, [result |-> <<>>, byArxiv |-> <<>>, byTitle |-> <<>>], s).result

Deduplicate(s) ==
  FoldLeft(Insert, [result |-> <<>>, byArxiv |-> <<>>, byTitle |-> <<>>], s).result

\* Overlap, a bonus for papers the owner has and one for the first results.
Score(c) == Relevance[c.title] + (IF c.arxiv \in library THEN 100 ELSE 0) + 50 \div c.rank

\* By score, then rank; equal ones in the order of a hash of their identity.
Before(s, i, j) ==
  \/ Score(s[i]) > Score(s[j])
  \/ Score(s[i]) = Score(s[j]) /\ s[i].rank < s[j].rank
  \/ Score(s[i]) = Score(s[j]) /\ s[i].rank = s[j].rank /\ i < j
Place(s, i) == 1 + Cardinality({j \in DOMAIN s : Before(s, j, i)})
Sorted(s) == [k \in 1 .. Len(s) |-> s[CHOOSE i \in DOMAIN s : Place(s, i) = k]]
Rank(s) == Prefix(Sorted(s), Most(1, Least(MaxCandidates, 30)))

\* Papers of a year already selected wait unless one place is left; what is
\* still free goes to the candidates passed over.
Diverse(s, c) ==
  LET repeated == c.year # None /\ \E x \in Range(s) : x.year = c.year
  IN IF Len(s) >= MaxIngested \/ (repeated /\ Len(s) + 1 < MaxIngested) THEN s ELSE Append(s, c)
Fill(s, c) ==
  IF Len(s) >= MaxIngested \/ \E x \in Range(s) : CandidateId(x) = CandidateId(c)
    THEN s ELSE Append(s, c)
Select(ranked) ==
  FoldLeft(Fill, FoldLeft(Diverse, <<>>, Prefix(ranked, Least(MaxCandidates, 30))), ranked)

SelectPapers ==
  LET normalized == Deduplicate(candidates \o discovered)
      ids == {CandidateId(c) : c \in Range(normalized)}
      ranked == Rank(normalized)
      picked == Select(ranked)
      stop == picked = <<>> \/ (ids \subseteq seen /\ iteration > 1)
  IN /\ phase = "discovering"
     /\ ~MoreToSearch
     /\ candidates' = ranked
     /\ selected' = picked
     /\ seen' = seen \cup ids
     /\ discovered' = <<>>
     /\ phase' = IF stop THEN "synthesizing" ELSE "ingesting"
     /\ UNCHANGED <<attempts, iteration, queries, refined, calls, papers, output, trouble>>

---------------------------------------------------------------------------
(* Ingestion, analysis and refinement. *)

\* What was ingested is listed once, in the order of its selection.
Add(list, c, usable) == IF c.arxiv \in usable \ Range(list) THEN Append(list, c.arxiv) ELSE list
Collect(have, s, usable) == FoldLeft(LAMBDA list, c : Add(list, c, usable), have, s)

\* The selected papers of the library are reused, the others ingested; each
\* may fail, and one without an arXiv identifier does.  Every paper ingested so
\* far is put into the workspace, or could not be (add_workspace_paper).
MutantIngest ==
  /\ phase = "ingesting"
  /\ \E ok \in SUBSET {c.arxiv : c \in Range(selected)} :
       LET failed == {i \in DOMAIN selected : selected[i].arxiv \notin library \cup ok}
           reached == Collect(ingested, selected, library \cup ok)
       IN /\ None \notin ok
          /\ ok \cap library = {}
          /\ library' = library \cup ok
          /\ ingested' = reached
          /\ \E unlinked \in SUBSET Range(reached) :
               /\ failures' = Cardinality(failed) + Cardinality(unlinked)
               /\ mishaps' = mishaps \cup (IF failed = {} THEN {} ELSE {"ingestion"})
                                     \cup (IF unlinked = {} THEN {} ELSE {"linking"})
  /\ toAnalyze' = ingested'
  /\ phase' = "analyzing"
  /\ UNCHANGED <<iteration, search, chosen, version, analysis, output>>

Ingest ==
  /\ phase = "ingesting"
  /\ \E ok \in SUBSET {c.arxiv : c \in Range(selected)} :
       LET failed == {i \in DOMAIN selected : selected[i].arxiv \notin library \cup ok}
           reached == Collect(ingested, selected, library \cup ok)
       IN /\ None \notin ok
          /\ ok \cap library = {}
          /\ library' = library \cup ok
          /\ ingested' = reached
          /\ \E unlinked \in SUBSET Range(reached) :
               /\ failures' = failures + Cardinality(failed) + Cardinality(unlinked)
               /\ mishaps' = mishaps \cup (IF failed = {} THEN {} ELSE {"ingestion"})
                                     \cup (IF unlinked = {} THEN {} ELSE {"linking"})
  /\ toAnalyze' = ingested'
  /\ phase' = "analyzing"
  /\ UNCHANGED <<iteration, search, chosen, version, analysis, output>>

\* extract: an analysis of the current document is reused, another is made;
\* a failure is counted and leaves the analysis there was.
Analyze ==
  /\ phase = "analyzing"
  /\ toAnalyze # <<>>
  /\ LET p == Head(toAnalyze)
         current == analysis[p] # None /\ analysis[p].version = version[p]
     IN \/ /\ IF current THEN analysis' = analysis
              ELSE \E a \in Analyses :
                     analysis' = [analysis EXCEPT ![p] = [version |-> version[p], content |-> a]]
           /\ UNCHANGED trouble
        \/ /\ failures' = failures + 1
           /\ mishaps' = mishaps \cup {"analysis"}
           /\ analysis' = analysis
  /\ toAnalyze' = Tail(toAnalyze)
  /\ UNCHANGED <<phase, iteration, search, chosen, ingested, library, version, output>>

\* Two papers are enough, or one that covers every concept; else the search
\* is refined by the missing concepts, once for the same ones.
Evaluate ==
  /\ phase = "analyzing"
  /\ toAnalyze = <<>>
  /\ \E missing \in SUBSET {"concept"} :
       LET sufficient == Len(ingested) >= 2 \/ (ingested # <<>> /\ missing = {})
           stop == sufficient \/ iteration = MaxIterations \/ missing = {} \/ missing = refined
       IN IF stop
            THEN phase' = "synthesizing" /\ UNCHANGED <<iteration, queries, refined>>
            ELSE /\ phase' = "discovering"
                 /\ iteration' = iteration + 1
                 /\ queries' = <<"refined">>
                 /\ refined' = missing
  /\ UNCHANGED <<attempts, calls, discovered, chosen, papers, output, trouble>>

---------------------------------------------------------------------------
(* Synthesis.  An analysis has claims and results; a report, the claims it  *)
(* makes with what each cites and the numbers it states.                    *)

\* synthesize reads the analyses and then waits for the retriever.
Gather ==
  /\ phase = "synthesizing"
  /\ gathered' = {[paper |-> p, analysis |-> analysis[p]] : p \in {p \in Range(ingested) : analysis[p] # None}}
  /\ phase' = "reporting"
  /\ UNCHANGED <<iteration, search, chosen, papers, report, trouble>>

Registry(p) == DOMAIN Texts[version[p]]

\* _refs: evidence the registry has now, under the document of the analysis.
Refs(g, cites) ==
  {[paper |-> g.paper, document |-> g.analysis.version, evidence |-> e] : e \in cites \cap Registry(g.paper)}

Claim(papersOf, refs, numbers) == [papers |-> papersOf, refs |-> refs, numbers |-> numbers]

\* Claims without evidence are left out.
LocalClaims ==
  {Claim({x[1].paper}, Refs(x[1], x[2].cites), x[2].numbers) :
     x \in UNION {{g} \X Range(g.analysis.content.claims) : g \in gathered}}

Results == UNION {{g} \X Range(g.analysis.content.results) : g \in gathered}

\* Two results or more of a metric, all of one value.
Agreements ==
  LET Of(m) == {x \in Results : x[2].metric = m}
      metrics == {m \in {x[2].metric : x \in Results} :
                    Cardinality(Of(m)) >= 2 /\ Cardinality({x[2].value : x \in Of(m)}) = 1}
  IN {Claim({x[1].paper : x \in Of(m)}, UNION {Refs(x[1], x[2].cites) : x \in Of(m)},
            {x[2].value : x \in Of(m)}) : m \in metrics}

\* Results of one metric in two papers that point in opposite directions.
Contradictions ==
  LET Opposed(x, y) ==
        /\ x[1].paper # y[1].paper
        /\ x[2].metric = y[2].metric
        /\ <<x[1].paper, y[1].paper>> \in Context
        /\ {x[2].direction, y[2].direction} = {"positive", "negative"}
        /\ Refs(x[1], x[2].cites) # {} /\ Refs(y[1], y[2].cites) # {}
  IN {Claim({x[1].paper}, Refs(x[1], x[2].cites), x[2].numbers) : x \in {x \in Results : \E y \in Results : Opposed(x, y)}}

Synthesized == {c \in LocalClaims \cup Agreements \cup Contradictions : c.refs # {}}

\* validate_research_report: the papers are selected, the document is the
\* active one, the evidence is there, and a claim with numbers shares one
\* with each text it cites.
MutantValid(claims) ==
  \A c \in claims :
    /\ c.papers \subseteq Range(ingested)
    /\ \A r \in c.refs : /\ r.evidence \in Registry(r.paper)
                         /\ c.numbers # {} => Texts[version[r.paper]][r.evidence] \cap c.numbers # {}

Valid(claims) ==
  \A c \in claims :
    /\ c.papers \subseteq Range(ingested)
    /\ \A r \in c.refs : /\ r.document = version[r.paper]
                         /\ r.evidence \in Registry(r.paper)
                         /\ c.numbers # {} => Texts[version[r.paper]][r.evidence] \cap c.numbers # {}

\* The report is validated and saved without an await in between; one that
\* does not validate fails the run for good.
Publish ==
  /\ phase = "reporting"
  /\ IF Valid(Synthesized)
       THEN /\ report' = Synthesized
            /\ phase' = IF ingested # <<>> /\ failures = 0 THEN "COMPLETED" ELSE "PARTIAL"
       ELSE /\ report' = report
            /\ phase' = "FAILED"
  /\ UNCHANGED <<iteration, search, chosen, papers, gathered, trouble>>

---------------------------------------------------------------------------

\* Another request stores a new document of the paper; before the analysis of
\* an iteration it does not matter when.
ReplaceDocument ==
  /\ \E p \in library :
       /\ version[p] < MaxReplaced
       /\ version' = [version EXCEPT ![p] = @ + 1]
  /\ phase \in {"analyzing", "synthesizing", "reporting"}
  /\ UNCHANGED <<phase, iteration, search, chosen, ingested, toAnalyze, library, analysis, output, trouble>>

Ended == phase \in Terminal /\ UNCHANGED vars

Next == Ask \/ PlanLocally \/ Search \/ SelectPapers \/ Ingest \/ Analyze \/ Evaluate
        \/ Gather \/ Publish \/ ReplaceDocument \/ Ended

SearchSpec == Init /\ [][Next]_vars

---------------------------------------------------------------------------
(* Properties. *)

\* What is selected, ranked and counted as ingested stays within the run's
\* budget and names a paper once: an arXiv identifier is one candidate
\* however often and under whatever titles it was found.  A place is left
\* free only if every candidate is selected.
OncePerPaper(s) == \A i, j \in DOMAIN s : s[i].arxiv # None /\ s[i].arxiv = s[j].arxiv => i = j

SelectionIsBounded ==
  /\ Len(selected) <= MaxIngested
  /\ Len(candidates) <= MaxCandidates
  /\ calls <= CallLimit
  /\ Range(selected) \subseteq Range(candidates)
  /\ OncePerPaper(candidates)
  /\ OncePerPaper(selected)
  /\ IsInjective(ingested)
  /\ Len(ingested) <= MaxIngested * iteration
  /\ Len(selected) < MaxIngested =>
       {CandidateId(c) : c \in Range(candidates)} \subseteq {CandidateId(c) : c \in Range(selected)}

\* A run is only COMPLETED if nothing of its attempt went wrong in any
\* iteration: no search, ingestion or analysis failed.
CompletedMeansNoFailure == phase = "COMPLETED" => mishaps = {} /\ ingested # <<>>

\* A report is published with citations that resolve at that moment: papers
\* of the run, their active documents, evidence these have, and no number
\* that none of the cited texts states.
PublishedReportResolves ==
  [][report' # report =>
       \A c \in report' : \A r \in c.refs :
         /\ r.paper \in Range(ingested)
         /\ r.document = version[r.paper]
         /\ r.evidence \in DOMAIN Texts[version[r.paper]]
         /\ c.numbers # {} => Texts[version[r.paper]][r.evidence] \cap c.numbers # {}]_vars
===========================================================================
