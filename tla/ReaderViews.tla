---------------------------- MODULE ReaderViews ----------------------------
(***************************************************************************)
(* What the reader shows beside a paper: the charts planned from its       *)
(* results, the comparison of several papers, the evidence of several      *)
(* papers for one query and the citation graph.                            *)
(* Pure functions of persisted analyses, papers and references.            *)
(***************************************************************************)
EXTENDS Naturals, Sequences, FiniteSets, Filters

CONSTANT None

---------------------------------------------------------------------------
(* plan_visualizations.  A result is its metric, if any, and whether its    *)
(* value is a number; a view lists the results it draws.                    *)

View(type, rows) == [type |-> type, rows |-> rows]
Numeric(r) == r.numeric

MutantResultView(results) ==
  LET numbers == Those(results, Numeric)
  IN IF Len(numbers) >= 2 /\ \A r \in Range(numbers) : r.metric # None
       THEN View("BAR_CHART", numbers)
     ELSE IF Len(numbers) = 1 /\ Len(results) = 1 THEN View("METRIC", numbers)
     ELSE View("TABLE", results)

\* A chart needs two numbers of one metric; a single number stands alone;
\* everything else is a table.
ResultView(results) ==
  LET numbers == Those(results, Numeric)
  IN IF Len(numbers) >= 2 /\ numbers[1].metric # None
        /\ \A r \in Range(numbers) : r.metric = numbers[1].metric
       THEN View("BAR_CHART", numbers)
     ELSE IF Len(numbers) = 1 /\ Len(results) = 1 THEN View("METRIC", numbers)
     ELSE View("TABLE", results)

PlanVisualizations(steps, results) ==
  (IF steps = <<>> THEN <<>> ELSE <<View("METHOD_FLOW", steps)>>)
  \o (IF results = <<>> THEN <<>> ELSE <<ResultView(results)>>)

\* A chart puts numbers of one metric on one axis, and a number is only shown
\* alone if the paper reports no other result.
ViewsClaimNoMore(steps, results) ==
  \A v \in Range(PlanVisualizations(steps, results)) :
    /\ v.type = "BAR_CHART" =>
         /\ Len(v.rows) >= 2
         /\ \E metric \in {r.metric : r \in Range(results)} \ {None} :
              \A r \in Range(v.rows) : r.numeric /\ r.metric = metric
    /\ v.type = "METRIC" => Len(results) = 1 /\ results[1].numeric
    /\ v.type = "TABLE" => v.rows = results

---------------------------------------------------------------------------
(* compare: two to five distinct papers, each with an analysis.             *)

\* dict.fromkeys: the first of each.
Uniq(s) ==
  LET firsts[i \in 0 .. Len(s)] ==
        IF i = 0 THEN <<>>
        ELSE IF s[i] \in Range(firsts[i - 1]) THEN firsts[i - 1] ELSE Append(firsts[i - 1], s[i])
  IN firsts[Len(s)]

Comparable(papers, analysed) ==
  Len(Uniq(papers)) \in 2 .. 5 /\ Range(papers) \subseteq analysed

\* _comparability of the papers' values in a dimension, as the verdicts it
\* may return: equal sets of several strings may be listed in different orders.
Comparability(dimension, values) ==
  LET stated == Those(values, LAMBDA v : v # {})
  IN IF Len(stated) < 2 \/ dimension = "Results" THEN {"PARTIALLY_COMPARABLE"}
     ELSE IF \A v \in Range(stated) : v = stated[1]
            THEN {"COMPARABLE"}
                 \cup IF Cardinality(stated[1]) > 1 THEN {"NOT_COMPARABLE"} ELSE {}
     ELSE {"NOT_COMPARABLE"}

Dimensions == {"Datasets", "Metrics", "Results"}
Compare(papers, analysed, values) ==
  IF ~Comparable(papers, analysed) THEN None
  ELSE LET ids == Uniq(papers)
       IN [papers |-> ids,
           verdict |-> [d \in Dimensions |-> Comparability(d, [i \in DOMAIN ids |-> values[ids[i]]])]]

\* Papers are only called comparable if two of them state their values and
\* all that do state the same; results never are.
ComparisonClaimsNoMore(papers, analysed, values) ==
  LET c == Compare(papers, analysed, values)
      Stating == {p \in Range(c.papers) : values[p] # {}}
  IN c # None =>
       /\ c.verdict["Results"] = {"PARTIALLY_COMPARABLE"}
       /\ \A d \in Dimensions : "COMPARABLE" \in c.verdict[d] =>
            /\ Cardinality(Stating) >= 2
            /\ \A p, q \in Stating : values[p] = values[q]

---------------------------------------------------------------------------
(* CrossPaperEvidenceRetriever: evidence of several papers for one query.   *)
(* found lists the scores of each paper's evidence, the best first, as the  *)
(* mode's retriever or, when that fails, the lexical one returns them.      *)
(* Papers are numbers, in the order of their ids.                           *)

Clamp(n, low, high) == IF n < low THEN low ELSE IF n > high THEN high ELSE n
AtMost(n, s) == SubSeq(s, 1, IF n < Len(s) THEN n ELSE Len(s))
Share(papers, limit, topK) ==
  Clamp(((limit + Len(papers) - 1) \div Len(papers)) + 2, 1, topK)

\* Each paper's best are taken in turns, which the sort undoes: it is by score,
\* then by paper and evidence.  Hits of one paper and score are ordered by evidence
\* id, for which the hit's rank in its paper's list stands.  `limit' is what the
\* clamp of the requested one to 1 .. 40 leaves.
Before(x, y) ==
  \/ x.score > y.score
  \/ x.score = y.score /\ x.paper < y.paper
  \/ x.score = y.score /\ x.paper = y.paper /\ x.nth < y.nth
Place(S, x) == 1 + Cardinality({y \in S : Before(y, x)})
Sorted(S) == [k \in 1 .. Cardinality(S) |-> CHOOSE x \in S : Place(S, x) = k]

RetrieveAcross(papers, found, limit, topK) ==
  LET allowed == Uniq(papers)
      share == Share(allowed, limit, topK)
      Best(p) == {[paper |-> p, nth |-> i, score |-> found[p][i]] : i \in DOMAIN AtMost(share, found[p])}
  IN IF allowed = <<>> THEN <<>>
     ELSE AtMost(limit, Sorted(UNION {Best(p) : p \in Range(allowed)}))

\* Within the limit and each paper's share, no evidence is left out for a worse
\* one, and none comes twice.
BestEvidenceIsFound(papers, found, limit, topK) ==
  LET result == RetrieveAcross(papers, found, limit, topK)
      Taken(p) == {x \in Range(result) : x.paper = p}
  IN /\ IsInjective(result)
     /\ Len(result) <= limit
     /\ \A p \in Range(papers) : \A i \in DOMAIN found[p] :
          \/ \E x \in Taken(p) : x.nth = i
          \/ i > Share(Uniq(papers), limit, topK)
          \/ /\ Len(result) = limit
             /\ \A x \in Range(result) : x.score >= found[p][i]

---------------------------------------------------------------------------
(* build_citation_graph.  Titles are in normal form; one without a Latin    *)
(* letter or a digit is Blank.                                              *)

Blank == ""
LastWith(papers, P(_)) ==
  LET found == Those(papers, P) IN IF found = <<>> THEN None ELSE found[Len(found)].id

ByArxiv(library, arxiv) == LastWith(library, LAMBDA p : p.arxiv = arxiv)
ByTitle(library, title) == LastWith(library, LAMBDA p : p.title = title)

\* By arXiv id, else by title, else by the first title the raw text contains.
Mentioned(library, mentions) ==
  LET found == Those(library, LAMBDA p : p.title # Blank /\ p.title \in mentions)
  IN IF found = <<>> THEN None ELSE ByTitle(library, found[1].title)
FirstFound(s) ==
  LET found == Those(s, LAMBDA x : x # None) IN IF found = <<>> THEN None ELSE found[1]
Matched(library, r) ==
  FirstFound(<<IF r.arxiv = None THEN None ELSE ByArxiv(library, r.arxiv),
               IF r.title = None THEN None ELSE ByTitle(library, r.title),
               Mentioned(library, r.mentions)>>)

PaperNode(id) == <<"paper", id>>
ReferenceNode(id) == <<"reference", id>>

\* A paper is a node once; a reference outside the library is its own.
Cite(library, g, r) ==
  LET m == Matched(library, r)
      target == IF m = None THEN ReferenceNode(r.id) ELSE PaperNode(m)
      known == m # None /\ target \in Range(g.nodes)
  IN [nodes |-> IF known THEN g.nodes ELSE Append(g.nodes, target),
      edges |-> Append(g.edges, [reference |-> r.id, target |-> target])]

CitationGraph(library, paper, references) ==
  LET cited[i \in 0 .. Len(references)] ==
        IF i = 0 THEN [nodes |-> <<PaperNode(paper)>>, edges |-> <<>>]
        ELSE Cite(library, cited[i - 1], references[i])
  IN cited[Len(references)]

\* Every reference is one edge, to a node that is there once, and every node
\* but the paper itself is cited.
GraphIsJoined(library, paper, references) ==
  LET g == CitationGraph(library, paper, references)
      targets == {e.target : e \in Range(g.edges)}
  IN /\ [i \in DOMAIN g.edges |-> g.edges[i].reference] = [i \in DOMAIN references |-> references[i].id]
     /\ IsInjective(g.nodes)
     /\ Range(g.nodes) = targets \cup {PaperNode(paper)}
===========================================================================
