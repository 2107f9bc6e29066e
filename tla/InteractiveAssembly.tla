------------------------ MODULE InteractiveAssembly ------------------------
(***************************************************************************)
(* assemble_interactive_paper and validate_paper: the blocks a reader is   *)
(* shown, from a document and its analysis, and the fail-closed pass that  *)
(* drops what the document's evidence does not support.                    *)
(*                                                                         *)
(* Pure functions of a document and an analysis.  Wording is left out: a   *)
(* claim is what it cites and whether the model inferred it.  An absent    *)
(* analysis and one whose stages all came out empty assemble alike.        *)
(***************************************************************************)
EXTENDS Naturals, Sequences, FiniteSets, Filters

CONSTANT None

\* A claim cites evidence; so do steps, figures, tables and equations.
Cited(items) == UNION {x.cites : x \in Range(items)}
SomeInferred(items) == \E x \in Range(items) : x.inferred
Prefix(s, n) == SubSeq(s, 1, IF Len(s) < n THEN Len(s) ELSE n)
IdsOf(s) == {x.id : x \in Range(s)}

\* InteractivePaperBlock with the defaults the assembler leaves.
Block(id, cites) ==
  [id |-> id, text |-> FALSE, visual |-> None, archify |-> None, equations |-> <<>>,
   figures |-> <<>>, tables |-> <<>>, cites |-> cites, inferred |-> FALSE,
   status |-> "READY", validator |-> "PASSED"]

---------------------------------------------------------------------------
(* Blocks. *)

\* The abstract and the contributions, under the evidence of the first section.
OverviewBlocks(doc, a) ==
  IF doc.abstract \/ a.contributions # <<>>
    THEN <<[Block("overview", doc.opening \cup Cited(a.contributions)) EXCEPT !.text = TRUE]>>
    ELSE <<>>

\* One block for the claims of a stage, if it has any.
ClaimBlocks(id, claims) ==
  IF claims = <<>> THEN <<>>
  ELSE <<[Block(id, Cited(claims)) EXCEPT !.text = TRUE, !.inferred = SomeInferred(claims)]>>

\* Steps become nodes; without steps the summary does.
MethodNodes(m) ==
  IF m.steps = <<>> THEN <<[id |-> "summary", cites |-> m.cites, inferred |-> m.inferred]>>
  ELSE m.steps

\* Nodes in a row, each followed by the next.
Sequential(nodes) ==
  [i \in 1 .. (Len(nodes) - 1) |->
     [source |-> nodes[i].id, target |-> nodes[i + 1].id, cites |-> {}, inferred |-> TRUE]]

\* The stated relations carry the method's evidence; without any, the order
\* of the steps is shown as inferred.
MethodEdges(m) ==
  IF m.relations = <<>> THEN Sequential(MethodNodes(m))
  ELSE [i \in DOMAIN m.relations |->
          [source |-> m.relations[i][1], target |-> m.relations[i][2],
           cites |-> m.cites, inferred |-> m.inferred]]

Diagram(nodes, edges) == [nodes |-> nodes, edges |-> edges]

\* validate_paper_visual_graph: at least one node, no dangling edge, evidence
\* for what is not inferred.
ValidGraph(d) ==
  /\ d.nodes # <<>>
  /\ \A x \in Range(d.nodes) \cup Range(d.edges) : x.cites # {} \/ x.inferred
  /\ \A x \in Range(d.edges) : {x.source, x.target} \subseteq IdsOf(d.nodes)

\* to_archify_ir of a pipeline: one node per column, six columns, and the graph
\* with what it cites beside them.
WorkflowColumns == 6
Archify(d) ==
  IF Len(d.nodes) > WorkflowColumns \/ ~ValidGraph(d) THEN None
  ELSE [column |-> [i \in DOMAIN d.nodes |-> IF i < WorkflowColumns THEN i ELSE WorkflowColumns],
        graph |-> d, cites |-> Cited(d.nodes) \cup Cited(d.edges)]

\* Equations keep the analysis' evidence, and so do their terms.
Explained(equations) == [i \in DOMAIN equations |-> [id |-> equations[i].id, cites |-> equations[i].cites]]

Binding(x) == [id |-> x.id, cites |-> x.cites]
Bindings(items) == [i \in DOMAIN items |-> Binding(items[i])]

\* _figure_visual_analysis of what the visual model read in a figure: two nodes
\* and a relation make a diagram, all of it inferred, whose parts cite what the
\* model named for them or else for the figure.
CitedIn(visual, x) == IF x.cites = {} THEN visual.cites ELSE x.cites
Reconstructed(visual) ==
  IF Len(visual.nodes) < 2 \/ visual.relations = <<>> THEN None
  ELSE Diagram(
    [i \in DOMAIN visual.nodes |->
       [id |-> i, cites |-> CitedIn(visual, visual.nodes[i]), inferred |-> TRUE]],
    [i \in DOMAIN visual.relations |->
       [source |-> visual.relations[i].source, target |-> visual.relations[i].target,
        cites |-> CitedIn(visual, visual.relations[i]), inferred |-> TRUE]])
Analysed(visual) ==
  IF visual = None THEN None ELSE [cites |-> visual.cites, diagram |-> Reconstructed(visual)]

\* A figure is shown if there is a caption or an image.
Shown(f) == f.captioned
FigureBinding(f) == [id |-> f.id, cites |-> f.cites, seen |-> Analysed(f.visual)]
FigureBindings(figures) == [i \in DOMAIN figures |-> FigureBinding(figures[i])]

MethodFigures(doc) == Those(Prefix(doc.figures, 2), Shown)
MethodEquations == 4
MethodBlocks(doc, a) ==
  IF a.method = None THEN <<>>
  ELSE LET m == a.method
           d == Diagram(MethodNodes(m), MethodEdges(m))
       IN <<[Block("method", m.cites \cup Cited(d.nodes)) EXCEPT
               !.text = TRUE, !.visual = d, !.archify = Archify(d), !.inferred = m.inferred,
               !.equations = Explained(Prefix(a.equations, MethodEquations)),
               !.figures = FigureBindings(MethodFigures(doc))]>>

\* _method_block names a variable it does not have when a figure is shown.
Raises(doc, a) == a.method # None /\ MethodFigures(doc) # <<>>

\* _important_tables: structured tables, at most four; two may lack the
\* words of a result table.
ImportantTables(doc) ==
  LET Scored[i \in 0 .. Len(doc.tables)] ==
        IF i = 0 THEN <<>>
        ELSE LET t == doc.tables[i]
                 s == Scored[i - 1]
             IN IF t.structured /\ (t.keyed \/ Len(s) < 2) THEN Append(s, t) ELSE s
  IN Prefix(Scored[Len(doc.tables)], 4)

\* Dataset, setup, evaluation and result of the first experiment, in a row.
Stage(id, claim, inferred) == <<[id |-> id, cites |-> claim.cites, inferred |-> inferred]>>
When(condition, s) == IF condition THEN s ELSE <<>>
ExperimentBlocks(doc, a) ==
  IF a.experiments = <<>> THEN <<>>
  ELSE LET e == a.experiments[1]
           nodes == When(e.datasets, Stage("dataset", e, e.inferred))
                    \o Stage("setup", e, e.inferred)
                    \o When(e.metrics, Stage("evaluation", e, e.inferred))
                    \o When(a.results # <<>>, Stage("result", Head(a.results \o <<e>>), e.inferred))
           d == Diagram(nodes, Sequential(nodes))
       IN <<[Block("experiments", e.cites) EXCEPT
               !.text = TRUE, !.inferred = e.inferred,
               !.visual = IF Len(nodes) > 1 THEN d ELSE None,
               !.archify = IF Len(nodes) > 1 THEN Archify(d) ELSE None,
               !.tables = Bindings(Prefix(ImportantTables(doc), 2))]>>

ResultBlocks(doc, a) ==
  IF a.results = <<>> THEN <<>>
  ELSE <<[Block("results", Cited(a.results)) EXCEPT
            !.text = TRUE, !.inferred = SomeInferred(a.results),
            !.tables = Bindings(Prefix(ImportantTables(doc), 1))]>>

\* Equations the method block did not show; without any in the analysis, the
\* first six of the document, as far as they have evidence.
LeftoverEquations(a) ==
  LET taken == IF a.method = None THEN {} ELSE IdsOf(Prefix(a.equations, MethodEquations))
      Left(e) == e.id \notin taken
  IN Those(a.equations, Left)

Bound(e) == e.cites # {}
EquationBlocks(doc, a) ==
  LET explained == IF a.equations # <<>> THEN Explained(LeftoverEquations(a))
                   ELSE Explained(Those(Prefix(doc.equations, 6), Bound))
  IN IF a.equations # <<>>
       THEN IF explained = <<>> THEN <<>>
            ELSE <<[Block("equations", Cited(explained)) EXCEPT !.text = TRUE, !.equations = explained]>>
       ELSE IF doc.equations = <<>> THEN <<>>
            ELSE IF explained = <<>>
                   THEN <<[Block("equations", {}) EXCEPT !.status = "FAILED", !.validator = "REJECTED"]>>
                   ELSE <<[Block("equations", Cited(explained)) EXCEPT !.equations = explained]>>

\* What no earlier block shows gets a block of its own.
LeftoverTables(doc, blocks) ==
  LET Left(t) == \A b \in Range(blocks) : t.id \notin IdsOf(b.tables)
  IN Those(ImportantTables(doc), Left)
LeftoverFigures(doc, blocks) ==
  LET Left(f) == Shown(f) /\ \A b \in Range(blocks) : f.id \notin IdsOf(b.figures)
  IN Prefix(Those(doc.figures, Left), 4)
TableBlocks(tables) ==
  IF tables = <<>> THEN <<>>
  ELSE <<[Block("tables", Cited(tables)) EXCEPT !.text = TRUE, !.tables = Bindings(tables)]>>
FigureBlocks(figures) ==
  IF figures = <<>> THEN <<>>
  ELSE <<[Block("figures", Cited(figures)) EXCEPT !.text = TRUE,
                                   !.figures = FigureBindings(figures)]>>

Body(doc, a) ==
  OverviewBlocks(doc, a) \o ClaimBlocks("problem", a.problem)
  \o ClaimBlocks("motivation", a.motivation) \o ClaimBlocks("gap", a.gap)
  \o MethodBlocks(doc, a) \o EquationBlocks(doc, a)
  \o ExperimentBlocks(doc, a) \o ResultBlocks(doc, a)

Tabled(doc, a) == Body(doc, a) \o TableBlocks(LeftoverTables(doc, Body(doc, a)))

Blocks(doc, a) ==
  Tabled(doc, a) \o FigureBlocks(LeftoverFigures(doc, Tabled(doc, a)))
  \o ClaimBlocks("limitations", a.limitations) \o ClaimBlocks("takeaways", a.future)

---------------------------------------------------------------------------
(* Validation. *)

\* Citations are cut to what the document has.
Kept(items, available) ==
  [i \in DOMAIN items |-> [items[i] EXCEPT !.cites = @ \cap available]]
Supported(x) == x.cites # {} \/ x.inferred

\* Definitions called Mutant... are wrong on purpose, as in ResearchLedger.

\* The edges of a dropped node stay.
MutantSanitizeDiagram(d, available) ==
  LET nodes == Those(Kept(d.nodes, available), Supported)
  IN IF nodes = <<>> THEN None
     ELSE Diagram(nodes, Those(Kept(d.edges, available), Supported))

SanitizeDiagram(d, available) ==
  LET nodes == Those(Kept(d.nodes, available), Supported)
      Joins(x) == {x.source, x.target} \subseteq IdsOf(nodes) /\ Supported(x)
  IN IF nodes = <<>> THEN None
     ELSE Diagram(nodes, Those(Kept(d.edges, available), Joins))

SanitizeEquations(equations, available) == Those(Kept(equations, available), Bound)

\* A block without any content left fails; a block that lost its diagram, or
\* all the evidence of a claim, is partial.  The Archify payload and the visual
\* analyses of figures are kept as they are.
SanitizeBlock(b, doc, available) ==
  LET Figure(f) == f.id \in IdsOf(doc.figures)
      Table(t) == t.id \in IdsOf(doc.tables)
      c == [b EXCEPT !.cites = @ \cap available,
                     !.visual = IF @ = None THEN None ELSE SanitizeDiagram(@, available),
                     !.equations = SanitizeEquations(@, available),
                     !.figures = Those(Kept(@, available), Figure),
                     !.tables = Those(Kept(@, available), Table)]
      lost == b.visual # None /\ c.visual = None
  IN IF ~b.text /\ c.visual = None /\ <<c.equations, c.figures, c.tables>> = <<<<>>, <<>>, <<>>>>
       THEN [c EXCEPT !.status = "FAILED", !.validator = "REJECTED"]
       ELSE [c EXCEPT !.validator =
               IF lost \/ (b.cites # {} /\ c.cites = {} /\ ~b.inferred) THEN "PARTIAL" ELSE "PASSED"]

Ready(b) == b.status = "READY"

\* The paper is ready if a block is; the outline lists the blocks that are.
Validated(blocks, doc, available) ==
  LET checked == [i \in DOMAIN blocks |-> SanitizeBlock(blocks[i], doc, available)]
      ready == Those(checked, Ready)
  IN [blocks |-> checked,
      outline |-> [i \in DOMAIN ready |-> ready[i].id],
      status |-> IF ready # <<>> THEN "READY" ELSE IF checked # <<>> THEN "FAILED" ELSE "PLANNED"]

Assemble(doc, a, available) == Validated(Blocks(doc, a), doc, available)

\* What the extraction and the document registry give: lists, the figures of
\* a document and the equations of an analysis each under an id of its own,
\* steps that carry what a node does.  analyze_figures_from_pdf drops an answer
\* that relates nodes it does not have, or cites what is not on the figure's page by
\* the identifiers rebuilt for it, which need not be the registered ones.
IsVisual(visual) ==
  /\ visual.nodes \in Seq(Range(visual.nodes)) /\ visual.relations \in Seq(Range(visual.relations))
  /\ \A x \in Range(visual.relations) : {x.source, x.target} \subseteq DOMAIN visual.nodes

IsPaper(doc, a) ==
  LET Listed(s) == s \in Seq(Range(s))
      Own(s) == \A i, j \in DOMAIN s : s[i].id = s[j].id => i = j
  IN /\ Listed(doc.figures) /\ Listed(doc.tables) /\ Listed(doc.equations) /\ Listed(a.equations)
     /\ Listed(a.experiments) /\ Listed(a.results)
     /\ Own(doc.figures) /\ Own(a.equations)
     /\ \A f \in Range(doc.figures) : f.visual # None => IsVisual(f.visual)
     /\ a.method # None =>
          /\ Listed(a.method.steps) /\ Listed(a.method.relations)
          /\ \A x \in Range(a.method.steps) :
               x = [id |-> x.id, cites |-> x.cites, inferred |-> x.inferred]

---------------------------------------------------------------------------
(* Promises. *)

\* What validation looks at of a block, and what it does not.
Cites(b) ==
  b.cites \cup Cited(b.equations) \cup Cited(b.figures) \cup Cited(b.tables)
  \cup IF b.visual = None THEN {} ELSE Cited(b.visual.nodes) \cup Cited(b.visual.edges)

DrawnFrom(d) == IF d = None THEN {} ELSE Cited(d.nodes) \cup Cited(d.edges)
SeenIn(f) == IF f.seen = None THEN {} ELSE f.seen.cites \cup DrawnFrom(f.seen.diagram)
Unchecked(b) ==
  (IF b.archify = None THEN {} ELSE b.archify.cites)
  \cup UNION {SeenIn(f) : f \in Range(b.figures)}

\* What the analysis cites for its method, experiments and results, and the visual
\* model for a figure.
DrawnOn(a) ==
  (IF a.method = None THEN {} ELSE a.method.cites \cup Cited(a.method.steps))
  \cup Cited(a.experiments) \cup Cited(a.results)
ReadIn(visual) ==
  IF visual = None THEN {} ELSE visual.cites \cup Cited(visual.nodes) \cup Cited(visual.relations)

Grounded(b, doc, available) ==
  /\ Cites(b) \subseteq available
  /\ \A e \in Range(b.equations) : e.cites # {}
  /\ IdsOf(b.figures) \subseteq IdsOf(doc.figures)
  /\ IdsOf(b.tables) \subseteq IdsOf(doc.tables)
  /\ b.visual # None => ValidGraph(b.visual)

\* Six columns hold every node of an Archify graph, which is the diagram before
\* it was cut; it cites what the analysis does.
Arranged(b, a) ==
  b.archify # None =>
    /\ IsInjective(b.archify.column)
    /\ ValidGraph(b.archify.graph)
    /\ b.archify.cites \subseteq DrawnOn(a)
    /\ b.visual # None => IdsOf(b.visual.nodes) \subseteq IdsOf(b.archify.graph.nodes)

\* A figure is shown with what the visual model read in it, and no other's.
Reread(f, doc) ==
  \E g \in Range(doc.figures) :
    /\ g.id = f.id
    /\ SeenIn(f) \subseteq ReadIn(g.visual)
    /\ f.seen # None => f.seen.diagram = None \/ ValidGraph(f.seen.diagram)

ShowsSomething(b) ==
  b.text \/ b.visual # None \/ <<b.equations, b.figures, b.tables>> # <<<<>>, <<>>, <<>>>>

\* What is read is supported as far as validation goes: the claims, equations,
\* figures, tables and diagrams of a block cite evidence of the document, no diagram
\* has a loose end, and the outline leads to blocks that show something.  What
\* validation leaves alone, the Archify graph of a diagram and the visual analysis of
\* a figure, need not: it cites what the analysis and the visual model cited.  The
\* analysis may be of an older document; the visual model is held to the identifiers
\* that are rebuilt from the document, which are not the registered ones where these
\* had to be renamed (_namespace_colliding_ids).
PaperIsGrounded(doc, a, available) ==
  LET paper == Assemble(doc, a, available)
      Listed(id) == \E b \in Range(paper.blocks) : b.id = id /\ ShowsSomething(b)
  IN /\ \A b \in Range(paper.blocks) :
          /\ Grounded(b, doc, available) /\ Arranged(b, a)
          /\ \A f \in Range(b.figures) : Reread(f, doc)
     /\ \A i \in DOMAIN paper.outline : Listed(paper.outline[i])

\* docs/architecture.md:384: unsupported visual claims are dropped.  They are not.
UnsupportedIsDropped(doc, a, available) ==
  \A b \in Range(Assemble(doc, a, available).blocks) : Unchecked(b) \subseteq available

\* The block that shows an item: exactly one, or any.
Once(id, blocks, Items(_)) == \E b \in Range(blocks) :
  /\ Cardinality({i \in DOMAIN Items(b) : Items(b)[i].id = id}) = 1
  /\ \A c \in Range(blocks) \ {b} : id \notin IdsOf(Items(c))
Somewhere(id, blocks, Items(_)) == \E b \in Range(blocks) : id \in IdsOf(Items(b))

\* Nothing is lost or repeated between the blocks: an equation of the analysis
\* is explained once, a figure is shown at most once and, of four at most,
\* all that can be shown are; the important tables are all shown.
NothingIsLost(doc, a) ==
  LET blocks == Blocks(doc, a)
      Equations(b) == b.equations
      Figures(b) == b.figures
      Tables(b) == b.tables
      showable == Those(doc.figures, Shown)
  IN /\ \A e \in Range(a.equations) : Once(e.id, blocks, Equations)
     /\ \A f \in Range(showable) :
          IF Len(showable) <= 4 THEN Once(f.id, blocks, Figures)
          ELSE Somewhere(f.id, blocks, Figures) => Once(f.id, blocks, Figures)
     /\ \A t \in Range(ImportantTables(doc)) : Somewhere(t.id, blocks, Tables)
===========================================================================
