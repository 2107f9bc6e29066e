---------------------------- MODULE ReaderRules ----------------------------
(***************************************************************************)
(* The rules of the backend that keep no state, on one input at a time:    *)
(* which paper is taken in for what a reader types, how a PDF becomes a    *)
(* document with evidence, how an interactive paper is assembled and       *)
(* validated, what the reader shows beside it, how requests are limited.   *)
(* A behaviour is one input; the promises of the modules are its           *)
(* invariants.                                                             *)
(***************************************************************************)
EXTENDS RequestLimits

CONSTANTS Inputs,       \* [text, world] to take in
          MaxBytes,     \* the size limit of a PDF
          Pdfs,         \* [pages, limits] to parse
          Papers,       \* [doc, analysis, available] to assemble
          Reports,      \* [steps, results] of an analysis to plan views for
          Selections,   \* [papers, analysed, values] to compare
          Searches,     \* [papers, found, limit, topK] to retrieve for
          Libraries,    \* [library, paper, references] to graph
          Traffic,      \* [app, requests]: a deployment and what it is sent
          Uses,         \* [app, requests]: a deployment and what its users do
          Addresses, Ttl,
          None

Intake == INSTANCE PaperIntake
Structure == INSTANCE DocumentStructure
Assembly == INSTANCE InteractiveAssembly
Views == INSTANCE ReaderViews
Users == INSTANCE Accounts

\* Sessions last a while, nobody registers as a local user, and no session
\* has the number None.
ASSUME UsersAssumption ==
  /\ Ttl \in Nat \ {0} /\ None \notin Nat
  /\ Addresses \cap {Users!Desktop, Users!Legacy} = {}
  /\ \A u \in Uses : Users!AreSent(u.requests)

\* What the classifier finds of a DOI, and a body that comes in chunks, none
\* of them empty.
ASSUME IntakeAssumption ==
  /\ MaxBytes \in Nat /\ None \notin {"arxiv", "public", "bibtex", "ris"}
  /\ \A i \in Inputs :
       LET doi == i.text.doi
       IN /\ doi # None => doi \in [id: {doi.id}, tail: {"none", "stop", "bracket"}]
          /\ i.world.answer.chunks \in Seq(Nat \ {0})

ASSUME TrafficAssumption ==
  \A t \in Traffic : t.app.limited \in BOOLEAN /\ InOrder(t.requests)

\* Pages with their images and the lines of their blocks; None is no error.
ASSUME DocumentAssumption ==
  /\ None \notin {"pages", "text", "images", "malformed"}
  /\ \A d \in Pdfs : d.pages \in Seq(Structure!Pages) /\ d.limits \in Structure!Limits

ASSUME PapersAssumption ==
  \A p \in Papers : Assembly!IsPaper(p.doc, p.analysis)

\* Lists as the analysis, the request and the parser give them: references are
\* numbered, scores and papers are numbers.
ASSUME ViewsAssumption ==
  LET Listed(s) == s \in Seq(Range(s))
  IN /\ \A r \in Reports : Listed(r.results)
     /\ \A s \in Selections : Listed(s.papers)
     /\ \A q \in Searches : /\ q.papers \in Seq(Nat) /\ {q.limit, q.topK} \subseteq Nat
                             /\ \A p \in Range(q.papers) : q.found[p] \in Seq(Nat)
     /\ \A l \in Libraries :
          /\ Listed(l.references)
          /\ \A i, j \in DOMAIN l.references : l.references[i].id = l.references[j].id => i = j

VARIABLE input

\* Where the assembler raises there is no paper.
Assembled == {p \in Papers : ~Assembly!Raises(p.doc, p.analysis)}

Init ==
  \/ \E i \in Inputs : input = [kind |-> "intake", of |-> i]
  \/ \E d \in Pdfs : input = [kind |-> "document", of |-> d]
  \/ \E p \in Assembled : input = [kind |-> "paper", of |-> p]
  \/ \E r \in Reports : input = [kind |-> "views", of |-> r]
  \/ \E s \in Selections : input = [kind |-> "comparison", of |-> s]
  \/ \E q \in Searches : input = [kind |-> "search", of |-> q]
  \/ \E l \in Libraries : input = [kind |-> "citations", of |-> l]
  \/ \E t \in Traffic : input = [kind |-> "traffic", of |-> t]
  \/ \E u \in Uses : input = [kind |-> "accounts", of |-> u]

Next == UNCHANGED input

RulesSpec == Init /\ [][Next]_input

---------------------------------------------------------------------------
(* Properties. *)

Is(kind) == input.kind = kind

\* However it is spelled, an identifier leads to the one paper it names,
\* confirmed and never guessed, with a PDF within the limit; a paper that can
\* be had is not refused.
IntakeIsSure == Is("intake") => Intake!IntakeIsSure(input.of.text, input.of.world)

\* A parsed paper keeps every line of its source once and in order, under the
\* right section and page, each with evidence of its own, and is refused only
\* past a limit or without text.
DocumentIsTraceable ==
  Is("document") => Structure!DocumentIsTraceable(input.of.pages, input.of.limits)

\* What validate_paper looks at of an interactive paper cites evidence of its
\* document only, and what it does not look at (Archify graphs and the visual
\* analyses of figures) what the analysis and the visual model cited; diagrams have no
\* loose ends, the outline leads to blocks that show something, and equations,
\* figures and tables are spread over the blocks without losing or repeating one.
PaperIsGrounded ==
  Is("paper") =>
    /\ Assembly!PaperIsGrounded(input.of.doc, input.of.analysis, input.of.available)
    /\ Assembly!NothingIsLost(input.of.doc, input.of.analysis)

\* docs/architecture.md:384: unsupported visual claims are dropped.  They are not: what
\* validation leaves alone keeps them.
UnsupportedIsDropped ==
  Is("paper") => Assembly!UnsupportedIsDropped(input.of.doc, input.of.analysis, input.of.available)

\* Charts, comparisons, the evidence of several papers and citation graphs
\* claim no more and show no worse than what is persisted.
ViewsClaimNoMore ==
  /\ Is("views") => Views!ViewsClaimNoMore(input.of.steps, input.of.results)
  /\ Is("comparison") =>
       Views!ComparisonClaimsNoMore(input.of.papers, input.of.analysed, input.of.values)
  /\ Is("search") =>
       Views!BestEvidenceIsFound(input.of.papers, input.of.found, input.of.limit, input.of.topK)
  /\ Is("citations") =>
       Views!GraphIsJoined(input.of.library, input.of.paper, input.of.references)

\* The limiter lets through fewer than twice the limit in a minute and
\* refuses only who used the limit up; what it does not limit is answered
\* whatever came before.
TrafficIsBounded == Is("traffic") => RateIsBounded(input.of.app, input.of.requests)

\* However registrations, logins, logouts and expiries interleave, a request
\* acts for the user its session belongs to; however saves, deletions and
\* tests do, a provider configuration keeps the secret stated last, its hint
\* and the result of its own last test.
AccountsAreOwn == Is("accounts") => Users!AccountsAreOwn(input.of.app, input.of.requests)
===========================================================================
