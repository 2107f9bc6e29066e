--------------------------- MODULE MCReaderRules ---------------------------
(* Inputs of ReaderRules for TLC. *)
EXTENDS ReaderRules

UpTo(n, S) == UNION {[1 .. k -> S] : k \in 0 .. n}
Numbered(id, s) == [i \in DOMAIN s |-> [id |-> id \o ToString(i)] @@ s[i]]

---------------------------------------------------------------------------
(* What readers type, with the services as they may be and a good download,  *)
(* and with every download and good services.                                *)

Blank == [blank |-> TRUE, record |-> None, arxiv |-> None, doi |-> None, says |-> FALSE,
          pmc |-> None, pmid |-> None, url |-> None, title |-> None]
Text == [Blank EXCEPT !.blank = FALSE]
Eprints == [id: {"1706"}, version: {None, "v1"}]
Dois == {None} \cup [id: {"d", "e"}, tail: {"none", "stop", "bracket"}]
Titled(t) == {t, [t EXCEPT !.title = "t"]}
WithDoi(t) == {[t EXCEPT !.doi = d, !.says = b] : d \in Dois, b \in BOOLEAN}
Sites == [host: {"arxiv"}, names: Eprints \cup {None}]
             \cup [host: {"pubmed", "pmc"}, names: {None, "1"}]
MCTexts ==
  {Blank, [Text EXCEPT !.pmc = "1"], [Text EXCEPT !.pmid = "1"]}
  \cup {[Text EXCEPT !.arxiv = e] : e \in Eprints}
  \cup {[Text EXCEPT !.url = a] : a \in Sites}
  \cup WithDoi([Text EXCEPT !.url = [host |-> "other", names |-> None]])
  \cup UNION {WithDoi(t) : t \in UNION {Titled([Text EXCEPT !.record = r]) : r \in {None, "bibtex", "ris"}}}

Good == [ok |-> TRUE, trusted |-> TRUE, declared |-> None, chunks |-> <<2>>, pdf |-> TRUE, html |-> FALSE]
Downloads == [ok: BOOLEAN, trusted: BOOLEAN, declared: {None, 1, 3}, chunks: UpTo(2, {1, 2}),
            pdf: BOOLEAN, html: BOOLEAN]
Works == {<<>>, [d |-> "public", e |-> "public"]} \cup [{"d"} -> {None, "public", "private"}]
Hits == {<<>>} \cup {<<[doi |-> "d", similar |-> b]>> : b \in BOOLEAN}
Worlds ==
  [up: SUBSET {"arxiv", "crossref", "ncbi"}, arxiv: {{}, Eprints}, crossref: Works, search: Hits,
   answer: {Good}]
  \cup [up: {{"arxiv", "crossref", "ncbi"}}, arxiv: {Eprints}, crossref: Works, search: {<<>>},
        answer: Downloads]
MCInputs == [text: MCTexts, world: Worlds]

---------------------------------------------------------------------------
(* PDFs: one block of every order of headings, one block of every kind of    *)
(* text, and two blocks on one page or two, within and past every limit.      *)

Page(images, blocks) == [images |-> images, blocks |-> blocks]
Roomy == [pages |-> 9, images |-> 0, allImages |-> 0, chars |-> 9, pageChars |-> 0]
Tight == {Roomy, [Roomy EXCEPT !.pages = 1], [Roomy EXCEPT !.chars = 2],
          [Roomy EXCEPT !.pageChars = 1], [Roomy EXCEPT !.images = 1, !.allImages = 2]}

Nestings == [1 .. 5 -> {"one", "two", "three", "text"}]
Texts == UpTo(3, {"text", "blank", "equation", "figure", "table", "two", "references"})
Blocks == UpTo(2, {"text", "figure", "references"})
MCPdfs ==
  {[pages |-> <<Page(0, <<b>>)>>, limits |-> Roomy] : b \in Nestings \cup Texts}
  \cup {[pages |-> <<Page(0, <<b, c>>)>>, limits |-> l] : b \in Blocks, c \in Blocks, l \in Tight}
  \cup {[pages |-> <<Page(i, <<b>>), Page(1, <<c>>)>>, limits |-> l] :
          i \in 0 .. 2, b \in Blocks, c \in Blocks, l \in Tight}

---------------------------------------------------------------------------
(* Papers: evidence 1 may be all the document has; figures, tables and what   *)
(* the visual model read in a figure cite it, the analysis may be an older one. *)

Cites == {{1}, {2}}
Available == {{}, {1}, {1, 2}}
Plain(s) == [i \in DOMAIN s |-> [cites |-> {1}] @@ s[i]]

Seen(nodes, relations) ==
  [cites |-> {1}, nodes |-> [i \in 1 .. nodes |-> [cites |-> {1}]],
   relations |-> [i \in 1 .. relations |-> [source |-> 1, target |-> nodes, cites |-> {1}]]]
Visuals == {None} \cup {Seen(nodes, relations) : nodes \in 1 .. 2, relations \in 0 .. 1}
Figures ==
  {Numbered("figure", Plain(s)) :
     s \in UpTo(6, [captioned: BOOLEAN, visual: {None}]) \cup UpTo(2, [captioned: BOOLEAN, visual: Visuals])}
Tables == {Numbered("table", Plain(s)) : s \in UpTo(3, [structured: BOOLEAN, keyed: BOOLEAN])}
Equations(n) == Numbered("equation", [i \in 1 .. n |-> [cites |-> IF i = 2 THEN {} ELSE {1}]])
Document(figures, tables, equations) ==
  [abstract |-> TRUE, opening |-> {1}, figures |-> figures, tables |-> tables,
   equations |-> Equations(equations)]

Claims == {<<>>, <<[cites |-> {1}, inferred |-> FALSE]>>,
           <<[cites |-> {2}, inferred |-> FALSE], [cites |-> {}, inferred |-> TRUE]>>}
Steps == {Numbered("step", s) : s \in UpTo(2, [cites: Cites, inferred: BOOLEAN])}
         \cup {Numbered("step", [i \in 1 .. n |-> [cites |-> {1}, inferred |-> FALSE]]) : n \in {6, 7}}
Relations == {<<>>, <<<<"step1", "step2">>>>, <<<<"step1", "step9">>>>}
Methods == [steps: Steps, relations: Relations, cites: Cites, inferred: {FALSE}]
Experiments == {<<>>} \cup
  {<<e>> : e \in [cites: Cites, inferred: BOOLEAN, datasets: BOOLEAN, metrics: BOOLEAN]}

Analysis(claims, method, equations, experiments, results) ==
  [problem |-> claims, motivation |-> <<>>, gap |-> claims, contributions |-> claims,
   limitations |-> claims, future |-> <<>>, method |-> method,
   equations |-> Equations(equations), experiments |-> experiments, results |-> results]

Case(doc, analysis) == [doc: {doc}, analysis: {analysis}, available: Available]
MCPapers ==
  UNION (
    {Case(Document(<<>>, <<>>, e), Analysis(<<>>, m, n, <<>>, <<>>)) :
       m \in Methods, e \in {0, 2}, n \in {0, 4, 5}}
    \cup {Case(Document(f, <<>>, e), Analysis(<<>>, None, n, <<>>, <<>>)) :
            f \in Figures, e \in {0, 2}, n \in {0, 5}}
    \cup {Case(Document(f, <<>>, 0), Analysis(<<>>, m, 0, <<>>, <<>>)) :
            f \in Figures, m \in {CHOOSE m \in Methods : TRUE}}
    \cup {Case(Document(<<>>, t, 0), Analysis(c, None, 0, e, r)) :
            t \in Tables, c \in Claims, e \in Experiments, r \in Claims})

---------------------------------------------------------------------------
(* Views, comparisons, citations. *)

MCReports == [steps: {<<>>, <<1>>}, results: UpTo(3, [numeric: BOOLEAN, metric: {None, "m1", "m2"}])]

MCSelections ==
  [papers: {<<"p">>, <<"p", "p">>, <<"p", "q">>, <<"p", "q", "p", "r">>},
   analysed: {{"p", "q"}, {"p", "q", "r"}},
   values: [{"p", "q", "r"} -> SUBSET {"v", "w"}]]

Ranked == {s \in UpTo(3, 1 .. 2) : \A i \in 2 .. Len(s) : s[i] <= s[i - 1]}
MCSearches ==
  [papers: {<<>>, <<1, 2>>, <<2, 1, 2>>}, found: [{1, 2} -> Ranked],
   limit: 1 .. 3, topK: 1 .. 3]

References == [arxiv: {None, 1, 9}, title: {None, Views!Blank, "t", "u"}, mentions: {{}, {"t"}, {"v"}}]
MCLibraries ==
  [library: {<<[id |-> "p", arxiv |-> 1, title |-> s], [id |-> "q", arxiv |-> 2, title |-> t]>> :
               s \in {Views!Blank, "t"}, t \in {Views!Blank, "t", "v"}},
   paper: {"p"},
   references: {[i \in DOMAIN s |-> [id |-> i] @@ s[i]] : s \in UpTo(2, References)}]

---------------------------------------------------------------------------
(* Traffic: five requests of two clients over two windows; three requests   *)
(* of every kind, in every deployment.                                      *)

Sorted(s) == \A i \in 2 .. Len(s) : s[i - 1].at <= s[i].at
Client(cookie, bearer) == [cookie |-> cookie, bearer |-> bearer, host |-> "h"]
Post == [method |-> "POST", path |-> "ingest", client |-> Client("s", Nobody),
         origin |-> "allowed", large |-> FALSE, token |-> TRUE]
Kinds ==
  {Post, [Post EXCEPT !.client = Client(Nobody, "s"), !.token = FALSE],
   [Post EXCEPT !.client = Client(Nobody, Nobody)], [Post EXCEPT !.large = TRUE],
   [Post EXCEPT !.origin = "foreign"], [Post EXCEPT !.path = "extract"],
   [Post EXCEPT !.path = "verify"],
   [Post EXCEPT !.path = "health", !.method = "GET", !.token = FALSE]}
Timed(kinds, times) == {k @@ [at |-> n] : k \in kinds, n \in times}
Clients == {Post, [Post EXCEPT !.client = Client("t", Nobody)]}
MCTraffic ==
  [app: {[desktop |-> FALSE, limited |-> TRUE]},
   requests: {s \in [1 .. 5 -> Timed(Clients, 0 .. 5)] : Sorted(s)}]
  \cup [app: [desktop: BOOLEAN, limited: BOOLEAN],
        requests: {s \in [1 .. 3 -> Timed(Kinds, 0 .. 3)] : Sorted(s)}]

---------------------------------------------------------------------------
(* Users: four requests about sessions over the life of one, in a deployment *)
(* with accounts, three in every other; after a registration, saves, tests   *)
(* and deletions of one user's configuration, and of two users'.             *)

Email(spelled) == [names |-> "a", spelled |-> spelled]
Of(cookie, bearer, requests) == {r @@ [cookie |-> cookie, bearer |-> bearer] : r \in requests}
Joins == [act: {"register", "login"}, email: {Email("a"), Email("A")}, password: {"p"}]
         \cup [act: {"register", "login"}, email: {Email("A")}, password: {"q"}]
         \cup [act: {"register"}, email: {[names |-> "b", spelled |-> "b"], [names |-> None, spelled |-> "c"]},
              password: {"p"}]
Me == {[act |-> "me"]}
Signing ==
  Of(None, None, [act: {"register"}, email: {Email("a"), [names |-> "b", spelled |-> "b"]}, password: {"p"}])
  \cup Of(None, None, [act: {"login"}, email: {Email("A")}, password: {"p", "q"}])
  \cup Of(None, None, Me) \cup Of(None, 1, Me) \cup Of(2, 1, Me) \cup Of(1, None, {[act |-> "logout"]})
Wide == Signing \cup Of(None, None, Joins) \cup Of(None, 2, {[act |-> "logout"]})

SecretOf(ends, long) == [ends |-> ends, long |-> long]
SaveAs(name, secrets) == [act: {"save"}, name: {name}, secret: secrets, local: {FALSE}, loopback: {FALSE}]
Tests(calls) ==
  [act: {"test"}, config: {2}, call: calls] \cup {[act |-> "tested", call |-> c, ok |-> c = 1] : c \in calls}
Deletes == [act: {"delete"}, config: {2}]
Secrets == {None, SecretOf("", FALSE), SecretOf("x", TRUE), SecretOf("y", FALSE)}
One == Of(1, None, SaveAs("n", {None, SecretOf("x", TRUE)}) \cup Tests({1, 2}) \cup Deletes)
Two == Of(1, None, SaveAs("n", Secrets) \cup SaveAs("m", {None}) \cup Tests({1}) \cup Deletes)
       \cup Of(None, None, SaveAs("n", {SecretOf("x", TRUE)}) \cup Deletes \cup
                            [act: {"save"}, name: {"n"}, secret: {None}, local: {TRUE}, loopback: BOOLEAN])

Owner == CHOOSE r \in Signing : r.act = "register" /\ r.email.names = "a"
AfterJoining(n, S) ==
  {t \in {[i \in 1 .. n + 1 |-> [at |-> 0] @@ (IF i = 1 THEN Owner ELSE s[i - 1])] : s \in [1 .. n -> S]} :
     Users!AreSent(t)}
Apps == [desktop: BOOLEAN, required: BOOLEAN]
Shared == [desktop |-> FALSE, required |-> TRUE]
Local == [desktop |-> FALSE, required |-> FALSE]
MCUses ==
  [app: {Shared}, requests: {s \in [1 .. 4 -> Timed(Signing, 0 .. 2)] : Sorted(s)}]
  \cup [app: Apps, requests: {s \in [1 .. 3 -> Timed(Wide, {0, 2})] : Sorted(s)}]
  \cup [app: {Local}, requests: AfterJoining(5, One) \cup AfterJoining(4, Two)]
===========================================================================
