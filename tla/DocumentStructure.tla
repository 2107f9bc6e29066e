------------------------- MODULE DocumentStructure -------------------------
(***************************************************************************)
(* From the pages of a PDF to a stored document: PyMuPDFPaperParser's pass  *)
(* over pages, blocks and lines, DocumentNormalizer's sections and numbers, *)
(* EvidenceRegistry's evidence and the keys replace_document stores under.  *)
(*                                                                         *)
(* A page has its number of images and its text blocks; a block is a        *)
(* sequence of lines; a line is what the parser's patterns take it for.  A  *)
(* line counts for one character of text.                                   *)
(***************************************************************************)
EXTENDS Naturals, Sequences, Filters

CONSTANT None

\* Headings, numbered or known ("References"), with their level.
Level == [one |-> 1, two |-> 2, three |-> 3, references |-> 1]
Headings == DOMAIN Level
Captions == {"figure", "table"}
Lines == Headings \cup Captions \cup {"blank", "text", "equation"}

Paragraph == [text: Seq(Lines \ Headings), page: Nat]
Section == [title: Headings \cup {"Document"}, level: Nat, from: Nat, to: Nat,
            paragraphs: Seq(Paragraph)]
Artifact == [text: Seq(Lines), page: Nat]
Pages == [images: Nat, blocks: Seq(Seq(Lines))]
Limits == [pages: Nat, images: Nat, allImages: Nat, chars: Nat, pageChars: Nat]

---------------------------------------------------------------------------
(* The parser: one pass, one state. *)

Opened(title, level, page) ==
  [title |-> title, level |-> level, from |-> page, to |-> page, paragraphs |-> <<>>]

Unread == [error |-> None, sections |-> <<Opened("Document", 1, None)>>, pending |-> <<>>,
           figures |-> <<>>, tables |-> <<>>, equations |-> <<>>,
           images |-> 0, chars |-> 0, pageChars |-> 0]

\* A limit of zero is no limit.
Exceeds(count, limit) == limit # 0 /\ count > limit

\* flush_paragraph: the pending lines become a paragraph of the current section.
Flushed(r, page) ==
  LET n == Len(r.sections)
      grown == [r.sections[n] EXCEPT
                  !.paragraphs = Append(@, [text |-> r.pending, page |-> page]),
                  !.from = IF @ = None THEN page ELSE @,
                  !.to = page]
  IN IF r.pending = <<>> THEN r
     ELSE [r EXCEPT !.pending = <<>>, !.sections = [@ EXCEPT ![n] = grown]]

\* Definitions called Mutant... are wrong on purpose, as in ResearchLedger.
\* A heading opens its section before the lines above it are flushed.
MutantReadLine(r, line, page) ==
  CASE line = "blank" -> Flushed(r, page)
    [] line \in Headings ->
         Flushed([r EXCEPT !.sections = Append(@, Opened(line, Level[line], page))], page)
    [] OTHER -> [r EXCEPT !.pending = Append(@, line)]

ReadLine(r, line, page) ==
  CASE line = "blank" -> Flushed(r, page)
    [] line \in Headings ->
         [Flushed(r, page) EXCEPT !.sections = Append(@, Opened(line, Level[line], page))]
    [] OTHER -> [r EXCEPT !.pending = Append(@, line)]

\* A block whose text starts with a caption, or else holds an equation, is an
\* artifact besides being text.
WithArtifact(r, text, page) ==
  LET artifact == [text |-> text, page |-> page]
  IN IF text[1] = "figure" THEN [r EXCEPT !.figures = Append(@, artifact)]
     ELSE IF text[1] = "table" THEN [r EXCEPT !.tables = Append(@, artifact)]
     ELSE IF "equation" \in Range(text) THEN [r EXCEPT !.equations = Append(@, artifact)]
     ELSE r

Written(block) == Those(block, LAMBDA line : line # "blank")

ReadLines(r, block, page) ==
  LET read[i \in 0 .. Len(block)] == IF i = 0 THEN r ELSE ReadLine(read[i - 1], block[i], page)
  IN read[Len(block)]

\* A paragraph ends with its block.
ReadBlock(r, block, page, limits) ==
  LET text == Written(block)
      counted == [r EXCEPT !.chars = @ + Len(text), !.pageChars = @ + Len(text)]
      read == ReadLines(counted, block, page)
  IN IF r.error # None \/ text = <<>> THEN r
     ELSE IF Exceeds(counted.pageChars, limits.pageChars) \/ counted.chars > limits.chars
       THEN [r EXCEPT !.error = "text"]
     ELSE WithArtifact(Flushed(read, page), text, page)

ReadBlocks(r, blocks, page, limits) ==
  LET read[i \in 0 .. Len(blocks)] ==
        IF i = 0 THEN r ELSE ReadBlock(read[i - 1], blocks[i], page, limits)
  IN read[Len(blocks)]

ReadPage(r, page, number, limits) ==
  LET counted == [r EXCEPT !.images = @ + page.images, !.pageChars = 0]
  IN IF r.error # None THEN r
     ELSE IF Exceeds(page.images, limits.images) \/ Exceeds(counted.images, limits.allImages)
       THEN [r EXCEPT !.error = "images"]
     ELSE ReadBlocks(counted, page.blocks, number, limits)

ReadPages(pages, limits) ==
  LET read[i \in 0 .. Len(pages)] ==
        IF i = 0 THEN Unread ELSE ReadPage(read[i - 1], pages[i], i, limits)
  IN read[Len(pages)]

\* Every paragraph from the first section called references on is one; a
\* reference keeps no page.
References(sections) ==
  LET from == {i \in DOMAIN sections : \E j \in 1 .. i : sections[j].title = "references"}
      Entries(i) == [k \in DOMAIN sections[i].paragraphs |->
                       [sections[i].paragraphs[k] EXCEPT !.page = None]]
  IN Joined([i \in DOMAIN sections |-> IF i \in from THEN Entries(i) ELSE <<>>])

\* The section before the first heading is there when it has text.
Kept(sections) == Those(sections, LAMBDA s : s.paragraphs # <<>> \/ s.title # "Document")

Parsed(pages, limits) ==
  LET read == ReadPages(pages, limits)
      sections == Kept(read.sections)
      error == IF Len(pages) > limits.pages THEN "pages"
               ELSE IF read.error # None THEN read.error
               ELSE IF \A i \in DOMAIN sections : sections[i].paragraphs = <<>> THEN "malformed"
               ELSE None
  IN [error |-> error, sections |-> sections, figures |-> read.figures,
      tables |-> read.tables, equations |-> read.equations,
      references |-> References(sections)]

---------------------------------------------------------------------------
(* The normalizer and the evidence registry. *)

\* _parent_id over previous_by_level, the last section of each level that no
\* shallower section has closed.
ParentOf(level, open) ==
  LET above == {l \in DOMAIN open : l < level}
  IN IF above = {} THEN None ELSE open[CHOOSE l \in above : \A k \in above : k <= l]

Nested(s, sections, i) ==
  LET level == sections[i].level
  IN [open |-> [l \in {l \in DOMAIN s.open : l < level} \cup {level} |->
                  IF l = level THEN i ELSE s.open[l]],
      parents |-> Append(s.parents, ParentOf(level, s.open))]

Parents(sections) ==
  LET nested[i \in 0 .. Len(sections)] ==
        IF i = 0 THEN [open |-> <<>>, parents |-> <<>>] ELSE Nested(nested[i - 1], sections, i)
  IN nested[Len(sections)].parents

Item(kind, section, p) ==
  [kind |-> kind, section |-> section, evidence |-> None, text |-> p.text, page |-> p.page]

\* The paragraphs of a document in their order, each with its section and with
\* its number, which is the number of its evidence.
Numbered(sections) ==
  LET all == Joined([i \in DOMAIN sections |->
               [k \in DOMAIN sections[i].paragraphs |->
                  Item("paragraph", i, sections[i].paragraphs[k])]])
  IN [n \in DOMAIN all |-> [all[n] EXCEPT !.evidence = n]]

\* What a paragraph brings is kept; an artifact is numbered by what is there.
Registered(records, item) ==
  Append(records,
    [id |-> IF item.evidence # None THEN item.evidence ELSE Len(records) + 1, of |-> item])

AllRegistered(items) ==
  LET registered[i \in 0 .. Len(items)] ==
        IF i = 0 THEN <<>> ELSE Registered(registered[i - 1], items[i])
  IN registered[Len(items)]

Items(kind, artifacts) == [i \in DOMAIN artifacts |-> Item(kind, None, artifacts[i])]

Evidence(parsed) ==
  AllRegistered(Numbered(parsed.sections)
    \o Items("figure", parsed.figures) \o Items("table", parsed.tables)
    \o Items("equation", parsed.equations) \o Items("reference", parsed.references))

---------------------------------------------------------------------------
(* What a parsed document promises. *)

Source(pages) == Joined([i \in DOMAIN pages |-> Joined(pages[i].blocks)])

Images(pages) ==
  LET upTo[i \in 0 .. Len(pages)] == IF i = 0 THEN 0 ELSE upTo[i - 1] + pages[i].images
  IN upTo[Len(pages)]

\* The sections with their paragraphs are the lines of the source in their
\* order, none lost and none twice.
TextIsKept(pages, parsed) ==
  Joined([i \in DOMAIN parsed.sections |->
    LET s == parsed.sections[i]
    IN (IF s.title = "Document" THEN <<>> ELSE <<s.title>>)
         \o Joined([k \in DOMAIN s.paragraphs |-> s.paragraphs[k].text])])
  = Written(Source(pages))

\* A section spans the pages of its paragraphs and starts where the one before
\* it ends or later.
PagesAgree(pages, parsed) ==
  \A i \in DOMAIN parsed.sections :
    LET s == parsed.sections[i]
    IN /\ s \in Section
       /\ 1 <= s.from /\ s.from <= s.to /\ s.to <= Len(pages)
       /\ \A k \in DOMAIN s.paragraphs : s.paragraphs[k].page \in s.from .. s.to
       /\ i > 1 => parsed.sections[i - 1].to <= s.from

\* The parent of a section is the nearest one before it with a lower level.
ParentsNest(parsed) ==
  \A i \in DOMAIN parsed.sections :
    LET Shallower(j) == j < i /\ parsed.sections[j].level < parsed.sections[i].level
        parent == Parents(parsed.sections)[i]
    IN IF parent = None THEN \A j \in DOMAIN parsed.sections : ~Shallower(j)
       ELSE Shallower(parent) /\ \A j \in parent + 1 .. i : ~Shallower(j)

OfKind(evidence, kind) == Those(evidence, LAMBDA e : e.of.kind = kind)
Covers(evidence, items) ==
  /\ Len(evidence) = Len(items)
  /\ \A i \in DOMAIN items : /\ evidence[i].of.text = items[i].text
                             /\ evidence[i].of.page = items[i].page

\* Evidence has ids of its own, carries the text and the page of what it is
\* evidence of, and every paragraph and artifact has one.
EvidenceIsWhole(parsed) ==
  LET evidence == Evidence(parsed)
  IN /\ IsInjective([i \in DOMAIN evidence |-> evidence[i].id])
     /\ {<<e.of.section, e.of.text, e.of.page>> : e \in Range(OfKind(evidence, "paragraph"))}
          = UNION {{<<i, p.text, p.page>> : p \in Range(parsed.sections[i].paragraphs)} :
                     i \in DOMAIN parsed.sections}
     /\ Covers(OfKind(evidence, "figure"), parsed.figures)
     /\ Covers(OfKind(evidence, "table"), parsed.tables)
     /\ Covers(OfKind(evidence, "equation"), parsed.equations)
     /\ Covers(OfKind(evidence, "reference"), parsed.references)

\* A paper is refused exactly when it has no paragraph or is past a limit.
LimitsHold(pages, limits, parsed) ==
  LET Chars(i) == Len(Written(Joined(pages[i].blocks)))
  IN parsed.error = None <=>
       /\ Len(pages) <= limits.pages
       /\ \A i \in DOMAIN pages : /\ ~Exceeds(pages[i].images, limits.images)
                                  /\ ~Exceeds(Chars(i), limits.pageChars)
       /\ ~Exceeds(Images(pages), limits.allImages)
       /\ Len(Written(Source(pages))) <= limits.chars
       /\ Range(Source(pages)) \ (Headings \cup {"blank"}) # {}

DocumentIsTraceable(pages, limits) ==
  LET parsed == Parsed(pages, limits)
  IN /\ LimitsHold(pages, limits, parsed)
     /\ parsed.error = None =>
          /\ TextIsKept(pages, parsed)
          /\ PagesAgree(pages, parsed)
          /\ ParentsNest(parsed)
          /\ EvidenceIsWhole(parsed)
===========================================================================
