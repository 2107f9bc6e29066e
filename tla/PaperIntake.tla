---------------------------- MODULE PaperIntake ----------------------------
(***************************************************************************)
(* What a reader types to add a paper, and which paper the backend takes   *)
(* in for it: classify_paper_input and resolve_paper_input                 *)
(* (ingestion/resolver.py), ArxivClient, IngestionService.ingest_input and *)
(* the statuses of POST /api/papers/ingest.                                *)
(*                                                                         *)
(* An input is what the patterns of the classifier find in it:             *)
(*   record  "bibtex" or "ris" for a record of that kind, or None;         *)
(*   arxiv   [id, version] when the whole text is an arXiv id;             *)
(*   doi     [id, tail] for the first DOI anywhere in it, tail being what  *)
(*           the pattern takes along: "none", "stop" (. or ,), "bracket";  *)
(*   says    it starts with 10. or has doi.org in it;                      *)
(*   pmc, pmid   the number when the whole text is one;                    *)
(*   url     [host, names]: names is what its path identifies, or None;    *)
(*   title   the title the citation parser finds.                          *)
(* The letters of a DOI belong to its id: the code does not fold them.     *)
(* The world is what arXiv, Crossref and NCBI know (up are those that       *)
(* answer), what the search for a citation finds, and what the download    *)
(* gets.  An answer that is no object is left out.  The paper is not in    *)
(* the library yet: what becomes of one that is, Ingestion says.           *)
(***************************************************************************)
EXTENDS Naturals, Sequences

CONSTANTS None,
          MaxBytes   \* the size limit of a PDF

\* Definitions called Mutant... are wrong on purpose, as in ResearchLedger.

---------------------------------------------------------------------------
(* Classification: the first reading that applies. *)

Reading(applies, type, names) ==
  IF applies THEN <<[type |-> type, names |-> names]>> ELSE <<>>

\* rstrip(".,"): a closing bracket stays.
Doi(t) == IF t.doi.tail = "stop" THEN [t.doi EXCEPT !.tail = "none"] ELSE t.doi

Hosts == [arxiv |-> "ARXIV_ID", pubmed |-> "PMID", pmc |-> "PMCID"]

\* An arXiv address without an id raises InvalidArxivIdentifierError, which is
\* no ValueError and so is not caught.
UrlReadings(t) ==
  IF t.url = None THEN <<>>
  ELSE Reading(t.url.host \in DOMAIN Hosts /\ t.url.names # None, Hosts[t.url.host], t.url.names)
       \o Reading(t.url.host = "arxiv", "INVALID", None)
       \o Reading(TRUE, "SCHOLARLY_URL", None)

Classify(t) ==
  Head(Reading(t.blank, "BLANK", None)
       \o Reading(t.record = "bibtex", "BIBTEX", None)
       \o Reading(t.record = "ris", "RIS", None)
       \o Reading(t.arxiv # None, "ARXIV_ID", t.arxiv)
       \o (IF t.doi = None THEN <<>> ELSE Reading(t.says, "DOI", Doi(t)))
       \o Reading(t.pmc # None, "PMCID", t.pmc)
       \o Reading(t.pmid # None, "PMID", t.pmid)
       \o UrlReadings(t)
       \o Reading(TRUE, "CITATION_TEXT", None))

---------------------------------------------------------------------------
(* Resolution: an HTTP status, and the identity, the PDF's address and the  *)
(* confidence (in percent) of the paper when it is 200.                     *)

Refused(status) == [status |-> status]
Resolved(identity, pdf, confidence) ==
  [status |-> 200, identity |-> identity, pdf |-> pdf, confidence |-> confidence]

FetchMetadata(id, world) ==
  IF "arxiv" \notin world.up THEN Refused(502)
  ELSE IF id \in world.arxiv THEN Resolved(<<"arxiv", id>>, "arxiv", 100) ELSE Refused(404)

\* The PDF is the first link of the record that says it is one.
Crossref(doi, world) ==
  IF "crossref" \notin world.up \/ doi.tail # "none" \/ doi.id \notin DOMAIN world.crossref
    THEN Refused(422)
  ELSE Resolved(<<"doi", doi>>, world.crossref[doi.id], 98)

\* A number NCBI has no record of resolves as well, titled by itself.
Ncbi(type, number, world) ==
  IF "ncbi" \notin world.up THEN Refused(422) ELSE Resolved(<<type, number>>, None, 92)

\* Takes the best hit of the search for the paper meant.
MutantResolveText(t, world) ==
  IF t.title = None THEN Refused(422)
  ELSE IF "crossref" \notin world.up \/ world.search = <<>> THEN Resolved(<<"citation", t>>, None, 55)
  ELSE Crossref([id |-> Head(world.search).doi, tail |-> "none"], world)

\* A citation without DOI keeps an identity of its own text, whatever the
\* search finds; a hit lends title and DOI, and confidence if it is similar.
ResolveText(t, world) ==
  IF t.title = None THEN Refused(422)
  ELSE Resolved(<<"citation", t>>, None,
                IF "crossref" \in world.up /\ world.search # <<>> /\ Head(world.search).similar THEN 82 ELSE 55)

ResolveRecord(t) == IF t.title = None THEN Refused(422) ELSE Resolved(<<"citation", t>>, None, 55)

\* The types whose normalized text is the input itself: a DOI anywhere in it
\* counts.
Verbatim == {"BIBTEX", "RIS", "CITATION_TEXT", "SCHOLARLY_URL"}

Resolve(t, world) ==
  LET c == Classify(t)
  IN CASE c.type = "BLANK" -> Refused(422)
       [] c.type = "INVALID" -> Refused(422)
       [] c.type = "ARXIV_ID" -> FetchMetadata(c.names, world)
       [] c.type = "DOI" -> Crossref(c.names, world)
       [] c.type \in Verbatim /\ t.doi # None -> Crossref(Doi(t), world)
       [] c.type \in {"PMID", "PMCID"} -> Ncbi(c.type, c.names, world)
       [] OTHER -> IF c.type = "SCHOLARLY_URL" THEN Resolved(<<"url", t>>, None, 20)
                   ELSE IF c.type = "CITATION_TEXT" THEN ResolveText(t, world)
                   ELSE ResolveRecord(t)

---------------------------------------------------------------------------
(* Download and ingestion: the status of the request, and the paper that is *)
(* handed on to be parsed and stored when it is 200.                        *)

Admitted(identity) == [status |-> 200, identity |-> identity]

\* The bytes after each chunk of a body.
Received(chunks) ==
  LET total[n \in 0 .. Len(chunks)] == IF n = 0 THEN 0 ELSE total[n - 1] + chunks[n]
  IN total

Bytes(chunks) == Received(chunks)[Len(chunks)]

\* download_pdf: chunk by chunk, giving up where the limit is passed.
Streamed(a) ==
  IF ~a.ok \/ ~a.trusted THEN 502
  ELSE IF a.declared # None /\ a.declared > MaxBytes THEN 413
  ELSE IF \E n \in DOMAIN a.chunks : Received(a.chunks)[n] > MaxBytes THEN 413
  ELSE IF a.chunks = <<>> \/ ~a.pdf \/ a.html THEN 422
  ELSE 200

\* _ingest_resolved: the body is read whole and its length looked at after.
Fetched(a) ==
  IF ~a.ok \/ ~a.trusted THEN 502
  ELSE IF Bytes(a.chunks) > MaxBytes THEN 413
  ELSE IF a.chunks = <<>> \/ ~a.pdf THEN 422
  ELSE 200

\* Where nothing can be fetched the reader is asked to upload the PDF (409),
\* or told that the address does not do (422).
Ingest(t, world) ==
  LET c == Classify(t)
      paper == Resolve(t, world)
      fetched == IF c.type = "ARXIV_ID" THEN Streamed(world.answer) ELSE Fetched(world.answer)
  IN IF paper.status # 200 THEN paper
     ELSE IF paper.pdf = None THEN Refused(IF c.type = "SCHOLARLY_URL" THEN 422 ELSE 409)
     ELSE IF c.type # "ARXIV_ID" /\ paper.pdf # "public" THEN Refused(502)
     ELSE IF fetched # 200 THEN Refused(fetched)
     ELSE Admitted(paper.identity)

---------------------------------------------------------------------------
(* What the intake promises. *)

\* The papers an input names: by arXiv id, or by DOI without what follows it.
Names(t) ==
  {<<"arxiv", id>> : id \in {i \in {t.arxiv} \cup
      (IF t.url # None /\ t.url.host = "arxiv" THEN {t.url.names} ELSE {}) : i # None}}
  \cup {<<"doi", [id |-> d.id, tail |-> "none"]>> : d \in {t.doi} \ {None}}

IsConfirmed(identity, world) ==
  \/ identity[1] = "arxiv" /\ "arxiv" \in world.up /\ identity[2] \in world.arxiv
  \/ identity[1] = "doi" /\ "crossref" \in world.up /\ identity[2].id \in DOMAIN world.crossref

\* However an identifier is spelled, a paper is taken in under the one
\* identity it names, confirmed by its registry and never guessed from a
\* citation, with a PDF within the limit; a bare arXiv id or a DOI with an
\* open PDF is not turned away while the services answer.
IntakeIsSure(t, world) ==
  LET taken == Ingest(t, world)
      plain == ~t.blank /\ t.record = None
      bytes == Bytes(world.answer.chunks)
      sound == world.answer.ok /\ world.answer.trusted /\ world.answer.pdf /\ ~world.answer.html
               /\ world.answer.chunks # <<>> /\ bytes <= MaxBytes
  IN /\ taken.status = 200 =>
          /\ taken.identity \in Names(t)
          /\ IsConfirmed(taken.identity, world)
          /\ taken.identity = Resolve(t, world).identity
          /\ Resolve(t, world).confidence >= 90
          /\ world.answer.pdf /\ bytes \in 1 .. MaxBytes
     /\ plain /\ sound /\ world.answer.declared \in {None, bytes} /\ t.arxiv # None
          /\ IsConfirmed(<<"arxiv", t.arxiv>>, world) => taken.status = 200
     /\ ~t.blank /\ sound /\ Classify(t).type \in {"DOI"} \cup Verbatim /\ t.doi # None
          /\ t.doi.tail # "bracket" /\ IsConfirmed(<<"doi", Doi(t)>>, world)
          /\ world.crossref[t.doi.id] = "public" => taken.status = 200
===========================================================================
