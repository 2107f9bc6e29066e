-------------------------- MODULE MCResearchSearch --------------------------
(* Instances of ResearchSearch for TLC. *)
EXTENDS ResearchSearch

\* Paper 1 comes under two titles; "b" and "b2" are nearly the same; one
\* candidate has no identifier.
Entry(arxiv, title, year) == [arxiv |-> arxiv, title |-> title, year |-> year]
MCFound == {<<>>, <<Entry(1, "a", 2020)>>, <<Entry(2, "b", 2020), Entry(1, "a2", 2020)>>,
            <<Entry(3, "b2", 2021), Entry(2, "a", 2020)>>,
            <<Entry(None, "b", 2021), Entry(3, "c", None), Entry(2, "c", 2020)>>}
MCSimilar == {<<"b", "b2">>, <<"b2", "b">>}
MCRelevance == [t \in {"a", "a2", "b", "b2", "c"} |-> IF t = "c" THEN 325 ELSE 800]
MCPlanned == {<<"one">>}
MCContext == {<<p, q>> \in Arxiv \X Arxiv : p # q}
MCNumber == 7
MCOther == 8

\* Evidence 1 and 2 of the first document, 1 of the second.
MCTexts == [v \in 0 .. 1 |-> IF v = 0 THEN [e \in {1, 2} |-> IF e = 1 THEN {MCNumber} ELSE {}]
                             ELSE [e \in {1} |-> {MCOther}]]
MCResult(direction) == [metric |-> "m", value |-> MCNumber, direction |-> direction, cites |-> {1}, numbers |-> {}]
MCAnalyses == {[claims |-> <<[cites |-> {1, 2}, numbers |-> {}]>>, results |-> <<MCResult("positive")>>],
               [claims |-> <<[cites |-> {1, 2}, numbers |-> {MCNumber}]>>, results |-> <<MCResult("negative")>>]}
===========================================================================
