--------------------------- MODULE MCDerivedData ---------------------------
(* Instances of DerivedData for TLC. *)
EXTENDS DerivedData, TLC

MCParagraphs == {1}
MCFigures == {2}
MCSymmetry == Permutations(Requests)
===========================================================================
