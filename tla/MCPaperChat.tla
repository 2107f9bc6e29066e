---------------------------- MODULE MCPaperChat ----------------------------
EXTENDS PaperChat, TLC

\* One entry per document version: five ids, of which a turn is shown some.
MCNumbers == {1}
MCSymmetry == Permutations(Turns)
===========================================================================
