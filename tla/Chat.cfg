SPECIFICATION ChatSpec
CONSTANTS
  Turns = {t1, t2}
  Sessions = {"s"}
  Questions = {"x", "y"}
  Keys = {"k"}
  Sources = {"A", "B"}
  Numbers <- MCNumbers
  Modes = {"LEXICAL", "SEMANTIC", "HYBRID"}
  MaxReplaced = 2
  MaxFailures = 1
  None = None
SYMMETRY MCSymmetry
INVARIANTS
  RepliesArePersisted
  OneReplyPerQuestion
PROPERTIES
  AnsweredIsGrounded
