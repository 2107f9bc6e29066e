SPECIFICATION Spec
CONSTANTS
  Papers = {"p", "q"}
  Subject = "p"
  Sources = {"A", "B"}
  Paragraphs <- MCParagraphs
  Figures <- MCFigures
  Stages = {"problem", "method"}
  Models = {"m"}
  Vlm = TRUE
  Requests = {r1, r2}
  MaxArrivals = 4
  MaxReplaced = 2
  MaxFailures = 1
  None = None
SYMMETRY MCSymmetry
INVARIANTS
  VerdictsAreCurrent
  AnalysisIsOfItsDocument
  ServedPaperIsCurrent
