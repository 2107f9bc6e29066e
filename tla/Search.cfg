SPECIFICATION SearchSpec
CONSTANTS
  Arxiv = {1, 2, 3}
  Similar <- MCSimilar
  Relevance <- MCRelevance
  Planned <- MCPlanned
  Found <- MCFound
  Context <- MCContext
  Analyses <- MCAnalyses
  Texts <- MCTexts
  Libraries = {{}, {1}}
  MaxQueries = 3
  MaxCandidates = 4
  MaxIngested = 2
  MaxIterations = 2
  MaxCalls = 4
  MaxRetries = 2
  MaxReplaced = 1
  None = None
INVARIANTS
  SelectionIsBounded
  CompletedMeansNoFailure

  
