SPECIFICATION RulesSpec
CONSTANTS
  Nobody = Nobody
  Window = 3
  Limit = 2
  MapLimit = 1
  Inputs <- MCInputs
  MaxBytes = 2
  Pdfs <- MCPdfs
  Papers <- MCPapers
  Reports <- MCReports
  Selections <- MCSelections
  Searches <- MCSearches
  Libraries <- MCLibraries
  Traffic <- MCTraffic
  Uses <- MCUses
  Addresses = {"a", "b"}
  Ttl = 2
  None = None
INVARIANTS
  IntakeIsSure
  DocumentIsTraceable
  PaperIsGrounded
  ViewsClaimNoMore
  TrafficIsBounded
  AccountsAreOwn
