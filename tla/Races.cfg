SPECIFICATION RacesSpec
CONSTANTS
  Runs <- MCOneRun
  MaxAttempts = 2
  LeaseTime = 1
  Stages <- MCStages
  InlineCallers = FALSE

  
PROPERTIES
  CancellationIsKept
  LostClaimIsLost
