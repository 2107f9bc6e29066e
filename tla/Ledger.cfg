SPECIFICATION Spec
CONSTANTS
  Runs <- MCOneRun
  MaxAttempts = 3
  LeaseTime = 3
  Stages <- MCStages
  InlineCallers = TRUE
INVARIANTS
  TypeOK
  OwnershipIsSound
  EndingsAreSound
  QueueIsSound
PROPERTIES
  TerminalIsFrozen
  ReportIsFenced
  NoStealing
  ImplementsResearchRun
