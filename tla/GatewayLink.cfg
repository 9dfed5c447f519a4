SPECIFICATION FairSpec
CONSTANTS
  Slots = {1, 2, 3}
  Configured = FALSE
  MaxInputs = 3
CONSTRAINT BeforeOverlap
INVARIANTS
  ReconnectOwned
  CleanSingleTimer
  CleanNoRivals
  CleanReady
  CleanRetryPending
  CleanShutdown
PROPERTIES
  ReconnectEnds
  LossRecovers
CHECK_DEADLOCK FALSE
