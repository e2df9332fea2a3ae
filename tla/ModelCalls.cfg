CONSTANTS
  NProviders = 2
  Steps = 2
  Sites <- EveryKind
  DrafterRetries = 2
  Breakdowns = 1
SPECIFICATION FairSpec
INVARIANTS
  EveryCallIsAudited
  LogCoversRows
  FailureMeansExhausted
PROPERTY
  EveryCallEnds
CHECK_DEADLOCK FALSE
