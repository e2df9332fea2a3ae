SPECIFICATION FairSpec
CONSTANTS
  Phases = {"integrity", "exports"}
  Requests = {r1}
  Tokens = {t1, t2}
  NoToken = NoToken
  InitStates = {"USER_EXTERNAL_SCAN_APPROVAL"}
  InitOutput = {"drafter", "stylist", "critic"}
  Budget <- FaultsAndInterventions
PROPERTIES
  RunningEnds
  CancelledIsFinal
CHECK_DEADLOCK FALSE
