SPECIFICATION FairExperiment
CONSTANTS
  Kernels = {k1, k2}
  ArmLists <- ArmListsUsed
  Concurrency = 1
  Reviewers <- Panel
  TokenCap = 3
  CallCosts = {2}
  JudgeIds = {j1}
  Invocations = 2
  Builds = 2
  Mishaps = 1
CHECK_DEADLOCK FALSE

  
  
PROPERTIES
  ProgressIsKept
  ReportIsWhole
  InvocationEnds
