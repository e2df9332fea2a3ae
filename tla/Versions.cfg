SPECIFICATION Spec
CONSTANTS
  a1 = a1
  a2 = a2
  N = 2
  Branches = {main, fork1}
  Main = main
  MaxVersion = 3
  Actors = {a1, a2}
  Kinds <- AgentsAndEdits
  MaxMoves = 2
  Curator = 1
INVARIANTS HeadsFollowUpstream NothingDangles  LineageIsTrue
CHECK_DEADLOCK FALSE
