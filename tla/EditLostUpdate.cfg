SPECIFICATION Spec
CONSTANTS
  a1 = a1
  a2 = a2
  N = 1
  Branches = {main, fork1}
  Main = main
  MaxVersion = 3
  Actors = {a1, a2}
  Kinds <- Either
  MaxMoves = 0
  Curator = 1
PROPERTIES EditsFollowWhatTheUserSaw
CHECK_DEADLOCK FALSE
