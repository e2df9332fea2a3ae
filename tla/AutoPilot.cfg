SPECIFICATION AutoSpec
CONSTANTS
  Phases = {"drafter", "stylist", "final_rewrite", "critic", "exports"}
  Requests = {r1, r2}
  Pilots = {r1, r2}
  Sweeper = r2
  Tokens = {t1, t2, t3, t4, t5, t6}
  NoToken = NoToken
  InitStates = {"USER_NOVELTY_REVIEW"}
  InitOutput = {"ideator"}
  Budget <- Failing
PROPERTIES
  Arrives
  LocksComeBack
CHECK_DEADLOCK FALSE
