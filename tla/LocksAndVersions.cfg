SPECIFICATION Spec
CONSTANTS
  Phases = {"scout", "curator", "final_rewrite", "critic"}
  Requests = {r1, r2}
  Tokens = {t1, t2}
  NoToken = NoToken
  InitStates = {"USER_PROPOSAL_REVIEW", "USER_REVISION_REVIEW"}
  InitOutput = {"proposal", "drafter", "stylist"}
  Budget <- EachFault
SYMMETRY Symmetry
INVARIANTS
  TypeOK
  HolderIsAlone
  ReviewHasArtifacts
  ZombiesAreDead
PROPERTY
  AttemptsFollowOneAnother
CHECK_DEADLOCK FALSE
