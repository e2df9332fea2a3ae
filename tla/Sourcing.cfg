SPECIFICATION Spec
CONSTANTS
    Records = {"a", "b", "c"}
    Papers = {"u"}
    Clients = {"open", "cnki"}
    Manual = {"cnki"}
    Rescue = 1
    MinPool = 1
    Limit = 2
    VenueCap = 1
    AuthorCap = 1
    Redos = 1
    Libraries <- BothLibraries
INVARIANTS  CapsHold OldPdfsAreGone 
CHECK_DEADLOCK FALSE
