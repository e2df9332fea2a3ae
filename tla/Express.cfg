CONSTANTS
    Requests = {r1, r2}
    Tokens = {t1, t2}
    NoToken = none
    FirstMode = "express"
    Usages = {0, 3, 5}
    Cap = 4
    Requested = 4
    AuditRequested = 1
    Faults <- Each
SPECIFICATION FairSpec
INVARIANTS  ShippedIsWhole
PROPERTY GenerationEnds
CHECK_DEADLOCK FALSE
