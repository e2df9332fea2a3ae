CONSTANTS
    Projects = {p1, p2}
    Runs <- TwoRuns
    Callers = {c1, c2}
    NoOne = none
    Limit = 1
    MaxSlips = 1
SPECIFICATION Spec
INVARIANTS LimitHolds 
SYMMETRY Symmetry
CHECK_DEADLOCK FALSE
