CONSTANTS
    MaxAttempts = 3
    MaxAccepted = 2
    Patience = 2
    Iterations = 2
    MaxRepairs = 1
    Dims <- TwoDims
    Top = 1
    MaxVersions = 2
    Modes <- SomeModes
    MaxDeaths = 1
SPECIFICATION FairSpec
INVARIANTS OnlyVouchedTexts NoScoreIsLost  ExportsAreSourced
PROPERTY EveryJobEnds
CHECK_DEADLOCK FALSE
