CONSTANTS
    a = a
    b = b
    Sources <- TwoSources
    Foreign = foreign
    Keys = {k}
    Length = 2
    Floor = 2
    Targets = 1
    Repairs = 1
    Corrections = 1
    Studies <- SomeStudies
SPECIFICATION Spec
INVARIANTS ClaimsAreVouched FloorIsReported KeysSurviveStyle 
CHECK_DEADLOCK FALSE
