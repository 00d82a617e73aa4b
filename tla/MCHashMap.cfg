SPECIFICATION Spec
CONSTANTS
    Tables = {t1, t2}
    Keys = {0, 1, 2}
    Values = {2}
    KeyWidths = {1, 2}
    ValueWidths = {1, 2}
    LoadFactors <- MCLoadFactors
    StopsAtNull = TRUE
    EnsuresWidths = TRUE
    MaxCapacity = 4
INVARIANTS
    TypeOK
    SizeCounts
PROPERTIES
    NeverGrowsBeyondNeed
    RefinesKeyMaps
SYMMETRY Interchangeable
