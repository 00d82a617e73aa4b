SPECIFICATION Spec
CONSTANTS
    Tables = {t1, t2}
    Keys = {0, 1, 2}
    Values = {2}
    KeyWidths = {1, 2}
    ValueWidths = {1, 2}
    LoadFactors <- MCLoadFactors
    StopsAtNull = FALSE
    EnsuresWidths = TRUE
    MaxCapacity = 4
INVARIANT NeverDestroysMovedOut
