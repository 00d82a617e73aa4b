SPECIFICATION Spec
CONSTANTS
    TableSize = 4
    Quotients = {1, 2}
    Values = {v1, v2}
    empty_value = v0
    KeepsValue = FALSE
    EMPTY = EMPTY
    MaxEntries = 3
INVARIANT ShiftsOneToTheRight
