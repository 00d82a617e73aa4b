SPECIFICATION Spec
CONSTANTS
    TableSize = 8
    Quotients = {1, 2}
    Values = {v1, v2}
    empty_value = v0
    KeepsValue = TRUE
    EMPTY = EMPTY
    MaxEntries = 4
INVARIANTS
    TypeOK
    OnlyNewIsUninitialized
    ShiftsOneToTheRight
PROPERTY RefinesSlotArray
