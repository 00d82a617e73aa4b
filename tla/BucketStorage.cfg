SPECIFICATION Spec
CONSTANTS
    TableSize = 8
    BucketWidth = 4
    Elems = {e1, e2}
    EMPTY = EMPTY
    MaxEntries = 7
INVARIANTS
    TypeOK
    IteratorsInStep
    OnlyNewIsRaw
    EagerlyFreed
PROPERTIES
    CallsEnd
    RefinesSlotArray
