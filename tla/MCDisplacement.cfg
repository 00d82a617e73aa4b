SPECIFICATION Spec
CONSTANTS
    Capacity = 8
    Addresses <- MCAddresses
    Quotients = {q1, q2}
    EMPTY = EMPTY
    MaxEntries = 7
INVARIANTS
    TypeOK
    Placed
    SearchFindsEntries
    WalkVisitsEntriesOnce
PROPERTIES
    RefinesPlacement
CHECK_DEADLOCK FALSE
