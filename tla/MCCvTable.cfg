SPECIFICATION Spec
CONSTANTS
    Capacity = 8
    Addresses <- MCAddresses
    Quotients = {q1, q2, q3}
    EMPTY = EMPTY
    MaxEntries = 6
SYMMETRY QuotientSymmetry
INVARIANTS
    TypeOK
    BitsPairUp
    SearchFindsEntries
    WalkVisitsEntriesOnce
PROPERTIES
    RefinesPlacement
CHECK_DEADLOCK FALSE
