SPECIFICATION Spec
CONSTANTS
    TableSize = 4
    BucketSize = 3
    DefaultBucketSize = 2
    WordBits = 4
    Values = {0, 1, 2, 3}
INVARIANTS
    TypeOK
    Consistent
PROPERTIES
    CallsEnd
    RefinesArray
