SPECIFICATION Spec
CONSTANTS
    TableSize = 4
    BucketSize = 3
    DefaultBucketSize = 4
    WordBits = 4
    Values = {0, 1}
PROPERTIES
    ReadsBackEqual
