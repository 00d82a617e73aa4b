SPECIFICATION Spec
CONSTANTS
    InitialSizes = {0, 4}
    InitialKeyWidths = {1, 2}
    LoadFactors <- MCLoadFactors
    Hash <- MCHash
    HashInv <- MCHashInv
    FreshIds <- MCFreshIds
    MaxCapacity = 8
    MaxKeyWidth = 3
INVARIANTS
    TypeOK
    MirrorIsTable
    LookupFindsContents
    SizeCounts
    MovesEachKeyOnce
    FitsWithoutGrowing
PROPERTIES
    ReadsBackEqual
    RebuildEnds
    RefinesKeySet
