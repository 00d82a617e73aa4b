SPECIFICATION LayeredSpec
CONSTANTS
    TableSize = 3
    max = 3
    Values = {0, 1, 2, 3, 4, 5}
INVARIANTS
    LayeredTypeOK
    FieldsPointToSpill
PROPERTIES
    LayeredRefinesArray
