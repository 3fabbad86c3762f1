SPECIFICATION Spec
CONSTANTS
    Types <- MCTypes
    LongMin <- MCLongMin
    LongMax = 99
    ULongMax = 199
    MaxText = 4
INVARIANTS
    ValueIsText
    RefusesOnlyNonIntegers
