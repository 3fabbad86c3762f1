SPECIFICATION Spec
CONSTANTS
    Types <- MCWideTabbed
    LongMin <- MCLongMin
    LongMax = 99
    ULongMax = 199
    MaxText = 4
INVARIANT NoNegation
