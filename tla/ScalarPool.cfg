SPECIFICATION Spec
CONSTANT
    MaxText = 5
INVARIANTS
    NumeralIsText
    RefusesOnlyNonNumerals
    BufferIsUnfinishedValue
    ValueIsWord
    
