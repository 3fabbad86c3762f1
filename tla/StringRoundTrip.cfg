SPECIFICATION Spec
CONSTANTS
    Alphabet <- MCAlphabet
    MaxText = 7
    ValueAlphabet <- MCValueAlphabet
    MaxValue = 3
INVARIANTS
    OutIsText
    RefusesOnlyNonStrings
    ReadsWhatWasWritten
PROPERTIES
    CallReturns
    RoundTripEnds
