SPECIFICATION Spec
CONSTANTS
    Letter <- MCLetter
    Digit <- MCDigit
    Content <- MCContent
    ItemKind = "number"
    MaxText = 10
    MaxToken = 2
    MaxInner = 3
    MaxOuter = 2
INVARIANTS
    IInv
    OutIsWhatWasRead
    RefusesOnlyNonArrays
    ItemResumes
    ReadsWhatWasWritten
PROPERTY CallReturns
