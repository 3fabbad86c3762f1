SPECIFICATION Spec
CONSTANTS
    Letter <- MCLetter
    Digit <- MCDigit
    Content <- MCContent
    ItemKind = "string"
    Key <- MCKey
    Kind <- MCKind
    Required <- MCRequired
    MaxText = 19
    MaxToken = 3
    MaxItems = 2
    MaxPairs = 3
INVARIANTS
    IInv
    OutIsWhatWasRead
    RefusesOnlyNonObjects
    StopsWhereStateSays
PROPERTIES
    CallReturns
    BuildsRecords
