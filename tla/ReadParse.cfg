\* The program ends.
SPECIFICATION MainSpec
CONSTANTS
    Letter <- MCLetter
    Digit <- MCDigit
    Content <- MCContent
    ItemKind = "number"
    Key <- MCKey
    Kind <- MCKind
    Required <- MCRequired
    MaxText = 17
    MaxToken = 2
    MaxItems = 0
    MaxPairs = 2
    Document <- MCDocument
    BlockSize = 3
INVARIANTS
    ValuesAreTheFile
    FileDecides
    BlocksAreTheFile
PROPERTY ProgramEnds
CHECK_DEADLOCK FALSE
