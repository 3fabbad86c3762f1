\* The script ends.
SPECIFICATION ScriptSpec
CONSTANTS
    Names <- MCNames
    Requires <- MCRequires
    Writers <- MCWriters
    Scalars <- MCScalars
    Externals <- MCExternals
    Pooled <- MCPooled
    Pools = {"ParserPool"}
    FileName <- MCFileName
    Content = {"x", "y", "z"}
    Ascii = {"x", "y"}
    MaxPieces = 4
    MaxStored = 4
    Specifications <- MCSpecifications
INVARIANTS
    NothingMissing
    DefinedBeforeUse
    SortsAnOrder
    CommasBetweenFields
    ExportIsImportable
PROPERTY Ends
CHECK_DEADLOCK FALSE
