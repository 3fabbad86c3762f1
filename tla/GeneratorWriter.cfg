\* The script ends.
SPECIFICATION ScriptSpec
CONSTANTS
    Names <- MCNames
    Requires <- MCRequires
    Writers <- MCWriters
    Scalars <- MCScalars
    Externals <- MCExternals
    Pooled <- MCPooled
    Pools = {"ParserPool"}
    FileName <- MCFileName
    Content = {"x", "y", "z"}
    Ascii = {"x", "y"}
    MaxPieces = 1
    MaxStored = 1
    Specifications <- MCWriterOnly
INVARIANT WriterIsMade
CHECK_DEADLOCK FALSE
