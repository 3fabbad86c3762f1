SPECIFICATION Spec
CONSTANTS
    Consumer = {c1}
    Block = {b1, b2}
    Chunk = {"x"}
    Zeros = "zeros"
    NoBlock = NoBlock
    MaxChunks = 1
PROPERTY EndReachesAll
CHECK_DEADLOCK FALSE
