SPECIFICATION Spec
CONSTANTS
    Consumer = {c1, c2}
    Block = {b1, b2, b3}
    Chunk = {"x", "y"}
    Zeros = "zeros"
    NoBlock = NoBlock
    MaxChunks = 2
INVARIANTS
    IInv
    OneOwner
    NoSleeperForgotten
    EndedMeansAllTaken
PROPERTIES
    DeliversInOrder
    EveryChunkTaken
CHECK_DEADLOCK FALSE
