SPECIFICATION Spec
CONSTANTS
    BlockSize = 2
    NumBlocks = 8
    MaxModelLen = 8
    StagingRows = 7
    CoreCount = 4
    MaxNumSeqs = 4
    Budget = 6
    QueryBuckets <- MCQueryBuckets
    BlocksBuckets <- MCBlocksBuckets
    SeqsBuckets <- MCSeqsBuckets
    BodySizes <- MCBodySizes
    ChunkSizes <- MCChunkSizes
    MaxPreempt = 1
    Layers <- MCLayers
    Prompt <- MCPrompt
    Length <- MCLength
INVARIANTS
    CacheHoldsItsTokens
    AttendsItsOwnContext
CHECK_DEADLOCK FALSE
