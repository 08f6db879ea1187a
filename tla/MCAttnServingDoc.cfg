SPECIFICATION Spec
CONSTANTS
    BlockSize = 2
    NumPages = 17
    CoreCount = 4
    GroupCost = 2
    Window = 8
    BatchedDecode = TRUE
    JaggedDecode = TRUE
    QueryBuckets <- MCQueryBuckets
    BlocksBuckets <- MCBlocksBuckets
    SeqsBuckets <- MCSeqsBuckets
    DenseBuckets <- MCDenseBuckets
    DenseMinSeqs = 2
    MaxModelLen = 32
    MaxNumBatchedTokens = 8
    MaxNumSeqs = 4
    Batches <- MCBatches
    MaxFailures = 0
INVARIANTS
    NoRequestCompiles
