SPECIFICATION Spec
CONSTANTS
    BlockSize = 2
    NumPages = 17
    CoreCount = 20
    GroupCost = 0
    Window = 0
    BatchedDecode = TRUE
    JaggedDecode = TRUE
    QueryBuckets <- MCQueryBuckets
    BlocksBuckets <- MCBlocksBuckets
    SeqsBuckets <- MCSeqsBuckets
    DenseBuckets <- MCDenseBuckets
    DenseMinSeqs = 2
    MaxModelLen = 32
    MaxNumBatchedTokens = 8
    MaxNumSeqs = 4
    Batches <- MCBatches
    MaxFailures = 1
INVARIANTS
    
    EveryRowServedOnce
