SPECIFICATION Spec
CONSTANTS
    StagingRows = 9
    SeqsBuckets <- MCSeqsBuckets
    TokenBuckets <- MCTokenBuckets
    Batches <- MCBatches
    Groupings <- MCGroupings
INVARIANT
    LostOnlyAtTheTop
PROPERTY
    AnswersEveryRow
