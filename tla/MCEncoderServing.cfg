SPECIFICATION PoolingSpec
CONSTANTS
    Stick = 2
    FastBody = 8
    MaxDoublings = 3
    EagerDummy = 4
    Offset = 2
    Users <- MCUsers
    PromptBatches <- MCBatches
INVARIANTS
    AnswersAreOwn
    LateOnlyWhereTablesAreSilent
    LongestPromptIsSchedulable
