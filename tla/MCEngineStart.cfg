SPECIFICATION Spec
CONSTANTS
    Stick = 64
    FastBody = 2048
    MaxDoublings = 6
    LadderBits = 16
    SeriesTerms = 70
    PrefillBucket = 512
    DefaultSeqs = 4
    DerivedLen = 2048
    BlockMultiple = 64
    DefaultBlock = 128
    VllmBudget = 8192
    VllmSeqs = 256
    MaxDraftBatch = 4
    DummyTokens = 16
    ChunkRows = 1024
    Runners = {"v1", "v2"}
    Users <- MCUsers
    StepTokens <- MCStepTokens
INVARIANTS
    SecondPassAgrees
    EveryLengthFits
    RunnerAgrees
    WorkersKeepToBudget
    NoStepCompiles
CHECK_DEADLOCK FALSE
