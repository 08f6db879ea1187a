SPECIFICATION VisionSpec
CONSTANTS
    Stick = 4
    Zero = Zero
    NoLimit = NoLimit
    MaxPrompts = 2
    Engines <- MCEngines
    Prompts <- MCPrompts
    OtherLimits <- MCOtherLimits
INVARIANTS
    TokensAreOwn
    LateOnlyIfBorrowed
    EveryAdmittedItemFits
    TowerAttendsAsStock
CHECK_DEADLOCK FALSE
