SPECIFICATION Spec
CONSTANTS
    Stick = 4
    Zero = Zero
    RowAlign = 3
    PadRows = 2
    Cores = 4
    GatheredMaxTokens = 2
    Models <- Either
    Loads = 2
    None = None
INVARIANTS
    AttendsAsNative
    LanesMeet
    OthersUntouched
    RefusedForCause
    ExpertsAgree
    VocabularyServed
    TailsAgree
