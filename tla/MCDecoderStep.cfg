SPECIFICATION Spec
CONSTANTS
    r1 = r1
    r2 = r2
    r3 = r3
    Arrivals <- MCArrivals
    Prompt <- MCPrompt
    MaxTokens <- MCMaxTokens
    MaxLen = 15
    NumPages = 7
    PageSize = 3
    Budget = 8
    MaxSeqs = 2
    MaxPartial = 1
    NumSpec = 2
CHECK_DEADLOCK FALSE
INVARIANTS
    DraftContextIsCommitted
    
PROPERTIES
    AnswersAsTargetAlone
    EveryRequestEnds
