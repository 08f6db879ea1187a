SPECIFICATION GuardSpec
CONSTANTS
    t1 = t1
    t2 = t2
    kernel = kernel
    namesake = namesake
    label = label
    EagerTrampoline = EagerTrampoline
    NoCode = NoCode
    Nothing = Nothing
    Threads <- MCThreads
    Kernels <- MCKernels
    Watchable <- MCWatchable
    Labels = {label}
    Names = {"kernel"}
    NameOf <- MCNameOf
    MaxNest = 1
    MaxBlocks = 2
    MaxReported = 2
SYMMETRY Symmetry
INVARIANTS
    RegisteredWhileArmed
    SuppressionEnds
    FatalCompileStops
    OnlyWatchedFramesRaise
