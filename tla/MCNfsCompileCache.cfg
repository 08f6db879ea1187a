SPECIFICATION Spec
CONSTANTS
    j1 = j1
    j2 = j2
    j3 = j3
    k1 = k1
    k2 = k2
    g1 = g1
    g2 = g2
    pr7 = pr7
    Main = Main
    Queue = Queue
    Dispatch = Dispatch
    PRs = {pr7}
    Keep = 1
    Jobs = {j1, j2, j3}
    Past = {j3}
    PastKeys = {k1}
    Keys = {k1, k2}
    Graphs = {g1, g2}
    Contexts = {pr7, Main}
CHECK_DEADLOCK FALSE
INVARIANTS
    RestoresTheUnion
    ShipsItsOwn
    CleanupKeepsWarmKeys
PROPERTIES
    EventuallyBounded
