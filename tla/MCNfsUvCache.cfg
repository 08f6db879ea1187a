SPECIFICATION UvSpec
CONSTANTS
    j1 = j1
    j2 = j2
    j3 = j3
    k1 = k1
    k2 = k2
    k3 = k3
    pr7 = pr7
    Main = Main
    Dispatch = Dispatch
    PRs = {pr7}
    Keep = 1
    Jobs = {j1, j2, j3}
    Keys = {k1, k2, k3}
    Contexts = {Main, Dispatch, pr7}
SYMMETRY Symmetry
CHECK_DEADLOCK FALSE
INVARIANTS
    HitIsComplete
    TarServesItsKey
    PRsStayApart
