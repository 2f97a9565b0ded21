SPECIFICATION Spec
CONSTANTS
    Path <- MCPath
    Below <- MCBelow
    Parent <- MCParent
    Container <- MCContainer
    Root <- MCRoot
    User = {"u1", "u2"}
    t1 = t1
    t2 = t2
    Tx = {t1, t2}
    Requests <- MCRequests
    Seeds <- MCSeeds
    None = None
INVARIANT ParentsExist
CHECK_DEADLOCK FALSE
