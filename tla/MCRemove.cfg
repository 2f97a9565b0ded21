SPECIFICATION Spec
CONSTANTS
    Path <- MCPath
    Below <- MCBelow
    Parent <- MCParent
    Container <- MCContainer
    Root <- MCRoot
    User = {"u1", "u2"}
    t1 = t1
    t2 = t2
    Tx = {t1, t2}
    Requests <- MCOwnerRequests
    Seeds <- MCOwnerSeeds
    None = None
PROPERTY RemovalIsComplete
CHECK_DEADLOCK FALSE
