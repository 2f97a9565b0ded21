SPECIFICATION Spec
CONSTANTS
    Org = {"a"}
    Depth = 4
    Path <- MCPath
    Below <- MCBelow
    Parent <- MCParent
    Container <- MCContainer
    TemplateFor <- MCTemplateFor
    NoPath <- MCNoPath
    User = {u1, adm}
    Group <- MCGroup
    AdminGroups <- MCGroup
    Admins = {adm}
    Seed <- MCSeed
    Creators <- MCSeed
    Proc = {r1, r2}
    NoRequest = NoRequest
SYMMETRY Symmetry
INVARIANTS TypeOK RecoveryKept RecordedOwnersAreEffective OrphanedPoliciesInert GrantsStayInSubtree
           ParentsExist
PROPERTY ImplementsContract
