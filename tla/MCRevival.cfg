SPECIFICATION Spec
CONSTANTS
    Org = {"a"}
    Depth = 4
    Path <- MCPath
    Below <- MCBelow
    Parent <- MCParent
    Container <- MCContainer
    TemplateFor <- MCTemplateFor
    NoPath <- MCNoPath
    User = {u1, u2}
    Group <- MCGroup
    AdminGroups <- MCGroup
    Admins = {}
    Seed <- MCSeed
    Creators <- MCSeed
    Proc = {r1}
    NoRequest = NoRequest
PROPERTY CreationGrantsCreatorOnly
