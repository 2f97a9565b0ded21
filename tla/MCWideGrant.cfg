SPECIFICATION MCSpec
CONSTANTS
    Org = {"a"}
    Depth = 3
    Path <- MCPath
    Below <- MCBelow
    Parent <- MCParent
    Container <- MCContainer
    TemplateFor <- MCTemplateFor
    NoPath <- MCNoPath
    User = {u1, u2}
    Group <- MCGroup
    AdminGroups <- MCGroup
    Admins = {}
    Seed <- MCSeed
    Creators <- MCSeed
    Proc = {r1}
    NoRequest = NoRequest
    PolicyInput <- MCServerPolicyInput
    RoleInput <- MCRoleInput
    GroupInput <- MCGroupInput
    AccessRole = {"owner", "reader", "administrator"}
    MaxOther = 3
    MaxGeneric = 2
    MaxAccess = 2
PROPERTY GrantIsNarrow
CHECK_DEADLOCK FALSE
