SPECIFICATION MCSpec
CONSTANTS
    Org = {"a"}
    Depth = 3
    Path <- MCPath
    Below <- MCBelow
    Parent <- MCParent
    Container <- MCContainer
    TemplateFor <- MCTemplateFor
    NoPath <- MCNoPath
    User = {u1, u2}
    Group <- MCGroup
    AdminGroups <- MCGroup
    Admins = {}
    Seed <- MCSeed
    Creators <- MCSeed
    Proc = {r1}
    NoRequest = NoRequest
    PolicyInput <- MCServerPolicyInput
    RoleInput <- MCRoleInput
    GroupInput <- MCGroupInput
    AccessRole = {"owner", "reader", "administrator"}
    MaxOther = 3
    MaxGeneric = 2
    MaxAccess = 2
INVARIANTS AccessTypeOK ProtectedPolicyKept MetadataWellFormed ParentsExist
PROPERTIES ProtectedPoliciesStay CreationComplete
PROPERTIES RevokeIsNarrow OwnersSurviveAccess GrantGivesItsPolicyOnly 
SYMMETRY Symmetry
CHECK_DEADLOCK FALSE
