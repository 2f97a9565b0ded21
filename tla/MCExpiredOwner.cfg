SPECIFICATION MCSpec
CONSTANTS
    Path <- MCPath
    Below <- MCBelow
    Links <- MCLinks
    Name = {"Ann", "ann"}
    InitialUsers = {"Ann"}
    InitialClients = {c1}
    Lower <- MCLower
    Group = {"team"}
    Client = {c1}
    Policy = {"owner.p", "read.a"}
    OwnerPolicies = {"owner.p"}
    Permission <- MCPermission
    PermissionId = {"any", "read"}
    Action <- MCAction
    Header = {"sync"}
    NoProvider = NoProvider
    Never = Never
    MaxTime = 1
    MaxCalls = 3
PROPERTY OwnersHoldTheirPolicy
CHECK_DEADLOCK FALSE
