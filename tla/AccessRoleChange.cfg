CONSTANTS
    admin = admin
    analyst = analyst
    newcomer = newcomer
    manage = manage
    key = key
    Perms = {manage}
    MaxRoles = 3
    Users = {admin, analyst}
    NoUser = NoUser
    Procs = {p1, p2}
    UserWrite = manage
    RoleWrite = manage
    ApikeyManage = manage
    SeedParent <- Chain
    SeedDirect <- OnlyAdminManages
    SeedRole <- Staff
    Calls = {"updateUser", "read"}
    Given <- AllOrNothing
    FaultsHappen = FALSE
    MaxAsked = 2
SPECIFICATION Spec
INVARIANT NextRequestUsesNewRole
SYMMETRY Interchangeable
