CONSTANTS
    admin = admin
    analyst = analyst
    newcomer = newcomer
    manage = manage
    key = key
    Perms = {manage, key}
    MaxRoles = 4
    Users = {admin, analyst, newcomer}
    NoUser = NoUser
    Procs = {p1, p2}
    UserWrite = manage
    RoleWrite = manage
    ApikeyManage = key
    SeedParent <- Chain
    SeedDirect <- AnalystHasKey
    SeedRole <- Staff
    Calls = {"updateRole", "updateUser", "createUser", "createRole", "createKey", "revokeKey"}
    Given <- AllOrNothing
    FaultsHappen = FALSE
    MaxAsked = 1
SPECIFICATION FairSpec
INVARIANTS
    TypeOK
    GrantedBeforeUse
PROPERTIES
    InvalidationArrives
