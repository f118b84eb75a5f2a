CONSTANTS
    admin = admin
    analyst = analyst
    newcomer = newcomer
    manage = manage
    key = key
    Perms = {manage}
    MaxRoles = 4
    Users = {admin, analyst}
    NoUser = NoUser
    Procs = {p1, p2}
    UserWrite = manage
    RoleWrite = manage
    ApikeyManage = manage
    SeedParent <- Chain
    SeedDirect <- OnlyAdminManages
    SeedRole <- Staff
    Calls = {"updateRole", "updateUser", "createRole","read"}
    Given <- AllOrNothing
    FaultsHappen = TRUE
    MaxAsked = 2
SPECIFICATION Spec
INVARIANTS
    StaleHasCause
    GrantedBeforeUse
PROPERTIES
    AdministratorsOnlyDwindle
    ChecksAndSweepsAdvance
SYMMETRY Interchangeable
