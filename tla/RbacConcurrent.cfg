CONSTANTS
    a1 = a1
    c1 = c1
    c2 = c2
    ra = ra
    rb = rb
    super = super
    Calls = {c1, c2}
    Admins = {a1}
    RoleIds = {super, ra, rb}
    SuperRole = super
    Names = {"super_admin", "ops"}
    MaxCode = 2
    Items <- OneItem
    Asked = {1, 2}
    Catalog = {1}
    ReadOnly = {}
    Protected = {1}
    RolesScreen = 1
    ScreensScreen = 1
SYMMETRY Symmetric
SPECIFICATION Spec
INVARIANT TypeOK
INVARIANT WriteImpliesRead
INVARIANT SuperAdminKept
INVARIANT EveryScreenGranted
INVARIANT ManagementNeverLost
PROPERTY RevivedOnlyKnowingly
PROPERTY ImplementsTable
