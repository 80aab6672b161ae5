CONSTANTS
    a1 = a1
    c1 = c1
    c2 = c2
    ra = ra
    super = super
    Calls = {c1, c2}
    Admins = {a1}
    RoleIds = {super, ra}
    SuperRole = super
    Names = {"super_admin", "ops"}
    MaxCode = 1
    Items <- OneItem
    Asked = {0, 1}
    Catalog = {1}
    ReadOnly = {}
    Protected = {1}
    RolesScreen = 1
    ScreensScreen = 1
SPECIFICATION FairSpec
PROPERTY CallsEnd
