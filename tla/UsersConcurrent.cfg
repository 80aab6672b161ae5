CONSTANTS
    c1 = c1
    c2 = c2
    u1 = u1
    e1 = e1
    e2 = e2
    n1 = n1
    u2 = u2
    Calls = {c1, c2}
    UserIds = {u1, u2}
    Emails = {e1, e2}
    UserNames = {n1}
    PatchNames <- NameLeftOut
    Watched = {u1}
SYMMETRY Symmetric
SPECIFICATION AuditedSpec
INVARIANT TypeOK
INVARIANT TrailIsTrue
INVARIANT TrailAccountsForRows
PROPERTY ImplementsTable
PROPERTY RevivedOnlyKnowingly
