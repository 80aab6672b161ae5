CONSTANTS
    c1 = c1
    c2 = c2
    adm1 = adm1
    adm2 = adm2
    i1 = i1
    k1 = k1
    k2 = k2
    i2 = i2
    Calls = {c1, c2}
    Admins = {adm1, adm2}
    Ids = {i1, i2}
    Keys = {k1, k2}
    Labels = {"l"}
SYMMETRY Symmetric
SPECIFICATION Spec
INVARIANT TypeOK
PROPERTY ImplementsTable
PROPERTY OnlyGivenChanges
