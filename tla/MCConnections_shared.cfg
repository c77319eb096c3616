SPECIFICATION Spec
CONSTANTS
    p1 = p1
    p2 = p2
    i1 = i1
    i2 = i2
    n1 = n1
    n2 = n2
    e1 = e1
    e2 = e2
    t1 = t1
    a1 = a1
    a2 = a2
    None = None
    Procs = {p1, p2}
    Ids = {i1, i2}
    Names = {n1, n2}
    Endpoints = {e1, e2}
    Tenants = {t1}
    Accounts = {a1, a2}
    MaxOps = 4
    MaxFaults = 1
    MaxCrashes = 1
CHECK_DEADLOCK FALSE
SYMMETRY Symmetry
INVARIANTS
    TypeOK
    SignOutWins
    CredentialBelongs
PROPERTIES
    NoLostUpdate
    TokensOfTheRun
