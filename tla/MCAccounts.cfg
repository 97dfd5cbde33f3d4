CONSTANTS
    h1 = h1
    h2 = h2
    b1 = b1
    b2 = b2
    x = x
    Handlers = {h1, h2}
    Browsers = {b1, b2}
    Ids = {1, 2}
    Groups = {g1}
    Administrators = {0, 2}
    g1 = g1
    CodeNames = {x}
    NoUser = NoUser
    NoCookie = NoCookie
    NoCode = NoCode
    Idle = Idle
    MaxRequests = 4
    MaxBeside = 1
SPECIFICATION Spec
INVARIANTS
    AccountsTypeOK
    SignaturesVerify
    LocalAdminRemains
    
    CodesUsedOnce
SYMMETRY Symmetry
CHECK_DEADLOCK FALSE
