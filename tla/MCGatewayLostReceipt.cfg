SPECIFICATION GatewaySpec
CONSTANTS
    o = o
    g = g
    u = u
    t = t
    r = r
    c = c
    q1 = q1
    q2 = q2
    Request = {q1, q2}
    Nobody = Nobody
    Kinds = {"increment"}
    Endpoints = {"table"}
    signer = g
    ZeroAddress = ZeroAddress
    Account <- SmallAccounts
    Session = {}
    InitialOwner = o
    InitialIdentityAuthority = ZeroAddress
    DeveloperArgs = {}
    GatewayArgs = {g}
    AuthorityArgs = {}
    MaxEpoch = 1
    MaxGatewayEpoch = 1
    MaxNonce = 0
    MaxTime = 0
    Table = {t}
    RowId = {r}
    Column = {c}
    Data <- Counts
    EmptyData = EmptyData
    ZeroKey = ZeroKey
    MaxOperations = 2
    Plans = {}
    MaxRevision = 2
SYMMETRY Requests
CHECK_DEADLOCK FALSE
INVARIANTS
    RejectionsAreFinal
