SPECIFICATION FairGatewaySpec
CONSTANTS
    o = o
    g = g
    u = u
    t = t
    r = r
    c = c
    q1 = q1
    q2 = q2
    Request = {q1, q2}
    Nobody = Nobody
    Kinds = {"read", "increment"}
    Endpoints = {"table", "sql"}
    signer = g
    ZeroAddress = ZeroAddress
    Account <- SmallAccounts
    Session <- SmallSessions
    InitialOwner = o
    InitialIdentityAuthority = ZeroAddress
    DeveloperArgs = {}
    GatewayArgs = {g}
    AuthorityArgs = {}
    MaxEpoch = 2
    MaxGatewayEpoch = 2
    MaxNonce = 0
    MaxTime = 0
    Table = {t}
    RowId = {r}
    Column = {c}
    Data <- Counts
    EmptyData = EmptyData
    ZeroKey = ZeroKey
    MaxOperations = 2
    Plans = {}
    MaxRevision = 2
CHECK_DEADLOCK FALSE
INVARIANTS
    NoSelfConflict
PROPERTIES
    ImplementsService
    EveryRequestEnds
