SPECIFICATION SchemaSpec
CONSTANTS
    o = o
    d = d
    g = g
    a = a
    u = u
    t = t
    r = r
    c = c
    x = x
    ZeroAddress = ZeroAddress
    Account <- SmallAccounts
    Session <- SmallSessions
    InitialOwner = o
    InitialIdentityAuthority = a
    DeveloperArgs = {o, d, ZeroAddress}
    GatewayArgs = {g}
    AuthorityArgs = {g}
    MaxEpoch = 2
    MaxGatewayEpoch = 2
    MaxNonce = 1
    MaxTime = 1
    Table = {t}
    RowId = {r}
    Column = {c}
    Data = {x}
    EmptyData = EmptyData
    ZeroKey = ZeroKey
    MaxOperations = 2
    Plans <- SmallPlans
    MaxRevision = 1
CHECK_DEADLOCK FALSE
INVARIANTS
    LapsedGrantsAreBehind
    DutiesAreSeparate
    OnlyServiceWritesCatalog
PROPERTIES
    GatewayNeverRevives
    AuthorityNeverRevives
    SessionNeverRevives
    DeadSessionsCommitNothing
