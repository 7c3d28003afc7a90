SPECIFICATION ProjectionSpec
CONSTANTS
    w1 = w1
    w2 = w2
    m = m
    int = int
    x = x
    Null = Null
    Absent = Absent
    CATALOG_KEY = CATALOG_KEY
    Writer = {w1, w2}
    Version = {m}
    Type = {int}
    Value = {x}
    MaxObject = 4
    MaxRow = 2
    MaxStatements = 1
    MaxRevision = 4
    Table <- ObjectId
    RowId = {1, 2}
    Column <- SmallColumns
    ZeroKey = 0
    Data <- AllBytes
    EmptyData = EmptyData
    MaxOperations = 6
SYMMETRY Writers
CHECK_DEADLOCK FALSE
INVARIANTS
    LogReplays
    ProjectionMatchesContract
    RowIdsAreNeverReused
    FreshPlansAreAccepted
PROPERTIES
    CommitsAreRead
