SPECIFICATION ExecutionSpec
CONSTANTS
    t = t
    r1 = r1
    r2 = r2
    c = c
    x = x
    y = y
    Table = {t}
    RowId = {r1, r2}
    Column = {c}
    Data = {x, y}
    EmptyData = EmptyData
    ZeroKey = ZeroKey
    MaxOperations = 4
    Plans <- SmallPlans
    MaxRevision = 5
CHECK_DEADLOCK FALSE
INVARIANTS
    CellsBelongToIncarnations
    LogAccountsForVersions
PROPERTIES
    InsertedRowsAreEmpty
    VersionTellsOfChange
    ImplementsLedger
