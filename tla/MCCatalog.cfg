SPECIFICATION CatalogSpec
CONSTANTS
    a = a
    b = b
    v = v
    x = x
    y = y
    z = z
    p = p
    f = f
    Relation = {a, b, v}
    ColumnName = {x, y, z}
    PolicyName = {p}
    FunctionName = {f}
    Absent = Absent
    Catalogs <- SmallCatalogs
    Definitions <- SmallDefinitions
    Alterations <- SmallAlterations
    Texts = {{a}, {v}, {a, b}}
    MaxVersion = 8
CHECK_DEADLOCK FALSE
PROPERTIES
    LinksKeepTheirColumns
    KeysKeepTheirTiming
    PoliciesKeepTheirColumns
    DependentsStayBound
    SchemaVersionTellsOfChange
