-------------------------- MODULE MCPlanExecution --------------------------
(* Two rows of one table, one column, two values; plans that create, fill, *)
(* clear, delete and re-create the rows, write the catalog and mark a      *)
(* migration, plus plans _apply must turn down: empty, over the limit of   *)
(* four, malformed, or failing only at their last operation.               *)
EXTENDS PlanExecution

CONSTANTS t, r1, r2, c, x, y

Op(kind, table, row, column, data) ==
    [kind |-> kind, table |-> table, row |-> row, column |-> column, data |-> data]
Insert(r) == Op(INSERT_ROW, t, r, ZeroKey, EmptyData)
Delete(r) == Op(DELETE_ROW, t, r, ZeroKey, EmptyData)
Set(r, v) == Op(SET_CELL, t, r, c, v)
Clear(r) == Op(DELETE_CELL, t, r, c, EmptyData)
PutCatalog(v) == Op(PUT_CATALOG, ZeroKey, ZeroKey, c, v)
DropCatalog == Op(DELETE_CATALOG, ZeroKey, ZeroKey, c, EmptyData)
Mark == Op(MARK_MIGRATION, ZeroKey, ZeroKey, c, x)

SmallPlans ==
    {<<Insert(r1), Set(r1, x)>>,
     <<Insert(r2), Set(r2, EmptyData), Insert(r1)>>,
     <<Set(r1, y)>>,
     <<Set(r2, x), Clear(r2)>>,
     <<Delete(r1)>>,
     <<Delete(r1), Insert(r1)>>,
     <<Delete(r1), Insert(r1), Set(r1, y), Delete(r2)>>,
     <<PutCatalog(x), Mark>>,
     <<PutCatalog(y), Insert(r2)>>,
     <<DropCatalog>>,
     <<>>,
     <<Set(r1, x), Set(r1, y), Set(r1, x), Set(r1, y), Set(r1, x)>>,
     <<Set(r1, x), Op(7, t, r1, c, x)>>,
     <<Clear(r1), Op(INSERT_ROW, t, r2, c, x)>>,
     <<Op(INSERT_ROW, t, ZeroKey, ZeroKey, EmptyData)>>}
=============================================================================
