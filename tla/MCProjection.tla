--------------------------- MODULE MCProjection ---------------------------
(* Two writers on one or two tables of up to two columns: enough for a     *)
(* column that comes after its rows, a table dropped with rows in it, and  *)
(* batches planned on a snapshot that the other writer has outdated.       *)
EXTENDS Projection, TLC

CONSTANTS w1, w2, m, int, x

Writers == Permutations(Writer)

SmallColumns == ObjectId \cup {CATALOG_KEY, m}

CellBytes == [sql_type: Type, value: Value \cup {Null}]
CatalogBytes ==
    [tables: UNION {[T -> UNION {[C -> Type] : C \in SUBSET ObjectId}] : T \in SUBSET ObjectId},
     migrations: SUBSET Version, next_object_id: 1..MaxObject + 1]
AllBytes == CellBytes \cup CatalogBytes \cup Version
=============================================================================
