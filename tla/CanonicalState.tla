--------------------------- MODULE CanonicalState ---------------------------
(* The relational state a KurabaseSchema instance keeps on chain and the   *)
(* one way to change it: a plan, a sequence of operations that _apply      *)
(* carries out in order, all of them or none.  This module has no          *)
(* variables: a store is a record, and _apply is an operator on stores.    *)
(* Which error a revert carries is left out.                               *)
EXTENDS Integers, SequencesExt

CONSTANTS
    Table, RowId, Column,   \* nonzero identifiers; catalog keys and migration
                            \* versions travel in an operation's column
    ZeroKey,                \* bytes32(0)
    Data, EmptyData,        \* nonempty byte strings, and the empty one
    MaxOperations           \* MAX_OPERATIONS

ASSUME CanonicalAssumption ==
    /\ ZeroKey \notin Table \cup RowId \cup Column
    /\ EmptyData \notin Data
    /\ MaxOperations \in Nat

PUT_CATALOG == 0
DELETE_CATALOG == 1
INSERT_ROW == 2
SET_CELL == 3
DELETE_CELL == 4
DELETE_ROW == 5
MARK_MIGRATION == 6

CatalogKinds == {PUT_CATALOG, DELETE_CATALOG, MARK_MIGRATION}
RowKinds == {INSERT_ROW, SET_CELL, DELETE_CELL, DELETE_ROW}

Bytes == Data \cup {EmptyData}

Operation ==
    [kind: 0..255, table: Table \cup {ZeroKey}, row: RowId \cup {ZeroKey},
     column: Column \cup {ZeroKey}, data: Bytes]

(* A mapping with an "exists" flag beside it is a function on the keys     *)
(* whose flag is set; a row is named by its table and its identifier.      *)
Row == Table \X RowId
CellKey == [row: Row, generation: Nat, column: Column]
Mapping(f, K, V) == DOMAIN f \subseteq K /\ f \in [DOMAIN f -> V]

StoreTypeOK(st) ==
    /\ st = [revision |-> st.revision, catalog |-> st.catalog, migrations |-> st.migrations,
             rows |-> st.rows, version |-> st.version, generation |-> st.generation,
             cells |-> st.cells]
    /\ st.revision \in Nat
    /\ Mapping(st.catalog, Column, Bytes)
    /\ st.migrations \subseteq Column
    /\ st.rows \subseteq Row
    /\ st.version \in [Row -> Nat]
    /\ st.generation \in [Row -> Nat]
    /\ Mapping(st.cells, CellKey, Bytes)

EmptyStore ==
    [revision |-> 0, catalog |-> <<>>, migrations |-> {}, rows |-> {},
     version |-> [r \in Row |-> 0], generation |-> [r \in Row |-> 0], cells |-> <<>>]

Put(f, k, v) == [x \in DOMAIN f \cup {k} |-> IF x = k THEN v ELSE f[x]]
Drop(f, k) == [x \in DOMAIN f \ {k} |-> f[x]]

(* _cellKey: a cell is stored under its row's generation, so cells of a    *)
(* deleted row stay in storage under a key no later row of that name uses. *)
CellKeyOf(st, row, column) ==
    [row |-> row, generation |-> st.generation[row], column |-> column]

(* getCell over all columns: what a reader of the contract sees of a row.  *)
CellsOf(st, row) ==
    [c \in {c \in Column : row \in st.rows /\ CellKeyOf(st, row, c) \in DOMAIN st.cells}
        |-> st.cells[CellKeyOf(st, row, c)]]

----------------------------------------------------------------------------
RowOf(op) == <<op.table, op.row>>

(* Definitions marked "fault" are seeded errors, next to what they distort, *)
(* for testing that the properties can fail.                               *)

(* The shape each kind of operation must have.                             *)
WellFormedAnyRow(op) ==     \* fault: identifiers of a row operation are not checked
    \/ op.kind \in CatalogKinds /\ op.column # ZeroKey
    \/ op.kind \in RowKinds

WellFormed(op) ==
    \/ /\ op.kind \in CatalogKinds
       /\ op.table = ZeroKey /\ op.row = ZeroKey /\ op.column # ZeroKey
       /\ op.kind = DELETE_CATALOG => op.data = EmptyData
       /\ op.kind = MARK_MIGRATION => op.data # EmptyData
    \/ /\ op.kind \in RowKinds
       /\ op.table # ZeroKey /\ op.row # ZeroKey
       /\ IF op.kind \in {INSERT_ROW, DELETE_ROW}
          THEN op.column = ZeroKey /\ op.data = EmptyData
          ELSE op.column # ZeroKey
       /\ op.kind = DELETE_CELL => op.data = EmptyData

(* The state each kind of operation requires.                              *)
Applicable(st, op) ==
    CASE op.kind = PUT_CATALOG    -> TRUE
      [] op.kind = DELETE_CATALOG -> op.column \in DOMAIN st.catalog
      [] op.kind = MARK_MIGRATION -> op.column \notin st.migrations
      [] op.kind = INSERT_ROW     -> RowOf(op) \notin st.rows
      [] OTHER                    -> RowOf(op) \in st.rows

Accepts(st, op, privileged) ==
    /\ WellFormed(op)
    /\ op.kind \in CatalogKinds => privileged
    /\ Applicable(st, op)

(* One iteration of the loop, for an operation that is accepted.  Every    *)
(* operation on a row, its deletion included, stamps the row with the      *)
(* revision under way; deleting a row leaves its cells and its generation. *)
InsertRowInPlace(st, op) == [st EXCEPT !.rows = @ \cup {RowOf(op)}]    \* fault: no generation

InsertRow(st, op) ==
    [st EXCEPT !.rows = @ \cup {RowOf(op)}, !.generation[RowOf(op)] = @ + 1]

ApplyRowOperationForgetful(st, op) ==       \* fault: deleting a row clears its generation
    CASE op.kind = INSERT_ROW  -> InsertRow(st, op)
      [] op.kind = DELETE_ROW  ->
            [st EXCEPT !.rows = @ \ {RowOf(op)}, !.generation[RowOf(op)] = 0]
      [] op.kind = SET_CELL    ->
            [st EXCEPT !.cells = Put(@, CellKeyOf(st, RowOf(op), op.column), op.data)]
      [] op.kind = DELETE_CELL ->
            [st EXCEPT !.cells = Drop(@, CellKeyOf(st, RowOf(op), op.column))]

ApplyRowOperation(st, op) ==
    CASE op.kind = INSERT_ROW  -> InsertRow(st, op)
      [] op.kind = DELETE_ROW  -> [st EXCEPT !.rows = @ \ {RowOf(op)}]
      [] op.kind = SET_CELL    ->
            [st EXCEPT !.cells = Put(@, CellKeyOf(st, RowOf(op), op.column), op.data)]
      [] op.kind = DELETE_CELL ->
            [st EXCEPT !.cells = Drop(@, CellKeyOf(st, RowOf(op), op.column))]

ApplyOperationUnstamped(st, op, nextRevision) ==    \* fault: deletion leaves the version
    CASE op.kind = PUT_CATALOG    -> [st EXCEPT !.catalog = Put(@, op.column, op.data)]
      [] op.kind = DELETE_CATALOG -> [st EXCEPT !.catalog = Drop(@, op.column)]
      [] op.kind = MARK_MIGRATION -> [st EXCEPT !.migrations = @ \cup {op.column}]
      [] op.kind = DELETE_ROW     -> ApplyRowOperation(st, op)
      [] OTHER -> [ApplyRowOperation(st, op) EXCEPT !.version[RowOf(op)] = nextRevision]

ApplyOperation(st, op, nextRevision) ==
    CASE op.kind = PUT_CATALOG    -> [st EXCEPT !.catalog = Put(@, op.column, op.data)]
      [] op.kind = DELETE_CATALOG -> [st EXCEPT !.catalog = Drop(@, op.column)]
      [] op.kind = MARK_MIGRATION -> [st EXCEPT !.migrations = @ \cup {op.column}]
      [] OTHER -> [ApplyRowOperation(st, op) EXCEPT !.version[RowOf(op)] = nextRevision]

----------------------------------------------------------------------------
PlanAdmittedStale(st, expectedRevision, operations) ==      \* fault: no optimistic lock
    Len(operations) \in 1..MaxOperations

PlanAdmitted(st, expectedRevision, operations) ==
    /\ expectedRevision = st.revision
    /\ Len(operations) \in 1..MaxOperations

(* _apply as a whole: whether the plan is carried out, and the store that  *)
(* results.                                                                *)
Apply(st, expectedRevision, operations, privileged) ==
    LET step(acc, op) ==
            IF acc.ok /\ Accepts(acc.store, op, privileged)
            THEN [acc EXCEPT !.store = ApplyOperation(@, op, st.revision + 1)]
            ELSE [ok |-> FALSE, store |-> st]
        loop == FoldLeft(step, [ok |-> TRUE, store |-> st], operations)
    IN  IF PlanAdmitted(st, expectedRevision, operations) /\ loop.ok
        THEN [loop EXCEPT !.store.revision = @ + 1]
        ELSE [ok |-> FALSE, store |-> st]

(* The OperationApplied events a plan emits when it commits.               *)
EventsOfFromOne(operations, nextRevision) ==        \* fault: indexes start at 1
    [i \in DOMAIN operations |->
        [revision |-> nextRevision, index |-> i, operation |-> operations[i]]]

EventsOf(operations, nextRevision) ==
    [i \in DOMAIN operations |->
        [revision |-> nextRevision, index |-> i - 1, operation |-> operations[i]]]
=============================================================================
