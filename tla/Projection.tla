----------------------------- MODULE Projection -----------------------------
(* How a gateway turns the contract's events into a SQL database and the   *)
(* changes a SQL batch made to it back into a plan: rebuild and plan of    *)
(* projection.rs, with the statements of the SQL core that decide what     *)
(* identifiers, columns and rows a plan can speak of.  Names, policies,    *)
(* views and constraints are left out: the catalog is written whole and    *)
(* read whole, and only identifiers and column types steer plan.           *)
(*                                                                         *)
(* Several writers prepare batches side by side, each on the snapshot it   *)
(* took; within one gateway a lock keeps them apart (module Gateway), but  *)
(* every delegated gateway and every administrator is such a writer.       *)
EXTENDS CanonicalState

CONSTANTS
    Writer,         \* processes that prepare and submit plans
    Version,        \* migration versions
    Type, Value,    \* SQL types, and SQL values other than NULL
    Null,           \* SQL NULL
    Absent,         \* Option::None
    CATALOG_KEY,
    MaxObject,      \* bound on allocated object identifiers
    MaxRow,         \* bound on allocated row identifiers of a table
    MaxStatements,  \* bound on the statements of a batch
    MaxRevision     \* bound on the number of committed plans

ObjectId == 1..MaxObject

ASSUME ProjectionAssumption ==
    /\ MaxObject \in Nat /\ MaxRow \in Nat /\ MaxStatements \in Nat /\ MaxRevision \in Nat
    /\ Table = ObjectId /\ RowId = 1..MaxRow
    /\ Column = ObjectId \cup {CATALOG_KEY} \cup Version
    /\ Null \notin Value /\ Absent \notin Value \cup Version \cup {Null}

VARIABLES
    store,      \* the contract's canonical state
    log,        \* its OperationApplied events
    batch       \* the batch each writer has in hand, or Idle

projectionVars == <<store, log, batch>>

----------------------------------------------------------------------------
(* A database is its tables by identifier, the applied migrations and the  *)
(* object allocator; a table is the types of its columns by identifier,    *)
(* its rows and its row allocator.                                         *)
EmptyDatabase == [tables |-> <<>>, migrations |-> {}, next_object_id |-> 1]

Definitions(db) == [t \in DOMAIN db.tables |-> db.tables[t].columns]

metadata(db) ==
    [tables |-> Definitions(db), migrations |-> db.migrations,
     next_object_id |-> db.next_object_id]

(* The cell envelope carries the type it was written under.                *)
encode(type, value) == [sql_type |-> type, value |-> value]
Decodes(type, bytes) == bytes.sql_type = type

Operations(kind, table, row, column, data) ==
    <<[kind |-> kind, table |-> table, row |-> row, column |-> column, data |-> data]>>

(* One event of the replay.  acc.meta is the last catalog read, acc.rows   *)
(* the live rows with the version and cells each has reached; a cell for a *)
(* row that is not there ends the replay.  Definitions marked "fault" are  *)
(* seeded errors for testing the properties.                               *)
ReplayCatalogAfresh(acc, op) == [acc EXCEPT !.meta = op.data, !.rows = <<>>]    \* fault
ReplayCatalog(acc, op) == [acc EXCEPT !.meta = op.data]

ReplayInsert(acc, op, revision) ==
    [acc EXCEPT !.rows = Put(@, RowOf(op), [version |-> revision, cells |-> <<>>]),
                !.allocators[op.table] = IF op.row >= @ THEN op.row + 1 ELSE @]

ReplayCell(acc, row, revision, cells) ==
    [acc EXCEPT !.rows[row] = [version |-> revision, cells |-> cells]]

ReplayDeleteFreeing(acc, op) ==     \* fault: the identifier is given out again
    [acc EXCEPT !.rows = Drop(@, RowOf(op)), !.allocators[op.table] = op.row]
ReplayDelete(acc, op) == [acc EXCEPT !.rows = Drop(@, RowOf(op))]

Replay(acc, event) ==
    LET op == event.operation
        row == RowOf(op)
        known == row \in DOMAIN acc.rows
    IN  CASE op.kind = PUT_CATALOG /\ op.column = CATALOG_KEY -> ReplayCatalog(acc, op)
          [] op.kind = INSERT_ROW -> ReplayInsert(acc, op, event.revision)
          [] op.kind = SET_CELL /\ known ->
                ReplayCell(acc, row, event.revision, Put(acc.rows[row].cells, op.column, op.data))
          [] op.kind = SET_CELL /\ ~ known -> [acc EXCEPT !.ok = FALSE]
          [] op.kind = DELETE_CELL /\ known ->
                ReplayCell(acc, row, event.revision, Drop(acc.rows[row].cells, op.column))
          [] op.kind = DELETE_ROW -> ReplayDelete(acc, op)
          [] OTHER -> acc

Replayed(events) ==
    FoldLeft(Replay,
             [ok |-> TRUE, meta |-> metadata(EmptyDatabase), rows |-> <<>>,
              allocators |-> [t \in Table |-> 1]],
             events)

(* rebuild: the database, and whether the replay went through.             *)
rebuild(events) ==
    LET end == Replayed(events)
        rowsOf(t) == {r \in RowId : <<t, r>> \in DOMAIN end.rows}
        columns == end.meta.tables
        value(t, r, c) ==
            LET cells == end.rows[<<t, r>>].cells
            IN  IF c \in DOMAIN cells THEN cells[c].value ELSE Null
    IN  [ok |-> /\ end.ok
                /\ \A t \in DOMAIN columns : \A r \in rowsOf(t) : \A c \in DOMAIN columns[t] :
                      LET cells == end.rows[<<t, r>>].cells
                      IN  c \in DOMAIN cells => Decodes(columns[t][c], cells[c]),
         db |-> [tables |-> [t \in DOMAIN columns |->
                                [columns |-> columns[t], next_row_id |-> end.allocators[t],
                                 rows |-> [r \in rowsOf(t) |->
                                             [version |-> end.rows[<<t, r>>].version,
                                              values |-> [c \in DOMAIN columns[t] |->
                                                             value(t, r, c)]]]]],
                 migrations |-> end.meta.migrations,
                 next_object_id |-> end.meta.next_object_id]]

----------------------------------------------------------------------------
(* plan: the operations that take the contract from one database to        *)
(* another.  The order among rows, and among deletions, follows names in   *)
(* the code and is left open here; it does not matter to _apply.           *)
RowsOf(db) ==
    {row \in Row : row[1] \in DOMAIN db.tables /\ row[2] \in DOMAIN db.tables[row[1]].rows}

ValueIn(db, row, c) == db.tables[row[1]].rows[row[2]].values[c]

(* The value a cell had under the same column with the same type.          *)
Previous(before, after, row, c) ==
    IF /\ row \in RowsOf(before)
       /\ c \in DOMAIN before.tables[row[1]].columns
       /\ before.tables[row[1]].columns[c] = after.tables[row[1]].columns[c]
    THEN ValueIn(before, row, c)
    ELSE Absent

Each(S, Ops(_)) == FlattenSeq([i \in 1..Cardinality(S) |-> Ops(SetToSeq(S)[i])])

CellOperations(before, after, row, c) ==
    IF Previous(before, after, row, c) = ValueIn(after, row, c)
    THEN <<>>
    ELSE Operations(SET_CELL, row[1], row[2], c,
                    encode(after.tables[row[1]].columns[c], ValueIn(after, row, c)))

RowOperationsAlways(before, after, row) ==      \* fault: existing rows are inserted again
    Operations(INSERT_ROW, row[1], row[2], ZeroKey, EmptyData)
    \o Each(DOMAIN after.tables[row[1]].columns,
            LAMBDA c : CellOperations(before, after, row, c))

RowOperations(before, after, row) ==
    (IF row \in RowsOf(before) THEN <<>>
     ELSE Operations(INSERT_ROW, row[1], row[2], ZeroKey, EmptyData))
    \o Each(DOMAIN after.tables[row[1]].columns,
            LAMBDA c : CellOperations(before, after, row, c))

Marks(before, after) ==
    Each(after.migrations \ before.migrations,
         LAMBDA v : Operations(MARK_MIGRATION, ZeroKey, ZeroKey, v, v))

DeletionsInTables(before, after) ==     \* fault: rows of dropped tables stay
    Each({row \in RowsOf(before) \ RowsOf(after) : row[1] \in DOMAIN after.tables},
         LAMBDA row : Operations(DELETE_ROW, row[1], row[2], ZeroKey, EmptyData))

Deletions(before, after) ==
    Each(RowsOf(before) \ RowsOf(after),
         LAMBDA row : Operations(DELETE_ROW, row[1], row[2], ZeroKey, EmptyData))

plan(before, after) ==
    (IF metadata(before) = metadata(after) THEN <<>>
     ELSE Operations(PUT_CATALOG, ZeroKey, ZeroKey, CATALOG_KEY, metadata(after)))
    \o Deletions(before, after)
    \o Each(RowsOf(after), LAMBDA row : RowOperations(before, after, row))
    \o Marks(before, after)

----------------------------------------------------------------------------
(* The statements of the SQL core, on a staged database.                   *)
CreateTable(db, type) ==
    LET t == db.next_object_id
    IN  [db EXCEPT !.next_object_id = @ + 2,
                   !.tables = Put(@, t, [columns |-> [c \in {t + 1} |-> type],
                                         next_row_id |-> 1, rows |-> <<>>])]

DropTable(db, t) == [db EXCEPT !.tables = Drop(@, t)]

Rewritten(rows, NewValues(_)) ==
    [r \in DOMAIN rows |-> [version |-> rows[r].version + 1, values |-> NewValues(rows[r].values)]]

AddColumn(db, t, type, default) ==
    LET c == db.next_object_id
    IN  [db EXCEPT !.next_object_id = @ + 1,
                   !.tables[t].columns = Put(@, c, type),
                   !.tables[t].rows = Rewritten(@, LAMBDA values : Put(values, c, default))]

DropColumn(db, t, c) ==
    [db EXCEPT !.tables[t].columns = Drop(@, c),
               !.tables[t].rows = Rewritten(@, LAMBDA values : Drop(values, c))]

Insert(db, t, v) ==
    LET r == db.tables[t].next_row_id
        row == [version |-> 1, values |-> [c \in DOMAIN db.tables[t].columns |-> v]]
    IN  [db EXCEPT !.tables[t].rows = Put(@, r, row), !.tables[t].next_row_id = @ + 1]

Update(db, t, r, c, v) ==
    LET row == db.tables[t].rows[r]
    IN  [db EXCEPT !.tables[t].rows[r] = [row EXCEPT !.version = @ + 1, !.values[c] = v]]

Delete(db, t, r) == [db EXCEPT !.tables[t].rows = Drop(@, r)]

----------------------------------------------------------------------------
Idle == [status |-> "idle"]

ProjectionInit ==
    /\ store = EmptyStore
    /\ log = <<>>
    /\ batch = [w \in Writer |-> Idle]

(* A snapshot is taken and replayed; a replay that fails leaves the writer *)
(* where it was.                                                           *)
Open(w, privileged) ==
    /\ batch[w] = Idle
    /\ rebuild(log).ok
    /\ store.revision < MaxRevision
    /\ batch' = [batch EXCEPT ![w] =
                    [status |-> "open", privileged |-> privileged, revision |-> store.revision,
                     before |-> rebuild(log).db, staged |-> rebuild(log).db, statements |-> 0]]
    /\ UNCHANGED <<store, log>>

Stage(w, db) ==
    /\ batch' = [batch EXCEPT ![w].staged = db, ![w].statements = @ + 1]
    /\ UNCHANGED <<store, log>>

(* One statement of the batch.  Definitions change under administrative    *)
(* authority only.                                                         *)
Definition(w) ==
    LET db == batch[w].staged
    IN  /\ batch[w].privileged
        /\ \/ /\ db.next_object_id < MaxObject
              /\ \E type \in Type : Stage(w, CreateTable(db, type))
           \/ \E t \in DOMAIN db.tables :
                \/ Stage(w, DropTable(db, t))
                \/ /\ db.next_object_id =< MaxObject
                   /\ \E type \in Type, v \in Value \cup {Null} :
                         Stage(w, AddColumn(db, t, type, v))
                \/ \E c \in DOMAIN db.tables[t].columns : Stage(w, DropColumn(db, t, c))

Manipulation(w) ==
    LET db == batch[w].staged
    IN  \E t \in DOMAIN db.tables :
            \/ /\ db.tables[t].next_row_id =< MaxRow
               /\ \E v \in Value \cup {Null} : Stage(w, Insert(db, t, v))
            \/ \E r \in DOMAIN db.tables[t].rows :
                \/ Stage(w, Delete(db, t, r))
                \/ \E c \in DOMAIN db.tables[t].columns, v \in Value \cup {Null} :
                      Stage(w, Update(db, t, r, c, v))

Statement(w) ==
    /\ batch[w].status = "open"
    /\ batch[w].statements < MaxStatements
    /\ Definition(w) \/ Manipulation(w)

(* A statement fails: the batch is dropped whole.                          *)
Fail(w) ==
    /\ batch[w].status = "open"
    /\ batch' = [batch EXCEPT ![w] = Idle]
    /\ UNCHANGED <<store, log>>

(* apply_migration: a version that is already there makes the batch a      *)
(* no-op, whatever it contains.                                            *)
Migrated(b, version) ==
    IF version = Absent THEN b.staged
    ELSE IF version \in b.before.migrations THEN b.before
         ELSE [b.staged EXCEPT !.migrations = @ \cup {version}]

(* The batch is planned and submitted against the revision of its          *)
(* snapshot; an empty plan is not submitted, and a rejected one is         *)
(* reported to the caller.                                                 *)
Submit(w, version) ==
    LET b == batch[w]
        operations == plan(b.before, Migrated(b, version))
        result == Apply(store, b.revision, operations, b.privileged)
    IN  /\ b.status = "open"
        /\ version # Absent => b.privileged
        /\ batch' = [batch EXCEPT ![w] = Idle]
        /\ IF operations # <<>> /\ result.ok
           THEN /\ store' = result.store
                /\ log' = log \o EventsOf(operations, result.store.revision)
           ELSE UNCHANGED <<store, log>>

ProjectionNext ==
    \E w \in Writer :
        \/ \E privileged \in BOOLEAN : Open(w, privileged)
        \/ Statement(w)
        \/ Fail(w)
        \/ \E version \in Version \cup {Absent} : Submit(w, version)

ProjectionSpec == ProjectionInit /\ [][ProjectionNext]_projectionVars

----------------------------------------------------------------------------
(* Whatever plans were committed, the next gateway to start can replay     *)
(* them: no cell event without its row, no cell under another type than    *)
(* its column's (rebuild, plan).                                           *)
LogReplays == rebuild(log).ok

(* The replayed database is the contract's state: the same rows with the   *)
(* same versions, every column of every row backed by the cell a reader of *)
(* the contract sees, no row outside the catalog's tables, and the         *)
(* migrations the contract has marked (rebuild against getCell,            *)
(* rowVersion and appliedMigrations).                                      *)
ProjectionMatchesContract ==
    LET db == rebuild(log).db
    IN  /\ RowsOf(db) = store.rows
        /\ db.migrations = store.migrations
        /\ \A row \in RowsOf(db) :
              /\ db.tables[row[1]].rows[row[2]].version = store.version[row]
              /\ \A c \in DOMAIN db.tables[row[1]].columns :
                    /\ c \in DOMAIN CellsOf(store, row)
                    /\ CellsOf(store, row)[c] =
                          encode(db.tables[row[1]].columns[c], ValueIn(db, row, c))

(* An identifier a row has had is never given to another row, deleted or   *)
(* not, not even when a gateway restarts and knows the log only: the       *)
(* contract's generations stay unused by gateways (next_row_id).           *)
RowIdsAreNeverReused == \A row \in Row : store.generation[row] =< 1

(* A plan made on the present state is accepted, whatever the statements   *)
(* behind it, unless it is too long: the only other reason for a conflict  *)
(* is another commit (plan against _apply).  A plan of a user's batch      *)
(* keeps off the catalog.                                                  *)
FreshPlansAreAccepted ==
    \A w \in Writer :
        LET b == batch[w]
            operations == plan(b.before, b.staged)
        IN  /\ b.status = "open"
            /\ b.revision = store.revision
            /\ Len(operations) \in 1..MaxOperations
            => Apply(store, b.revision, operations, b.privileged).ok

(* A commit means what its writer staged: the next replay has the staged   *)
(* tables, columns and values, and nothing of the batches that failed      *)
(* (plan, then rebuild).                                                   *)
Content(db) ==
    [t \in DOMAIN db.tables |->
        [columns |-> db.tables[t].columns,
         values |-> [r \in DOMAIN db.tables[t].rows |-> db.tables[t].rows[r].values]]]

CommitsAreRead ==
    [][\A w \in Writer :
          batch[w].status = "open" /\ batch'[w] = Idle /\ store' # store
             => Content(rebuild(log').db) = Content(batch[w].staged)]_projectionVars
=============================================================================
