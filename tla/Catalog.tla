------------------------------- MODULE Catalog -------------------------------
(* The catalog of the SQL core under data definition: tables with their    *)
(* columns, keys, foreign keys, generated columns, checks and policies;    *)
(* views and functions.  Tables and columns have stable identifiers, but   *)
(* definitions speak of names, so that every rename has to find all who    *)
(* speak of the old name and every drop all who depend on what goes.       *)
(*                                                                         *)
(* An expression is the set of columns it names, the text of a view or the *)
(* body of a function the set of relations it names; a function has the    *)
(* name of a table besides, if it RETURNS SETOF one.  Keys are single      *)
(* columns.  Rows are in other modules; a statement they make fail changes *)
(* nothing.                                                                *)
(* Definitions marked "fault" are seeded errors for testing properties.    *)
EXTENDS Integers, SequencesExt, TLC

CONSTANTS
    Relation,       \* names of tables and views
    ColumnName, PolicyName, FunctionName,
    Absent,         \* no key, no columns given, or no table returned
    Catalogs,       \* the catalogs to start from
    Definitions,    \* table definitions of CREATE TABLE
    Alterations,    \* lists of operations of ALTER TABLE
    Texts,          \* what views and bodies of functions are written about: sets of relations
    MaxVersion      \* bound on schema_version

(* What is written in a definition and in an ALTER TABLE.  What a foreign  *)
(* key refers to need not be there; which constraints are deferred is said *)
(* of keys and foreign keys that the definition declares.                  *)
ForeignKey ==
    [column: ColumnName, target: Relation, refers: ColumnName \cup {Absent}, deferred: BOOLEAN]

Expression == SUBSET ColumnName
Generation == UNION {[C -> Expression] : C \in SUBSET ColumnName}

TableDefinition ==
    [columns: Seq(ColumnName), primary_key: ColumnName \cup {Absent}, unique: SUBSET ColumnName,
     foreign_keys: SUBSET ForeignKey, generated: Generation, checks: SUBSET Expression,
     deferred_unique: SUBSET ColumnName, deferred_foreign: SUBSET ColumnName]

Alteration ==
    [kind: {"ADD COLUMN"}, column: ColumnName, unique: BOOLEAN, references: SUBSET ForeignKey,
     generated: Generation, checks: SUBSET Expression, if_not_exists: BOOLEAN]
    \cup [kind: {"RENAME COLUMN"}, column: ColumnName, to: ColumnName]
    \cup [kind: {"DROP COLUMN"}, column: ColumnName, cascade: BOOLEAN, if_exists: BOOLEAN]
    \cup [kind: {"ALTER COLUMN"}, column: ColumnName, drop_not_null: BOOLEAN]
    \cup [kind: {"RENAME TO"}, to: Relation]

ASSUME CatalogAssumption ==
    /\ Absent \notin ColumnName \cup Relation
    /\ Texts \subseteq SUBSET Relation
    /\ MaxVersion \in Nat
    /\ Alterations \subseteq Seq(Alteration)
    /\ Definitions \subseteq TableDefinition
    /\ \A definition \in Definitions :
          definition.deferred_unique \subseteq {definition.primary_key} \cup definition.unique

VARIABLE db     \* catalog, views, functions, schema_version and next_object_id

Put(f, k, v) == [x \in DOMAIN f \cup {k} |-> IF x = k THEN v ELSE f[x]]
Without(f, S) == [x \in DOMAIN f \ S |-> f[x]]

Ok(d) == [ok |-> TRUE, db |-> d]
Refused(d) == [ok |-> FALSE, db |-> d]

----------------------------------------------------------------------------
(* The structural half of validate_constraints: every name that a table's  *)
(* definition mentions is there, and foreign keys refer to keys.           *)
RefersTo(d, fk) ==
    IF fk.refers = Absent THEN d.tables[fk.target].primary_key ELSE fk.refers

KeysOf(table) == ({table.primary_key} \ {Absent}) \cup table.unique

ExpressionsOf(table) ==
    table.checks \cup {table.policies[p] : p \in DOMAIN table.policies}

WellDefined(d) ==
    \A t \in DOMAIN d.tables :
        LET table == d.tables[t]
            columns == DOMAIN table.columns
        IN  /\ KeysOf(table) \subseteq columns
            /\ \A uses \in ExpressionsOf(table) : uses \subseteq columns
            /\ \A c \in DOMAIN table.generated :
                  table.generated[c] \subseteq columns \ DOMAIN table.generated
            /\ \A fk \in table.foreign_keys :
                  /\ fk.target \in DOMAIN d.tables
                  /\ fk.column \in columns
                  /\ RefersTo(d, fk) \in KeysOf(d.tables[fk.target])

(* A catalog as the statements find it: its records, and identifiers that  *)
(* come from one allocator, so that no two tables and no two columns share *)
(* theirs.                                                                 *)
IsMap(f) == f = [x \in DOMAIN f |-> f[x]]

TableFields ==
    {"id", "columns", "primary_key", "unique", "deferred_unique", "foreign_keys", "generated",
     "checks", "policies", "rls_enabled"}
CatalogFields == {"tables", "views", "functions", "schema_version", "next_object_id"}

TableFormed(table) ==
    /\ IsMap(table) /\ DOMAIN table = TableFields
    /\ IsMap(table.columns) /\ DOMAIN table.columns \subseteq ColumnName
    /\ KeysOf(table) \cup table.deferred_unique \subseteq DOMAIN table.columns
    /\ table.foreign_keys \subseteq ForeignKey
    /\ \A fk \in table.foreign_keys : fk.column \in DOMAIN table.columns
    /\ IsMap(table.policies)
    /\ \A p \in DOMAIN table.policies : table.policies[p] \subseteq DOMAIN table.columns

Formed(d) ==
    /\ IsMap(d) /\ DOMAIN d = CatalogFields
    /\ d.schema_version \in Nat /\ d.next_object_id \in Nat
    /\ IsMap(d.tables) /\ IsMap(d.views) /\ IsMap(d.functions)
    /\ \A t \in DOMAIN d.tables : TableFormed(d.tables[t])

Identified(d) ==
    /\ \A t \in DOMAIN d.tables :
          /\ d.tables[t].id \in Nat /\ d.tables[t].id < d.next_object_id
          /\ \A c \in DOMAIN d.tables[t].columns :
                /\ d.tables[t].columns[c] \in Nat
                /\ d.tables[t].columns[c] < d.next_object_id
    /\ \A s, t \in DOMAIN d.tables :
          /\ d.tables[s].id = d.tables[t].id => s = t
          /\ \A c \in DOMAIN d.tables[s].columns, e \in DOMAIN d.tables[t].columns :
                d.tables[s].columns[c] = d.tables[t].columns[e] => s = t /\ c = e

CatalogSound(d) == Formed(d) /\ Identified(d)

ASSUME InitialCatalogs == \A d \in Catalogs : CatalogSound(d) /\ WellDefined(d)

----------------------------------------------------------------------------
(* Views and functions go with the relations they are written about, and   *)
(* views of views with those.  Of a function the body is searched and the  *)
(* return type is not.                                                     *)
references(text, names) == text \cap names # {}

ViewsOf(d, names) == {v \in DOMAIN d.views : references(d.views[v], names)}
FunctionsOf(d, names) == {f \in DOMAIN d.functions : references(d.functions[f].body, names)}

HasDependents(d, names) == ViewsOf(d, names) \cup FunctionsOf(d, names) # {}

(* The least set of views that has the views of the names and of its own.  *)
DependentViews(d, names) ==
    {v \in DOMAIN d.views :
        \A S \in SUBSET DOMAIN d.views : ViewsOf(d, names \cup S) \subseteq S => v \in S}

remove_dependents_once(d, names, cascade) ==    \* fault: views of views stay
    IF ~ cascade /\ HasDependents(d, names) THEN Refused(d)
    ELSE Ok([d EXCEPT !.views = Without(@, ViewsOf(d, names)),
                      !.functions = Without(@, FunctionsOf(d, names))])

remove_dependents(d, names, cascade) ==
    LET views == DependentViews(d, names)
    IN  IF ~ cascade /\ HasDependents(d, names) THEN Refused(d)
        ELSE Ok([d EXCEPT !.views = Without(@, views),
                          !.functions = Without(@, FunctionsOf(d, names \cup views))])

ForeignKeysOf(d) == UNION {d.tables[t].foreign_keys : t \in DOMAIN d.tables}

WithoutKeys(table, dependent) == [table EXCEPT !.foreign_keys = @ \ dependent]

(* The dependent foreign keys of tables other than those in S go, or       *)
(* forbid the statement.                                                   *)
DropForeignKeys(d, S, cascade, dependent) ==
    IF ~ cascade /\ \E t \in DOMAIN d.tables \ S : d.tables[t].foreign_keys \cap dependent # {}
    THEN Refused(d)
    ELSE Ok([d EXCEPT !.tables =
                [t \in DOMAIN @ |-> IF t \in S THEN @[t] ELSE WithoutKeys(@[t], dependent)]])

(* The loop over the tables that are dropped takes from each what depends  *)
(* on it; the order is left open, for it does not matter.                  *)
drop_tables(d, dropped, if_exists, cascade) ==
    LET rest == remove_dependents(d, dropped, cascade)
        keys == DropForeignKeys(rest.db, dropped, cascade,
                                {fk \in ForeignKeysOf(d) : fk.target \in dropped})
    IN  IF \/ ~ rest.ok \/ ~ keys.ok
           \/ ~ if_exists /\ ~ (dropped \subseteq DOMAIN d.tables)
        THEN Refused(d)
        ELSE Ok([keys.db EXCEPT !.tables = Without(@, dropped), !.schema_version = @ + 1])

----------------------------------------------------------------------------
(* The operations of ALTER TABLE.  Each takes the database and the name    *)
(* its table has by now, and yields the same.                              *)
Altered(d, name) == [ok |-> TRUE, db |-> [d EXCEPT !.schema_version = @ + 1], name |-> name]
Unaltered(d, name) == [ok |-> TRUE, db |-> d, name |-> name]
Unalterable(d, name) == [ok |-> FALSE, db |-> d, name |-> name]

AddColumn(d, name, op) ==
    LET table == d.tables[name]
        added == [table EXCEPT !.columns = Put(@, op.column, d.next_object_id),
                               !.unique = IF op.unique THEN @ \cup {op.column} ELSE @,
                               !.generated = op.generated @@ @,
                               !.checks = @ \cup op.checks,
                               !.foreign_keys = @ \cup {[r EXCEPT !.column = op.column] : r \in op.references}]
    IN  IF op.column \in DOMAIN table.columns
        THEN IF op.if_not_exists THEN Unaltered(d, name) ELSE Unalterable(d, name)
        ELSE Altered([d EXCEPT !.tables[name] = added, !.next_object_id = @ + 1], name)

(* Whatever speaks of the column by its old name is rewritten, in its own  *)
(* table and in the foreign keys of others.                                *)
rename_expression(uses, old, new) == IF old \in uses THEN (uses \ {old}) \cup {new} ELSE uses

RenameTimingNot(deferred, old, new) == deferred     \* fault

RenameTiming(deferred, old, new) == rename_expression(deferred, old, new)

RenameInTable(table, old, new) ==
    LET to(c) == IF c = old THEN new ELSE c
        from(c) == IF c = new THEN old ELSE c
        all(S) == rename_expression(S, old, new)
    IN  [table EXCEPT !.columns = [c \in all(DOMAIN @) |-> @[from(c)]],
                      !.primary_key = to(@),
                      !.unique = all(@),
                      !.deferred_unique = RenameTiming(@, old, new),
                      !.generated = [c \in all(DOMAIN @) |-> all(@[from(c)])],
                      !.checks = {all(uses) : uses \in @},
                      !.policies = [p \in DOMAIN @ |-> all(@[p])],
                      !.foreign_keys = {[fk EXCEPT !.column = to(@)] : fk \in @}]

RenameReferences(table, target, old, new) ==
    [table EXCEPT !.foreign_keys =
        {IF fk.target = target /\ fk.refers = old THEN [fk EXCEPT !.refers = new] ELSE fk : fk \in @}]

RenameColumnLocally(d, name, op) ==     \* fault: foreign keys of other tables keep the name
    LET table == d.tables[name]
    IN  IF \/ op.column \notin DOMAIN table.columns
           \/ op.to \in DOMAIN table.columns
           \/ HasDependents(d, {name})
        THEN Unalterable(d, name)
        ELSE Altered([d EXCEPT !.tables[name] =
                         RenameReferences(RenameInTable(table, op.column, op.to),
                                          name, op.column, op.to)], name)

RenameColumn(d, name, op) ==
    LET renamed == [d.tables EXCEPT ![name] = RenameInTable(@, op.column, op.to)]
    IN  IF \/ op.column \notin DOMAIN d.tables[name].columns
           \/ op.to \in DOMAIN d.tables[name].columns
           \/ HasDependents(d, {name})
        THEN Unalterable(d, name)
        ELSE Altered([d EXCEPT !.tables = [t \in DOMAIN renamed |->
                         RenameReferences(renamed[t], name, op.column, op.to)]], name)

expression_uses(uses, column) == column \in uses

(* What depends on the column goes with it, where CASCADE allows; the      *)
(* table's own keys, foreign keys and checks go without being asked.       *)
PoliciesUsing(table, column) ==
    {p \in DOMAIN table.policies : expression_uses(table.policies[p], column)}

WithoutColumn(table, name, column) ==
    [table EXCEPT !.columns = Without(@, {column}),
                  !.generated = Without(@, {column}),
                  !.primary_key = IF @ = column THEN Absent ELSE @,
                  !.unique = @ \ {column},
                  !.deferred_unique = @ \ {column},
                  !.foreign_keys = {fk \in @ : /\ fk.column # column
                                               /\ ~ (fk.target = name /\ fk.refers = column)},
                  !.checks = {uses \in @ : ~ expression_uses(uses, column)}]

ColumnDropped(table, name, column) ==
    [WithoutColumn(table, name, column) EXCEPT
        !.policies = Without(@, PoliciesUsing(table, column))]

DropColumn(d, name, op) ==
    LET table == d.tables[name]
        dependent == {fk \in ForeignKeysOf(d) :
                        /\ fk.target = name
                        /\ \/ fk.refers = op.column
                           \/ fk.refers = Absent /\ table.primary_key = op.column}
        relations == remove_dependents(d, {name}, op.cascade)
        keys == DropForeignKeys(relations.db, {name}, op.cascade, dependent)
    IN  IF op.column \notin DOMAIN table.columns
        THEN IF op.if_exists THEN Unaltered(d, name) ELSE Unalterable(d, name)
        ELSE IF \/ ~ relations.ok \/ ~ keys.ok
                \/ \E c \in DOMAIN table.generated : expression_uses(table.generated[c], op.column)
                \/ ~ op.cascade /\ PoliciesUsing(table, op.column) # {}
        THEN Unalterable(d, name)
        ELSE Altered([keys.db EXCEPT !.tables[name] = ColumnDropped(@, name, op.column)], name)

(* SET and DROP DEFAULT, SET and DROP NOT NULL: nothing that is kept here  *)
(* changes but the version.                                                *)
AlterColumn(d, name, op) ==
    IF \/ op.column \notin DOMAIN d.tables[name].columns
       \/ op.drop_not_null /\ d.tables[name].primary_key = op.column
    THEN Unalterable(d, name)
    ELSE Altered(d, name)

RenameTable(d, name, op) ==
    LET to(n) == IF n = name THEN op.to ELSE n
        retarget(table) == [table EXCEPT !.foreign_keys = {[fk EXCEPT !.target = to(@)] : fk \in @}]
    IN  IF op.to \in DOMAIN d.tables \cup DOMAIN d.views \/ HasDependents(d, {name})
        THEN Unalterable(d, name)
        ELSE Altered([d EXCEPT !.tables =
                        [t \in (DOMAIN @ \ {name}) \cup {op.to} |->
                            retarget(@[IF t = op.to THEN name ELSE t])]], op.to)

Alter(acc, op) ==
    IF ~ acc.ok THEN acc
    ELSE CASE op.kind = "ADD COLUMN"    -> AddColumn(acc.db, acc.name, op)
           [] op.kind = "RENAME COLUMN" -> RenameColumn(acc.db, acc.name, op)
           [] op.kind = "DROP COLUMN"   -> DropColumn(acc.db, acc.name, op)
           [] op.kind = "ALTER COLUMN"  -> AlterColumn(acc.db, acc.name, op)
           [] op.kind = "RENAME TO"     -> RenameTable(acc.db, acc.name, op)

----------------------------------------------------------------------------
(* One statement by an administrator; everybody else is refused            *)
(* (PrivilegeError).  A statement that fails, or leaves a definition       *)
(* behind that is not well formed, is undone with its batch.               *)
Commit(result) ==
    /\ result.ok
    /\ WellDefined(result.db)
    /\ db' = result.db

AlterTable(name, operations) ==
    /\ name \in DOMAIN db.tables
    /\ LET after[i \in 0..Len(operations)] ==
               IF i = 0 THEN Unaltered(db, name) ELSE Alter(after[i - 1], operations[i])
       IN  Commit(after[Len(operations)])

DropTables(dropped, if_exists, cascade) == Commit(drop_tables(db, dropped, if_exists, cascade))

(* The constraints declared INITIALLY DEFERRED are found again by their    *)
(* columns: those of keys, and every foreign key on a column so declared.  *)
deferred_statement(table, definition) ==
    [table EXCEPT
        !.deferred_unique = definition.deferred_unique,
        !.foreign_keys = {[fk EXCEPT !.deferred = @ \/ fk.column \in definition.deferred_foreign] :
                             fk \in @}]

(* A definition gives the columns in their order, the keys and foreign     *)
(* keys, generated columns and checks, and what is deferred.               *)
CreateTable(name, definition) ==
    LET id == db.next_object_id
        table == [id |-> id,
                  columns |-> [c \in ToSet(definition.columns) |->
                                  id + CHOOSE i \in DOMAIN definition.columns : definition.columns[i] = c],
                  primary_key |-> definition.primary_key, unique |-> definition.unique,
                  deferred_unique |-> {}, foreign_keys |-> definition.foreign_keys,
                  generated |-> definition.generated, checks |-> definition.checks,
                  policies |-> <<>>, rls_enabled |-> FALSE]
    IN  /\ name \notin DOMAIN db.tables
        /\ Commit(Ok([db EXCEPT !.tables = Put(@, name, deferred_statement(table, definition)),
                                !.schema_version = @ + 1,
                                !.next_object_id = id + 1 + Len(definition.columns)]))

CreateView(name, text, or_replace) ==
    /\ name \notin DOMAIN db.tables
    /\ name \in DOMAIN db.views => or_replace
    /\ Commit(Ok([db EXCEPT !.views = Put(@, name, text), !.schema_version = @ + 1]))

(* With IF EXISTS a name may be anything, and its dependents go even if it  *)
(* is no view.                                                             *)
drop_view(acc, name, if_exists, cascade) ==
    LET rest == remove_dependents(acc.db, {name}, cascade)
    IN  IF ~ acc.ok THEN acc
        ELSE IF ~ rest.ok \/ (name \notin DOMAIN rest.db.views /\ ~ if_exists) THEN Refused(acc.db)
        ELSE Ok([rest.db EXCEPT !.views = Without(@, {name})])

DropViews(names, if_exists, cascade) ==
    LET after[i \in 0..Len(names)] ==
            IF i = 0 THEN Ok(db)
            ELSE drop_view(after[i - 1], names[i], if_exists, cascade)
        end == after[Len(names)]
    IN  Commit([end EXCEPT !.db.schema_version = @ + 1])

CreatePolicyUnversioned(t, policy, uses) ==     \* fault
    /\ t \in DOMAIN db.tables
    /\ policy \notin DOMAIN db.tables[t].policies
    /\ Commit(Ok([db EXCEPT !.tables[t].policies = Put(@, policy, uses)]))

CreatePolicy(t, policy, uses) ==
    /\ t \in DOMAIN db.tables
    /\ policy \notin DOMAIN db.tables[t].policies
    /\ Commit(Ok([db EXCEPT !.tables[t].policies = Put(@, policy, uses), !.schema_version = @ + 1]))

SetRowSecurity(t, enabled) ==
    /\ t \in DOMAIN db.tables
    /\ Commit(Ok([db EXCEPT !.tables[t].rls_enabled = enabled, !.schema_version = @ + 1]))

(* What a function RETURNS SETOF has to be a table when it is created, and *)
(* is kept by its name.                                                    *)
CreateFunction(f, text, returns, replace) ==
    /\ f \in DOMAIN db.functions => replace
    /\ returns # Absent => returns \in DOMAIN db.tables
    /\ Commit(Ok([db EXCEPT !.functions = Put(@, f, [body |-> text, returns |-> returns]),
                            !.schema_version = @ + 1]))

CatalogInit == db \in Catalogs

CatalogNext ==
    /\ db.schema_version < MaxVersion
    /\ \/ \E name \in Relation :
           \/ \E operations \in Alterations : AlterTable(name, operations)
           \/ \E definition \in Definitions : CreateTable(name, definition)
           \/ \E text \in Texts, or_replace \in BOOLEAN : CreateView(name, text, or_replace)
           \/ \E p \in PolicyName, c \in ColumnName : CreatePolicy(name, p, {c})
           \/ \E enabled \in BOOLEAN : SetRowSecurity(name, enabled)
       \/ \E names \in SUBSET Relation \ {{}}, if_exists, cascade \in BOOLEAN :
             DropTables(names, if_exists, cascade)
       \/ \E names \in SeqOf(Relation, 2) \ {<<>>}, if_exists, cascade \in BOOLEAN :
             DropViews(names, if_exists, cascade)
       \/ \E f \in FunctionName, text \in Texts, returns \in Relation \cup {Absent}, replace \in BOOLEAN :
             CreateFunction(f, text, returns, replace)

CatalogSpec == CatalogInit /\ [][CatalogNext]_db

----------------------------------------------------------------------------
(* The foreign keys by what they stand for: the identifiers of a column    *)
(* and of the column it refers to, and when they are checked.              *)
Links(d) ==
    {<<d.tables[x[1]].columns[x[2].column],
       d.tables[x[2].target].columns[RefersTo(d, x[2])], x[2].deferred>> :
        x \in UNION {{t} \X d.tables[t].foreign_keys : t \in DOMAIN d.tables}}

(* A foreign key means the same two columns for as long as it lives,       *)
(* whatever is renamed, dropped and added under its names, in one          *)
(* statement or several; links come into being with their column           *)
(* (alter_table, drop_tables).                                             *)
LinksKeepTheirColumns ==
    [][\A link \in Links(db') \ Links(db) : link[1] >= db.next_object_id]_db

(* Whether a key is deferred stays with it, whatever its column is called  *)
(* and whatever took its name before: a key of an old column is checked    *)
(* when it always was (deferred_statement, alter_table).                   *)
Keys(d) == {d.tables[x[1]].columns[x[2]] :
               x \in UNION {{t} \X KeysOf(d.tables[t]) : t \in DOMAIN d.tables}}
DeferredKeys(d) ==
    {d.tables[x[1]].columns[x[2]] :
        x \in UNION {{t} \X (d.tables[t].deferred_unique \cap KeysOf(d.tables[t])) : t \in DOMAIN d.tables}}

KeysKeepTheirTiming ==
    [][\A key \in Keys(db) \cap Keys(db') : key \in DeferredKeys(db) <=> key \in DeferredKeys(db')]_db

(* What a table's policies speak of, by identifiers.                       *)
PolicyColumns(table, p) == {table.columns[c] : c \in table.policies[p]}

(* As long as a table lives, a policy on it goes only with a column it     *)
(* speaks of, and otherwise keeps speaking of the same columns: no rename  *)
(* and no reused name lifts or redirects row security (alter_table).       *)
PoliciesKeepTheirColumns ==
    [][\A t \in DOMAIN db.tables : \A s \in DOMAIN db'.tables :
          db'.tables[s].id = db.tables[t].id =>
            \A p \in DOMAIN db.tables[t].policies :
                IF p \in DOMAIN db'.tables[s].policies
                THEN PolicyColumns(db'.tables[s], p) = PolicyColumns(db.tables[t], p)
                ELSE \E c \in DOMAIN db.tables[t].columns :
                        /\ c \in db.tables[t].policies[p]
                        /\ \A e \in DOMAIN db'.tables[s].columns :
                              db'.tables[s].columns[e] # db.tables[t].columns[c]]_db

(* What a name stands for.                                                 *)
Meaning(d, name) ==
    {<<"table", d.tables[t].id>> : t \in DOMAIN d.tables \cap {name}}
    \cup {<<"view", v>> : v \in DOMAIN d.views \cap {name}}

(* A view that nobody redefines loses none of the relations it is written  *)
(* about, and a function none of those its body names: they cannot be      *)
(* renamed away or dropped without it (remove_dependents and its callers). *)
(* The table a function returns is left out, for the code does not look    *)
(* for it: a function stays behind when that table goes or is renamed,     *)
(* unless its body names the table too.                                    *)
DependentsStayBound ==
    [][/\ \A v \in DOMAIN db.views \cap DOMAIN db'.views :
             db'.views[v] = db.views[v] =>
                \A name \in db.views[v] : Meaning(db, name) \subseteq Meaning(db', name)
       /\ \A f \in DOMAIN db.functions \cap DOMAIN db'.functions :
             db'.functions[f].body = db.functions[f].body =>
                \A name \in db.functions[f].body : Meaning(db, name) \subseteq Meaning(db', name)]_db

(* Every change of a definition moves the schema version: what the cache   *)
(* of materialized views keeps under an older version (module              *)
(* MaterializedCache) is never taken for a value of the present schema.    *)
SchemaVersionTellsOfChange == [][db'.schema_version > db.schema_version]_db
=============================================================================
