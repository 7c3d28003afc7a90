----------------------------- MODULE SqlEngine -----------------------------
(* A batch of SQL, or a call of a SQL function, against the database of a  *)
(* gateway: statements run on a staged copy, each followed by its          *)
(* referential actions and the immediate constraints, and the copy becomes *)
(* the database only when the whole has gone through and every constraint  *)
(* holds.  Functions call functions, each with the authority of its caller *)
(* or, SECURITY DEFINER, of its definer.  The text of a batch and the      *)
(* bodies of functions are left open: any statement may come next.         *)
EXTENDS Relations

CONSTANTS
    Databases,      \* the databases to start from
    Contexts,       \* the AuthContexts of callers
    Domain,         \* the values a column is given, by column
    Conflicts,      \* the ON CONFLICT clauses that are used
    MaxRow,         \* bound on row identifiers
    MaxStatements,  \* bound on the statements of a behaviour
    MaxDepth        \* limit of call depth; 32 in the code

Admin == [privileged |-> TRUE, role |-> "service_role", uid |-> Null]

ASSUME EngineAssumption ==
    /\ Contexts \subseteq [privileged: BOOLEAN, role: STRING, uid: Domain.owner \cup {Null}]
    /\ MaxRow \in Nat /\ MaxStatements \in Nat /\ MaxDepth \in Nat

(* A database as the statements find it: what its catalog speaks of is     *)
(* there, rows have their table's columns and identifiers below those that *)
(* are given out next, and every constraint holds.                         *)
ReferentialAction == {"NO ACTION", "RESTRICT", "CASCADE", "SET NULL", "SET DEFAULT"}

CatalogFormed(catalog, tables) ==
    /\ \A i \in DOMAIN catalog.tables : catalog.tables[i] \in tables
    /\ catalog.foreign_keys \in Seq(ToSet(catalog.foreign_keys))
    /\ \A fk \in ToSet(catalog.foreign_keys) :
          /\ {fk.source, fk.target} \subseteq tables
          /\ fk.column \in catalog.columns[fk.source]
          /\ fk.references \in catalog.columns[fk.target]
          /\ {fk.on_delete, fk.on_update} \subseteq ReferentialAction

HasColumns(row, columns) == row = [c \in columns |-> row[c]]

Formed(d) ==
    /\ d = [catalog |-> d.catalog, rows |-> d.rows, next_row_id |-> d.next_row_id]
    /\ CatalogFormed(d.catalog, DOMAIN d.rows)
    /\ d.rows = [t \in DOMAIN d.rows |-> d.rows[t]]
    /\ d.next_row_id = [t \in DOMAIN d.rows |-> d.next_row_id[t]]
    /\ \A t \in DOMAIN d.rows :
          /\ d.next_row_id[t] \in Nat
          /\ \A r \in DOMAIN Rows(d, t) :
                /\ r \in Nat /\ r < d.next_row_id[t]
                /\ HasColumns(Rows(d, t)[r], d.catalog.columns[t])

ASSUME InitialDatabases == \A d \in Databases : Formed(d) /\ validate_constraints(d, TRUE)

VARIABLES
    db,         \* the database
    work,       \* the batch or call in progress, or Idle
    statements  \* how many statements have run

engineVars == <<db, work, statements>>

Idle == [kind |-> "idle"]

(* frames holds, for every function being run, the authority it runs with  *)
(* and the database its caller had before.  History: whether a frame is    *)
(* that of a definer function, and, elevated, whether a statement has run  *)
(* for an administrator or within a definer function.                      *)
EngineInit ==
    /\ db \in Databases
    /\ work = Idle
    /\ statements = 0

BeginBatch(context) ==
    /\ work = Idle
    /\ statements < MaxStatements
    /\ work' = [kind |-> "batch", context |-> context, staged |-> db, frames |-> <<>>,
                elevated |-> FALSE]
    /\ UNCHANGED <<db, statements>>

(* A definer function takes the definer's role and privileges and keeps    *)
(* the caller's uid; only administrators define functions.                 *)
Effective(context, definer) ==
    IF definer THEN [context EXCEPT !.role = Admin.role, !.privileged = Admin.privileged]
               ELSE context

Frame(context, definer, before) ==
    [context |-> Effective(context, definer), before |-> before, definer |-> definer]

CallFunction(context, definer) ==
    /\ work = Idle
    /\ statements < MaxStatements
    /\ work' = [kind |-> "call", context |-> context, staged |-> db,
                frames |-> <<Frame(context, definer, db)>>, elevated |-> FALSE]
    /\ UNCHANGED <<db, statements>>

RunningContext == IF work.frames = <<>> THEN work.context ELSE Last(work.frames).context

NestedCall(definer) ==
    LET frame == Frame(RunningContext, definer, work.staged)
    IN  /\ work.kind = "call"
        /\ Len(work.frames) < MaxDepth
        /\ work' = [work EXCEPT !.frames = Append(@, frame)]
        /\ UNCHANGED <<db, statements>>

----------------------------------------------------------------------------
(* What a statement leads to; the batch goes on if the statement, its      *)
(* referential actions and the immediate constraints all succeed, and ends *)
(* without a trace otherwise.                                              *)
Abort == work' = Idle /\ UNCHANGED <<db, statements>>

Step(before, result) ==
    LET settled == apply_referential_actions(before, result.db)
    IN  [ok |-> result.ok /\ settled.ok /\ validate_constraints(settled.db, FALSE),
         db |-> settled.db]

Elevated == work.context.privileged \/ \E i \in DOMAIN work.frames : work.frames[i].definer

Statement(result) ==
    LET step == Step(work.staged, result)
    IN  IF step.ok
        THEN /\ work' = [work EXCEPT !.staged = step.db, !.elevated = @ \/ Elevated]
             /\ statements' = statements + 1
             /\ UNCHANGED db
        ELSE Abort

Running == work # Idle /\ statements < MaxStatements
Selections(t) == {{r} : r \in DOMAIN Rows(work.staged, t)} \cup {DOMAIN Rows(work.staged, t)}
ColumnsOf(t) == work.staged.catalog.columns[t]
RowValues(t) == {v \in [ColumnsOf(t) -> UNION {Domain[c] : c \in ColumnsOf(t)}] :
                    \A c \in ColumnsOf(t) : v[c] \in Domain[c]}

InsertStatement(t, rows, conflict) ==
    /\ Running
    /\ conflict # Absent =>
        conflict.columns \subseteq work.staged.catalog.unique[t] \ work.staged.catalog.deferred_unique[t]
    /\ work.staged.next_row_id[t] + Len(rows) =< MaxRow + 1
    /\ Statement(Insert(work.staged, t, rows, conflict, RunningContext))

UpdateStatement(t, selected, column, value) ==
    /\ Running
    /\ Statement(Update(work.staged, t, selected, column, value, RunningContext))

DeleteStatement(t, selected) ==
    /\ Running
    /\ Statement(Delete(work.staged, t, selected, RunningContext))

(* A statement that fails by itself: an unknown column, a bad type.        *)
Fail == work # Idle /\ Abort

(* A nested call ends: to its caller it is a statement like any other,     *)
(* followed by the referential actions of all it changed.                  *)
Return ==
    LET step == Step(Last(work.frames).before, Success(work.staged))
    IN  /\ work.kind = "call"
        /\ Len(work.frames) > 1
        /\ IF step.ok
           THEN /\ work' = [work EXCEPT !.staged = step.db, !.frames = Front(@)]
                /\ UNCHANGED <<db, statements>>
           ELSE Abort

(* The end of the batch, or of the outermost call.                         *)
Finish ==
    /\ \/ work.kind = "batch"
       \/ work.kind = "call" /\ Len(work.frames) = 1
    /\ IF validate_constraints(work.staged, TRUE)
       THEN db' = work.staged /\ work' = Idle /\ UNCHANGED statements
       ELSE Abort

EngineNext ==
    \/ \E context \in Contexts :
        \/ BeginBatch(context)
        \/ \E definer \in BOOLEAN : CallFunction(context, definer)
    \/ \E definer \in BOOLEAN : NestedCall(definer)
    \/ /\ work # Idle
       /\ \E i \in DOMAIN db.catalog.tables :
            LET t == db.catalog.tables[i]
            IN  \/ \E values \in RowValues(t), conflict \in Conflicts \cup {Absent} :
                      InsertStatement(t, <<values>>, conflict)
                \/ \E values, others \in RowValues(t), conflict \in Conflicts :
                      InsertStatement(t, <<values, others>>, conflict)
                \/ \E selected \in Selections(t), column \in ColumnsOf(t) :
                      \E value \in Domain[column] :
                          UpdateStatement(t, selected, column, [r \in selected |-> value])
                \/ \E selected \in Selections(t) : DeleteStatement(t, selected)
    \/ Fail
    \/ Return
    \/ Finish

EngineSpec == EngineInit /\ [][EngineNext]_engineVars

----------------------------------------------------------------------------
(* Every database that is published satisfies every constraint, deferred   *)
(* ones included, in whatever order its batch broke and mended them        *)
(* (execute_sql, call_function).                                           *)
Sound ==
    /\ \A t \in DOMAIN db.rows :
        /\ \A c \in db.catalog.unique[t] :
              Cardinality({Rows(db, t)[r][c] : r \in DOMAIN Rows(db, t)} \ {Null})
                = Cardinality({r \in DOMAIN Rows(db, t) : Rows(db, t)[r][c] # Null})
        /\ \A r \in DOMAIN Rows(db, t), c \in db.catalog.not_null[t] : Rows(db, t)[r][c] # Null
    /\ \A i \in DOMAIN db.catalog.foreign_keys :
        LET fk == db.catalog.foreign_keys[i]
        IN  \A r \in DOMAIN Rows(db, fk.source) :
                Rows(db, fk.source)[r][fk.column] \in
                    {Null} \cup {Rows(db, fk.target)[s][fk.references] : s \in DOMAIN Rows(db, fk.target)}

(* The ways a statement may change the keys of a table.                    *)
Deletions(t) == {RemoveRows(db, t, S) : S \in SUBSET DOMAIN Rows(db, t)}
KeyUpdates(t) ==
    {[db EXCEPT !.rows[t] = [r \in DOMAIN @ |-> [@[r] EXCEPT !.key = f[r]]]] :
        f \in {f \in [DOMAIN Rows(db, t) -> Domain.key \ {Null}] : IsInjective(f)}}

Tables == {db.catalog.tables[i] : i \in DOMAIN db.catalog.tables}
ForeignKeys == ToSet(db.catalog.foreign_keys)

(* A key that refers to another table is not changed: that may break its   *)
(* own reference, which is nobody's to mend.                               *)
KeyTables ==
    {t \in Tables : /\ "key" \in db.catalog.columns[t]
                    /\ \A fk \in ForeignKeys : fk.source = t => fk.column # "key"}

Alterations(t) == Deletions(t) \cup (IF t \in KeyTables THEN KeyUpdates(t) ELSE {})

Followed(t, next) == Settle([ok |-> TRUE, db |-> next, queue |-> ChangesOf(db, next, t)])

(* CASCADE and SET NULL mend every reference that deleting rows or         *)
(* changing keys breaks, at any depth, so that no such statement is        *)
(* refused for a reference it was told to mend; and they come to an end    *)
(* before the limit on steps, which is larger than the databases here      *)
(* (apply_referential_actions).  Foreign keys that share a column are left *)
(* out: what mends one may break the other.                                *)
Mending(fk) == fk.on_delete \in {"CASCADE", "SET NULL"} /\ fk.on_update \in {"CASCADE", "SET NULL"}

AllMend ==
    LET keys == db.catalog.foreign_keys
    IN  /\ \A i \in DOMAIN keys : Mending(keys[i])
        /\ \A i, j \in DOMAIN keys :
              i # j => keys[i].source # keys[j].source \/ keys[i].column # keys[j].column

CascadesMendReferences ==
    work = Idle /\ AllMend =>
        \A t \in Tables : \A next \in Alterations(t) :
            LET end == Followed(t, next)
            IN  /\ end.ok
                /\ \A fk \in ForeignKeys : ForeignKeyHolds(end.db, fk)

(* What ON UPDATE CASCADE is for: a row that references another still      *)
(* references it after the other's key has changed                         *)
(* (crates/kurasql/tests/schema.rs, cascading_fk_update_delete_and_set_null*)
(* expects it of one row whose key moves to a fresh value).                *)
Referenced(d, fk, r) ==
    {s \in DOMAIN Rows(d, fk.target) : Rows(d, fk.target)[s][fk.references] = Rows(d, fk.source)[r][fk.column]}

ReferencesFollowTheirRows ==
    work = Idle =>
        \A i \in DOMAIN db.catalog.foreign_keys :
            LET fk == db.catalog.foreign_keys[i]
            IN  fk.on_update = "CASCADE" =>
                  \A next \in KeyUpdates(fk.target) :
                    LET end == Followed(fk.target, next)
                    IN  \A r \in DOMAIN Rows(db, fk.source) :
                            Referenced(end.db, fk, r) = Referenced(db, fk, r)

(* What a user may not do: with row security that only lets owners in, no  *)
(* batch or call of his changes, adds, takes over or removes a row of      *)
(* somebody else, by INSERT, upsert, UPDATE or DELETE, nor gives one away, *)
(* unless it passed through a definer function                             *)
(* (allowed and its callers, call_function).  Tables that a foreign key    *)
(* may change are left out: its actions are not subject to policies.       *)
OwnersOnly(t) ==
    /\ db.catalog.rls_enabled[t]
    /\ LET policies == db.catalog.policies[t]
           own(p) == p.using = "own" /\ p.check \in {Absent, "own"}
       IN  \/ \A p \in policies : p.permissive => own(p)
           \/ \E p \in policies : ~ p.permissive /\ p.command = "ALL" /\ "public" \in p.roles /\ own(p)
    /\ \A i \in DOMAIN db.catalog.foreign_keys : db.catalog.foreign_keys[i].source # t

RowsOfOthers(d, t, uid) ==
    {<<r, Rows(d, t)[r]>> : r \in {r \in DOMAIN Rows(d, t) : Rows(d, t)[r].owner # uid}}

OthersRowsAreUntouched ==
    [][\A t \in Tables :
          /\ work # Idle /\ ~ work.elevated
          /\ OwnersOnly(t)
          => RowsOfOthers(db', t, work.context.uid) = RowsOfOthers(db, t, work.context.uid)
       ]_engineVars

(* Calling a function adds nothing to what its statements did: each of     *)
(* them has been followed by its referential actions, so that a call may   *)
(* end without changing rows (call_function_inner; docs/spec-coverage.md:15*)
(* lists "nested calls" among what is implemented).                        *)
NestedCallsAreTransparent ==
    [][work # Idle /\ work' # Idle =>
          (Len(work'.frames) < Len(work.frames) => work'.staged = work.staged)]_engineVars
=============================================================================
