----------------------------- MODULE Relations -----------------------------
(* What one SQL statement does to a database of the SQL core (kurasql):    *)
(* constraints, row security, INSERT with ON CONFLICT, UPDATE and DELETE,  *)
(* and the referential actions that follow a statement.  Expressions are   *)
(* abstracted: a WHERE clause is the set of rows it selects, an assigned   *)
(* expression the value it has on each of them, a policy's expression one  *)
(* of the forms of PolicyExpr.  Keys are single columns.  Every error ends *)
(* the batch, so which error it is does not matter.                        *)
EXTENDS Integers, SequencesExt

CONSTANTS
    Null,           \* SQL NULL
    Absent,         \* Option::None
    MaxSteps        \* limit of referential steps; 100_000 in the code

PolicyExpr == {"own", "any", "none"}

ASSUME RelationsAssumption ==
    /\ Null # Absent
    /\ Absent \notin PolicyExpr
    /\ MaxSteps \in Nat

(* A database is a catalog and, for every table, its rows by identifier.   *)
(* Of the catalog: per table the unique columns (the primary key is one of *)
(* them), those of them that are deferred, the NOT NULL columns, the       *)
(* defaults, rls_enabled and the policies; and the foreign keys in the     *)
(* order of the tables that declare them.                                  *)
Rows(db, t) == db.rows[t]

Put(f, k, v) == [x \in DOMAIN f \cup {k} |-> IF x = k THEN v ELSE f[x]]
PutRow(db, t, id, values) == [db EXCEPT !.rows[t] = Put(@, id, values)]
RemoveRows(db, t, ids) == [db EXCEPT !.rows[t] = [id \in DOMAIN @ \ ids |-> @[id]]]

Failure(db) == [ok |-> FALSE, db |-> db]
Success(db) == [ok |-> TRUE, db |-> db]

----------------------------------------------------------------------------
(* validate_constraints.  The final check of a batch covers deferred       *)
(* constraints, the check after a statement does not.                      *)
Unique(db, t, column) ==
    \A r, s \in DOMAIN Rows(db, t) :
        r # s /\ Rows(db, t)[r][column] # Null => Rows(db, t)[r][column] # Rows(db, t)[s][column]

References(db, fk, value) ==
    \E r \in DOMAIN Rows(db, fk.target) : Rows(db, fk.target)[r][fk.references] = value

ForeignKeyHolds(db, fk) ==
    \A r \in DOMAIN Rows(db, fk.source) :
        LET value == Rows(db, fk.source)[r][fk.column]
        IN  value # Null => References(db, fk, value)

check_row(db, t, values) == \A c \in db.catalog.not_null[t] : values[c] # Null

(* Definitions marked "fault" are seeded errors for testing properties.    *)
validate_constraints_immediate(db, final_check) ==      \* fault: deferred is never
    /\ \A t \in DOMAIN db.rows :
        /\ \A column \in db.catalog.unique[t] \ db.catalog.deferred_unique[t] : Unique(db, t, column)
        /\ \A r \in DOMAIN Rows(db, t) : check_row(db, t, Rows(db, t)[r])
    /\ \A i \in DOMAIN db.catalog.foreign_keys :
        ~ db.catalog.foreign_keys[i].deferred => ForeignKeyHolds(db, db.catalog.foreign_keys[i])

validate_constraints(db, final_check) ==
    /\ \A t \in DOMAIN db.rows :
        /\ \A column \in db.catalog.unique[t] :
              final_check \/ column \notin db.catalog.deferred_unique[t] => Unique(db, t, column)
        /\ \A r \in DOMAIN Rows(db, t) : check_row(db, t, Rows(db, t)[r])
    /\ \A i \in DOMAIN db.catalog.foreign_keys :
        LET fk == db.catalog.foreign_keys[i]
        IN  final_check \/ ~ fk.deferred => ForeignKeyHolds(db, fk)

----------------------------------------------------------------------------
(* Row security.  "own" is owner = auth.uid(), which is NULL, and so not   *)
(* true, without a uid.                                                    *)
predicate(expr, values, context) ==
    CASE expr = Absent -> TRUE
      [] expr = "any"  -> TRUE
      [] expr = "none" -> FALSE
      [] expr = "own"  -> context.uid # Null /\ values.owner = context.uid

Applies(policy, command, context) ==
    /\ policy.command \in {"ALL", command}
    /\ policy.roles \cap {"public", context.role} # {}

allowed(db, t, command, values, context, check) ==
    LET policies == {p \in db.catalog.policies[t] : Applies(p, command, context)}
        expr(p) == IF check /\ p.check # Absent THEN p.check ELSE p.using
        matched(p) == predicate(expr(p), values, context)
    IN  \/ context.privileged \/ ~ db.catalog.rls_enabled[t]
        \/ /\ \E p \in policies : p.permissive /\ matched(p)
           /\ \A p \in policies : ~ p.permissive => matched(p)

----------------------------------------------------------------------------
(* INSERT of one row.  conflict is Absent, or the columns of the conflict  *)
(* target with the columns DO UPDATE assigns from excluded (none of them   *)
(* for DO NOTHING) and whether its WHERE holds.  acc.touched holds the     *)
(* rows the statement has written.                                         *)
Conflicting(db, t, values, columns) ==
    {r \in DOMAIN Rows(db, t) :
        \E c \in columns : values[c] # Null /\ values[c] = Rows(db, t)[r][c]}

Allocated(db, t) == [db EXCEPT !.next_row_id[t] = @ + 1]

InsertNew(acc, t, values) ==
    LET id == acc.db.next_row_id[t]
    IN  [acc EXCEPT !.db = Allocated(PutRow(@, t, id, values), t), !.touched = @ \cup {id}]

UpsertUnseen(acc, t, id, values, conflict, context) ==  \* fault: the old row is not checked
    LET row == Rows(acc.db, t)[id]
        next == [c \in DOMAIN row |-> IF c \in conflict.assign THEN values[c] ELSE row[c]]
    IN  IF ~ conflict.where THEN acc
        ELSE [acc EXCEPT !.ok = /\ id \notin acc.touched
                                /\ check_row(acc.db, t, next)
                                /\ allowed(acc.db, t, "UPDATE", next, context, TRUE),
                         !.db = PutRow(@, t, id, next),
                         !.touched = @ \cup {id}]

Upsert(acc, t, id, values, conflict, context) ==
    LET row == Rows(acc.db, t)[id]
        next == [c \in DOMAIN row |-> IF c \in conflict.assign THEN values[c] ELSE row[c]]
    IN  IF ~ allowed(acc.db, t, "UPDATE", row, context, FALSE) THEN [acc EXCEPT !.ok = FALSE]
        ELSE IF ~ conflict.where THEN acc
        ELSE [acc EXCEPT !.ok = /\ id \notin acc.touched
                                /\ check_row(acc.db, t, next)
                                /\ allowed(acc.db, t, "UPDATE", next, context, TRUE),
                         !.db = PutRow(@, t, id, next),
                         !.touched = @ \cup {id}]

InsertOne(acc, t, values, conflict, context) ==
    LET existing == IF conflict = Absent THEN {}
                    ELSE Conflicting(acc.db, t, values, conflict.columns)
    IN  IF ~ acc.ok THEN acc
        ELSE IF \/ ~ check_row(acc.db, t, values)
                \/ ~ allowed(acc.db, t, "INSERT", values, context, TRUE)
             THEN [acc EXCEPT !.ok = FALSE]
        ELSE IF existing = {} THEN InsertNew(acc, t, values)
        ELSE IF conflict.assign = {} THEN acc
        ELSE Upsert(acc, t, Min(existing), values, conflict, context)

Insert(db, t, rows, conflict, context) ==
    LET after[i \in 0..Len(rows)] ==
            IF i = 0 THEN [ok |-> TRUE, db |-> db, touched |-> {}]
            ELSE InsertOne(after[i - 1], t, rows[i], conflict, context)
        end == after[Len(rows)]
    IN  [ok |-> end.ok, db |-> end.db]

(* UPDATE of the rows in selected, assigning value[r] to a column of row r.*)
Update(db, t, selected, column, value, context) ==
    LET changed == {r \in selected : allowed(db, t, "UPDATE", Rows(db, t)[r], context, FALSE)}
        next(r) == [Rows(db, t)[r] EXCEPT ![column] = value[r]]
    IN  [ok |-> \A r \in changed : /\ check_row(db, t, next(r))
                                   /\ allowed(db, t, "UPDATE", next(r), context, TRUE),
         db |-> [db EXCEPT !.rows[t] =
                    [r \in DOMAIN @ |-> IF r \in changed THEN next(r) ELSE @[r]]]]

Delete(db, t, selected, context) ==
    Success(RemoveRows(db, t,
                {r \in selected : allowed(db, t, "DELETE", Rows(db, t)[r], context, FALSE)}))

----------------------------------------------------------------------------
(* apply_referential_actions: every row that differs from before is a      *)
(* change in a queue; the foreign keys that reference its table act on the *)
(* rows that hold its old key, and what they do to those rows is queued in *)
(* turn.  new is Absent when the row is gone.                              *)
Change(t, old, new) == [table |-> t, old |-> old, new |-> new]

(* The numbers of a set, smallest first: the i-th has i - 1 below it.      *)
Ordered(S) == [i \in 1..Cardinality(S) |-> CHOOSE x \in S : Cardinality({y \in S : y < x}) = i - 1]

ChangesOf(before, db, t) ==
    LET new(r) == IF r \in DOMAIN Rows(db, t) THEN Rows(db, t)[r] ELSE Absent
        same(r) == r \in DOMAIN Rows(db, t) /\ Rows(db, t)[r] = Rows(before, t)[r]
        changed == {r \in DOMAIN Rows(before, t) : ~ same(r)}
    IN  [i \in 1..Cardinality(changed) |->
            Change(t, Rows(before, t)[Ordered(changed)[i]], new(Ordered(changed)[i]))]

(* How one foreign key answers one change.                                 *)
Referring(db, fk, key) == {r \in DOMAIN Rows(db, fk.source) : Rows(db, fk.source)[r][fk.column] = key}

CascadeDeleteOnce(acc, fk, rows) ==     \* fault: the deletions are not followed up
    [acc EXCEPT !.db = RemoveRows(@, fk.source, rows)]

CascadeDelete(acc, fk, rows) ==
    [acc EXCEPT !.db = RemoveRows(@, fk.source, rows),
                !.queue = @ \o [i \in 1..Cardinality(rows) |->
                    Change(fk.source, Rows(acc.db, fk.source)[Ordered(rows)[i]], Absent)]]

Redirect(acc, fk, rows, value) ==
    LET next(r) == [Rows(acc.db, fk.source)[r] EXCEPT ![fk.column] = value]
    IN  [acc EXCEPT !.db.rows[fk.source] = [r \in DOMAIN @ |-> IF r \in rows THEN next(r) ELSE @[r]],
                    !.queue = @ \o [i \in 1..Cardinality(rows) |->
                        Change(fk.source, Rows(acc.db, fk.source)[Ordered(rows)[i]],
                               next(Ordered(rows)[i]))]]

Unaffected(change, fk) ==
    \/ change.new # Absent /\ change.new[fk.references] = change.old[fk.references]
    \/ change.old[fk.references] = Null

Act(acc, change, fk) ==
    LET key == change.old[fk.references]
        action == IF change.new = Absent THEN fk.on_delete ELSE fk.on_update
        rows == Referring(acc.db, fk, key)
    IN  IF ~ acc.ok \/ Unaffected(change, fk) \/ rows = {} THEN acc
        ELSE CASE action = "NO ACTION" -> acc
               [] action = "RESTRICT" -> [acc EXCEPT !.ok = FALSE]
               [] action = "CASCADE" /\ change.new = Absent -> CascadeDelete(acc, fk, rows)
               [] action = "CASCADE" /\ change.new # Absent ->
                     Redirect(acc, fk, rows, change.new[fk.references])
               [] action = "SET NULL" -> Redirect(acc, fk, rows, Null)
               [] action = "SET DEFAULT" ->
                     Redirect(acc, fk, rows, acc.db.catalog.defaults[fk.source][fk.column])

(* A change is answered by the foreign keys that reference its table, in   *)
(* the order of the tables that declare them.                              *)
ActAll(acc, change) ==
    LET keys == acc.db.catalog.foreign_keys
        after[i \in 0..Len(keys)] ==
            IF i = 0 THEN acc
            ELSE IF keys[i].target # change.table THEN after[i - 1]
            ELSE Act(after[i - 1], change, keys[i])
    IN  after[Len(keys)]

SettleOne(acc) ==
    IF ~ acc.ok \/ acc.queue = <<>> THEN acc
    ELSE ActAll([acc EXCEPT !.queue = Tail(@)], Head(acc.queue))

Settle(acc) ==
    LET after[n \in 0..MaxSteps] == IF n = 0 THEN acc ELSE SettleOne(after[n - 1])
        end == after[MaxSteps]
    IN  [end EXCEPT !.ok = @ /\ end.queue = <<>>]

Settled(before, db) ==
    Settle([ok |-> TRUE, db |-> db,
            queue |-> FlattenSeq([i \in DOMAIN db.catalog.tables |->
                                    ChangesOf(before, db, db.catalog.tables[i])])])

apply_referential_actions(before, db) ==
    LET end == Settled(before, db) IN [ok |-> end.ok, db |-> end.db]
=============================================================================
