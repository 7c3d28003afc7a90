----------------------------- MODULE MCCatalog -----------------------------
(* Three databases.  Family: a parent with a child that references it      *)
(* twice, by its primary key and by name, and a policy.  Reports: the same *)
(* under a view and a function over the view that returns rows of the      *)
(* child.  Tree: a table that references itself, with a generated column,  *)
(* a check and a policy.  Two columns may trade names within one ALTER     *)
(* TABLE.                                                                  *)
EXTENDS Catalog

CONSTANTS a, b, v, x, y, z, p, f

TableOf(id, columns, primary_key, unique, foreign_keys) ==
    [id |-> id, columns |-> columns, primary_key |-> primary_key, unique |-> unique, deferred_unique |-> {},
     foreign_keys |-> foreign_keys, generated |-> <<>>, checks |-> {}, policies |-> <<>>,
     rls_enabled |-> FALSE]

FK(column, target, refers) ==
    [column |-> column, target |-> target, refers |-> refers, deferred |-> FALSE]

Family ==
    [tables |-> a :> [TableOf(1, x :> 2 @@ y :> 3, x, {y}, {}) EXCEPT !.policies = p :> {y},
                                                       !.deferred_unique = {y}]
             @@ b :> TableOf(4, x :> 5 @@ y :> 6, x, {}, {FK(x, a, Absent), FK(y, a, y)}),
     views |-> <<>>, functions |-> <<>>, schema_version |-> 5, next_object_id |-> 7]

Reports ==
    [Family EXCEPT !.tables[b].policies = p :> {x, y}, !.views = v :> {a},
                   !.functions = f :> [body |-> {v}, returns |-> b]]

Tree ==
    [tables |-> a :> [TableOf(1, x :> 2 @@ y :> 3 @@ z :> 4, x, {}, {FK(y, a, Absent)}) EXCEPT
                        !.generated = z :> {y}, !.checks = {{x}}, !.policies = p :> {x}],
     views |-> <<>>, functions |-> <<>>, schema_version |-> 5, next_object_id |-> 5]

SmallCatalogs == {Family, Reports, Tree}

SmallDefinitions ==
    {[columns |-> <<x>>, primary_key |-> x, unique |-> {}, foreign_keys |-> {},
      generated |-> <<>>, checks |-> {}, deferred_unique |-> {}, deferred_foreign |-> {}],
     [columns |-> <<y, x>>, primary_key |-> Absent, unique |-> {y},
      foreign_keys |-> {FK(x, a, Absent)}, generated |-> <<>>, checks |-> {{y}},
      deferred_unique |-> {y}, deferred_foreign |-> {x}]}

Add(c, unique, keys) ==
    [kind |-> "ADD COLUMN", column |-> c, unique |-> unique, references |-> keys,
     generated |-> <<>>, checks |-> {}, if_not_exists |-> FALSE]
RenameC(c, to) == [kind |-> "RENAME COLUMN", column |-> c, to |-> to]
DropC(c, cascade) == [kind |-> "DROP COLUMN", column |-> c, cascade |-> cascade, if_exists |-> FALSE]

Small ==
    {Add(c, unique, keys) : c \in ColumnName, unique \in BOOLEAN,
                                  keys \in {{}, {FK(x, a, Absent)}, {FK(x, a, y)}}}
    \cup {RenameC(c, to) : c, to \in ColumnName}
    \cup {DropC(c, cascade) : c \in ColumnName, cascade \in BOOLEAN}
    \cup {[kind |-> "RENAME TO", to |-> n] : n \in Relation}

SmallAlterations ==
    {<<op>> : op \in Small}
    \cup {<<op, other>> : op, other \in Small}
    \cup {<<[Add(x, FALSE, {}) EXCEPT !.if_not_exists = TRUE]>>,
          <<[Add(z, FALSE, {}) EXCEPT !.generated = z :> {x}, !.checks = {{z, y}}]>>,
          <<[DropC(z, TRUE) EXCEPT !.if_exists = TRUE], RenameC(y, z)>>}
    \cup {<<[kind |-> "ALTER COLUMN", column |-> c, drop_not_null |-> d]>> :
             c \in {x, y}, d \in BOOLEAN}
    \cup {<<RenameC(x, z), RenameC(y, x), RenameC(z, y)>>}
=============================================================================
