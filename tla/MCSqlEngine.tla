---------------------------- MODULE MCSqlEngine ----------------------------
(* Small databases.  Tree: a table whose rows reference each other,        *)
(* cascading, with a deferred reference and three rows in a chain.         *)
(* Family: a parent with two children whose references are answered by the *)
(* remaining actions.  Office: three tables in a row, cascading or setting *)
(* NULL.  Documents: two owners under row security, one of the policies    *)
(* restrictive; Shared: the same, kept apart by that alone.  Library:      *)
(* tables, foreign keys and views to read in many ways.                    *)
EXTENDS Rest

CONSTANTS u, v

User == [privileged |-> FALSE, role |-> "authenticated", uid |-> u]

SmallDomain == [key |-> {1, 2, 3}, ref |-> {1, Null}, editor |-> {Null}, owner |-> {u, v}]

Reference(source, column, target, on_delete, on_update, deferred, named) ==
    [source |-> source, column |-> column, target |-> target, references |-> "key",
     on_delete |-> on_delete, on_update |-> on_update, deferred |-> deferred, named |-> named]

FK(source, target, on_delete, on_update, deferred) ==
    Reference(source, "ref", target, on_delete, on_update, deferred, TRUE)

Policy(command, permissive, using, check) ==
    [command |-> command, roles |-> {"public"}, permissive |-> permissive,
     using |-> using, check |-> check]

Tree ==
    [catalog |->
        [tables |-> <<"node">>, columns |-> [node |-> {"key", "ref"}],
         unique |-> [node |-> {"key"}], deferred_unique |-> [node |-> {}],
         not_null |-> [node |-> {"key"}], defaults |-> [node |-> [ref |-> Null]],
         foreign_keys |-> <<FK("node", "node", "CASCADE", "CASCADE", TRUE)>>,
         rls_enabled |-> [node |-> FALSE], policies |-> [node |-> {}], views |-> <<>>],
     rows |-> [node |-> 1 :> [key |-> 1, ref |-> Null] @@ 2 :> [key |-> 2, ref |-> 1]
                        @@ 3 :> [key |-> 3, ref |-> 2]],
     next_row_id |-> [node |-> 4]]

Family ==
    [catalog |->
        [tables |-> <<"child", "parent", "pin">>,
         columns |-> [child |-> {"ref"}, parent |-> {"key"}, pin |-> {"ref"}],
         unique |-> [child |-> {}, parent |-> {"key"}, pin |-> {}],
         deferred_unique |-> [child |-> {}, parent |-> {"key"}, pin |-> {}],
         not_null |-> [child |-> {}, parent |-> {"key"}, pin |-> {}],
         defaults |-> [child |-> [ref |-> 1], parent |-> <<>>, pin |-> [ref |-> Null]],
         foreign_keys |-> <<FK("child", "parent", "SET NULL", "SET DEFAULT", FALSE),
                            FK("pin", "parent", "RESTRICT", "NO ACTION", FALSE)>>,
         rls_enabled |-> [t \in {"child", "parent", "pin"} |-> FALSE],
         policies |-> [t \in {"child", "parent", "pin"} |-> {}], views |-> <<>>],
     rows |-> [child |-> 1 :> [ref |-> 2], parent |-> 1 :> [key |-> 1] @@ 2 :> [key |-> 2],
               pin |-> 1 :> [ref |-> 1]],
     next_row_id |-> [child |-> 2, parent |-> 4, pin |-> 5]]

Office ==        \* a clerk goes with his boss, and what is on his desk stays
    [catalog |->
        [tables |-> <<"boss", "clerk", "desk">>,
         columns |-> [boss |-> {"key"}, clerk |-> {"key", "ref"}, desk |-> {"ref"}],
         unique |-> [boss |-> {"key"}, clerk |-> {"key"}, desk |-> {}],
         deferred_unique |-> [t \in {"boss", "clerk", "desk"} |-> {}],
         not_null |-> [boss |-> {"key"}, clerk |-> {"key"}, desk |-> {}],
         defaults |-> [boss |-> <<>>, clerk |-> [ref |-> Null], desk |-> [ref |-> Null]],
         foreign_keys |-> <<FK("clerk", "boss", "CASCADE", "SET NULL", FALSE),
                            FK("desk", "clerk", "SET NULL", "CASCADE", FALSE)>>,
         rls_enabled |-> [t \in {"boss", "clerk", "desk"} |-> FALSE],
         policies |-> [t \in {"boss", "clerk", "desk"} |-> {}], views |-> <<>>],
     rows |-> [boss |-> 1 :> [key |-> 1], clerk |-> 1 :> [key |-> 1, ref |-> 1],
               desk |-> 1 :> [ref |-> 1]],
     next_row_id |-> [boss |-> 5, clerk |-> 4, desk |-> 5]]

Documents ==
    [catalog |->
        [tables |-> <<"document">>, columns |-> [document |-> {"key", "owner"}],
         unique |-> [document |-> {"key"}], deferred_unique |-> [document |-> {}],
         not_null |-> [document |-> {"key"}], defaults |-> [document |-> [owner |-> Null]],
         foreign_keys |-> <<>>,
         rls_enabled |-> [document |-> TRUE],
         policies |-> [document |-> {Policy("ALL", TRUE, "own", Absent),
                                     Policy("UPDATE", FALSE, "any", Absent)}],
         views |-> <<>>],
     rows |-> [document |-> 1 :> [key |-> 1, owner |-> u] @@ 2 :> [key |-> 2, owner |-> v]],
     next_row_id |-> [document |-> 3]]

Shared ==       \* the owners' documents again, kept apart by a restrictive policy alone
    [Documents EXCEPT !.catalog.policies["document"] =
        {Policy("ALL", TRUE, "any", Absent), Policy("ALL", FALSE, "own", "own")},
                      !.next_row_id["document"] = 4]   \* the third one has been deleted

(* Users whom only they themselves see, and posts that everybody sees, each*)
(* of an author and perhaps an editor; and views: of a table, materialized *)
(* over a CTE that is named like a table, with a CTE that reads a table    *)
(* before the next one takes its name, and a circle of two.                *)
Cte(name, query) == [name |-> name, query |-> query]

Library ==
    [catalog |->
        [tables |-> <<"posts", "users">>,
         columns |-> [posts |-> {"ref", "editor"}, users |-> {"key", "owner"}],
         unique |-> [posts |-> {}, users |-> {"key"}], deferred_unique |-> [posts |-> {}, users |-> {}],
         not_null |-> [posts |-> {}, users |-> {"key"}],
         defaults |-> [posts |-> [ref |-> Null, editor |-> Null], users |-> <<>>],
         foreign_keys |-> <<Reference("posts", "ref", "users", "CASCADE", "CASCADE", FALSE, TRUE),
                            Reference("posts", "editor", "users", "NO ACTION", "NO ACTION", FALSE, TRUE)>>,
         rls_enabled |-> [posts |-> FALSE, users |-> TRUE],
         policies |-> [posts |-> {}, users |-> {Policy("ALL", TRUE, "own", Absent)}],
         views |->
            [names |-> [materialized |-> FALSE, query |-> Select(<<Named("users")>>)],
             listed |-> [materialized |-> TRUE,
                         query |-> [with |-> <<Cte("posts", Select(<<Named("names")>>))>>,
                                    from |-> <<Named("posts"), Qualified("posts")>>]],
             ahead |-> [materialized |-> FALSE,
                        query |-> [with |-> <<Cte("before", Select(<<Named("users")>>)),
                                              Cte("users", Select(<<Named("posts")>>))>>,
                                   from |-> <<Named("before"), Named("users")>>]],
             loop |-> [materialized |-> FALSE, query |-> Select(<<Named("pool")>>)],
             pool |-> [materialized |-> FALSE, query |-> Select(<<Named("loop")>>)]]],
     rows |-> [posts |-> 1 :> [ref |-> 1, editor |-> 2] @@ 2 :> [ref |-> 2, editor |-> 1],
               users |-> 1 :> [key |-> 1, owner |-> u] @@ 2 :> [key |-> 2, owner |-> v]],
     next_row_id |-> [posts |-> 5, users |-> 5]]

SmallDatabases == {Tree, Family, Office, Documents, Shared, Library}
TreeDatabases == {Tree}
SmallContexts == {Admin, User}
SmallConflicts ==
    {[columns |-> {"key"}, assign |-> {}, where |-> TRUE],
     [columns |-> {"key"}, assign |-> {"owner"}, where |-> TRUE]}

SmallQuestions ==
    LET posing(name) == Cte(name, Select(<<Named("posts")>>))
    IN  {Select(<<Named("listed"), Named("users")>>), Select(<<Named("loop")>>),
         \* a CTE named like a table that a view reads, and like a view
         [with |-> <<posing("users")>>, from |-> <<Named("names"), Named("users"), Qualified("users")>>],
         [with |-> <<posing("names"), posing("listed")>>, from |-> <<Named("names"), Named("listed")>>],
         \* a CTE of a subquery, beside the table of its name
         Select(<<Derived([with |-> <<posing("users")>>, from |-> <<Named("users")>>]), Named("users")>>),
         \* a CTE that is used before it is declared
         [with |-> <<Cte("before", Select(<<Named("users")>>)), posing("users")>>,
          from |-> <<Named("before"), Named("users"), Named("names")>>],
         \* the same in a view, beside the table, and under a CTE of that name
         Select(<<Named("users"), Named("ahead")>>),
         [with |-> <<posing("users")>>, from |-> <<Named("ahead"), Named("names")>>],
         \* deeper than MaxNesting
         Select(<<Derived(Select(<<Derived(Select(<<Derived(Select(<<Named("users")>>))>>))>>))>>)}

SmallNames ==
    {"node", "child", "parent", "pin", "boss", "clerk", "desk", "document", "posts", "users",
     "names", "listed", "ahead", "loop", "pool", "before", "author", "editor", "edited"}

Request(table, filters, embeds) ==
    [table |-> table, filters |-> filters, embeds |-> embeds, offset |-> 0, limit |-> Unlimited,
     range |-> Absent, single |-> FALSE]

On(path, column, value) == [path |-> path, column |-> column, value |-> value]
With(alias, target, hint, inner, nested) ==
    [alias |-> alias, target |-> target, hint |-> hint, inner |-> inner, nested |-> nested]

SmallGets ==
    LET author == With("author", "users", "ref", FALSE, <<>>)
        editor == With("editor", "users", "editor", FALSE, <<>>)
        required(spec) == [spec EXCEPT !.inner = TRUE]
    IN  {Request("posts", {On(<<>>, "ref", 1)}, <<author, editor>>),
         Request("posts", {On(<<"author">>, "key", 1)}, <<required(author)>>),
         Request("posts", {On(<<"users">>, "owner", u)}, <<required(editor), required(author)>>),
         Request("users", {On(<<"posts">>, "ref", 1)},
                 <<With("posts", "posts", "ref", TRUE, <<editor>>), With("edited", "posts", "editor", FALSE, <<>>)>>),
         Request("users", {}, <<With("posts", "posts", Absent, FALSE, <<>>)>>),
         Request("child", {On(<<"parent">>, "key", 1)}, <<With("parent", "parent", Absent, TRUE, <<>>)>>),
         Request("node", {}, <<With("node", "node", Absent, FALSE, <<>>)>>),
         Request("document", {On(<<>>, "key", 2)}, <<>>),
         Request("names", {}, <<>>), Request("listed", {}, <<>>), Request("loop", {}, <<>>),
         [Request("users", {On(<<>>, "key", 1)}, <<>>) EXCEPT !.single = TRUE]}
=============================================================================
