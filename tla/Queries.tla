------------------------------ MODULE Queries ------------------------------
(* What a SELECT reads.  The gateway computes the materialized views the   *)
(* query depends on, a normalizer puts the definition of every other view  *)
(* in the place of its name and marks the base tables, and DataFusion, in  *)
(* which only the rows the caller may read are registered, evaluates the   *)
(* rewritten text (kura-query, query.rs of the gateway).                   *)
(*                                                                         *)
(* Of a query only names are kept: the CTEs it declares, in order, and the *)
(* sources of its FROM.  It reads all its sources (UNION ALL).  A source   *)
(* is a name, a name qualified with public, or a query.  The views of a    *)
(* database, by name, are in its catalog.                                  *)
(*                                                                         *)
(* What recurs over texts is a function of the steps it may still take: at *)
(* n, one step of the operator before it, given the function at n - 1.     *)
EXTENDS SqlEngine

CONSTANTS
    Names,              \* of tables, views, CTEs and embeds
    Questions,          \* the queries that are asked
    MaxNesting,         \* MAX_QUERY_NESTING; 64 in the code
    MaxText,            \* bound on the nesting of texts
    AcceptsShadowing    \* does DataFusion accept a CTE that redeclares one of
                        \* an enclosing query?

Named(name) == [kind |-> "name", name |-> name]
Qualified(name) == [kind |-> "qualified", name |-> name]
Derived(query) == [kind |-> "query", query |-> query]
Select(sources) == [with |-> <<>>, from |-> sources]

Sources(texts) ==
    [kind: {"name", "qualified"}, name: Names] \cup [kind: {"query"}, query: texts]

TextsTo[n \in 0..MaxText] ==
    IF n = 0 THEN {}
    ELSE [with: Seq([name: Names, query: TextsTo[n - 1]]), from: Seq(Sources(TextsTo[n - 1]))]

Texts == TextsTo[MaxText]

Views(d) == d.catalog.views

(* A database whose views are texts and whose catalog says of every table  *)
(* who may read it.                                                        *)
Viewed(d) ==
    /\ d.catalog = [x \in DOMAIN d.catalog |-> d.catalog[x]]
    /\ {"views", "rls_enabled", "policies"} \subseteq DOMAIN d.catalog
    /\ Views(d) \in [DOMAIN Views(d) -> [materialized: BOOLEAN, query: Texts]]
    /\ DOMAIN Views(d) \cup DOMAIN d.rows \subseteq Names
    /\ DOMAIN d.rows \subseteq DOMAIN d.catalog.rls_enabled \cap DOMAIN d.catalog.policies

ASSUME QueriesAssumption ==
    /\ AcceptsShadowing \in BOOLEAN /\ Absent \notin Seq(Names)
    /\ MaxNesting \in Nat /\ MaxText \in Nat /\ MaxNesting < MaxText
    /\ Questions \subseteq Texts
    /\ \A d \in Databases : Viewed(d)

(* The rows a caller may read of a table, in the order of their            *)
(* identifiers, and those of a sequence of tables.                         *)
Visible(d, t, context) ==
    {r \in DOMAIN Rows(d, t) : allowed(d, t, "SELECT", Rows(d, t)[r], context, FALSE)}

Listed(d, t, ids) == [i \in DOMAIN Ordered(ids) |-> Rows(d, t)[Ordered(ids)[i]]]

read_table(d, t, context) == Listed(d, t, Visible(d, t, context))

rows_of(d, read, context) == FlattenSeq([i \in DOMAIN read |-> read_table(d, read[i], context)])

----------------------------------------------------------------------------
(* normalize.  A visit is of a query, in views (path), at a depth of       *)
(* nesting and under the CTEs of the queries around it, each of which      *)
(* counts in all of its WITH's query, the CTEs themselves included.  The   *)
(* result has the rewritten source and the base tables it refers to.       *)
(* Views have scopes of their own, and are visited once more in those of   *)
(* the query they are put into.                                            *)
Rewritten(source, references) == [ok |-> TRUE, source |-> source, references |-> references]
Rejected == [ok |-> FALSE]

BaseTableBare(source) == Rewritten(Named(source.name), {source.name})   \* fault
BaseTable(source) == Rewritten(Qualified(source.name), {source.name})

Visits == [query: Texts, path: SUBSET Names, depth: 0..MaxNesting, ctes: SUBSET Names]

Visit(query, path) == [query |-> query, path |-> path, depth |-> 0, ctes |-> {}]
Inside(visit) ==
    [visit EXCEPT !.depth = @ + 1,
                  !.ctes = @ \cup {visit.query.with[i].name : i \in DOMAIN visit.query.with}]
At(place, query) == [place EXCEPT !.query = query]

ExpandView(views, name, place, inner) ==
    LET expanded == inner[Visit(views[name].query, place.path \cup {name})]
    IN  IF views[name].materialized \/ name \in place.path \/ ~ expanded.ok THEN Rejected
        ELSE inner[At(place, expanded.source.query)]

NormalizeSource(views, tables, source, place, inner) ==
    IF source.kind = "query" THEN inner[At(place, source.query)]
    ELSE IF source.kind = "name" /\ source.name \in place.ctes THEN Rewritten(source, {})
    ELSE IF source.name \in DOMAIN views THEN ExpandView(views, source.name, place, inner)
    ELSE IF source.name \in tables THEN BaseTable(source)
    ELSE Rejected

NormalizeQuery(views, tables, visit, inner) ==
    LET with == visit.query.with
        from == visit.query.from
        ctes == [i \in DOMAIN with |-> inner[At(Inside(visit), with[i].query)]]
        sources == [i \in DOMAIN from |->
                        NormalizeSource(views, tables, from[i], Inside(visit), inner)]
        parts == {ctes[i] : i \in DOMAIN with} \cup {sources[i] : i \in DOMAIN from}
    IN  IF \/ Cardinality(visit.path) >= MaxNesting \/ visit.depth >= MaxNesting
           \/ \E part \in parts : ~ part.ok
        THEN Rejected
        ELSE Rewritten(Derived([with |-> [i \in DOMAIN with |->
                                            [name |-> with[i].name, query |-> ctes[i].source.query]],
                                from |-> [i \in DOMAIN from |-> sources[i].source]]),
                       UNION {part.references : part \in parts})

(* From one visit to the next either the views or, in the same, the depth  *)
(* increase.                                                               *)
MaxVisits == MaxNesting * MaxNesting

Normalization(views, tables) ==
    LET normalized[n \in 0..MaxVisits] ==
            [visit \in Visits |->
                IF n = 0 THEN Rejected ELSE NormalizeQuery(views, tables, visit, normalized[n - 1])]
    IN  normalized

normalize(d, query) == Normalization(Views(d), DOMAIN d.rows)[MaxVisits][Visit(query, {})]

----------------------------------------------------------------------------
(* What is read for a query under the CTEs that have been declared: the    *)
(* tables in the order their rows appear, or Absent if a name means        *)
(* nothing.  relations holds what is read for the names of no CTE.         *)
Environments(tables) == [Names -> {Absent} \cup Seq(tables)]
Readings(tables) == [query: Texts, env: Environments(tables)]
Reading(query, env) == [query |-> query, env |-> env]
Undeclared == [name \in Names |-> Absent]

Declare(env, cte, inner) == [env EXCEPT ![cte.name] = inner[Reading(cte.query, env)]]

(* The CTEs declared before the first one of a WITH, after it, ...         *)
Scopes(with, env, inner) ==
    LET scopes[i \in 0..Len(with)] ==
            IF i = 0 THEN env ELSE Declare(scopes[i - 1], with[i], inner)
    IN  scopes

ReadSource(source, env, relations, inner) ==
    IF source.kind = "query" THEN inner[Reading(source.query, env)]
    ELSE IF source.kind = "name" /\ env[source.name] # Absent THEN env[source.name]
    ELSE relations[source.name]

Read(query, env, relations, inner) ==
    LET scopes == Scopes(query.with, env, inner)
        read == [i \in DOMAIN query.from |->
                    ReadSource(query.from[i], scopes[Len(query.with)], relations, inner)]
    IN  IF \/ \E i \in DOMAIN query.with : scopes[i][query.with[i].name] = Absent
           \/ \E i \in DOMAIN query.from : read[i] = Absent
        THEN Absent
        ELSE FlattenSeq(read)

(* DataFusion: the registered relations, and no CTE of one name twice.     *)
Shadows(query, env) ==
    \E i \in DOMAIN query.with :
        \/ \E j \in 1..(i - 1) : query.with[j].name = query.with[i].name
        \/ ~ AcceptsShadowing /\ env[query.with[i].name] # Absent

Evaluation(registered) ==
    LET relations == [name \in Names |-> IF name \in registered THEN <<name>> ELSE Absent]
        evaluated[n \in 0..MaxText] ==
            [reading \in Readings(registered) |->
                IF n = 0 \/ Shadows(reading.query, reading.env) THEN Absent
                ELSE Read(reading.query, reading.env, relations, evaluated[n - 1])]
    IN  evaluated

(* kura_query::execute and materialize.                                    *)
Answer(rows) == [ok |-> TRUE, rows |-> rows]
NoAnswer == [ok |-> FALSE, rows |-> <<>>]

ReadBy(normal) == Evaluation(normal.references)[MaxText][Reading(normal.source.query, Undeclared)]

Batches(d, normal, read, context) ==
    IF ~ normal.ok \/ ~ normal.references \subseteq DOMAIN d.rows \/ read = Absent THEN NoAnswer
    ELSE Answer(rows_of(d, read, context))

Batched(d, normal, context) == Batches(d, normal, ReadBy(normal), context)
query_batches(d, query, context) == Batched(d, normalize(d, query), context)

----------------------------------------------------------------------------
(* prepared: the materialized views a query depends on, each after those   *)
(* it depends on itself, take the place of tables without row security.    *)
(* Every name in the text counts, one that means a CTE too.  The values    *)
(* are those of this snapshot; what the cache holds instead is the matter  *)
(* of MaterializedCache.                                                   *)
Mentioned[n \in 0..MaxText] ==
    [query \in Texts |->
        IF n = 0 THEN <<>>
        ELSE FlattenSeq([i \in DOMAIN query.with |-> Mentioned[n - 1][query.with[i].query]])
             \o FlattenSeq([i \in DOMAIN query.from |->
                    IF query.from[i].kind = "query" THEN Mentioned[n - 1][query.from[i].query]
                    ELSE <<query.from[i].name>>])]

Found(ok, names) == [ok |-> ok, names |-> names]
Search(query, path, found) == [query |-> query, path |-> path, found |-> found]
Searches == [query: Texts, path: SUBSET Names, found: [ok: BOOLEAN, names: Seq(Names)]]

Depend(views, path, found, name, inner) ==
    LET nested == inner[Search(views[name].query, path \cup {name}, found)]
    IN  IF ~ found.ok \/ name \notin DOMAIN views THEN found
        ELSE IF name \in path \/ Cardinality(path) > MaxNesting THEN Found(FALSE, found.names)
        ELSE IF nested.ok /\ views[name].materialized /\ name \notin ToSet(nested.names)
             THEN Found(TRUE, Append(nested.names, name))
        ELSE nested

DependAll(views, search, inner) ==
    LET names == Mentioned[MaxText][search.query]
        after[i \in 0..Len(names)] ==
            IF i = 0 THEN search.found ELSE Depend(views, search.path, after[i - 1], names[i], inner)
    IN  after[Len(names)]

dependencies(views, query) ==
    LET found[n \in 0..(MaxNesting + 2)] ==
            [search \in Searches |->
                IF n = 0 THEN Found(FALSE, <<>>) ELSE DependAll(views, search, found[n - 1])]
    IN  found[MaxNesting + 2][Search(query, {}, Found(TRUE, <<>>))]

(* A view gives way to a table that holds its rows.                        *)
Without(views, name) == [v \in DOMAIN views \ {name} |-> views[v]]

CatalogWith(catalog, name) ==
    [catalog EXCEPT !.views = Without(@, name),
                    !.rls_enabled = Put(@, name, FALSE),
                    !.policies = Put(@, name, {})]

Tabulated(d, name, rows) ==
    [d EXCEPT !.rows = Put(@, name, rows), !.catalog = CatalogWith(@, name)]

Replaced(d, name, answer) ==
    IF answer.ok THEN Success(Tabulated(d, name, answer.rows)) ELSE Failure(d)

materialize(d, query, context, name) == Replaced(d, name, query_batches(d, query, context))

Compute(acc, views, context, name) ==
    IF acc.ok THEN materialize(acc.db, views[name].query, context, name) ELSE acc

Computed(d, needed, context) ==
    LET ready[i \in 0..Len(needed.names)] ==
            IF i = 0 THEN Success(d) ELSE Compute(ready[i - 1], Views(d), context, needed.names[i])
    IN  IF needed.ok THEN ready[Len(needed.names)] ELSE Failure(d)

prepared(d, query, context) == Computed(d, dependencies(Views(d), query), context)

Executed(ready, query, context) ==
    IF ready.ok THEN query_batches(ready.db, query, context) ELSE NoAnswer

execute(d, query, context) == Executed(prepared(d, query, context), query, context)

----------------------------------------------------------------------------
(* What a query means: names are looked up in the CTEs declared before, in *)
(* this query and outwards, then among the views, whose definitions see no *)
(* CTE of their user, and then among the tables.                           *)
MeaningOf(name, views, tables, inner) ==
    IF name \in DOMAIN views THEN inner[Reading(views[name].query, Undeclared)]
    ELSE IF name \in tables THEN <<name>>
    ELSE Absent

Meanings(views, tables, depth) ==
    LET meaning[n \in 0..depth] ==
            [reading \in Readings(tables) |->
                IF n = 0 THEN Absent
                ELSE Read(reading.query, reading.env,
                          [name \in Names |-> MeaningOf(name, views, tables, meaning[n - 1])],
                          meaning[n - 1])]
    IN  meaning

(* As deep as the query and the views it needs can be visited.             *)
Depth(d, query) == MaxVisits * (1 + Len(dependencies(Views(d), query).names))

Meaning(d, query) ==
    Meanings(Views(d), DOMAIN d.rows, Depth(d, query))[Depth(d, query)][Reading(query, Undeclared)]

(* A query that is answered is answered with what it means: no CTE         *)
(* captures a name inside a view or a name it is not in scope of, no view  *)
(* hides a CTE, and materialized views read like others                    *)
(* (Normalizer::pre_visit_table_factor, prepared).                         *)
NamesKeepTheirScope ==
    work = Idle =>
        \A query \in Questions, context \in Contexts :
            LET answer == execute(db, query, context)
            IN  answer.ok =>
                    /\ Meaning(db, query) # Absent
                    /\ answer.rows = rows_of(db, Meaning(db, query), context)
=============================================================================
