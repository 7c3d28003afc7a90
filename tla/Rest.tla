-------------------------------- MODULE Rest --------------------------------
(* GET of a table or view (table in main.rs, postgrest.rs): filters and row*)
(* security, then !inner embeds, then the window of limit, offset or Range,*)
(* then embedding of related rows.                                         *)
(*                                                                         *)
(* Of a request only what decides about rows is kept: the table; filters,  *)
(* each the path of relations its key starts with, a column and the value  *)
(* it is compared with; embeds, each an alias, a target, a hint (a column  *)
(* of the foreign key, or Absent), whether it is !inner, and embeds of its *)
(* own; offset and limit (Unlimited without); range, Absent or a first and *)
(* a last position, the last one Absent in "3-"; and single, whether one   *)
(* object is asked for.  Columns exist; they are selected and ordered by   *)
(* nothing but row identifiers.                                            *)
EXTENDS Queries

CONSTANTS
    Gets,       \* the requests without a window that are made
    Unlimited   \* usize::MAX

SpecsTo[n \in 0..MaxText] ==
    IF n = 0 THEN {}
    ELSE [alias: Names, target: Names, hint: {Absent} \cup STRING, inner: BOOLEAN,
          nested: Seq(SpecsTo[n - 1])]

Specs == SpecsTo[MaxText]

ASSUME RestAssumption ==
    /\ Unlimited \notin Nat /\ Absent \notin Nat \cup [first: Nat, last: {Absent} \cup Nat]
    /\ \A request \in Gets :
          request = [table |-> request.table, filters |-> request.filters, embeds |-> request.embeds,
                     offset |-> 0, limit |-> Unlimited, range |-> Absent, single |-> request.single]
    /\ \A request \in Gets : request.table \in Names /\ request.embeds \in Seq(Specs)

(* SELECT * FROM t WHERE ..., run by the SQL core for the caller.          *)
Qualifies(row, filters) ==
    \A f \in filters : f.path = <<>> => f.value # Null /\ row[f.column] = f.value

Selected(d, t, filters, context) ==
    {r \in Visible(d, t, context) : Qualifies(Rows(d, t)[r], filters)}

----------------------------------------------------------------------------
(* The foreign keys from a table to the target and back; exactly one must  *)
(* be left when the hint has been followed.                                *)
BothWays(d) ==
    LET keys == d.catalog.foreign_keys
    IN  {[index |-> i, fk |-> keys[i], outgoing |-> outgoing] : i \in DOMAIN keys, outgoing \in BOOLEAN}

Relates(relation, t, spec) ==
    LET fk == relation.fk
    IN  /\ IF relation.outgoing THEN fk.source = t /\ fk.target = spec.target
                                ELSE fk.source = spec.target /\ fk.target = t
        /\ spec.hint \in {Absent, fk.column}

resolve_relation(d, t, spec) ==
    LET found == {relation \in BothWays(d) : Relates(relation, t, spec)}
    IN  IF spec.target \in DOMAIN d.rows /\ Cardinality(found) = 1
        THEN [ok |-> TRUE, relation |-> CHOOSE relation \in found : TRUE]
        ELSE [ok |-> FALSE]

(* The filters that are addressed to an embed by its alias or its target,  *)
(* without that first step of their path.                                  *)
relation_params(filters, spec) ==
    {[f EXCEPT !.path = Tail(@)] :
        f \in {f \in filters : f.path # <<>> /\ Head(f.path) \in {spec.alias, spec.target}}}

relation_rows_open(d, spec, filters, context) ==    \* fault: only filters bring row security
    LET own == relation_params(filters, spec)
    IN  Selected(d, spec.target, own, IF own = {} THEN Admin ELSE context)

relation_rows(d, spec, filters, context) ==
    Selected(d, spec.target, relation_params(filters, spec), context)

(* A foreign key declared without a column list (named is FALSE) refers to *)
(* the primary key, but has no columns to compare.                         *)
linked(row, other, relation) ==
    LET fk == relation.fk
        referring == IF relation.outgoing THEN row ELSE other
        referred == IF relation.outgoing THEN other ELSE row
    IN  fk.named => referring[fk.column] # Null /\ referring[fk.column] = referred[fk.references]

Related(d, t, r, spec, filters, context) ==
    {other \in relation_rows(d, spec, filters, context) :
        linked(Rows(d, t)[r], Rows(d, spec.target)[other], resolve_relation(d, t, spec).relation)}

(* !inner: the rows that are kept.  An embed is resolved only for rows     *)
(* that have passed the embeds before it.                                  *)
Matched(d, t, r, spec, filters, context) ==
    resolve_relation(d, t, spec).ok /\ Related(d, t, r, spec, filters, context) # {}

KeptRows(d, t, rows, embeds, filters, context) ==
    LET inner == {i \in DOMAIN embeds : embeds[i].inner}
        matched(r, i) == Matched(d, t, r, embeds[i], filters, context)
        reached(r, i) == \A j \in inner : j < i => matched(r, j)
    IN  [ok |-> \A r \in rows, i \in inner : reached(r, i) => resolve_relation(d, t, embeds[i]).ok,
         rows |-> {r \in rows : \A i \in inner : matched(r, i)}]

filter_presence(d, t, rows, request, context) ==    \* fault: embeds count without their filters
    KeptRows(d, t, rows, request.embeds, {}, context)

filter_referenced_rows(d, t, rows, request, context) ==
    KeptRows(d, t, rows, request.embeds, request.filters, context)

----------------------------------------------------------------------------
(* project_with_params: rows with their embeds, in the order they are asked*)
(* for: of an outgoing reference the row, and no row for null, of the      *)
(* others all rows.  Embeds of embeds are given the filters of the whole   *)
(* request.  inner embeds for a row of a table.                            *)
For(t, r, spec) == [table |-> t, row |-> r, spec |-> spec]

Project(d, t, ids, embeds, inner) ==
    IF \A i \in DOMAIN ids, j \in DOMAIN embeds : inner[For(t, ids[i], embeds[j])].ok
    THEN Answer([i \in DOMAIN ids |->
                    [row |-> Rows(d, t)[ids[i]],
                     embeds |-> [j \in DOMAIN embeds |-> inner[For(t, ids[i], embeds[j])].rows]]])
    ELSE NoAnswer

Embed(d, place, filters, context, inner) ==
    LET spec == place.spec
        found == resolve_relation(d, place.table, spec)
        related == Ordered(Related(d, place.table, place.row, spec, filters, context))
        projected == Project(d, spec.target, related, spec.nested, inner)
        shaped(rows) == IF found.relation.outgoing /\ rows # <<>> THEN <<Last(rows)>> ELSE rows
    IN  IF ~ found.ok \/ ~ projected.ok THEN NoAnswer ELSE Answer(shaped(projected.rows))

Embedding(d, filters, context) ==
    LET embedded[n \in 0..MaxText] ==
            [place \in [table: Names, row: Nat, spec: Specs] |->
                IF n = 0 THEN NoAnswer ELSE Embed(d, place, filters, context, embedded[n - 1])]
    IN  embedded

----------------------------------------------------------------------------
(* A view is read as a table: materialized views from the cache, others    *)
(* evaluated with the caller's rows.                                       *)
Evaluated(ready, query, context, name) ==
    IF ready.ok /\ name \in DOMAIN Views(ready.db)
    THEN materialize(ready.db, query, context, name)
    ELSE ready

ResolvedView(d, query, context, name) == Evaluated(prepared(d, query, context), query, context, name)

Resolved(d, name, context) ==
    IF name \notin DOMAIN Views(d) THEN Success(d)
    ELSE ResolvedView(d, Select(<<Named(name)>>), context, name)

(* The window of a request, or ok FALSE for a Range that ends before it    *)
(* starts.  A Range takes the place of offset, and of limit if it ends.    *)
Window(request) ==
    LET range == request.range
    IN  IF range = Absent THEN [ok |-> TRUE, offset |-> request.offset, limit |-> request.limit]
        ELSE IF range.last = Absent
             THEN [ok |-> TRUE, offset |-> range.first, limit |-> request.limit]
        ELSE [ok |-> range.last >= range.first, offset |-> range.first,
              limit |-> range.last - range.first + 1]

Page(rows, window) ==
    LET cut == window.limit # Unlimited /\ window.offset + window.limit < Len(rows)
    IN  SubSeq(rows, window.offset + 1, IF cut THEN window.offset + window.limit ELSE Len(rows))

(* first is the start of Content-Range, Absent for "*".                    *)
Failed == [ok |-> FALSE]

Respond(rows, total, request) ==
    IF request.single /\ Len(rows) # 1 THEN Failed
    ELSE [ok |-> TRUE, rows |-> rows, total |-> total,
          first |-> IF rows = <<>> THEN Absent ELSE Window(request).offset]

GetTable(d, request, context) ==
    LET t == request.table
        kept == filter_referenced_rows(d, t, Selected(d, t, request.filters, context), request, context)
        page == Page(Ordered(kept.rows), Window(request))
        projected == Project(d, t, page, request.embeds, Embedding(d, request.filters, context)[MaxText])
    IN  IF t \notin DOMAIN d.rows \/ ~ kept.ok \/ ~ projected.ok THEN Failed
        ELSE Respond(projected.rows, Cardinality(kept.rows), request)

GetFrom(ready, request, context) ==
    IF ready.ok /\ Window(request).ok THEN GetTable(ready.db, request, context) ELSE Failed

Get(d, request, context) == GetFrom(Resolved(d, request.table, context), request, context)

----------------------------------------------------------------------------
(* Whoever reads an answer page by page, by limit and offset or by Range,  *)
(* sees every row of the answer once and in its place, and the count of    *)
(* every page is that of all rows, each of which has what it is asked to   *)
(* have with !inner under the filters of that embed                        *)
(* (table, filter_referenced_rows: "before root pagination").              *)
Paged(request, n, k) == [request EXCEPT !.offset = n * k, !.limit = n]
Ranged(request, n, k) == [request EXCEPT !.range = [first |-> n * k, last |-> n * k + n - 1]]

PageOf(whole, n, k) ==
    [ok |-> TRUE, total |-> whole.total,
     rows |-> SubSeq(whole.rows, n * k + 1, IF n * k + n < whole.total THEN n * k + n ELSE whole.total),
     first |-> IF n * k < whole.total THEN n * k ELSE Absent]

Covered(request, context, whole) ==
    whole.ok =>
      /\ whole.total = Len(whole.rows)
      /\ \A r \in DOMAIN whole.rows, i \in DOMAIN request.embeds :
            request.embeds[i].inner => whole.rows[r].embeds[i] # <<>>
      /\ \A n \in 1..2, k \in 0..whole.total :
            \A page \in {Paged(request, n, k), Ranged(request, n, k)} :
                Get(db, page, context) = PageOf(whole, n, k)

PagesCoverTheAnswer ==
    work = Idle =>
        \A request \in {r \in Gets : ~ r.single}, context \in Contexts :
            Covered(request, context, Get(db, request, context))

(* No answer, failures included, depends on a row its reader may not       *)
(* SELECT: not through an embed, a filter on one, a view or a count        *)
(* (read_table, relation_rows, query_batches).                             *)
Readable(d, context) ==
    [d EXCEPT !.rows = [t \in DOMAIN @ |->
        [r \in {r \in DOMAIN @[t] : allowed(d, t, "SELECT", @[t][r], context, FALSE)} |-> @[t][r]]]]

AnswersIgnoreHiddenRows ==
    work = Idle =>
        \A context \in Contexts :
            /\ \A request \in Gets : Get(db, request, context) = Get(Readable(db, context), request, context)
            /\ \A query \in Questions : execute(db, query, context) = execute(Readable(db, context), query, context)
=============================================================================
