-------------------------- MODULE MaterializedCache --------------------------
(* The materialized values a gateway keeps for one view (query.rs, and the *)
(* two handlers that use it).  A value belongs to the caller it was        *)
(* computed for, because row security decides what he sees, and to the     *)
(* schema version it was computed under.  Readers take their snapshot      *)
(* before they wait for the cache lock, and without the writer lock;       *)
(* REFRESH holds the writer lock from before its snapshot to its end.      *)
(* That lock is one gateway's: it keeps a REFRESH from the other           *)
(* statements of its gateway, and from no commit that reaches the contract *)
(* another way.                                                            *)
(*                                                                         *)
(* The state of the database is two counters: how often rows were written  *)
(* and how often the schema changed.  The view's definition stays the same *)
(* text; what it means changes with policies and tables, that is, with the *)
(* schema version.                                                         *)
EXTENDS Naturals, Functions

CONSTANTS
    Request,            \* the requests clients make, each once
    Context,            \* the callers' AuthContexts
    Admin,              \* the administrative one
    Nobody,             \* no request
    MaxData, MaxSchema  \* bounds on the two counters

ASSUME CacheAssumption ==
    /\ Admin \in Context
    /\ Nobody \notin Request
    /\ MaxData \in Nat /\ MaxSchema \in Nat

VARIABLES
    data, schema_version,   \* the database
    writer,                 \* the SELECT or REFRESH that holds App.writer, or Nobody
    cache,                  \* App.materialized
    requests,               \* the state of every request
    refreshed               \* history: by cache key, the rows the last completed
                            \* REFRESH saw that was to cover it

databaseVars == <<data, schema_version>>
cacheVars == <<databaseVars, writer, cache, requests, refreshed>>

State == [data |-> data, schema_version |-> schema_version]
Value == [data: Nat, schema_version: Nat, context: Context]

Unused == [stage |-> "unused"]

CacheInit ==
    /\ data = 0 /\ schema_version = 0
    /\ writer = Nobody
    /\ cache = <<>>
    /\ requests = [q \in Request |-> Unused]
    /\ refreshed = <<>>

----------------------------------------------------------------------------
(* A caller's value under a schema version; its rows are those of the      *)
(* snapshot it was computed on.                                            *)
cache_key_unversioned(context, snapshot) == [context |-> context, schema_version |-> 0] \* fault

cache_key(context, snapshot) ==
    [context |-> context, schema_version |-> snapshot.schema_version]

materialize(snapshot, context) ==
    [data |-> snapshot.data, schema_version |-> snapshot.schema_version, context |-> context]

(* prepared: what is cached is served, what is not is computed and cached. *)
PreparedAnew(snapshot, context) ==      \* fault: computed whether cached or not
    [k \in DOMAIN cache \cup {cache_key(context, snapshot)} |->
        IF k = cache_key(context, snapshot) THEN materialize(snapshot, context) ELSE cache[k]]

Prepared(snapshot, context) ==
    [k \in DOMAIN cache \cup {cache_key(context, snapshot)} |->
        IF k \in DOMAIN cache THEN cache[k] ELSE materialize(snapshot, context)]

(* REFRESH: every cached value of the view, of whichever caller, and the   *)
(* refresher's own are computed again on the refresher's snapshot.         *)
RefreshedKeys(snapshot) == DOMAIN cache \cup {cache_key(Admin, snapshot)}

ReplacementsOwn(snapshot) ==            \* fault: other callers keep what they have
    [k \in RefreshedKeys(snapshot) |->
        IF k = cache_key(Admin, snapshot) THEN materialize(snapshot, Admin) ELSE cache[k]]

Replacements(snapshot) ==
    [k \in RefreshedKeys(snapshot) |->
        IF k \in DOMAIN cache THEN materialize(snapshot, cache[k].context)
                              ELSE materialize(snapshot, Admin)]

----------------------------------------------------------------------------
Precedes(a, b) == a.data =< b.data /\ a.schema_version =< b.schema_version

(* The handler's lock guard goes with it.                                  *)
Release(q) == writer' = IF writer = q THEN Nobody ELSE writer

(* table: a read without the writer lock, up to the cache lock.            *)
BeginRead(q, context) ==
    /\ requests[q] = Unused
    /\ requests' = [requests EXCEPT ![q] =
                      [stage |-> "reading", context |-> context, snapshot |-> State,
                       since |-> refreshed]]
    /\ UNCHANGED <<databaseVars, writer, cache, refreshed>>

(* The cache lock is held from here to the answer.                         *)
Serve(q) ==
    LET r == requests[q]
    IN  /\ r.stage = "reading"
        /\ cache' = Prepared(r.snapshot, r.context)
        /\ requests' = [requests EXCEPT ![q] =
                          [stage |-> "served", context |-> r.context, snapshot |-> r.snapshot,
                           since |-> r.since, value |-> cache'[cache_key(r.context, r.snapshot)]]]
        /\ Release(q)
        /\ UNCHANGED <<databaseVars, refreshed>>

(* sql: an administrator's SELECT or REFRESH, under the writer lock.       *)
BeginSelect(q) ==
    /\ requests[q] = Unused
    /\ writer = Nobody
    /\ writer' = q
    /\ requests' = [requests EXCEPT ![q] =
                      [stage |-> "reading", context |-> Admin, snapshot |-> State,
                       since |-> refreshed]]
    /\ UNCHANGED <<databaseVars, cache, refreshed>>

BeginRefresh(q) ==
    /\ requests[q] = Unused
    /\ writer = Nobody
    /\ writer' = q
    /\ requests' = [requests EXCEPT ![q] = [stage |-> "refreshing", snapshot |-> State]]
    /\ UNCHANGED <<databaseVars, cache, refreshed>>

Refresh(q) ==
    /\ requests[q].stage = "refreshing"
    /\ cache' = Replacements(requests[q].snapshot)
    /\ refreshed' = [k \in RefreshedKeys(requests[q].snapshot) |-> requests[q].snapshot.data]
    /\ requests' = [requests EXCEPT ![q] = [stage |-> "refreshed", snapshot |-> @.snapshot]]
    /\ Release(q)
    /\ UNCHANGED databaseVars

(* Commits of rows and of the schema.  They come from this gateway's       *)
(* handlers, but also from other gateways, owners and developers, and from *)
(* transactions whose handler is gone and has given the lock back: none of *)
(* these waits for App.writer.                                             *)
WriteRows ==
    /\ data < MaxData
    /\ data' = data + 1
    /\ UNCHANGED <<schema_version, writer, cache, requests, refreshed>>

ChangeSchema ==
    /\ schema_version < MaxSchema
    /\ schema_version' = schema_version + 1
    /\ UNCHANGED <<data, writer, cache, requests, refreshed>>

(* The client of a request hangs up before the cache lock is his.          *)
Disconnect(q) ==
    /\ requests[q].stage \in {"reading", "refreshing"}
    /\ requests' = [requests EXCEPT ![q] = [stage |-> "lost"]]
    /\ Release(q)
    /\ UNCHANGED <<databaseVars, cache, refreshed>>

CacheNext ==
    \/ \E q \in Request :
        \/ \E context \in Context : BeginRead(q, context)
        \/ Serve(q)
        \/ BeginSelect(q)
        \/ BeginRefresh(q)
        \/ Refresh(q)
        \/ Disconnect(q)
    \/ WriteRows
    \/ ChangeSchema

CacheSpec == CacheInit /\ [][CacheNext]_cacheVars

----------------------------------------------------------------------------
(* The claim of cache_key's comment: a value does not outlive what         *)
(* authorized it, so that nobody is served rows that were computed under a *)
(* schema, and so under policies, older than those of his own snapshot.    *)
(* The code breaks it: a REFRESH that a change of the schema overtakes     *)
(* computes newer callers' values again on its own, older snapshot.        *)
ServedWithinAuthority ==
    \A q \in Request :
        requests[q].stage = "served" =>
            requests[q].value.schema_version >= requests[q].snapshot.schema_version

(* What holds of it: everyone is served what was computed for him, and if  *)
(* that was under an older schema than his, then on the snapshot of a      *)
(* completed REFRESH.  Slow readers do no harm (cache_key, prepared).      *)
SameState(v, s) == v.data = s.data /\ v.schema_version = s.schema_version

OutlivedOnlyByRefresh ==
    \A q \in Request :
        LET r == requests[q]
        IN  r.stage = "served" =>
              /\ r.value.context = r.context
              /\ r.value.schema_version < r.snapshot.schema_version =>
                    \E p \in Request :
                        requests[p].stage = "refreshed" /\ SameState(r.value, requests[p].snapshot)

(* Cached values move forward: a slow reader never replaces one, and the   *)
(* only step that puts an older value in its place is that of a REFRESH    *)
(* overtaken by a commit, which even then does not fall behind what an     *)
(* earlier REFRESH saw (prepared, REFRESH).                                *)
Overtaken(q) == requests[q].stage = "refreshing" /\ requests[q].snapshot # State

OnlyOvertakenRefreshGoesBack ==
    [][\A k \in DOMAIN cache :
          /\ k \in DOMAIN cache'
          /\ \/ Precedes(cache[k], cache'[k])
             \/ \E q \in Request : Overtaken(q) /\ SameState(cache'[k], requests[q].snapshot)
          /\ k \in DOMAIN refreshed => cache'[k].data >= refreshed[k]]_cacheVars

(* A REFRESH reaches what every caller has cached: a read that begins      *)
(* after it, under a key that was cached then or is the administrator's,   *)
(* is served rows at least as new as REFRESH saw (REFRESH in execute).  A  *)
(* key that nobody had cached is left out: a reader with an older snapshot *)
(* may fill it afterwards.                                                 *)
RefreshReachesTheCache ==
    \A q \in Request :
        LET r == requests[q]
            k == cache_key(r.context, r.snapshot)
        IN  r.stage = "served" /\ k \in DOMAIN r.since => r.value.data >= r.since[k]
=============================================================================
