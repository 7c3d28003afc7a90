--------------------------- MODULE EndpointProofs ---------------------------
(* Two services of the gateway beside the writing of rows, each for any    *)
(* number of requests and without the bounds of the runs: materialized     *)
(* values, for any callers and writes, and pushes of migrations, for any   *)
(* pushers, gateways, files and repetitions.                               *)
EXTENDS MaterializedCache, Migrations, TLAPS

Snapshot == [data: Nat, schema_version: Nat]

(* What a request may look like, and how far its snapshot is behind.       *)
RequestOK(r, state) ==
    \/ r.stage \in {"unused", "lost"}
    \/ /\ r.stage \in {"reading", "served"}
       /\ r.context \in Context
       /\ r.snapshot \in Snapshot
       /\ Precedes(r.snapshot, state)
       /\ r.stage = "served" => r.value \in Value /\ r.value.context = r.context
    \/ /\ r.stage \in {"refreshing", "refreshed"}
       /\ r.snapshot \in Snapshot
       /\ Precedes(r.snapshot, state)

Key == [context: Context, schema_version: Nat]

(* A cached value was computed for the caller of its key, on a state no    *)
(* later than the database's.                                              *)
EntryOK(k, v, state) ==
    /\ k \in Key
    /\ v \in Value
    /\ v.context = k.context
    /\ k.schema_version =< state.schema_version
    /\ Precedes(v, state)

(* The inductive invariant's first part: types, and that who refreshes     *)
(* holds the writer lock.  Commits happen all the same.                    *)
CacheInvariant ==
    /\ data \in Nat /\ schema_version \in Nat
    /\ DOMAIN requests = Request
    /\ \A q \in Request : RequestOK(requests[q], State)
    /\ \A q \in Request : requests[q].stage = "refreshing" => writer = q
    /\ \A k \in DOMAIN cache : EntryOK(k, cache[k], State)
    /\ requests = [q \in Request |-> requests[q]]
    /\ cache = [k \in DOMAIN cache |-> cache[k]]

LEMMA InvariantInit == CacheInit => CacheInvariant
  BY DEF CacheInit, CacheInvariant, RequestOK, Unused

(* prepared keeps every entry sound and finds one for its caller.          *)
LEMMA PreparedOK ==
  ASSUME NEW snapshot \in Snapshot, NEW context \in Context, CacheInvariant,
         Precedes(snapshot, State)
  PROVE  /\ \A k \in DOMAIN Prepared(snapshot, context) :
               EntryOK(k, Prepared(snapshot, context)[k], State)
         /\ cache_key(context, snapshot) \in DOMAIN Prepared(snapshot, context)
         /\ \A k \in DOMAIN cache : /\ k \in DOMAIN Prepared(snapshot, context)
                                    /\ Prepared(snapshot, context)[k] = cache[k]
         /\ Prepared(snapshot, context) = [k \in DOMAIN Prepared(snapshot, context) |->
                                              Prepared(snapshot, context)[k]]
  <1>1. EntryOK(cache_key(context, snapshot), materialize(snapshot, context), State)
    BY DEF EntryOK, cache_key, materialize, Key, Value, Snapshot, Precedes, State
  <1> QED BY <1>1 DEF Prepared, CacheInvariant

(* A swap leaves sound entries, for the callers they had, all of them on   *)
(* the refresher's snapshot.                                               *)
LEMMA ReplacementsOK ==
  ASSUME CacheAssumption, CacheInvariant, NEW s \in Snapshot, Precedes(s, State)
  PROVE  /\ \A k \in DOMAIN Replacements(s) :
              EntryOK(k, Replacements(s)[k], State) /\ SameState(Replacements(s)[k], s)
         /\ \A k \in DOMAIN cache : k \in DOMAIN Replacements(s)
         /\ DOMAIN Replacements(s) = RefreshedKeys(s)
         /\ Replacements(s) = [k \in DOMAIN Replacements(s) |-> Replacements(s)[k]]
  <1>1. EntryOK(cache_key(Admin, s), materialize(s, Admin), State)
    BY DEF EntryOK, cache_key, materialize, Key, Value, Precedes, State, Snapshot,
           CacheInvariant, CacheAssumption
  <1>2. ASSUME NEW k \in DOMAIN cache
        PROVE  EntryOK(k, materialize(s, cache[k].context), State)
    <2>1. EntryOK(k, cache[k], State)
      BY DEF CacheInvariant
    <2> QED BY <2>1 DEF EntryOK, materialize, Key, Value, Precedes, State, Snapshot
  <1>3. \A context : SameState(materialize(s, context), s)
    BY DEF SameState, materialize
  <1> QED BY <1>1, <1>2, <1>3 DEF Replacements, RefreshedKeys

(* An action that changes one request and leaves database and cache alone. *)
LEMMA OneRequest ==
  ASSUME CacheInvariant,
         UNCHANGED <<databaseVars, cache>>,
         NEW q \in Request, NEW r,
         requests' = [requests EXCEPT ![q] = r],
         RequestOK(r, State),
         r.stage = "refreshing" => writer' = q,
         \A p \in Request \ {q} : requests[p].stage = "refreshing" => writer' = p
  PROVE  CacheInvariant'
  <1>1. \A p \in Request : RequestOK(requests'[p], State)
    BY DEF CacheInvariant
  <1>2. \A p \in Request : RequestOK(requests'[p], State')
    BY <1>1 DEF databaseVars, State
  <1>3. \A k \in DOMAIN cache : EntryOK(k, cache[k], State)'
    BY DEF CacheInvariant, databaseVars, State
  <1> QED BY <1>2, <1>3 DEF CacheInvariant, databaseVars

(* Only the holder of the lock refreshes.                                  *)
LEMMA RefreshersHold ==
  ASSUME CacheInvariant, NEW q \in Request, requests[q].stage # "refreshing"
  PROVE  \A p \in Request : requests[p].stage = "refreshing" => p # q /\ writer = p
  BY DEF CacheInvariant

(* Time passes: the database moves, whoever holds the writer lock.         *)
LEMMA DatabaseMoves ==
  ASSUME CacheInvariant,
         data' \in Nat, schema_version' \in Nat,
         data =< data', schema_version =< schema_version',
         UNCHANGED <<writer, cache, requests>>
  PROVE  CacheInvariant'
  <1>1. ASSUME NEW q \in Request PROVE RequestOK(requests[q], State)'
    BY DEF CacheInvariant, RequestOK, Precedes, State, Snapshot
  <1>2. \A k \in DOMAIN cache : EntryOK(k, cache[k], State)'
    BY DEF CacheInvariant, EntryOK, Precedes, State, Key, Value
  <1> QED BY <1>1, <1>2 DEF CacheInvariant

LEMMA ServeStep ==
  ASSUME CacheAssumption, CacheInvariant, NEW q \in Request, Serve(q)
  PROVE  /\ CacheInvariant'
         /\ \A k \in DOMAIN cache : k \in DOMAIN cache' /\ cache'[k] = cache[k]
  <1> DEFINE r == requests[q]
             next == [stage |-> "served", context |-> r.context, snapshot |-> r.snapshot,
                      since |-> r.since, value |-> cache'[cache_key(r.context, r.snapshot)]]
  <1>1. /\ r.stage = "reading" /\ r.context \in Context /\ r.snapshot \in Snapshot
        /\ Precedes(r.snapshot, State)
    BY DEF Serve, CacheInvariant, RequestOK
  <1>2. cache' = Prepared(r.snapshot, r.context)
    BY DEF Serve
  <1>3. /\ \A k \in DOMAIN cache' : EntryOK(k, cache'[k], State)
        /\ cache_key(r.context, r.snapshot) \in DOMAIN cache'
        /\ \A k \in DOMAIN cache : k \in DOMAIN cache' /\ cache'[k] = cache[k]
        /\ cache' = [k \in DOMAIN cache' |-> cache'[k]]
    BY <1>1, <1>2, PreparedOK
  <1>4. UNCHANGED databaseVars
    BY DEF Serve
  <1>5. requests' = [requests EXCEPT ![q] = next]
    BY DEF Serve
  <1>6. RequestOK(next, State)
    BY <1>1, <1>3 DEF RequestOK, EntryOK, cache_key
  <1>7. \A p \in Request : RequestOK(requests'[p], State)
    BY <1>5, <1>6 DEF CacheInvariant
  <1>8. \A p \in Request : RequestOK(requests'[p], State')
    BY <1>7, <1>4 DEF databaseVars, State
  <1>9. \A k \in DOMAIN cache' : EntryOK(k, cache'[k], State')
    BY <1>3, <1>4 DEF databaseVars, State
  <1>10. \A p \in Request : requests'[p].stage = "refreshing" => writer' = p
    <2>1. \A p \in Request : requests[p].stage = "refreshing" => p # q /\ writer = p
      BY <1>1, RefreshersHold
    <2> QED BY <2>1, <1>5 DEF CacheInvariant, Serve, Release
  <1> HIDE DEF next
  <1> QED BY <1>3, <1>4, <1>5, <1>8, <1>9, <1>10 DEF CacheInvariant, databaseVars

LEMMA RefreshStep ==
  ASSUME CacheAssumption, CacheInvariant, NEW q \in Request, Refresh(q)
  PROVE  /\ CacheInvariant'
         /\ \A k \in DOMAIN cache : k \in DOMAIN cache'
         /\ DOMAIN cache' = RefreshedKeys(requests[q].snapshot)
         /\ \A k \in DOMAIN cache' : SameState(cache'[k], requests[q].snapshot)
  <1> DEFINE s == requests[q].snapshot
             r == [stage |-> "refreshed", snapshot |-> s]
  <1>1. requests[q].stage = "refreshing" /\ s \in Snapshot /\ Precedes(s, State)
    BY DEF Refresh, CacheInvariant, RequestOK
  <1>2. /\ \A k \in DOMAIN cache' : EntryOK(k, cache'[k], State) /\ SameState(cache'[k], s)
        /\ \A k \in DOMAIN cache : k \in DOMAIN cache'
        /\ DOMAIN cache' = RefreshedKeys(s)
        /\ cache' = [k \in DOMAIN cache' |-> cache'[k]]
    BY <1>1, ReplacementsOK DEF Refresh
  <1>3. UNCHANGED databaseVars /\ requests' = [requests EXCEPT ![q] = r]
    BY DEF Refresh
  <1>4. RequestOK(r, State)
    BY <1>1 DEF RequestOK
  <1>5. r.stage # "refreshing"
    OBVIOUS
  <1> HIDE DEF r
  <1>6. \A p \in Request : RequestOK(requests'[p], State)
    BY <1>3, <1>4 DEF CacheInvariant
  <1>7. \A p \in Request : RequestOK(requests'[p], State')
    BY <1>6, <1>3 DEF databaseVars, State
  <1>8. \A k \in DOMAIN cache' : EntryOK(k, cache'[k], State')
    BY <1>2, <1>3 DEF databaseVars, State
  <1>9. \A p \in Request : requests'[p].stage = "refreshing" => writer' = p
    BY <1>1, <1>3, <1>5 DEF CacheInvariant
  <1>10. requests' = [p \in Request |-> requests'[p]] /\ DOMAIN requests' = Request
    BY <1>3 DEF CacheInvariant
  <1> QED BY <1>2, <1>3, <1>7, <1>8, <1>9, <1>10 DEF CacheInvariant, databaseVars

(* The other actions leave the cache alone.                                *)
LEMMA QuietStep ==
  ASSUME CacheAssumption, CacheInvariant,
         \/ WriteRows \/ ChangeSchema
         \/ \E q \in Request : \/ \E context \in Context : BeginRead(q, context)
                                \/ BeginSelect(q) \/ BeginRefresh(q) \/ Disconnect(q)
  PROVE  CacheInvariant' /\ UNCHANGED cache
  <1>1. CASE WriteRows
    BY <1>1, DatabaseMoves DEF WriteRows, CacheInvariant
  <1>2. CASE ChangeSchema
    BY <1>2, DatabaseMoves DEF ChangeSchema, CacheInvariant
  <1>3. ASSUME NEW q \in Request, NEW context \in Context, BeginRead(q, context)
        PROVE  CacheInvariant' /\ UNCHANGED cache
    <2> DEFINE r == [stage |-> "reading", context |-> context, snapshot |-> State,
                     since |-> refreshed]
    <2>1. RequestOK(r, State)
      BY DEF RequestOK, Snapshot, Precedes, State, CacheInvariant
    <2>2. /\ requests' = [requests EXCEPT ![q] = r]
          /\ UNCHANGED <<databaseVars, cache>> /\ writer' = writer
          /\ r.stage # "refreshing"
      BY <1>3 DEF BeginRead
    <2>3. \A p \in Request \ {q} : requests[p].stage = "refreshing" => writer' = p
      BY <2>2 DEF CacheInvariant
    <2> HIDE DEF r
    <2> QED BY <2>1, <2>2, <2>3, OneRequest
  <1>4. ASSUME NEW q \in Request, BeginSelect(q)
        PROVE  CacheInvariant' /\ UNCHANGED cache
    <2> DEFINE r == [stage |-> "reading", context |-> Admin, snapshot |-> State,
                     since |-> refreshed]
    <2>1. RequestOK(r, State)
      BY DEF RequestOK, Snapshot, Precedes, State, CacheInvariant, CacheAssumption
    <2>2. /\ requests' = [requests EXCEPT ![q] = r]
          /\ UNCHANGED <<databaseVars, cache>> /\ writer = Nobody
          /\ r.stage # "refreshing"
      BY <1>4 DEF BeginSelect
    <2>3. \A p \in Request \ {q} : requests[p].stage # "refreshing"
      BY <2>2 DEF CacheInvariant, CacheAssumption
    <2> HIDE DEF r
    <2> QED BY <2>1, <2>2, <2>3, OneRequest
  <1>5. ASSUME NEW q \in Request, BeginRefresh(q)
        PROVE  CacheInvariant' /\ UNCHANGED cache
    <2> DEFINE r == [stage |-> "refreshing", snapshot |-> State]
    <2>1. RequestOK(r, State)
      BY DEF RequestOK, Snapshot, Precedes, State, CacheInvariant
    <2>2. /\ requests' = [requests EXCEPT ![q] = r]
          /\ UNCHANGED <<databaseVars, cache>> /\ writer = Nobody /\ writer' = q
      BY <1>5 DEF BeginRefresh
    <2>3. \A p \in Request \ {q} : requests[p].stage # "refreshing"
      BY <2>2 DEF CacheInvariant, CacheAssumption
    <2> HIDE DEF r
    <2> QED BY <2>1, <2>2, <2>3, OneRequest
  <1>6. ASSUME NEW q \in Request, Disconnect(q)
        PROVE  CacheInvariant' /\ UNCHANGED cache
    <2> DEFINE r == [stage |-> "lost"]
    <2>1. RequestOK(r, State) /\ r.stage # "refreshing"
      BY DEF RequestOK
    <2>2. /\ requests' = [requests EXCEPT ![q] = r]
          /\ UNCHANGED <<databaseVars, cache>>
      BY <1>6 DEF Disconnect
    <2>3. \A p \in Request \ {q} : requests[p].stage = "refreshing" => writer' = p
      BY <1>6 DEF CacheInvariant, Disconnect, Release
    <2> HIDE DEF r
    <2> QED BY <2>1, <2>2, <2>3, OneRequest
  <1> QED BY <1>1, <1>2, <1>3, <1>4, <1>5, <1>6

LEMMA InvariantStep ==
  ASSUME CacheAssumption, CacheInvariant, [CacheNext]_cacheVars
  PROVE  CacheInvariant'
  <1>1. CASE UNCHANGED cacheVars
    BY <1>1 DEF CacheInvariant, cacheVars, databaseVars, RequestOK, EntryOK, State
  <1>2. ASSUME NEW q \in Request, Serve(q) PROVE CacheInvariant'
    BY <1>2, ServeStep
  <1>3. ASSUME NEW q \in Request, Refresh(q) PROVE CacheInvariant'
    BY <1>3, RefreshStep
  <1>4. CASE \/ WriteRows \/ ChangeSchema
             \/ \E q \in Request : \/ \E context \in Context : BeginRead(q, context)
                                    \/ BeginSelect(q) \/ BeginRefresh(q) \/ Disconnect(q)
    BY <1>4, QuietStep
  <1> QED BY <1>1, <1>2, <1>3, <1>4 DEF CacheNext

THEOREM CacheInvariantHolds == ASSUME CacheAssumption PROVE CacheSpec => []CacheInvariant
  <1>1. CacheInvariant /\ [CacheNext]_cacheVars => CacheInvariant'
    BY InvariantStep
  <1> QED BY <1>1, InvariantInit, PTL DEF CacheSpec

----------------------------------------------------------------------------
(* A value older than its key is one that a REFRESH put there, on its own  *)
(* snapshot; no other step can make one.                                   *)
FromRefresh(v, rs) ==
    \E p \in Request : rs[p].stage = "refreshed" /\ SameState(v, rs[p].snapshot)

WithinOrFromRefresh(v, version, rs) == v.schema_version >= version \/ FromRefresh(v, rs)

ServedExplained(r, rs) ==
    r.stage = "served" => WithinOrFromRefresh(r.value, r.snapshot.schema_version, rs)

Explained ==
    /\ \A k \in DOMAIN cache : WithinOrFromRefresh(cache[k], k.schema_version, requests)
    /\ \A q \in Request : ServedExplained(requests[q], requests)

(* A request that has refreshed stays as it is.                            *)
LEMMA RefreshedStays ==
  ASSUME CacheInvariant, [CacheNext]_cacheVars,
         NEW p \in Request, requests[p].stage = "refreshed"
  PROVE  requests'[p] = requests[p]
  <1>1. CASE UNCHANGED cacheVars \/ WriteRows \/ ChangeSchema
    BY <1>1 DEF cacheVars, WriteRows, ChangeSchema
  <1>2. ASSUME NEW q \in Request,
               \/ \E context \in Context : BeginRead(q, context)
               \/ Serve(q) \/ BeginSelect(q) \/ BeginRefresh(q) \/ Refresh(q) \/ Disconnect(q)
        PROVE  requests'[p] = requests[p]
    <2>1. /\ requests[q].stage \in {"unused", "reading", "refreshing"}
          /\ \E r : requests' = [requests EXCEPT ![q] = r]
      BY <1>2 DEF BeginRead, Serve, BeginSelect, BeginRefresh, Refresh, Disconnect, Unused
    <2>2. p # q
      BY <2>1
    <2> QED BY <2>1, <2>2 DEF CacheInvariant
  <1> QED BY <1>1, <1>2 DEF CacheNext

LEMMA ExplanationStays ==
  ASSUME CacheInvariant, [CacheNext]_cacheVars, NEW v, NEW version,
         WithinOrFromRefresh(v, version, requests)
  PROVE  WithinOrFromRefresh(v, version, requests')
  BY RefreshedStays DEF WithinOrFromRefresh, FromRefresh

LEMMA ExplainedStep ==
  ASSUME CacheAssumption, CacheInvariant, Explained, [CacheNext]_cacheVars
  PROVE  Explained'
  <1>1. \A k \in DOMAIN cache : WithinOrFromRefresh(cache[k], k.schema_version, requests')
    BY ExplanationStays DEF Explained
  <1>2. \A q \in Request : ServedExplained(requests[q], requests')
    BY ExplanationStays DEF Explained, ServedExplained
  <1>3. ASSUME NEW q \in Request, Serve(q) PROVE Explained'
    <2> DEFINE r == requests[q]
               k == cache_key(r.context, r.snapshot)
               a == [stage |-> "served", context |-> r.context, snapshot |-> r.snapshot,
                     since |-> r.since, value |-> cache'[k]]
    <2>1. /\ cache' = Prepared(r.snapshot, r.context)
          /\ requests' = [requests EXCEPT ![q] = a]
      BY <1>3 DEF Serve
    <2>2. r.snapshot \in Snapshot
      BY <1>3 DEF Serve, CacheInvariant, RequestOK
    <2>3. WithinOrFromRefresh(materialize(r.snapshot, r.context), k.schema_version, requests')
      BY <2>2 DEF WithinOrFromRefresh, materialize, cache_key, Snapshot
    <2>4. \A j \in DOMAIN cache' : WithinOrFromRefresh(cache'[j], j.schema_version, requests')
      <3> SUFFICES ASSUME NEW j \in DOMAIN cache'
                   PROVE  WithinOrFromRefresh(cache'[j], j.schema_version, requests')
        OBVIOUS
      <3>1. j \in DOMAIN cache \cup {k}
            /\ cache'[j] = IF j \in DOMAIN cache THEN cache[j]
                                                 ELSE materialize(r.snapshot, r.context)
        BY <2>1 DEF Prepared
      <3> QED BY <1>1, <2>3, <3>1
    <2>5. k \in DOMAIN cache'
      BY <2>1 DEF Prepared
    <2>6. ServedExplained(a, requests')
      BY <2>4, <2>5 DEF ServedExplained, cache_key
    <2>7. \A p \in Request : ServedExplained(requests'[p], requests')
      <3> HIDE DEF a
      <3> QED BY <1>2, <2>1, <2>6 DEF CacheInvariant
    <2> QED BY <2>4, <2>7 DEF Explained
  <1>4. ASSUME NEW q \in Request, Refresh(q) PROVE Explained'
    <2>1. requests' = [requests EXCEPT ![q] =
                         [stage |-> "refreshed", snapshot |-> requests[q].snapshot]]
      BY <1>4 DEF Refresh
    <2>2. requests'[q] = [stage |-> "refreshed", snapshot |-> requests[q].snapshot]
      BY <2>1 DEF CacheInvariant
    <2>3. \A k \in DOMAIN cache' : SameState(cache'[k], requests'[q].snapshot)
      BY <1>4, <2>2, RefreshStep
    <2>4. \A k \in DOMAIN cache' : FromRefresh(cache'[k], requests')
      BY <2>2, <2>3 DEF FromRefresh
    <2>5. \A p \in Request : ServedExplained(requests'[p], requests')
      BY <1>2, <2>1, <2>2 DEF CacheInvariant, ServedExplained
    <2> QED BY <2>4, <2>5 DEF Explained, WithinOrFromRefresh
  <1>5. CASE UNCHANGED cacheVars \/ WriteRows \/ ChangeSchema
    <2>1. cache' = cache /\ requests' = requests
      BY <1>5 DEF cacheVars, WriteRows, ChangeSchema
    <2> QED BY <2>1 DEF Explained
  <1>6. ASSUME NEW q \in Request,
               \/ \E context \in Context : BeginRead(q, context)
               \/ BeginSelect(q) \/ BeginRefresh(q) \/ Disconnect(q)
        PROVE  Explained'
    <2>1. /\ cache' = cache
          /\ \E r : r.stage # "served" /\ requests' = [requests EXCEPT ![q] = r]
      BY <1>6 DEF BeginRead, BeginSelect, BeginRefresh, Disconnect
    <2>2. \A p \in Request : ServedExplained(requests'[p], requests')
      BY <1>2, <2>1 DEF CacheInvariant, ServedExplained
    <2> QED BY <1>1, <2>1, <2>2 DEF Explained
  <1> QED BY <1>3, <1>4, <1>5, <1>6 DEF CacheNext

(* Nobody is served a value of another caller, and one of an older schema  *)
(* than his own only if a completed REFRESH had that snapshot, for any     *)
(* number of readers, refreshers and commits.                              *)
THEOREM Authorization ==
  ASSUME CacheAssumption PROVE CacheSpec => []OutlivedOnlyByRefresh
  <1>1. CacheInit => Explained
    BY DEF CacheInit, Explained, ServedExplained, Unused
  <1>2. CacheInvariant /\ Explained /\ [CacheNext]_cacheVars => Explained'
    BY ExplainedStep
  <1>3. CacheInvariant /\ Explained => OutlivedOnlyByRefresh
    <2> SUFFICES ASSUME CacheInvariant, Explained, NEW q \in Request,
                        requests[q].stage = "served"
                 PROVE  /\ requests[q].value.context = requests[q].context
                        /\ requests[q].value.schema_version < requests[q].snapshot.schema_version
                              => FromRefresh(requests[q].value, requests)
      BY DEF OutlivedOnlyByRefresh, FromRefresh
    <2>1. /\ requests[q].snapshot \in Snapshot /\ requests[q].value \in Value
          /\ requests[q].value.context = requests[q].context
      BY DEF CacheInvariant, RequestOK
    <2>2. WithinOrFromRefresh(requests[q].value, requests[q].snapshot.schema_version, requests)
      BY DEF Explained, ServedExplained
    <2> QED BY <2>1, <2>2 DEF WithinOrFromRefresh, Snapshot, Value
  <1> QED BY <1>1, <1>2, <1>3, CacheInvariantHolds, PTL DEF CacheSpec

----------------------------------------------------------------------------
(* What REFRESH has covered is cached, with rows at least as new, and the  *)
(* coverage a reader found when it began has only grown since; for one     *)
(* REFRESH begins after the other has ended, on a later snapshot.          *)
CoveredOK(covered, c) ==
    \A k \in DOMAIN covered : k \in DOMAIN c /\ covered[k] \in Nat /\ c[k].data >= covered[k]

SinceOK(r, covered) ==
    /\ r.stage = "reading" =>
          \A k \in DOMAIN r.since :
              k \in DOMAIN covered /\ r.since[k] \in Nat /\ r.since[k] =< covered[k]
    /\ r.stage = "served" =>
          LET k == cache_key(r.context, r.snapshot)
          IN  k \in DOMAIN r.since => r.value.data >= r.since[k]

RefreshInvariant ==
    /\ CoveredOK(refreshed, cache)
    /\ \A q \in Request : SinceOK(requests[q], refreshed)

Ahead(r, covered) ==
    r.stage = "refreshing" => \A k \in DOMAIN covered : covered[k] =< r.snapshot.data

RefreshesInOrder == \A q \in Request : Ahead(requests[q], refreshed)

(* A request changes, and coverage at most grows.                          *)
LEMMA OneReader ==
  ASSUME CacheInvariant, RefreshInvariant, NEW q \in Request, NEW r,
         requests' = [requests EXCEPT ![q] = r],
         CoveredOK(refreshed', cache'),
         \A k \in DOMAIN refreshed : k \in DOMAIN refreshed' /\ refreshed[k] =< refreshed'[k],
         SinceOK(r, refreshed')
  PROVE  RefreshInvariant'
  <1>1. ASSUME NEW p \in Request PROVE SinceOK(requests'[p], refreshed')
    <2>1. CASE p = q
      BY <2>1 DEF CacheInvariant
    <2>2. CASE p # q
      <3>1. requests'[p] = requests[p] /\ SinceOK(requests[p], refreshed)
        BY <2>2 DEF CacheInvariant, RefreshInvariant
      <3>2. ASSUME NEW k \in DOMAIN requests[p].since, requests[p].stage = "reading"
            PROVE  /\ k \in DOMAIN refreshed' /\ requests[p].since[k] \in Nat
                   /\ requests[p].since[k] =< refreshed'[k]
        <4>1. /\ k \in DOMAIN refreshed /\ requests[p].since[k] \in Nat
              /\ requests[p].since[k] =< refreshed[k]
          BY <3>1, <3>2 DEF SinceOK
        <4>2. /\ k \in DOMAIN refreshed' /\ refreshed[k] =< refreshed'[k]
              /\ refreshed[k] \in Nat /\ refreshed'[k] \in Nat
          BY <4>1 DEF RefreshInvariant, CoveredOK
        <4> QED BY <4>1, <4>2
      <3> QED BY <3>1, <3>2 DEF SinceOK
    <2> QED BY <2>1, <2>2
  <1> QED BY <1>1 DEF RefreshInvariant, CoveredOK, SinceOK, cache_key

LEMMA RefreshServeStep ==
  ASSUME CacheAssumption, CacheInvariant, RefreshInvariant, NEW q \in Request, Serve(q)
  PROVE  RefreshInvariant'
  <1> DEFINE r == requests[q]
             k == cache_key(r.context, r.snapshot)
             a == [stage |-> "served", context |-> r.context, snapshot |-> r.snapshot,
                   since |-> r.since, value |-> cache'[k]]
  <1>1. /\ r.stage = "reading" /\ cache' = Prepared(r.snapshot, r.context)
        /\ requests' = [requests EXCEPT ![q] = a] /\ refreshed' = refreshed
    BY DEF Serve
  <1>2. /\ r.context \in Context /\ r.snapshot \in Snapshot /\ Precedes(r.snapshot, State)
    BY <1>1 DEF CacheInvariant, RequestOK
  <1>3. \A j \in DOMAIN cache : j \in DOMAIN cache' /\ cache'[j] = cache[j]
    BY <1>1, <1>2, PreparedOK
  <1>4. CoveredOK(refreshed', cache')
    BY <1>1, <1>3 DEF RefreshInvariant, CoveredOK
  <1>5. SinceOK(a, refreshed')
    <2> SUFFICES ASSUME k \in DOMAIN r.since PROVE cache'[k].data >= r.since[k]
      BY DEF SinceOK
    <2>1. k \in DOMAIN refreshed /\ r.since[k] \in Nat /\ r.since[k] =< refreshed[k]
      BY <1>1 DEF RefreshInvariant, SinceOK
    <2>2. k \in DOMAIN cache /\ refreshed[k] \in Nat /\ cache[k].data >= refreshed[k]
      BY <2>1 DEF RefreshInvariant, CoveredOK
    <2>3. cache[k].data \in Nat
      BY <2>2 DEF CacheInvariant, EntryOK, Value
    <2> QED BY <1>3, <2>1, <2>2, <2>3
  <1>6. \A j \in DOMAIN refreshed : j \in DOMAIN refreshed' /\ refreshed[j] =< refreshed'[j]
    BY <1>1 DEF RefreshInvariant, CoveredOK
  <1> HIDE DEF a
  <1> QED BY <1>1, <1>4, <1>5, <1>6, OneReader

LEMMA RefreshRefreshStep ==
  ASSUME CacheAssumption, CacheInvariant, RefreshInvariant, RefreshesInOrder,
         NEW q \in Request, Refresh(q)
  PROVE  /\ RefreshInvariant'
         /\ \A k \in DOMAIN refreshed : k \in DOMAIN cache' /\ cache'[k].data >= refreshed[k]
  <1> DEFINE s == requests[q].snapshot
             r == [stage |-> "refreshed", snapshot |-> s]
  <1>1. s \in Snapshot
    BY DEF Refresh, CacheInvariant, RequestOK
  <1>2. /\ refreshed' = [k \in RefreshedKeys(s) |-> s.data]
        /\ requests' = [requests EXCEPT ![q] = r]
    BY DEF Refresh
  <1>3. DOMAIN cache' = RefreshedKeys(s) /\ \A k \in DOMAIN cache' : cache'[k].data = s.data
    BY RefreshStep DEF SameState
  <1>4. CoveredOK(refreshed', cache')
    BY <1>1, <1>2, <1>3 DEF CoveredOK, Snapshot
  <1>5. ASSUME NEW k \in DOMAIN refreshed
        PROVE  k \in DOMAIN refreshed' /\ refreshed[k] =< refreshed'[k] /\ refreshed'[k] = s.data
    <2>1. k \in DOMAIN cache
      BY DEF RefreshInvariant, CoveredOK
    <2>2. refreshed[k] =< s.data
      BY DEF RefreshesInOrder, Ahead, Refresh
    <2> QED BY <1>2, <2>1, <2>2 DEF RefreshedKeys
  <1>6. SinceOK(r, refreshed')
    BY DEF SinceOK
  <1>7. \A k \in DOMAIN refreshed : k \in DOMAIN cache' /\ cache'[k].data >= refreshed[k]
    <2> SUFFICES ASSUME NEW k \in DOMAIN refreshed
                 PROVE  k \in DOMAIN cache' /\ cache'[k].data >= refreshed[k]
      OBVIOUS
    <2>1. k \in DOMAIN cache' /\ cache'[k].data = s.data
      BY <1>2, <1>3, <1>5
    <2>2. refreshed[k] \in Nat /\ refreshed[k] =< s.data
      BY <1>5 DEF RefreshInvariant, CoveredOK
    <2> QED BY <1>1, <2>1, <2>2 DEF Snapshot
  <1> HIDE DEF r
  <1>8. RefreshInvariant'
    BY <1>2, <1>4, <1>5, <1>6, OneReader
  <1> QED BY <1>7, <1>8

(* No two REFRESHes are under way together, and one that begins finds      *)
(* itself ahead of all that have ended.                                    *)
LEMMA OrderStep ==
  ASSUME CacheAssumption, CacheInvariant, RefreshInvariant, RefreshesInOrder,
         [CacheNext]_cacheVars
  PROVE  RefreshesInOrder'
  <1>1. CASE UNCHANGED cacheVars \/ WriteRows \/ ChangeSchema
    BY <1>1 DEF cacheVars, WriteRows, ChangeSchema, RefreshesInOrder, Ahead
  <1>2. ASSUME NEW q \in Request, Refresh(q) PROVE RefreshesInOrder'
    <2>1. /\ requests[q].stage = "refreshing"
          /\ requests' = [requests EXCEPT ![q] =
                             [stage |-> "refreshed", snapshot |-> requests[q].snapshot]]
      BY <1>2 DEF Refresh
    <2>2. \A p \in Request : requests'[p].stage # "refreshing"
      BY <2>1 DEF CacheInvariant
    <2> QED BY <2>2 DEF RefreshesInOrder, Ahead
  <1>3. ASSUME NEW q \in Request, BeginRefresh(q) PROVE RefreshesInOrder'
    <2> DEFINE r == [stage |-> "refreshing", snapshot |-> State]
    <2>1. refreshed' = refreshed /\ requests' = [requests EXCEPT ![q] = r]
      BY <1>3 DEF BeginRefresh
    <2>2. ASSUME NEW k \in DOMAIN refreshed PROVE refreshed[k] =< data
      <3>1. k \in DOMAIN cache /\ refreshed[k] \in Nat /\ cache[k].data >= refreshed[k]
        BY DEF RefreshInvariant, CoveredOK
      <3>2. cache[k].data \in Nat /\ cache[k].data =< data
        BY <3>1 DEF CacheInvariant, EntryOK, Value, Precedes, State
      <3> QED BY <3>1, <3>2 DEF CacheInvariant
    <2>3. Ahead(r, refreshed)
      BY <2>2 DEF Ahead, State
    <2> HIDE DEF r
    <2> QED BY <2>1, <2>3 DEF RefreshesInOrder, Ahead, CacheInvariant
  <1>4. ASSUME NEW q \in Request,
               \/ \E context \in Context : BeginRead(q, context)
               \/ Serve(q) \/ BeginSelect(q) \/ Disconnect(q)
        PROVE  RefreshesInOrder'
    <2>1. /\ refreshed' = refreshed
          /\ \E r : r.stage # "refreshing" /\ requests' = [requests EXCEPT ![q] = r]
      BY <1>4 DEF BeginRead, Serve, BeginSelect, Disconnect
    <2> QED BY <2>1 DEF RefreshesInOrder, Ahead, CacheInvariant
  <1> QED BY <1>1, <1>2, <1>3, <1>4 DEF CacheNext

(* The other actions leave the cache and its coverage alone.               *)
LEMMA RefreshQuietStep ==
  ASSUME CacheInvariant, RefreshInvariant,
         \/ UNCHANGED cacheVars \/ WriteRows \/ ChangeSchema
         \/ \E q \in Request : \/ \E context \in Context : BeginRead(q, context)
                                \/ BeginSelect(q) \/ BeginRefresh(q) \/ Disconnect(q)
  PROVE  RefreshInvariant'
  <1>1. UNCHANGED <<cache, refreshed>>
    BY DEF cacheVars, WriteRows, ChangeSchema, BeginRead, BeginSelect, BeginRefresh, Disconnect
  <1>2. CoveredOK(refreshed', cache')
        /\ \A k \in DOMAIN refreshed : k \in DOMAIN refreshed' /\ refreshed[k] =< refreshed'[k]
    BY <1>1 DEF RefreshInvariant, CoveredOK
  <1>3. CASE UNCHANGED cacheVars \/ WriteRows \/ ChangeSchema
    <2>1. requests' = requests
      BY <1>3 DEF cacheVars, WriteRows, ChangeSchema
    <2> QED BY <1>1, <2>1 DEF RefreshInvariant, CoveredOK, SinceOK, cache_key
  <1>4. ASSUME NEW q \in Request, NEW c, NEW s,
               requests' = [requests EXCEPT ![q] =
                    [stage |-> "reading", context |-> c, snapshot |-> s, since |-> refreshed]]
        PROVE  RefreshInvariant'
    <2>1. SinceOK([stage |-> "reading", context |-> c, snapshot |-> s, since |-> refreshed], refreshed')
      BY <1>1, <1>2 DEF SinceOK, RefreshInvariant, CoveredOK
    <2> QED BY <1>2, <1>4, <2>1, OneReader
  <1>5. ASSUME NEW q \in Request, BeginRefresh(q) PROVE RefreshInvariant'
    <2> DEFINE r == [stage |-> "refreshing", snapshot |-> State]
    <2>1. SinceOK(r, refreshed') /\ requests' = [requests EXCEPT ![q] = r]
      BY <1>5 DEF BeginRefresh, SinceOK
    <2> HIDE DEF r
    <2> QED BY <1>2, <2>1, OneReader
  <1>6. ASSUME NEW q \in Request, Disconnect(q) PROVE RefreshInvariant'
    <2> DEFINE r == [stage |-> "lost"]
    <2>1. SinceOK(r, refreshed') /\ requests' = [requests EXCEPT ![q] = r]
      BY <1>6 DEF Disconnect, SinceOK
    <2> HIDE DEF r
    <2> QED BY <1>2, <2>1, OneReader
  <1> QED BY <1>3, <1>4, <1>5, <1>6 DEF BeginRead, BeginSelect

LEMMA CoverageInit == CacheInit => RefreshInvariant /\ RefreshesInOrder
  <1> SUFFICES ASSUME CacheInit PROVE RefreshInvariant /\ RefreshesInOrder
    OBVIOUS
  <1>1. DOMAIN refreshed = {}
    BY DEF CacheInit
  <1>2. \A q \in Request : requests[q].stage = "unused"
    BY DEF CacheInit, Unused
  <1> QED BY <1>1, <1>2 DEF RefreshInvariant, CoveredOK, SinceOK, RefreshesInOrder, Ahead

LEMMA CoverageStep ==
  ASSUME CacheAssumption, CacheInvariant, RefreshInvariant, RefreshesInOrder,
         [CacheNext]_cacheVars
  PROVE  RefreshInvariant'
  <1>1. ASSUME NEW q \in Request, Serve(q) PROVE RefreshInvariant'
    BY <1>1, RefreshServeStep
  <1>2. ASSUME NEW q \in Request, Refresh(q) PROVE RefreshInvariant'
    BY <1>2, RefreshRefreshStep
  <1>3. CASE \/ UNCHANGED cacheVars \/ WriteRows \/ ChangeSchema
             \/ \E q \in Request : \/ \E context \in Context : BeginRead(q, context)
                                    \/ BeginSelect(q) \/ BeginRefresh(q) \/ Disconnect(q)
    BY <1>3, RefreshQuietStep
  <1> QED BY <1>1, <1>2, <1>3 DEF CacheNext

THEOREM CoverageHolds ==
  ASSUME CacheAssumption PROVE CacheSpec => [](RefreshInvariant /\ RefreshesInOrder)
  <1>1. CacheInvariant /\ RefreshInvariant /\ RefreshesInOrder /\ [CacheNext]_cacheVars
          => RefreshInvariant' /\ RefreshesInOrder'
    BY CoverageStep, OrderStep
  <1> QED BY <1>1, CoverageInit, CacheInvariantHolds, PTL DEF CacheSpec

(* A read after a REFRESH, under a key that REFRESH was to cover, is       *)
(* served rows at least as new, for any number of readers, refreshers and  *)
(* commits, and whoever makes them.                                        *)
THEOREM RefreshIsSeen ==
  ASSUME CacheAssumption PROVE CacheSpec => []RefreshReachesTheCache
  <1>1. RefreshInvariant => RefreshReachesTheCache
    BY DEF RefreshInvariant, SinceOK, RefreshReachesTheCache
  <1> QED BY <1>1, CoverageHolds, PTL

(* A cached value is replaced by an older one only by a REFRESH that a     *)
(* commit overtook, and never falls behind an earlier REFRESH.             *)
THEOREM Progress ==
  ASSUME CacheAssumption PROVE CacheSpec => OnlyOvertakenRefreshGoesBack
  <1> DEFINE A == \A k \in DOMAIN cache :
                    /\ k \in DOMAIN cache'
                    /\ \/ Precedes(cache[k], cache'[k])
                       \/ \E q \in Request :
                             Overtaken(q) /\ SameState(cache'[k], requests[q].snapshot)
                    /\ k \in DOMAIN refreshed => cache'[k].data >= refreshed[k]
  <1>1. ASSUME CacheAssumption, CacheInvariant, RefreshInvariant, RefreshesInOrder, CacheNext
        PROVE  A
    <2>1. ASSUME NEW k \in DOMAIN cache, k \in DOMAIN cache', cache'[k] = cache[k]
          PROVE  /\ Precedes(cache[k], cache'[k])
                 /\ k \in DOMAIN refreshed => cache'[k].data >= refreshed[k]
      <3>1. cache[k] \in Value
        BY <1>1 DEF CacheInvariant, EntryOK
      <3>2. k \in DOMAIN refreshed => cache[k].data >= refreshed[k]
        BY <1>1 DEF RefreshInvariant, CoveredOK
      <3> QED BY <2>1, <3>1, <3>2 DEF Precedes, Value
    <2>2. CASE \A k \in DOMAIN cache : k \in DOMAIN cache' /\ cache'[k] = cache[k]
      BY <2>1, <2>2
    <2>3. ASSUME NEW q \in Request, Refresh(q) PROVE A
      <3>1. /\ \A k \in DOMAIN cache : k \in DOMAIN cache'
            /\ \A k \in DOMAIN cache' : SameState(cache'[k], requests[q].snapshot)
        BY <1>1, <2>3, RefreshStep
      <3>2. \A k \in DOMAIN refreshed : cache'[k].data >= refreshed[k]
        BY <1>1, <2>3, RefreshRefreshStep
      <3>3. CASE Overtaken(q)
        BY <3>1, <3>2, <3>3
      <3>4. CASE ~ Overtaken(q)
        <4>1. requests[q].snapshot = State
          BY <2>3, <3>4 DEF Overtaken, Refresh
        <4>2. \A k \in DOMAIN cache : Precedes(cache[k], State)
          BY <1>1 DEF CacheInvariant, EntryOK
        <4>3. \A k \in DOMAIN cache : Precedes(cache[k], cache'[k])
          BY <3>1, <4>1, <4>2 DEF SameState, Precedes
        <4> QED BY <3>1, <3>2, <4>3
      <3> QED BY <3>3, <3>4
    <2>4. ASSUME NEW q \in Request, Serve(q)
          PROVE  \A k \in DOMAIN cache : k \in DOMAIN cache' /\ cache'[k] = cache[k]
      BY <1>1, <2>4, ServeStep
    <2>5. CASE \/ WriteRows \/ ChangeSchema
               \/ \E q \in Request : \/ \E context \in Context : BeginRead(q, context)
                                      \/ BeginSelect(q) \/ BeginRefresh(q) \/ Disconnect(q)
      <3>1. cache' = cache
        BY <2>5 DEF WriteRows, ChangeSchema, BeginRead, BeginSelect, BeginRefresh, Disconnect
      <3> QED BY <2>2, <3>1
    <2> HIDE DEF A
    <2> QED BY <1>1, <2>2, <2>3, <2>4, <2>5 DEF CacheNext
  <1>2. CacheInvariant /\ RefreshInvariant /\ RefreshesInOrder /\ [CacheNext]_cacheVars
          => [A]_cacheVars
    BY <1>1
  <1> QED BY <1>2, CacheInvariantHolds, CoverageHolds, PTL
          DEF CacheSpec, OnlyOvertakenRefreshGoesBack

----------------------------------------------------------------------------
(* Pushes of migrations.  The invariant says what everyone may rely on:    *)
(* whatever is in flight for a version, all earlier versions are applied   *)
(* for good.                                                               *)
Typed ==
    /\ revision \in Nat
    /\ applied \subseteq Files
    /\ ran \in [Files -> Nat]
    /\ pushes \in [Push -> PushState]
    /\ posts \subseteq Posted
    /\ transactions \subseteq Transaction

(* The mark is set in the step the SQL takes effect.                       *)
MarksTell == \A v \in Files : ran[v] = IF v \in applied THEN 1 ELSE 0

NothingEarlierIsMissing == \A v \in applied : Earlier(v) \subseteq applied

(* Where a push stands: the files it has done with are applied.            *)
PushIsInOrder(p) ==
    /\ pushes[p].remaining \subseteq pushes[p].files
    /\ \A v \in pushes[p].files : Earlier(v) \subseteq pushes[p].files
    /\ pushes[p].stage \in {"pushing", "waiting", "done"}
            => pushes[p].files \ pushes[p].remaining \subseteq applied
    /\ pushes[p].stage = "listing" => pushes[p].remaining = pushes[p].files
    /\ pushes[p].stage = "done" => pushes[p].remaining = {}

RequestIsInOrder(q) ==
    /\ Earlier(q.version) \subseteq applied
    /\ q.stage \in {"committed", "ok"} => q.version \in applied

MigrationInvariant ==
    /\ Typed
    /\ MarksTell
    /\ NothingEarlierIsMissing
    /\ \A p \in Push : PushIsInOrder(p)
    /\ \A q \in posts : RequestIsInOrder(q)
    /\ \A t \in transactions : Earlier(t.version) \subseteq applied

----------------------------------------------------------------------------
LEMMA MigrationInit == Init => MigrationInvariant
<1> SUFFICES ASSUME Init PROVE MigrationInvariant
  OBVIOUS
<1>1. Typed
  BY DEF Init, Typed, PushState, Stage
<1>2. MarksTell /\ NothingEarlierIsMissing
  BY DEF Init, MarksTell, NothingEarlierIsMissing
<1>3. \A p \in Push : PushIsInOrder(p)
  BY DEF Init, PushIsInOrder
<1> QED
  BY <1>1, <1>2, <1>3 DEF Init, MigrationInvariant

(* A step of a client that leaves the contract alone, keeps everybody else *)
(* where he was, and neither adds nor answers requests.                 *)
LEMMA TurnKeeps ==
    ASSUME MigrationInvariant, NEW p \in Push, NEW ps \in PushState,
           pushes' = [pushes EXCEPT ![p] = ps],
           ps.remaining \subseteq ps.files,
           \A v \in ps.files : Earlier(v) \subseteq ps.files,
           ps.stage \in {"pushing", "waiting", "done"} => ps.files \ ps.remaining \subseteq applied,
           ps.stage = "listing" => ps.remaining = ps.files,
           ps.stage = "done" => ps.remaining = {},
           UNCHANGED <<contract, transactions>>,
           posts' \subseteq Posted,
           \A q \in posts' : q \in posts \/ RequestIsInOrder(q)
    PROVE  MigrationInvariant'
<1>1. Typed'
  BY DEF MigrationInvariant, Typed, contract
<1>2. MarksTell' /\ NothingEarlierIsMissing'
  BY DEF MigrationInvariant, MarksTell, NothingEarlierIsMissing, contract
<1>3. \A r \in Push : PushIsInOrder(r)'
  BY DEF MigrationInvariant, Typed, PushIsInOrder, contract
<1>4. \A q \in posts' : RequestIsInOrder(q)'
  BY DEF MigrationInvariant, RequestIsInOrder, contract
<1>5. \A t \in transactions' : Earlier(t.version) \subseteq applied'
  BY DEF MigrationInvariant, contract
<1> QED
  BY <1>1, <1>2, <1>3, <1>4, <1>5 DEF MigrationInvariant

(* The file that is next: everything earlier is done with.                 *)
LEMMA NextIsInOrder ==
    ASSUME MigrationInvariant, NEW p \in Push, pushes[p].stage = "pushing",
           NEW v \in pushes[p].remaining,
           \A w \in pushes[p].remaining \ {v} : TextBefore(v, w)
    PROVE  Earlier(v) \subseteq applied
<1> SUFFICES ASSUME NEW w \in Earlier(v) PROVE w \in applied
  OBVIOUS
<1>1. v \in Files /\ v \in pushes[p].files /\ w \in Files /\ Number(w) < Number(v)
  BY DEF MigrationInvariant, Typed, PushState, PushIsInOrder, Earlier
<1>2. Number(v) \in Nat /\ Number(w) \in Nat
  BY <1>1, VersionsAssumption
<1>3. w # v /\ ~ (Number(v) < Number(w))
  BY <1>1, <1>2
<1>4. ~ TextBefore(v, w)
  BY <1>1, <1>3, VersionsAssumption
<1>5. w \notin pushes[p].remaining
  BY <1>3, <1>4
<1>6. w \in pushes[p].files
  BY <1>1 DEF MigrationInvariant, PushIsInOrder
<1> QED
  BY <1>5, <1>6 DEF MigrationInvariant, PushIsInOrder

(* A handler's step that changes one request, leaves the contract alone    *)
(* and may send a transaction.                                             *)
LEMMA HandlerKeeps ==
    ASSUME MigrationInvariant, NEW q \in posts,
           UNCHANGED <<contract, pushes>>,
           posts' \subseteq Posted,
           \A r \in posts' : r \in posts \/ RequestIsInOrder(r),
           transactions' \subseteq Transaction,
           \A t \in transactions' : t \in transactions \/ t.version = q.version
    PROVE  MigrationInvariant'
<1>1. Typed'
  BY DEF MigrationInvariant, Typed, contract
<1>2. MarksTell' /\ NothingEarlierIsMissing'
  BY DEF MigrationInvariant, MarksTell, NothingEarlierIsMissing, contract
<1>3. \A p \in Push : PushIsInOrder(p)'
  BY DEF MigrationInvariant, PushIsInOrder, contract
<1>4. \A r \in posts' : RequestIsInOrder(r)'
  BY DEF MigrationInvariant, RequestIsInOrder, contract
<1>5. \A t \in transactions' : Earlier(t.version) \subseteq applied'
  BY DEF MigrationInvariant, RequestIsInOrder, contract
<1> QED
  BY <1>1, <1>2, <1>3, <1>4, <1>5 DEF MigrationInvariant

(* A request that moves on or is answered stays in order as long as it     *)
(* reports success only of what is applied.                                *)
LEMMA MovedInOrder ==
    ASSUME MigrationInvariant, NEW q \in posts,
           NEW stage \in {"queued", "sending", "committed", "reverted", "ok", "error"},
           stage \in {"committed", "ok"} => q.version \in applied
    PROVE  /\ Moved(q, stage) \subseteq Posted
           /\ Answered(q, stage) \subseteq Posted
           /\ \A r \in Moved(q, stage) : r \in posts \/ RequestIsInOrder(r)
           /\ \A r \in Answered(q, stage) : r \in posts \/ RequestIsInOrder(r)
<1> DEFINE n == [q EXCEPT !.stage = stage]
<1>1. q \in Posted
  BY DEF MigrationInvariant, Typed
<1>2. n \in Posted /\ n.version = q.version /\ n.stage = stage
  BY <1>1 DEF Posted
<1>3. RequestIsInOrder(n)
  BY <1>2 DEF MigrationInvariant, RequestIsInOrder
<1> QED
  BY <1>2, <1>3 DEF Moved, Answered, MigrationInvariant, Typed

LEMMA ClientStepKeeps ==
    ASSUME MigrationInvariant, NEW p \in Push, ClientStep(p)
    PROVE  MigrationInvariant'
<1>1. pushes \in [Push -> PushState] /\ PushIsInOrder(p) /\ posts \subseteq Posted
  BY DEF MigrationInvariant, Typed
<1>2. CASE \E D \in Directories : Begin(p, D)
  <2>1. PICK D \in Directories : Begin(p, D)
    BY <1>2
  <2> DEFINE ps == [stage |-> "listing", run |-> pushes[p].run + 1, files |-> D, remaining |-> D]
  <2>2. D \subseteq Files /\ \A v \in D : Earlier(v) \subseteq D
    BY VersionsAssumption
  <2>3. ps \in PushState
    BY <1>1, <2>2 DEF PushState, Stage
  <2>4. pushes' = [pushes EXCEPT ![p] = ps]
    BY <2>1 DEF Begin
  <2> HIDE DEF ps
  <2>5. /\ ps.stage = "listing" /\ ps.files = D /\ ps.remaining = D
    BY DEF ps
  <2> QED
    BY <1>1, <2>1, <2>2, <2>3, <2>4, <2>5, TurnKeeps DEF Begin
<1>3. CASE List(p)
  <2> DEFINE ps == [pushes[p] EXCEPT !.stage = "pushing", !.remaining = @ \ applied]
  <2>1. ps \in PushState
    BY <1>1 DEF PushState, Stage
  <2>2. pushes' = [pushes EXCEPT ![p] = ps]
    BY <1>1, <1>3 DEF List
  <2>3. ps.stage = "pushing" /\ ps.files = pushes[p].files /\ ps.remaining = pushes[p].remaining \ applied
    BY <1>1 DEF PushState
  <2>4. ps.files \ ps.remaining \subseteq applied
    <3>1. pushes[p].remaining = pushes[p].files
      BY <1>1, <1>3 DEF List, PushIsInOrder
    <3> QED
      BY <2>3, <3>1
  <2> HIDE DEF ps
  <2> QED
    BY <1>1, <1>3, <2>1, <2>2, <2>3, <2>4, TurnKeeps DEF List, PushIsInOrder
<1>4. CASE ListFails(p) \/ GiveUp(p) \/ Finish(p)
  <2> DEFINE stage == IF Finish(p) THEN "done" ELSE "failed"
             ps == [pushes[p] EXCEPT !.stage = stage]
  <2>1. ps \in PushState
    BY <1>1 DEF PushState, Stage
  <2>2. pushes' = [pushes EXCEPT ![p] = ps]
    <3>1. pushes' = [pushes EXCEPT ![p].stage = stage]
      BY <1>4 DEF ListFails, GiveUp, Finish, Turn
    <3> QED
      BY <3>1
  <2>3. ps.stage = stage /\ stage \in {"done", "failed"} /\ ps.files = pushes[p].files /\ ps.remaining = pushes[p].remaining
    BY <1>1 DEF PushState
  <2>4. ps.stage \in {"pushing", "waiting", "done"}
            => ps.files \ ps.remaining \subseteq applied /\ ps.remaining = {}
    BY <2>3, <1>1 DEF Finish, PushIsInOrder
  <2>5. posts' \subseteq posts
    BY <1>4 DEF ListFails, GiveUp, Finish
  <2>6. UNCHANGED <<contract, transactions>>
    BY <1>4 DEF ListFails, GiveUp, Finish
  <2> HIDE DEF ps, stage
  <2> QED
    BY <1>1, <2>1, <2>2, <2>3, <2>4, <2>5, <2>6, TurnKeeps DEF PushIsInOrder
<1>5. CASE \E g \in Gateway : Post(p, g)
  <2>1. PICK g \in Gateway : Post(p, g)
    BY <1>5
  <2>2. PICK v \in pushes[p].remaining :
            /\ pushes[p].stage = "pushing"
            /\ \A w \in pushes[p].remaining \ {v} : TextBefore(v, w)
            /\ posts' = posts \cup {[push |-> p, run |-> pushes[p].run, version |-> v,
                                           gateway |-> g, stage |-> "queued"]}
            /\ Turn(p, "waiting")
            /\ UNCHANGED <<contract, transactions>>
    BY <2>1 DEF Post
  <2> DEFINE ps == [pushes[p] EXCEPT !.stage = "waiting"]
             q == [push |-> p, run |-> pushes[p].run, version |-> v,
                   gateway |-> g, stage |-> "queued"]
  <2>3. ps \in PushState
    BY <1>1 DEF PushState, Stage
  <2>4. pushes' = [pushes EXCEPT ![p] = ps]
    <3>1. pushes' = [pushes EXCEPT ![p].stage = "waiting"]
      BY <2>2 DEF Turn
    <3> QED
      BY <3>1
  <2>5. ps.stage = "waiting" /\ ps.files = pushes[p].files /\ ps.remaining = pushes[p].remaining
    BY <1>1 DEF PushState
  <2>6. Earlier(v) \subseteq applied
    BY <2>2, NextIsInOrder
  <2>7. RequestIsInOrder(q)
    BY <2>6 DEF RequestIsInOrder
  <2>8. q \in Posted
    BY <1>1 DEF PushState, Posted
  <2> HIDE DEF ps
  <2>9. \A r \in posts' : r \in posts \/ RequestIsInOrder(r)
    BY <2>2, <2>7
  <2>10. posts' \subseteq Posted
    BY <1>1, <2>2, <2>8
  <2> HIDE DEF q
  <2> QED
    BY <1>1, <2>2, <2>3, <2>4, <2>5, <2>9, <2>10, TurnKeeps DEF PushIsInOrder
<1> QED
  BY <1>2, <1>3, <1>4, <1>5 DEF ClientStep

LEMMA HandlerStepKeeps ==
    ASSUME MigrationInvariant, NEW q \in posts, HandlerStep(q)
    PROVE  MigrationInvariant'
<1>1. /\ posts \subseteq Posted /\ q \in Posted /\ RequestIsInOrder(q)
      /\ transactions \subseteq Transaction /\ revision \in Nat
  BY DEF MigrationInvariant, Typed
<1>2. CASE Receive(q)
  <2> DEFINE p == q.push
             ps == [pushes[p] EXCEPT !.stage = IF q.stage = "ok" THEN "pushing" ELSE "failed",
                                     !.remaining = @ \ {q.version}]
  <2>1. p \in Push /\ pushes \in [Push -> PushState] /\ PushIsInOrder(p)
    BY <1>1 DEF Posted, MigrationInvariant, Typed
  <2>2. ps \in PushState
    BY <2>1 DEF PushState, Stage
  <2>3. pushes' = [pushes EXCEPT ![p] = ps]
    <3>1. pushes' = [pushes EXCEPT ![p].stage = IF q.stage = "ok" THEN "pushing" ELSE "failed",
                                   ![p].remaining = @ \ {q.version}]
      BY <1>2 DEF Receive
    <3> QED
      BY <2>1, <3>1
  <2>4. /\ ps.stage = IF q.stage = "ok" THEN "pushing" ELSE "failed"
        /\ ps.files = pushes[p].files
        /\ ps.remaining = pushes[p].remaining \ {q.version}
    BY <2>1 DEF PushState
  <2>5. pushes[p].stage = "waiting" /\ (q.stage = "ok" => q.version \in applied)
    BY <1>1, <1>2 DEF Receive, Awaited, RequestIsInOrder
  <2>6. ps.stage \in {"pushing", "waiting", "done"} => ps.files \ ps.remaining \subseteq applied
    BY <2>1, <2>4, <2>5 DEF PushIsInOrder
  <2>7. posts' \subseteq posts /\ UNCHANGED <<contract, transactions>>
    BY <1>2 DEF Receive
  <2> HIDE DEF ps, p
  <2>8. ps.remaining \subseteq ps.files /\ ps.stage \notin {"listing", "done"}
    BY <2>1, <2>4 DEF PushIsInOrder
  <2>9. \A v \in ps.files : Earlier(v) \subseteq ps.files
    BY <2>1, <2>4 DEF PushIsInOrder
  <2> QED
    BY <1>1, <2>1, <2>2, <2>3, <2>6, <2>7, <2>8, <2>9, TurnKeeps
<1>3. CASE Skip(q)
  <2>1. /\ Answered(q, "ok") \subseteq Posted
        /\ \A r \in Answered(q, "ok") : r \in posts \/ RequestIsInOrder(r)
    BY <1>3, MovedInOrder DEF Skip
  <2> QED
    BY <1>1, <1>3, <2>1, HandlerKeeps DEF Skip
<1>4. CASE Send(q)
  <2> DEFINE t == [push |-> q.push, run |-> q.run, version |-> q.version, revision |-> revision]
  <2>1. /\ Moved(q, "sending") \subseteq Posted
        /\ \A r \in Moved(q, "sending") : r \in posts \/ RequestIsInOrder(r)
    BY MovedInOrder
  <2>2. t \in Transaction /\ t.version = q.version
    BY <1>1 DEF Posted, Transaction
  <2>3. transactions' = transactions \cup {t} /\ posts' = Moved(q, "sending")
        /\ UNCHANGED <<contract, pushes>>
    BY <1>4 DEF Send
  <2> HIDE DEF t
  <2> QED
    BY <1>1, <2>1, <2>2, <2>3, HandlerKeeps
<1>5. CASE Refuse(q) \/ Abandon(q)
  <2>1. /\ Answered(q, "error") \subseteq Posted
        /\ \A r \in Answered(q, "error") : r \in posts \/ RequestIsInOrder(r)
    BY MovedInOrder
  <2> QED
    BY <1>1, <1>5, <2>1, HandlerKeeps DEF Refuse, Abandon
<1>6. CASE Answer(q)
  <2> DEFINE stage == IF q.stage = "committed" THEN "ok" ELSE "error"
  <2>1. stage = "ok" => q.version \in applied
    BY <1>1 DEF RequestIsInOrder
  <2>2. /\ Answered(q, stage) \subseteq Posted
        /\ \A r \in Answered(q, stage) : r \in posts \/ RequestIsInOrder(r)
    BY <2>1, MovedInOrder
  <2> QED
    BY <1>1, <1>6, <2>2, HandlerKeeps DEF Answer
<1> QED
  BY <1>2, <1>3, <1>4, <1>5, <1>6 DEF HandlerStep
LEMMA MinedKeeps ==
    ASSUME MigrationInvariant, NEW t \in transactions, Commit(t) \/ Revert(t)
    PROVE  MigrationInvariant'
<1>1. t \in Transaction /\ t.version \in Files /\ Earlier(t.version) \subseteq applied
  BY DEF MigrationInvariant, Typed, Transaction
<1>2. /\ transactions' = transactions \ {t} /\ pushes' = pushes
      /\ applied \subseteq applied' /\ applied' \subseteq Files
      /\ Typed' /\ MarksTell' /\ NothingEarlierIsMissing'
      /\ \A r \in posts' : r \in posts \/ RequestIsInOrder(r)'
  <2>1. CASE Commit(t)
    <3>1. /\ t.version \notin applied
          /\ ran' = [ran EXCEPT ![t.version] = @ + 1]
          /\ applied' = applied \cup {t.version}
          /\ revision' = revision + 1
          /\ Mined(t, "committed")
      BY <2>1 DEF Commit, Admitted, Run
    <3>2. MarksTell' /\ NothingEarlierIsMissing'
      <4>1. ran \in [Files -> Nat]
        BY DEF MigrationInvariant, Typed
      <4>2. MarksTell'
        BY <3>1, <4>1 DEF MigrationInvariant, MarksTell
      <4> QED
        BY <1>1, <3>1, <4>2 DEF MigrationInvariant, NothingEarlierIsMissing
    <3>3. ASSUME NEW r \in posts' PROVE r \in posts \/ RequestIsInOrder(r)'
      <4>1. PICK q \in posts : r = IF Waits(q, t) THEN [q EXCEPT !.stage = "committed"] ELSE q
        BY <3>1 DEF Mined
      <4>2. CASE ~ Waits(q, t)
        BY <4>1, <4>2
      <4>3. CASE Waits(q, t)
        <5>1. r.version = t.version
          BY <4>1, <4>3 DEF Waits, MigrationInvariant, Typed, Posted
        <5> QED
          BY <1>1, <3>1, <5>1 DEF RequestIsInOrder
      <4> QED
        BY <4>2, <4>3
    <3>4. posts' \subseteq Posted
      BY <3>1 DEF Mined, MigrationInvariant, Typed, Posted
    <3>5. Typed'
      BY <1>1, <3>1, <3>4 DEF Mined, MigrationInvariant, Typed
    <3> QED
      BY <3>1, <3>2, <3>3, <3>5 DEF Mined, Typed
  <2>2. CASE Revert(t)
    <3>1. UNCHANGED contract /\ Mined(t, "reverted")
      BY <2>2 DEF Revert
    <3>2. MarksTell' /\ NothingEarlierIsMissing'
      BY <3>1 DEF MigrationInvariant, MarksTell, NothingEarlierIsMissing, contract
    <3>3. ASSUME NEW r \in posts' PROVE r \in posts \/ RequestIsInOrder(r)'
      <4>1. PICK q \in posts : r = IF Waits(q, t) THEN [q EXCEPT !.stage = "reverted"] ELSE q
        BY <3>1 DEF Mined
      <4>2. r.version = q.version /\ (r \in posts \/ r.stage = "reverted")
        BY <4>1 DEF MigrationInvariant, Typed, Posted
      <4> QED
        BY <3>1, <4>2 DEF MigrationInvariant, RequestIsInOrder, contract
    <3>4. posts' \subseteq Posted
      BY <3>1 DEF Mined, MigrationInvariant, Typed, Posted
    <3>5. Typed'
      BY <3>1, <3>4 DEF Mined, MigrationInvariant, Typed, contract
    <3> QED
      BY <3>1, <3>2, <3>3, <3>5 DEF Mined, contract, MigrationInvariant, Typed
  <2> QED
    BY <2>1, <2>2
<1>3. \A p \in Push : PushIsInOrder(p)'
  BY <1>2 DEF MigrationInvariant, PushIsInOrder
<1>4. \A r \in posts' : RequestIsInOrder(r)'
  BY <1>2 DEF MigrationInvariant, RequestIsInOrder
<1>5. \A u \in transactions' : Earlier(u.version) \subseteq applied'
  BY <1>2 DEF MigrationInvariant
<1> QED
  BY <1>2, <1>3, <1>4, <1>5 DEF MigrationInvariant

LEMMA MigrationStep == MigrationInvariant /\ [Next]_vars => MigrationInvariant'
<1> SUFFICES ASSUME MigrationInvariant, [Next]_vars PROVE MigrationInvariant'
  OBVIOUS
<1>1. CASE \E p \in Push : ClientStep(p)
  BY <1>1, ClientStepKeeps
<1>2. CASE \E q \in posts : HandlerStep(q)
  BY <1>2, HandlerStepKeeps
<1>3. CASE \E t \in transactions : Commit(t) \/ Revert(t)
  BY <1>3, MinedKeeps
<1>4. CASE OtherWrite
  BY <1>4 DEF OtherWrite, MigrationInvariant, Typed, MarksTell, NothingEarlierIsMissing,
              PushIsInOrder, RequestIsInOrder
<1>5. CASE UNCHANGED vars
  BY <1>5 DEF vars, MigrationInvariant, Typed, MarksTell, NothingEarlierIsMissing,
              PushIsInOrder, RequestIsInOrder
<1> QED
  BY <1>1, <1>2, <1>3, <1>4, <1>5 DEF Next

----------------------------------------------------------------------------
(* What a migrate that exits with success promises, whatever was lost and  *)
(* repeated: every file of its directory has taken effect exactly once.    *)
THEOREM MigrationsApplyOnce == Spec => []PushesApplyOnce
<1>1. MigrationInvariant => PushesApplyOnce
  <2> SUFFICES ASSUME MigrationInvariant PROVE PushesApplyOnce
    OBVIOUS
  <2>1. \A v \in Files : ran[v] <= 1
    BY DEF MigrationInvariant, MarksTell
  <2>2. ASSUME NEW p \in Push, pushes[p].stage = "done", NEW v \in pushes[p].files
        PROVE  ran[v] = 1
    <3>1. v \in applied
      BY <2>2 DEF MigrationInvariant, PushIsInOrder
    <3> QED
      BY <3>1 DEF MigrationInvariant, Typed, MarksTell
  <2> QED
    BY <2>1, <2>2 DEF PushesApplyOnce
<1> QED
  BY <1>1, MigrationInit, MigrationStep, PTL DEF Spec

(* Migrations take effect in the order of their versions, for any number   *)
(* of racing pushes: apply_migration itself does not look at the order.    *)
THEOREM MigrationsInOrder == Spec => MigrationsFollowVersions
<1>1. ASSUME MigrationInvariant, [Next]_vars
      PROVE  [\A v \in Files : ran'[v] # ran[v] => \A w \in Earlier(v) : ran[w] = 1]_vars
  <2> SUFFICES ASSUME NEW v \in Files, ran'[v] # ran[v], NEW w \in Earlier(v)
               PROVE  ran[w] = 1
    OBVIOUS
  <2>1. PICK t \in transactions : Commit(t)
    BY <1>1 DEF Next, ClientStep, Begin, List, ListFails, Post, Finish, GiveUp, HandlerStep,
                Receive, Skip, Send, Refuse, Answer, Abandon, Revert, OtherWrite, contract, vars
  <2>2. v = t.version
    BY <1>1, <2>1 DEF Commit, Run, MigrationInvariant, Typed
  <2>3. w \in applied
    BY <1>1, <2>2 DEF MigrationInvariant
  <2> QED
    BY <1>1, <2>3 DEF MigrationInvariant, Typed, MarksTell
<1> QED
  BY <1>1, MigrationInit, MigrationStep, PTL DEF Spec, MigrationsFollowVersions
=============================================================================
