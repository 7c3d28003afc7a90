# Kurabase in TLA+

Kurabase is a SQL database whose authority and durable state live in a smart
contract. A *gateway* is a server that rebuilds a SQL database from the contract's
event log, runs a client's SQL on a copy of it, and turns what changed into a
*plan*: a list of low-level operations that the contract applies in one
transaction, if the plan was made for the contract's present revision and its
sender may act. This directory models that system, from the contract up to the
handlers of the gateway, the SQL engine, the reading of views and REST requests and
the client that pushes migrations; it checks the models with TLC and proves the
central properties of the contract, the projection, the gateway, the SQL engine, the
cache, the catalog and the migrations with TLAPS.

Line references are to files under `src/`. Short names used below:
`KurabaseSchema.sol` is `contracts/src/KurabaseSchema.sol`; `projection.rs`,
`main.rs`, `auth.rs`, `query.rs` are in `crates/kura-gateway/src/`; the chain client
is `crates/kura-chain/src/lib.rs`; the SQL core is `crates/kurasql/src/` with
`lib.rs`, `schema.rs`, `functions.rs` and `deferred.rs`; the query adapter is
`crates/kura-query/src/lib.rs`, the REST translation
`crates/kura-gateway/src/postgrest.rs`, the command line client
`packages/cli/src/index.ts`.

Contents: [the system](#the-system) · [modules](#modules) ·
[runs](#runs) · [fairness and deadlock](#fairness-and-deadlock) ·
[findings](#findings) · [observations](#observations) · [proofs](#proofs) ·
[what is assumed](#what-is-assumed) · [what is not modelled](#what-is-not-modelled) ·
[plan](#plan)

## The system

| Component | State it keeps | Operations | Correct when |
|---|---|---|---|
| **Contract: roles and sessions** (`KurabaseSchema.sol` 109-233, 282-320) | owner, developers, an epoch per administrator, grants of gateways and identity authorities with the epoch of whoever issued them, nonce floors, revoked digests | `transferOwnership`, `setDeveloper`, `setGateway`, `setIdentityAuthority`, `revokeSession`, `revokeUserSessions`, `verifySession` | nothing that was withdrawn comes back except by a new grant; no address both executes for users and attests them |
| **Contract: canonical state** (49-68, 322-390) | revision, catalog entries, applied migrations, rows with versions and generations, cells | `_apply`: seven kinds of operation, all of a plan or none | plans are atomic; a new row is empty whatever its name held before; versions tell of every change; the log accounts for the state |
| **Contract: entry points** (235-270) | the two event streams | `execute` under a user's session, `executePrivileged` | no commit under a dead session; sessions never write the catalog |
| **Gateway: projection** (`projection.rs`) | none of its own: a function of the log | `rebuild` (log to database), `plan` (two databases to operations) | the log always replays; replay gives the contract's state; a plan on the present revision is accepted; row identifiers are not reused |
| **Gateway: handlers** (`main.rs`, `auth.rs`, chain client) | the writer lock, requests in flight | `table`, `rpc`, `sql`: authenticate, lock, snapshot, execute, send, wait for the receipt | answered calls are linearizable; the gateway does not conflict with itself; every request ends |
| **Gateway: materialized views** (`query.rs`) | cached values by caller, view and schema version | compute on first read, `REFRESH` | nobody is served what was computed for another caller; a value from under older policies, or an older value in a newer one's place, comes from an overtaken `REFRESH` and nothing else |
| **SQL core: statements** (`lib.rs`, `schema.rs` 147-200, `functions.rs`, `deferred.rs`) | tables with rows, constraints, policies; functions | INSERT with ON CONFLICT, UPDATE, DELETE, batches, nested functions, deferred constraints | what is published satisfies every constraint; referential actions mend what they are told to; row security holds over whole batches |
| **SQL core: definitions** (`lib.rs` 383-432 and 569-654, `schema.rs` 1-145, `functions.rs` 31-108) | names bound to stable identifiers, dependencies, `schema_version` | CREATE, ALTER and DROP of tables, views, policies and functions | what is written about a name keeps meaning the object it meant |
| **Query adapter** (`crates/kura-query`) | none: a function of one snapshot | name resolution, views written into the query, the rows registered with DataFusion | names mean what their scope says; nothing enters that the caller may not read |
| **PostgREST translation** (`postgrest.rs`, `table` in `main.rs`) | none: a function of one snapshot | filters, embeds, `!inner`, windows and counts | pages add up to the answer; embeds bring in nothing hidden |
| JavaScript SDK (`packages/kurabase-js`) | access token | session exchange, requests | nothing is promised of concurrent exchanges |
| **CLI** (`packages/cli`) | files, and how far a push has come | `migrate`: list what is applied, post the rest one by one | every migration once, in the order of the versions; success means all are applied |
| Dashboard, docs site, scripts | - | - | - |

How they interact. Clients call the gateway over HTTP. The gateway reads the
contract through one node (events, roles, sessions) and sends it transactions; it
holds an in-process mutex (`App.writer`) from before its snapshot until after the
receipt, and a second one for the cache of materialized views. The contract sees
transactions one at a time, from several gateways and from administrators who need
no gateway; the mutex of one gateway keeps none of these from committing, nor a
transaction of its own whose handler is gone. Nothing but the contract's storage and log survives a gateway.

What is hard: between a check and its use there are always awaits (authentication
before the lock, plans made on snapshots, a grant withdrawn while a transaction is
in flight); the acknowledgement and the receipt of a transaction can be lost while
the transaction commits; a client may hang up, or the process die, at any await;
plans of different writers race on the revision; grants outlive the administrators
who issued them and must not come back with them; referential actions run to a
fixed point over several tables; definitions are by name while names move. The
list, line by line, is under "hazards" in `PROJECT.json`.

## Modules

```
                  Ledger  (a plan is atomic)          Service (a call takes effect once)
                    ^ refined by                        ^ refined by
 CanonicalState -> PlanExecution                        |
   |   \                                                |
   |    `-> Projection                                  |
   v                                                    |
 Authority  ->  KurabaseSchema  ->  Gateway ------------'

 Relations -> SqlEngine -> Queries -> Rest

 MaterializedCache        Catalog        Migrations
```

An arrow reads "is extended by". Theorems are in `GatewayProofs` (which has
those about Authority and KurabaseSchema, too), `PlanExecutionProofs`, `ProjectionProofs`,
`SqlEngineProofs`, `QueriesProofs` (about Queries and Rest), `CatalogProofs` and
`EndpointProofs` (about MaterializedCache and Migrations), of
which those about the contract, the projection and the gateway share the lemmas of
`ApplyProofs` about `_apply`; `MC...` modules hold the small instances. A definition with
the comment *fault* is a seeded error: a plausible bug in one definition, never used by a
specification, that some property has to notice when it takes the definition's place
("mutants" in `PROJECT.json`).

**Authority.** One action per administrative entry point; a revert is a disabled
action. The delicate part is delegation: grants are not deleted with the
administrator who issued them but carry his epoch and count while it is still his
epoch. `EndDelegationsOf` is the increment of `administratorEpoch`; `SessionValid`
is `_validateSession` with its order of checks collapsed into a conjunction (which
error it reports is left out). A digest is its session, a signature is the account
that made it. Zero addresses, the constructor's initial identity authority and the
self-revocation by users, gateways and authorities are in.

**CanonicalState, PlanExecution, Ledger.** A store is a record; a mapping with an
`exists` flag is a function on the keys whose flag is set; cell keys carry the
row's generation, as `_cellKey` hashes it. `Accepts` holds the guards of each kind
of operation, `ApplyOperation` its assignments, `Apply` is `_apply` as one operator.
PlanExecution runs the same loop one operation per step, with reverts in the middle,
and is shown to implement Ledger, where a plan is one step.

**KurabaseSchema.** Authority and CanonicalState joined by `Execute` and
`ExecutePrivileged`, with the events `PlanCommitted` and `OperationApplied`.

**Projection.** `rebuild` and `plan` operator by operator, and the statements that
decide which identifiers and columns a plan can speak of. Several writers open a
batch on a snapshot, stage statements, and submit the plan when they get to it. A
cell is an envelope of its SQL type and value, so that decoding under another type
fails as it does in the code; the catalog document is a value written whole.

**Service, Gateway.** The handlers, one action per stretch between two awaits:
`Authenticate`, `ConfirmGrant` (the second call of `Chain::privileged`), `Lock`,
`Snapshot` (reading the head, running the statement, planning), `Send`, `GetReceipt`,
`Reread`. `CallFails`, `Disconnect` and `Crash` are what can happen at an await; the
lock guard goes with the handler. The database is a single counter, enough to tell a
lost or doubled update. Service says what a client may rely on; the refinement
mapping `CallOf` reads a call's effect off the receipt of its transaction, not off
what the gateway believes.

**MaterializedCache.** A database is how often rows were written and how often the
schema changed; a cached value is the pair it was computed on and its caller.
Readers take their snapshot before they wait for the cache lock, a REFRESH under the
writer lock. Commits (`WriteRows`, `ChangeSchema`) are guarded by no lock: beside those of
this gateway's handlers they are those of other gateways, owners and developers and of
transactions whose handler has gone. `refreshed` is a history: which rows the last
REFRESH saw, for every key it was to cover.

**Relations, SqlEngine.** Relations has what one statement does: constraints (final
and immediate), row security, the three DML statements, and `Settle`, the queue of
referential changes: `SettleOne` takes one change off it, `ActAll` has it answered by
the foreign keys that refer to its table, in the order of the code's loop. A WHERE clause is the set of rows it selects, an expression the
value it has on each of them, a policy one of a few forms. SqlEngine runs
statements in batches and in nested function calls, with SECURITY DEFINER.

**Queries.** What a SELECT reads. Of a query only names are kept: the CTEs it declares
and the sources of its FROM; its rows are those of all sources. `NormalizeQuery` is the
visitor of the query adapter: which names are CTEs, which views are written into the
query (and visited again in the scopes they are put into), which tables are marked as
`public.name` so that no CTE captures them. `prepared` computes the materialized views
first, in the order `dependencies` finds them. `Evaluation` is DataFusion, external: a
CTE sees those declared before it, a bare name is a CTE or else a registered table.
`Meaning` is the definition of SQL's scopes that the answers are compared with; it
knows nothing of rewriting. What recurs over texts is a function of the steps it may
still take and of its argument (`Normalization`, `Evaluation`, `Mentioned`, `dependencies`,
`Meanings`): at n, one step of a plain operator given the function at n - 1. The code
bounds nesting itself (`MaxNesting`), so that `MaxVisits` steps are always enough for the
visitor; texts nest at most `MaxText` deep, over `Names`.

**Rest.** GET of a table or view: `select_sql` with filters and row security,
`filter_referenced_rows` for `!inner`, the window, then `Project` with its embeds.
A request is a record of a table, filters (a path of relations, a column, a value),
embeds (alias, target, hint, inner, nested embeds) and a window.

**Migrations.** `migrate` as the client's loop (`Begin`, `List`, `Post`, `Receive`,
`Finish`), the handler behind each post (`Skip` and `Send` are the two outcomes of
`apply_migration`, `Abandon` a lost receipt, a hang-up or a crash), and the contract
(`Commit`, `Revert`). A version is its sequence of digits, ordered as text by the
client and as a number by its meaning. The SQL of a migration is how often it has
taken effect.

**Catalog.** Every DDL statement, over names and identifiers: who speaks of a column
or relation by name (keys, foreign keys of this and other tables, generated columns,
checks, policies, views, functions) and what each statement rewrites, refuses or
drops. An expression is the set of columns it names, a text the set of relations. A
function is its body and the table of its RETURNS SETOF, if it has one: CREATE FUNCTION
refuses a table that is not there, `FunctionsOf`, what `dependents` searches, knows the body only.
What goes with a dropped relation (`DependentViews`) is the least set of views that has
the views over it and over its own members, which is what the recursion of
`remove_dependents` collects; DROP TABLE takes it for all its tables at once, because the
order in which the code's loop visits them changes neither the outcome nor whether it is
refused.
`WellDefined` is the part of `validate_constraints` that looks at definitions only.

## Runs

All configurations are small; every bound is a constant named in the `.cfg`. A
pass explores every reachable state of its instance.

| Run | What it shows | Bounds, and why they suffice |
|---|---|---|
| `contract` | a lapsed grant stays strictly behind its issuer (`LapsedGrantsAreBehind`); no address has both duties; gateways, authorities and sessions do not revive; no commit under a dead session; sessions never write the catalog | two administrators who can appoint each other, three epochs: appointed, dismissed and reappointed once is the shortest way for a grant to come back. A wallet session and an attested one, one commit: whatever ends the session may come before it. Proved without the bounds |
| `plan_execution` | the loop implements atomic plans; cells, versions and log stay consistent; new rows are empty | two rows, plans of up to four operations that create, delete and re-create them, five commits: two lives of a row and a change after each. Proved without the bounds |
| `projection` | the log replays to the contract's state; row identifiers are not reused; fresh plans are accepted; commits are read back as staged | two writers, two tables, two columns, four commits: a column added to rows, a table dropped with rows in it, and a plan outdated by the other writer. A batch is one statement or a migration, four revisions let every order of them occur. Proved without the bounds |
| `gateway` | answered calls are linearizable (`ImplementsService`); the gateway does not conflict with itself; every request ends | two requests at once, of every actor, endpoints with and without the last read, and a grant that comes and goes: conflicts, lost answers and lock hand-over need two. The first two are proved without the bounds |
| `cache` | a caller is served his own value, and one of an older schema only as an overtaken REFRESH left it (`OutlivedOnlyByRefresh`); values move backwards in no other step (`OnlyOvertakenRefreshGoesBack`); a REFRESH reaches every cached key (`RefreshReachesTheCache`) | four requests, two callers, two commits of each sort at any moment: two readers around a refresh and one after it, or two refreshes and readers between them. Proved without the bounds |
| `sql` | published databases satisfy every constraint; cascades mend what they should; other users' rows are untouched; answers mean what the query says (`NamesKeepTheirScope`), pages add up (`PagesCoverTheAnswer`), and no answer depends on a hidden row (`AnswersIgnoreHiddenRows`) | six databases (a self-referencing table with a chain of three rows, a parent with two children under the other actions, three tables in a row that cascade or set NULL, two owners under two styles of policy, posts and users with two foreign keys and five views), three statements, call depth two; nine queries and twelve reads asked in every published state, each as the administrator and as a user. Every way to pose as a name (CTE over a table, over a view, beside it, before it, inside a view, in a subquery) is among the queries; nesting is limited to 3 so that the limit is met. Soundness, the rows of others, the three properties of answers and, as far as the limit of steps goes, the mending of references are proved without the bounds |
| `migrations` | every migration takes effect once (`PushesApplyOnce`) and after all earlier ones (`MigrationsFollowVersions`); a push that succeeds has applied its directory | two pushers with an older and a newer checkout of three files, two gateways, two tries each, one foreign commit: a retry with the first post still in flight needs one pusher and two tries, a race two pushers. Proved without the bounds |
| `catalog` | foreign keys and policies keep meaning their columns; views and the bodies of functions keep their relations; a deferred timing stays with its key; the schema version tells of every change | three databases, three statements, each ALTER TABLE of one or any two operations and selected ones of three: enough to rename, drop and add again under the old name, in one statement or across several. Proved without the bounds |
| `lost_receipt`, `cascade_shift`, `nested_call`, `overtaken_refresh` | the findings below, each a violated statement of the repository | as the passing run of the module; `nested_call` with the self-referencing table and two statements |

`NoSelfConflict` deserves a word: it is conditional on no handler having walked away
from a transaction it sent. A disconnect or a lost answer leaves a transaction
behind that may outdate the next plan; that the next caller is then told of a
conflict is right, and `ImplementsService` covers those behaviours too.
`CascadesMendReferences` and `ReferencesFollowTheirRows` quantify, in every published
database, over every deletion and every injective change of keys one statement can
make, and run the referential actions on each. The first is about databases all of
whose foreign keys are CASCADE or SET NULL: a RESTRICT may refuse, a SET DEFAULT may set
what references nothing. Two things are nobody's to mend and left out: foreign keys that
share a column, where mending one may break the other (`AllMend`), and the change of a key
that is itself a foreign key (`KeyTables`).

## Fairness and deadlock

`FairGatewaySpec` is the only specification with fairness. Weak fairness on every
step of a handler: tokio runs a task that is ready. Strong fairness on `Lock`:
tokio's mutex serves its waiters first come first served, so one that could have
the lock again and again gets it. Weak fairness on `Mine`: the node mines what it
has accepted. None on failing calls, disconnects, crashes or arrivals: they may
happen, they need not. The wait for a receipt has no timeout in the code, so without
`Mine` the lock would be held forever; the hazard is listed at that line.

`CHECK_DEADLOCK FALSE` is in every configuration because every instance really ends:
requests are made once, and revisions, epochs, time, statements and schema versions
have bounds at which a behaviour may stop. That no *request* is left waiting is
`EveryRequestEnds`.

## Findings

1. **A rejection may have been committed** (`lost_receipt`). Any failure in
   `Chain::commit`, a lost acknowledgement or a failed wait for the receipt included,
   is answered with "Chain rejected the plan; refresh state and authorization before
   retrying" (`main.rs:25`). The transaction can still be mined; a retry writes twice.
2. **Cascades shift** (`cascade_shift`). When one UPDATE moves several keys, the queued
   changes are cascaded one after the other to whatever holds the old key by then, rows
   an earlier change has just redirected included.
3. **A nested call is not the call** (`nested_call`). Each statement of a function is
   followed by its referential actions; the statement that makes a nested call is
   followed by those of everything the callee changed (`functions.rs:151`), again. In
   the run the callee deletes a row, whose cascade takes the rows that refer to it, and
   inserts a new row under the deleted key that refers to itself. Called directly the
   row stays; called by another function the cascade runs a second time, on the
   difference over the whole call, and the row is gone.
4. **A REFRESH that is overtaken** (`overtaken_refresh`). The comment on `cache_key`
   (`query.rs:16`) and `docs/decisions.md:24` promise that no cached value outlives the
   policies it was computed under, since its key has the schema version. REFRESH
   computes every entry of its view again, those under newer versions included, on
   its own snapshot (`query.rs:67`). In the run a REFRESH takes its snapshot, another
   gateway (or a transaction left behind in the mempool) changes the schema, a reader
   caches his value under the new version, and the REFRESH puts one of the old version
   in its place, which the next readers are served until something refreshes again. The
   writer lock excludes this only as long as one gateway is the only one that commits
   and no handler is lost; `docs/decisions.md:10` allows several and
   `scripts/local-stack.mjs` starts two. What remains true is proved (`Authorization`,
   `Progress`).

## Observations

Behaviour met while modelling that no statement of the repository contradicts, or that
no run is spent on:

* `table` and `rpc` authenticate before they wait for the lock and read the head, so a
  read may run on a block at which its session is already revoked, although
  `docs/contract-protocol.md:141` asks for validation at least as fresh as the pinned
  snapshot. Writes are safe: the contract validates again (`DeadSessionsCommitNothing`).
* A reader that took its snapshot before a REFRESH, under a key nobody had cached, may
  cache older rows after it; `RefreshReachesTheCache` therefore speaks of keys that were
  cached.
* `NamesKeepTheirScope` rests on DataFusion rejecting a CTE that redeclares a name of an
  enclosing query (`AcceptsShadowing = FALSE`, as version 54.1 does). With it TRUE a view
  whose CTE reads a table before a later CTE takes that name is captured by a CTE of
  the same name outside: the visitor looks at a view again in the scopes of its user.
* Migration versions are compared as texts: of files 9 and 10 the second goes first.
  `VersionsAssumption` says the versions are timestamps of one width. That a checkout
  has no gaps is the developer's part (`specs/001-hackathon-core/spec.md:182`).
* A REFRESH of a materialized view over another one computes on the plain snapshot and
  is refused.
* Filters of embeds inside embeds are given the whole request's parameters, in which
  their full path does not match; a nested `!inner` is projected but does not filter;
  `limit` and `offset` of an embed are ignored. A foreign key of a table to itself is
  found in both directions and is ambiguous with every hint.
* CREATE TABLE does not look whether a view has the name.
* The table of RETURNS SETOF is checked when a function is created and looked up by name
  whenever it is called (`functions.rs:47` and `165`), but `dependents` (`schema.rs:22`)
  searches the body. Such a function stays behind when that table is dropped or renamed,
  and then fails or is checked against whatever has the name. `DependentsStayBound` therefore
  speaks of views and bodies; for return types it does not hold, in Catalog as in the code.
* `REFERENCES users` without columns means the primary key wherever constraints and
  actions are evaluated (`lib.rs:138`, `schema.rs:162`); `linked` (`postgrest.rs:241`)
  compares the columns with an empty list, so that every row matches and is embedded.
* `WellDefined` in Catalog asks that every column an expression names exists. The code
  evaluates the expressions on one sample row (`lib.rs:117-124`), and a name in a branch that
  is not reached escapes it; the catalog then holds definitions that Catalog refuses.
* `VersionTellsOfChange` compares the states before and after a plan: a row that is deleted
  and created again with equal cells within one plan is no change to it.

## Proofs

TLAPS checks these for all values of the constants, using only the `ASSUME`s of the
modules (which TLC evaluates in the runs). The proofs do not use the bounds.

**GatewayProofs, the administration.** `AuthorityTypeCorrect`, `SeparationOfDuties`,
`LapsedGrants`, `GatewaysNeverRevive`, `AuthoritiesNeverRevive`, `SessionsNeverRevive`. That nothing
revives is not inductive: one has to know where a dead grant stands. The invariant is
`LapsedGrantsAreBehind`: a grant is never ahead of its issuer's epoch, and one whose
issuer is no administrator is strictly behind. Losing the role and raising the epoch
are one transaction, and epochs only grow, so an administrator who returns does so
ahead of everything he granted before. `LapsedStaysLapsed` turns that into a step
lemma, `GrantsChangeWithTheirEpoch` says a grant's fields move only with its epoch,
and the three action properties follow; for sessions, `RevokedStaysRevoked` adds that
floors and digests only grow.

**ApplyProofs.** What the other modules need to know of `_apply`. `Apply` is a fold over
the operations of a plan; `LoopUnrolls` shows by induction over the natural numbers that
the fold over k + 1 operations is one more operation on top of the fold over k
(`OutcomeStarts`, `OutcomeGoesOn`), so that a statement about plans is proved one
operation at a time. `StepCarriesOn` says a refusal is final, `OperationEffect` sums up
what one operation does to a store, so that the rest never opens `Accepts` and
`ApplyOperation` again, and `ApplyAdvances` that an accepted plan moves the revision by
exactly one and leaves a well-formed store.

**PlanExecutionProofs.** `ExecutionTypeCorrect`, `Incarnations`, `NewRowsAreEmpty`,
`VersionsReached`, `VersionsTellOfChange`, `LoopImplementsLedger`, `LogAccounts`. For empty
new rows the invariant is that every cell's generation is at most its row's, in storage
and in the staged copy; INSERT_ROW moves to a generation nothing has. For versions it is
`VersionInv`: during a transaction every row is either stamped with the revision under
way or exactly as it was in storage. The hypothesis is needed because the action
property compares storage before and after a commit, many steps after the changes.

`LoopImplementsLedger` is the refinement: the loop that works through a plan one
operation per step, and may revert at each of them, implements Ledger, where a plan is
one atomic step. The invariant `LoopInv` says the staged copy is what `Apply` computes for
the operations worked through so far; `Finish` then finds the whole plan's outcome in the
staged copy and every other step is a stutter of Ledger.

`LogAccounts`: the event log accounts for the storage, which is what
lets the gateway tell from events alone which rows changed. While a transaction is in
flight its events do not exist yet; the invariant `LogInv` says instead that each row
carries the revision under way exactly if one of the operations worked through so far
concerns it (`StagedIsAccounted`). `OperationStamps` shows this for one more operation.
On commit the operations become events at the end of the log (`AddedEvents`),
`NumberingGoesOn` continues revisions and indexes, and `AccountGoesOn` turns the last
operation about a row into the last event about it.

**GatewayProofs, the whole contract.** `SchemaImplementsAuthority`: whatever plans are committed in
between, the administration of the contract takes steps of Authority or none, so that
what is proved of Authority holds of the whole contract (`SessionsNeverReviveInSchema`
and `SeparationOfDutiesInSchema` are spelled out). `DeadSessions`: nothing is committed
under a session that was revoked, has expired or whose grant was lost or replaced.
`CatalogIsTheServices`: no plan sent under a user's session touches the catalog or the
migrations. Revision n is the one commit n led to, so that an event names its commit
(`CatalogInv`); an accepted plan had every one of its operations accepted
(`EveryOperationAccepted`), and `execute` applies unprivileged, where none on the catalog
is. `SchemaAssumption` says the plans offered are sequences of operations.

**ProjectionProofs.** All that the run `projection` checks, for any number of writers,
tables, columns, rows and commits: `LogAlwaysReplays`, `ReplayIsTheContract`,
`RowIdsAreGivenOnce`, `FreshPlansPass` and `CommitsAreReadBack`. None of them is
inductive: whether the next plan can be replayed, or is accepted, depends on what its
writer's statements did to a database read some commits ago. `ProjectionInvariant`
therefore says three things.

* *The contract is read* (`ContractIsRead`). The store and the replay of the log are
  `Linked`: the same rows live, and in each a reader of the contract finds the cells and
  the version that the replay has built up. Both show the database that is rebuilt
  (`Shows`; they may also hold cells of columns that were dropped, which nobody reads).
* *Names are used once* (`NamedOnce`, `Allocated`). No generation is above 1, and a row
  that ever was lies below the row allocator of its table, its table below the object
  allocator. A row named anew is therefore one the contract has never had.
* *Batches are sound* (`BatchSound`). What a writer has staged could be planned from its
  snapshot (`Staged`): allocators have only grown, what was named since lies above the
  snapshot's, every column of every row has a value, and without privilege the catalog
  is untouched. As long as nobody has committed, the snapshot is the replay of the log.

The step that matters is `Submit`. `PlanIs` says that a plan consists of the operations
that are `Needed` to get from the snapshot to the staged database, whatever their order,
`PrefixGoesOn` that the replay works through the log one event at a time, as `_apply`
works through the plan. `OperationCarries` is the effect of one operation on both:
between two of them each row is as before or as after the plan, depending on which
operations were carried out so far (`Between`). This needs no order, because the
operations of a plan do not undo each other. At the end all are done, so the contract
shows the staged database (`PlanCarries`, `PlansEnd`), and `RebuildIs` that this is what a
gateway makes of the log. Acceptance does depend on the order: `PlanLeads` follows which
rows live after every operation, so that deletions find their row, insertions find none
and cells come after the insertion of their row;
`PlanIsAccepted` concludes that `_apply` refuses none. One lemma per
statement (`InsertStages`, `DropColumnStages` and so on) keeps a batch sound.

**GatewayProofs, the handlers.** `LockPreventsConflicts` is `NoSelfConflict`, for any number of
requests. `NoSelfConflict` is not inductive: it assumes that nobody has walked away from
a transaction, and an abandoned transaction in the mempool may revert, which makes the
assumption true again. The invariant replaces it by `Orphan`, an abandoned transaction
that was committed, which stays one; adds that whoever writes holds the lock from its
snapshot to its receipt (`LockIsHeld`); and that every transaction in the mempool
belongs to one handler, which waits for it or ended without success (`PoolIsInOrder`).
Then a transaction that is mined under a waiting writer is the writer's own or leaves an
orphan. `HandlerStep` has what all steps of a handler that sends nothing share. For this
theorem what a plan does to the state is never opened.

`GatewayImplementsService` is the refinement of Service by the gateway: a call takes
effect at most once, in one step, and an answer "ok" comes after that step and carries
what it made of the counter, whatever crashes, disconnects and lost answers there
are. `ServiceInvariant` gives the conditions under which the mapping moves: what a handler
read is the counter while the revision it read is the present one (`Knows`), an answer
"ok" or a wait for one has a snapshot, and a commit if there was something to commit,
behind it (`Proceeds`), a receipt says what the plan made (`Receives`), and what is in the
mempool is what its handler planned (`PoolIsPlanned`). Here the plan has to be opened:
`InsertionInserts` and `SettingSets` compute its two forms with `OutcomeGoesOn`, and
`PlanApplies` says that on the revision it was made for it is accepted and leaves a store
that counts one more. One lemma per kind of step then maps it to a step of Service or a
stutter (`SendServes`, `MineServes`, `CrashServes` and so on).

**EndpointProofs, the cache.** `Authorization`, `Progress`, `RefreshIsSeen`. Commits
may come at any moment, so that no snapshot can be said to be the present state; the
argument is about who may write what. `CacheInvariant`: every entry was computed for the
caller in its key, on a state no later than the database's (`EntryOK`), and who
refreshes holds the writer lock. `Explained` adds that an entry was computed under the
schema in its key or else on the snapshot of a completed REFRESH (`FromRefresh`), and what
was served likewise. An explanation stays one, because a completed REFRESH is never taken
back (`RefreshedStays`, `ExplanationStays`), and readers only fill in keys that were
missing, with their own snapshot. For `RefreshIsSeen` and the last clause of `Progress`,
`RefreshInvariant` says that every key a REFRESH covered is still cached with rows at least
as new, now and for each reader that began since. It needs that refreshes do not
overtake each other (`RefreshesInOrder`): the writer lock, which they all take, keeps a
refresher's snapshot ahead of what earlier ones saw, whoever else commits. `Progress` then
singles out the one step that may put an older value in place of a newer one.

**EndpointProofs, migrations.** `MigrationsApplyOnce`, `MigrationsInOrder`, for any number of
pushers, gateways, files and repetitions. Neither the gateway nor the contract looks at
the order of versions, so the order is kept by what everyone in flight can rely on:
for every request and every transaction there is, also those whose sender has gone,
all earlier versions are applied (`RequestIsInOrder`). It is established by `Post`
(`NextIsInOrder`: the least file that remains, of a checkout without gaps, after
successes only), and nothing takes it away because applied versions stay. A success
may be believed because it is only answered for a version that is applied.

**CatalogProofs.** All that the run `catalog` checks, for any names, definitions, texts
and lists of operations: `LinksAreKept`, `TimingIsKept`, `PoliciesAreKept`,
`TextsKeepTheirRelations` and `VersionsTellOfSchemas`. They compare a catalog before a
whole statement with the one after it, by identifiers, and need to know of the first
what `CatalogWhole` says (proved as `CatalogStaysWhole`):

* it is `WellDefined`: what keys and foreign keys refer to exists and is unique;
* it is `Formed`: keys, deferrals, policies and the foreign keys' own columns are
  columns of their table. Without that a deferral, kept apart from its key, could wait
  for a key that comes later (`KeysKeepTheirTiming`);
* it is `Identified`: identifiers are given once and lie below `next_object_id`. Without
  that nothing said by identifiers says anything about columns.

An ALTER TABLE is a loop, and its `WellDefined` holds again only when the loop is done:
between two operations a foreign key may refer to what is not there. The loops are
therefore `Turns`, over which `Induction` on the natural numbers carries two relations
between the catalog the statement found and the present one. `Evolves` says that every
table is new or has an ancestor, which it `Inherits` from column by column; that
identifiers stay unique; and that texts and bodies keep their relations. It composes (`EvolvesOn`)
and needs no well-defined catalog in between. `LinksFrom` says that each foreign key
belongs to a new column, or refers to a column that is there and has been its own all
along, or refers to the primary key of a table that has none any more (DROP COLUMN of a
primary key does not look at the table's own foreign keys). Keys of new columns may
dangle meanwhile, and what has lost its primary key stays so for good; at the end of the
statement `WellDefined` excludes both (`LinksInTheEnd`). One lemma per operation shows
that it takes a turn (`RenameColumnAdvances`, `DropColumnAdvances`, ... and
`RenameColumnCarries`, `ColumnGoneCarries`, ...). For texts the argument is
`RemovalRelieves`: the set of views that goes is closed, so that no text that stays
names one of them or the relation that was dropped. Every statement then has an
`Outcome` that says all of this of the catalog it commits, and the theorems are read off
it.

`CatalogAssumption` says what the parser and the statements' own checks grant of their
inputs, `InitialCatalogs` that the catalogs to start from are whole; the empty catalog
of a new database is.

**SqlEngineProofs.** `EngineStaysWhole`, `PublishedIsSound`, `OthersAreUntouched`,
`CascadesMend` and `DeletionsMend`, for any databases, contexts, values, policies, foreign
keys and nesting of functions.

What is published is sound because the last validation of `Finish` covers every
constraint and because nothing else changes the database; what remains to be shown is
that a column without duplicates has as many values as rows that have one
(`UniqueCounts`), which is how `Sound` puts it.

Row security of whole batches needs more, since `OthersRowsAreUntouched` compares the
database before a batch with the one it publishes, many statements, upserts, nested calls
and cascades later. The invariant `EngineInv` says of the staged database that it is
formed as its catalog says and, as long as nobody with more authority was at work,
differs from the database in no row of others (`Working`). Each statement keeps that, as
far as it goes:

* `DeleteRespects`, `UpdateRespects`, `InsertRespects`: a statement changes its own table
  only, and there no row of others. What a row passes is `AllowedIsOwn`: in a table that
  only owners are let into, by whatever mixture of permissive and restrictive policies,
  a row that USING or WITH CHECK accepts is the caller's. An upsert is the delicate
  one: both the row that was there and the one that takes its place are looked at
  (`ReplacedRespects`). A new row takes an identifier no row has (`RowAdded`, which needs
  `Formed`).
* `ActionsSpare`: what follows a statement changes no table but those that have foreign
  keys, whose rows referential actions may change without asking policies, so that
  these tables are left out. `ActSpares` is one foreign key, `ActAllSpares` all of them,
  `SettleSpares` the queue, to its end or to the limit of steps.
* `RunsAsCaller`: a frame runs with the authority of the caller as long as no definer
  function is below it (`Lent`), so that what is not `Elevated` is the caller's.

That CASCADE and SET NULL mend what they should is an invariant of the queue of changes,
which is why the order of its steps does not matter. A value of a foreign key is *held*
(`Held`) when it is NULL, references a row, or equals the old key of a change that still
waits in the queue, so that its turn will come. Two things have to be kept by every step:

* Every value of every foreign key is held (`Settling`). A row that leaves or changes its
  key puts its change behind the queue at the moment its key disappears (`Moves`,
  `HeldOn`), and the foreign keys it does not concern keep their columns because no two
  share one.
* The key that a waiting change leads to is held, too, counting only what waits behind
  that change (`Leads`): it was there when the change was queued, and if it has gone since
  then its own change came later. Otherwise ON UPDATE CASCADE could write a
  value that references nothing.

While one change is answered, the foreign keys that have had their turn are held and the
others only up to this change (`Answering`); `MoveAnswers` is one turn, `ChangeAnswered`
all of them, `SettleOneSettles` a step. With the queue empty, held means NULL or
referenced (`SettleMends`). `CascadesMend` then has one hypothesis, `SettlingEnds`: no
alteration needs more steps than the limit; beyond it the code refuses the statement.

For deletions that hypothesis goes as well. What follows a DELETE gives no column another
value than NULL (`Emptying`), so each change it queues takes one reference away for good
(`Refs`, `RefsTakenAway`), and references plus waiting changes only decrease (`Ending`,
`SettleOneEnds`): `DeletionsMend` asks of the limit only that it is not below the number of
rows in the table plus that of references in the database. A change of keys has no such
bound: a value may be redirected as many times as there are keys.

INSERT, `ActAll` and `Settle` are loops; as in CatalogProofs `Turns` unrolls a loop, and
`Induction` carries what one turn keeps to its end. `InitialDatabases` says that the
databases to start from are formed as their catalogs say (tables and columns that foreign
keys name exist, rows have the columns of their table, identifiers are below the next one)
and satisfy their constraints; the empty one does, and `validate_constraints` checks the
columns that foreign keys name after every batch.

**QueriesProofs.** `HiddenRowsAreIgnored`, `PagesAreTheAnswer` and `NamesMeanWhatTheySay`,
for any database, catalog, queries and requests, texts and embeds nested to any depth, and
any limits.

tlapm knows of a recursive function only that it is the one that satisfies its equation
if there is one. The module therefore begins with what the library cannot give for
functions of several kinds: that each of them exists and what its steps are
(`RoundsExist`, `LevelsExist`, and then `NormalizationSteps`, `EvaluationSteps` and so on),
that it keeps to its type (`NormalizationType`: a rewritten text is a text that mentions
base tables of the database only; `ReadType`, `DependenciesAreViews`), and what FlattenSeq
does (`SpreadFlatten`: what is read for tables in a row, is read for each of them).
Recursion over the text is then induction over the number of steps.

`HiddenRowsAreIgnored` compares a database with the one from which everything its reader
may not SELECT has been removed. They are `Twins`: the same catalog and tables, the same
visible rows with the same values. Every stage of an answer keeps that up. Normalizing and
evaluating look at names alone (`NamesRead`), and only `read_table` at rows (`TwinRows`,
`TwinBatches`); so the materialized views that take the place of tables have the same rows
in both and leave Twins (`TabulatedTwin`, `TwinPrepared`), also where one is read through
another; a view as the table of a GET is one more of them (`TwinResolved`). Filters,
relations and !inner ask for visible rows of visible tables only (`TwinRelated`, `TwinKept`),
and embeds at any depth do, by induction (`TwinEmbedding`). Counts, windows and failures
follow from equal rows (`TwinGet`).

`PagesAreTheAnswer`: the rows that are kept do not depend on the window (`Asked`), what is
shown of a row does not depend on the rows around it (`Item`, `ProjectShows`), so that a
part of the rows is shown as that part of the whole answer (`ProjectPart`, `PageIs`), by
offset as by Range (`PagesCut`); and an embed under !inner was kept for a related row it
then shows (`EmbedOfSome`).

`NamesMeanWhatTheySay` says that an answer is what the query means (`NamesKeepTheirScope`),
under the hypothesis `~ AcceptsShadowing`: with TRUE it would be false (see Observations).
The code rewrites the text, views first computed into tables, and evaluates the result;
`Meaning` looks names up in the text as it stands. Three arguments bring them together:

* The text of a view is normalized twice, alone and again in the scopes of its user, where
  a CTE could take a name in it. What has been normalized stays as it is when it is
  normalized under more CTEs (`NormalizedAgain`): its base tables are marked, and the
  names left are those of its own CTEs.
* A text and what it has been rewritten to then go in lockstep (`MeansAs`, `Lock`,
  `EvaluatedAsMeant`): as long as the CTEs around a text have one value on both sides,
  whatever else is in scope where the rewritten one has been put (`SameScope`), what it
  reads is what the original means. The hypothesis is used here: before a text declares a
  CTE, nothing around the place it was put into has that name. `NamesReadAsMeant` is this
  for one database.
* A table that holds the rows of a view stands for the tables the view means
  (`Standing`). Replacing every table in a meaning by those it stands for commutes with
  reading (`Spread`, `ReadSpreads`, `MeaningSpreads`), and with the rows (`RowsTabulated`).
  So a text means after each view that was computed what it meant before, `MaxVisits`
  steps deeper (`TabulatedMeaning`, `CarriesOneMore`), and the loop of `prepared` adds
  these up (`StoredNext`, `PreparedStores`) to the depth of `Meaning`.

All three start from `QueryInv`: the database is formed, and its catalog is the one it
started with, since no statement of SqlEngine changes definitions; `QueriesAssumption` says
of it that views are texts and that it knows of every table who may read it (`Viewed`), and
that the mark `Absent` is not a sequence of names.

Only model-checked: liveness and everything about ENABLED (`EveryRequestEnds`), and
`CascadesMendReferences` where the limit of steps is met, since for every value of the
constants it would be false: a chain of references longer than `MaxSteps` is refused, as it
is in the code.

## What is assumed

* Hashes are injective and signatures cannot be made by others: a digest is its
  content, a signature the account behind it.
* One node serves a gateway, and the chain does not reorganize under it.
* A transaction runs alone (the chain), and a mutex excludes (tokio), within its process.
* Every plan in Projection comes from a gateway, as in the repository.
* DataFusion resolves names as `Evaluation` does and returns the rows of what is
  registered; `AcceptsShadowing` is FALSE (see Observations).
* The versions of migrations are timestamps, and checkouts have no gaps
  (`VersionsAssumption`).
* In Relations and Catalog keys are single columns, and every error ends the batch;
  which error it is does not matter.
* Integers do not overflow: revisions, epochs and versions are 64-bit counters of
  committed transactions.

## What is not modelled

* Of the query adapter: types, limits of time and memory, conversion of batches, the
  plan DataFusion makes. Of the REST translation: operators other than equality, and/or,
  order, column selection, JSON paths, and the text of mutations, whose statements are
  SqlEngine's. Rows come in the order of their identifiers.
* Expression evaluation, types and casts, generated and identity values, CHECK
  evaluation on rows, what a SELECT lists and computes. The models keep what the properties tell apart:
  selections, values, who speaks of which column.
* Login (`auth.rs` challenge and identity provider: verification is the step
  `Authenticate`), the instance endpoints, the shape of responses, filters on the result
  of an rpc.
* Indexes: they have no effect in the code.
* The dashboard, the documentation site, the scripts, the deployment.
* The SDK keeps one access token; the answer of any session exchange overwrites it, a
  late one too. No document says which one should stay, so there is nothing to check.
* The CLI's `sql` command: one request.

## Plan

Done, in the order of importance: the contract (Authority, CanonicalState and
PlanExecution, KurabaseSchema), the projection, the gateway, the cache, the SQL core's
statements and definitions, queries and REST reads, migrations.

Next to model:

1. Results of an rpc as a relation of their own, with filters and windows.
2. Verification of identity tokens in `auth.rs` as a step of Gateway's handlers.
3. The row effects of DDL in SqlEngine's batches (deferred constraints still pending
   when CREATE POLICY validates).
