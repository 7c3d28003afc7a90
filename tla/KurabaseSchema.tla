--------------------------- MODULE KurabaseSchema ---------------------------
(* The whole contract: the administration of Authority and the canonical   *)
(* state of CanonicalState, joined by the two entry points through which a *)
(* plan reaches the state.  execute serves a gateway acting for a user     *)
(* under the user's session; executePrivileged serves administrators and   *)
(* privileged gateways acting for themselves, and alone may write the      *)
(* catalog and the migration history.                                      *)
EXTENDS Authority, CanonicalState

CONSTANTS
    Plans,          \* the sequences of operations executors submit
    MaxRevision     \* bound on the number of committed plans

ASSUME SchemaAssumption == Plans \subseteq Seq(Operation) /\ MaxRevision \in Nat

VARIABLES
    store,      \* the canonical state
    log,        \* OperationApplied events, oldest first
    commits     \* PlanCommitted events, oldest first

stateVars == <<store, log, commits>>
schemaVars == <<authorityVars, stateVars>>

(* Stands for the session in the events of executePrivileged, which has    *)
(* none.                                                                   *)
NoSession == [gateway |-> ZeroAddress]

(* planHash is kept as the operations it covers.                           *)
PlanCommitted(executor, session, operations) ==
    [executor |-> executor, session |-> session, operations |-> operations]

(* _apply, and the events of a plan that commits.                          *)
Commit(executor, session, expectedRevision, operations, privileged) ==
    LET result == Apply(store, expectedRevision, operations, privileged)
    IN  /\ result.ok
        /\ store' = result.store
        /\ log' = log \o EventsOf(operations, result.store.revision)
        /\ commits' = Append(commits, PlanCommitted(executor, session, operations))
        /\ UNCHANGED authorityVars

ExecuteUnbound(sender, expectedRevision, operations, session, signer) ==
    \* fault: the catalog is open to sessions
    /\ session.gateway = sender
    /\ SessionValid(session, signer)
    /\ Commit(sender, session, expectedRevision, operations, TRUE)

Execute(sender, expectedRevision, operations, session, signer) ==
    /\ session.gateway = sender
    /\ SessionValid(session, signer)
    /\ Commit(sender, session, expectedRevision, operations, FALSE)

ExecutePrivileged(sender, expectedRevision, operations) ==
    /\ MayExecutePrivileged(sender)
    /\ Commit(sender, NoSession, expectedRevision, operations, TRUE)

SchemaInit ==
    /\ AuthorityInit
    /\ store = EmptyStore
    /\ log = <<>>
    /\ commits = <<>>

SchemaNext ==
    \/ AuthorityNext /\ UNCHANGED stateVars
    \/ /\ store.revision < MaxRevision
       /\ \E sender \in Account, r \in 0..MaxRevision, ops \in Plans :
             \/ \E s \in Session, signer \in Account : Execute(sender, r, ops, s, signer)
             \/ ExecutePrivileged(sender, r, ops)

SchemaSpec == SchemaInit /\ [][SchemaNext]_schemaVars

----------------------------------------------------------------------------
(* Catalog entries and migration marks only ever come from a plan its      *)
(* executor committed for itself, never from one committed under a user's  *)
(* session, whoever the user is (execute, _apply).                         *)
OnlyServiceWritesCatalog ==
    \A i \in DOMAIN log :
        log[i].operation.kind \in CatalogKinds
            => /\ log[i].revision \in DOMAIN commits
               /\ commits[log[i].revision].session = NoSession

(* Once a session cannot be used, for whatever reason, no commit is made   *)
(* under it, however the gateway and its plans were prepared before        *)
(* (execute, revokeSession, revokeUserSessions, setGateway, setDeveloper,  *)
(* transferOwnership).                                                     *)
CommitsUnder(s) == {i \in DOMAIN commits : commits[i].session = s}

DeadSessionsCommitNothing ==
    [][\A s \in Session :
          \/ Revoked(s)
          \/ now >= s.expiresAt
          \/ ~ IsGatewayAuthorized(s.gateway)
          \/ gateways[s.gateway].epoch # s.gatewayEpoch
          => CommitsUnder(s)' = CommitsUnder(s)]_schemaVars
=============================================================================
