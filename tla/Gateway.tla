------------------------------ MODULE Gateway ------------------------------
(* A gateway between clients and the contract: the handlers of main.rs     *)
(* with their awaits, the writer lock, the transactions they send and the  *)
(* receipts they wait for, beside the administration of the contract.      *)
(*                                                                         *)
(* The database is one row with one counter, so that a statement that is   *)
(* planned on one state and committed on another shows.  A snapshot is the *)
(* contract's state at the head of the chain (module Projection: replay    *)
(* restores it); one node serves all calls, and it does not reorganize.    *)
(* Clients present session tokens that the user signed; the signature is   *)
(* the user himself.                                                       *)
EXTENDS KurabaseSchema

CONSTANTS
    Request,        \* the requests clients make, each once
    Kinds,          \* among "read", "ensure" and "increment"
    Endpoints,      \* among "table", "rpc" and "sql"
    signer,         \* the gateway's own account
    Nobody          \* no request

ASSUME GatewayAssumption ==
    /\ signer \in Account
    /\ Nobody \notin Request
    /\ Table # {} /\ RowId # {} /\ Column # {}
    /\ Kinds \subseteq {"read", "ensure", "increment"}
    /\ Endpoints \subseteq {"table", "rpc", "sql"}

VARIABLES
    requests,       \* the state of every request and its handler
    writer,         \* App.writer: the request that holds the lock, or Nobody
    mempool,        \* transactions the node has accepted, in nonce order
    receipts        \* what became of a request's transaction when mined

gatewayProcessVars == <<requests, writer>>
systemVars == <<schemaVars, gatewayProcessVars, mempool, receipts>>

----------------------------------------------------------------------------
(* The counter: no row is 0.                                               *)
None == -1
TheRow == CHOOSE r \in Row : TRUE
TheColumn == CHOOSE c \in Column : TRUE

CounterOf(st) == IF TheRow \in st.rows THEN CellsOf(st, TheRow)[TheColumn] ELSE 0

Resulting(kind, n) ==
    CASE kind = "read"      -> n
      [] kind = "ensure"    -> IF n = 0 THEN 1 ELSE n
      [] kind = "increment" -> n + 1

(* The plan for a counter found at n.                                      *)
PlanFor(kind, n) ==
    LET op(k, column, data) ==
            [kind |-> k, table |-> TheRow[1], row |-> TheRow[2], column |-> column, data |-> data]
        insertion == IF n = 0 THEN <<op(INSERT_ROW, ZeroKey, EmptyData)>> ELSE <<>>
    IN  IF Resulting(kind, n) = n THEN <<>>
        ELSE Append(insertion, op(SET_CELL, TheColumn, Resulting(kind, n)))

(* Who a request comes from: nobody in particular, the holder of the       *)
(* project's secret key, or a user with a session.                         *)
Anonymous == [mode |-> "anonymous"]
Secret == [mode |-> "secret"]
User(session) == [mode |-> "session", session |-> session]
Actor == {Anonymous, Secret} \cup {User(s) : s \in Session}

Unused ==
    [stage |-> "unused", kind |-> "none", endpoint |-> "none", actor |-> Anonymous,
     seen |-> None, revision |-> None, reply |-> "none"]

(* Stages in which a handler is between two awaits, in their order.        *)
Pending == {"arrived", "granted", "authorized", "holding", "planned", "sent", "rereading"}

NeedsLock(q) == ~ (requests[q].endpoint = "table" /\ requests[q].kind = "read")

Advance(q, stage) == requests' = [requests EXCEPT ![q].stage = stage]

(* A handler ends: its answer goes out and its lock guard is dropped.      *)
End(q, reply) ==
    /\ requests' = [requests EXCEPT ![q].stage = "done", ![q].reply = reply]
    /\ writer' = IF writer = q THEN Nobody ELSE writer

Outside == UNCHANGED <<schemaVars, mempool, receipts>>

GatewayInit ==
    /\ SchemaInit
    /\ requests = [q \in Request |-> Unused]
    /\ writer = Nobody
    /\ mempool = <<>>
    /\ receipts = [q \in Request |-> [status |-> "none", value |-> None]]

Arrive(q, kind, endpoint, actor) ==
    /\ requests[q].stage = "unused"
    /\ endpoint = "sql" => actor = Secret
    /\ requests' = [requests EXCEPT ![q] =
                      [Unused EXCEPT !.stage = "arrived", !.kind = kind,
                                     !.endpoint = endpoint, !.actor = actor]]
    /\ UNCHANGED writer /\ Outside

(* App::auth.  For the secret key, Chain::privileged asks the contract for *)
(* the signer's role and grant, and in a later call whether the grant is   *)
(* in force.                                                               *)
Authenticate(q) ==
    LET actor == requests[q].actor
    IN  /\ requests[q].stage = "arrived"
        /\ CASE actor.mode = "anonymous" -> Advance(q, "authorized") /\ UNCHANGED writer
             [] actor.mode = "session" ->
                   IF actor.session.gateway = signer /\ SessionValid(actor.session, actor.session.user)
                   THEN Advance(q, "authorized") /\ UNCHANGED writer
                   ELSE End(q, "unauthorized")
             [] actor.mode = "secret" ->
                   IF IsAdministrator(signer) THEN Advance(q, "authorized") /\ UNCHANGED writer
                   ELSE IF gateways[signer].privileged
                        THEN Advance(q, "granted") /\ UNCHANGED writer
                        ELSE End(q, "unauthorized")
        /\ Outside

ConfirmGrant(q) ==
    /\ requests[q].stage = "granted"
    /\ IF IsGatewayAuthorized(signer)
       THEN Advance(q, "authorized") /\ UNCHANGED writer
       ELSE End(q, "unauthorized")
    /\ Outside

LockFreely(q) ==    \* fault: no mutual exclusion
    /\ requests[q].stage = "authorized"
    /\ NeedsLock(q)
    /\ writer' = q
    /\ Advance(q, "holding")
    /\ Outside

Lock(q) ==
    /\ requests[q].stage = "authorized"
    /\ NeedsLock(q)
    /\ writer = Nobody
    /\ writer' = q
    /\ Advance(q, "holding")
    /\ Outside

(* current(), the statement on a clone, and the first lines of commit, up  *)
(* to the next await: the handler has its plan and what it will answer. A  *)
(* statement may fail; an anonymous request may plan nothing.              *)
Snapshot(q) ==
    LET n == CounterOf(store)
        refused == requests[q].actor = Anonymous /\ PlanFor(requests[q].kind, n) # <<>>
    IN  /\ requests[q].stage = IF NeedsLock(q) THEN "holding" ELSE "authorized"
        /\ \/ End(q, "failed")
           \/ refused /\ End(q, "unauthorized")
           \/ /\ ~ refused
              /\ requests' = [requests EXCEPT ![q].stage = "planned", ![q].seen = n,
                                              ![q].revision = store.revision]
              /\ UNCHANGED writer
        /\ Outside

PlanOf(q) == PlanFor(requests[q].kind, requests[q].seen)

(* A finished handler answers, except that the sql handler reads the head  *)
(* of the chain once more.                                                 *)
Finish(q) == IF requests[q].endpoint = "sql" THEN Advance(q, "rereading") /\ UNCHANGED writer
                                             ELSE End(q, "ok")

AnswerUnchanged(q) ==
    /\ requests[q].stage = "planned"
    /\ PlanOf(q) = <<>>
    /\ Finish(q)
    /\ Outside

Reread(q) ==
    /\ requests[q].stage = "rereading"
    /\ End(q, "ok")
    /\ Outside

----------------------------------------------------------------------------
(* Chain::commit.  The node runs a transaction against its present state   *)
(* before it accepts it (gas estimation), and again when it mines it.      *)
TransactionOf(q) ==
    [request |-> q, revision |-> requests[q].revision, operations |-> PlanOf(q),
     actor |-> requests[q].actor]

Run(tx) ==
    \/ /\ tx.actor.mode = "session"
       /\ Execute(signer, tx.revision, tx.operations, tx.actor.session, tx.actor.session.user)
    \/ /\ tx.actor.mode = "secret"
       /\ ExecutePrivileged(signer, tx.revision, tx.operations)

Succeeds(tx) ==
    IF tx.actor.mode = "session"
    THEN /\ tx.actor.session.gateway = signer
         /\ SessionValid(tx.actor.session, tx.actor.session.user)
         /\ Apply(store, tx.revision, tx.operations, FALSE).ok
    ELSE /\ MayExecutePrivileged(signer)
         /\ Apply(store, tx.revision, tx.operations, TRUE).ok

(* send: a transaction that would revert is not accepted; of one that is,  *)
(* the acknowledgement may be lost.                                        *)
SendAndAnswer(q) ==     \* fault: the receipt is not waited for
    /\ requests[q].stage = "planned"
    /\ PlanOf(q) # <<>>
    /\ IF Succeeds(TransactionOf(q))
       THEN mempool' = Append(mempool, TransactionOf(q)) /\ Finish(q)
       ELSE End(q, "conflict") /\ UNCHANGED mempool
    /\ UNCHANGED <<schemaVars, receipts>>

Send(q) ==
    /\ requests[q].stage = "planned"
    /\ PlanOf(q) # <<>>
    /\ IF Succeeds(TransactionOf(q))
       THEN /\ mempool' = Append(mempool, TransactionOf(q))
            /\ \/ Advance(q, "sent") /\ UNCHANGED writer
               \/ End(q, "conflict")
       ELSE End(q, "conflict") /\ UNCHANGED mempool
    /\ UNCHANGED <<schemaVars, receipts>>

Mine ==
    LET tx == Head(mempool)
    IN  /\ mempool # <<>>
        /\ mempool' = Tail(mempool)
        /\ \/ /\ Run(tx)
              /\ receipts' = [receipts EXCEPT ![tx.request] =
                                 [status |-> "committed", value |-> CounterOf(store')]]
           \/ /\ ~ Succeeds(tx)
              /\ receipts' = [receipts EXCEPT ![tx.request].status = "reverted"]
              /\ UNCHANGED schemaVars
        /\ UNCHANGED gatewayProcessVars

GetReceiptOfSuccess(q) ==       \* fault: a transaction that reverted is waited for
    /\ requests[q].stage = "sent"
    /\ receipts[q].status = "committed"
    /\ Finish(q)
    /\ Outside

GetReceipt(q) ==
    /\ requests[q].stage = "sent"
    /\ receipts[q].status # "none"
    /\ IF receipts[q].status = "committed" THEN Finish(q) ELSE End(q, "conflict")
    /\ Outside

----------------------------------------------------------------------------
(* What may go wrong at an await.  A call to the node fails: commit turns  *)
(* that into the same answer as a rejected plan.                           *)
CallFails(q) ==
    /\ requests[q].stage \in Pending
    /\ End(q, IF requests[q].stage \in {"planned", "sent"} THEN "conflict" ELSE "internal")
    /\ requests[q].stage = "authorized" => ~ NeedsLock(q)
    /\ requests[q].stage = "planned" => PlanOf(q) # <<>>
    /\ Outside

(* The client hangs up, and the server drops the handler where it waits.   *)
Disconnect(q) ==
    /\ requests[q].stage \in Pending
    /\ End(q, "lost")
    /\ Outside

(* The gateway dies and starts again: only the chain remembers.            *)
Crash ==
    /\ requests' = [q \in Request |->
                       IF requests[q].stage \in Pending
                       THEN [requests[q] EXCEPT !.stage = "done", !.reply = "lost"]
                       ELSE requests[q]]
    /\ writer' = Nobody
    /\ Outside

Handle(q) ==
    \/ Authenticate(q) \/ ConfirmGrant(q) \/ Lock(q) \/ Snapshot(q)
    \/ AnswerUnchanged(q) \/ Send(q) \/ GetReceipt(q) \/ Reread(q)

GatewayNext ==
    \/ \E q \in Request :
        \/ \E kind \in Kinds, endpoint \in Endpoints, actor \in Actor :
              Arrive(q, kind, endpoint, actor)
        \/ Handle(q)
        \/ CallFails(q)
        \/ Disconnect(q)
    \/ Mine
    \/ Crash
    \/ AuthorityNext /\ UNCHANGED <<stateVars, gatewayProcessVars, mempool, receipts>>

(* A handler that is not waiting runs; the lock serves its waiters in      *)
(* turn; the chain mines what it has accepted.                             *)
GatewayFairness ==
    /\ \A q \in Request :
          /\ WF_systemVars(Authenticate(q) \/ ConfirmGrant(q) \/ Snapshot(q)
                            \/ AnswerUnchanged(q) \/ Send(q) \/ GetReceipt(q) \/ Reread(q))
          /\ SF_systemVars(Lock(q))
    /\ WF_systemVars(Mine)

GatewaySpec == GatewayInit /\ [][GatewayNext]_systemVars
FairGatewaySpec == GatewaySpec /\ GatewayFairness

----------------------------------------------------------------------------
(* The writer lock does its work: as long as no handler has walked away    *)
(* from a transaction it sent, the plan of a handler that waits for its    *)
(* transaction is fresh, so that a gateway that is the only writer of its  *)
(* contract never runs into a conflict with itself (table, rpc, sql).      *)
Abandoned(q) ==
    /\ requests[q].stage = "done"
    /\ \/ \E i \in DOMAIN mempool : mempool[i].request = q
       \/ receipts[q].status = "committed" /\ requests[q].reply # "ok"

NoSelfConflict ==
    (\A q \in Request : ~ Abandoned(q))
        => \A q \in Request :
              /\ NeedsLock(q)
              /\ requests[q].stage \in {"planned", "sent"}
              /\ receipts[q].status = "none"
              => requests[q].revision = store.revision

(* The gateway implements the promise of Service to its clients: a call    *)
(* that is answered took effect once, at one instant between the call and  *)
(* the answer, and the answer, computed before the commit, is that of the  *)
(* instant; across crashes, lost acknowledgements and transactions that    *)
(* land after their handler is gone.                                       *)
CallOf(q) ==
    LET request == requests[q]
    IN  [kind |-> request.kind,
         effect |-> IF receipts[q].status = "committed" THEN receipts[q].value
                    ELSE IF request.seen # None /\ PlanOf(q) = <<>> THEN request.seen ELSE None,
         reply |-> IF request.reply \in {"none", "ok"} THEN request.reply ELSE "refused",
         value |-> IF request.reply = "ok" THEN Resulting(request.kind, request.seen) ELSE None]

Promise == INSTANCE Service WITH counter <- CounterOf(store),
                                 calls <- [q \in Request |-> CallOf(q)]
ImplementsService == Promise!ServiceSpec

(* Every request ends: the lock is handed on whatever becomes of its       *)
(* holder, and no handler waits for what cannot come.                      *)
EveryRequestEnds ==
    \A q \in Request : requests[q].stage = "arrived" ~> requests[q].stage = "done"

(* The answer to a failed commit says that the chain rejected the plan     *)
(* (ApiError::chain).                                                      *)
RejectionsAreFinal ==
    \A q \in Request : requests[q].reply = "conflict" => receipts[q].status # "committed"
=============================================================================
