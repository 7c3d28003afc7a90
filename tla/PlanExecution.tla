--------------------------- MODULE PlanExecution ---------------------------
(* _apply as the chain runs it: a transaction in flight works through its  *)
(* operations one by one and either finishes, and what it staged becomes   *)
(* the contract's storage, or reverts, and nothing it staged remains.  The *)
(* chain runs one transaction at a time, so nothing else happens while one *)
(* is in flight.  The plans offered are those of the constant Plans, made  *)
(* against any revision: executors outside the gateway write plans too.    *)
EXTENDS CanonicalState

CONSTANTS
    Plans,          \* the sequences of operations executors submit
    MaxRevision     \* bound on the number of committed plans

ASSUME PlansAssumption ==
    /\ Plans \subseteq Seq(Operation)
    /\ MaxRevision \in Nat

VARIABLES
    store,      \* the contract's storage between transactions
    log,        \* the OperationApplied events of committed transactions
    tx          \* the transaction in flight, or Idle

executionVars == <<store, log, tx>>

Idle == [status |-> "idle"]
InFlight(privileged, operations) ==
    [status |-> "running", privileged |-> privileged, operations |-> operations,
     i |-> 1, staged |-> store]

ExecutionTypeOK ==
    /\ StoreTypeOK(store)
    /\ log \in Seq([revision: Nat, index: Nat, operation: Operation])
    /\ \/ tx = Idle
       \/ /\ tx = [status |-> "running", privileged |-> tx.privileged,
                   operations |-> tx.operations, i |-> tx.i, staged |-> tx.staged]
          /\ tx.privileged \in BOOLEAN
          /\ tx.operations \in Plans
          /\ tx.i \in 1..Len(tx.operations) + 1
          /\ StoreTypeOK(tx.staged)

ExecutionInit ==
    /\ store = EmptyStore
    /\ log = <<>>
    /\ tx = Idle

(* A call whose first checks pass; one that fails them changes nothing.    *)
Begin(expectedRevision, operations, privileged) ==
    /\ tx.status = "idle"
    /\ store.revision < MaxRevision
    /\ PlanAdmitted(store, expectedRevision, operations)
    /\ tx' = InFlight(privileged, operations)
    /\ UNCHANGED <<store, log>>

(* One iteration of the loop over the operations.                          *)
Iterate ==
    /\ tx.status = "running"
    /\ tx.i =< Len(tx.operations)
    /\ Accepts(tx.staged, tx.operations[tx.i], tx.privileged)
    /\ tx' = [tx EXCEPT !.i = @ + 1,
                        !.staged = ApplyOperation(@, tx.operations[tx.i], store.revision + 1)]
    /\ UNCHANGED <<store, log>>

RevertKeepingWork ==        \* fault: what the loop did so far stays
    /\ tx.status = "running"
    /\ tx.i =< Len(tx.operations)
    /\ ~ Accepts(tx.staged, tx.operations[tx.i], tx.privileged)
    /\ store' = tx.staged
    /\ tx' = Idle
    /\ UNCHANGED log

Revert ==
    /\ tx.status = "running"
    /\ tx.i =< Len(tx.operations)
    /\ ~ Accepts(tx.staged, tx.operations[tx.i], tx.privileged)
    /\ tx' = Idle
    /\ UNCHANGED <<store, log>>

Finish ==
    /\ tx.status = "running"
    /\ tx.i > Len(tx.operations)
    /\ store' = [tx.staged EXCEPT !.revision = store.revision + 1]
    /\ log' = log \o EventsOf(tx.operations, store.revision + 1)
    /\ tx' = Idle

ExecutionNext ==
    \/ \E r \in 0..MaxRevision, ops \in Plans, p \in BOOLEAN : Begin(r, ops, p)
    \/ Iterate
    \/ Revert
    \/ Finish

ExecutionSpec == ExecutionInit /\ [][ExecutionNext]_executionVars

----------------------------------------------------------------------------
Stores == {store} \cup IF tx.status = "running" THEN {tx.staged} ELSE {}

Incarnated(st) ==
    /\ \A k \in DOMAIN st.cells : k.generation \in 1..st.generation[k.row]
    /\ \A r \in st.rows : st.generation[r] >= 1

(* A cell belongs to an incarnation its row has reached, so that the       *)
(* generation an INSERT_ROW moves to holds no cell yet (INSERT_ROW,        *)
(* _cellKey); a live row has been incarnated at least once.  In storage    *)
(* and at every point of the loop.                                         *)
CellsBelongToIncarnations == \A st \in Stores : Incarnated(st)

(* No row is stamped with a revision that does not exist yet (_apply), the *)
(* one under way aside.                                                    *)
VersionsAreReached ==
    /\ \A r \in Row : store.version[r] =< store.revision
    /\ tx.status = "running" => \A r \in Row : tx.staged.version[r] =< store.revision + 1

(* A row that comes into being has no cells, whatever an earlier row of    *)
(* the same name left behind (INSERT_ROW, getCell).                        *)
InsertedRowsAreEmpty ==
    [][\A r \in Row :
          /\ tx.status = "running" /\ tx'.status = "running"
          /\ r \notin tx.staged.rows /\ r \in tx'.staged.rows
          => DOMAIN CellsOf(tx'.staged, r) = {}]_executionVars

(* Whoever remembers a row's version notices every later change to it:     *)
(* creation, deletion, deletion and re-creation, and any change of a cell  *)
(* stamp the row with the new revision.                                    *)
VersionTellsOfChange ==
    [][\A r \in Row :
          \/ (r \in store.rows) # (r \in store'.rows)
          \/ CellsOf(store, r) # CellsOf(store', r)
          => store'.version[r] = store'.revision /\ store'.version[r] > store.version[r]
       ]_executionVars

(* The event log accounts for the storage: its revisions are the revisions *)
(* reached, without a gap and each numbered from 0, and a row's version is *)
(* the revision of the last event that names the row.                      *)
EventsOfRow(r) ==
    {i \in DOMAIN log : log[i].operation.kind \in RowKinds /\ RowOf(log[i].operation) = r}

LogAccountsForVersions ==
    /\ \A i \in DOMAIN log :
          \/ log[i].index = 0 /\ log[i].revision = (IF i = 1 THEN 1 ELSE log[i-1].revision + 1)
          \/ i > 1 /\ log[i].index = log[i-1].index + 1 /\ log[i].revision = log[i-1].revision
    /\ store.revision = IF log = <<>> THEN 0 ELSE Last(log).revision
    /\ \A r \in Row :
          store.version[r] = IF EventsOfRow(r) = {} THEN 0
                                                   ELSE log[Max(EventsOfRow(r))].revision

(* The loop implements the atomic specification: between transactions the  *)
(* storage only ever moves by a whole plan.                                *)
Atomic == INSTANCE Ledger
ImplementsLedger == Atomic!LedgerSpec
=============================================================================
