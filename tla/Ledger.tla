------------------------------- MODULE Ledger -------------------------------
(* What the contract promises about its canonical state: it moves from one *)
(* revision to the next by whole plans, each decided against the state it  *)
(* finds, and the events it emits are the plans it committed.              *)
EXTENDS CanonicalState

CONSTANTS Plans, MaxRevision

VARIABLES store, log

Commit(expectedRevision, operations, privileged) ==
    LET result == Apply(store, expectedRevision, operations, privileged)
    IN  /\ result.ok
        /\ store' = result.store
        /\ log' = log \o EventsOf(operations, result.store.revision)

LedgerInit == store = EmptyStore /\ log = <<>>

LedgerNext ==
    /\ store.revision < MaxRevision
    /\ \E ops \in Plans, privileged \in BOOLEAN :
          Commit(store.revision, ops, privileged)

LedgerSpec == LedgerInit /\ [][LedgerNext]_<<store, log>>
=============================================================================
