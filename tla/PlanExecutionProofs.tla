------------------------ MODULE PlanExecutionProofs ------------------------
(* For every set of tables, rows, columns and values, every set of plans   *)
(* and every bound: the loop of _apply keeps its storage well formed, no   *)
(* cell outlives its row's incarnation, a row's version tells of every     *)
(* change to the row, a plan is atomic, and the event log accounts for the *)
(* storage.                                                                *)
EXTENDS PlanExecution, ApplyProofs, SequenceTheorems

USE CanonicalAssumption DEF PUT_CATALOG, DELETE_CATALOG, INSERT_ROW, SET_CELL, DELETE_CELL,
    DELETE_ROW, MARK_MIGRATION

(* The call in flight works on operations of the plan it was given.        *)
LEMMA OperationInHand ==
  ASSUME ExecutionTypeOK, tx.status = "running", tx.i =< Len(tx.operations)
  PROVE  /\ tx.operations[tx.i] \in Operation
         /\ tx.i \in 1..Len(tx.operations)
         /\ StoreTypeOK(tx.staged)
         /\ tx.privileged \in BOOLEAN
         /\ store.revision \in Nat /\ store.revision + 1 \in Nat
BY PlansAssumption DEF ExecutionTypeOK, Idle, StoreTypeOK

(* What Iterate leaves in tx.                                              *)
LEMMA AfterIterate ==
  ASSUME ExecutionTypeOK, Iterate
  PROVE  tx' = [status |-> "running", privileged |-> tx.privileged,
                operations |-> tx.operations, i |-> tx.i + 1,
                staged |-> ApplyOperation(tx.staged, tx.operations[tx.i], store.revision + 1)]
<1> DEFINE K == tx.i + 1
           S == ApplyOperation(tx.staged, tx.operations[tx.i], store.revision + 1)
           X == [tx EXCEPT !.i = K]
<1>1. tx = [status |-> "running", privileged |-> tx.privileged,
            operations |-> tx.operations, i |-> tx.i, staged |-> tx.staged]
  BY DEF Iterate, ExecutionTypeOK, Idle
<1>2. tx' = [tx EXCEPT !.i = K, !.staged = S]
  BY DEF Iterate
<1> HIDE DEF S, K
<1>3. X = [status |-> "running", privileged |-> tx.privileged,
           operations |-> tx.operations, i |-> K, staged |-> tx.staged]
  BY <1>1
<1>4. tx' = [X EXCEPT !.staged = S]
  BY <1>2
<1> HIDE DEF X
<1>5. tx' = [status |-> "running", privileged |-> tx.privileged,
             operations |-> tx.operations, i |-> K, staged |-> S]
  BY <1>3, <1>4
<1>6. QED
  BY <1>5 DEF S, K

(* Storage, events and the call in flight keep their types (_apply).       *)
THEOREM ExecutionTypeCorrect == ExecutionSpec => []ExecutionTypeOK
<1>1. ExecutionInit => ExecutionTypeOK
  BY DEF ExecutionInit, ExecutionTypeOK, EmptyStore, StoreTypeOK, Mapping, Idle
<1>2. ExecutionTypeOK /\ [ExecutionNext]_executionVars => ExecutionTypeOK'
  <2> SUFFICES ASSUME ExecutionTypeOK, [ExecutionNext]_executionVars
               PROVE  ExecutionTypeOK'
    OBVIOUS
  <2>1. ASSUME NEW r \in 0..MaxRevision, NEW ops \in Plans, NEW p \in BOOLEAN, Begin(r, ops, p)
        PROVE  ExecutionTypeOK'
    BY <2>1, PlansAssumption DEF Begin, InFlight, PlanAdmitted, ExecutionTypeOK
  <2>2. CASE Iterate
    <3>1. /\ StoreTypeOK(tx'.staged)
          /\ tx.i + 1 \in 1..Len(tx.operations) + 1
      <4>1. /\ tx.status = "running" /\ tx.i =< Len(tx.operations)
            /\ Accepts(tx.staged, tx.operations[tx.i], tx.privileged)
        BY <2>2 DEF Iterate
      <4>2. StoreTypeOK(ApplyOperation(tx.staged, tx.operations[tx.i], store.revision + 1))
        BY <4>1, OperationInHand, OperationEffect
      <4>3. tx.i + 1 \in 1..Len(tx.operations) + 1
        BY <4>1, OperationInHand
      <4>4. QED
        BY <2>2, <4>2, <4>3, AfterIterate
    <3>2. tx.operations \in Plans /\ tx.privileged \in BOOLEAN
      BY <2>2 DEF Iterate, ExecutionTypeOK, Idle
    <3>3. QED
      BY <2>2, <3>1, <3>2, AfterIterate DEF Iterate, ExecutionTypeOK
  <2>3. CASE Revert
    BY <2>3 DEF Revert, ExecutionTypeOK
  <2>4. CASE Finish
    <3>1. StoreTypeOK(tx.staged) /\ tx.operations \in Seq(Operation) /\ store.revision \in Nat
      BY <2>4, PlansAssumption DEF Finish, ExecutionTypeOK, Idle, StoreTypeOK
    <3>2. StoreTypeOK(store')
      <4>1. store' = [tx.staged EXCEPT !.revision = store.revision + 1]
        BY <2>4 DEF Finish
      <4>2. QED
        BY <3>1, <4>1 DEF StoreTypeOK
    <3>3. EventsOf(tx.operations, store.revision + 1)
             \in Seq([revision: Nat, index: Nat, operation: Operation])
      <4>1. ASSUME NEW i \in 1..Len(tx.operations)
            PROVE  /\ i - 1 \in Nat /\ store.revision + 1 \in Nat
                   /\ tx.operations[i] \in Operation
        BY <3>1
      <4>2. DOMAIN tx.operations = 1..Len(tx.operations) /\ Len(tx.operations) \in Nat
        BY <3>1
      <4>3. EventsOf(tx.operations, store.revision + 1)
               \in [1..Len(tx.operations) -> [revision: Nat, index: Nat, operation: Operation]]
        BY <4>1, <4>2 DEF EventsOf
      <4>4. QED
        BY <4>2, <4>3, SeqDef
    <3>4. QED
      BY <2>4, <3>2, <3>3 DEF Finish, ExecutionTypeOK
  <2>5. CASE UNCHANGED executionVars
    BY <2>5 DEF executionVars, ExecutionTypeOK
  <2>6. QED
    BY <2>1, <2>2, <2>3, <2>4, <2>5 DEF ExecutionNext
<1>3. QED
  BY <1>1, <1>2, PTL DEF ExecutionSpec

----------------------------------------------------------------------------
(* One operation keeps cells inside the incarnations of their rows, and a  *)
(* row it brings into being has none.                                      *)
LEMMA OperationKeepsIncarnations ==
  ASSUME NEW st, StoreTypeOK(st), Incarnated(st), NEW op \in Operation, NEW p \in BOOLEAN,
         Accepts(st, op, p), NEW n \in Nat
  PROVE  /\ Incarnated(ApplyOperation(st, op, n))
         /\ \A q \in Row : q \notin st.rows /\ q \in ApplyOperation(st, op, n).rows
               => DOMAIN CellsOf(ApplyOperation(st, op, n), q) = {}
<1> DEFINE res == ApplyOperation(st, op, n)
           r == RowOf(op)
<1>0. /\ st.generation \in [Row -> Nat] /\ st.rows \subseteq Row
      /\ DOMAIN st.cells \subseteq CellKey
      /\ \A k \in CellKey : k.row \in Row /\ k.generation \in Nat
  BY DEF StoreTypeOK, Mapping, CellKey
<1>1. CASE RowsKept(st, res)
  BY <1>1 DEF RowsKept, Incarnated
<1>2. CASE r \in Row /\ RowInserted(st, res, r)
  <2>1. Incarnated(res)
    BY <1>0, <1>2 DEF Incarnated, RowInserted
  <2>2. ASSUME NEW c \in Column, CellKeyOf(res, r, c) \in DOMAIN res.cells
        PROVE  FALSE
    BY <1>0, <1>2, <2>2 DEF Incarnated, CellKeyOf, RowInserted
  <2>3. QED
    BY <1>2, <2>1, <2>2 DEF CellsOf, RowInserted
<1>3. CASE RowDeleted(st, res, r)
  BY <1>3 DEF RowDeleted, Incarnated
<1>4. CASE CellWritten(st, res, r, op)
  <2>1. DOMAIN res.cells \subseteq DOMAIN st.cells \cup {CellKeyOf(st, r, op.column)}
    BY <1>4 DEF Put, Drop, CellWritten
  <2>2. Incarnated(res)
    BY <1>0, <1>4, <2>1 DEF Incarnated, CellKeyOf, CellWritten
  <2>3. QED
    BY <1>4, <2>2 DEF CellWritten
<1>5. QED
  BY <1>1, <1>2, <1>3, <1>4, OperationEffect

(* What the step's operation is applied to, in the terms of the lemmas.    *)
LEMMA IterateApplies ==
  ASSUME ExecutionTypeOK, Iterate
  PROVE  /\ tx.status = "running" /\ tx'.status = "running"
         /\ StoreTypeOK(tx.staged)
         /\ store.revision + 1 \in Nat
         /\ \E op \in Operation, p \in BOOLEAN :
               /\ Accepts(tx.staged, op, p)
               /\ tx'.staged = ApplyOperation(tx.staged, op, store.revision + 1)
         /\ UNCHANGED <<store, log>>
<1>1. /\ tx.status = "running" /\ tx.i =< Len(tx.operations)
      /\ Accepts(tx.staged, tx.operations[tx.i], tx.privileged)
      /\ UNCHANGED <<store, log>>
  BY DEF Iterate
<1>2. /\ tx'.status = "running"
      /\ tx'.staged = ApplyOperation(tx.staged, tx.operations[tx.i], store.revision + 1)
  BY AfterIterate
<1>3. QED
  BY <1>1, <1>2, OperationInHand

(* No cell outlives the incarnation of its row, in storage or mid-loop.    *)
THEOREM Incarnations == ExecutionSpec => []CellsBelongToIncarnations
<1>1. ExecutionInit => CellsBelongToIncarnations
  BY DEF ExecutionInit, CellsBelongToIncarnations, Stores, Incarnated, EmptyStore, Idle
<1>2. ExecutionTypeOK /\ CellsBelongToIncarnations /\ [ExecutionNext]_executionVars
         => CellsBelongToIncarnations'
  <2> SUFFICES ASSUME ExecutionTypeOK, CellsBelongToIncarnations, [ExecutionNext]_executionVars
               PROVE  CellsBelongToIncarnations'
    OBVIOUS
  <2>1. ASSUME NEW r \in 0..MaxRevision, NEW ops \in Plans, NEW p \in BOOLEAN, Begin(r, ops, p)
        PROVE  CellsBelongToIncarnations'
    BY <2>1 DEF Begin, InFlight, CellsBelongToIncarnations, Stores
  <2>2. CASE Iterate
    <3>1. Incarnated(store) /\ Incarnated(tx.staged)
      BY <2>2, IterateApplies DEF CellsBelongToIncarnations, Stores
    <3>2. Incarnated(tx'.staged)
      BY <2>2, <3>1, IterateApplies, OperationKeepsIncarnations
    <3>3. QED
      BY <2>2, <3>1, <3>2, IterateApplies DEF CellsBelongToIncarnations, Stores
  <2>3. CASE Revert
    BY <2>3 DEF Revert, Idle, CellsBelongToIncarnations, Stores
  <2>4. CASE Finish
    <3>1. Incarnated(tx.staged) /\ StoreTypeOK(tx.staged)
      BY <2>4 DEF Finish, CellsBelongToIncarnations, Stores, ExecutionTypeOK, Idle
    <3>2. /\ store'.cells = tx.staged.cells /\ store'.rows = tx.staged.rows
          /\ store'.generation = tx.staged.generation
      BY <2>4, <3>1 DEF Finish, StoreTypeOK
    <3>3. Incarnated(store')
      BY <3>1, <3>2 DEF Incarnated
    <3>4. QED
      BY <2>4, <3>3 DEF Finish, Idle, CellsBelongToIncarnations, Stores
  <2>5. CASE UNCHANGED executionVars
    BY <2>5 DEF executionVars, CellsBelongToIncarnations, Stores
  <2>6. QED
    BY <2>1, <2>2, <2>3, <2>4, <2>5 DEF ExecutionNext
<1>3. QED
  BY <1>1, <1>2, ExecutionTypeCorrect, PTL DEF ExecutionSpec

(* A row comes into being without cells.                                   *)
THEOREM NewRowsAreEmpty == ExecutionSpec => InsertedRowsAreEmpty
<1>1. ASSUME ExecutionTypeOK, CellsBelongToIncarnations, [ExecutionNext]_executionVars,
             NEW r \in Row, tx.status = "running", tx'.status = "running",
             r \notin tx.staged.rows, r \in tx'.staged.rows
      PROVE  DOMAIN CellsOf(tx'.staged, r) = {}
  <2>1. CASE Iterate
    <3>1. Incarnated(tx.staged)
      BY <1>1 DEF CellsBelongToIncarnations, Stores
    <3>2. QED
      BY <1>1, <2>1, <3>1, IterateApplies, OperationKeepsIncarnations
  <2>2. QED
    BY <1>1, <2>1 DEF ExecutionNext, Begin, Revert, Finish, Idle, executionVars
<1>2. ExecutionTypeOK /\ CellsBelongToIncarnations /\ [ExecutionNext]_executionVars
        => [\A r \in Row :
               /\ tx.status = "running" /\ tx'.status = "running"
               /\ r \notin tx.staged.rows /\ r \in tx'.staged.rows
               => DOMAIN CellsOf(tx'.staged, r) = {}]_executionVars
  BY <1>1
<1>3. QED
  BY <1>2, ExecutionTypeCorrect, Incarnations, PTL DEF ExecutionSpec, InsertedRowsAreEmpty

----------------------------------------------------------------------------
(* An operation stamps the row it concerns and leaves every other alone.   *)
SameRow(st, res, q) ==
    /\ q \in res.rows <=> q \in st.rows
    /\ CellsOf(res, q) = CellsOf(st, q)

LEMMA OperationIsLocal ==
  ASSUME NEW st, StoreTypeOK(st), NEW op \in Operation, NEW p \in BOOLEAN,
         Accepts(st, op, p), NEW n \in Nat, NEW q \in Row
  PROVE  \/ ApplyOperation(st, op, n).version[q] = n
         \/ /\ ApplyOperation(st, op, n).version[q] = st.version[q]
            /\ SameRow(st, ApplyOperation(st, op, n), q)
<1> DEFINE res == ApplyOperation(st, op, n)
           r == RowOf(op)
<1>0. st.version \in [Row -> Nat] /\ st.generation \in [Row -> Nat]
  BY DEF StoreTypeOK
<1>1. CASE RowsKept(st, res)
  <2>1. res.version[q] = st.version[q] /\ (q \in res.rows <=> q \in st.rows)
    BY <1>1 DEF RowsKept
  <2>2. CellsOf(res, q) = CellsOf(st, q)
    BY <1>1 DEF RowsKept, CellsOf, CellKeyOf
  <2>3. QED
    BY <2>1, <2>2 DEF SameRow
<1>2. ASSUME r \in Row, res.version = [st.version EXCEPT ![r] = n],
             \/ RowInserted(st, res, r)
             \/ RowDeleted(st, res, r)
             \/ CellWritten(st, res, r, op)
      PROVE  \/ res.version[q] = n
             \/ res.version[q] = st.version[q] /\ SameRow(st, res, q)
  <2>1. CASE q = r
    BY <1>0, <1>2, <2>1
  <2>2. CASE q # r
    <3>1. res.version[q] = st.version[q]
      BY <1>0, <1>2, <2>2
    <3>2. /\ q \in res.rows <=> q \in st.rows
          /\ res.generation[q] = st.generation[q]
      BY <1>0, <1>2, <2>2 DEF RowInserted, RowDeleted, CellWritten
    <3>3. ASSUME NEW c \in Column
          PROVE  /\ CellKeyOf(res, q, c) = CellKeyOf(st, q, c)
                 /\ CellKeyOf(st, q, c) \in DOMAIN res.cells
                       <=> CellKeyOf(st, q, c) \in DOMAIN st.cells
                 /\ CellKeyOf(st, q, c) \in DOMAIN st.cells
                       => res.cells[CellKeyOf(st, q, c)] = st.cells[CellKeyOf(st, q, c)]
      <4>1. CellKeyOf(res, q, c) = CellKeyOf(st, q, c)
        BY <3>2 DEF CellKeyOf
      <4>2. CellKeyOf(st, q, c) # CellKeyOf(st, r, op.column)
        BY <2>2 DEF CellKeyOf
      <4>3. QED
        BY <1>2, <4>1, <4>2 DEF RowInserted, RowDeleted, CellWritten, Put, Drop
    <3>4. CellsOf(res, q) = CellsOf(st, q)
      BY <3>2, <3>3 DEF CellsOf
    <3>5. QED
      BY <3>1, <3>2, <3>4 DEF SameRow
  <2>3. QED
    BY <2>1, <2>2
<1>3. QED
  BY <1>1, <1>2, OperationEffect

(* A row of the staged storage is stamped with the revision under way, or  *)
(* it is as it was when the transaction began.  With VersionsAreReached    *)
(* this is inductive.                                                      *)
StagedRowsAreStamped ==
    tx.status = "running" =>
        \A r \in Row : \/ tx.staged.version[r] = store.revision + 1
                       \/ /\ tx.staged.version[r] = store.version[r]
                          /\ SameRow(store, tx.staged, r)

VersionInv == VersionsAreReached /\ StagedRowsAreStamped

LEMMA VersionInvariant == ExecutionSpec => []VersionInv
<1>1. ExecutionInit => VersionInv
  BY DEF ExecutionInit, VersionInv, VersionsAreReached, StagedRowsAreStamped, EmptyStore, Idle
<1>2. ExecutionTypeOK /\ VersionInv /\ [ExecutionNext]_executionVars => VersionInv'
  <2> SUFFICES ASSUME ExecutionTypeOK, VersionInv, [ExecutionNext]_executionVars
               PROVE  VersionInv'
    OBVIOUS
  <2>0. store.revision \in Nat /\ store.version \in [Row -> Nat]
    BY DEF ExecutionTypeOK, StoreTypeOK
  <2>1. ASSUME NEW r \in 0..MaxRevision, NEW ops \in Plans, NEW p \in BOOLEAN, Begin(r, ops, p)
        PROVE  VersionInv'
    BY <2>0, <2>1 DEF Begin, InFlight, VersionInv, VersionsAreReached, StagedRowsAreStamped, SameRow
  <2>2. CASE Iterate
    <3>1. PICK op \in Operation, p \in BOOLEAN :
             /\ Accepts(tx.staged, op, p)
             /\ tx'.staged = ApplyOperation(tx.staged, op, store.revision + 1)
      BY <2>2, IterateApplies
    <3>2. /\ tx.status = "running" /\ StoreTypeOK(tx.staged) /\ UNCHANGED store
          /\ store.revision + 1 \in Nat
      BY <2>2, IterateApplies
    <3>3. ASSUME NEW r \in Row
          PROVE  \/ tx'.staged.version[r] = store.revision + 1
                 \/ /\ tx'.staged.version[r] = tx.staged.version[r]
                    /\ SameRow(tx.staged, tx'.staged, r)
      BY <3>1, <3>2, OperationIsLocal
    <3>4. VersionsAreReached'
      BY <2>0, <3>2, <3>3 DEF VersionInv, VersionsAreReached
    <3>5. StagedRowsAreStamped'
      BY <3>2, <3>3 DEF VersionInv, StagedRowsAreStamped, SameRow
    <3>6. QED
      BY <3>4, <3>5 DEF VersionInv
  <2>3. CASE Revert
    BY <2>3 DEF Revert, Idle, VersionInv, VersionsAreReached, StagedRowsAreStamped
  <2>4. CASE Finish
    <3>1. tx.status = "running" /\ StoreTypeOK(tx.staged)
      BY <2>4 DEF Finish, ExecutionTypeOK, Idle
    <3>2. store'.version = tx.staged.version /\ store'.revision = store.revision + 1
      BY <2>4, <3>1 DEF Finish, StoreTypeOK
    <3>3. QED
      BY <2>4, <3>1, <3>2 DEF Finish, Idle, VersionInv, VersionsAreReached, StagedRowsAreStamped
  <2>5. CASE UNCHANGED executionVars
    BY <2>5 DEF executionVars, VersionInv, VersionsAreReached, StagedRowsAreStamped, SameRow
  <2>6. QED
    BY <2>1, <2>2, <2>3, <2>4, <2>5 DEF ExecutionNext
<1>3. QED
  BY <1>1, <1>2, ExecutionTypeCorrect, PTL DEF ExecutionSpec

(* No row carries a revision that has not been reached.                    *)
THEOREM VersionsReached == ExecutionSpec => []VersionsAreReached
BY VersionInvariant, PTL DEF VersionInv

(* Every change to a row, its deletion and re-creation included, moves the *)
(* row's version to the new revision: a version seen before is never seen  *)
(* again with other contents.                                              *)
THEOREM VersionsTellOfChange == ExecutionSpec => VersionTellsOfChange
<1>1. ASSUME ExecutionTypeOK, VersionInv, [ExecutionNext]_executionVars, NEW r \in Row,
             \/ (r \in store.rows) # (r \in store'.rows)
             \/ CellsOf(store, r) # CellsOf(store', r)
      PROVE  store'.version[r] = store'.revision /\ store'.version[r] > store.version[r]
  <2>1. store.revision \in Nat /\ store.version \in [Row -> Nat]
    BY <1>1 DEF ExecutionTypeOK, StoreTypeOK
  <2>2. CASE Finish
    <3>1. tx.status = "running" /\ StoreTypeOK(tx.staged)
      BY <1>1, <2>2 DEF Finish, ExecutionTypeOK, Idle
    <3>2. /\ store'.version = tx.staged.version /\ store'.revision = store.revision + 1
          /\ store'.rows = tx.staged.rows /\ store'.generation = tx.staged.generation
          /\ store'.cells = tx.staged.cells
      BY <2>2, <3>1 DEF Finish, StoreTypeOK
    <3>3. CellsOf(store', r) = CellsOf(tx.staged, r)
      BY <3>2 DEF CellsOf, CellKeyOf
    <3>4. ~ SameRow(store, tx.staged, r)
      BY <1>1, <3>2, <3>3 DEF SameRow
    <3>5. tx.staged.version[r] = store.revision + 1
      BY <1>1, <3>1, <3>4 DEF VersionInv, StagedRowsAreStamped
    <3>6. QED
      BY <1>1, <2>1, <3>2, <3>5 DEF VersionInv, VersionsAreReached
  <2>3. QED
    BY <1>1, <2>2 DEF ExecutionNext, Begin, Iterate, Revert, executionVars
<1>2. ExecutionTypeOK /\ VersionInv /\ [ExecutionNext]_executionVars
        => [\A r \in Row :
               \/ (r \in store.rows) # (r \in store'.rows)
               \/ CellsOf(store, r) # CellsOf(store', r)
               => store'.version[r] = store'.revision /\ store'.version[r] > store.version[r]
           ]_executionVars
  BY <1>1
<1>3. QED
  BY <1>2, ExecutionTypeCorrect, VersionInvariant, PTL DEF ExecutionSpec, VersionTellsOfChange
----------------------------------------------------------------------------
(* Where the call in flight has got to is where the loop of the atomic     *)
(* specification is after as many operations.                              *)
LoopInv ==
    tx.status = "running" =>
        /\ store.revision < MaxRevision
        /\ PlanAdmitted(store, store.revision, tx.operations)
        /\ tx.staged.revision = store.revision
        /\ Outcome(store, tx.operations, tx.privileged, tx.i - 1)
              = Success(tx.staged)

LEMMA LoopStarts ==
  ASSUME NEW r \in 0..MaxRevision, NEW ops \in Plans, NEW p \in BOOLEAN, Begin(r, ops, p)
  PROVE  LoopInv'
<1>1. /\ IsPlan(ops)
      /\ tx' = InFlight(p, ops) /\ store' = store
      /\ store.revision < MaxRevision /\ PlanAdmitted(store, store.revision, ops)
  BY PlansAssumption DEF IsPlan, Begin, PlanAdmitted
<1>2. Outcome(store, ops, p, 0) = Success(store)
  BY <1>1, OutcomeStarts
<1>3. /\ tx'.operations = ops /\ tx'.privileged = p /\ tx'.i - 1 = 0
      /\ tx'.staged = store
  BY <1>1 DEF InFlight
<1>4. QED
  BY <1>1, <1>2, <1>3 DEF LoopInv

LEMMA LoopGoesOn ==
  ASSUME ExecutionTypeOK, LoopInv, Iterate
  PROVE  LoopInv'
<1> DEFINE out(i) == Outcome(store, tx.operations, tx.privileged, i)
           op == tx.operations[tx.i]
           after == ApplyOperation(tx.staged, op, store.revision + 1)
<1>1. /\ tx.status = "running" /\ tx.i =< Len(tx.operations) /\ store' = store
      /\ Accepts(tx.staged, op, tx.privileged)
  BY DEF Iterate
<1>2. /\ tx'.operations = tx.operations /\ tx'.privileged = tx.privileged
      /\ tx'.i = tx.i + 1 /\ tx'.staged = after
  BY AfterIterate
<1>3. /\ op \in Operation /\ tx.i \in 1..Len(tx.operations) /\ StoreTypeOK(tx.staged)
      /\ tx.privileged \in BOOLEAN /\ store.revision + 1 \in Nat
  BY <1>1, OperationInHand
<1>4. after.revision = tx.staged.revision
  BY <1>1, <1>3, OperationEffect
<1>5. IsPlan(tx.operations)
  BY <1>1, PlansAssumption DEF IsPlan, ExecutionTypeOK, Idle
<1>6. out(tx.i) = Step(store, tx.privileged, out(tx.i - 1), op)
  BY <1>3, <1>5, OutcomeGoesOn
<1>7. out(tx.i - 1) = Success(tx.staged)
  BY <1>1 DEF LoopInv
<1> HIDE DEF out
<1>8. out(tx.i) = Success(after)
  BY <1>1, <1>6, <1>7, StepCarriesOn
<1>9. Outcome(store, tx'.operations, tx'.privileged, tx'.i - 1) = out(tx.i)
  <2>1. tx'.i - 1 = tx.i
    BY <1>2, <1>3
  <2>2. QED
    BY <1>2, <2>1 DEF out
<1>10. QED
  BY <1>1, <1>2, <1>4, <1>8, <1>9 DEF LoopInv

LEMMA LoopInvariant == ExecutionSpec => []LoopInv
<1>1. ExecutionInit => LoopInv
  BY DEF ExecutionInit, Idle, LoopInv
<1>2. ExecutionTypeOK /\ LoopInv /\ [ExecutionNext]_executionVars => LoopInv'
  <2> SUFFICES ASSUME ExecutionTypeOK, LoopInv, [ExecutionNext]_executionVars
               PROVE  LoopInv'
    OBVIOUS
  <2>1. ASSUME NEW r \in 0..MaxRevision, NEW ops \in Plans, NEW p \in BOOLEAN, Begin(r, ops, p)
        PROVE  LoopInv'
    BY <2>1, LoopStarts
  <2>2. CASE Iterate
    BY <2>2, LoopGoesOn
  <2>3. CASE Revert
    BY <2>3 DEF Revert, Idle, LoopInv
  <2>4. CASE Finish
    BY <2>4 DEF Finish, Idle, LoopInv
  <2>5. CASE UNCHANGED executionVars
    BY <2>5 DEF executionVars, LoopInv
  <2>6. QED
    BY <2>1, <2>2, <2>3, <2>4, <2>5 DEF ExecutionNext
<1>3. QED
  BY <1>1, <1>2, ExecutionTypeCorrect, PTL DEF ExecutionSpec

(* The atomic specification's _apply is the one defined here.              *)
LEMMA SameApply ==
  /\ \A st, expected, operations, privileged :
        Atomic!Apply(st, expected, operations, privileged)
           = Apply(st, expected, operations, privileged)
  /\ \A operations, revision :
        Atomic!EventsOf(operations, revision) = EventsOf(operations, revision)
  /\ Atomic!EmptyStore = EmptyStore
<1>1. Atomic!EmptyStore = EmptyStore
  BY DEF Atomic!EmptyStore, EmptyStore, Atomic!Row, Row
<1>2. \A operations, revision :
        Atomic!EventsOf(operations, revision) = EventsOf(operations, revision)
  BY DEF Atomic!EventsOf, EventsOf
<1>3. \A st, expected, operations, privileged :
        Atomic!Apply(st, expected, operations, privileged)
           = Apply(st, expected, operations, privileged)
  BY DEF Atomic!Apply, Atomic!PlanAdmitted, Atomic!FoldLeft, Atomic!MapThenFoldSet, Atomic!Max,
     Atomic!Accepts, Atomic!WellFormed, Atomic!Applicable, Atomic!ApplyOperation,
     Atomic!ApplyRowOperation, Atomic!InsertRow, Atomic!Put, Atomic!Drop, Atomic!CellKeyOf,
     Atomic!RowOf, Atomic!CatalogKinds, Atomic!RowKinds, Atomic!PUT_CATALOG,
     Atomic!DELETE_CATALOG, Atomic!INSERT_ROW, Atomic!SET_CELL, Atomic!DELETE_CELL,
     Atomic!DELETE_ROW, Atomic!MARK_MIGRATION,
     Apply, PlanAdmitted, FoldLeft, MapThenFoldSet, Max, Accepts, WellFormed, Applicable,
     ApplyOperation, ApplyRowOperation, InsertRow, Put, Drop, CellKeyOf, RowOf, CatalogKinds,
     RowKinds
<1>4. QED
  BY <1>1, <1>2, <1>3

(* The last iteration done, the transaction commits what the atomic        *)
(* specification commits for the whole plan.                               *)
LEMMA FinishCommits ==
  ASSUME ExecutionTypeOK, LoopInv, Finish
  PROVE  Atomic!LedgerNext
<1> DEFINE ops == tx.operations
           n == Len(ops)
           p == tx.privileged
           result == Apply(store, store.revision, ops, p)
<1>1. tx.status = "running" /\ tx.i > n
  BY DEF Finish
<1>2. /\ ops \in Plans /\ IsPlan(ops) /\ p \in BOOLEAN
      /\ tx.i \in 1..n + 1 /\ n \in Nat
  BY <1>1, PlansAssumption DEF IsPlan, ExecutionTypeOK, Idle
<1>3. tx.i - 1 = n
  BY <1>1, <1>2
<1>4. /\ Outcome(store, ops, p, n) = Success(tx.staged)
      /\ PlanAdmitted(store, store.revision, ops)
      /\ store.revision < MaxRevision /\ tx.staged.revision = store.revision
  BY <1>1, <1>3 DEF LoopInv
<1>6. result = Success(Advanced(tx.staged))
  BY <1>2, <1>4, ApplySucceeds
<1>7. /\ Advanced(tx.staged) = [tx.staged EXCEPT !.revision = store.revision + 1]
      /\ Advanced(tx.staged).revision = store.revision + 1
  <2>1. StoreTypeOK(tx.staged)
    BY <1>1 DEF ExecutionTypeOK, Idle
  <2>2. QED
    BY <1>4, <2>1 DEF StoreTypeOK, Advanced
<1>8. /\ result.ok /\ store' = result.store
      /\ log' = log \o EventsOf(ops, result.store.revision)
  <2> HIDE DEF result
  <2>1. result.ok /\ result.store = [tx.staged EXCEPT !.revision = store.revision + 1]
    BY <1>6, <1>7, SuccessFields
  <2>2. result.store.revision = store.revision + 1
    BY <1>7, <2>1
  <2>3. QED
    BY <2>1, <2>2 DEF Finish
<1>9. Atomic!Commit(store.revision, ops, p)
  BY <1>8, SameApply DEF Atomic!Commit
<1>10. QED
  BY <1>2, <1>4, <1>9 DEF Atomic!LedgerNext

(* The loop implements the atomic specification (_apply, execute): what    *)
(* a transaction does operation by operation is, from outside, nothing at  *)
(* all until it finishes, and then the whole plan at once.                 *)
THEOREM LoopImplementsLedger == ExecutionSpec => ImplementsLedger
<1>1. ExecutionInit => Atomic!LedgerInit
  BY SameApply DEF ExecutionInit, Atomic!LedgerInit
<1>2. ExecutionTypeOK /\ LoopInv /\ [ExecutionNext]_executionVars
        => [Atomic!LedgerNext]_<<store, log>>
  BY FinishCommits DEF ExecutionNext, executionVars, Begin, Iterate, Revert
<1>3. QED
  BY <1>1, <1>2, ExecutionTypeCorrect, LoopInvariant, PTL
     DEF ExecutionSpec, ImplementsLedger, Atomic!LedgerSpec

----------------------------------------------------------------------------
(* The event log accounts for the contract's storage.                      *)
Event == [revision: Nat, index: Nat, operation: Operation]

(* The clauses of LogAccountsForVersions, of any log l, with a largest     *)
(* element in the place of Max.                                            *)
Numbered(l) ==
    \A i \in DOMAIN l :
        \/ l[i].index = 0 /\ l[i].revision = (IF i = 1 THEN 1 ELSE l[i-1].revision + 1)
        \/ i > 1 /\ l[i].index = l[i-1].index + 1 /\ l[i].revision = l[i-1].revision

Reaches(l, revision) == revision = IF l = <<>> THEN 0 ELSE Last(l).revision

EventsIn(l, r) == {i \in DOMAIN l : Concerns(l[i].operation, r)}

LargestOf(S, m) == m \in S /\ \A k \in S : k =< m

Accounts(l, version, r) ==
    \/ EventsIn(l, r) = {} /\ version[r] = 0
    \/ \E m \in DOMAIN l : LargestOf(EventsIn(l, r), m) /\ version[r] = l[m].revision

----------------------------------------------------------------------------
LEMMA LengthOf ==
  ASSUME NEW S, NEW s \in Seq(S), NEW n \in Nat, DOMAIN s = 1..n
  PROVE  Len(s) = n
<1>1. DOMAIN s = 1..Len(s) /\ Len(s) \in Nat
  OBVIOUS
<1>2. \A i \in Nat : i \in 1..Len(s) <=> i \in 1..n
  BY <1>1
<1>3. ~ Len(s) < n /\ ~ n < Len(s)
  BY <1>1, <1>2
<1>4. QED
  BY <1>1, <1>3

(* Where the events of a plan end up when they are added to a log.         *)
LEMMA AddedEvents ==
  ASSUME NEW l \in Seq(Event), NEW ops \in Seq(Operation), NEW n \in Nat
  PROVE  /\ EventsOf(ops, n) \in Seq(Event)
         /\ l \o EventsOf(ops, n) \in Seq(Event)
         /\ Len(l \o EventsOf(ops, n)) = Len(l) + Len(ops)
         /\ \A i \in 1..Len(l) : (l \o EventsOf(ops, n))[i] = l[i]
         /\ \A j \in 1..Len(ops) :
               (l \o EventsOf(ops, n))[Len(l) + j]
                  = [revision |-> n, index |-> j - 1, operation |-> ops[j]]
<1> DEFINE ev == EventsOf(ops, n)
<1>1. /\ Len(ops) \in Nat /\ DOMAIN ops = 1..Len(ops) /\ Len(l) \in Nat
      /\ \A j \in 1..Len(ops) : ops[j] \in Operation /\ j - 1 \in Nat
  OBVIOUS
<1>2. /\ ev = [j \in 1..Len(ops) |-> [revision |-> n, index |-> j - 1, operation |-> ops[j]]]
      /\ ev \in [1..Len(ops) -> Event]
  BY <1>1 DEF EventsOf, Event
<1>3. ev \in Seq(Event) /\ Len(ev) = Len(ops)
  <2>1. ev \in Seq(Event)
    BY <1>1, <1>2, SeqDef
  <2>2. DOMAIN ev = 1..Len(ops)
    BY <1>2
  <2>3. QED
    BY <1>1, <2>1, <2>2, LengthOf
<1>4. \A j \in 1..Len(ops) : ev[j] = [revision |-> n, index |-> j - 1, operation |-> ops[j]]
  BY <1>2
<1> HIDE DEF ev
<1>5. l \o ev \in Seq(Event) /\ Len(l \o ev) = Len(l) + Len(ops)
  BY <1>1, <1>3
<1>6. \A i \in 1..Len(l) : (l \o ev)[i] = l[i]
  BY <1>1, <1>3
<1>7. \A j \in 1..Len(ops) : (l \o ev)[Len(l) + j] = ev[j]
  BY <1>1, <1>3
<1>8. QED
  BY <1>3, <1>4, <1>5, <1>6, <1>7 DEF ev

(* A plan's events take the numbering of the log on by one revision.       *)
LEMMA NumberingGoesOn ==
  ASSUME NEW l \in Seq(Event), NEW ops \in Seq(Operation), ops # <<>>, NEW revision \in Nat,
         NEW next \in Nat, next = revision + 1, Numbered(l), Reaches(l, revision)
  PROVE  /\ Numbered(l \o EventsOf(ops, next))
         /\ Reaches(l \o EventsOf(ops, next), next)
<1> DEFINE L == l \o EventsOf(ops, next)
           k == Len(l)
<1>1. /\ L \in Seq(Event) /\ Len(L) = k + Len(ops) /\ k \in Nat
      /\ \A i \in 1..k : L[i] = l[i]
      /\ \A j \in 1..Len(ops) :
            L[k + j] = [revision |-> next, index |-> j - 1, operation |-> ops[j]]
  <2>1. L \in Seq(Event) /\ k \in Nat
    BY AddedEvents
  <2>2. Len(L) = k + Len(ops)
    BY AddedEvents
  <2>3. \A i \in 1..k : L[i] = l[i]
    BY AddedEvents
  <2>4. \A j \in 1..Len(ops) :
            L[k + j] = [revision |-> next, index |-> j - 1, operation |-> ops[j]]
    BY AddedEvents
  <2>5. QED
    BY <2>1, <2>2, <2>3, <2>4
<1>2. Len(ops) \in Nat /\ Len(ops) >= 1 /\ k \in Nat
  OBVIOUS
<1> HIDE DEF L
<1>3. Reaches(L, next)
  <2>1. L # <<>> /\ Last(L) = L[k + Len(ops)]
    BY <1>1, <1>2 DEF Last
  <2>2. Len(ops) \in 1..Len(ops)
    BY <1>2
  <2>3. L[k + Len(ops)]
          = [revision |-> next, index |-> Len(ops) - 1, operation |-> ops[Len(ops)]]
    BY <1>1, <2>2
  <2>4. QED
    BY <2>1, <2>3 DEF Reaches
<1>4. ASSUME NEW i \in DOMAIN L
      PROVE  \/ L[i].index = 0 /\ L[i].revision = (IF i = 1 THEN 1 ELSE L[i-1].revision + 1)
             \/ i > 1 /\ L[i].index = L[i-1].index + 1 /\ L[i].revision = L[i-1].revision
  <2>1. i \in 1..(k + Len(ops))
    BY <1>1
  <2>2. CASE i =< k
    <3>1. i \in DOMAIN l /\ L[i] = l[i] /\ (i > 1 => L[i-1] = l[i-1])
      BY <1>1, <2>1, <2>2
    <3>2. QED
      BY <2>1, <3>1 DEF Numbered
  <2>3. CASE i = k + 1
    <3>1. L[i].index = 0 /\ L[i].revision = next
      <4>1. 1 \in 1..Len(ops)
        BY <1>2
      <4>2. L[k + 1] = [revision |-> next, index |-> 1 - 1, operation |-> ops[1]]
        BY <1>1, <4>1
      <4>3. QED
        BY <2>3, <4>2
    <3>2. CASE k = 0
      BY <2>3, <3>1, <3>2 DEF Reaches
    <3>3. CASE k > 0
      <4>1. l # <<>> /\ L[i-1] = Last(l) /\ i # 1
        BY <1>1, <2>3, <3>3 DEF Last
      <4>2. QED
        BY <3>1, <4>1 DEF Reaches
    <3>4. QED
      BY <1>1, <3>2, <3>3
  <2>4. CASE i > k + 1
    <3> DEFINE j == i - k
    <3>1. j \in 1..Len(ops) /\ j - 1 \in 1..Len(ops) /\ i = k + j /\ i - 1 = k + (j - 1)
      BY <1>2, <2>1, <2>4
    <3> HIDE DEF j
    <3>2. /\ L[i] = [revision |-> next, index |-> j - 1, operation |-> ops[j]]
          /\ L[i-1] = [revision |-> next, index |-> (j - 1) - 1, operation |-> ops[j-1]]
      BY <1>1, <3>1
    <3>3. QED
      BY <1>1, <2>4, <3>1, <3>2
  <2>5. QED
    BY <1>2, <2>1, <2>2, <2>3, <2>4
<1>5. QED
  BY <1>3, <1>4 DEF Numbered, L

(* A row that a plan concerns is accounted for by the plan's last event    *)
(* about it, any other by the event that accounted for it before.          *)
PlanEvents(ops, r) == {j \in 1..Len(ops) : Concerns(ops[j], r)}

LEMMA AccountGoesOn ==
  ASSUME NEW l \in Seq(Event), NEW ops \in Seq(Operation), NEW n \in Nat, NEW r \in Row,
         NEW old, NEW new, Accounts(l, old, r),
         \/ PlanEvents(ops, r) = {} /\ new[r] = old[r]
         \/ new[r] = n /\ \E m \in 1..Len(ops) : LargestOf(PlanEvents(ops, r), m)
  PROVE  Accounts(l \o EventsOf(ops, n), new, r)
<1> DEFINE L == l \o EventsOf(ops, n)
           k == Len(l)
<1>1. /\ L \in Seq(Event) /\ Len(L) = k + Len(ops) /\ k \in Nat /\ Len(ops) \in Nat
      /\ \A i \in 1..k : L[i] = l[i]
      /\ \A j \in 1..Len(ops) :
            L[k + j] = [revision |-> n, index |-> j - 1, operation |-> ops[j]]
  BY AddedEvents
<1> HIDE DEF L
<1>0. k \in Nat /\ Len(ops) \in Nat
  OBVIOUS
<1>2. DOMAIN L = 1..(k + Len(ops)) /\ DOMAIN l = 1..k
  BY <1>1
<1>3. ASSUME NEW i \in DOMAIN L
      PROVE  /\ i =< k => i \in DOMAIN l /\ (i \in EventsIn(L, r) <=> i \in EventsIn(l, r))
             /\ i > k => i - k \in 1..Len(ops) /\ (i \in EventsIn(L, r) <=> i - k \in PlanEvents(ops, r))
  <2>1. CASE i =< k
    BY <1>1, <1>2, <2>1 DEF EventsIn
  <2>2. CASE i > k
    <3>1. i - k \in 1..Len(ops) /\ i = k + (i - k)
      BY <1>1, <1>2, <2>2
    <3>2. L[i].operation = ops[i - k]
      <4> DEFINE j == i - k
      <4>1. j \in 1..Len(ops) /\ i = k + j
        BY <3>1
      <4> HIDE DEF j
      <4>2. L[i] = [revision |-> n, index |-> j - 1, operation |-> ops[j]]
        BY <1>1, <4>1
      <4>3. QED
        BY <4>2 DEF j
    <3>3. QED
      BY <1>1, <2>2, <3>1, <3>2 DEF EventsIn, PlanEvents
  <2>3. QED
    BY <1>1, <1>2, <2>1, <2>2
<1>4. CASE PlanEvents(ops, r) = {} /\ new[r] = old[r]
  <2>1. EventsIn(L, r) = EventsIn(l, r)
    BY <1>1, <1>2, <1>3, <1>4 DEF EventsIn
  <2>2. CASE EventsIn(l, r) = {} /\ old[r] = 0
    BY <1>4, <2>1, <2>2 DEF Accounts, L
  <2>3. ASSUME NEW m \in DOMAIN l, LargestOf(EventsIn(l, r), m), old[r] = l[m].revision
        PROVE  Accounts(L, new, r)
    BY <1>1, <1>2, <1>4, <2>1, <2>3 DEF Accounts
  <2>4. QED
    BY <2>2, <2>3 DEF Accounts, L
<1>5. ASSUME NEW m \in 1..Len(ops), LargestOf(PlanEvents(ops, r), m), new[r] = n
      PROVE  Accounts(L, new, r)
  <2>1. k + m \in 1..(k + Len(ops)) /\ k + m > k /\ (k + m) - k = m
    BY <1>0
  <2>2. L[k + m] = [revision |-> n, index |-> m - 1, operation |-> ops[m]]
    BY <1>1
  <2>3. k + m \in DOMAIN L
    BY <1>2, <2>1
  <2>4. k + m \in EventsIn(L, r)
    BY <1>3, <1>5, <2>1, <2>3 DEF LargestOf
  <2>5. ASSUME NEW i \in EventsIn(L, r) PROVE i =< k + m
    <3>1. i \in DOMAIN L /\ i \in Nat
      BY <1>2 DEF EventsIn
    <3>2. CASE i > k
      <4>1. i - k \in PlanEvents(ops, r)
        BY <1>3, <2>5, <3>1, <3>2
      <4>2. i - k =< m
        BY <1>5, <4>1 DEF LargestOf
      <4>3. QED
        BY <1>1, <3>1, <4>2
    <3>3. QED
      BY <1>1, <3>1, <3>2
  <2>6. QED
    BY <1>5, <2>2, <2>3, <2>4, <2>5 DEF Accounts, LargestOf
<1>6. QED
  BY <1>4, <1>5 DEF L

----------------------------------------------------------------------------
(* The operations a transaction has worked through that concern a row.     *)
Touched(r) == {j \in 1..(tx.i - 1) : Concerns(tx.operations[j], r)}

StagedIsAccounted(r) ==
    \/ Touched(r) = {} /\ tx.staged.version[r] = store.version[r]
    \/ /\ tx.staged.version[r] = store.revision + 1
       /\ \E m \in 1..(tx.i - 1) : LargestOf(Touched(r), m)

(* Inductive: what a transaction in flight has stamped is accounted for by *)
(* the operations it has worked through, so that the events it emits when  *)
(* it commits account for what it leaves behind.                           *)
LogInv ==
    /\ Numbered(log)
    /\ Reaches(log, store.revision)
    /\ \A r \in Row : Accounts(log, store.version, r)
    /\ tx.status = "running" =>
          /\ tx.operations # <<>>
          /\ \A r \in Row : StagedIsAccounted(r)

LEMMA OneMoreOperation ==
  ASSUME ExecutionTypeOK, Iterate, NEW r \in Row, StagedIsAccounted(r)
  PROVE  StagedIsAccounted(r)'
<1> DEFINE op == tx.operations[tx.i]
<1>1. /\ op \in Operation /\ tx.i \in 1..Len(tx.operations) /\ tx.i \in Nat
      /\ StoreTypeOK(tx.staged) /\ tx.privileged \in BOOLEAN
      /\ store.revision + 1 \in Nat /\ Accepts(tx.staged, op, tx.privileged)
      /\ UNCHANGED store
  BY OperationInHand DEF Iterate
<1>2. /\ tx'.operations = tx.operations /\ tx'.i = tx.i + 1
      /\ tx'.staged = ApplyOperation(tx.staged, op, store.revision + 1)
  BY AfterIterate
<1>3. tx'.staged.version[r]
        = IF Concerns(op, r) THEN store.revision + 1 ELSE tx.staged.version[r]
  BY <1>1, <1>2, OperationStamps
<1>4. Touched(r)' = Touched(r) \cup (IF Concerns(op, r) THEN {tx.i} ELSE {})
  BY <1>1, <1>2 DEF Touched, Concerns, RowOf
<1>5. CASE Concerns(op, r)
  <2>1. LargestOf(Touched(r)', tx.i) /\ tx.i \in 1..(tx'.i - 1)
    BY <1>1, <1>2, <1>4, <1>5 DEF Touched, LargestOf
  <2>2. QED
    BY <1>1, <1>3, <1>5, <2>1 DEF StagedIsAccounted, LargestOf
<1>6. CASE ~ Concerns(op, r)
  <2>1. Touched(r)' = Touched(r) /\ tx'.staged.version[r] = tx.staged.version[r]
    BY <1>3, <1>4, <1>6
  <2>2. \A m \in 1..(tx.i - 1) : m \in 1..(tx'.i - 1)
    BY <1>1, <1>2
  <2>3. QED
    BY <1>1, <2>1, <2>2 DEF StagedIsAccounted, LargestOf
<1>7. QED
  BY <1>5, <1>6

LEMMA CommitIsAccounted ==
  ASSUME ExecutionTypeOK, LogInv, Finish
  PROVE  LogInv'
<1>1. /\ tx.status = "running" /\ tx.operations \in Seq(Operation) /\ tx.operations # <<>>
      /\ log \in Seq(Event) /\ store.revision \in Nat /\ store.revision + 1 \in Nat
      /\ StoreTypeOK(tx.staged) /\ tx.i = Len(tx.operations) + 1
  BY PlansAssumption DEF Finish, ExecutionTypeOK, Idle, StoreTypeOK, LogInv, Event
<1>2. /\ log' = log \o EventsOf(tx.operations, store.revision + 1)
      /\ store'.revision = store.revision + 1 /\ store'.version = tx.staged.version
      /\ tx'.status # "running"
  BY <1>1 DEF Finish, StoreTypeOK, Idle
<1>3. Numbered(log') /\ Reaches(log', store'.revision)
  BY <1>1, <1>2, NumberingGoesOn DEF LogInv
<1>4. ASSUME NEW r \in Row
      PROVE  Accounts(log', store'.version, r)
  <2>1. Touched(r) = PlanEvents(tx.operations, r) /\ 1..(tx.i - 1) = 1..Len(tx.operations)
    BY <1>1 DEF Touched, PlanEvents
  <2>2. Accounts(log, store.version, r) /\ StagedIsAccounted(r)
    BY <1>1 DEF LogInv
  <2>3. \/ PlanEvents(tx.operations, r) = {} /\ tx.staged.version[r] = store.version[r]
        \/ /\ tx.staged.version[r] = store.revision + 1
           /\ \E m \in 1..Len(tx.operations) : LargestOf(PlanEvents(tx.operations, r), m)
    BY <2>1, <2>2 DEF StagedIsAccounted
  <2>4. QED
    BY <1>1, <1>2, <2>2, <2>3, AccountGoesOn
<1>5. QED
  BY <1>2, <1>3, <1>4 DEF LogInv

LEMMA LogInvariant == ExecutionSpec => []LogInv
<1>1. ExecutionInit => LogInv
  BY DEF ExecutionInit, LogInv, Numbered, Reaches, Accounts, EventsIn, EmptyStore, Idle
<1>2. ExecutionTypeOK /\ LogInv /\ [ExecutionNext]_executionVars => LogInv'
  <2> SUFFICES ASSUME ExecutionTypeOK, LogInv, [ExecutionNext]_executionVars
               PROVE  LogInv'
    OBVIOUS
  <2>1. ASSUME NEW r \in 0..MaxRevision, NEW ops \in Plans, NEW p \in BOOLEAN, Begin(r, ops, p)
        PROVE  LogInv'
    <3>1. /\ tx'.operations = ops /\ tx'.i = 1 /\ tx'.staged = store /\ UNCHANGED <<store, log>>
          /\ ops \in Seq(Operation) /\ Len(ops) \in 1..MaxOperations
      BY <2>1, PlansAssumption DEF Begin, InFlight, PlanAdmitted
    <3>2. ops # <<>>
      BY <3>1
    <3>3. \A q \in Row : StagedIsAccounted(q)'
      BY <3>1 DEF StagedIsAccounted, Touched
    <3>4. QED
      BY <3>1, <3>2, <3>3 DEF LogInv
  <2>2. CASE Iterate
    <3>1. UNCHANGED <<store, log>> /\ tx.status = "running" /\ tx'.operations = tx.operations
      BY <2>2, AfterIterate DEF Iterate
    <3>2. \A r \in Row : StagedIsAccounted(r)'
      BY <2>2, <3>1, OneMoreOperation DEF LogInv
    <3>3. QED
      BY <3>1, <3>2 DEF LogInv
  <2>3. CASE Revert
    BY <2>3 DEF Revert, Idle, LogInv
  <2>4. CASE Finish
    BY <2>4, CommitIsAccounted
  <2>5. CASE UNCHANGED executionVars
    BY <2>5 DEF executionVars, LogInv, StagedIsAccounted, Touched
  <2>6. QED
    BY <2>1, <2>2, <2>3, <2>4, <2>5 DEF ExecutionNext
<1>3. QED
  BY <1>1, <1>2, ExecutionTypeCorrect, PTL DEF ExecutionSpec

(* Max, which TLC computes by CHOOSE, is the largest element.              *)
LEMMA MaxIsLargest ==
  ASSUME NEW S \in SUBSET Nat, NEW m, LargestOf(S, m)
  PROVE  S # {} /\ Max(S) = m
<1>1. m \in S /\ \A y \in S : m >= y
  BY DEF LargestOf
<1>2. Max(S) \in S /\ \A y \in S : Max(S) >= y
  BY <1>1 DEF Max
<1>3. m \in Nat /\ Max(S) \in Nat /\ m >= Max(S) /\ Max(S) >= m
  BY <1>1, <1>2
<1>4. Max(S) = m
  BY <1>3
<1>5. QED
  BY <1>1, <1>4

(* The event log accounts for the storage: its revisions are those that    *)
(* were reached, none is missing, the events of each are numbered from 0,  *)
(* and a row's version is the revision of the last event about it.         *)
THEOREM LogAccounts == ExecutionSpec => []LogAccountsForVersions
<1>1. ExecutionTypeOK /\ LogInv => LogAccountsForVersions
  <2> SUFFICES ASSUME ExecutionTypeOK, LogInv
               PROVE  LogAccountsForVersions
    OBVIOUS
  <2>1. ASSUME NEW r \in Row
        PROVE  store.version[r] = IF EventsOfRow(r) = {} THEN 0
                                                       ELSE log[Max(EventsOfRow(r))].revision
    <3>1. EventsOfRow(r) = EventsIn(log, r)
      BY DEF EventsOfRow, EventsIn, Concerns
    <3>2. EventsIn(log, r) \in SUBSET Nat
      BY DEF ExecutionTypeOK, EventsIn
    <3>3. Accounts(log, store.version, r)
      BY DEF LogInv
    <3>4. QED
      BY <3>1, <3>2, <3>3, MaxIsLargest DEF Accounts
  <2>2. QED
    BY <2>1 DEF LogAccountsForVersions, LogInv, Numbered, Reaches
<1>2. QED
  BY <1>1, LogInvariant, ExecutionTypeCorrect, PTL
=============================================================================
