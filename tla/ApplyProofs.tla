---------------------------- MODULE ApplyProofs ----------------------------
(* What _apply computes, for every plan: the fold over the operations is   *)
(* unrolled one operation at a time.                                       *)
EXTENDS CanonicalState, TLAPS, WellFoundedInduction

(* Induction over the naturals, for a set of them.                         *)
LEMMA LeastNatural ==
  ASSUME NEW T \in SUBSET Nat, T # {}
  PROVE  \E m \in T : \A k \in T : m =< k
<1> DEFINE Less == OpToRel(<, Nat)
<1>1. IsWellFoundedOn(Less, Nat)
  BY NatLessThanWellFounded
<1>2. \A x, y \in Nat : <<y, x>> \in Less <=> y < x
  BY DEF OpToRel
<1> HIDE DEF Less
<1>3. PICK m \in T : \A k \in T : ~ (<<k, m>> \in Less)
  BY <1>1, WFMin
<1>4. \A k \in T : ~ (k < m)
  BY <1>2, <1>3
<1>5. QED
  BY <1>4

LEMMA Induction ==
  ASSUME NEW T \in SUBSET Nat, 0 \in T, \A n \in T : n + 1 \in T
  PROVE  T = Nat
<1>1. SUFFICES ASSUME Nat \ T # {} PROVE FALSE
  OBVIOUS
<1>2. PICK m \in Nat \ T : \A k \in Nat \ T : m =< k
  BY <1>1, LeastNatural
<1>3. m # 0 /\ m - 1 \in Nat /\ ~ (m =< m - 1)
  BY <1>2
<1>4. m - 1 \in T
  BY <1>2, <1>3
<1>5. QED
  BY <1>4, <1>2

(* A nonempty set of numbers up to a bound has a maximum.                  *)
LEMMA Maximum ==
  ASSUME NEW n \in Nat, NEW S \in SUBSET (1..n), S # {}
  PROVE  Max(S) \in S /\ \A k \in S : k =< Max(S)
<1> DEFINE Bounds == {m \in Nat : \A k \in S : k =< m}
<1>1. n \in Bounds
  OBVIOUS
<1>2. PICK m \in Bounds : \A b \in Bounds : m =< b
  <2>1. Bounds \in SUBSET Nat /\ Bounds # {}
    BY <1>1
  <2> HIDE DEF Bounds
  <2>2. QED
    BY <2>1, LeastNatural
<1>3. m \in S
  <2>1. SUFFICES ASSUME m \notin S PROVE FALSE
    OBVIOUS
  <2>2. S # {} /\ m \in Nat /\ \A k \in S : k \in Nat /\ k =< m - 1 /\ 1 =< k
    BY <1>2, <2>1
  <2>3. m - 1 \in Nat
    <3>1. PICK k \in S : TRUE
      BY <2>2
    <3>2. m \in Nat /\ k \in Nat /\ 1 =< k /\ k =< m - 1
      BY <2>2
    <3>3. QED
      BY <3>2
  <2>4. m - 1 \in Bounds
    BY <2>2, <2>3
  <2>5. QED
    BY <1>2, <2>3, <2>4
<1>4. \A k \in S : m >= k
  BY <1>2
<1>5. Max(S) \in S /\ \A k \in S : Max(S) >= k
  BY <1>3, <1>4 DEF Max
<1>6. QED
  BY <1>5

----------------------------------------------------------------------------
(* A plan, of whatever; one of operations.                                 *)
IsPlan(operations) == \E S : operations \in Seq(S)
OperationsOnly(operations) ==
    IsPlan(operations) /\ \A i \in 1..Len(operations) : operations[i] \in Operation

Success(s) == [ok |-> TRUE, store |-> s]
Failure(s) == [ok |-> FALSE, store |-> s]

(* The loop of _apply on a store st: one iteration, and the outcome of the *)
(* first i iterations.                                                     *)
Step(st, privileged, acc, op) ==
    IF acc.ok /\ Accepts(acc.store, op, privileged)
    THEN [acc EXCEPT !.store = ApplyOperation(@, op, st.revision + 1)]
    ELSE Failure(st)

Indexes(s, operations) == s \subseteq 1..Len(operations)
Earlier(s) == s \ {Max(s)}

Iterated(g, D, st, privileged, operations) ==
    g = [s \in SUBSET D |->
            IF s = {} THEN Success(st)
            ELSE Step(st, privileged, g[Earlier(s)], operations[Max(s)])]

Loop(st, operations, privileged) ==
    CHOOSE g : Iterated(g, DOMAIN operations, st, privileged, operations)

Outcome(st, operations, privileged, i) == Loop(st, operations, privileged)[1..i]

LEMMA LoopExists ==
  ASSUME NEW st, NEW privileged, NEW operations, NEW n \in Nat
  PROVE  \E g : Iterated(g, 1..n, st, privileged, operations)
<1> DEFINE T == {k \in Nat : \E g : Iterated(g, 1..k, st, privileged, operations)}
<1>1. 0 \in T
  <2> DEFINE g == [s \in {{}} |-> Success(st)]
  <2>1. SUBSET (1..0) = {{}}
    OBVIOUS
  <2>2. Iterated(g, 1..0, st, privileged, operations)
    BY <2>1 DEF Iterated, Earlier
  <2>3. QED
    BY <2>2
<1>2. ASSUME NEW k \in T PROVE k + 1 \in T
  <2>1. PICK g : Iterated(g, 1..k, st, privileged, operations)
    OBVIOUS
  <2> DEFINE h == [s \in SUBSET (1..k + 1) |->
                      IF k + 1 \in s
                      THEN Step(st, privileged, g[s \ {k + 1}], operations[k + 1])
                      ELSE g[s]]
             body(s) == IF s = {} THEN Success(st)
                        ELSE Step(st, privileged, h[s \ {Max(s)}], operations[Max(s)])
  <2>2. ASSUME NEW s \in SUBSET (1..k + 1) PROVE h[s] = body(s)
    <3>1. CASE k + 1 \in s
      <4>1. Max(s) = k + 1
        <5>1. k + 1 \in Nat /\ s # {}
          BY <3>1
        <5>2. Max(s) \in s /\ k + 1 =< Max(s)
          BY <3>1, <5>1, Maximum
        <5>3. Max(s) \in 1..k + 1 /\ k \in Nat
          BY <5>2
        <5> QED
          BY <5>2, <5>3
      <4>2. s \ {k + 1} \in SUBSET (1..k)
        OBVIOUS
      <4>3. h[s \ {k + 1}] = g[s \ {k + 1}]
        BY <4>2
      <4>4. h[s] = Step(st, privileged, g[s \ {k + 1}], operations[k + 1])
        BY <3>1
      <4> HIDE DEF h
      <4>5. QED
        BY <3>1, <4>1, <4>3, <4>4
    <3>2. CASE k + 1 \notin s
      <4>1. s \in SUBSET (1..k)
        BY <3>2
      <4>2. h[s] = g[s]
        BY <3>2
      <4>3. CASE s = {}
        <5>1. g[s] = Success(st)
          BY <2>1, <4>1, <4>3 DEF Iterated, Earlier
        <5>2. QED
          BY <4>2, <4>3, <5>1
      <4>4. CASE s # {}
        <5>1. g[s] = Step(st, privileged, g[s \ {Max(s)}], operations[Max(s)])
          BY <2>1, <4>1, <4>4 DEF Iterated, Earlier
        <5>2. h[s \ {Max(s)}] = g[s \ {Max(s)}]
          BY <3>2
        <5> HIDE DEF h
        <5>3. QED
          BY <4>2, <4>4, <5>1, <5>2
      <4>5. QED
        BY <4>3, <4>4
    <3>3. QED
      BY <3>1, <3>2
  <2>3. h = [s \in SUBSET (1..k + 1) |-> h[s]]
    OBVIOUS
  <2>4. [s \in SUBSET (1..k + 1) |-> h[s]] = [s \in SUBSET (1..k + 1) |-> body(s)]
    <3> HIDE DEF h
    <3>1. QED
      BY <2>2
  <2>5. Iterated(h, 1..k + 1, st, privileged, operations)
    <3> HIDE DEF h
    <3>1. QED
      BY <2>3, <2>4 DEF Iterated, Earlier
  <2>6. QED
    BY <2>5
<1>3. T = Nat
  <2> HIDE DEF T
  <2>1. T \in SUBSET Nat
    BY DEF T
  <2>2. QED
    BY <1>1, <1>2, <2>1, Induction
<1>4. QED
  BY <1>3

(* The loop starts from the store, and each iteration takes it one         *)
(* operation further (_apply).                                             *)
LEMMA LoopUnrolls ==
  ASSUME NEW st, NEW privileged, NEW operations, IsPlan(operations),
         NEW s, Indexes(s, operations)
  PROVE  /\ s = {} => Loop(st, operations, privileged)[s] = Success(st)
         /\ s # {} => Loop(st, operations, privileged)[s]
                        = Step(st, privileged, Loop(st, operations, privileged)[Earlier(s)],
                               operations[Max(s)])
<1> DEFINE g == Loop(st, operations, privileged)
           n == Len(operations)
<1>1. n \in Nat /\ DOMAIN operations = 1..n
  BY DEF IsPlan
<1>2. Iterated(g, 1..n, st, privileged, operations)
  BY <1>1, LoopExists DEF Loop
<1> HIDE DEF g
<1>3. g[s] = IF s = {} THEN Success(st)
             ELSE Step(st, privileged, g[Earlier(s)], operations[Max(s)])
  BY <1>2 DEF Iterated, Indexes
<1>4. QED
  BY <1>3 DEF g

LEMMA OutcomeStarts ==
  ASSUME NEW st, NEW privileged, NEW operations, IsPlan(operations)
  PROVE  Outcome(st, operations, privileged, 0) = Success(st)
<1>1. Indexes(1..0, operations) /\ 1..0 = {}
  BY DEF Indexes
<1>2. QED
  BY <1>1, LoopUnrolls DEF Outcome

LEMMA OutcomeGoesOn ==
  ASSUME NEW st, NEW privileged, NEW operations, IsPlan(operations),
         NEW i \in 1..Len(operations)
  PROVE  Outcome(st, operations, privileged, i)
            = Step(st, privileged, Outcome(st, operations, privileged, i - 1), operations[i])
<1> DEFINE g == Loop(st, operations, privileged)
           n == Len(operations)
<1>1. i \in Nat /\ 1 =< i /\ i =< n /\ n \in Nat
  BY DEF IsPlan
<1> HIDE DEF n
<1>2. i \in 1..i /\ 1..i # {} /\ 1..i \in SUBSET (1..n) /\ 1..i \in SUBSET (1..i)
  <2>1. \A k \in 1..i : k \in 1..n
    BY <1>1
  <2>2. i \in 1..i
    BY <1>1
  <2>3. QED
    BY <2>1, <2>2
<1>3. Max(1..i) = i
  <2>1. Max(1..i) \in 1..i /\ \A k \in 1..i : k =< Max(1..i)
    BY <1>1, <1>2, Maximum
  <2>2. QED
    BY <1>1, <1>2, <2>1
<1>4. (1..i) \ {i} = 1..i - 1
  BY <1>1
<1>5. g[1..i] = Step(st, privileged, g[(1..i) \ {Max(1..i)}], operations[Max(1..i)])
  <2> DEFINE s == 1..i
  <2>1. Indexes(s, operations) /\ s # {}
    BY <1>2 DEF n, Indexes
  <2> HIDE DEF s
  <2>2. g[s] = Step(st, privileged, g[Earlier(s)], operations[Max(s)])
    BY <2>1, LoopUnrolls
  <2>3. QED
    BY <2>2 DEF s, Earlier
<1>6. QED
  BY <1>3, <1>4, <1>5 DEF Outcome

LEMMA WithStore ==
  ASSUME NEW acc, acc = [ok |-> acc.ok, store |-> acc.store], NEW t
  PROVE  [acc EXCEPT !.store = t] = [ok |-> acc.ok, store |-> t]
OBVIOUS

LEMMA StoreReplaced ==
  ASSUME NEW s, NEW t
  PROVE  [Success(s) EXCEPT !.store = t] = Success(t)
<1> DEFINE acc == [ok |-> TRUE, store |-> s]
<1>1. acc.ok = TRUE /\ acc.store = s
  BY Zenon
<1>2. acc = [ok |-> acc.ok, store |-> acc.store]
  BY <1>1, Zenon
<1> HIDE DEF acc
<1>3. [acc EXCEPT !.store = t] = [ok |-> acc.ok, store |-> t]
  BY <1>2, WithStore
<1>4. [acc EXCEPT !.store = t] = [ok |-> TRUE, store |-> t]
  BY <1>1, <1>3, Zenon
<1>5. QED
  BY <1>4, Zenon DEF acc, Success

LEMMA SuccessFields ==
  ASSUME NEW s
  PROVE  Success(s).ok /\ Success(s).store = s /\ ~ Failure(s).ok
BY DEF Success, Failure

Advanced(s) == [s EXCEPT !.revision = @ + 1]
Committed(acc) == [acc EXCEPT !.store = Advanced(acc.store)]

(* _apply is its first checks and the outcome of all iterations.           *)
LEMMA ApplyIsOutcome ==
  ASSUME NEW st, NEW privileged, NEW operations, IsPlan(operations), NEW expected
  PROVE  Apply(st, expected, operations, privileged)
            = IF PlanAdmitted(st, expected, operations)
                 /\ Outcome(st, operations, privileged, Len(operations)).ok
              THEN Committed(Outcome(st, operations, privileged, Len(operations)))
              ELSE Failure(st)
<1>1. DOMAIN operations = 1..Len(operations)
  BY DEF IsPlan
<1>2. FoldLeft(LAMBDA acc, op : Step(st, privileged, acc, op), [ok |-> TRUE, store |-> st],
               operations)
        = Loop(st, operations, privileged)[DOMAIN operations]
  BY DEF FoldLeft, MapThenFoldSet, Loop, Iterated, Success, Earlier
<1>3. QED
  BY <1>1, <1>2 DEF Apply, Outcome, Step, Failure, Committed, Advanced

(* An accepted operation takes the loop on.                                *)
LEMMA StepCarriesOn ==
  ASSUME NEW st, NEW privileged, NEW s, NEW op, Accepts(s, op, privileged)
  PROVE  Step(st, privileged, Success(s), op)
            = Success(ApplyOperation(s, op, st.revision + 1))
<1> DEFINE t == ApplyOperation(s, op, st.revision + 1)
           acc == Success(s)
<1>1. Step(st, privileged, acc, op)
        = IF acc.ok /\ Accepts(acc.store, op, privileged)
          THEN [acc EXCEPT !.store = ApplyOperation(acc.store, op, st.revision + 1)]
          ELSE Failure(st)
  BY DEF Step
<1>2. acc.ok /\ acc.store = s
  BY SuccessFields
<1>3. Step(st, privileged, acc, op) = [acc EXCEPT !.store = t]
  <2> HIDE DEF acc
  <2>1. QED
    BY <1>1, <1>2
<1> HIDE DEF t
<1>4. [acc EXCEPT !.store = t] = Success(t)
  BY StoreReplaced, Zenon
<1>5. QED
  BY <1>3, <1>4, Zenon DEF t

(* A plan whose loop runs through is carried out.                          *)
LEMMA ApplySucceeds ==
  ASSUME NEW st, NEW privileged, NEW operations, IsPlan(operations), NEW expected, NEW s,
         PlanAdmitted(st, expected, operations),
         Outcome(st, operations, privileged, Len(operations)) = Success(s)
  PROVE  Apply(st, expected, operations, privileged)
            = Success(Advanced(s))
<1> DEFINE end == Outcome(st, operations, privileged, Len(operations))
           t == Advanced(s)
<1>1. end.ok /\ end.store = s /\ end = Success(s)
  BY SuccessFields
<1>2. Apply(st, expected, operations, privileged)
        = IF PlanAdmitted(st, expected, operations) /\ end.ok THEN Committed(end)
          ELSE Failure(st)
  BY ApplyIsOutcome
<1> HIDE DEF end
<1>3. Apply(st, expected, operations, privileged) = [end EXCEPT !.store = t]
  BY <1>1, <1>2 DEF Committed
<1> HIDE DEF t
<1>4. [end EXCEPT !.store = t] = Success(t)
  BY <1>1, StoreReplaced, Zenon
<1>5. QED
  BY <1>3, <1>4 DEF t

----------------------------------------------------------------------------
USE CanonicalAssumption DEF PUT_CATALOG, DELETE_CATALOG, INSERT_ROW, SET_CELL, DELETE_CELL,
    DELETE_ROW, MARK_MIGRATION

(* Stamping a row and moving it to its next incarnation change one field   *)
(* of a store each.                                                        *)
Shaped(st) == st = [revision |-> st.revision, catalog |-> st.catalog,
                    migrations |-> st.migrations, rows |-> st.rows, version |-> st.version,
                    generation |-> st.generation, cells |-> st.cells]

LEMMA Stamp ==
  ASSUME NEW st, Shaped(st), NEW r \in Row, NEW n \in Nat, st.version \in [Row -> Nat]
  PROVE  [st EXCEPT !.version[r] = n]
            = [revision |-> st.revision, catalog |-> st.catalog,
               migrations |-> st.migrations, rows |-> st.rows,
               version |-> [st.version EXCEPT ![r] = n],
               generation |-> st.generation, cells |-> st.cells]
<1>1. [st EXCEPT !.version[r] = n] = [st EXCEPT !.version = [st.version EXCEPT ![r] = n]]
  OBVIOUS
<1>2. QED
  BY <1>1 DEF Shaped

LEMMA Incarnate ==
  ASSUME NEW st, Shaped(st), NEW r \in Row, NEW R, st.generation \in [Row -> Nat]
  PROVE  [st EXCEPT !.rows = R, !.generation[r] = @ + 1]
            = [revision |-> st.revision, catalog |-> st.catalog,
               migrations |-> st.migrations, rows |-> R, version |-> st.version,
               generation |-> [st.generation EXCEPT ![r] = @ + 1], cells |-> st.cells]
<1> DEFINE G == [st.generation EXCEPT ![r] = @ + 1]
<1>1. [st EXCEPT !.rows = R, !.generation[r] = @ + 1]
        = [[st EXCEPT !.rows = R] EXCEPT !.generation = G]
  BY DEF Shaped
<1>2. [st EXCEPT !.rows = R]
        = [revision |-> st.revision, catalog |-> st.catalog,
           migrations |-> st.migrations, rows |-> R, version |-> st.version,
           generation |-> st.generation, cells |-> st.cells]
  BY DEF Shaped
<1> DEFINE X == [st EXCEPT !.rows = R]
<1> HIDE DEF G, X
<1>3. [X EXCEPT !.generation = G]
        = [revision |-> st.revision, catalog |-> st.catalog,
           migrations |-> st.migrations, rows |-> R, version |-> st.version,
           generation |-> G, cells |-> st.cells]
  <2>1. X = [revision |-> st.revision, catalog |-> st.catalog,
             migrations |-> st.migrations, rows |-> R, version |-> st.version,
             generation |-> st.generation, cells |-> st.cells]
    BY <1>2 DEF X
  <2>2. QED
    BY <2>1
<1>4. QED
  BY <1>1, <1>3 DEF G, X

(* What an accepted operation makes of a store st: res, seen through the   *)
(* fields that concern rows.                                               *)
RowsKept(st, res) ==
    res.rows = st.rows /\ res.version = st.version
    /\ res.generation = st.generation /\ res.cells = st.cells

RowInserted(st, res, r) ==
    /\ r \notin st.rows
    /\ res.rows = st.rows \cup {r}
    /\ res.generation = [st.generation EXCEPT ![r] = @ + 1]
    /\ res.cells = st.cells

RowDeleted(st, res, r) ==
    /\ r \in st.rows
    /\ res.rows = st.rows \ {r}
    /\ res.generation = st.generation
    /\ res.cells = st.cells

CellWritten(st, res, r, op) ==
    /\ r \in st.rows
    /\ res.rows = st.rows
    /\ res.generation = st.generation
    /\ op.column \in Column
    /\ \/ res.cells = Put(st.cells, CellKeyOf(st, r, op.column), op.data)
       \/ res.cells = Drop(st.cells, CellKeyOf(st, r, op.column))

LEMMA OperationEffect ==
  ASSUME NEW st, StoreTypeOK(st), NEW op \in Operation, NEW p \in BOOLEAN,
         Accepts(st, op, p), NEW n \in Nat
  PROVE  /\ StoreTypeOK(ApplyOperation(st, op, n))
         /\ ApplyOperation(st, op, n).revision = st.revision
         /\ \/ RowsKept(st, ApplyOperation(st, op, n))
            \/ /\ RowOf(op) \in Row
               /\ ApplyOperation(st, op, n).version = [st.version EXCEPT ![RowOf(op)] = n]
               /\ \/ RowInserted(st, ApplyOperation(st, op, n), RowOf(op))
                  \/ RowDeleted(st, ApplyOperation(st, op, n), RowOf(op))
                  \/ CellWritten(st, ApplyOperation(st, op, n), RowOf(op), op)
<1> DEFINE res == ApplyOperation(st, op, n)
<1>. st = [revision |-> st.revision, catalog |-> st.catalog,
                migrations |-> st.migrations, rows |-> st.rows, version |-> st.version,
                generation |-> st.generation, cells |-> st.cells]
  BY DEF StoreTypeOK
<1>1. CASE op.kind = PUT_CATALOG
  <2>1. res = [revision |-> st.revision,
                catalog |-> Put(st.catalog, op.column, op.data),
                migrations |-> st.migrations, rows |-> st.rows, version |-> st.version,
                generation |-> st.generation, cells |-> st.cells]
    BY <1>1 DEF ApplyOperation
  <2>2. Mapping(Put(st.catalog, op.column, op.data), Column, Bytes)
    BY <1>1 DEF StoreTypeOK, Mapping, Accepts, WellFormed, CatalogKinds, RowKinds, Operation,
       Bytes, Put
  <2>3. QED
    BY <2>1, <2>2 DEF StoreTypeOK, RowsKept
<1>2. CASE op.kind = DELETE_CATALOG
  BY <1>2 DEF ApplyOperation, StoreTypeOK, Mapping, Drop, RowsKept
<1>3. CASE op.kind = MARK_MIGRATION
  <2>1. res = [st EXCEPT !.migrations = st.migrations \cup {op.column}]
    BY <1>3 DEF ApplyOperation
  <2>2. op.column \in Column
    BY <1>3 DEF Accepts, WellFormed, CatalogKinds, RowKinds, Operation
  <2>3. QED
    BY <2>1, <2>2 DEF StoreTypeOK, RowsKept
<1>4. ASSUME op.kind \in RowKinds
      PROVE  /\ RowOf(op) \in Row
             /\ res = [ApplyRowOperation(st, op) EXCEPT !.version[RowOf(op)] = n]
             /\ [st.version EXCEPT ![RowOf(op)] = n] \in [Row -> Nat]
             /\ op.kind = INSERT_ROW => RowOf(op) \notin st.rows
             /\ op.kind # INSERT_ROW => RowOf(op) \in st.rows
             /\ op.kind \in {SET_CELL, DELETE_CELL} => op.column \in Column
  <2>1. RowOf(op) \in Row
    BY <1>4 DEF Accepts, WellFormed, CatalogKinds, RowKinds, Operation, RowOf, Row
  <2>2. [st.version EXCEPT ![RowOf(op)] = n] \in [Row -> Nat]
    BY <2>1 DEF StoreTypeOK
  <2>3. QED
    BY <1>4, <2>1, <2>2 DEF ApplyOperation, Accepts, Applicable, WellFormed, CatalogKinds,
       RowKinds, Operation
<1>5. CASE op.kind = INSERT_ROW
  <2>1. res = [revision |-> st.revision, catalog |-> st.catalog,
                migrations |-> st.migrations, rows |-> st.rows \cup {RowOf(op)},
                version |-> [st.version EXCEPT ![RowOf(op)] = n],
                generation |-> [st.generation EXCEPT ![RowOf(op)] = @ + 1],
                cells |-> st.cells]
    <3> DEFINE base == ApplyRowOperation(st, op)
    <3>1. RowOf(op) \in Row
      BY <1>4, <1>5 DEF RowKinds
    <3>2. base = [revision |-> st.revision, catalog |-> st.catalog,
                  migrations |-> st.migrations, rows |-> st.rows \cup {RowOf(op)},
                  version |-> st.version,
                  generation |-> [st.generation EXCEPT ![RowOf(op)] = @ + 1],
                  cells |-> st.cells]
      <4>1. base = [st EXCEPT !.rows = st.rows \cup {RowOf(op)},
                              !.generation[RowOf(op)] = @ + 1]
        BY <1>5 DEF ApplyRowOperation, InsertRow
      <4>2. QED
        BY <3>1, <4>1, Incarnate DEF StoreTypeOK, Shaped
    <3>3. base.version \in [Row -> Nat] /\ Shaped(base)
      BY <3>2 DEF StoreTypeOK, Shaped
    <3>4. res = [base EXCEPT !.version[RowOf(op)] = n]
      BY <1>4, <1>5 DEF RowKinds
    <3> HIDE DEF base
    <3>5. QED
      BY <3>1, <3>2, <3>3, <3>4, Stamp
  <2>2. [st.generation EXCEPT ![RowOf(op)] = @ + 1] \in [Row -> Nat]
    BY <1>4, <1>5 DEF StoreTypeOK, RowKinds
  <2>3. QED
    BY <1>4, <1>5, <2>1, <2>2 DEF StoreTypeOK, RowKinds, RowInserted
<1>6. CASE op.kind = DELETE_ROW
  <2>1. res = [revision |-> st.revision, catalog |-> st.catalog,
                migrations |-> st.migrations, rows |-> st.rows \ {RowOf(op)},
                version |-> [st.version EXCEPT ![RowOf(op)] = n],
                generation |-> st.generation, cells |-> st.cells]
    <3> DEFINE base == ApplyRowOperation(st, op)
    <3>1. base = [st EXCEPT !.rows = st.rows \ {RowOf(op)}]
      BY <1>6 DEF ApplyRowOperation
    <3>2. RowOf(op) \in Row /\ res = [base EXCEPT !.version[RowOf(op)] = n]
      BY <1>4, <1>6 DEF RowKinds
    <3>3. Shaped(base) /\ base.version \in [Row -> Nat] /\ base.version = st.version
      BY <3>1 DEF StoreTypeOK, Shaped
    <3> HIDE DEF base
    <3>4. QED
      BY <3>1, <3>2, <3>3, Stamp
  <2>2. RowOf(op) \in Row /\ RowOf(op) \in st.rows /\ [st.version EXCEPT ![RowOf(op)] = n] \in [Row -> Nat]
    BY <1>4, <1>6 DEF RowKinds
  <2>3. StoreTypeOK(res)
    BY <2>1, <2>2 DEF StoreTypeOK
  <2>4. /\ res.revision = st.revision
        /\ res.rows = st.rows \ {RowOf(op)}
        /\ res.version = [st.version EXCEPT ![RowOf(op)] = n]
        /\ res.generation = st.generation
        /\ res.cells = st.cells
    BY <2>1
  <2>5. QED
    BY <2>2, <2>3, <2>4 DEF RowDeleted
<1>7. CASE op.kind \in {SET_CELL, DELETE_CELL}
  <2>. DEFINE key == CellKeyOf(st, RowOf(op), op.column)
  <2>1. key \in CellKey
    BY <1>4, <1>7 DEF CellKeyOf, CellKey, StoreTypeOK, RowKinds
  <2>2. CASE op.kind = SET_CELL
    <3>1. res = [revision |-> st.revision, catalog |-> st.catalog,
                migrations |-> st.migrations, rows |-> st.rows,
                version |-> [st.version EXCEPT ![RowOf(op)] = n],
                generation |-> st.generation, cells |-> Put(st.cells, key, op.data)]
      <4> DEFINE base == ApplyRowOperation(st, op)
      <4>1. base = [st EXCEPT !.cells = Put(st.cells, key, op.data)]
        BY <2>2 DEF ApplyRowOperation
      <4>2. RowOf(op) \in Row /\ res = [base EXCEPT !.version[RowOf(op)] = n]
        BY <1>4, <2>2 DEF RowKinds
      <4>3. Shaped(base) /\ base.version \in [Row -> Nat] /\ base.version = st.version
        BY <4>1 DEF StoreTypeOK, Shaped
      <4> HIDE DEF base
      <4>4. QED
        BY <4>1, <4>2, <4>3, Stamp
    <3>2. Mapping(Put(st.cells, key, op.data), CellKey, Bytes)
      BY <2>1 DEF StoreTypeOK, Mapping, Put, Operation, Bytes
    <3>3. QED
      BY <1>4, <2>2, <3>1, <3>2 DEF StoreTypeOK, RowKinds, CellWritten
  <2>3. CASE op.kind = DELETE_CELL
    <3>1. res = [revision |-> st.revision, catalog |-> st.catalog,
                migrations |-> st.migrations, rows |-> st.rows,
                version |-> [st.version EXCEPT ![RowOf(op)] = n],
                generation |-> st.generation, cells |-> Drop(st.cells, key)]
      <4> DEFINE base == ApplyRowOperation(st, op)
      <4>1. base = [st EXCEPT !.cells = Drop(st.cells, key)]
        BY <2>3 DEF ApplyRowOperation
      <4>2. RowOf(op) \in Row /\ res = [base EXCEPT !.version[RowOf(op)] = n]
        BY <1>4, <2>3 DEF RowKinds
      <4>3. Shaped(base) /\ base.version \in [Row -> Nat] /\ base.version = st.version
        BY <4>1 DEF StoreTypeOK, Shaped
      <4> HIDE DEF base
      <4>4. QED
        BY <4>1, <4>2, <4>3, Stamp
    <3>2. Mapping(Drop(st.cells, key), CellKey, Bytes)
      BY DEF StoreTypeOK, Mapping, Drop
    <3>3. QED
      BY <1>4, <2>3, <3>1, <3>2 DEF StoreTypeOK, RowKinds, CellWritten
  <2>4. QED
    BY <1>7, <2>2, <2>3
<1>8. QED
  BY <1>1, <1>2, <1>3, <1>5, <1>6, <1>7 DEF Accepts, WellFormed, CatalogKinds, RowKinds

(* An operation on a row.                                                  *)
Concerns(op, r) == op.kind \in RowKinds /\ RowOf(op) = r

(* An accepted operation stamps the row it concerns, and no other.         *)
LEMMA OperationStamps ==
  ASSUME NEW st, StoreTypeOK(st), NEW op \in Operation, NEW p \in BOOLEAN,
         Accepts(st, op, p), NEW n \in Nat, NEW q \in Row
  PROVE  ApplyOperation(st, op, n).version[q] = IF Concerns(op, q) THEN n ELSE st.version[q]
<1> DEFINE base == ApplyRowOperation(st, op)
<1>0. Shaped(st) /\ st.version \in [Row -> Nat] /\ st.generation \in [Row -> Nat]
  BY DEF StoreTypeOK, Shaped
<1>1. CASE op.kind \notin RowKinds
  <2>1. op.kind \in CatalogKinds
    BY <1>1 DEF Accepts, WellFormed
  <2>2. ApplyOperation(st, op, n).version = st.version
    BY <1>0, <2>1 DEF CatalogKinds, ApplyOperation, Shaped
  <2>3. QED
    BY <1>1, <2>2 DEF Concerns
<1>2. CASE op.kind \in RowKinds
  <2>1. RowOf(op) \in Row
    BY <1>2 DEF Accepts, WellFormed, CatalogKinds, RowKinds, Operation, RowOf, Row
  <2>2. ApplyOperation(st, op, n) = [base EXCEPT !.version[RowOf(op)] = n]
    BY <1>2 DEF ApplyOperation, RowKinds
  <2> HIDE DEF base
  <2>3. Shaped(base) /\ base.version = st.version
    <3>1. CASE op.kind = INSERT_ROW
      <4>1. base = [st EXCEPT !.rows = st.rows \cup {RowOf(op)}, !.generation[RowOf(op)] = @ + 1]
        BY <3>1 DEF base, ApplyRowOperation, InsertRow
      <4>2. base = [revision |-> st.revision, catalog |-> st.catalog,
                    migrations |-> st.migrations, rows |-> st.rows \cup {RowOf(op)},
                    version |-> st.version,
                    generation |-> [st.generation EXCEPT ![RowOf(op)] = @ + 1],
                    cells |-> st.cells]
        BY <1>0, <2>1, <4>1, Incarnate, Zenon
      <4>3. QED
        BY <4>2 DEF Shaped
    <3>2. CASE op.kind = DELETE_ROW
      <4>1. base = [st EXCEPT !.rows = st.rows \ {RowOf(op)}]
        BY <3>2 DEF base, ApplyRowOperation
      <4>2. QED
        BY <1>0, <4>1 DEF Shaped
    <3>3. CASE op.kind = SET_CELL
      BY <1>0, <3>3 DEF base, ApplyRowOperation, Shaped
    <3>4. CASE op.kind = DELETE_CELL
      BY <1>0, <3>4 DEF base, ApplyRowOperation, Shaped
    <3>5. QED
      BY <1>2, <3>1, <3>2, <3>3, <3>4 DEF RowKinds
  <2>4. ApplyOperation(st, op, n).version = [st.version EXCEPT ![RowOf(op)] = n]
    BY <1>0, <2>1, <2>2, <2>3, Stamp
  <2>5. QED
    BY <1>0, <1>2, <2>1, <2>4 DEF Concerns
<1>3. QED
  BY <1>1, <1>2
----------------------------------------------------------------------------
(* A plan that is carried out had every operation accepted by the store    *)
(* the operations before it made.                                          *)
LEMMA EveryOperationAccepted ==
  ASSUME NEW st, NEW privileged, NEW operations, IsPlan(operations), NEW expected,
         Apply(st, expected, operations, privileged).ok
  PROVE  \A i \in 1..Len(operations) :
            /\ Outcome(st, operations, privileged, i - 1).ok
            /\ Accepts(Outcome(st, operations, privileged, i - 1).store, operations[i],
                       privileged)
<1> DEFINE n == Len(operations)
           out(i) == Outcome(st, operations, privileged, i)
           T == {k \in Nat : k =< n => out(n - k).ok}
<1>0. n \in Nat
  BY DEF IsPlan
<1>1. out(n).ok
  BY ApplyIsOutcome, SuccessFields
<1>2. ASSUME NEW i \in 1..n, out(i).ok
      PROVE  out(i - 1).ok /\ Accepts(out(i - 1).store, operations[i], privileged)
  <2>1. out(i) = Step(st, privileged, out(i - 1), operations[i])
    BY OutcomeGoesOn
  <2> HIDE DEF out
  <2>2. QED
    BY <1>2, <2>1, SuccessFields DEF Step
<1> HIDE DEF out
<1>3. 0 \in T
  BY <1>0, <1>1
<1>4. ASSUME NEW k \in T PROVE k + 1 \in T
  <2>1. SUFFICES ASSUME k + 1 =< n PROVE out(n - (k + 1)).ok
    OBVIOUS
  <2> DEFINE i == n - k
  <2>2. i \in 1..n /\ out(i).ok /\ i - 1 = n - (k + 1)
    BY <1>0, <2>1
  <2> HIDE DEF i, n
  <2>3. QED
    BY <1>2, <2>2
<1>5. T = Nat
  <2>1. T \in SUBSET Nat
    OBVIOUS
  <2> HIDE DEF T
  <2>2. QED
    BY <1>3, <1>4, <2>1, Induction
<1>6. ASSUME NEW i \in 1..n PROVE out(i).ok
  <2>1. n - i \in Nat /\ n - i =< n /\ n - (n - i) = i
    <3> HIDE DEF n
    <3>1. QED
      BY <1>0
  <2>2. n - i \in T
    BY <1>5, <2>1
  <2>3. QED
    BY <2>1, <2>2
<1>7. QED
  BY <1>2, <1>6 DEF out
(* A plan that is carried out leaves a well-formed store one revision      *)
(* further, and so does every part of it, but for the revision.            *)
Reached(st, acc) ==
    /\ acc = Success(acc.store)
    /\ StoreTypeOK(acc.store)
    /\ acc.store.revision = st.revision

LEMMA StepReaches ==
  ASSUME NEW st, StoreTypeOK(st), NEW privileged \in BOOLEAN, NEW acc, Reached(st, acc),
         NEW op \in Operation, Accepts(acc.store, op, privileged)
  PROVE  Reached(st, Step(st, privileged, acc, op))
<1> DEFINE next == ApplyOperation(acc.store, op, st.revision + 1)
<1>1. acc = Success(acc.store)
  BY DEF Reached
<1>2. Step(st, privileged, acc, op) = Success(next)
  <2>1. Step(st, privileged, Success(acc.store), op) = Success(next)
    BY StepCarriesOn
  <2>2. QED
    BY <1>1, <2>1
<1>3. st.revision + 1 \in Nat
  BY DEF StoreTypeOK
<1>4. StoreTypeOK(next) /\ next.revision = acc.store.revision
  BY <1>3, OperationEffect DEF Reached
<1> HIDE DEF next
<1>5. Success(next).store = next
  BY SuccessFields
<1>6. QED
  BY <1>2, <1>4, <1>5 DEF Reached

LEMMA OutcomesReach ==
  ASSUME NEW st, StoreTypeOK(st), NEW privileged \in BOOLEAN,
         NEW operations, OperationsOnly(operations), NEW expected,
         Apply(st, expected, operations, privileged).ok
  PROVE  \A i \in 0..Len(operations) : Reached(st, Outcome(st, operations, privileged, i))
<1> DEFINE n == Len(operations)
           out(i) == Outcome(st, operations, privileged, i)
           T == {k \in Nat : k =< n => Reached(st, out(k))}
<1>0. IsPlan(operations) /\ n \in Nat /\ \A i \in 1..n : operations[i] \in Operation
  BY DEF OperationsOnly, IsPlan
<1>1. \A i \in 1..n : Accepts(out(i - 1).store, operations[i], privileged)
  BY <1>0, EveryOperationAccepted
<1>2. \A i \in 1..n : out(i) = Step(st, privileged, out(i - 1), operations[i])
  BY <1>0, OutcomeGoesOn
<1>3. out(0) = Success(st)
  BY <1>0, OutcomeStarts
<1> HIDE DEF out, n
<1>4. 0 \in T
  BY <1>3, SuccessFields DEF Reached
<1>5. ASSUME NEW k \in T PROVE k + 1 \in T
  <2>1. SUFFICES ASSUME k + 1 =< n PROVE Reached(st, out(k + 1))
    OBVIOUS
  <2>2. k + 1 \in 1..n /\ (k + 1) - 1 = k /\ Reached(st, out(k))
    BY <1>0, <2>1
  <2>3. /\ Accepts(out(k).store, operations[k + 1], privileged)
        /\ out(k + 1) = Step(st, privileged, out(k), operations[k + 1])
        /\ operations[k + 1] \in Operation
    BY <1>0, <1>1, <1>2, <2>2
  <2>4. QED
    BY <2>2, <2>3, StepReaches
<1>6. T = Nat
  <2>1. T \in SUBSET Nat
    OBVIOUS
  <2> HIDE DEF T
  <2>2. QED
    BY <1>4, <1>5, <2>1, Induction
<1>7. \A i \in 0..n : Reached(st, out(i))
  BY <1>0, <1>6
<1>8. QED
  BY <1>7 DEF out, n

LEMMA ApplyAdvances ==
  ASSUME NEW st, StoreTypeOK(st), NEW privileged \in BOOLEAN,
         NEW operations, OperationsOnly(operations), NEW expected,
         Apply(st, expected, operations, privileged).ok
  PROVE  /\ Apply(st, expected, operations, privileged)
              = Success(Advanced(Outcome(st, operations, privileged, Len(operations)).store))
         /\ StoreTypeOK(Apply(st, expected, operations, privileged).store)
         /\ Apply(st, expected, operations, privileged).store.revision = st.revision + 1
         /\ PlanAdmitted(st, expected, operations)
<1> DEFINE end == Outcome(st, operations, privileged, Len(operations))
           result == Apply(st, expected, operations, privileged)
<1>0. IsPlan(operations)
  BY DEF OperationsOnly
<1>1. PlanAdmitted(st, expected, operations)
  <2>1. SUFFICES ASSUME ~ PlanAdmitted(st, expected, operations) PROVE FALSE
    OBVIOUS
  <2>2. result = Failure(st)
    BY <1>0, <2>1, ApplyIsOutcome
  <2>3. QED
    BY <2>2, SuccessFields
<1>2. Reached(st, end)
  <2>1. Len(operations) \in 0..Len(operations)
    BY <1>0 DEF IsPlan
  <2>2. QED
    BY <2>1, OutcomesReach
<1>3. result = Success(Advanced(end.store))
  BY <1>0, <1>1, <1>2, ApplySucceeds DEF Reached
<1> HIDE DEF end, result
<1>4. StoreTypeOK(Advanced(end.store)) /\ Advanced(end.store).revision = st.revision + 1
  BY <1>2 DEF Reached, StoreTypeOK, Advanced
<1>5. result.store = Advanced(end.store)
  BY <1>3, SuccessFields
<1>6. QED
  BY <1>1, <1>3, <1>4, <1>5 DEF end, result
=============================================================================
