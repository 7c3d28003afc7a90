-------------------------- MODULE SqlEngineProofs --------------------------
(* Theorems about batches of SQL and calls of functions, for any databases *)
(* to start from, any values, policies and foreign keys.                   *)
(*                                                                         *)
(* A statement is followed by its referential actions, and INSERT is a     *)
(* loop over its rows.  The loops come first: what one turn keeps, all     *)
(* turns keep (Turns, TurnsSpare).  Then the referential actions: they     *)
(* change no table but those that have foreign keys (Spares).  Then row    *)
(* security, one lemma per statement: it changes its own table, and there  *)
(* no row of others (Respects).  Then the engine, whose invariant says     *)
(* that what is staged differs from the database in no row of others       *)
(* unless somebody with more authority has been at work.  Last, what the   *)
(* referential actions are for: they mend what a statement breaks, and     *)
(* after a DELETE they come to an end.                                     *)
EXTENDS SqlEngine, TLAPS, WellFoundedInduction, SequenceTheorems, FiniteSetTheorems

(* Induction over the naturals, for a set of them.                         *)
LEMMA Induction ==
  ASSUME NEW T \in SUBSET Nat, 0 \in T, \A n \in T : n + 1 \in T
  PROVE  T = Nat
<1> DEFINE Less == OpToRel(<, Nat)
           Out == Nat \ T
<1>1. SUFFICES ASSUME Out # {} PROVE FALSE
  OBVIOUS
<1>2. IsWellFoundedOn(Less, Nat)
  BY NatLessThanWellFounded
<1>3. \A x, y \in Nat : <<y, x>> \in Less <=> y < x
  BY DEF OpToRel
<1> HIDE DEF Less
<1>4. PICK m \in Out : \A k \in Out : ~ (<<k, m>> \in Less)
  BY <1>1, <1>2, WFMin
<1>5. m # 0 /\ m - 1 \in Nat /\ m - 1 < m
  BY <1>4
<1>6. m - 1 \in T
  BY <1>3, <1>4, <1>5
<1>7. QED
  BY <1>4, <1>5, <1>6

(* A set of naturals that is not empty has a least element.                *)
LEMMA LeastOfNaturals ==
  ASSUME NEW S \in SUBSET Nat, S # {}
  PROVE  Min(S) \in S
<1> DEFINE Less == OpToRel(<, Nat)
<1>1. IsWellFoundedOn(Less, Nat)
  BY NatLessThanWellFounded
<1>2. \A x, y \in Nat : <<y, x>> \in Less <=> y < x
  BY DEF OpToRel
<1> HIDE DEF Less
<1>3. PICK m \in S : \A k \in S : ~ (<<k, m>> \in Less)
  BY <1>1, WFMin
<1>4. ASSUME NEW k \in S PROVE m =< k
  <2>1. k \in Nat /\ m \in Nat
    OBVIOUS
  <2>2. ~ (k < m)
    BY <1>2, <1>3, <2>1
  <2>3. QED
    BY <2>1, <2>2
<1>5. QED
  BY <1>4 DEF Min

(* The loops of INSERT over its rows, of a change over the foreign keys    *)
(* that reference its table, and over the queue of changes: one turn, and  *)
(* n of them.                                                              *)
Turn(loop, acc, i) ==
    CASE loop.over = "rows" -> InsertOne(acc, loop.table, loop.rows[i], loop.conflict, loop.context)
      [] loop.over = "keys" -> IF loop.keys[i].target # loop.change.table THEN acc
                               ELSE Act(acc, loop.change, loop.keys[i])
      [] loop.over = "queue" -> SettleOne(acc)

Turns(g, n, loop, start) ==
    g = [i \in 0..n |-> IF i = 0 THEN start ELSE Turn(loop, g[i - 1], i)]

(* Every loop has its turns: CHOOSE finds what its definition describes.   *)
LEMMA TurnsExist ==
  ASSUME NEW start, NEW loop, NEW n \in Nat
  PROVE  \E g : Turns(g, n, loop, start)
<1> DEFINE T == {k \in Nat : \E g : Turns(g, k, loop, start)}
<1>1. 0 \in T
  <2> DEFINE g == [i \in 0..0 |-> start]
  <2>1. Turns(g, 0, loop, start)
    BY DEF Turns
  <2>2. QED
    BY <2>1
<1>2. ASSUME NEW k \in T PROVE k + 1 \in T
  <2>1. PICK g : Turns(g, k, loop, start)
    OBVIOUS
  <2> DEFINE h == [i \in 0..k + 1 |-> IF i = k + 1 THEN Turn(loop, g[k], i) ELSE g[i]]
             body(i) == IF i = 0 THEN start ELSE Turn(loop, h[i - 1], i)
  <2>2. ASSUME NEW i \in 0..k + 1 PROVE h[i] = body(i)
    <3>1. CASE i = k + 1
      <4>1. i # 0 /\ i - 1 = k /\ h[i - 1] = g[k]
        BY <3>1
      <4>2. h[i] = Turn(loop, g[k], i)
        BY <3>1
      <4> HIDE DEF h
      <4>3. QED
        BY <4>1, <4>2
    <3>2. CASE i # k + 1
      <4>1. i \in 0..k /\ h[i] = g[i]
        BY <3>2
      <4>2. i # 0 => h[i - 1] = g[i - 1]
        BY <3>2
      <4>3. g[i] = IF i = 0 THEN start ELSE Turn(loop, g[i - 1], i)
        BY <2>1, <4>1 DEF Turns
      <4> HIDE DEF h
      <4>4. QED
        BY <4>1, <4>2, <4>3
    <3>3. QED
      BY <3>1, <3>2
  <2>3. h = [i \in 0..k + 1 |-> h[i]]
    OBVIOUS
  <2>4. [i \in 0..k + 1 |-> h[i]] = [i \in 0..k + 1 |-> body(i)]
    <3> HIDE DEF h
    <3>1. QED
      BY <2>2
  <2>5. Turns(h, k + 1, loop, start)
    <3> HIDE DEF h
    <3>1. QED
      BY <2>3, <2>4 DEF Turns
  <2>6. QED
    BY <2>5
<1>3. T = Nat
  <2> HIDE DEF T
  <2>1. T \in SUBSET Nat
    BY DEF T
  <2>2. QED
    BY <1>1, <1>2, <2>1, Induction
<1>4. QED
  BY <1>3

(* What the loops compute.                                                 *)
RowsLoop(t, rows, conflict, context) ==
    [over |-> "rows", table |-> t, rows |-> rows, conflict |-> conflict, context |-> context]
KeysLoop(keys, change) == [over |-> "keys", keys |-> keys, change |-> change]
QueueLoop == [over |-> "queue"]

LEMMA InsertTurns ==
  ASSUME NEW d, NEW t, NEW rows, Len(rows) \in Nat, NEW conflict, NEW context
  PROVE  \E g : /\ Turns(g, Len(rows), RowsLoop(t, rows, conflict, context),
                         [ok |-> TRUE, db |-> d, touched |-> {}])
                /\ Insert(d, t, rows, conflict, context) =
                     [ok |-> g[Len(rows)].ok, db |-> g[Len(rows)].db]
<1> DEFINE n == Len(rows)
           loop == RowsLoop(t, rows, conflict, context)
           start == [ok |-> TRUE, db |-> d, touched |-> {}]
           g == CHOOSE g : g = [i \in 0..n |-> IF i = 0 THEN start
                                   ELSE InsertOne(g[i - 1], t, rows[i], conflict, context)]
<1>1. \A acc, i : Turn(loop, acc, i) = InsertOne(acc, t, rows[i], conflict, context)
  BY DEF Turn, RowsLoop
<1>2. \E h : Turns(h, n, loop, start)
  BY TurnsExist
<1> HIDE DEF loop, start
<1>3. \E h : h = [i \in 0..n |-> IF i = 0 THEN start
                                ELSE InsertOne(h[i - 1], t, rows[i], conflict, context)]
  BY <1>1, <1>2 DEF Turns
<1>4. g = [i \in 0..n |-> IF i = 0 THEN start
                          ELSE InsertOne(g[i - 1], t, rows[i], conflict, context)]
  BY <1>3
<1>5. Insert(d, t, rows, conflict, context) = [ok |-> g[n].ok, db |-> g[n].db]
  BY DEF Insert, start
<1> HIDE DEF g
<1>6. Turns(g, n, loop, start)
  BY <1>1, <1>4 DEF Turns
<1>7. QED
  BY <1>5, <1>6 DEF loop, start

LEMMA ActAllTurns ==
  ASSUME NEW acc, NEW change, Len(acc.db.catalog.foreign_keys) \in Nat
  PROVE  LET keys == acc.db.catalog.foreign_keys
         IN  \E g : /\ Turns(g, Len(keys), KeysLoop(keys, change), acc)
                    /\ ActAll(acc, change) = g[Len(keys)]
<1> DEFINE keys == acc.db.catalog.foreign_keys
           n == Len(keys)
           loop == KeysLoop(keys, change)
           g == CHOOSE g : g = [i \in 0..n |-> IF i = 0 THEN acc
                                   ELSE IF keys[i].target # change.table THEN g[i - 1]
                                   ELSE Act(g[i - 1], change, keys[i])]
<1>1. \A a, i : Turn(loop, a, i) = IF keys[i].target # change.table THEN a
                                   ELSE Act(a, change, keys[i])
  BY DEF Turn, KeysLoop
<1>2. \E h : Turns(h, n, loop, acc)
  BY TurnsExist
<1> HIDE DEF loop
<1>3. ASSUME NEW h
      PROVE  Turns(h, n, loop, acc) <=>
               h = [i \in 0..n |-> IF i = 0 THEN acc
                                   ELSE IF keys[i].target # change.table THEN h[i - 1]
                                   ELSE Act(h[i - 1], change, keys[i])]
  <2> DEFINE body(i) == IF i = 0 THEN acc
                        ELSE IF keys[i].target # change.table THEN h[i - 1]
                        ELSE Act(h[i - 1], change, keys[i])
             turn(i) == IF i = 0 THEN acc ELSE Turn(loop, h[i - 1], i)
  <2>1. \A i \in 0..n : turn(i) = body(i)
    BY <1>1
  <2>2. Turns(h, n, loop, acc) <=> h = [i \in 0..n |-> turn(i)]
    BY DEF Turns
  <2> HIDE DEF body, turn
  <2>3. [i \in 0..n |-> turn(i)] = [i \in 0..n |-> body(i)]
    BY <2>1
  <2>4. Turns(h, n, loop, acc) <=> h = [i \in 0..n |-> body(i)]
    BY <2>2, <2>3
  <2>5. QED
    BY <2>4 DEF body
<1>4. g = [i \in 0..n |-> IF i = 0 THEN acc
                          ELSE IF keys[i].target # change.table THEN g[i - 1]
                          ELSE Act(g[i - 1], change, keys[i])]
  BY <1>2, <1>3
<1>5. ActAll(acc, change) = g[n]
  BY DEF ActAll
<1> HIDE DEF g
<1>6. Turns(g, n, loop, acc)
  BY <1>3, <1>4
<1>7. QED
  BY <1>5, <1>6 DEF loop

LEMMA SettleTurns ==
  ASSUME NEW acc
  PROVE  \E g : /\ Turns(g, MaxSteps, QueueLoop, acc)
                /\ Settle(acc) = [g[MaxSteps] EXCEPT !.ok = @ /\ g[MaxSteps].queue = <<>>]
<1> DEFINE g == CHOOSE g : g = [n \in 0..MaxSteps |-> IF n = 0 THEN acc ELSE SettleOne(g[n - 1])]
<1>1. \A a, i : Turn(QueueLoop, a, i) = SettleOne(a)
  BY DEF Turn, QueueLoop
<1>2. \E h : Turns(h, MaxSteps, QueueLoop, acc)
  BY TurnsExist, RelationsAssumption
<1>3. \E h : h = [n \in 0..MaxSteps |-> IF n = 0 THEN acc ELSE SettleOne(h[n - 1])]
  <2>1. PICK h : Turns(h, MaxSteps, QueueLoop, acc)
    BY <1>2
  <2>2. h = [n \in 0..MaxSteps |-> IF n = 0 THEN acc ELSE SettleOne(h[n - 1])]
    BY <1>1, <2>1 DEF Turns
  <2>3. QED
    BY <2>2
<1>4. g = [n \in 0..MaxSteps |-> IF n = 0 THEN acc ELSE SettleOne(g[n - 1])]
  BY <1>3
<1>5. Settle(acc) = [g[MaxSteps] EXCEPT !.ok = @ /\ g[MaxSteps].queue = <<>>]
  BY DEF Settle
<1> HIDE DEF g
<1>6. Turns(g, MaxSteps, QueueLoop, acc)
  BY <1>1, <1>4 DEF Turns
<1>7. QED
  BY <1>5, <1>6

----------------------------------------------------------------------------
(* Referential actions.                                                    *)

(* One table gets other rows.                                              *)
WithRows(d, t, R) == [d EXCEPT !.rows[t] = R]

Only(d, e, t) ==
    /\ Formed(e) /\ e.catalog = d.catalog /\ e.next_row_id = d.next_row_id
    /\ DOMAIN e.rows = DOMAIN d.rows
    /\ \A s \in DOMAIN d.rows : s # t => e.rows[s] = d.rows[s]

(* Assigning to a column leaves a row with its columns.                    *)
LEMMA AssignedHasColumns ==
  ASSUME NEW row, NEW C, HasColumns(row, C), NEW c, NEW value
  PROVE  /\ HasColumns([row EXCEPT ![c] = value], C)
         /\ c \in C => [row EXCEPT ![c] = value][c] = value
         /\ \A x \in C : x # c => [row EXCEPT ![c] = value][x] = row[x]
BY DEF HasColumns

(* A database whose rows in one table are replaced is formed as before, if *)
(* the rows have identifiers that have been given out.                     *)
LEMMA RowsReplaced ==
  ASSUME NEW d, Formed(d), NEW t \in DOMAIN d.rows, NEW R,
         \A r \in DOMAIN R : /\ r \in Nat /\ r < d.next_row_id[t]
                             /\ HasColumns(R[r], d.catalog.columns[t])
  PROVE  Only(d, WithRows(d, t, R), t) /\ WithRows(d, t, R).rows[t] = R
<1> DEFINE e == WithRows(d, t, R)
<1>1. e = [catalog |-> d.catalog, rows |-> [d.rows EXCEPT ![t] = R], next_row_id |-> d.next_row_id]
  BY DEF Formed, WithRows
<1>2. /\ e.catalog = d.catalog /\ e.next_row_id = d.next_row_id
      /\ e.rows = [d.rows EXCEPT ![t] = R]
  BY <1>1
<1>3. e = [catalog |-> e.catalog, rows |-> e.rows, next_row_id |-> e.next_row_id]
  BY <1>1, <1>2
<1> HIDE DEF e
<1>4. d.rows = [s \in DOMAIN d.rows |-> d.rows[s]]
  BY DEF Formed
<1>5. /\ DOMAIN e.rows = DOMAIN d.rows /\ e.rows = [s \in DOMAIN e.rows |-> e.rows[s]]
      /\ e.rows[t] = R /\ \A s \in DOMAIN d.rows : s # t => e.rows[s] = d.rows[s]
  BY <1>2, <1>4
<1>6. Formed(e)
  <2>1. CatalogFormed(e.catalog, DOMAIN e.rows) /\ e.next_row_id = [s \in DOMAIN e.rows |-> e.next_row_id[s]]
    BY <1>2, <1>5 DEF Formed
  <2>2. ASSUME NEW s \in DOMAIN e.rows
        PROVE  /\ e.next_row_id[s] \in Nat
               /\ \A r \in DOMAIN e.rows[s] :
                     /\ r \in Nat /\ r < e.next_row_id[s]
                     /\ HasColumns(e.rows[s][r], e.catalog.columns[s])
    BY <1>2, <1>5 DEF Formed, Rows
  <2>3. QED
    BY <1>3, <1>5, <2>1, <2>2 DEF Formed, Rows
<1>7. QED
  BY <1>2, <1>5, <1>6 DEF e, Only

(* What only some foreign key's table may lose or have changed.            *)
Source(catalog, t) == \E fk \in ToSet(catalog.foreign_keys) : fk.source = t

Spares(d, e) ==
    /\ Formed(e) /\ e.catalog = d.catalog /\ DOMAIN e.rows = DOMAIN d.rows
    /\ \A t \in DOMAIN d.rows : ~ Source(d.catalog, t) => e.rows[t] = d.rows[t]

(* The relation is transitive and reflexive.                               *)
LEMMA SparesOn ==
  ASSUME NEW d, NEW e, NEW f, Spares(d, e), Spares(e, f)
  PROVE  Spares(d, f)
BY DEF Spares

LEMMA SparesItself ==
  ASSUME NEW d, Formed(d)
  PROVE  Spares(d, d)
BY DEF Spares

(* What a referential step works on.                                       *)
Accumulator(acc) ==
    acc = [x \in DOMAIN acc |-> acc[x]] /\ DOMAIN acc = {"ok", "db", "queue"}

(* One foreign key's answer to one change removes or changes rows of its   *)
(* own table and nothing else (apply_referential_actions).                 *)
LEMMA ActSpares ==
  ASSUME NEW acc, Accumulator(acc), Formed(acc.db), NEW change,
         NEW fk \in ToSet(acc.db.catalog.foreign_keys)
  PROVE  Accumulator(Act(acc, change, fk)) /\ Spares(acc.db, Act(acc, change, fk).db)
<1> DEFINE d == acc.db
           t == fk.source
           rows == Referring(d, fk, change.old[fk.references])
<1>1. t \in DOMAIN d.rows /\ {fk.on_delete, fk.on_update} \subseteq ReferentialAction
  BY DEF Formed, CatalogFormed
<1>2. \A r \in DOMAIN d.rows[t] : /\ r \in Nat /\ r < d.next_row_id[t]
                                  /\ HasColumns(d.rows[t][r], d.catalog.columns[t])
  BY <1>1 DEF Formed, Rows
<1>3. Source(d.catalog, t)
  BY DEF Source
<1>4. ASSUME NEW R, \A r \in DOMAIN R : r \in DOMAIN d.rows[t] /\ HasColumns(R[r], d.catalog.columns[t])
      PROVE  Spares(d, WithRows(d, t, R))
  BY <1>1, <1>2, <1>3, <1>4, RowsReplaced DEF Only, Spares
<1>5. Spares(d, d)
  BY SparesItself
<1>6. /\ Accumulator(CascadeDelete(acc, fk, rows))
      /\ Spares(d, CascadeDelete(acc, fk, rows).db)
  <2> DEFINE R == [r \in DOMAIN d.rows[t] \ rows |-> d.rows[t][r]]
  <2>1. RemoveRows(d, t, rows) = WithRows(d, t, R)
    BY DEF RemoveRows, WithRows
  <2>2. Accumulator(CascadeDelete(acc, fk, rows))
    BY DEF CascadeDelete, Accumulator
  <2>3. CascadeDelete(acc, fk, rows).db = RemoveRows(d, t, rows)
    BY DEF CascadeDelete, Accumulator
  <2>4. \A r \in DOMAIN R : r \in DOMAIN d.rows[t] /\ HasColumns(R[r], d.catalog.columns[t])
    BY <1>2
  <2> HIDE DEF R
  <2>5. QED
    BY <1>4, <2>1, <2>2, <2>3, <2>4
<1>7. ASSUME NEW value
      PROVE  /\ Accumulator(Redirect(acc, fk, rows, value))
             /\ Spares(d, Redirect(acc, fk, rows, value).db)
  <2> DEFINE next(r) == [Rows(d, t)[r] EXCEPT ![fk.column] = value]
             R == [r \in DOMAIN d.rows[t] |-> IF r \in rows THEN next(r) ELSE d.rows[t][r]]
             moved == Redirect(acc, fk, rows, value)
  <2>1. moved.db = WithRows(d, t, R)
    BY DEF Redirect, WithRows, Accumulator
  <2>2. Accumulator(moved)
    BY DEF Redirect, Accumulator
  <2>3. \A r \in DOMAIN d.rows[t] : HasColumns(next(r), d.catalog.columns[t])
    <3> SUFFICES ASSUME NEW r \in DOMAIN d.rows[t] PROVE HasColumns(next(r), d.catalog.columns[t])
      OBVIOUS
    <3>1. HasColumns(Rows(d, t)[r], d.catalog.columns[t])
      BY <1>2 DEF Rows
    <3>2. QED
      BY <3>1, AssignedHasColumns
  <2> HIDE DEF next
  <2>4. \A r \in DOMAIN R : r \in DOMAIN d.rows[t] /\ HasColumns(R[r], d.catalog.columns[t])
    BY <1>2, <2>3
  <2> HIDE DEF R, moved
  <2>5. QED
    BY <1>4, <2>1, <2>2, <2>4 DEF moved
<1>8. Accumulator([acc EXCEPT !.ok = FALSE]) /\ [acc EXCEPT !.ok = FALSE].db = d
  BY DEF Accumulator
<1> HIDE DEF rows
<1>9. Act(acc, change, fk) \in
        {acc, [acc EXCEPT !.ok = FALSE], CascadeDelete(acc, fk, rows)}
        \cup {Redirect(acc, fk, rows, value) :
                value \in {change.new[fk.references], Null, acc.db.catalog.defaults[fk.source][fk.column]}}
  BY <1>1 DEF Act, ReferentialAction, rows
<1>10. QED
  BY <1>5, <1>6, <1>7, <1>8, <1>9

(* Loops that start with an accumulator end with one, and spare the        *)
(* database.                                                               *)
SparesFrom(start, acc) == Accumulator(acc) /\ Spares(start.db, acc.db)

LEMMA TurnsSpare ==
  ASSUME NEW start, SparesFrom(start, start), NEW n \in Nat, NEW loop, NEW g, Turns(g, n, loop, start),
         \A acc, i : i \in 1..n /\ SparesFrom(start, acc) => SparesFrom(start, Turn(loop, acc, i))
  PROVE  SparesFrom(start, g[n])
<1> DEFINE T == {k \in Nat : k =< n => SparesFrom(start, g[k])}
<1>1. \A i \in 0..n : g[i] = IF i = 0 THEN start ELSE Turn(loop, g[i - 1], i)
  BY DEF Turns
<1>2. 0 \in T
  BY <1>1
<1>3. ASSUME NEW k \in T PROVE k + 1 \in T
  <2>1. SUFFICES ASSUME k + 1 =< n PROVE SparesFrom(start, g[k + 1])
    OBVIOUS
  <2>2. g[k + 1] = Turn(loop, g[k], k + 1)
    BY <1>1, <2>1
  <2>3. SparesFrom(start, g[k]) /\ k + 1 \in 1..n
    BY <2>1
  <2>4. QED
    BY <2>2, <2>3
<1>4. T = Nat
  <2> HIDE DEF T
  <2>1. T \in SUBSET Nat
    BY DEF T
  <2>2. QED
    BY <1>2, <1>3, <2>1, Induction
<1>5. QED
  BY <1>4

(* The answer of all foreign keys to one change.                           *)
LEMMA ActAllSpares ==
  ASSUME NEW acc, Accumulator(acc), Formed(acc.db), NEW change
  PROVE  SparesFrom(acc, ActAll(acc, change))
<1> DEFINE keys == acc.db.catalog.foreign_keys
           n == Len(keys)
           loop == KeysLoop(keys, change)
<1>1. keys \in Seq(ToSet(keys)) /\ n \in Nat /\ \A i \in 1..n : keys[i] \in ToSet(keys)
  <2>1. keys \in Seq(ToSet(keys))
    BY DEF Formed, CatalogFormed
  <2>2. QED
    BY <2>1 DEF ToSet
<1>2. PICK g : Turns(g, n, loop, acc) /\ ActAll(acc, change) = g[n]
  BY <1>1, ActAllTurns
<1>3. ASSUME NEW a, NEW i \in 1..n, SparesFrom(acc, a)
      PROVE  SparesFrom(acc, Turn(loop, a, i))
  <2>1. Turn(loop, a, i) = a \/ Turn(loop, a, i) = Act(a, change, keys[i])
    BY DEF Turn, KeysLoop
  <2>2. Accumulator(a) /\ Spares(acc.db, a.db) /\ Formed(a.db) /\ a.db.catalog = acc.db.catalog
    BY <1>3 DEF SparesFrom, Spares
  <2>3. Accumulator(Act(a, change, keys[i])) /\ Spares(a.db, Act(a, change, keys[i]).db)
    BY <1>1, <2>2, ActSpares
  <2>4. SparesFrom(acc, Act(a, change, keys[i]))
    BY <2>2, <2>3, SparesOn DEF SparesFrom
  <2>5. QED
    BY <1>3, <2>1, <2>4
<1>4. SparesFrom(acc, acc)
  BY SparesItself DEF SparesFrom
<1> HIDE DEF loop, n
<1>5. SparesFrom(acc, g[n])
  BY <1>1, <1>2, <1>3, <1>4, TurnsSpare
<1>6. QED
  BY <1>2, <1>5

(* Settling spares every table that has no foreign key.                    *)
LEMMA SettleSpares ==
  ASSUME NEW acc, Accumulator(acc), Formed(acc.db)
  PROVE  Spares(acc.db, Settle(acc).db)
<1>1. PICK g : /\ Turns(g, MaxSteps, QueueLoop, acc)
               /\ Settle(acc) = [g[MaxSteps] EXCEPT !.ok = @ /\ g[MaxSteps].queue = <<>>]
  BY SettleTurns
<1>2. ASSUME NEW a, NEW i \in 1..MaxSteps, SparesFrom(acc, a)
      PROVE  SparesFrom(acc, Turn(QueueLoop, a, i))
  <2> DEFINE b == [a EXCEPT !.queue = Tail(@)]
  <2>1. Turn(QueueLoop, a, i) = SettleOne(a)
    BY DEF Turn, QueueLoop
  <2>2. SettleOne(a) = a \/ SettleOne(a) = ActAll(b, Head(a.queue))
    BY DEF SettleOne
  <2>3. Accumulator(a) /\ Spares(acc.db, a.db) /\ Formed(a.db)
    BY <1>2 DEF SparesFrom, Spares
  <2>4. Accumulator(b) /\ b.db = a.db
    BY <2>3 DEF Accumulator
  <2> HIDE DEF b
  <2>5. SparesFrom(b, ActAll(b, Head(a.queue)))
    BY <2>3, <2>4, ActAllSpares
  <2>6. SparesFrom(acc, ActAll(b, Head(a.queue)))
    BY <2>3, <2>4, <2>5, SparesOn DEF SparesFrom
  <2>7. QED
    BY <1>2, <2>1, <2>2, <2>6
<1>3. SparesFrom(acc, acc)
  BY SparesItself DEF SparesFrom
<1>4. SparesFrom(acc, g[MaxSteps])
  BY <1>1, <1>2, <1>3, TurnsSpare, RelationsAssumption
<1>5. Settle(acc).db = g[MaxSteps].db
  BY <1>1, <1>4 DEF SparesFrom, Accumulator
<1>6. QED
  BY <1>4, <1>5 DEF SparesFrom

(* All that follows a statement.                                           *)
LEMMA ActionsSpare ==
  ASSUME NEW before, NEW d, Formed(d)
  PROVE  Spares(d, apply_referential_actions(before, d).db)
<1> DEFINE queue == FlattenSeq([i \in DOMAIN d.catalog.tables |->
                                    ChangesOf(before, d, d.catalog.tables[i])])
           acc == [ok |-> TRUE, db |-> d, queue |-> queue]
<1>1. Settled(before, d) = Settle(acc)
  BY DEF Settled
<1> HIDE DEF queue
<1>2. Accumulator(acc) /\ acc.db = d
  BY DEF Accumulator
<1> HIDE DEF acc
<1>3. Spares(d, Settle(acc).db)
  BY <1>2, SettleSpares
<1>4. QED
  BY <1>1, <1>3 DEF apply_referential_actions

----------------------------------------------------------------------------
(* Row security, statement by statement.                                   *)

(* Only owners are let in, and no foreign key changes the table.           *)
Owned(catalog, t) ==
    /\ catalog.rls_enabled[t]
    /\ LET policies == catalog.policies[t]
           own(p) == p.using = "own" /\ p.check \in {Absent, "own"}
       IN  \/ \A p \in policies : p.permissive => own(p)
           \/ \E p \in policies : ~ p.permissive /\ p.command = "ALL" /\ "public" \in p.roles /\ own(p)
    /\ ~ Source(catalog, t)

(* owner = auth.uid() holds of nothing without a uid.                      *)
LEMMA OwnPredicate ==
  ASSUME NEW values, NEW context, predicate("own", values, context)
  PROVE  values.owner = context.uid
BY RelationsAssumption DEF predicate, PolicyExpr

(* A row that a user is let at in such a table is his.                     *)
LEMMA AllowedIsOwn ==
  ASSUME NEW d, NEW t, Owned(d.catalog, t), NEW command, NEW values, NEW context,
         ~ context.privileged, NEW check, allowed(d, t, command, values, context, check)
  PROVE  values.owner = context.uid
<1> DEFINE own(p) == p.using = "own" /\ p.check \in {Absent, "own"}
           expr(p) == IF check /\ p.check # Absent THEN p.check ELSE p.using
<1>1. ASSUME NEW p, own(p), predicate(expr(p), values, context)
      PROVE  values.owner = context.uid
  <2>1. expr(p) = "own"
    BY <1>1
  <2>2. QED
    BY <1>1, <2>1, OwnPredicate
<1>2. CASE \A p \in d.catalog.policies[t] : p.permissive => own(p)
  <2>1. PICK p \in d.catalog.policies[t] : p.permissive /\ predicate(expr(p), values, context)
    BY DEF allowed, Owned
  <2>2. QED
    BY <1>1, <1>2, <2>1
<1>3. CASE \E p \in d.catalog.policies[t] :
              ~ p.permissive /\ p.command = "ALL" /\ "public" \in p.roles /\ own(p)
  <2>1. PICK p \in d.catalog.policies[t] :
              ~ p.permissive /\ p.command = "ALL" /\ "public" \in p.roles /\ own(p)
    BY <1>3
  <2>2. Applies(p, command, context)
    BY <2>1 DEF Applies
  <2>3. predicate(expr(p), values, context)
    BY <2>1, <2>2 DEF allowed, Owned
  <2>4. QED
    BY <1>1, <2>1, <2>3
<1>4. QED
  BY <1>2, <1>3 DEF Owned

(* A database of the same catalog and tables; one with the same rows of    *)
(* others, wherever only owners are let in.                                *)
Stays(d, e) == Formed(e) /\ e.catalog = d.catalog /\ DOMAIN e.rows = DOMAIN d.rows

Untouched(d, e, uid) ==
    \A t \in DOMAIN d.rows :
        Owned(d.catalog, t) => RowsOfOthers(e, t, uid) = RowsOfOthers(d, t, uid)

(* What a statement of a user leaves behind.                               *)
Respects(d, context, e) == ~ context.privileged => Untouched(d, e, context.uid)

(* Both relations are transitive.                                          *)
LEMMA StaysOn ==
  ASSUME NEW d, NEW e, NEW f, Stays(d, e), Stays(e, f)
  PROVE  Stays(d, f) /\ \A uid : Untouched(d, e, uid) /\ Untouched(e, f, uid) => Untouched(d, f, uid)
BY DEF Stays, Untouched

(* A table that only owners are let into has no foreign key, so that its   *)
(* rows are spared.                                                        *)
LEMMA SparesStays ==
  ASSUME NEW d, NEW e, Spares(d, e), NEW uid
  PROVE  Stays(d, e) /\ Untouched(d, e, uid)
<1>1. ASSUME NEW t \in DOMAIN d.rows, Owned(d.catalog, t)
      PROVE  RowsOfOthers(e, t, uid) = RowsOfOthers(d, t, uid)
  <2>1. e.rows[t] = d.rows[t]
    BY <1>1 DEF Owned, Spares
  <2>2. QED
    BY <2>1 DEF RowsOfOthers, Rows
<1>2. QED
  BY <1>1 DEF Spares, Stays, Untouched

(* Rows of others are the same if each of them, before and after, is.      *)
LEMMA OthersAreTheSame ==
  ASSUME NEW d, NEW e, NEW t, NEW uid,
         \A r \in DOMAIN d.rows[t] :
            d.rows[t][r].owner # uid => r \in DOMAIN e.rows[t] /\ e.rows[t][r] = d.rows[t][r],
         \A r \in DOMAIN e.rows[t] :
            e.rows[t][r].owner # uid => r \in DOMAIN d.rows[t] /\ e.rows[t][r] = d.rows[t][r]
  PROVE  RowsOfOthers(e, t, uid) = RowsOfOthers(d, t, uid)
<1> DEFINE D == {r \in DOMAIN d.rows[t] : d.rows[t][r].owner # uid}
           E == {r \in DOMAIN e.rows[t] : e.rows[t][r].owner # uid}
<1>1. D = E /\ \A r \in D : e.rows[t][r] = d.rows[t][r]
  OBVIOUS
<1>2. /\ RowsOfOthers(d, t, uid) = {<<r, d.rows[t][r]>> : r \in D}
      /\ RowsOfOthers(e, t, uid) = {<<r, e.rows[t][r]>> : r \in E}
  BY DEF RowsOfOthers, Rows
<1> HIDE DEF D, E
<1>3. QED
  BY <1>1, <1>2

(* A statement that changes one table, and there only what its caller is   *)
(* let at.                                                                 *)
LEMMA OnlyOwnRows ==
  ASSUME NEW d, Formed(d), NEW t \in DOMAIN d.rows, NEW e, Only(d, e, t), NEW context,
         ~ context.privileged /\ Owned(d.catalog, t) =>
            RowsOfOthers(e, t, context.uid) = RowsOfOthers(d, t, context.uid)
  PROVE  Stays(d, e) /\ Respects(d, context, e)
<1>1. ASSUME ~ context.privileged, NEW s \in DOMAIN d.rows, Owned(d.catalog, s)
      PROVE  RowsOfOthers(e, s, context.uid) = RowsOfOthers(d, s, context.uid)
  <2>1. CASE s = t
    BY <1>1, <2>1
  <2>2. CASE s # t
    <3>1. e.rows[s] = d.rows[s]
      BY <2>2 DEF Only
    <3>2. QED
      BY <3>1 DEF RowsOfOthers, Rows
  <2>3. QED
    BY <2>1, <2>2
<1>2. QED
  BY <1>1 DEF Only, Stays, Respects, Untouched

(* DELETE removes rows that USING has let the caller see.                  *)
LEMMA DeleteRespects ==
  ASSUME NEW d, Formed(d), NEW t \in DOMAIN d.rows, NEW selected, NEW context
  PROVE  LET e == Delete(d, t, selected, context).db
         IN  Stays(d, e) /\ Respects(d, context, e)
<1> DEFINE ids == {r \in selected : allowed(d, t, "DELETE", Rows(d, t)[r], context, FALSE)}
           R == [r \in DOMAIN d.rows[t] \ ids |-> d.rows[t][r]]
           e == WithRows(d, t, R)
<1>1. Delete(d, t, selected, context).db = e
  BY DEF Delete, Success, RemoveRows, WithRows
<1>2. \A r \in DOMAIN d.rows[t] : /\ r \in Nat /\ r < d.next_row_id[t]
                                  /\ HasColumns(d.rows[t][r], d.catalog.columns[t])
  BY DEF Formed, Rows
<1>3. Only(d, e, t) /\ e.rows[t] = R
  <2> HIDE DEF ids
  <2>1. \A r \in DOMAIN R : /\ r \in Nat /\ r < d.next_row_id[t]
                            /\ HasColumns(R[r], d.catalog.columns[t])
    BY <1>2
  <2> HIDE DEF R
  <2>2. QED
    BY <2>1, RowsReplaced
<1> HIDE DEF e
<1>4. ASSUME ~ context.privileged, Owned(d.catalog, t)
      PROVE  RowsOfOthers(e, t, context.uid) = RowsOfOthers(d, t, context.uid)
  <2>1. \A r \in ids : d.rows[t][r].owner = context.uid
    BY <1>4, AllowedIsOwn DEF Rows
  <2> HIDE DEF ids
  <2>2. QED
    BY <1>3, <2>1, OthersAreTheSame
<1>5. QED
  BY <1>1, <1>3, <1>4, OnlyOwnRows

(* UPDATE: USING for the row that was, WITH CHECK for the row that will be. *)
LEMMA UpdateRespects ==
  ASSUME NEW d, Formed(d), NEW t \in DOMAIN d.rows, NEW selected, NEW column, NEW value, NEW context,
         Update(d, t, selected, column, value, context).ok
  PROVE  LET e == Update(d, t, selected, column, value, context).db
         IN  Stays(d, e) /\ Respects(d, context, e)
<1> DEFINE changed == {r \in selected : allowed(d, t, "UPDATE", Rows(d, t)[r], context, FALSE)}
           next(r) == [Rows(d, t)[r] EXCEPT ![column] = value[r]]
           R == [r \in DOMAIN d.rows[t] |-> IF r \in changed THEN next(r) ELSE d.rows[t][r]]
           e == WithRows(d, t, R)
<1>1. Update(d, t, selected, column, value, context).db = e
  BY DEF Update, WithRows
<1>2. \A r \in changed : allowed(d, t, "UPDATE", next(r), context, TRUE)
  BY DEF Update
<1>3. \A r \in DOMAIN d.rows[t] : /\ r \in Nat /\ r < d.next_row_id[t]
                                  /\ HasColumns(d.rows[t][r], d.catalog.columns[t])
  BY DEF Formed, Rows
<1>4. Only(d, e, t) /\ e.rows[t] = R
  <2>1. \A r \in DOMAIN d.rows[t] : HasColumns(next(r), d.catalog.columns[t])
    BY <1>3, AssignedHasColumns DEF Rows
  <2> HIDE DEF next, changed
  <2>2. \A r \in DOMAIN R : /\ r \in Nat /\ r < d.next_row_id[t]
                            /\ HasColumns(R[r], d.catalog.columns[t])
    BY <1>3, <2>1
  <2> HIDE DEF R
  <2>3. QED
    BY <2>2, RowsReplaced
<1> HIDE DEF e
<1>5. ASSUME ~ context.privileged, Owned(d.catalog, t)
      PROVE  RowsOfOthers(e, t, context.uid) = RowsOfOthers(d, t, context.uid)
  <2>1. \A r \in changed : d.rows[t][r].owner = context.uid
    <3> SUFFICES ASSUME NEW r \in changed PROVE d.rows[t][r].owner = context.uid
      OBVIOUS
    <3>1. allowed(d, t, "UPDATE", d.rows[t][r], context, FALSE)
      BY DEF Rows
    <3>2. QED
      BY <1>5, <3>1, AllowedIsOwn
  <2> HIDE DEF next
  <2>2. \A r \in changed : next(r).owner = context.uid
    BY <1>2, <1>5, AllowedIsOwn
  <2> HIDE DEF changed
  <2>3. QED
    BY <1>4, <2>1, <2>2, OthersAreTheSame
<1>6. QED
  BY <1>1, <1>4, <1>5, OnlyOwnRows

(* INSERT.  What a row that is new is stored under is used by no row.      *)
LEMMA RowAdded ==
  ASSUME NEW d, Formed(d), NEW t \in DOMAIN d.rows,
         NEW values, HasColumns(values, d.catalog.columns[t])
  PROVE  LET id == d.next_row_id[t]
             e == Allocated(PutRow(d, t, id, values), t)
         IN  Stays(d, e) /\ e.rows = [d.rows EXCEPT ![t] = Put(d.rows[t], id, values)]
<1> DEFINE id == d.next_row_id[t]
           R == Put(d.rows[t], id, values)
           e == Allocated(PutRow(d, t, id, values), t)
<1>1. e = [catalog |-> d.catalog, rows |-> [d.rows EXCEPT ![t] = R],
           next_row_id |-> [d.next_row_id EXCEPT ![t] = @ + 1]]
  <2> HIDE DEF R, id
  <2>1. d = [catalog |-> d.catalog, rows |-> d.rows, next_row_id |-> d.next_row_id]
    BY DEF Formed
  <2>2. PutRow(d, t, id, values) =
          [catalog |-> d.catalog, rows |-> [d.rows EXCEPT ![t] = R], next_row_id |-> d.next_row_id]
    BY <2>1 DEF PutRow, R
  <2>3. QED
    BY <2>2 DEF Allocated
<1>2. /\ e.catalog = d.catalog /\ e.rows = [d.rows EXCEPT ![t] = R]
      /\ e.next_row_id = [d.next_row_id EXCEPT ![t] = @ + 1]
      /\ e = [catalog |-> e.catalog, rows |-> e.rows, next_row_id |-> e.next_row_id]
  BY <1>1
<1> HIDE DEF e
<1>3. /\ d.rows = [s \in DOMAIN d.rows |-> d.rows[s]]
      /\ d.next_row_id = [s \in DOMAIN d.rows |-> d.next_row_id[s]]
      /\ \A s \in DOMAIN d.rows :
            /\ d.next_row_id[s] \in Nat
            /\ \A r \in DOMAIN d.rows[s] : /\ r \in Nat /\ r < d.next_row_id[s]
                                         /\ HasColumns(d.rows[s][r], d.catalog.columns[s])
  BY DEF Formed, Rows
<1>4. /\ DOMAIN R = DOMAIN d.rows[t] \cup {id}
      /\ \A r \in DOMAIN R : R[r] = values \/ (r \in DOMAIN d.rows[t] /\ R[r] = d.rows[t][r])
  BY DEF Put
<1> HIDE DEF R
<1>5. /\ DOMAIN e.rows = DOMAIN d.rows /\ e.rows = [s \in DOMAIN e.rows |-> e.rows[s]]
      /\ e.next_row_id = [s \in DOMAIN e.rows |-> e.next_row_id[s]]
  BY <1>2, <1>3
<1>6. ASSUME NEW s \in DOMAIN e.rows
      PROVE  /\ e.next_row_id[s] \in Nat
             /\ \A r \in DOMAIN e.rows[s] : /\ r \in Nat /\ r < e.next_row_id[s]
                                          /\ HasColumns(e.rows[s][r], e.catalog.columns[s])
  <2>1. CASE s = t
    <3>1. e.rows[s] = R /\ e.next_row_id[s] = id + 1 /\ id \in Nat
      BY <1>2, <1>3, <2>1
    <3>2. \A r \in DOMAIN R : r = id \/ (r \in Nat /\ r < id)
      BY <1>3, <1>4
    <3>3. \A r \in DOMAIN R : HasColumns(R[r], d.catalog.columns[t])
      BY <1>3, <1>4
    <3> HIDE DEF id
    <3>4. QED
      BY <1>2, <2>1, <3>1, <3>2, <3>3
  <2>2. CASE s # t
    BY <1>2, <1>3, <1>5, <2>2
  <2>3. QED
    BY <2>1, <2>2
<1>7. CatalogFormed(e.catalog, DOMAIN e.rows)
  BY <1>2, <1>5 DEF Formed
<1>8. Formed(e)
  BY <1>2, <1>5, <1>6, <1>7 DEF Formed, Rows
<1>9. QED
  BY <1>2, <1>5, <1>8 DEF Stays, e, R

(* The row that is added passes WITH CHECK.                                *)
LEMMA AddedRespects ==
  ASSUME NEW d, Formed(d), NEW t \in DOMAIN d.rows,
         NEW values, HasColumns(values, d.catalog.columns[t]), NEW context,
         allowed(d, t, "INSERT", values, context, TRUE)
  PROVE  LET e == Allocated(PutRow(d, t, d.next_row_id[t], values), t)
         IN  Stays(d, e) /\ Respects(d, context, e)
<1> DEFINE id == d.next_row_id[t]
           e == Allocated(PutRow(d, t, id, values), t)
<1>1. Stays(d, e) /\ e.rows = [d.rows EXCEPT ![t] = Put(d.rows[t], id, values)]
  BY RowAdded
<1> HIDE DEF e
<1>2. ASSUME ~ context.privileged, NEW s \in DOMAIN d.rows, Owned(d.catalog, s)
      PROVE  RowsOfOthers(e, s, context.uid) = RowsOfOthers(d, s, context.uid)
  <2>1. CASE s = t
    <3>1. e.rows[t] = Put(d.rows[t], id, values)
      BY <1>1 DEF Formed
    <3>2. values.owner = context.uid
      BY <1>2, <2>1, AllowedIsOwn
    <3>3. id \notin DOMAIN d.rows[t]
      BY DEF Formed, Rows
    <3> HIDE DEF id
    <3>4. /\ DOMAIN e.rows[t] = DOMAIN d.rows[t] \cup {id}
          /\ e.rows[t][id] = values
          /\ \A r \in DOMAIN d.rows[t] : e.rows[t][r] = d.rows[t][r]
      BY <3>1, <3>3 DEF Put
    <3>5. QED
      BY <2>1, <3>2, <3>4, OthersAreTheSame
  <2>2. CASE s # t
    <3>1. e.rows[s] = d.rows[s]
      BY <1>1, <2>2 DEF Formed
    <3>2. QED
      BY <3>1 DEF RowsOfOthers, Rows
  <2>3. QED
    BY <2>1, <2>2
<1>3. Respects(d, context, e)
  BY <1>2 DEF Respects, Untouched
<1>4. QED
  BY <1>1, <1>3 DEF e

(* ON CONFLICT DO UPDATE: the row that was there and the one that takes    *)
(* its place are both the caller's.                                        *)
LEMMA ReplacedRespects ==
  ASSUME NEW d, Formed(d), NEW t \in DOMAIN d.rows, NEW id \in DOMAIN d.rows[t],
         NEW next, HasColumns(next, d.catalog.columns[t]), NEW context,
         allowed(d, t, "UPDATE", d.rows[t][id], context, FALSE),
         allowed(d, t, "UPDATE", next, context, TRUE)
  PROVE  Stays(d, PutRow(d, t, id, next)) /\ Respects(d, context, PutRow(d, t, id, next))
<1> DEFINE R == Put(d.rows[t], id, next)
           e == WithRows(d, t, R)
<1>1. PutRow(d, t, id, next) = e
  BY DEF PutRow, WithRows
<1>2. \A r \in DOMAIN d.rows[t] : /\ r \in Nat /\ r < d.next_row_id[t]
                                  /\ HasColumns(d.rows[t][r], d.catalog.columns[t])
  BY DEF Formed, Rows
<1>3. DOMAIN R = DOMAIN d.rows[t] /\ \A r \in DOMAIN R : R[r] = IF r = id THEN next ELSE d.rows[t][r]
  BY DEF Put
<1> HIDE DEF R
<1>4. Only(d, e, t) /\ e.rows[t] = R
  BY <1>2, <1>3, RowsReplaced
<1> HIDE DEF e
<1>5. ASSUME ~ context.privileged, Owned(d.catalog, t)
      PROVE  RowsOfOthers(e, t, context.uid) = RowsOfOthers(d, t, context.uid)
  <2>1. d.rows[t][id].owner = context.uid
    <3>1. ASSUME NEW old, allowed(d, t, "UPDATE", old, context, FALSE)
          PROVE  old.owner = context.uid
      BY <1>5, <3>1, AllowedIsOwn
    <3>2. QED
      BY <3>1
  <2>2. next.owner = context.uid
    BY <1>5, AllowedIsOwn
  <2>3. QED
    BY <1>3, <1>4, <2>1, <2>2, OthersAreTheSame
<1>6. QED
  BY <1>1, <1>4, <1>5, OnlyOwnRows

(* How far an INSERT has come from the database it found.                  *)
InsertedSoFar(d, context, acc) ==
    /\ acc = [x \in DOMAIN acc |-> acc[x]] /\ DOMAIN acc = {"ok", "db", "touched"}
    /\ acc.ok => Stays(d, acc.db) /\ Respects(d, context, acc.db)

LEMMA RespectsOn ==
  ASSUME NEW d, NEW e, NEW f, NEW context, Stays(d, e), Respects(d, context, e),
         Stays(e, f), Respects(e, context, f)
  PROVE  Stays(d, f) /\ Respects(d, context, f)
BY StaysOn DEF Respects

LEMMA RespectsItself ==
  ASSUME NEW d, Formed(d), NEW context
  PROVE  Stays(d, d) /\ Respects(d, context, d)
BY DEF Stays, Respects, Untouched

(* One row of an INSERT: refused, added, ignored or taken for an update.   *)
LEMMA InsertOneGoesOn ==
  ASSUME NEW d, Formed(d), NEW t \in DOMAIN d.rows,
         NEW values, HasColumns(values, d.catalog.columns[t]), NEW conflict, NEW context,
         NEW acc, InsertedSoFar(d, context, acc)
  PROVE  InsertedSoFar(d, context, InsertOne(acc, t, values, conflict, context))
<1> DEFINE existing == IF conflict = Absent THEN {} ELSE Conflicting(acc.db, t, values, conflict.columns)
           one == InsertOne(acc, t, values, conflict, context)
           old == Rows(acc.db, t)[Min(existing)]
           next == [c \in DOMAIN old |-> IF c \in conflict.assign THEN values[c] ELSE old[c]]
           refused == [acc EXCEPT !.ok = FALSE]
<1>1. InsertedSoFar(d, context, refused)
  BY DEF InsertedSoFar
<1>2. CASE ~ acc.ok
  BY <1>2 DEF InsertOne
<1>3. CASE acc.ok /\ (~ check_row(acc.db, t, values) \/ ~ allowed(acc.db, t, "INSERT", values, context, TRUE))
  BY <1>1, <1>3 DEF InsertOne
<1> DEFINE goes == /\ acc.ok /\ check_row(acc.db, t, values)
                   /\ allowed(acc.db, t, "INSERT", values, context, TRUE)
<1>4. ASSUME acc.ok
      PROVE  /\ Stays(d, acc.db) /\ Respects(d, context, acc.db)
             /\ Formed(acc.db) /\ t \in DOMAIN acc.db.rows
             /\ HasColumns(values, acc.db.catalog.columns[t])
  BY <1>4 DEF InsertedSoFar, Stays
<1>5. CASE goes /\ existing = {}
  <2> DEFINE e == Allocated(PutRow(acc.db, t, acc.db.next_row_id[t], values), t)
  <2>1. one = InsertNew(acc, t, values)
    BY <1>5 DEF InsertOne
  <2>2. Stays(acc.db, e) /\ Respects(acc.db, context, e)
    BY <1>4, <1>5, AddedRespects
  <2> HIDE DEF e
  <2>3. one = [acc EXCEPT !.db = e, !.touched = @ \cup {acc.db.next_row_id[t]}]
    BY <2>1 DEF InsertNew, e
  <2>4. Stays(d, e) /\ Respects(d, context, e)
    BY <1>4, <1>5, <2>2, RespectsOn
  <2>5. QED
    BY <2>3, <2>4 DEF InsertedSoFar
<1>6. CASE goes /\ existing # {} /\ conflict.assign = {}
  BY <1>6 DEF InsertOne
<1>7. CASE goes /\ existing # {} /\ conflict.assign # {}
  <2> DEFINE id == Min(existing)
             ok == /\ id \notin acc.touched /\ check_row(acc.db, t, next)
                   /\ allowed(acc.db, t, "UPDATE", next, context, TRUE)
             e == PutRow(acc.db, t, id, next)
             replaced == [acc EXCEPT !.ok = ok, !.db = e, !.touched = @ \cup {id}]
  <2>1. one = Upsert(acc, t, id, values, conflict, context)
    BY <1>7 DEF InsertOne
  <2>2. CASE ~ allowed(acc.db, t, "UPDATE", old, context, FALSE)
    BY <1>1, <2>1, <2>2 DEF Upsert
  <2>3. CASE allowed(acc.db, t, "UPDATE", old, context, FALSE) /\ ~ conflict.where
    BY <2>1, <2>3 DEF Upsert
  <2>4. CASE allowed(acc.db, t, "UPDATE", old, context, FALSE) /\ conflict.where
    <3>1. one = replaced
      BY <2>1, <2>4 DEF Upsert
    <3>2. id \in DOMAIN acc.db.rows[t]
      <4>1. existing \subseteq DOMAIN acc.db.rows[t]
        BY DEF Conflicting, Rows
      <4>2. DOMAIN acc.db.rows[t] \subseteq Nat
        BY <1>4, <1>7 DEF Formed, Rows
      <4> HIDE DEF existing
      <4>3. QED
        BY <1>7, <4>1, <4>2, LeastOfNaturals
    <3>3. old = acc.db.rows[t][id]
      BY DEF Rows
    <3>4. HasColumns(next, acc.db.catalog.columns[t])
      <4>1. HasColumns(old, acc.db.catalog.columns[t])
        BY <1>4, <1>7, <3>2, <3>3 DEF Formed, Rows
      <4> HIDE DEF old
      <4>2. QED
        BY <4>1 DEF HasColumns
    <3> HIDE DEF old, next, id
    <3>5. ASSUME ok PROVE Stays(acc.db, e) /\ Respects(acc.db, context, e)
      BY <1>4, <1>7, <2>4, <3>2, <3>3, <3>4, <3>5, ReplacedRespects
    <3> HIDE DEF e
    <3>6. ASSUME ok PROVE Stays(d, e) /\ Respects(d, context, e)
      BY <1>4, <1>7, <3>5, <3>6, RespectsOn
    <3> HIDE DEF ok
    <3>7. QED
      BY <3>1, <3>6 DEF InsertedSoFar
  <2>5. QED
    BY <2>2, <2>3, <2>4
<1>8. QED
  BY <1>2, <1>3, <1>5, <1>6, <1>7

(* INSERT, by induction over its rows.                                     *)
LEMMA InsertRespects ==
  ASSUME NEW d, Formed(d), NEW t \in DOMAIN d.rows, NEW rows, Len(rows) \in Nat,
         \A i \in 1..Len(rows) : HasColumns(rows[i], d.catalog.columns[t]), NEW conflict, NEW context,
         Insert(d, t, rows, conflict, context).ok
  PROVE  LET e == Insert(d, t, rows, conflict, context).db
         IN  Stays(d, e) /\ Respects(d, context, e)
<1> DEFINE n == Len(rows)
           loop == RowsLoop(t, rows, conflict, context)
           start == [ok |-> TRUE, db |-> d, touched |-> {}]
           T(g) == {k \in Nat : k =< n => InsertedSoFar(d, context, g[k])}
<1>1. PICK g : /\ Turns(g, n, loop, start)
               /\ Insert(d, t, rows, conflict, context) = [ok |-> g[n].ok, db |-> g[n].db]
  BY InsertTurns
<1>2. \A acc, i : Turn(loop, acc, i) = InsertOne(acc, t, rows[i], conflict, context)
  BY DEF Turn, RowsLoop
<1>3. InsertedSoFar(d, context, start)
  BY RespectsItself DEF InsertedSoFar
<1> HIDE DEF loop, start
<1>4. \A i \in 0..n : g[i] = IF i = 0 THEN start ELSE Turn(loop, g[i - 1], i)
  BY <1>1 DEF Turns
<1>5. 0 \in T(g)
  BY <1>3, <1>4
<1>6. ASSUME NEW k \in T(g) PROVE k + 1 \in T(g)
  <2>1. SUFFICES ASSUME k + 1 =< n PROVE InsertedSoFar(d, context, g[k + 1])
    OBVIOUS
  <2>2. g[k + 1] = InsertOne(g[k], t, rows[k + 1], conflict, context)
    BY <1>2, <1>4, <2>1
  <2>3. InsertedSoFar(d, context, g[k]) /\ HasColumns(rows[k + 1], d.catalog.columns[t])
    BY <2>1
  <2>4. QED
    BY <2>2, <2>3, InsertOneGoesOn
<1>7. T(g) = Nat
  <2> HIDE DEF n
  <2>1. T(g) \in SUBSET Nat
    OBVIOUS
  <2> HIDE DEF T
  <2>2. QED
    BY <1>5, <1>6, <2>1, Induction
<1>8. InsertedSoFar(d, context, g[n])
  BY <1>7
<1>9. QED
  BY <1>1, <1>8 DEF InsertedSoFar

----------------------------------------------------------------------------
(* The engine.  A frame that no definer function is behind, nor is one     *)
(* itself, runs with the authority of the caller.                          *)
Lent(frames, context) ==
    \A i \in 1..Len(frames) :
        (\A j \in 1..i : ~ frames[j].definer) => frames[i].context = context

(* A batch or call in progress: what it has staged is a database of the    *)
(* same catalog, and as long as nobody with more authority was at work it  *)
(* has the rows of others that the database has.                           *)
WorkFields == {"kind", "context", "staged", "frames", "elevated"}

Working ==
    /\ work = [x \in DOMAIN work |-> work[x]] /\ DOMAIN work = WorkFields
    /\ Stays(db, work.staged)
    /\ \E S : work.frames \in Seq(S)
    /\ Lent(work.frames, work.context)
    /\ work.elevated \in BOOLEAN
    /\ ~ work.elevated => Untouched(db, work.staged, work.context.uid)

(* The inductive invariant.                                                *)
EngineInv ==
    /\ Formed(db) /\ validate_constraints(db, TRUE)
    /\ work = Idle \/ Working

(* Without elevation a statement runs as its caller.                       *)
LEMMA RunsAsCaller ==
  ASSUME Working, ~ Elevated
  PROVE  RunningContext = work.context /\ ~ work.context.privileged
<1>1. PICK S : work.frames \in Seq(S)
  BY DEF Working
<1>2. CASE work.frames = <<>>
  BY <1>2 DEF RunningContext, Elevated
<1>3. CASE work.frames # <<>>
  <2>1. Len(work.frames) \in 1..Len(work.frames) /\ DOMAIN work.frames = 1..Len(work.frames)
    BY <1>1, <1>3
  <2>2. Last(work.frames).context = work.context
    BY <2>1 DEF Last, Working, Lent, Elevated
  <2>3. QED
    BY <1>3, <2>2 DEF RunningContext, Elevated
<1>4. QED
  BY <1>2, <1>3

(* What fails leaves no trace.                                             *)
LEMMA AbortEnds ==
  ASSUME EngineInv, Abort
  PROVE  EngineInv'
BY DEF EngineInv, Abort

(* A statement that goes through leaves what its result and its            *)
(* referential actions leave.                                              *)
LEMMA StepSpares ==
  ASSUME NEW before, NEW result, Step(before, result).ok
  PROVE  /\ result.ok
         /\ Formed(result.db) => Spares(result.db, Step(before, result).db)
BY ActionsSpare DEF Step

LEMMA StatementGoesOn ==
  ASSUME EngineInv, Working, NEW result, Statement(result),
         result.ok => Stays(work.staged, result.db) /\ Respects(work.staged, RunningContext, result.db)
  PROVE  EngineInv'
<1> DEFINE step == Step(work.staged, result)
<1>1. CASE ~ step.ok
  BY <1>1, AbortEnds DEF Statement
<1>2. CASE step.ok
  <2>1. /\ work' = [work EXCEPT !.staged = step.db, !.elevated = @ \/ Elevated]
        /\ db' = db
    BY <1>2 DEF Statement
  <2>2. /\ result.ok /\ Stays(work.staged, result.db)
        /\ Respects(work.staged, RunningContext, result.db)
        /\ Spares(result.db, step.db)
    BY <1>2, StepSpares DEF Stays
  <2>3. Stays(db, work.staged)
    BY DEF Working
  <2>4. /\ Stays(result.db, step.db)
        /\ \A uid : Untouched(result.db, step.db, uid)
    BY <2>2, SparesStays
  <2> HIDE DEF step
  <2>5. Stays(work.staged, step.db)
    BY <2>2, <2>4, StaysOn
  <2>6. Stays(db, step.db)
    BY <2>3, <2>5, StaysOn
  <2>7. ASSUME ~ work.elevated, ~ Elevated
        PROVE  Untouched(db, step.db, work.context.uid)
    <3>1. RunningContext = work.context /\ ~ work.context.privileged
      BY <2>7, RunsAsCaller
    <3>2. Untouched(work.staged, result.db, work.context.uid)
      BY <2>2, <3>1 DEF Respects
    <3>3. Untouched(work.staged, step.db, work.context.uid)
      BY <2>2, <2>4, <3>2, StaysOn
    <3>4. Untouched(db, work.staged, work.context.uid)
      BY <2>7 DEF Working
    <3>5. QED
      BY <2>3, <2>5, <3>3, <3>4, StaysOn
  <2>8. /\ work'.staged = step.db /\ work'.frames = work.frames /\ work'.context = work.context
        /\ work' = [x \in DOMAIN work' |-> work'[x]] /\ DOMAIN work' = WorkFields
        /\ work'.elevated = (work.elevated \/ Elevated)
    BY <2>1 DEF Working, WorkFields
  <2>9. Working'
    BY <2>1, <2>6, <2>7, <2>8 DEF Working
  <2>10. QED
    BY <2>1, <2>9 DEF EngineInv
<1>3. QED
  BY <1>1, <1>2

(* A batch or call starts from the database as it is.                      *)
LEMMA BeginsWorking ==
  ASSUME EngineInv, NEW context, NEW kind, NEW frames, NEW S, frames \in Seq(S), Lent(frames, context),
         work' = [kind |-> kind, context |-> context, staged |-> db, frames |-> frames,
                  elevated |-> FALSE],
         db' = db
  PROVE  EngineInv'
<1>1. Stays(db, db) /\ Untouched(db, db, context.uid)
  BY DEF EngineInv, Stays, Untouched
<1>2. Working'
  BY <1>1 DEF Working, WorkFields
<1>3. QED
  BY <1>2 DEF EngineInv

(* A function that is not a definer runs with its caller's authority, so   *)
(* that authority is lent down the frames until a definer is called.       *)
LEMMA NestedCallGoesOn ==
  ASSUME EngineInv, Working, NEW definer \in BOOLEAN, NestedCall(definer)
  PROVE  EngineInv'
<1> DEFINE frame == Frame(RunningContext, definer, work.staged)
           n == Len(work.frames)
<1>1. PICK S : work.frames \in Seq(S)
  BY DEF Working
<1>2. work' = [work EXCEPT !.frames = Append(@, frame)] /\ db' = db
  BY DEF NestedCall
<1>3. frame.definer = definer /\ (~ definer => frame.context = RunningContext)
  BY DEF Frame, Effective
<1> HIDE DEF frame
<1>4. /\ work'.staged = work.staged /\ work'.context = work.context
      /\ work'.elevated = work.elevated /\ work'.frames = Append(work.frames, frame)
      /\ work' = [x \in DOMAIN work' |-> work'[x]] /\ DOMAIN work' = WorkFields
  BY <1>2 DEF Working, WorkFields
<1>5. work'.frames \in Seq(S \cup {frame})
  BY <1>1, <1>4
<1>6. Lent(work'.frames, work.context)
  <2>1. SUFFICES ASSUME NEW i \in 1..Len(Append(work.frames, frame)),
                        \A j \in 1..i : ~ Append(work.frames, frame)[j].definer
                 PROVE  Append(work.frames, frame)[i].context = work.context
    BY <1>4 DEF Lent
  <2>2. CASE i \in 1..n
    <3>1. \A j \in 1..i : ~ work.frames[j].definer
      BY <1>1, <2>1, <2>2
    <3>2. work.frames[i].context = work.context
      BY <2>2, <3>1 DEF Working, Lent
    <3>3. QED
      BY <1>1, <2>2, <3>2
  <2>3. CASE i = n + 1
    <3>1. Append(work.frames, frame)[n + 1] = frame
      BY <1>1
    <3>2. ~ definer
      BY <1>1, <1>3, <2>1, <2>3, <3>1
    <3>3. \A j \in 1..n : ~ work.frames[j].definer
      BY <1>1, <2>1, <2>3
    <3>4. RunningContext = work.context
      <4>1. CASE work.frames = <<>>
        BY <4>1 DEF RunningContext
      <4>2. CASE work.frames # <<>>
        <5>1. n \in 1..n
          BY <1>1, <4>2
        <5>2. Last(work.frames).context = work.context
          BY <3>3, <5>1 DEF Last, Working, Lent
        <5>3. QED
          BY <4>2, <5>2 DEF RunningContext
      <4>3. QED
        BY <4>1, <4>2
    <3>5. QED
      BY <1>3, <2>3, <3>1, <3>2, <3>4
  <2>4. QED
    BY <1>1, <2>1, <2>2, <2>3
<1>7. Working'
  BY <1>2, <1>4, <1>5, <1>6 DEF Working
<1>8. QED
  BY <1>2, <1>7 DEF EngineInv

(* A nested call returns: its frame goes, and referential actions follow.  *)
LEMMA ReturnGoesOn ==
  ASSUME EngineInv, Working, Return
  PROVE  EngineInv'
<1> DEFINE step == Step(Last(work.frames).before, Success(work.staged))
<1>1. CASE ~ step.ok
  BY <1>1, AbortEnds DEF Return
<1>2. CASE step.ok
  <2>1. PICK S : work.frames \in Seq(S)
    BY DEF Working
  <2>2. /\ work' = [work EXCEPT !.staged = step.db, !.frames = Front(@)]
        /\ db' = db /\ Len(work.frames) > 1
    BY <1>2 DEF Return
  <2>3. Stays(db, work.staged) /\ Formed(work.staged) /\ Success(work.staged).db = work.staged
    BY DEF Working, Stays, Success
  <2>4. Spares(work.staged, step.db)
    BY <1>2, <2>3, StepSpares
  <2> HIDE DEF step
  <2>5. Stays(work.staged, step.db) /\ \A uid : Untouched(work.staged, step.db, uid)
    BY <2>4, SparesStays
  <2>6. Stays(db, step.db)
    BY <2>3, <2>5, StaysOn
  <2>7. ~ work.elevated => Untouched(db, step.db, work.context.uid)
    BY <2>3, <2>5, StaysOn DEF Working
  <2>8. /\ work'.staged = step.db /\ work'.frames = Front(work.frames)
        /\ work'.context = work.context /\ work'.elevated = work.elevated
        /\ work' = [x \in DOMAIN work' |-> work'[x]] /\ DOMAIN work' = WorkFields
    BY <2>2 DEF Working, WorkFields
  <2>9. /\ Front(work.frames) \in Seq(S) /\ Len(Front(work.frames)) = Len(work.frames) - 1
        /\ \A i \in 1..(Len(work.frames) - 1) : Front(work.frames)[i] = work.frames[i]
    BY <2>1, <2>2 DEF Front
  <2>10. Lent(Front(work.frames), work.context)
    <3>1. SUFFICES ASSUME NEW i \in 1..(Len(work.frames) - 1),
                          \A j \in 1..i : ~ Front(work.frames)[j].definer
                   PROVE  Front(work.frames)[i].context = work.context
      BY <2>9 DEF Lent
    <3>2. i \in 1..Len(work.frames) /\ \A j \in 1..i : ~ work.frames[j].definer
      BY <2>1, <2>9, <3>1
    <3>3. QED
      BY <2>9, <3>2 DEF Working, Lent
  <2>11. Working'
    BY <2>2, <2>6, <2>7, <2>8, <2>9, <2>10 DEF Working
  <2>12. QED
    BY <2>2, <2>11 DEF EngineInv
<1>3. QED
  BY <1>1, <1>2

(* The end of a batch or call publishes what is staged, or nothing.        *)
LEMMA FinishPublishes ==
  ASSUME EngineInv, Working, Finish
  PROVE  /\ EngineInv'
         /\ db' = db \/ db' = work.staged
BY AbortEnds DEF Finish, EngineInv, Working, Stays, Abort

(* The databases to start from.                                            *)
LEMMA EngineInvInit == EngineInit => EngineInv
BY InitialDatabases DEF EngineInit, EngineInv

(* Each statement, on a table of the catalog.                              *)
LEMMA InsertGoesOn ==
  ASSUME EngineInv, Working, NEW t \in DOMAIN db.rows, NEW rows, Len(rows) \in Nat,
         \A i \in 1..Len(rows) : rows[i] \in RowValues(t), NEW conflict,
         InsertStatement(t, rows, conflict)
  PROVE  EngineInv'
<1> DEFINE result == Insert(work.staged, t, rows, conflict, RunningContext)
<1>1. /\ Formed(work.staged) /\ t \in DOMAIN work.staged.rows
      /\ \A i \in 1..Len(rows) : HasColumns(rows[i], work.staged.catalog.columns[t])
  BY DEF Working, Stays, RowValues, ColumnsOf, HasColumns
<1>2. Statement(result)
  BY DEF InsertStatement
<1>3. result.ok => Stays(work.staged, result.db) /\ Respects(work.staged, RunningContext, result.db)
  BY <1>1, InsertRespects
<1> HIDE DEF result
<1>4. QED
  BY <1>2, <1>3, StatementGoesOn

LEMMA UpdateGoesOn ==
  ASSUME EngineInv, Working, NEW t \in DOMAIN db.rows, NEW selected, NEW column, NEW value,
         UpdateStatement(t, selected, column, value)
  PROVE  EngineInv'
<1> DEFINE result == Update(work.staged, t, selected, column, value, RunningContext)
<1>1. Formed(work.staged) /\ t \in DOMAIN work.staged.rows
  BY DEF Working, Stays
<1>2. Statement(result)
  BY DEF UpdateStatement
<1>3. result.ok => Stays(work.staged, result.db) /\ Respects(work.staged, RunningContext, result.db)
  BY <1>1, UpdateRespects
<1> HIDE DEF result
<1>4. QED
  BY <1>2, <1>3, StatementGoesOn

LEMMA DeleteGoesOn ==
  ASSUME EngineInv, Working, NEW t \in DOMAIN db.rows, NEW selected, DeleteStatement(t, selected)
  PROVE  EngineInv'
<1> DEFINE result == Delete(work.staged, t, selected, RunningContext)
<1>1. Formed(work.staged) /\ t \in DOMAIN work.staged.rows
  BY DEF Working, Stays
<1>2. Statement(result)
  BY DEF DeleteStatement
<1>3. result.ok => Stays(work.staged, result.db) /\ Respects(work.staged, RunningContext, result.db)
  BY <1>1, DeleteRespects
<1> HIDE DEF result
<1>4. QED
  BY <1>2, <1>3, StatementGoesOn

(* Every step keeps the invariant; what it publishes is what a batch or    *)
(* call has staged, and nothing else changes the database.                 *)
Publishes == work # Idle /\ Working /\ db' = work.staged

LEMMA EveryStep ==
  ASSUME EngineInv, [EngineNext]_engineVars
  PROVE  EngineInv' /\ (db' = db \/ Publishes)
<1>1. work # Idle => Working
  BY DEF EngineInv
<1>2. \A i \in DOMAIN db.catalog.tables : db.catalog.tables[i] \in DOMAIN db.rows
  BY DEF EngineInv, Formed, CatalogFormed
<1>3. ASSUME NEW context \in Contexts, BeginBatch(context)
      PROVE  EngineInv' /\ db' = db
  <2>1. <<>> \in Seq({}) /\ Lent(<<>>, context)
    BY DEF Lent
  <2>2. /\ work' = [kind |-> "batch", context |-> context, staged |-> db, frames |-> <<>>,
                    elevated |-> FALSE]
        /\ db' = db
    BY <1>3 DEF BeginBatch
  <2>3. QED
    BY <2>1, <2>2, BeginsWorking
<1>4. ASSUME NEW context \in Contexts, NEW definer \in BOOLEAN, CallFunction(context, definer)
      PROVE  EngineInv' /\ db' = db
  <2> DEFINE frame == Frame(context, definer, db)
  <2>1. frame.definer = definer /\ (~ definer => frame.context = context)
    BY DEF Frame, Effective
  <2>2. /\ work' = [kind |-> "call", context |-> context, staged |-> db, frames |-> <<frame>>,
                    elevated |-> FALSE]
        /\ db' = db
    BY <1>4 DEF CallFunction
  <2> HIDE DEF frame
  <2>3. <<frame>> \in Seq({frame}) /\ Lent(<<frame>>, context)
    BY <2>1 DEF Lent
  <2>4. QED
    BY <2>2, <2>3, BeginsWorking
<1>5. ASSUME NEW definer \in BOOLEAN, NestedCall(definer)
      PROVE  EngineInv' /\ db' = db
  <2>1. work # Idle /\ db' = db
    BY <1>5 DEF NestedCall, Idle
  <2>2. QED
    BY <1>1, <1>5, <2>1, NestedCallGoesOn
<1>6. ASSUME work # Idle, NEW i \in DOMAIN db.catalog.tables, NEW rows, Len(rows) \in Nat,
             \A j \in 1..Len(rows) : rows[j] \in RowValues(db.catalog.tables[i]), NEW conflict,
             InsertStatement(db.catalog.tables[i], rows, conflict)
      PROVE  EngineInv' /\ db' = db
  <2>1. db' = db
    BY <1>6 DEF InsertStatement, Statement, Abort
  <2>2. QED
    BY <1>1, <1>2, <1>6, <2>1, InsertGoesOn
<1>7. ASSUME work # Idle, NEW i \in DOMAIN db.catalog.tables, NEW selected, NEW column, NEW value,
             UpdateStatement(db.catalog.tables[i], selected, column, value)
      PROVE  EngineInv' /\ db' = db
  <2>1. db' = db
    BY <1>7 DEF UpdateStatement, Statement, Abort
  <2>2. QED
    BY <1>1, <1>2, <1>7, <2>1, UpdateGoesOn
<1>8. ASSUME work # Idle, NEW i \in DOMAIN db.catalog.tables, NEW selected,
             DeleteStatement(db.catalog.tables[i], selected)
      PROVE  EngineInv' /\ db' = db
  <2>1. db' = db
    BY <1>8 DEF DeleteStatement, Statement, Abort
  <2>2. QED
    BY <1>1, <1>2, <1>8, <2>1, DeleteGoesOn
<1>9. CASE Fail
  BY <1>9, AbortEnds DEF Fail, Abort
<1>10. CASE Return
  <2>1. work # Idle /\ db' = db
    BY <1>10 DEF Return, Idle, Abort
  <2>2. QED
    BY <1>1, <1>10, <2>1, ReturnGoesOn
<1>11. CASE Finish
  <2>1. work # Idle
    BY <1>11 DEF Finish, Idle
  <2>2. QED
    BY <1>1, <1>11, <2>1, FinishPublishes DEF Publishes
<1>12. CASE UNCHANGED engineVars
  BY <1>12 DEF engineVars, EngineInv, Working
<1>13. CASE /\ work # Idle
            /\ \E i \in DOMAIN db.catalog.tables :
                 LET t == db.catalog.tables[i]
                 IN  \/ \E values \in RowValues(t), conflict \in Conflicts \cup {Absent} :
                           InsertStatement(t, <<values>>, conflict)
                     \/ \E values, others \in RowValues(t), conflict \in Conflicts :
                           InsertStatement(t, <<values, others>>, conflict)
                     \/ \E selected \in Selections(t), column \in ColumnsOf(t) :
                           \E value \in Domain[column] :
                               UpdateStatement(t, selected, column, [r \in selected |-> value])
                     \/ \E selected \in Selections(t) : DeleteStatement(t, selected)
  <2>1. \A S : \A values, others \in S :
          /\ Len(<<values>>) \in Nat /\ \A j \in 1..Len(<<values>>) : <<values>>[j] \in S
          /\ Len(<<values, others>>) \in Nat
          /\ \A j \in 1..Len(<<values, others>>) : <<values, others>>[j] \in S
    OBVIOUS
  <2>2. PICK i \in DOMAIN db.catalog.tables :
          LET t == db.catalog.tables[i]
          IN  \/ \E values \in RowValues(t) : \E conflict : InsertStatement(t, <<values>>, conflict)
              \/ \E values, others \in RowValues(t) : \E conflict :
                    InsertStatement(t, <<values, others>>, conflict)
              \/ \E selected, column, value : UpdateStatement(t, selected, column, value)
              \/ \E selected : DeleteStatement(t, selected)
    BY <1>13
  <2>3. QED
    BY <1>6, <1>7, <1>8, <1>13, <2>1, <2>2
<1>14. QED
  BY <1>3, <1>4, <1>5, <1>9, <1>10, <1>11, <1>12, <1>13 DEF EngineNext

----------------------------------------------------------------------------
(* The database always is one that its catalog describes, and every        *)
(* constraint holds in it; what is staged is such a database, too, but for *)
(* the constraints (execute_sql, call_function).                           *)
THEOREM EngineStaysWhole == EngineSpec => []EngineInv
<1>1. EngineInv /\ [EngineNext]_engineVars => EngineInv'
  BY EveryStep
<1>2. QED
  BY <1>1, EngineInvInit, PTL DEF EngineSpec

(* A column in which no value but NULL occurs twice has as many values as  *)
(* rows with a value.                                                      *)
LEMMA UniqueCounts ==
  ASSUME NEW d, Formed(d), NEW t \in DOMAIN d.rows, NEW c, Unique(d, t, c)
  PROVE  Cardinality({Rows(d, t)[r][c] : r \in DOMAIN Rows(d, t)} \ {Null})
           = Cardinality({r \in DOMAIN Rows(d, t) : Rows(d, t)[r][c] # Null})
<1> DEFINE R == Rows(d, t)
           S == {r \in DOMAIN R : R[r][c] # Null}
           V == {R[r][c] : r \in DOMAIN R} \ {Null}
           n == d.next_row_id[t]
           f == [r \in S |-> R[r][c]]
<1>1. n \in Nat /\ \A r \in DOMAIN R : r \in Nat /\ r < n
  BY DEF Formed
<1>2. S \subseteq 0..n
  <2> HIDE DEF n, R
  <2>1. QED
    BY <1>1
<1>3. IsFiniteSet(S)
  <2>1. IsFiniteSet(0..n)
    BY <1>1, FS_Interval
  <2> HIDE DEF S, n
  <2>2. QED
    BY <1>2, <2>1, FS_Subset
<1>4. ExistsBijection(S, V)
  <2>1. f \in [S -> V] /\ \A v \in V : \E r \in S : f[r] = v
    OBVIOUS
  <2>2. \A r, s \in S : f[r] = f[s] => r = s
    BY DEF Unique
  <2> HIDE DEF f, S, V
  <2>3. f \in Bijection(S, V)
    BY <2>1, <2>2 DEF Bijection, Injection, Surjection, IsInjective
  <2>4. QED
    BY <2>3 DEF ExistsBijection
<1> HIDE DEF f, S, V
<1>5. Cardinality(S) = Cardinality(V)
  BY <1>3, <1>4, FS_Bijection
<1>6. QED
  BY <1>5 DEF S, V, R

(* Every database that is published satisfies every constraint, deferred   *)
(* ones included, whatever its batch, its functions and its referential    *)
(* actions did (validate_constraints at the end of execute_sql and         *)
(* call_function).                                                         *)
THEOREM PublishedIsSound == EngineSpec => []Sound
<1>1. EngineInv => Sound
  <2> SUFFICES ASSUME EngineInv PROVE Sound
    OBVIOUS
  <2>1. Formed(db) /\ validate_constraints(db, TRUE)
    BY DEF EngineInv
  <2>2. ASSUME NEW t \in DOMAIN db.rows, NEW c \in db.catalog.unique[t]
        PROVE  Cardinality({Rows(db, t)[r][c] : r \in DOMAIN Rows(db, t)} \ {Null})
                 = Cardinality({r \in DOMAIN Rows(db, t) : Rows(db, t)[r][c] # Null})
    <3>1. Unique(db, t, c)
      BY <2>1 DEF validate_constraints
    <3>2. QED
      BY <2>1, <3>1, UniqueCounts
  <2>3. \A t \in DOMAIN db.rows :
          \A r \in DOMAIN Rows(db, t), c \in db.catalog.not_null[t] : Rows(db, t)[r][c] # Null
    BY <2>1 DEF validate_constraints, check_row
  <2>4. \A i \in DOMAIN db.catalog.foreign_keys :
          LET fk == db.catalog.foreign_keys[i]
          IN  \A r \in DOMAIN Rows(db, fk.source) :
                Rows(db, fk.source)[r][fk.column] \in
                  {Null} \cup {Rows(db, fk.target)[s][fk.references] : s \in DOMAIN Rows(db, fk.target)}
    BY <2>1 DEF validate_constraints, ForeignKeyHolds, References
  <2>5. QED
    BY <2>2, <2>3, <2>4 DEF Sound
<1>2. QED
  BY <1>1, EngineStaysWhole, PTL

(* With row security that lets only owners in, no batch or call of a user  *)
(* changes, adds, takes over or removes a row of somebody else, whatever   *)
(* statements, upserts, nested functions and referential actions it        *)
(* consists of, unless it ran within a definer function (allowed and its   *)
(* callers, call_function).                                                *)
THEOREM OthersAreUntouched == EngineSpec => OthersRowsAreUntouched
<1> DEFINE Kept == \A t \in Tables :
                     /\ work # Idle /\ ~ work.elevated
                     /\ OwnersOnly(t)
                     => RowsOfOthers(db', t, work.context.uid) = RowsOfOthers(db, t, work.context.uid)
<1>1. EngineInv /\ [EngineNext]_engineVars => [Kept]_engineVars
  <2> SUFFICES ASSUME EngineInv, [EngineNext]_engineVars,
                      NEW t \in Tables, work # Idle, ~ work.elevated, OwnersOnly(t)
               PROVE  RowsOfOthers(db', t, work.context.uid) = RowsOfOthers(db, t, work.context.uid)
    OBVIOUS
  <2>1. Owned(db.catalog, t)
    <3>1. \A fk \in ToSet(db.catalog.foreign_keys) : fk.source # t
      BY DEF OwnersOnly, ToSet
    <3>2. QED
      BY <3>1 DEF OwnersOnly, Owned, Source
  <2>2. t \in DOMAIN db.rows
    BY DEF Tables, EngineInv, Formed, CatalogFormed
  <2>3. db' = db \/ Publishes
    BY EveryStep
  <2>4. CASE Publishes
    <3>1. Untouched(db, work.staged, work.context.uid)
      BY <2>4 DEF Publishes, Working
    <3>2. QED
      BY <2>1, <2>2, <2>4, <3>1 DEF Untouched, Publishes
  <2>5. CASE db' = db
    BY <2>5 DEF RowsOfOthers, Rows
  <2>6. QED
    BY <2>3, <2>4, <2>5
<1>2. EngineSpec => [][Kept]_engineVars
  <2> HIDE DEF Kept
  <2>1. QED
    BY <1>1, EngineStaysWhole, PTL DEF EngineSpec
<1>3. QED
  BY <1>2 DEF OthersRowsAreUntouched

----------------------------------------------------------------------------
(* References are mended.  The changes of a statement wait in a queue; at  *)
(* any time, a value of a foreign key that references no row is to be      *)
(* answered to a change that still waits (Held), and so is the key that a  *)
(* waiting change leads to, if it is not there any more (Leads).           *)

(* Ordered lists a finite set of numbers.                                  *)
LEMMA OrderedLists ==
  ASSUME NEW S \in SUBSET Nat, IsFiniteSet(S)
  PROVE  /\ Cardinality(S) \in Nat
         /\ \A i \in 1..Cardinality(S) : Ordered(S)[i] \in S
         /\ \A x \in S : \E i \in 1..Cardinality(S) : Ordered(S)[i] = x
<1> DEFINE n == Cardinality(S)
           Below(x) == {y \in S : y < x}
           f == [x \in S |-> Cardinality(Below(x))]
<1>1. n \in Nat
  BY FS_CardinalityType
<1>2. ASSUME NEW x \in S
      PROVE  IsFiniteSet(Below(x)) /\ Cardinality(Below(x)) \in 0..(n - 1)
  <2>1. Below(x) \subseteq S /\ Below(x) # S
    OBVIOUS
  <2> HIDE DEF Below
  <2>2. IsFiniteSet(Below(x)) /\ Cardinality(Below(x)) =< n /\ Cardinality(Below(x)) # n
    BY <2>1, FS_Subset
  <2>3. Cardinality(Below(x)) \in Nat
    BY <2>2, FS_CardinalityType
  <2> HIDE DEF n
  <2>4. QED
    BY <1>1, <2>2, <2>3
<1>3. ASSUME NEW x \in S, NEW y \in S, x < y
      PROVE  Cardinality(Below(x)) < Cardinality(Below(y))
  <2>1. Below(x) \subseteq Below(y) /\ Below(x) # Below(y)
    <3>1. x \in Below(y) /\ x \notin Below(x)
      BY <1>3
    <3>2. ASSUME NEW z \in Below(x) PROVE z \in Below(y)
      <4>1. z \in Nat /\ x \in Nat /\ y \in Nat /\ z < x
        OBVIOUS
      <4>2. z < y
        BY <1>3, <4>1
      <4>3. QED
        BY <4>2
    <3>3. QED
      BY <3>1, <3>2
  <2> HIDE DEF Below
  <2>2. /\ Cardinality(Below(x)) =< Cardinality(Below(y))
        /\ Cardinality(Below(x)) # Cardinality(Below(y))
    BY <1>2, <2>1, FS_Subset
  <2>3. Cardinality(Below(x)) \in Int /\ Cardinality(Below(y)) \in Int
    BY <1>2
  <2>4. QED
    BY <2>2, <2>3
<1>4. ASSUME NEW x \in S, NEW y \in S, Cardinality(Below(x)) = Cardinality(Below(y)) PROVE x = y
  <2>1. ~ (x < y) /\ ~ (y < x)
    <3> HIDE DEF Below
    <3>1. Cardinality(Below(x)) \in Int
      BY <1>2
    <3>2. QED
      BY <1>3, <1>4, <3>1
  <2>2. x \in Nat /\ y \in Nat
    OBVIOUS
  <2>3. QED
    BY <2>1, <2>2
<1> HIDE DEF Below
<1>5. f \in Injection(S, 0..(n - 1))
  <2> HIDE DEF n
  <2>1. f \in [S -> 0..(n - 1)]
    BY <1>2
  <2>2. \A x, y \in S : f[x] = f[y] => x = y
    BY <1>4
  <2> HIDE DEF f
  <2>3. QED
    BY <2>1, <2>2 DEF Injection, IsInjective
<1>6. IsFiniteSet(0..(n - 1)) /\ Cardinality(0..(n - 1)) = n
  <2>1. 0 \in Int /\ n - 1 \in Int
    BY <1>1
  <2>2. /\ IsFiniteSet(0..(n - 1))
        /\ Cardinality(0..(n - 1)) = IF 0 > n - 1 THEN 0 ELSE n - 1 - 0 + 1
    BY <2>1, FS_Interval
  <2> HIDE DEF n
  <2>3. QED
    BY <1>1, <2>2
<1>7. f \in Surjection(S, 0..(n - 1))
  <2>1. n = Cardinality(0..(n - 1))
    BY <1>6
  <2> HIDE DEF f
  <2>2. QED
    BY <1>5, <1>6, <2>1, FS_Injection
<1>8. \A i \in 1..n : \E x \in S : Cardinality(Below(x)) = i - 1
  <2>1. \A k \in 0..(n - 1) : \E x \in S : f[x] = k
    <3> HIDE DEF f
    <3>1. QED
      BY <1>7 DEF Surjection
  <2> HIDE DEF n
  <2>2. \A i \in 1..n : i - 1 \in 0..(n - 1)
    BY <1>1
  <2>3. QED
    BY <2>1, <2>2
<1>9. Ordered(S) = [i \in 1..n |-> CHOOSE x \in S : Cardinality(Below(x)) = i - 1]
  BY DEF Ordered, Below
<1> HIDE DEF n
<1>10. \A i \in 1..n : Ordered(S)[i] \in S /\ Cardinality(Below(Ordered(S)[i])) = i - 1
  BY <1>8, <1>9
<1>11. ASSUME NEW x \in S PROVE \E i \in 1..n : Ordered(S)[i] = x
  <2> DEFINE k == Cardinality(Below(x))
  <2>1. PICK i \in 1..n : k = i - 1
    <3>1. k \in 0..(n - 1)
      BY <1>2
    <3> HIDE DEF k
    <3> DEFINE j == k + 1
    <3>2. j \in 1..n /\ k = j - 1
      BY <1>1, <3>1
    <3> HIDE DEF j
    <3>3. QED
      BY <3>2
  <2>2. Ordered(S)[i] = x
    BY <1>4, <1>10, <2>1
  <2>3. QED
    BY <2>2
<1>12. QED
  BY <1>1, <1>10, <1>11 DEF n

(* Any rows of a table are finitely many numbers.                          *)
LEMMA RowsAreFinite ==
  ASSUME NEW d, Formed(d), NEW t \in DOMAIN d.rows, NEW S \in SUBSET DOMAIN d.rows[t]
  PROVE  S \in SUBSET Nat /\ IsFiniteSet(S)
<1> DEFINE n == d.next_row_id[t]
<1>1. n \in Nat /\ \A r \in DOMAIN d.rows[t] : r \in Nat /\ r < n
  BY DEF Formed, Rows
<1> HIDE DEF n
<1>2. S \subseteq 0..n /\ S \in SUBSET Nat
  BY <1>1
<1>3. IsFiniteSet(0..n)
  BY <1>1, FS_Interval
<1>4. QED
  BY <1>2, <1>3, FS_Subset

(* What a change of one table puts into the queue: an entry for every row  *)
(* that is gone or no longer the same.                                     *)
Same(d, e, t, r) == r \in DOMAIN e.rows[t] /\ e.rows[t][r] = d.rows[t][r]
New(e, t, r) == IF r \in DOMAIN e.rows[t] THEN e.rows[t][r] ELSE Absent
Entry(d, e, t, r) == Change(t, d.rows[t][r], New(e, t, r))
Entries(d, e, t, S) == [i \in 1..Cardinality(S) |-> Entry(d, e, t, Ordered(S)[i])]

Moves(d, e, t, p) ==
    /\ \A s \in DOMAIN d.rows : s # t => e.rows[s] = d.rows[s]
    /\ \A i \in 1..Len(p) : \E r \in DOMAIN d.rows[t] : p[i] = Entry(d, e, t, r)
    /\ \A r \in DOMAIN d.rows[t] : Same(d, e, t, r) \/ \E i \in 1..Len(p) : p[i] = Entry(d, e, t, r)

(* Rows that are queued by number are all that moves.                      *)
LEMMA ListedMoves ==
  ASSUME NEW d, NEW e, NEW t, NEW S \in SUBSET Nat, IsFiniteSet(S), S \subseteq DOMAIN d.rows[t],
         \A s \in DOMAIN d.rows : s # t => e.rows[s] = d.rows[s],
         \A r \in DOMAIN d.rows[t] \ S : Same(d, e, t, r)
  PROVE  /\ Moves(d, e, t, Entries(d, e, t, S))
         /\ \E T : Entries(d, e, t, S) \in Seq(T)
         /\ Len(Entries(d, e, t, S)) = Cardinality(S)
<1> DEFINE n == Cardinality(S)
           p == Entries(d, e, t, S)
           T == {Entry(d, e, t, r) : r \in DOMAIN d.rows[t]}
<1>1. /\ n \in Nat
      /\ \A i \in 1..n : Ordered(S)[i] \in S
      /\ \A x \in S : \E i \in 1..n : Ordered(S)[i] = x
  BY OrderedLists
<1>2. p = [i \in 1..n |-> Entry(d, e, t, Ordered(S)[i])]
  BY DEF Entries
<1> HIDE DEF n, p
<1>3. p \in [1..n -> T]
  BY <1>1, <1>2
<1>4. p \in Seq(T) /\ Len(p) = n
  BY <1>1, <1>3
<1>5. \A i \in 1..n : \E r \in DOMAIN d.rows[t] : p[i] = Entry(d, e, t, r)
  BY <1>1, <1>2
<1>6. ASSUME NEW r \in DOMAIN d.rows[t], ~ Same(d, e, t, r)
      PROVE  \E i \in 1..n : p[i] = Entry(d, e, t, r)
  <2>1. r \in S
    BY <1>6
  <2>2. PICK i \in 1..n : Ordered(S)[i] = r
    BY <1>1, <2>1
  <2>3. QED
    BY <1>2, <2>2
<1>7. Moves(d, e, t, p)
  BY <1>4, <1>5, <1>6 DEF Moves
<1>8. QED
  BY <1>4, <1>7 DEF p, n

(* A queue and what is put behind it.                                      *)
Follows(q, p, all) ==
    /\ Len(q) \in Nat /\ Len(p) \in Nat /\ Len(all) = Len(q) + Len(p)
    /\ \A i \in 1..Len(q) : all[i] = q[i]
    /\ \A i \in 1..Len(p) : all[Len(q) + i] = p[i]

(* It is what the code makes by pushing to the back.                       *)
LEMMA QueueFollows ==
  ASSUME NEW S, NEW q \in Seq(S), NEW T, NEW p \in Seq(T)
  PROVE  Follows(q, p, q \o p) /\ q \o p \in Seq(S \cup T)
<1>1. q \in Seq(S \cup T) /\ p \in Seq(S \cup T)
  OBVIOUS
<1>2. QED
  BY <1>1 DEF Follows

(* A value of a foreign key is held when it is NULL, or references a row,  *)
(* or is to be answered to a change that still waits behind the first n.   *)
Answers(c, fk, v) ==
    c.table = fk.target /\ c.old[fk.references] = v /\ ~ Unaffected(c, fk)

Held(d, q, n, fk, v) ==
    \/ v = Null
    \/ References(d, fk, v)
    \/ \E j \in 1..Len(q) : j > n /\ Answers(q[j], fk, v)

(* It stays so when rows change and their changes are queued.              *)
LEMMA HeldOn ==
  ASSUME NEW d, NEW e, NEW t, NEW p, Moves(d, e, t, p), NEW q, NEW all, Follows(q, p, all),
         NEW n \in Nat, n =< Len(q), NEW fk, fk.target \in DOMAIN d.rows, NEW v, Held(d, q, n, fk, v)
  PROVE  Held(e, all, n, fk, v)
<1>1. ASSUME NEW j \in 1..Len(q), j > n, Answers(q[j], fk, v)
      PROVE  Held(e, all, n, fk, v)
  <2>1. j \in 1..Len(all) /\ all[j] = q[j]
    BY DEF Follows
  <2>2. QED
    BY <1>1, <2>1 DEF Held
<1>2. ASSUME v # Null, References(d, fk, v)
      PROVE  Held(e, all, n, fk, v)
  <2>1. PICK r \in DOMAIN d.rows[fk.target] : d.rows[fk.target][r][fk.references] = v
    BY <1>2 DEF References, Rows
  <2>2. CASE fk.target # t
    BY <2>1, <2>2 DEF Moves, Held, References, Rows
  <2>3. CASE fk.target = t /\ Same(d, e, t, r)
    BY <2>1, <2>3 DEF Same, Held, References, Rows
  <2>4. CASE fk.target = t /\ ~ Same(d, e, t, r)
    <3> DEFINE c == Entry(d, e, t, r)
    <3>1. PICK i \in 1..Len(p) : p[i] = c
      BY <2>1, <2>4 DEF Moves
    <3>2. c.table = t /\ c.old = d.rows[t][r] /\ c.new = New(e, t, r)
      BY DEF Entry, Change
    <3>3. Len(q) + i \in 1..Len(all) /\ Len(q) + i > n /\ all[Len(q) + i] = c
      BY <3>1 DEF Follows
    <3> HIDE DEF c
    <3>4. CASE Answers(c, fk, v)
      BY <3>3, <3>4 DEF Held
    <3>5. CASE ~ Answers(c, fk, v)
      <4>1. c.new # Absent /\ c.new[fk.references] = v
        BY <1>2, <2>1, <2>4, <3>2, <3>5 DEF Answers, Unaffected
      <4>2. r \in DOMAIN e.rows[t] /\ e.rows[t][r][fk.references] = v
        BY <3>2, <4>1 DEF New
      <4>3. QED
        BY <2>4, <4>2 DEF Held, References, Rows
    <3>6. QED
      BY <3>4, <3>5
  <2>5. QED
    BY <2>2, <2>3, <2>4
<1>3. QED
  BY <1>1, <1>2 DEF Held

(* A change that waits leads to a key that is held: it is there, or its    *)
(* own change waits behind.                                                *)
LeadsTo(d, q, n, keys, c) ==
    \A fk \in keys : c.table = fk.target /\ c.new # Absent => Held(d, q, n, fk, c.new[fk.references])

Leads(d, q, keys) == \A i \in 1..Len(q) : LeadsTo(d, q, i, keys, q[i])

(* All that waits keeps leading to keys that are held.                     *)
LEMMA LeadsOn ==
  ASSUME NEW d, NEW e, NEW t, NEW p, Moves(d, e, t, p), NEW q, NEW all, Follows(q, p, all),
         NEW keys, \A fk \in keys : fk.target \in DOMAIN d.rows, Leads(d, q, keys)
  PROVE  Leads(e, all, keys)
<1>1. SUFFICES ASSUME NEW i \in 1..Len(all), NEW fk \in keys, all[i].table = fk.target, all[i].new # Absent
               PROVE  Held(e, all, i, fk, all[i].new[fk.references])
  BY DEF Leads, LeadsTo
<1>2. CASE i =< Len(q)
  <2>1. i \in Nat /\ i \in 1..Len(q) /\ all[i] = q[i]
    BY <1>2 DEF Follows
  <2>2. Held(d, q, i, fk, q[i].new[fk.references])
    BY <1>1, <2>1 DEF Leads, LeadsTo
  <2>3. QED
    BY <1>2, <2>1, <2>2, HeldOn
<1>3. CASE ~ (i =< Len(q))
  <2> DEFINE k == i - Len(q)
  <2>1. k \in 1..Len(p) /\ i = Len(q) + k
    BY <1>3 DEF Follows
  <2> HIDE DEF k
  <2>2. all[i] = p[k]
    BY <2>1 DEF Follows
  <2>3. PICK r \in DOMAIN d.rows[t] : p[k] = Entry(d, e, t, r)
    BY <2>1 DEF Moves
  <2>4. all[i].table = t /\ all[i].new = New(e, t, r)
    BY <2>2, <2>3 DEF Entry, Change
  <2>5. r \in DOMAIN e.rows[t] /\ all[i].new = e.rows[t][r]
    BY <1>1, <2>4 DEF New
  <2>6. QED
    BY <1>1, <2>4, <2>5 DEF Held, References, Rows
<1>4. QED
  BY <1>2, <1>3

(* While a change is answered, k of the catalog's foreign keys have had    *)
(* their turn: every value of these is held, and of the others all that    *)
(* this change does not concern.                                           *)
Mends(catalog) ==
    LET keys == catalog.foreign_keys
    IN  /\ \A i \in DOMAIN keys : Mending(keys[i])
        /\ \A i, j \in DOMAIN keys :
              i # j => keys[i].source # keys[j].source \/ keys[i].column # keys[j].column

KeysHeld(d, q, keys, c, k) ==
    \A m \in 1..Len(keys) : \A r \in DOMAIN d.rows[keys[m].source] :
        LET v == d.rows[keys[m].source][r][keys[m].column]
        IN  Held(d, q, 0, keys[m], v) \/ (m > k /\ Answers(c, keys[m], v))

Follower(a, catalog) ==
    /\ Accumulator(a) /\ a.ok = TRUE /\ Formed(a.db) /\ a.db.catalog = catalog
    /\ \E S : a.queue \in Seq(S)
    /\ Leads(a.db, a.queue, ToSet(catalog.foreign_keys))

Answering(a, catalog, c, k) ==
    /\ Follower(a, catalog)
    /\ LeadsTo(a.db, a.queue, 0, ToSet(catalog.foreign_keys), c)
    /\ KeysHeld(a.db, a.queue, catalog.foreign_keys, c, k)

(* The foreign keys of a catalog, and the tables and columns they speak of.*)
LEMMA KeysFormed ==
  ASSUME NEW d, Formed(d)
  PROVE  LET keys == d.catalog.foreign_keys
         IN  /\ keys \in Seq(ToSet(keys)) /\ Len(keys) \in Nat /\ DOMAIN keys = 1..Len(keys)
             /\ \A m \in 1..Len(keys) : keys[m] \in ToSet(keys)
             /\ \A fk \in ToSet(keys) : /\ fk.source \in DOMAIN d.rows /\ fk.target \in DOMAIN d.rows
                                       /\ fk.column \in d.catalog.columns[fk.source]
             /\ \A fk \in ToSet(keys) : \E m \in 1..Len(keys) : keys[m] = fk
<1> DEFINE keys == d.catalog.foreign_keys
<1>1. /\ keys \in Seq(ToSet(keys))
      /\ \A fk \in ToSet(keys) : /\ {fk.source, fk.target} \subseteq DOMAIN d.rows
                                /\ fk.column \in d.catalog.columns[fk.source]
  BY DEF Formed, CatalogFormed
<1> HIDE DEF keys
<1>2. Len(keys) \in Nat /\ DOMAIN keys = 1..Len(keys)
  BY <1>1
<1>3. ToSet(keys) = {keys[m] : m \in 1..Len(keys)}
  BY <1>2 DEF ToSet
<1>4. QED
  BY <1>1, <1>2, <1>3 DEF keys

Restricted(a, c, fk, new) ==
    LET old == a.db.rows[fk.source]
    IN  \A r \in DOMAIN new :
            /\ r \in DOMAIN old
            /\ \A x \in a.db.catalog.columns[fk.source] : x # fk.column => new[r][x] = old[r][x]
            /\ \/ Held(a.db, a.queue, 0, fk, new[r][fk.column])
               \/ new[r][fk.column] = old[r][fk.column] /\ ~ Answers(c, fk, old[r][fk.column])

(* One foreign key's answer: its table changes in the foreign key's column *)
(* alone, to values that are held, and loses what the change concerns.     *)
LEMMA MoveAnswers ==
  ASSUME NEW catalog, Mends(catalog), NEW a, NEW c, NEW k \in 1..Len(catalog.foreign_keys),
         Answering(a, catalog, c, k - 1),
         NEW e, Formed(e), e.catalog = catalog,
         NEW T, NEW p \in Seq(T), Moves(a.db, e, catalog.foreign_keys[k].source, p),
         Restricted(a, c, catalog.foreign_keys[k], e.rows[catalog.foreign_keys[k].source]),
         NEW b, Accumulator(b), b.ok = TRUE, b.db = e, b.queue = a.queue \o p
  PROVE  Answering(b, catalog, c, k)
<1> DEFINE keys == catalog.foreign_keys
           fk == keys[k]
           d == a.db
           q == a.queue
           all == b.queue
<1>1. PICK S : q \in Seq(S)
  BY DEF Answering, Follower
<1>2. Follows(q, p, all) /\ all \in Seq(S \cup T)
  <2>1. Follows(q, p, q \o p) /\ q \o p \in Seq(S \cup T)
    <3> HIDE DEF q
    <3>1. QED
      BY <1>1, QueueFollows
  <2>2. QED
    BY <2>1
<1>3. Formed(d) /\ d.catalog = catalog
  BY DEF Answering, Follower
<1>4. /\ Len(keys) \in Nat /\ DOMAIN keys = 1..Len(keys)
      /\ \A m \in 1..Len(keys) : keys[m] \in ToSet(keys)
      /\ \A x \in ToSet(keys) : /\ x.source \in DOMAIN d.rows /\ x.target \in DOMAIN d.rows
                               /\ x.column \in catalog.columns[x.source]
  BY <1>3, KeysFormed
<1>5. Moves(d, e, fk.source, p)
  OBVIOUS
<1>6. 0 \in Nat /\ 0 =< Len(q)
  BY <1>1
<1>7. ASSUME NEW x \in ToSet(keys), NEW v, Held(d, q, 0, x, v)
      PROVE  Held(e, all, 0, x, v)
  <2> HIDE DEF keys, d, q, all
  <2>1. QED
    BY <1>2, <1>4, <1>5, <1>6, <1>7, HeldOn
<1>8. Leads(e, all, ToSet(keys))
  <2>1. Leads(d, q, ToSet(keys))
    BY DEF Answering, Follower
  <2> HIDE DEF keys, d, q, all
  <2>2. QED
    BY <1>2, <1>4, <1>5, <2>1, LeadsOn
<1>9. Follower(b, catalog)
  BY <1>2, <1>8 DEF Follower
<1>10. LeadsTo(e, all, 0, ToSet(keys), c)
  BY <1>7 DEF Answering, LeadsTo
<1>11. ASSUME NEW m \in 1..Len(keys), NEW r \in DOMAIN e.rows[keys[m].source]
       PROVE  LET v == e.rows[keys[m].source][r][keys[m].column]
              IN  Held(e, all, 0, keys[m], v) \/ (m > k /\ Answers(c, keys[m], v))
  <2> DEFINE x == keys[m]
             was == d.rows[x.source][r][x.column]
             is == e.rows[x.source][r][x.column]
  <2>1. x \in ToSet(keys) /\ x.source \in DOMAIN d.rows /\ x.column \in catalog.columns[x.source]
    BY <1>4
  <2>2. r \in DOMAIN d.rows[x.source] => Held(d, q, 0, x, was) \/ (m > k - 1 /\ Answers(c, x, was))
    BY DEF Answering, KeysHeld
  <2>3. CASE m = k
    <3>1. Held(d, q, 0, x, is) \/ (is = was /\ ~ Answers(c, x, was) /\ r \in DOMAIN d.rows[x.source])
      BY <2>3 DEF Restricted
    <3>2. Held(d, q, 0, x, is)
      BY <2>2, <3>1
    <3>3. QED
      BY <1>7, <2>1, <3>2
  <2>4. CASE m # k
    <3>1. r \in DOMAIN d.rows[x.source] /\ is = was
      <4>1. CASE x.source # fk.source
        <5>1. e.rows[x.source] = d.rows[x.source]
          BY <1>5, <2>1, <4>1 DEF Moves
        <5>2. r \in DOMAIN e.rows[x.source]
          OBVIOUS
        <5>3. QED
          BY <5>1, <5>2
      <4>2. CASE x.source = fk.source
        <5>1. x.column # fk.column
          BY <1>4, <2>4, <4>2 DEF Mends
        <5>2. \A y \in DOMAIN e.rows[fk.source] :
                 /\ y \in DOMAIN d.rows[fk.source]
                 /\ \A z \in catalog.columns[fk.source] :
                       z # fk.column => e.rows[fk.source][y][z] = d.rows[fk.source][y][z]
          BY <1>3 DEF Restricted
        <5>3. r \in DOMAIN e.rows[x.source] /\ x.column \in catalog.columns[x.source]
          BY <2>1
        <5> HIDE DEF x, d, fk
        <5>4. QED
          BY <4>2, <5>1, <5>2, <5>3
      <4>3. QED
        BY <4>1, <4>2
    <3>2. Held(d, q, 0, x, is) \/ (m > k - 1 /\ Answers(c, x, is))
      BY <2>2, <3>1
    <3>3. m > k - 1 => m > k
      BY <2>4, <1>4
    <3>4. QED
      BY <1>7, <2>1, <3>2, <3>3
  <2>5. QED
    BY <2>3, <2>4
<1>12. KeysHeld(e, all, keys, c, k)
  BY <1>11 DEF KeysHeld
<1>13. QED
  BY <1>9, <1>10, <1>12 DEF Answering

(* Rows S that hold a key are deleted, or given another value for it; what *)
(* becomes of them is queued.                                              *)
Queues(a, b, t, S, rows) ==
    /\ Accumulator(b) /\ b.ok = a.ok /\ Formed(b.db) /\ b.db.catalog = a.db.catalog
    /\ b.db.rows[t] = rows
    /\ \E T : \E p \in Seq(T) :
          Moves(a.db, b.db, t, p) /\ Len(p) = Cardinality(S) /\ b.queue = a.queue \o p

(* Deletions queue a change for each row.                                  *)
LEMMA DeletesMove ==
  ASSUME NEW a, Accumulator(a), Formed(a.db), NEW fk, fk.source \in DOMAIN a.db.rows,
         NEW rows, rows \subseteq DOMAIN a.db.rows[fk.source]
  PROVE  LET old == a.db.rows[fk.source]
         IN  Queues(a, CascadeDelete(a, fk, rows), fk.source, rows, [r \in DOMAIN old \ rows |-> old[r]])
<1> DEFINE d == a.db
           t == fk.source
           R == [r \in DOMAIN d.rows[t] \ rows |-> d.rows[t][r]]
           e == WithRows(d, t, R)
           p == [i \in 1..Cardinality(rows) |-> Change(t, d.rows[t][Ordered(rows)[i]], Absent)]
           b == CascadeDelete(a, fk, rows)
<1>1. b.db = e /\ Accumulator(b) /\ b.ok = a.ok /\ b.queue = a.queue \o p
  BY DEF CascadeDelete, Accumulator, RemoveRows, WithRows, Rows
<1>2. \A r \in DOMAIN d.rows[t] : /\ r \in Nat /\ r < d.next_row_id[t]
                                  /\ HasColumns(d.rows[t][r], d.catalog.columns[t])
  BY DEF Formed, Rows
<1>3. DOMAIN R = DOMAIN d.rows[t] \ rows /\ \A r \in DOMAIN R : R[r] = d.rows[t][r]
  OBVIOUS
<1>4. Only(d, e, t) /\ e.rows[t] = R
  <2> HIDE DEF R, e
  <2>1. QED
    BY <1>2, <1>3, RowsReplaced DEF e
<1>5. rows \in SUBSET Nat /\ IsFiniteSet(rows)
  BY RowsAreFinite
<1>6. \A r \in DOMAIN d.rows[t] \ rows : Same(d, e, t, r)
  BY <1>3, <1>4 DEF Same
<1>7. \A s \in DOMAIN d.rows : s # t => e.rows[s] = d.rows[s]
  BY <1>4 DEF Only
<1>8. p = Entries(d, e, t, rows)
  <2>1. \A i \in 1..Cardinality(rows) : Ordered(rows)[i] \in rows
    BY <1>5, OrderedLists
  <2>2. \A r \in rows : Change(t, d.rows[t][r], Absent) = Entry(d, e, t, r)
    BY <1>3, <1>4 DEF Entry, New
  <2> HIDE DEF e
  <2>3. QED
    BY <2>1, <2>2 DEF Entries
<1> HIDE DEF p, e, b, R
<1>9. Moves(d, e, t, p) /\ Len(p) = Cardinality(rows) /\ \E T : p \in Seq(T)
  BY <1>5, <1>6, <1>7, <1>8, ListedMoves
<1>10. Queues(a, b, t, rows, R)
  BY <1>1, <1>4, <1>9 DEF Only, Queues
<1>11. QED
  BY <1>10 DEF b, R

(* The same when they are given another value.                             *)
LEMMA RedirectsMove ==
  ASSUME NEW a, Accumulator(a), Formed(a.db), NEW fk, fk.source \in DOMAIN a.db.rows,
         NEW rows, rows \subseteq DOMAIN a.db.rows[fk.source], NEW value
  PROVE  LET old == a.db.rows[fk.source]
         IN  Queues(a, Redirect(a, fk, rows, value), fk.source, rows,
                    [r \in DOMAIN old |->
                       IF r \in rows THEN [old[r] EXCEPT ![fk.column] = value] ELSE old[r]])
<1> DEFINE d == a.db
           t == fk.source
           next(r) == [d.rows[t][r] EXCEPT ![fk.column] = value]
           R == [r \in DOMAIN d.rows[t] |-> IF r \in rows THEN next(r) ELSE d.rows[t][r]]
           e == WithRows(d, t, R)
           p == [i \in 1..Cardinality(rows) |->
                   Change(t, d.rows[t][Ordered(rows)[i]], next(Ordered(rows)[i]))]
           b == Redirect(a, fk, rows, value)
<1>1. b.db = e /\ Accumulator(b) /\ b.ok = a.ok /\ b.queue = a.queue \o p
  BY DEF Redirect, Accumulator, WithRows, Rows
<1>2. \A r \in DOMAIN d.rows[t] : /\ r \in Nat /\ r < d.next_row_id[t]
                                  /\ HasColumns(d.rows[t][r], d.catalog.columns[t])
  BY DEF Formed, Rows
<1>3. ASSUME NEW r \in DOMAIN d.rows[t] PROVE HasColumns(next(r), d.catalog.columns[t])
  <2> DEFINE row == d.rows[t][r]
  <2>1. HasColumns(row, d.catalog.columns[t]) /\ next(r) = [row EXCEPT ![fk.column] = value]
    BY <1>2
  <2> HIDE DEF row, next
  <2>2. QED
    BY <2>1 DEF HasColumns
<1> HIDE DEF next
<1>4. /\ DOMAIN R = DOMAIN d.rows[t]
      /\ \A r \in rows : R[r] = next(r)
      /\ \A r \in DOMAIN d.rows[t] \ rows : R[r] = d.rows[t][r]
  OBVIOUS
<1>5. \A r \in DOMAIN R : HasColumns(R[r], d.catalog.columns[t])
  BY <1>2, <1>3, <1>4
<1>6. Only(d, e, t) /\ e.rows[t] = R
  <2> HIDE DEF R, e
  <2>1. QED
    BY <1>2, <1>4, <1>5, RowsReplaced DEF e
<1>7. rows \in SUBSET Nat /\ IsFiniteSet(rows)
  BY RowsAreFinite
<1>8. \A r \in DOMAIN d.rows[t] \ rows : Same(d, e, t, r)
  <2> HIDE DEF R, e
  <2>1. QED
    BY <1>4, <1>6 DEF Same
<1>9. \A s \in DOMAIN d.rows : s # t => e.rows[s] = d.rows[s]
  BY <1>6 DEF Only
<1>10. p = Entries(d, e, t, rows)
  <2>1. \A i \in 1..Cardinality(rows) : Ordered(rows)[i] \in rows
    BY <1>7, OrderedLists
  <2>2. \A r \in rows : Change(t, d.rows[t][r], next(r)) = Entry(d, e, t, r)
    <3> HIDE DEF R, e
    <3>1. QED
      BY <1>4, <1>6 DEF Entry, New
  <2> HIDE DEF e
  <2>3. QED
    BY <2>1, <2>2 DEF Entries
<1> HIDE DEF p, e, b
<1>11. Moves(d, e, t, p) /\ Len(p) = Cardinality(rows) /\ \E T : p \in Seq(T)
  <2> HIDE DEF R
  <2>1. QED
    BY <1>7, <1>8, <1>9, <1>10, ListedMoves
<1>12. R = [r \in DOMAIN d.rows[t] |->
              IF r \in rows THEN [d.rows[t][r] EXCEPT ![fk.column] = value] ELSE d.rows[t][r]]
  BY DEF next
<1> HIDE DEF R
<1>13. Queues(a, b, t, rows, R)
  BY <1>1, <1>6, <1>11 DEF Only, Queues
<1>14. QED
  BY <1>12, <1>13 DEF b

(* A foreign key that mends answers the change, and none of its values is  *)
(* left behind (apply_referential_actions).                                *)
LEMMA TurnAnswers ==
  ASSUME NEW catalog, Mends(catalog), NEW a, NEW c, NEW k \in 1..Len(catalog.foreign_keys),
         Answering(a, catalog, c, k - 1)
  PROVE  Answering(Turn(KeysLoop(catalog.foreign_keys, c), a, k), catalog, c, k)
<1> DEFINE keys == catalog.foreign_keys
           fk == keys[k]
           d == a.db
           t == fk.source
           old == d.rows[t]
           key == c.old[fk.references]
           rows == Referring(d, fk, key)
<1>1. Turn(KeysLoop(keys, c), a, k) = IF fk.target # c.table THEN a ELSE Act(a, c, fk)
  BY DEF Turn, KeysLoop
<1>2. Accumulator(a) /\ a.ok = TRUE /\ Formed(d) /\ d.catalog = catalog
  BY DEF Answering, Follower
<1>3. /\ Len(keys) \in Nat /\ DOMAIN keys = 1..Len(keys) /\ fk \in ToSet(keys)
      /\ t \in DOMAIN d.rows /\ fk.column \in catalog.columns[t]
  BY <1>2, KeysFormed
<1>4. rows \subseteq DOMAIN old /\ \A r \in DOMAIN old : r \in rows <=> old[r][fk.column] = key
  BY DEF Referring, Rows
<1>5. Mending(fk)
  BY <1>3 DEF Mends
<1>6. ASSUME \A r \in DOMAIN old : ~ Answers(c, fk, old[r][fk.column])
      PROVE  Answering(a, catalog, c, k)
  <2>1. ASSUME NEW m \in 1..Len(keys), NEW r \in DOMAIN d.rows[keys[m].source]
        PROVE  LET v == d.rows[keys[m].source][r][keys[m].column]
               IN  Held(d, a.queue, 0, keys[m], v) \/ (m > k /\ Answers(c, keys[m], v))
    <3> DEFINE v == d.rows[keys[m].source][r][keys[m].column]
    <3>1. Held(d, a.queue, 0, keys[m], v) \/ (m > k - 1 /\ Answers(c, keys[m], v))
      BY DEF Answering, KeysHeld
    <3>2. m = k => ~ Answers(c, keys[m], v)
      BY <1>6
    <3>3. m > k - 1 => m = k \/ m > k
      BY <1>3
    <3> HIDE DEF v
    <3>4. QED
      BY <3>1, <3>2, <3>3 DEF v
  <2>2. KeysHeld(d, a.queue, keys, c, k)
    BY <2>1 DEF KeysHeld
  <2>3. QED
    BY <2>2 DEF Answering
<1>7. CASE fk.target # c.table
  BY <1>1, <1>6, <1>7 DEF Answers
<1>8. CASE fk.target = c.table /\ (Unaffected(c, fk) \/ rows = {})
  <2>1. Act(a, c, fk) = a
    BY <1>8 DEF Act
  <2>2. \A r \in DOMAIN old : ~ Answers(c, fk, old[r][fk.column])
    BY <1>4, <1>8 DEF Answers
  <2>3. QED
    BY <1>1, <1>6, <1>8, <2>1, <2>2
<1>9. CASE fk.target = c.table /\ ~ Unaffected(c, fk) /\ rows # {}
  <2>1. CASE Act(a, c, fk) = CascadeDelete(a, fk, rows)
    <3> DEFINE b == CascadeDelete(a, fk, rows)
    <3>1. Queues(a, b, t, rows, [r \in DOMAIN old \ rows |-> old[r]])
      <4>1. Accumulator(a) /\ Formed(a.db) /\ t \in DOMAIN a.db.rows /\ rows \subseteq DOMAIN a.db.rows[t]
        BY <1>2, <1>3, <1>4
      <4> HIDE DEF rows, fk
      <4>2. QED
        BY <4>1, DeletesMove
    <3>2. PICK T : \E p \in Seq(T) : Moves(d, b.db, t, p) /\ b.queue = a.queue \o p
      BY <3>1 DEF Queues
    <3>3. PICK p \in Seq(T) : Moves(d, b.db, t, p) /\ b.queue = a.queue \o p
      BY <3>2
    <3> HIDE DEF b
    <3>4. \A r \in DOMAIN b.db.rows[t] :
            /\ r \in DOMAIN old
            /\ b.db.rows[t][r] = old[r]
            /\ ~ Answers(c, fk, old[r][fk.column])
      BY <1>4, <3>1 DEF Answers, Queues
    <3>5. Answering(b, catalog, c, k)
      <4>1. Restricted(a, c, fk, b.db.rows[t])
        BY <1>2, <3>4 DEF Restricted
      <4>2. /\ Accumulator(b) /\ b.ok = TRUE /\ Formed(b.db) /\ b.db.catalog = catalog
            /\ Moves(a.db, b.db, t, p) /\ b.queue = a.queue \o p
        BY <1>2, <3>1, <3>3 DEF Queues
      <4>3. QED
        BY <4>1, <4>2, MoveAnswers
    <3>6. QED
      BY <1>1, <1>9, <2>1, <3>5 DEF b
  <2>2. ASSUME NEW value, Held(d, a.queue, 0, fk, value), Act(a, c, fk) = Redirect(a, fk, rows, value)
        PROVE  Answering(Act(a, c, fk), catalog, c, k)
    <3> DEFINE b == Redirect(a, fk, rows, value)
               new == b.db.rows[t]
    <3>1. Queues(a, b, t, rows, [r \in DOMAIN old |->
                              IF r \in rows THEN [old[r] EXCEPT ![fk.column] = value] ELSE old[r]])
      <4>1. Accumulator(a) /\ Formed(a.db) /\ t \in DOMAIN a.db.rows /\ rows \subseteq DOMAIN a.db.rows[t]
        BY <1>2, <1>3, <1>4
      <4> HIDE DEF rows, fk
      <4>2. QED
        BY <4>1, RedirectsMove
    <3>2. PICK T : \E p \in Seq(T) : Moves(d, b.db, t, p) /\ b.queue = a.queue \o p
      BY <3>1 DEF Queues
    <3>3. PICK p \in Seq(T) : Moves(d, b.db, t, p) /\ b.queue = a.queue \o p
      BY <3>2
    <3> HIDE DEF b
    <3>4. ASSUME NEW r \in DOMAIN new
          PROVE  /\ r \in DOMAIN old
                 /\ \A x \in catalog.columns[t] : x # fk.column => new[r][x] = old[r][x]
                 /\ \/ Held(d, a.queue, 0, fk, new[r][fk.column])
                    \/ new[r][fk.column] = old[r][fk.column] /\ ~ Answers(c, fk, old[r][fk.column])
      <4>1. r \in DOMAIN old
        BY <3>1 DEF Queues
      <4>2. CASE r \in rows
        <5>1. HasColumns(old[r], catalog.columns[t])
          BY <1>2, <1>3, <4>1 DEF Formed, Rows
        <5>2. new[r] = [old[r] EXCEPT ![fk.column] = value]
          BY <3>1, <4>1, <4>2 DEF Queues
        <5> DEFINE row == old[r]
                   C == catalog.columns[t]
                   f == fk.column
        <5>3. HasColumns(row, C) /\ f \in C /\ new[r] = [row EXCEPT ![f] = value]
          BY <1>3, <5>1, <5>2
        <5>4. new[r][f] = value /\ \A x \in C : x # f => new[r][x] = row[x]
          <6> HIDE DEF row, C, f, new
          <6>1. QED
            BY <5>3 DEF HasColumns
        <5>5. QED
          BY <2>2, <4>1, <5>4
      <4>3. CASE r \notin rows
        <5>1. new[r] = old[r]
          BY <3>1, <4>1, <4>3 DEF Queues
        <5>2. ~ Answers(c, fk, old[r][fk.column])
          BY <1>4, <4>1, <4>3 DEF Answers
        <5>3. QED
          BY <4>1, <5>1, <5>2
      <4>4. QED
        BY <4>2, <4>3
    <3>5. Answering(b, catalog, c, k)
      <4>1. Restricted(a, c, fk, b.db.rows[t])
        BY <1>2, <3>4 DEF Restricted
      <4>2. /\ Accumulator(b) /\ b.ok = TRUE /\ Formed(b.db) /\ b.db.catalog = catalog
            /\ Moves(a.db, b.db, t, p) /\ b.queue = a.queue \o p
        BY <1>2, <3>1, <3>3 DEF Queues
      <4>3. QED
        BY <4>1, <4>2, MoveAnswers
    <3>6. QED
      BY <2>2, <3>5 DEF b
  <2>3. \/ Act(a, c, fk) = CascadeDelete(a, fk, rows)
        \/ c.new # Absent /\ Act(a, c, fk) = Redirect(a, fk, rows, c.new[fk.references])
        \/ Act(a, c, fk) = Redirect(a, fk, rows, Null)
    BY <1>2, <1>5, <1>9 DEF Act, Mending
  <2>4. Held(d, a.queue, 0, fk, Null)
    BY DEF Held
  <2>5. c.new # Absent => Held(d, a.queue, 0, fk, c.new[fk.references])
    BY <1>3, <1>9 DEF Answering, LeadsTo
  <2> HIDE DEF rows
  <2>6. QED
    BY <1>1, <1>9, <2>1, <2>2, <2>3, <2>4, <2>5
<1>10. QED
  BY <1>7, <1>8, <1>9

(* Between two changes every value is held.                                *)
Settling(a, catalog) ==
    /\ Follower(a, catalog)
    /\ LET keys == catalog.foreign_keys
       IN  \A m \in 1..Len(keys) : \A r \in DOMAIN a.db.rows[keys[m].source] :
              Held(a.db, a.queue, 0, keys[m], a.db.rows[keys[m].source][r][keys[m].column])

(* When all foreign keys have had their turn, so it is again.              *)
LEMMA ChangeAnswered ==
  ASSUME NEW catalog, Mends(catalog), NEW a, NEW c, Answering(a, catalog, c, 0)
  PROVE  Settling(ActAll(a, c), catalog)
<1> DEFINE keys == catalog.foreign_keys
           n == Len(keys)
           loop == KeysLoop(keys, c)
<1>1. Formed(a.db) /\ a.db.catalog = catalog
  BY DEF Answering, Follower
<1>2. n \in Nat
  BY <1>1, KeysFormed
<1>3. PICK g : Turns(g, n, loop, a) /\ ActAll(a, c) = g[n]
  BY <1>1, <1>2, ActAllTurns
<1>4. \A i \in 0..n : g[i] = IF i = 0 THEN a ELSE Turn(loop, g[i - 1], i)
  <2> HIDE DEF n, loop
  <2>1. QED
    BY <1>3 DEF Turns
<1> DEFINE T == {i \in Nat : i =< n => Answering(g[i], catalog, c, i)}
<1>5. 0 \in T
  BY <1>2, <1>4
<1>6. ASSUME NEW i \in T PROVE i + 1 \in T
  <2>1. SUFFICES ASSUME i + 1 =< n PROVE Answering(g[i + 1], catalog, c, i + 1)
    OBVIOUS
  <2> DEFINE k == i + 1
  <2>2. k \in 1..n /\ k - 1 = i /\ i \in Nat
    BY <1>2, <2>1
  <2>3. Answering(g[k - 1], catalog, c, k - 1)
    BY <1>2, <2>1, <2>2
  <2> HIDE DEF k
  <2>4. Answering(Turn(loop, g[k - 1], k), catalog, c, k)
    BY <2>2, <2>3, TurnAnswers
  <2>5. g[k] = Turn(loop, g[k - 1], k)
    <3> HIDE DEF n, loop
    <3>1. QED
      BY <1>2, <1>4, <2>2
  <2>6. QED
    BY <2>4, <2>5 DEF k
<1>7. T = Nat
  <2> HIDE DEF T
  <2>1. T \in SUBSET Nat
    BY DEF T
  <2>2. QED
    BY <1>5, <1>6, <2>1, Induction
<1>8. Answering(ActAll(a, c), catalog, c, n)
  BY <1>2, <1>3, <1>7
<1>9. \A m \in 1..n : ~ (m > n)
  BY <1>2
<1>10. QED
  BY <1>8, <1>9 DEF Answering, KeysHeld, Settling

(* Taking the first change off the queue leaves to be answered what waited *)
(* for it.                                                                 *)
LEMMA TakenOff ==
  ASSUME NEW S, NEW q \in Seq(S), q # <<>>, NEW d, NEW n \in Nat, NEW fk, NEW v
  PROVE  /\ Held(d, q, n + 1, fk, v) => Held(d, Tail(q), n, fk, v)
         /\ Held(d, q, 0, fk, v) => Held(d, Tail(q), 0, fk, v) \/ Answers(Head(q), fk, v)
<1>1. /\ Len(q) \in Nat /\ Len(Tail(q)) = Len(q) - 1 /\ Head(q) = q[1]
      /\ \A i \in 1..Len(Tail(q)) : Tail(q)[i] = q[i + 1]
  OBVIOUS
<1>2. ASSUME NEW j \in 1..Len(q), j > 1
      PROVE  j - 1 \in 1..Len(Tail(q)) /\ Tail(q)[j - 1] = q[j] /\ j - 1 > 0
  <2>1. j - 1 \in 1..Len(Tail(q)) /\ j - 1 + 1 = j
    BY <1>1, <1>2
  <2>2. QED
    BY <1>1, <2>1
<1>3. ASSUME NEW j \in 1..Len(q), j > n + 1
      PROVE  j > 1 /\ j - 1 > n
  BY <1>1, <1>3
<1>4. \A j \in 1..Len(q) : j > 1 \/ j = 1
  BY <1>1
<1>5. Held(d, q, n + 1, fk, v) => Held(d, Tail(q), n, fk, v)
  BY <1>2, <1>3 DEF Held
<1>6. Held(d, q, 0, fk, v) => Held(d, Tail(q), 0, fk, v) \/ Answers(Head(q), fk, v)
  BY <1>1, <1>2, <1>4 DEF Held
<1>7. QED
  BY <1>5, <1>6

(* A step that answers the first change keeps every value held.            *)
LEMMA SettleOneSettles ==
  ASSUME NEW catalog, Mends(catalog), NEW a, Settling(a, catalog)
  PROVE  Settling(SettleOne(a), catalog)
<1>1. CASE a.queue = <<>>
  BY <1>1 DEF SettleOne
<1>2. CASE a.queue # <<>>
  <2> DEFINE q == a.queue
             c == Head(q)
             keys == catalog.foreign_keys
             b == [a EXCEPT !.queue = Tail(@)]
  <2>1. PICK S : q \in Seq(S)
    BY DEF Settling, Follower
  <2>2. /\ Accumulator(b) /\ b.ok = TRUE /\ b.db = a.db /\ b.queue = Tail(q)
        /\ Formed(a.db) /\ a.db.catalog = catalog
    BY DEF Settling, Follower, Accumulator
  <2>3. SettleOne(a) = ActAll(b, c)
    BY <1>2 DEF SettleOne, Settling, Follower
  <2>4. /\ Len(q) \in Nat /\ Len(Tail(q)) = Len(q) - 1 /\ c = q[1] /\ 1 \in 1..Len(q)
        /\ \A i \in 1..Len(Tail(q)) : Tail(q)[i] = q[i + 1]
        /\ Tail(q) \in Seq(S)
    BY <1>2, <2>1
  <2>5. ASSUME NEW n \in Nat, NEW fk, NEW v
        PROVE  /\ Held(a.db, q, n + 1, fk, v) => Held(a.db, Tail(q), n, fk, v)
               /\ Held(a.db, q, 0, fk, v) => Held(a.db, Tail(q), 0, fk, v) \/ Answers(c, fk, v)
    BY <1>2, <2>1, TakenOff
  <2>6. Leads(a.db, q, ToSet(keys))
    BY DEF Settling, Follower
  <2> HIDE DEF q, c, b, keys
  <2>7. LeadsTo(a.db, Tail(q), 0, ToSet(keys), c)
    <3>1. LeadsTo(a.db, q, 1, ToSet(keys), c)
      BY <2>4, <2>6 DEF Leads
    <3>2. \A fk, v : Held(a.db, q, 1, fk, v) => Held(a.db, Tail(q), 0, fk, v)
      <4>1. 0 \in Nat /\ 0 + 1 = 1
        OBVIOUS
      <4>2. QED
        BY <2>5, <4>1
    <3>3. QED
      BY <3>1, <3>2 DEF LeadsTo
  <2>8. ASSUME NEW i \in 1..Len(Tail(q))
        PROVE  LeadsTo(a.db, Tail(q), i, ToSet(keys), Tail(q)[i])
    <3>1. i \in Nat /\ i + 1 \in 1..Len(q) /\ Tail(q)[i] = q[i + 1]
      BY <2>4
    <3>2. LeadsTo(a.db, q, i + 1, ToSet(keys), Tail(q)[i])
      BY <2>6, <3>1 DEF Leads
    <3>3. \A fk, v : Held(a.db, q, i + 1, fk, v) => Held(a.db, Tail(q), i, fk, v)
      BY <2>5, <3>1
    <3>4. QED
      BY <3>2, <3>3 DEF LeadsTo
  <2>9. Leads(a.db, Tail(q), ToSet(keys))
    BY <2>8 DEF Leads
  <2>10. KeysHeld(a.db, Tail(q), keys, c, 0)
    <3>1. SUFFICES ASSUME NEW m \in 1..Len(keys), NEW r \in DOMAIN a.db.rows[keys[m].source]
                   PROVE  LET v == a.db.rows[keys[m].source][r][keys[m].column]
                          IN  Held(a.db, Tail(q), 0, keys[m], v) \/ (m > 0 /\ Answers(c, keys[m], v))
      BY DEF KeysHeld
    <3> DEFINE v == a.db.rows[keys[m].source][r][keys[m].column]
    <3>2. Held(a.db, q, 0, keys[m], v)
      BY DEF Settling, keys, q
    <3>3. 0 \in Nat /\ m > 0
      BY <2>2, KeysFormed DEF keys
    <3> HIDE DEF v
    <3>4. QED
      BY <2>5, <3>2, <3>3 DEF v
  <2>11. Answering(b, catalog, c, 0)
    BY <2>2, <2>4, <2>7, <2>9, <2>10 DEF Answering, Follower, keys
  <2>12. QED
    BY <2>3, <2>11, ChangeAnswered
<1>3. QED
  BY <1>1, <1>2

(* Settling ends with every foreign key mended, if it ends.                *)
LEMMA SettleMends ==
  ASSUME NEW catalog, Mends(catalog), NEW acc, Settling(acc, catalog), Settle(acc).queue = <<>>
  PROVE  /\ Settle(acc).ok
         /\ \A fk \in ToSet(catalog.foreign_keys) : ForeignKeyHolds(Settle(acc).db, fk)
<1>1. PICK g : /\ Turns(g, MaxSteps, QueueLoop, acc)
               /\ Settle(acc) = [g[MaxSteps] EXCEPT !.ok = @ /\ g[MaxSteps].queue = <<>>]
  BY SettleTurns
<1>2. MaxSteps \in Nat
  BY RelationsAssumption
<1>3. \A i \in 0..MaxSteps : g[i] = IF i = 0 THEN acc ELSE SettleOne(g[i - 1])
  <2>1. \A i, x : Turn(QueueLoop, x, i) = SettleOne(x)
    BY DEF Turn, QueueLoop
  <2>2. \A i \in 0..MaxSteps : g[i] = IF i = 0 THEN acc ELSE Turn(QueueLoop, g[i - 1], i)
    BY <1>1 DEF Turns
  <2>3. QED
    BY <2>1, <2>2
<1> DEFINE T == {i \in Nat : i =< MaxSteps => Settling(g[i], catalog)}
<1>4. 0 \in T
  BY <1>2, <1>3
<1>5. ASSUME NEW i \in T PROVE i + 1 \in T
  <2>1. SUFFICES ASSUME i + 1 =< MaxSteps PROVE Settling(g[i + 1], catalog)
    OBVIOUS
  <2>2. Settling(g[i], catalog) /\ g[i + 1] = SettleOne(g[i])
    BY <1>2, <1>3, <2>1
  <2>3. QED
    BY <2>2, SettleOneSettles
<1>6. T = Nat
  <2> HIDE DEF T
  <2>1. T \in SUBSET Nat
    BY DEF T
  <2>2. QED
    BY <1>4, <1>5, <2>1, Induction
<1> DEFINE end == g[MaxSteps]
<1>7. Settling(end, catalog)
  BY <1>2, <1>6
<1> HIDE DEF end, T
<1>8. Accumulator(end) /\ end.ok = TRUE /\ Formed(end.db) /\ end.db.catalog = catalog
  BY <1>7 DEF Settling, Follower
<1>9. Settle(acc) = [end EXCEPT !.ok = @ /\ end.queue = <<>>]
  BY <1>1 DEF end
<1>10. Settle(acc).queue = end.queue /\ Settle(acc).db = end.db /\ Settle(acc).ok = (end.ok /\ end.queue = <<>>)
  BY <1>8, <1>9 DEF Accumulator
<1>11. end.queue = <<>>
  BY <1>10
<1>12. ASSUME NEW fk \in ToSet(catalog.foreign_keys) PROVE ForeignKeyHolds(end.db, fk)
  <2>1. PICK m \in 1..Len(catalog.foreign_keys) : catalog.foreign_keys[m] = fk
    BY <1>8, KeysFormed
  <2>2. ASSUME NEW r \in DOMAIN end.db.rows[fk.source]
        PROVE  Held(end.db, <<>>, 0, fk, end.db.rows[fk.source][r][fk.column])
    BY <1>7, <1>11, <2>1 DEF Settling
  <2>3. \A v : Held(end.db, <<>>, 0, fk, v) => v = Null \/ References(end.db, fk, v)
    BY DEF Held
  <2>4. QED
    BY <2>2, <2>3 DEF ForeignKeyHolds, Rows
<1>13. QED
  BY <1>8, <1>10, <1>11, <1>12

(* An alteration changes keys of one table, or removes rows of it, and no  *)
(* value that references another row.                                      *)
LEMMA AlterationKeeps ==
  ASSUME Formed(db), NEW t \in Tables, NEW next \in Alterations(t)
  PROVE  /\ Only(db, next, t)
         /\ \A r \in DOMAIN next.rows[t] :
               /\ r \in DOMAIN db.rows[t]
               /\ \A fk \in ForeignKeys : fk.source = t => next.rows[t][r][fk.column] = db.rows[t][r][fk.column]
<1>1. t \in DOMAIN db.rows
  BY DEF Tables, Formed, CatalogFormed
<1>2. \A r \in DOMAIN db.rows[t] : /\ r \in Nat /\ r < db.next_row_id[t]
                                   /\ HasColumns(db.rows[t][r], db.catalog.columns[t])
  BY <1>1 DEF Formed, Rows
<1>3. \A fk \in ForeignKeys : fk.column \in db.catalog.columns[fk.source]
  BY KeysFormed DEF ForeignKeys
<1>4. CASE next \in Deletions(t)
  <2>1. PICK S : next = RemoveRows(db, t, S)
    BY <1>4 DEF Deletions
  <2> DEFINE R == [r \in DOMAIN db.rows[t] \ S |-> db.rows[t][r]]
  <2>2. next = WithRows(db, t, R)
    BY <2>1 DEF RemoveRows, WithRows
  <2>3. DOMAIN R = DOMAIN db.rows[t] \ S /\ \A r \in DOMAIN R : R[r] = db.rows[t][r]
    OBVIOUS
  <2> HIDE DEF R
  <2>4. Only(db, next, t) /\ next.rows[t] = R
    BY <1>1, <1>2, <2>2, <2>3, RowsReplaced
  <2>5. QED
    BY <2>3, <2>4
<1>5. CASE t \in KeyTables /\ next \in KeyUpdates(t)
  <2>1. PICK f : next = [db EXCEPT !.rows[t] = [r \in DOMAIN @ |-> [@[r] EXCEPT !.key = f[r]]]]
    BY <1>5 DEF KeyUpdates
  <2> DEFINE keyed(r) == [db.rows[t][r] EXCEPT !.key = f[r]]
             R == [r \in DOMAIN db.rows[t] |-> keyed(r)]
  <2>2. next = WithRows(db, t, R)
    BY <2>1 DEF WithRows
  <2>3. ASSUME NEW r \in DOMAIN db.rows[t]
        PROVE  /\ HasColumns(keyed(r), db.catalog.columns[t])
               /\ \A x \in db.catalog.columns[t] : x # "key" => keyed(r)[x] = db.rows[t][r][x]
    <3>1. HasColumns(db.rows[t][r], db.catalog.columns[t])
      BY <1>2
    <3>2. QED
      BY <3>1 DEF HasColumns
  <2> HIDE DEF keyed
  <2>4. DOMAIN R = DOMAIN db.rows[t] /\ \A r \in DOMAIN R : R[r] = keyed(r)
    OBVIOUS
  <2> HIDE DEF R
  <2>5. Only(db, next, t) /\ next.rows[t] = R
    BY <1>1, <1>2, <2>2, <2>3, <2>4, RowsReplaced
  <2>6. \A fk \in ForeignKeys : fk.source = t => fk.column \in db.catalog.columns[t] /\ fk.column # "key"
    BY <1>3, <1>5 DEF KeyTables
  <2>7. QED
    BY <2>3, <2>4, <2>5, <2>6
<1>6. QED
  BY <1>4, <1>5 DEF Alterations

(* What it changes is queued, and every reference that it breaks is to be  *)
(* answered.                                                               *)
LEMMA AlterationSettles ==
  ASSUME EngineInv, AllMend, NEW t \in Tables, NEW next \in Alterations(t)
  PROVE  Settling([ok |-> TRUE, db |-> next, queue |-> ChangesOf(db, next, t)], db.catalog)
<1> DEFINE keys == db.catalog.foreign_keys
           S == {r \in DOMAIN db.rows[t] : ~ Same(db, next, t, r)}
           p == ChangesOf(db, next, t)
           acc == [ok |-> TRUE, db |-> next, queue |-> p]
<1>1. Formed(db) /\ validate_constraints(db, TRUE)
  BY DEF EngineInv
<1>2. t \in DOMAIN db.rows
  BY <1>1 DEF Tables, Formed, CatalogFormed
<1>3. /\ Len(keys) \in Nat /\ DOMAIN keys = 1..Len(keys)
      /\ \A m \in 1..Len(keys) : keys[m] \in ToSet(keys)
      /\ \A fk \in ToSet(keys) : fk.source \in DOMAIN db.rows /\ fk.target \in DOMAIN db.rows
  BY <1>1, KeysFormed
<1>4. /\ Only(db, next, t)
      /\ \A r \in DOMAIN next.rows[t] :
            /\ r \in DOMAIN db.rows[t]
            /\ \A fk \in ToSet(keys) : fk.source = t => next.rows[t][r][fk.column] = db.rows[t][r][fk.column]
  BY <1>1, AlterationKeeps DEF ForeignKeys
<1>5. S \in SUBSET DOMAIN db.rows[t] /\ S \in SUBSET Nat /\ IsFiniteSet(S)
  <2>1. S \in SUBSET DOMAIN db.rows[t]
    OBVIOUS
  <2> HIDE DEF S
  <2>2. QED
    BY <1>1, <1>2, <2>1, RowsAreFinite
<1>6. p = Entries(db, next, t, S)
  BY DEF ChangesOf, Entries, Entry, New, Same, Rows
<1> HIDE DEF p
<1>7. Moves(db, next, t, p) /\ \E T : p \in Seq(T)
  <2>1. \A s \in DOMAIN db.rows : s # t => next.rows[s] = db.rows[s]
    BY <1>4 DEF Only
  <2>2. \A r \in DOMAIN db.rows[t] \ S : Same(db, next, t, r)
    OBVIOUS
  <2> HIDE DEF S
  <2>3. QED
    BY <1>5, <1>6, <2>1, <2>2, ListedMoves
<1>8. Follows(<<>>, p, p)
  BY <1>7 DEF Follows
<1>9. Leads(next, p, ToSet(keys))
  <2>1. Leads(db, <<>>, ToSet(keys))
    BY DEF Leads
  <2> HIDE DEF keys
  <2>2. QED
    BY <1>3, <1>7, <1>8, <2>1, LeadsOn
<1>10. ASSUME NEW m \in 1..Len(keys), NEW r \in DOMAIN next.rows[keys[m].source]
       PROVE  Held(next, p, 0, keys[m], next.rows[keys[m].source][r][keys[m].column])
  <2> DEFINE fk == keys[m]
             v == next.rows[fk.source][r][fk.column]
  <2>1. fk \in ToSet(keys) /\ fk.source \in DOMAIN db.rows /\ fk.target \in DOMAIN db.rows
    BY <1>3
  <2>2. r \in DOMAIN db.rows[fk.source] /\ db.rows[fk.source][r][fk.column] = v
    <3>1. CASE fk.source = t
      BY <1>4, <2>1, <3>1
    <3>2. CASE fk.source # t
      BY <1>4, <2>1, <3>2 DEF Only
    <3>3. QED
      BY <3>1, <3>2
  <2>3. ForeignKeyHolds(db, fk)
    BY <1>1, <1>3 DEF validate_constraints
  <2>4. v = Null \/ References(db, fk, v)
    BY <2>2, <2>3 DEF ForeignKeyHolds, Rows
  <2>5. Held(db, <<>>, 0, fk, v)
    BY <2>4 DEF Held
  <2>6. 0 \in Nat /\ 0 =< Len(<<>>)
    OBVIOUS
  <2> HIDE DEF fk, v
  <2>7. Held(next, p, 0, fk, v)
    BY <1>7, <1>8, <2>1, <2>5, <2>6, HeldOn
  <2>8. QED
    BY <2>7 DEF fk, v
<1>11. Formed(next) /\ next.catalog = db.catalog
  BY <1>4 DEF Only
<1>12. Accumulator(acc) /\ acc.ok = TRUE /\ acc.db = next /\ acc.queue = p
  BY DEF Accumulator
<1> HIDE DEF acc
<1>13. QED
  BY <1>7, <1>9, <1>10, <1>11, <1>12 DEF Settling, Follower, acc, p

(* Deleting rows or changing keys of a table that CASCADE and SET NULL     *)
(* references lead to is never refused, and leaves every reference mended, *)
(* at any depth and through any cycle of tables, if it ends within the     *)
(* limit on steps (apply_referential_actions).                             *)
WhatEndsIsMended ==
    AllMend =>
        \A t \in Tables : \A next \in Alterations(t) :
            LET end == Followed(t, next)
            IN  end.queue = <<>> =>
                  /\ end.ok
                  /\ \A fk \in ForeignKeys : ForeignKeyHolds(end.db, fk)

(* No statement that comes to an end leaves a reference broken.            *)
THEOREM CascadesMendWhatEnds == EngineSpec => []WhatEndsIsMended
<1>1. EngineInv => WhatEndsIsMended
  <2> SUFFICES ASSUME EngineInv, AllMend, NEW t \in Tables, NEW next \in Alterations(t),
                      Followed(t, next).queue = <<>>
               PROVE  /\ Followed(t, next).ok
                      /\ \A fk \in ForeignKeys : ForeignKeyHolds(Followed(t, next).db, fk)
    BY DEF WhatEndsIsMended
  <2> DEFINE acc == [ok |-> TRUE, db |-> next, queue |-> ChangesOf(db, next, t)]
  <2>1. Settling(acc, db.catalog)
    BY AlterationSettles
  <2>2. Followed(t, next) = Settle(acc)
    BY DEF Followed
  <2>3. Mends(db.catalog)
    BY DEF AllMend, Mends
  <2> HIDE DEF acc
  <2>4. QED
    BY <2>1, <2>2, <2>3, SettleMends DEF ForeignKeys
<1>2. QED
  BY <1>1, EngineStaysWhole, PTL

(* No alteration of a table takes more steps than the limit.               *)
SettlingEnds == \A t \in Tables : \A next \in Alterations(t) : Followed(t, next).queue = <<>>

(* So the property of the runs holds wherever the limit is not met.        *)
THEOREM CascadesMend == EngineSpec => [](SettlingEnds => CascadesMendReferences)
<1>1. WhatEndsIsMended => (SettlingEnds => CascadesMendReferences)
  BY DEF WhatEndsIsMended, SettlingEnds, CascadesMendReferences
<1>2. QED
  BY <1>1, CascadesMendWhatEnds, PTL

----------------------------------------------------------------------------
(* Deletions come to an end.  What follows them gives no column another    *)
(* value than NULL, and each change that is queued takes away a value that *)
(* references a row: there are no more changes than such values and rows.  *)
RefsOf(d, m) ==
    LET fk == d.catalog.foreign_keys[m]
    IN  {<<m, r>> : r \in {r \in DOMAIN d.rows[fk.source] : d.rows[fk.source][r][fk.column] # Null}}

Refs(d) == UNION {RefsOf(d, m) : m \in 1..Len(d.catalog.foreign_keys)}

(* What references a row, one by one; each is a foreign key and a row.     *)
LEMMA RefsAre ==
  ASSUME NEW d
  PROVE  LET keys == d.catalog.foreign_keys
         IN  /\ \A m, r : <<m, r>> \in Refs(d) <=>
                           /\ m \in 1..Len(keys) /\ r \in DOMAIN d.rows[keys[m].source]
                           /\ d.rows[keys[m].source][r][keys[m].column] # Null
             /\ \A z \in Refs(d) : \E m, r : z = <<m, r>>
<1> DEFINE keys == d.catalog.foreign_keys
           has(m, r) == /\ r \in DOMAIN d.rows[keys[m].source]
                        /\ d.rows[keys[m].source][r][keys[m].column] # Null
<1>1. \A m, z : z \in RefsOf(d, m) <=> \E r : has(m, r) /\ z = <<m, r>>
  BY DEF RefsOf
<1>2. \A z : z \in Refs(d) <=> \E m \in 1..Len(keys) : z \in RefsOf(d, m)
  BY DEF Refs
<1>3. \A m, r, k, s : <<m, r>> = <<k, s>> <=> m = k /\ r = s
  OBVIOUS
<1> HIDE DEF has, keys
<1>4. \A m, r : <<m, r>> \in Refs(d) <=> m \in 1..Len(keys) /\ has(m, r)
  BY <1>1, <1>2, <1>3
<1>5. \A z \in Refs(d) : \E m, r : z = <<m, r>>
  BY <1>1, <1>2
<1>6. QED
  BY <1>4, <1>5 DEF has, keys

(* Pairs with the same first part are as many as their second parts.       *)
LEMMA PairsCount ==
  ASSUME NEW m, NEW S, IsFiniteSet(S)
  PROVE  LET P == {<<m, r>> : r \in S} IN IsFiniteSet(P) /\ Cardinality(P) = Cardinality(S)
<1> DEFINE P == {<<m, r>> : r \in S}
           f == [r \in S |-> <<m, r>>]
<1>1. f \in [S -> P] /\ \A x \in P : \E r \in S : f[r] = x
  OBVIOUS
<1>2. \A r, s \in S : f[r] = f[s] => r = s
  OBVIOUS
<1> HIDE DEF f, P
<1>3. f \in Bijection(S, P)
  BY <1>1, <1>2 DEF Bijection, Injection, Surjection, IsInjective
<1>4. ExistsBijection(S, P)
  BY <1>3 DEF ExistsBijection
<1>5. QED
  BY <1>4, FS_Bijection DEF P

(* A database has finitely many of them.                                   *)
LEMMA RefsAreFinite ==
  ASSUME NEW d, Formed(d)
  PROVE  IsFiniteSet(Refs(d))
<1> DEFINE keys == d.catalog.foreign_keys
           n == Len(keys)
           U == {RefsOf(d, m) : m \in 1..n}
           f == [m \in 1..n |-> RefsOf(d, m)]
<1>1. n \in Nat /\ \A m \in 1..n : keys[m].source \in DOMAIN d.rows
  BY KeysFormed
<1>2. ASSUME NEW m \in 1..n PROVE IsFiniteSet(RefsOf(d, m))
  <2> DEFINE fk == keys[m]
             S == {r \in DOMAIN d.rows[fk.source] : d.rows[fk.source][r][fk.column] # Null}
  <2>1. fk.source \in DOMAIN d.rows /\ S \in SUBSET DOMAIN d.rows[fk.source]
    BY <1>1
  <2>2. RefsOf(d, m) = {<<m, r>> : r \in S}
    BY DEF RefsOf
  <2> HIDE DEF S, fk
  <2>3. IsFiniteSet(S)
    BY <2>1, RowsAreFinite
  <2>4. QED
    BY <2>2, <2>3, PairsCount
<1>3. IsFiniteSet(U)
  <2>1. f \in [1..n -> U] /\ \A x \in U : \E m \in 1..n : f[m] = x
    OBVIOUS
  <2> HIDE DEF f, U
  <2>2. f \in Surjection(1..n, U)
    BY <2>1 DEF Surjection
  <2>3. IsFiniteSet(1..n)
    BY <1>1, FS_Interval
  <2>4. QED
    BY <2>2, <2>3, FS_Surjection
<1>4. \A T \in U : IsFiniteSet(T)
  BY <1>2
<1>5. Refs(d) = UNION U
  BY DEF Refs
<1> HIDE DEF U
<1>6. QED
  BY <1>3, <1>4, <1>5, FS_UNION

(* Taking away what some rows referenced.                                  *)
LEMMA RefsTakenAway ==
  ASSUME NEW d, Formed(d), NEW e, NEW k, NEW S, IsFiniteSet(S), \A r \in S : <<k, r>> \in Refs(d),
         Refs(e) \subseteq Refs(d), \A r \in S : <<k, r>> \notin Refs(e)
  PROVE  /\ Cardinality(S) \in Nat /\ Cardinality(Refs(d)) \in Nat /\ Cardinality(Refs(e)) \in Nat
         /\ Cardinality(Refs(e)) + Cardinality(S) =< Cardinality(Refs(d))
<1> DEFINE X == {<<k, r>> : r \in S}
<1>1. IsFiniteSet(X) /\ Cardinality(X) = Cardinality(S)
  BY PairsCount
<1>2. X \subseteq Refs(d) /\ Refs(e) \subseteq Refs(d) \ X
  OBVIOUS
<1> HIDE DEF X
<1>3. IsFiniteSet(Refs(d))
  BY RefsAreFinite
<1>4. /\ IsFiniteSet(Refs(d) \ X)
      /\ Cardinality(Refs(d) \ X) = Cardinality(Refs(d)) - Cardinality(Refs(d) \cap X)
  BY <1>3, FS_Difference
<1>5. Refs(d) \cap X = X
  BY <1>2
<1>6. IsFiniteSet(Refs(e)) /\ Cardinality(Refs(e)) =< Cardinality(Refs(d) \ X)
  BY <1>2, <1>4, FS_Subset
<1>7. Cardinality(S) \in Nat /\ Cardinality(Refs(d)) \in Nat /\ Cardinality(Refs(e)) \in Nat
  <2>1. IsFiniteSet(S) /\ IsFiniteSet(Refs(d)) /\ IsFiniteSet(Refs(e))
    BY <1>3, <1>6
  <2>2. QED
    BY <2>1, FS_CardinalityType
<1>8. Cardinality(Refs(d) \ X) = Cardinality(Refs(d)) - Cardinality(S)
  BY <1>1, <1>4, <1>5
<1>9. QED
  BY <1>6, <1>7, <1>8

(* A change that gives no key another value than NULL.                     *)
Emptying(catalog, c) ==
    \/ c.new = Absent
    \/ \A fk \in ToSet(catalog.foreign_keys) :
          c.table = fk.target => c.new[fk.references] \in {c.old[fk.references], Null}

Ending(a, catalog, n) ==
    /\ Accumulator(a) /\ Formed(a.db) /\ a.db.catalog = catalog
    /\ \E S : a.queue \in Seq(S)
    /\ \A i \in 1..Len(a.queue) : Emptying(catalog, a.queue[i])
    /\ Cardinality(Refs(a.db)) + Len(a.queue) =< n

(* New values in a table are NULL.                                         *)
Empties(d, e, t) ==
    \A r \in DOMAIN e.rows[t] :
        /\ r \in DOMAIN d.rows[t]
        /\ \A x \in d.catalog.columns[t] : e.rows[t][r][x] \in {d.rows[t][r][x], Null}

(* What a foreign key answers takes away as many of them as it queues.     *)
LEMMA MoveEnds ==
  ASSUME NEW catalog, NEW a, NEW n \in Int, Ending(a, catalog, n), NEW k \in 1..Len(catalog.foreign_keys),
         NEW S, S \subseteq DOMAIN a.db.rows[catalog.foreign_keys[k].source],
         \A r \in S : <<k, r>> \in Refs(a.db),
         NEW b, Accumulator(b), Formed(b.db), b.db.catalog = catalog,
         Empties(a.db, b.db, catalog.foreign_keys[k].source),
         \A r \in S : <<k, r>> \notin Refs(b.db),
         NEW T, NEW p \in Seq(T), Moves(a.db, b.db, catalog.foreign_keys[k].source, p),
         Len(p) = Cardinality(S), b.queue = a.queue \o p
  PROVE  Ending(b, catalog, n)
<1> DEFINE keys == catalog.foreign_keys
           t == keys[k].source
           d == a.db
           e == b.db
           q == a.queue
<1>1. Formed(d) /\ d.catalog = catalog
  BY DEF Ending
<1>2. /\ Len(keys) \in Nat /\ t \in DOMAIN d.rows
      /\ \A m \in 1..Len(keys) : /\ keys[m] \in ToSet(keys) /\ keys[m].source \in DOMAIN d.rows
                                /\ keys[m].column \in catalog.columns[keys[m].source]
  BY <1>1, KeysFormed
<1>3. PICK Q : q \in Seq(Q)
  BY DEF Ending
<1>4. Follows(q, p, b.queue) /\ b.queue \in Seq(Q \cup T)
  <2>1. Follows(q, p, q \o p) /\ q \o p \in Seq(Q \cup T)
    <3> HIDE DEF q
    <3>1. QED
      BY <1>3, QueueFollows
  <2>2. QED
    BY <2>1
<1>5. ASSUME NEW m, NEW r, <<m, r>> \in Refs(e)
      PROVE  <<m, r>> \in Refs(d)
  <2>1. /\ m \in 1..Len(keys) /\ r \in DOMAIN e.rows[keys[m].source]
        /\ e.rows[keys[m].source][r][keys[m].column] # Null
    <3>1. e.catalog.foreign_keys = keys
      OBVIOUS
    <3> HIDE DEF e, keys
    <3>2. QED
      BY <1>5, <3>1, RefsAre
  <2> DEFINE s == keys[m].source
             x == keys[m].column
  <2>2. s \in DOMAIN d.rows /\ x \in catalog.columns[s]
    BY <1>2, <2>1
  <2>3. r \in DOMAIN d.rows[s] /\ d.rows[s][r][x] # Null
    <3>1. CASE s # t
      <4>1. e.rows[s] = d.rows[s]
        BY <2>2, <3>1 DEF Moves
      <4>2. QED
        BY <2>1, <4>1
    <3>2. CASE s = t
      <4>1. r \in DOMAIN e.rows[s] /\ e.rows[s][r][x] # Null
        BY <2>1
      <4>2. Empties(d, e, s)
        BY <3>2
      <4> HIDE DEF d, e, s, x
      <4>3. QED
        BY <1>1, <2>2, <4>1, <4>2 DEF Empties
    <3>3. QED
      BY <3>1, <3>2
  <2>4. QED
    BY <1>1, <2>1, <2>3, RefsAre
<1>6. Refs(e) \subseteq Refs(d)
  <2>1. \A z \in Refs(e) : \E m, r : z = <<m, r>>
    BY RefsAre
  <2>2. QED
    BY <1>5, <2>1
<1>7. IsFiniteSet(S)
  BY <1>1, <1>2, RowsAreFinite
<1>8. /\ Cardinality(S) \in Nat /\ Cardinality(Refs(d)) \in Nat /\ Cardinality(Refs(e)) \in Nat
      /\ Cardinality(Refs(e)) + Cardinality(S) =< Cardinality(Refs(d))
  BY <1>1, <1>6, <1>7, RefsTakenAway
<1>9. Cardinality(Refs(e)) + Len(b.queue) =< n
  <2>1. Cardinality(Refs(d)) + Len(q) =< n
    BY DEF Ending
  <2>2. Len(b.queue) = Len(q) + Cardinality(S) /\ Len(q) \in Nat
    BY <1>4 DEF Follows
  <2> HIDE DEF d, e, q
  <2>3. QED
    BY <1>8, <2>1, <2>2
<1>10. ASSUME NEW i \in 1..Len(p) PROVE Emptying(catalog, p[i])
  <2>1. PICK r \in DOMAIN d.rows[t] : p[i] = Entry(d, e, t, r)
    BY DEF Moves
  <2>2. p[i].table = t /\ p[i].old = d.rows[t][r] /\ p[i].new = New(e, t, r)
    BY <2>1 DEF Entry, Change
  <2>3. CASE r \notin DOMAIN e.rows[t]
    BY <2>2, <2>3 DEF New, Emptying
  <2>4. CASE r \in DOMAIN e.rows[t]
    <3>1. p[i].new = e.rows[t][r]
      BY <2>2, <2>4 DEF New
    <3>2. \A x \in catalog.columns[t] : e.rows[t][r][x] \in {d.rows[t][r][x], Null}
      BY <1>1, <2>4 DEF Empties
    <3>3. \A fk \in ToSet(keys) : fk.target = t => fk.references \in catalog.columns[t]
      BY <1>1 DEF Formed, CatalogFormed
    <3> HIDE DEF t, d, e
    <3>4. QED
      BY <2>2, <3>1, <3>2, <3>3 DEF Emptying
  <2>5. QED
    BY <2>3, <2>4
<1>11. ASSUME NEW i \in 1..Len(b.queue) PROVE Emptying(catalog, b.queue[i])
  <2>1. Len(q) \in Nat /\ Len(p) \in Nat /\ Len(b.queue) = Len(q) + Len(p)
    BY <1>4 DEF Follows
  <2>2. CASE i =< Len(q)
    <3>1. i \in 1..Len(q) /\ b.queue[i] = q[i]
      BY <1>4, <2>1, <2>2 DEF Follows
    <3>2. QED
      BY <3>1 DEF Ending
  <2>3. CASE ~ (i =< Len(q))
    <3> DEFINE j == i - Len(q)
    <3>1. j \in 1..Len(p) /\ i = Len(q) + j
      BY <2>1, <2>3
    <3> HIDE DEF j
    <3>2. b.queue[i] = p[j]
      BY <1>4, <3>1 DEF Follows
    <3>3. QED
      BY <1>10, <3>1, <3>2
  <2>4. QED
    BY <2>2, <2>3
<1>12. QED
  BY <1>4, <1>9, <1>11 DEF Ending

(* Such is the answer to a change that gives no key but NULL.              *)
LEMMA ActEnds ==
  ASSUME NEW catalog, Mends(catalog), NEW a, NEW n \in Int, Ending(a, catalog, n),
         NEW c, Emptying(catalog, c),
         NEW k \in 1..Len(catalog.foreign_keys), catalog.foreign_keys[k].target = c.table
  PROVE  Ending(Act(a, c, catalog.foreign_keys[k]), catalog, n)
<1> DEFINE keys == catalog.foreign_keys
           fk == keys[k]
           d == a.db
           t == fk.source
           old == d.rows[t]
           key == c.old[fk.references]
           rows == Referring(d, fk, key)
<1>1. Accumulator(a) /\ Formed(d) /\ d.catalog = catalog
  BY DEF Ending
<1>2. /\ Len(keys) \in Nat /\ DOMAIN keys = 1..Len(keys) /\ fk \in ToSet(keys)
      /\ t \in DOMAIN d.rows /\ fk.column \in catalog.columns[t]
  BY <1>1, KeysFormed
<1>3. rows \subseteq DOMAIN old /\ \A r \in rows : old[r][fk.column] = key
  BY DEF Referring, Rows
<1>4. Mending(fk)
  BY <1>2 DEF Mends
<1>5. CASE ~ a.ok \/ Unaffected(c, fk) \/ rows = {}
  BY <1>5 DEF Act
<1>6. CASE a.ok /\ ~ Unaffected(c, fk) /\ rows # {}
  <2>1. key # Null /\ (c.new # Absent => c.new[fk.references] = Null)
    BY <1>2, <1>6 DEF Unaffected, Emptying
  <2>2. Act(a, c, fk) = CascadeDelete(a, fk, rows) \/ Act(a, c, fk) = Redirect(a, fk, rows, Null)
    BY <1>4, <1>6, <2>1 DEF Act, Mending
  <2>3. \A r \in rows : <<k, r>> \in Refs(d)
    BY <1>1, <1>3, <2>1, RefsAre
  <2>4. CASE Act(a, c, fk) = CascadeDelete(a, fk, rows)
    <3> DEFINE b == CascadeDelete(a, fk, rows)
               new == b.db.rows[t]
    <3>1. Queues(a, b, t, rows, [r \in DOMAIN old \ rows |-> old[r]])
      <4>1. Accumulator(a) /\ Formed(a.db) /\ t \in DOMAIN a.db.rows /\ rows \subseteq DOMAIN a.db.rows[t]
        BY <1>1, <1>2, <1>3
      <4> HIDE DEF rows, fk
      <4>2. QED
        BY <4>1, DeletesMove
    <3> HIDE DEF b
    <3>2. DOMAIN new = DOMAIN old \ rows /\ \A r \in DOMAIN new : new[r] = old[r]
      BY <3>1 DEF Queues
    <3>3. Empties(d, b.db, t)
      BY <3>2 DEF Empties
    <3>4. b.db.catalog = catalog
      BY <1>1, <3>1 DEF Queues
    <3>5. \A r \in rows : <<k, r>> \notin Refs(b.db)
      BY <3>2, <3>4, RefsAre
    <3>6. PICK T : \E p \in Seq(T) :
            Moves(d, b.db, t, p) /\ Len(p) = Cardinality(rows) /\ b.queue = a.queue \o p
      BY <3>1 DEF Queues
    <3>7. PICK p \in Seq(T) : Moves(d, b.db, t, p) /\ Len(p) = Cardinality(rows) /\ b.queue = a.queue \o p
      BY <3>6
    <3>8. Accumulator(b) /\ Formed(b.db)
      BY <3>1 DEF Queues
    <3> HIDE DEF rows
    <3>9. Ending(b, catalog, n)
      BY <1>3, <2>3, <3>3, <3>4, <3>5, <3>7, <3>8, MoveEnds
    <3>10. QED
      BY <2>4, <3>9 DEF b
  <2>5. CASE Act(a, c, fk) = Redirect(a, fk, rows, Null)
    <3> DEFINE b == Redirect(a, fk, rows, Null)
               new == b.db.rows[t]
    <3>1. Queues(a, b, t, rows, [r \in DOMAIN old |->
                                   IF r \in rows THEN [old[r] EXCEPT ![fk.column] = Null] ELSE old[r]])
      <4>1. Accumulator(a) /\ Formed(a.db) /\ t \in DOMAIN a.db.rows /\ rows \subseteq DOMAIN a.db.rows[t]
        BY <1>1, <1>2, <1>3
      <4> HIDE DEF rows, fk
      <4>2. QED
        BY <4>1, RedirectsMove
    <3> HIDE DEF b
    <3>2. /\ DOMAIN new = DOMAIN old
          /\ \A r \in DOMAIN old \ rows : new[r] = old[r]
          /\ \A r \in rows : new[r] = [old[r] EXCEPT ![fk.column] = Null]
      BY <1>3, <3>1 DEF Queues
    <3>3. ASSUME NEW r \in rows
          PROVE  /\ new[r][fk.column] = Null
                 /\ \A x \in catalog.columns[t] : x # fk.column => new[r][x] = old[r][x]
      <4> DEFINE row == old[r]
                 C == catalog.columns[t]
                 f == fk.column
      <4>1. HasColumns(row, C) /\ f \in C /\ new[r] = [row EXCEPT ![f] = Null]
        BY <1>1, <1>2, <1>3, <3>2 DEF Formed, Rows
      <4> HIDE DEF row, C, f, new
      <4>2. new[r][f] = Null /\ \A x \in C : x # f => new[r][x] = row[x]
        BY <4>1 DEF HasColumns
      <4>3. QED
        BY <4>2 DEF row, C, f
    <3>4. Empties(d, b.db, t)
      <4>1. ASSUME NEW r \in DOMAIN new, NEW x \in catalog.columns[t]
            PROVE  new[r][x] \in {old[r][x], Null}
        <5>1. CASE r \in rows
          <6> HIDE DEF rows, new, old
          <6>1. QED
            BY <3>3, <5>1
        <5>2. CASE r \notin rows
          BY <3>2, <5>2
        <5>3. QED
          BY <5>1, <5>2
      <4>2. DOMAIN new = DOMAIN old
        BY <3>2
      <4> HIDE DEF rows
      <4>3. QED
        BY <1>1, <4>1, <4>2 DEF Empties
    <3>5. b.db.catalog = catalog
      BY <1>1, <3>1 DEF Queues
    <3>6. \A r \in rows : <<k, r>> \notin Refs(b.db)
      <4>1. \A r : <<k, r>> \in Refs(b.db) => new[r][fk.column] # Null
        BY <3>5, RefsAre
      <4>2. \A r \in rows : new[r][fk.column] = Null
        BY <3>3
      <4> HIDE DEF rows, new
      <4>3. QED
        BY <4>1, <4>2
    <3>7. PICK T : \E p \in Seq(T) :
            Moves(d, b.db, t, p) /\ Len(p) = Cardinality(rows) /\ b.queue = a.queue \o p
      BY <3>1 DEF Queues
    <3>8. PICK p \in Seq(T) : Moves(d, b.db, t, p) /\ Len(p) = Cardinality(rows) /\ b.queue = a.queue \o p
      BY <3>7
    <3>9. Accumulator(b) /\ Formed(b.db)
      BY <3>1 DEF Queues
    <3> HIDE DEF rows
    <3>10. Ending(b, catalog, n)
      BY <1>3, <2>3, <3>4, <3>5, <3>6, <3>8, <3>9, MoveEnds
    <3>11. QED
      BY <2>5, <3>10 DEF b
  <2>6. QED
    BY <2>2, <2>4, <2>5
<1>7. QED
  BY <1>5, <1>6

(* And so are the answers of all foreign keys to it.                       *)
LEMMA ActAllEnds ==
  ASSUME NEW catalog, Mends(catalog), NEW a, NEW b \in Int, Ending(a, catalog, b),
         NEW c, Emptying(catalog, c)
  PROVE  Ending(ActAll(a, c), catalog, b)
<1> DEFINE keys == catalog.foreign_keys
           n == Len(keys)
           loop == KeysLoop(keys, c)
<1>1. Formed(a.db) /\ a.db.catalog = catalog
  BY DEF Ending
<1>2. n \in Nat
  BY <1>1, KeysFormed
<1>3. PICK g : Turns(g, n, loop, a) /\ ActAll(a, c) = g[n]
  BY <1>1, <1>2, ActAllTurns
<1>4. \A i \in 0..n : g[i] = IF i = 0 THEN a ELSE Turn(loop, g[i - 1], i)
  <2> HIDE DEF n, loop
  <2>1. QED
    BY <1>3 DEF Turns
<1> DEFINE T == {i \in Nat : i =< n => Ending(g[i], catalog, b)}
<1>5. 0 \in T
  BY <1>2, <1>4
<1>6. ASSUME NEW i \in T PROVE i + 1 \in T
  <2>1. SUFFICES ASSUME i + 1 =< n PROVE Ending(g[i + 1], catalog, b)
    OBVIOUS
  <2> DEFINE k == i + 1
  <2>2. k \in 1..n /\ k - 1 = i /\ i \in Nat
    BY <1>2, <2>1
  <2>3. Ending(g[k - 1], catalog, b)
    BY <1>2, <2>1, <2>2
  <2> HIDE DEF k
  <2>4. Turn(loop, g[k - 1], k) = IF keys[k].target # c.table THEN g[k - 1] ELSE Act(g[k - 1], c, keys[k])
    BY DEF Turn, KeysLoop
  <2>5. keys[k].target = c.table => Ending(Act(g[k - 1], c, keys[k]), catalog, b)
    BY <2>2, <2>3, ActEnds
  <2>6. g[k] = Turn(loop, g[k - 1], k)
    <3> HIDE DEF n, loop
    <3>1. QED
      BY <1>2, <1>4, <2>2
  <2> HIDE DEF loop
  <2>7. QED
    BY <2>3, <2>4, <2>5, <2>6 DEF k
<1>7. T = Nat
  <2> HIDE DEF T
  <2>1. T \in SUBSET Nat
    BY DEF T
  <2>2. QED
    BY <1>5, <1>6, <2>1, Induction
<1>8. QED
  BY <1>2, <1>3, <1>7

(* Every step that answers a change leaves one less to be answered.        *)
LEMMA SettleOneEnds ==
  ASSUME NEW catalog, Mends(catalog), NEW a, a.ok = TRUE, NEW n \in Int, Ending(a, catalog, n),
         a.queue # <<>>
  PROVE  Ending(SettleOne(a), catalog, n - 1)
<1> DEFINE q == a.queue
           c == Head(q)
           b == [a EXCEPT !.queue = Tail(@)]
<1>1. PICK S : q \in Seq(S)
  BY DEF Ending
<1>2. /\ Accumulator(b) /\ b.db = a.db /\ b.queue = Tail(q)
      /\ Formed(a.db) /\ a.db.catalog = catalog
  BY DEF Ending, Accumulator
<1>3. SettleOne(a) = ActAll(b, c)
  BY DEF SettleOne
<1>4. /\ Len(q) \in Nat /\ Len(Tail(q)) = Len(q) - 1 /\ c = q[1] /\ 1 \in 1..Len(q)
      /\ \A i \in 1..Len(Tail(q)) : Tail(q)[i] = q[i + 1]
      /\ Tail(q) \in Seq(S)
  BY <1>1
<1>5. /\ \A i \in 1..Len(q) : Emptying(catalog, q[i])
      /\ Cardinality(Refs(a.db)) + Len(q) =< n
  BY DEF Ending
<1>6. Cardinality(Refs(a.db)) \in Nat
  BY <1>2, RefsAreFinite, FS_CardinalityType
<1> HIDE DEF q, c, b
<1>7. Emptying(catalog, c) /\ \A i \in 1..Len(Tail(q)) : Emptying(catalog, Tail(q)[i])
  <2>1. \A i \in 1..Len(Tail(q)) : i + 1 \in 1..Len(q)
    BY <1>4
  <2>2. QED
    BY <1>4, <1>5, <2>1
<1>8. Cardinality(Refs(a.db)) + Len(Tail(q)) =< n - 1
  BY <1>4, <1>5, <1>6
<1>9. Ending(b, catalog, n - 1)
  BY <1>2, <1>4, <1>7, <1>8 DEF Ending
<1>10. QED
  BY <1>3, <1>7, <1>9, ActAllEnds

(* After a deletion no more is left to do than the limit allows.           *)
LEMMA DeletionEnds ==
  ASSUME EngineInv, NEW t \in Tables, NEW next \in Deletions(t),
         Cardinality(Refs(db)) + Cardinality(DOMAIN Rows(db, t)) =< MaxSteps
  PROVE  Ending([ok |-> TRUE, db |-> next, queue |-> ChangesOf(db, next, t)], db.catalog, MaxSteps)
<1> DEFINE catalog == db.catalog
           keys == catalog.foreign_keys
           S == {r \in DOMAIN db.rows[t] : ~ Same(db, next, t, r)}
           p == ChangesOf(db, next, t)
           acc == [ok |-> TRUE, db |-> next, queue |-> p]
<1>1. Formed(db)
  BY DEF EngineInv
<1>2. t \in DOMAIN db.rows
  BY <1>1 DEF Tables, Formed, CatalogFormed
<1>3. /\ Formed(next) /\ next.catalog = catalog
      /\ \A s \in DOMAIN db.rows : s # t => next.rows[s] = db.rows[s]
  BY <1>1, AlterationKeeps DEF Only, Alterations
<1>4. \A r \in DOMAIN next.rows[t] : r \in DOMAIN db.rows[t] /\ next.rows[t][r] = db.rows[t][r]
  <2>1. PICK D : next = RemoveRows(db, t, D)
    BY DEF Deletions
  <2>2. next.rows[t] = [r \in DOMAIN db.rows[t] \ D |-> db.rows[t][r]]
    BY <1>1, <1>2, <2>1 DEF RemoveRows, Formed
  <2>3. QED
    BY <2>2
<1>5. /\ S \in SUBSET Nat /\ IsFiniteSet(S) /\ S \subseteq DOMAIN db.rows[t]
      /\ IsFiniteSet(DOMAIN db.rows[t])
  <2>1. S \in SUBSET DOMAIN db.rows[t] /\ DOMAIN db.rows[t] \in SUBSET DOMAIN db.rows[t]
    OBVIOUS
  <2> HIDE DEF S
  <2>2. QED
    BY <1>1, <1>2, <2>1, RowsAreFinite
<1>6. p = Entries(db, next, t, S)
  BY DEF ChangesOf, Entries, Entry, New, Same, Rows
<1> HIDE DEF p
<1>7. Moves(db, next, t, p) /\ Len(p) = Cardinality(S) /\ \E T : p \in Seq(T)
  <2>1. \A r \in DOMAIN db.rows[t] \ S : Same(db, next, t, r)
    OBVIOUS
  <2> HIDE DEF S
  <2>2. QED
    BY <1>3, <1>5, <1>6, <2>1, ListedMoves
<1> HIDE DEF S
<1>8. ASSUME NEW i \in 1..Len(p) PROVE Emptying(catalog, p[i])
  <2>1. PICK r \in DOMAIN db.rows[t] : p[i] = Entry(db, next, t, r)
    BY <1>7 DEF Moves
  <2>2. p[i].old = db.rows[t][r] /\ p[i].new = New(next, t, r)
    BY <2>1 DEF Entry, Change
  <2>3. p[i].new = Absent \/ p[i].new = p[i].old
    BY <1>4, <2>2 DEF New
  <2>4. QED
    BY <2>3 DEF Emptying
<1>9. Refs(next) \subseteq Refs(db)
  <2>1. ASSUME NEW m, NEW r, <<m, r>> \in Refs(next) PROVE <<m, r>> \in Refs(db)
    <3>1. /\ m \in 1..Len(keys) /\ r \in DOMAIN next.rows[keys[m].source]
          /\ next.rows[keys[m].source][r][keys[m].column] # Null
      BY <1>3, <2>1, RefsAre
    <3>2. keys[m].source \in DOMAIN db.rows
      BY <1>1, <3>1, KeysFormed
    <3> DEFINE s == keys[m].source
               x == keys[m].column
    <3>3. r \in DOMAIN db.rows[s] /\ db.rows[s][r][x] # Null
      <4>1. CASE s # t
        BY <1>3, <3>1, <3>2, <4>1
      <4>2. CASE s = t
        <5>1. r \in DOMAIN next.rows[t] /\ next.rows[t][r][x] # Null
          BY <3>1, <4>2
        <5> HIDE DEF s, x
        <5>2. QED
          BY <1>4, <4>2, <5>1
      <4>3. QED
        BY <4>1, <4>2
    <3>4. QED
      BY <3>1, <3>3, RefsAre
  <2>2. \A z \in Refs(next) : \E m, r : z = <<m, r>>
    BY RefsAre
  <2>3. QED
    BY <2>1, <2>2
<1>10. Cardinality(Refs(next)) + Len(p) =< MaxSteps
  <2>1. IsFiniteSet(Refs(db)) /\ IsFiniteSet(Refs(next))
    BY <1>1, <1>3, RefsAreFinite
  <2>2. /\ Cardinality(Refs(next)) =< Cardinality(Refs(db))
        /\ Cardinality(S) =< Cardinality(DOMAIN db.rows[t])
    BY <1>5, <1>9, <2>1, FS_Subset
  <2>3. /\ Cardinality(Refs(db)) \in Nat /\ Cardinality(Refs(next)) \in Nat
        /\ Cardinality(S) \in Nat /\ Cardinality(DOMAIN db.rows[t]) \in Nat
    BY <1>5, <2>1, FS_CardinalityType
  <2>4. Cardinality(Refs(db)) + Cardinality(DOMAIN db.rows[t]) =< MaxSteps /\ MaxSteps \in Nat
    BY RelationsAssumption DEF Rows
  <2>5. QED
    BY <1>7, <2>2, <2>3, <2>4
<1>11. Accumulator(acc) /\ acc.db = next /\ acc.queue = p
  BY DEF Accumulator
<1> HIDE DEF acc
<1>12. Ending(acc, catalog, MaxSteps)
  BY <1>3, <1>7, <1>8, <1>10, <1>11 DEF Ending
<1>13. QED
  BY <1>12 DEF acc, p

(* Then settling ends before the limit.                                    *)
LEMMA EndingSettles ==
  ASSUME NEW catalog, Mends(catalog), NEW acc, Settling(acc, catalog), Ending(acc, catalog, MaxSteps)
  PROVE  Settle(acc).queue = <<>>
<1>1. PICK g : /\ Turns(g, MaxSteps, QueueLoop, acc)
               /\ Settle(acc) = [g[MaxSteps] EXCEPT !.ok = @ /\ g[MaxSteps].queue = <<>>]
  BY SettleTurns
<1>2. MaxSteps \in Nat
  BY RelationsAssumption
<1>3. \A i \in 0..MaxSteps : g[i] = IF i = 0 THEN acc ELSE SettleOne(g[i - 1])
  <2>1. \A i, x : Turn(QueueLoop, x, i) = SettleOne(x)
    BY DEF Turn, QueueLoop
  <2>2. \A i \in 0..MaxSteps : g[i] = IF i = 0 THEN acc ELSE Turn(QueueLoop, g[i - 1], i)
    BY <1>1 DEF Turns
  <2>3. QED
    BY <2>1, <2>2
<1> DEFINE Left(i) == /\ Settling(g[i], catalog)
                      /\ g[i].queue = <<>> \/ Ending(g[i], catalog, MaxSteps - i)
           T == {i \in Nat : i =< MaxSteps => Left(i)}
<1>4. 0 \in T
  <2>1. g[0] = acc /\ MaxSteps - 0 = MaxSteps
    BY <1>2, <1>3
  <2>2. QED
    BY <2>1
<1>5. ASSUME NEW i \in T PROVE i + 1 \in T
  <2>1. SUFFICES ASSUME i + 1 =< MaxSteps PROVE Left(i + 1)
    OBVIOUS
  <2>2. Left(i) /\ g[i + 1] = SettleOne(g[i])
    BY <1>2, <1>3, <2>1
  <2>3. Settling(g[i + 1], catalog)
    BY <2>2, SettleOneSettles
  <2>4. CASE g[i].queue = <<>>
    <3>1. SettleOne(g[i]) = g[i]
      BY <2>4 DEF SettleOne
    <3>2. QED
      BY <2>2, <2>3, <2>4, <3>1
  <2>5. CASE g[i].queue # <<>>
    <3>1. g[i].ok = TRUE /\ Ending(g[i], catalog, MaxSteps - i) /\ MaxSteps - i \in Int
      <4>1. g[i].ok = TRUE
        BY <2>2 DEF Settling, Follower
      <4>2. Ending(g[i], catalog, MaxSteps - i)
        BY <2>2, <2>5
      <4>3. i \in Nat /\ MaxSteps - i \in Int
        BY <1>2
      <4>4. QED
        BY <4>1, <4>2, <4>3
    <3>2. Ending(SettleOne(g[i]), catalog, MaxSteps - i - 1)
      BY <2>5, <3>1, SettleOneEnds
    <3>3. MaxSteps - i - 1 = MaxSteps - (i + 1)
      BY <1>2
    <3>4. QED
      BY <2>2, <2>3, <3>2, <3>3
  <2>6. QED
    BY <2>4, <2>5
<1>6. T = Nat
  <2> HIDE DEF T
  <2>1. T \in SUBSET Nat
    BY DEF T
  <2>2. QED
    BY <1>4, <1>5, <2>1, Induction
<1> DEFINE end == g[MaxSteps]
<1>7. Settling(end, catalog) /\ (end.queue = <<>> \/ Ending(end, catalog, 0))
  <2>1. Left(MaxSteps) /\ MaxSteps - MaxSteps = 0
    BY <1>2, <1>6
  <2>2. QED
    BY <2>1
<1> HIDE DEF end, T
<1>8. Accumulator(end) /\ Formed(end.db) /\ \E S : end.queue \in Seq(S)
  BY <1>7 DEF Settling, Follower
<1>9. end.queue = <<>>
  <2>1. SUFFICES ASSUME Ending(end, catalog, 0) PROVE end.queue = <<>>
    BY <1>7
  <2>2. Cardinality(Refs(end.db)) + Len(end.queue) =< 0
    BY <2>1 DEF Ending
  <2>3. Cardinality(Refs(end.db)) \in Nat
    BY <1>8, RefsAreFinite, FS_CardinalityType
  <2>4. Len(end.queue) = 0
    <3>1. Len(end.queue) \in Nat
      BY <1>8
    <3>2. QED
      BY <2>2, <2>3, <3>1
  <2>5. QED
    BY <1>8, <2>4
<1>10. Settle(acc) = [end EXCEPT !.ok = @ /\ end.queue = <<>>]
  BY <1>1 DEF end
<1>11. QED
  BY <1>8, <1>9, <1>10 DEF Accumulator

(* Deleting rows that CASCADE and SET NULL references lead to ends after   *)
(* at most as many steps as there are rows in the table and references in  *)
(* the database.  If that is within the limit, no such DELETE is refused,  *)
(* whatever cycles the tables form, and it leaves every reference mended   *)
(* (apply_referential_actions).                                            *)
DeletionsAreMended ==
    AllMend =>
        \A t \in Tables :
            Cardinality(Refs(db)) + Cardinality(DOMAIN Rows(db, t)) =< MaxSteps =>
                \A next \in Deletions(t) :
                    LET end == Followed(t, next)
                    IN  /\ end.ok
                        /\ \A fk \in ForeignKeys : ForeignKeyHolds(end.db, fk)

(* No DELETE does, and none is refused for it.                             *)
THEOREM DeletionsMend == EngineSpec => []DeletionsAreMended
<1>1. EngineInv /\ WhatEndsIsMended => DeletionsAreMended
  <2> SUFFICES ASSUME EngineInv, WhatEndsIsMended, AllMend, NEW t \in Tables,
                      Cardinality(Refs(db)) + Cardinality(DOMAIN Rows(db, t)) =< MaxSteps,
                      NEW next \in Deletions(t)
               PROVE  /\ Followed(t, next).ok
                      /\ \A fk \in ForeignKeys : ForeignKeyHolds(Followed(t, next).db, fk)
    BY DEF DeletionsAreMended
  <2> DEFINE acc == [ok |-> TRUE, db |-> next, queue |-> ChangesOf(db, next, t)]
  <2>1. next \in Alterations(t)
    BY DEF Alterations
  <2>2. Settling(acc, db.catalog)
    BY <2>1, AlterationSettles
  <2>3. Ending(acc, db.catalog, MaxSteps)
    BY DeletionEnds
  <2>4. Mends(db.catalog)
    BY DEF AllMend, Mends
  <2>5. Followed(t, next) = Settle(acc)
    BY DEF Followed
  <2> HIDE DEF acc
  <2>6. Followed(t, next).queue = <<>>
    BY <2>2, <2>3, <2>4, <2>5, EndingSettles
  <2>7. QED
    BY <2>1, <2>6 DEF WhatEndsIsMended
<1>2. QED
  BY <1>1, EngineStaysWhole, CascadesMendWhatEnds, PTL
=============================================================================
