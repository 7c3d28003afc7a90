--------------------------- MODULE ProjectionProofs ---------------------------
(* Theorems about Projection: whatever plans were committed, the next      *)
(* replay goes through and gives the contract's state, a plan on the       *)
(* present state is accepted, and what is committed is read back.          *)
(*                                                                         *)
(* The argument, in the order of the sections below:                       *)
(*   - a plan consists of the operations that are needed to get from one   *)
(*     database to another (PlanIs), in some order;                        *)
(*   - contract and replay both work through it operation by operation,    *)
(*     and stay linked: a reader of the contract finds in a living row     *)
(*     what the replay has built up (Linked, OperationCarries);            *)
(*   - between two operations each row is either as before or as after     *)
(*     the plan, according to what was carried out so far, so that at the  *)
(*     end the contract shows the database planned for (Between, Shows);   *)
(*   - for being accepted the order does matter: the operations of a plan  *)
(*     lead from the rows that live before it to those after it (Leads);   *)
(*   - a database is rebuilt from what the contract shows (RebuildIs);     *)
(*   - statements keep a staged database plannable (Staged), because they  *)
(*     take identifiers from allocators that only grow;                    *)
(*   - together these keep ProjectionInvariant, of which the theorems are  *)
(*     consequences.                                                       *)
EXTENDS Projection, ApplyProofs, FiniteSetTheorems, SequenceTheorems

USE DEF PUT_CATALOG, DELETE_CATALOG, INSERT_ROW, SET_CELL, DELETE_CELL, DELETE_ROW,
    MARK_MIGRATION

(* What a sequence is made of.                                             *)
Among(x, s) == \E i \in 1..Len(s) : s[i] = x

LEMMA AmongBoth ==
  ASSUME NEW T, NEW s \in Seq(T), NEW t \in Seq(T)
  PROVE  s \o t \in Seq(T) /\ \A x : Among(x, s \o t) <=> Among(x, s) \/ Among(x, t)
<1>1. /\ Len(s) \in Nat /\ Len(t) \in Nat /\ Len(s \o t) = Len(s) + Len(t)
      /\ \A i \in 1..Len(s) : (s \o t)[i] = s[i]
      /\ \A i \in 1..Len(t) : (s \o t)[Len(s) + i] = t[i]
  OBVIOUS
<1>2. \A i \in 1..Len(s \o t) : i \in 1..Len(s) \/ \E j \in 1..Len(t) : i = Len(s) + j
  <2>1. TAKE i \in 1..Len(s \o t)
  <2>2. CASE i > Len(s)
    <3>1. i - Len(s) \in 1..Len(t) /\ i = Len(s) + (i - Len(s))
      BY <1>1, <2>2
    <3>2. QED
      BY <3>1
  <2>3. QED
    BY <1>1, <2>2
<1>3. /\ \A i \in 1..Len(s) : i \in 1..Len(s \o t)
      /\ \A i \in 1..Len(t) : Len(s) + i \in 1..Len(s \o t)
  BY <1>1
<1>4. s \o t \in Seq(T)
  OBVIOUS
<1>5. ASSUME NEW x PROVE Among(x, s \o t) <=> Among(x, s) \/ Among(x, t)
  <2>1. ASSUME Among(x, s \o t) PROVE Among(x, s) \/ Among(x, t)
    BY <1>1, <1>2, <2>1 DEF Among
  <2>2. ASSUME Among(x, s) PROVE Among(x, s \o t)
    BY <1>1, <1>3, <2>2 DEF Among
  <2>3. ASSUME Among(x, t) PROVE Among(x, s \o t)
    BY <1>1, <1>3, <2>3 DEF Among
  <2>4. QED
    BY <2>1, <2>2, <2>3
<1>6. QED
  BY <1>4, <1>5

LEMMA AmongSingle ==
  ASSUME NEW T, NEW y \in T
  PROVE  <<y>> \in Seq(T) /\ \A x : Among(x, <<y>>) <=> x = y
<1>1. <<y>> \in Seq(T) /\ Len(<<y>>) = 1 /\ <<y>>[1] = y
  OBVIOUS
<1>2. 1..1 = {1}
  OBVIOUS
<1>3. QED
  BY <1>1, <1>2 DEF Among

LEMMA AmongNone ==
  ASSUME NEW T
  PROVE  <<>> \in Seq(T) /\ \A x : ~ Among(x, <<>>)
<1>1. <<>> \in Seq(T) /\ Len(<<>>) = 0 /\ 1..0 = {}
  OBVIOUS
<1>2. QED
  BY <1>1 DEF Among

(* FlattenSeq puts sequences one behind the other.                         *)
Flattening(f, n, seqs) == f = [i \in 1..n |-> IF i = 1 THEN seqs[i] ELSE f[i - 1] \o seqs[i]]

LEMMA FlatteningExists ==
  ASSUME NEW n \in Nat, NEW seqs
  PROVE  \E f : Flattening(f, n, seqs)
<1> DEFINE T == {k \in Nat : \E f : Flattening(f, k, seqs)}
<1>1. 0 \in T
  <2> DEFINE f == [i \in 1..0 |-> {}]
  <2>1. Flattening(f, 0, seqs)
    BY DEF Flattening
  <2>2. QED
    BY <2>1
<1>2. ASSUME NEW k \in T PROVE k + 1 \in T
  <2>1. PICK f : Flattening(f, k, seqs)
    OBVIOUS
  <2> DEFINE last == IF k + 1 = 1 THEN seqs[k + 1] ELSE f[k] \o seqs[k + 1]
             h == [i \in 1..k + 1 |-> IF i = k + 1 THEN last ELSE f[i]]
             body(i) == IF i = 1 THEN seqs[i] ELSE h[i - 1] \o seqs[i]
  <2>2. ASSUME NEW i \in 1..k + 1 PROVE h[i] = body(i)
    <3>1. CASE i = k + 1
      <4>1. k # 0 => k \in 1..k + 1 /\ k # k + 1 /\ (k + 1) - 1 = k
        OBVIOUS
      <4>2. k # 0 => h[k] = f[k]
        BY <4>1
      <4>3. h[k + 1] = last
        OBVIOUS
      <4> HIDE DEF h
      <4>4. QED
        BY <3>1, <4>1, <4>2, <4>3
    <3>2. CASE i # k + 1
      <4>1. i \in 1..k /\ h[i] = f[i]
        BY <3>2
      <4>2. i # 1 => i - 1 \in 1..k + 1 /\ i - 1 # k + 1 /\ h[i - 1] = f[i - 1]
        BY <4>1
      <4>3. f[i] = IF i = 1 THEN seqs[i] ELSE f[i - 1] \o seqs[i]
        BY <2>1, <4>1 DEF Flattening
      <4> HIDE DEF h
      <4>4. QED
        BY <4>1, <4>2, <4>3
    <3>3. QED
      BY <3>1, <3>2
  <2>3. h = [i \in 1..k + 1 |-> h[i]]
    OBVIOUS
  <2>4. [i \in 1..k + 1 |-> h[i]] = [i \in 1..k + 1 |-> body(i)]
    <3> HIDE DEF h
    <3>1. QED
      BY <2>2
  <2>5. Flattening(h, k + 1, seqs)
    <3> HIDE DEF h
    <3>1. QED
      BY <2>3, <2>4 DEF Flattening
  <2>6. QED
    BY <2>5
<1>3. T = Nat
  <2> HIDE DEF T
  <2>1. T \in SUBSET Nat
    BY DEF T
  <2>2. QED
    BY <1>1, <1>2, <2>1, Induction
<1>4. QED
  BY <1>3

Stepwise(f, n, seqs) ==
    /\ FlattenSeq(seqs) = f[n] /\ f[1] = seqs[1]
    /\ \A i \in 1..n : i # 1 => f[i] = f[i - 1] \o seqs[i]

LEMMA FlattenedStepwise ==
  ASSUME NEW n \in Nat \ {0}, NEW seqs, Len(seqs) = n
  PROVE  \E f : Stepwise(f, n, seqs)
<1> DEFINE flatten == CHOOSE f : Flattening(f, n, seqs)
<1>1. FlattenSeq(seqs) = flatten[n]
  BY DEF FlattenSeq, Flattening
<1>2. Flattening(flatten, n, seqs)
  BY FlatteningExists
<1> HIDE DEF flatten
<1>3. \A i \in 1..n : flatten[i] = IF i = 1 THEN seqs[i] ELSE flatten[i - 1] \o seqs[i]
  BY <1>2 DEF Flattening
<1>4. flatten[1] = seqs[1]
  BY <1>3
<1>5. ASSUME NEW i \in 1..n, i # 1 PROVE flatten[i] = flatten[i - 1] \o seqs[i]
  BY <1>3, <1>5
<1>6. QED
  BY <1>1, <1>4, <1>5 DEF Stepwise

LEMMA Flattened ==
  ASSUME NEW T, NEW n \in Nat, NEW seqs \in [1..n -> Seq(T)]
  PROVE  /\ FlattenSeq(seqs) \in Seq(T)
         /\ \A x : Among(x, FlattenSeq(seqs)) <=> \E i \in 1..n : Among(x, seqs[i])
<1>0. Len(seqs) = n
  OBVIOUS
<1>1. CASE n = 0
  <2>1. FlattenSeq(seqs) = seqs
    BY <1>0, <1>1 DEF FlattenSeq
  <2>2. seqs \in Seq(T) /\ 1..n = {}
    BY <1>1, SeqDef
  <2>3. QED
    BY <1>0, <2>1, <2>2 DEF Among
<1>2. CASE n # 0
  <2>1. PICK flatten : Stepwise(flatten, n, seqs)
    BY <1>0, <1>2, FlattenedStepwise
  <2>2. FlattenSeq(seqs) = flatten[n] /\ flatten[1] = seqs[1]
    BY <2>1 DEF Stepwise
  <2>3. \A i \in 1..n : i # 1 => flatten[i] = flatten[i - 1] \o seqs[i]
    BY <2>1 DEF Stepwise
  <2> DEFINE Upto(k) ==
                /\ flatten[k] \in Seq(T)
                /\ \A x : Among(x, flatten[k]) <=> \E i \in 1..k : Among(x, seqs[i])
             K == {k \in Nat : k + 1 =< n => Upto(k + 1)}
  <2>4. 0 \in K
    <3>1. flatten[1] = seqs[1] /\ seqs[1] \in Seq(T) /\ 1..1 = {1}
      BY <1>2, <2>2
    <3>2. Upto(1)
      BY <3>1
    <3>3. QED
      BY <3>2
  <2>5. ASSUME NEW k \in K PROVE k + 1 \in K
    <3>1. SUFFICES ASSUME (k + 1) + 1 =< n PROVE Upto((k + 1) + 1)
      OBVIOUS
    <3> DEFINE j == k + 1
    <3> HIDE DEF Upto
    <3>2. Upto(j) /\ j \in Nat /\ j + 1 \in 1..n /\ j + 1 # 1 /\ (j + 1) - 1 = j
      BY <3>1
    <3> HIDE DEF j
    <3>3. flatten[j + 1] = flatten[j] \o seqs[j + 1] /\ seqs[j + 1] \in Seq(T)
      BY <2>3, <3>2
    <3>4. flatten[j] \in Seq(T)
      BY <3>2 DEF Upto
    <3>5. /\ flatten[j + 1] \in Seq(T)
          /\ \A x : Among(x, flatten[j + 1]) <=> Among(x, flatten[j]) \/ Among(x, seqs[j + 1])
      BY <3>3, <3>4, AmongBoth
    <3>6. \A i : i \in 1..j + 1 <=> i \in 1..j \/ i = j + 1
      BY <3>2
    <3>7. ASSUME NEW x
          PROVE  (\E i \in 1..j + 1 : Among(x, seqs[i]))
                    <=> (\E i \in 1..j : Among(x, seqs[i])) \/ Among(x, seqs[j + 1])
      BY <3>6
    <3>8. \A x : Among(x, flatten[j]) <=> \E i \in 1..j : Among(x, seqs[i])
      BY <3>2 DEF Upto
    <3>9. Upto(j + 1)
      BY <3>5, <3>7, <3>8 DEF Upto
    <3>10. QED
      BY <3>9 DEF j
  <2>6. K = Nat
    <3>1. K \in SUBSET Nat
      OBVIOUS
    <3> HIDE DEF K
    <3>2. QED
      BY <2>4, <2>5, <3>1, Induction
  <2>7. n - 1 \in K /\ (n - 1) + 1 = n
    <3> HIDE DEF K
    <3>1. QED
      BY <1>2, <2>6
  <2>8. Upto(n)
    <3> HIDE DEF Upto
    <3>1. QED
      BY <2>7
  <2>9. QED
    BY <2>2, <2>8
<1>3. QED
  BY <1>1, <1>2

(* A finite set as a sequence has every element of the set.                *)
LEMMA AllListed ==
  ASSUME NEW S, IsFiniteSet(S)
  PROVE  /\ Cardinality(S) \in Nat
         /\ SetToSeq(S) \in [1..Cardinality(S) -> S]
         /\ \A e \in S : \E i \in 1..Cardinality(S) : SetToSeq(S)[i] = e
         /\ \A i, j \in 1..Cardinality(S) : SetToSeq(S)[i] = SetToSeq(S)[j] => i = j
<1> DEFINE n == Cardinality(S)
           s == SetToSeq(S)
<1>1. n \in Nat /\ ExistsBijection(1..n, S)
  BY FS_CardinalityType
<1>2. \E f \in [1..n -> S] : IsInjective(f)
  BY <1>1 DEF ExistsBijection, Bijection, Injection
<1>3. s \in [1..n -> S] /\ IsInjective(s)
  BY <1>2 DEF SetToSeq
<1> HIDE DEF s
<1>4. s \in Injection(1..n, S)
  BY <1>3 DEF Injection
<1>5. IsFiniteSet(1..n) /\ Cardinality(1..n) = n
  BY <1>1, FS_Interval
<1>6. s \in Surjection(1..n, S)
  BY <1>4, <1>5, FS_Injection
<1>7. \A e \in S : \E i \in 1..n : s[i] = e
  BY <1>6 DEF Surjection
<1>8. \A i, j \in 1..n : s[i] = s[j] => i = j
  BY <1>3 DEF IsInjective
<1>9. QED
  BY <1>1, <1>3, <1>7, <1>8 DEF s

(* Each, for the sequences F gives for the members of S.                   *)
Listed(F, S) == FlattenSeq([i \in 1..Cardinality(S) |-> F[SetToSeq(S)[i]]])

LEMMA AmongEach ==
  ASSUME NEW S, IsFiniteSet(S), NEW T, NEW F \in [S -> Seq(T)]
  PROVE  /\ Listed(F, S) \in Seq(T)
         /\ \A x : Among(x, Listed(F, S)) <=> \E e \in S : Among(x, F[e])
<1> DEFINE n == Cardinality(S)
           s == SetToSeq(S)
           seqs == [i \in 1..n |-> F[s[i]]]
<1>1. n \in Nat /\ s \in [1..n -> S] /\ \A e \in S : \E i \in 1..n : s[i] = e
  BY AllListed
<1> HIDE DEF n, s
<1>2. seqs \in [1..n -> Seq(T)] /\ \A i \in 1..n : seqs[i] = F[s[i]]
  BY <1>1
<1> HIDE DEF seqs
<1>3. /\ FlattenSeq(seqs) \in Seq(T)
      /\ \A x : Among(x, FlattenSeq(seqs)) <=> \E i \in 1..n : Among(x, seqs[i])
  BY <1>1, <1>2, Flattened
<1>4. ASSUME NEW x
      PROVE  (\E i \in 1..n : Among(x, seqs[i])) <=> \E e \in S : Among(x, F[e])
  BY <1>1, <1>2
<1>5. Listed(F, S) = FlattenSeq(seqs)
  BY DEF Listed, seqs, n, s
<1>6. QED
  BY <1>3, <1>4, <1>5
----------------------------------------------------------------------------
(* What a plan is for: the operations it consists of, in whatever order    *)
(* (plan of projection.rs).                                                *)
OperationOf(kind, table, row, column, data) ==
    [kind |-> kind, table |-> table, row |-> row, column |-> column, data |-> data]

ColumnsOf(db, row) == DOMAIN db.tables[row[1]].columns
Target(db, row, c) == encode(db.tables[row[1]].columns[c], ValueIn(db, row, c))

CatalogWrite(db) == OperationOf(PUT_CATALOG, ZeroKey, ZeroKey, CATALOG_KEY, metadata(db))
Deletion(row) == OperationOf(DELETE_ROW, row[1], row[2], ZeroKey, EmptyData)
Insertion(row) == OperationOf(INSERT_ROW, row[1], row[2], ZeroKey, EmptyData)
Setting(db, row, c) == OperationOf(SET_CELL, row[1], row[2], c, Target(db, row, c))
Mark(v) == OperationOf(MARK_MIGRATION, ZeroKey, ZeroKey, v, v)

Differs(before, after, row, c) == Previous(before, after, row, c) # ValueIn(after, row, c)

WritesCatalog(before, after, op) == metadata(before) # metadata(after) /\ op = CatalogWrite(after)
DeletesRow(before, after, op) == \E row \in RowsOf(before) \ RowsOf(after) : op = Deletion(row)
InsertsRow(before, after, op) == \E row \in RowsOf(after) \ RowsOf(before) : op = Insertion(row)
SetsCell(before, after, op) ==
    \E row \in RowsOf(after) : \E c \in ColumnsOf(after, row) :
        Differs(before, after, row, c) /\ op = Setting(after, row, c)
MarksMigration(before, after, op) ==
    \E v \in after.migrations \ before.migrations : op = Mark(v)

Needed(before, after, op) ==
    \/ WritesCatalog(before, after, op)
    \/ DeletesRow(before, after, op)
    \/ InsertsRow(before, after, op)
    \/ SetsCell(before, after, op)
    \/ MarksMigration(before, after, op)

Writable(after) ==
    /\ \A row \in RowsOf(after) : ColumnsOf(after, row) \subseteq Column
    /\ \A row \in RowsOf(after) : IsFiniteSet(ColumnsOf(after, row))

Possible(before, after) ==
    {CatalogWrite(after)}
    \cup {Deletion(row) : row \in Row} \cup {Insertion(row) : row \in Row}
    \cup {Setting(after, place[1], place[2]) : place \in Row \X Column}
    \cup {Mark(v) : v \in after.migrations}

LEMMA PossibleHas ==
  ASSUME NEW before, NEW after
  PROVE  /\ CatalogWrite(after) \in Possible(before, after)
         /\ \A row \in Row : Deletion(row) \in Possible(before, after)
         /\ \A row \in Row : Insertion(row) \in Possible(before, after)
         /\ \A row \in Row, c \in Column : Setting(after, row, c) \in Possible(before, after)
         /\ \A v \in after.migrations : Mark(v) \in Possible(before, after)
<1>1. ASSUME NEW row \in Row, NEW c \in Column
      PROVE  Setting(after, row, c) \in Possible(before, after)
  <2>1. <<row, c>> \in Row \X Column /\ <<row, c>>[1] = row /\ <<row, c>>[2] = c
    OBVIOUS
  <2>2. Setting(after, <<row, c>>[1], <<row, c>>[2])
            \in {Setting(after, place[1], place[2]) : place \in Row \X Column}
    BY <2>1
  <2>3. QED
    BY <2>1, <2>2 DEF Possible
<1>2. QED
  BY <1>1 DEF Possible

LEMMA FiniteRows == IsFiniteSet(Row) /\ \A db : RowsOf(db) \subseteq Row /\ IsFiniteSet(RowsOf(db))
<1>1. IsFiniteSet(Table) /\ IsFiniteSet(RowId)
  BY FS_Interval, ProjectionAssumption DEF ObjectId
<1>2. IsFiniteSet(Row)
  BY <1>1, FS_Product DEF Row
<1>3. ASSUME NEW db PROVE RowsOf(db) \subseteq Row /\ IsFiniteSet(RowsOf(db))
  <2>1. RowsOf(db) \in SUBSET Row
    BY DEF RowsOf
  <2>2. QED
    BY <1>2, <2>1, FS_Subset
<1>4. QED
  BY <1>2, <1>3

(* The parts of a plan, as what is done for the members of a set.          *)
DeletionsBy(before, after) == [row \in RowsOf(before) \ RowsOf(after) |-> <<Deletion(row)>>]
MarksBy(before, after) == [v \in after.migrations \ before.migrations |-> <<Mark(v)>>]
CellsBy(before, after, row) ==
    [c \in ColumnsOf(after, row) |-> CellOperations(before, after, row, c)]
RowsBy(before, after) == [row \in RowsOf(after) |-> RowOperations(before, after, row)]

CellsOfRow(before, after, row) ==
    Each(ColumnsOf(after, row), LAMBDA c : CellOperations(before, after, row, c))
Rows(before, after) == Each(RowsOf(after), LAMBDA row : RowOperations(before, after, row))

LEMMA DeletionsListed ==
  ASSUME NEW before, NEW after
  PROVE  Deletions(before, after)
            = Listed(DeletionsBy(before, after), RowsOf(before) \ RowsOf(after))
<1> DEFINE S == RowsOf(before) \ RowsOf(after)
           F == DeletionsBy(before, after)
<1>1. IsFiniteSet(S)
  <2>1. S \in SUBSET RowsOf(before) /\ IsFiniteSet(RowsOf(before))
    BY FiniteRows
  <2>2. QED
    BY <2>1, FS_Subset
<1>2. Deletions(before, after)
        = FlattenSeq([i \in 1..Cardinality(S) |-> <<Deletion(SetToSeq(S)[i])>>])
  BY DEF Deletions, Each, Operations, Deletion, OperationOf
<1>3. \A row \in S : F[row] = <<Deletion(row)>>
  BY DEF DeletionsBy
<1> HIDE DEF S, F
<1>4. \A i \in 1..Cardinality(S) : SetToSeq(S)[i] \in S
  BY <1>1, AllListed
<1>5. [i \in 1..Cardinality(S) |-> <<Deletion(SetToSeq(S)[i])>>]
        = [i \in 1..Cardinality(S) |-> F[SetToSeq(S)[i]]]
  BY <1>3, <1>4
<1>6. QED
  BY <1>2, <1>5 DEF Listed, S, F

LEMMA MarksListed ==
  ASSUME NEW before, NEW after, IsFiniteSet(after.migrations \ before.migrations)
  PROVE  Marks(before, after)
            = Listed(MarksBy(before, after), after.migrations \ before.migrations)
<1> DEFINE S == after.migrations \ before.migrations
           F == MarksBy(before, after)
<1>1. IsFiniteSet(S)
  OBVIOUS
<1>2. Marks(before, after) = FlattenSeq([i \in 1..Cardinality(S) |-> <<Mark(SetToSeq(S)[i])>>])
  BY DEF Marks, Each, Operations, Mark, OperationOf
<1>3. \A v \in S : F[v] = <<Mark(v)>>
  BY DEF MarksBy
<1> HIDE DEF S, F
<1>4. \A i \in 1..Cardinality(S) : SetToSeq(S)[i] \in S
  BY <1>1, AllListed
<1>5. [i \in 1..Cardinality(S) |-> <<Mark(SetToSeq(S)[i])>>]
        = [i \in 1..Cardinality(S) |-> F[SetToSeq(S)[i]]]
  BY <1>3, <1>4
<1>6. QED
  BY <1>2, <1>5 DEF Listed, S, F

LEMMA CellsListed ==
  ASSUME NEW before, NEW after, NEW row, IsFiniteSet(ColumnsOf(after, row))
  PROVE  CellsOfRow(before, after, row)
            = Listed(CellsBy(before, after, row), ColumnsOf(after, row))
<1> DEFINE S == ColumnsOf(after, row)
           F == CellsBy(before, after, row)
<1>1. CellsOfRow(before, after, row)
        = FlattenSeq([i \in 1..Cardinality(S) |-> CellOperations(before, after, row, SetToSeq(S)[i])])
  BY DEF CellsOfRow, Each
<1>2. \A c \in S : F[c] = CellOperations(before, after, row, c)
  BY DEF CellsBy
<1>3. IsFiniteSet(S)
  OBVIOUS
<1> HIDE DEF S, F
<1>4. \A i \in 1..Cardinality(S) : SetToSeq(S)[i] \in S
  BY <1>3, AllListed
<1>5. [i \in 1..Cardinality(S) |-> CellOperations(before, after, row, SetToSeq(S)[i])]
        = [i \in 1..Cardinality(S) |-> F[SetToSeq(S)[i]]]
  BY <1>2, <1>4
<1>6. QED
  BY <1>1, <1>5 DEF Listed, S, F

LEMMA RowsListed ==
  ASSUME NEW before, NEW after
  PROVE  Rows(before, after) = Listed(RowsBy(before, after), RowsOf(after))
<1> DEFINE S == RowsOf(after)
           F == RowsBy(before, after)
<1>1. Rows(before, after)
        = FlattenSeq([i \in 1..Cardinality(S) |-> RowOperations(before, after, SetToSeq(S)[i])])
  BY DEF Rows, Each
<1>2. \A row \in S : F[row] = RowOperations(before, after, row)
  BY DEF RowsBy
<1>3. IsFiniteSet(S)
  BY FiniteRows
<1> HIDE DEF S, F
<1>4. \A i \in 1..Cardinality(S) : SetToSeq(S)[i] \in S
  BY <1>3, AllListed
<1>5. [i \in 1..Cardinality(S) |-> RowOperations(before, after, SetToSeq(S)[i])]
        = [i \in 1..Cardinality(S) |-> F[SetToSeq(S)[i]]]
  BY <1>2, <1>4
<1>6. QED
  BY <1>1, <1>5 DEF Listed, S, F

(* Deletions and marks: one operation for each member of a set.            *)
LEMMA DeletionsAre ==
  ASSUME NEW before, NEW after
  PROVE  /\ Deletions(before, after) \in Seq(Possible(before, after))
         /\ \A op : Among(op, Deletions(before, after)) <=> DeletesRow(before, after, op)
<1> DEFINE S == RowsOf(before) \ RowsOf(after)
           P == Possible(before, after)
           F == [row \in S |-> <<Deletion(row)>>]
<1>1. IsFiniteSet(S) /\ S \subseteq Row
  <2>1. S \in SUBSET RowsOf(before) /\ IsFiniteSet(RowsOf(before)) /\ RowsOf(before) \subseteq Row
    BY FiniteRows
  <2>2. QED
    BY <2>1, FS_Subset
<1>2. Deletions(before, after) = Listed(F, S)
  BY DeletionsListed DEF DeletionsBy
<1> HIDE DEF S
<1>3. \A row \in S : Deletion(row) \in P
  BY <1>1, PossibleHas
<1> HIDE DEF P
<1>4. /\ F \in [S -> Seq(P)]
      /\ \A row \in S : \A op : Among(op, F[row]) <=> op = Deletion(row)
  <2>1. \A row \in S : /\ <<Deletion(row)>> \in Seq(P)
                       /\ \A op : Among(op, <<Deletion(row)>>) <=> op = Deletion(row)
    BY <1>3, AmongSingle
  <2>2. QED
    BY <2>1
<1> HIDE DEF F
<1>5. /\ Listed(F, S) \in Seq(P)
      /\ \A op : Among(op, Listed(F, S)) <=> \E row \in S : Among(op, F[row])
  BY <1>1, <1>4, AmongEach
<1>6. QED
  BY <1>2, <1>4, <1>5 DEF DeletesRow, P, S

LEMMA MarksAre ==
  ASSUME NEW before, NEW after, IsFiniteSet(after.migrations \ before.migrations)
  PROVE  /\ Marks(before, after) \in Seq(Possible(before, after))
         /\ \A op : Among(op, Marks(before, after)) <=> MarksMigration(before, after, op)
<1> DEFINE S == after.migrations \ before.migrations
           P == Possible(before, after)
           F == [v \in S |-> <<Mark(v)>>]
<1>2. Marks(before, after) = Listed(F, S)
  BY MarksListed DEF MarksBy
<1>3. \A v \in S : Mark(v) \in P
  BY PossibleHas
<1> HIDE DEF P
<1>4. /\ F \in [S -> Seq(P)]
      /\ \A v \in S : \A op : Among(op, F[v]) <=> op = Mark(v)
  <2> HIDE DEF S
  <2>1. \A v \in S : /\ <<Mark(v)>> \in Seq(P)
                     /\ \A op : Among(op, <<Mark(v)>>) <=> op = Mark(v)
    BY <1>3, AmongSingle
  <2>2. QED
    BY <2>1
<1> HIDE DEF F
<1>5. /\ Listed(F, S) \in Seq(P)
      /\ \A op : Among(op, Listed(F, S)) <=> \E v \in S : Among(op, F[v])
  <2>1. IsFiniteSet(S)
    OBVIOUS
  <2> HIDE DEF S
  <2>2. QED
    BY <1>4, <2>1, AmongEach
<1>6. QED
  BY <1>2, <1>4, <1>5 DEF MarksMigration, P

(* The cells of one row: those that differ.                                *)
LEMMA CellsAre ==
  ASSUME NEW before, NEW after, Writable(after), NEW row \in RowsOf(after)
  PROVE  /\ CellsOfRow(before, after, row) \in Seq(Possible(before, after))
         /\ \A op : Among(op, CellsOfRow(before, after, row))
                       <=> \E c \in ColumnsOf(after, row) :
                              Differs(before, after, row, c) /\ op = Setting(after, row, c)
<1> DEFINE S == ColumnsOf(after, row)
           P == Possible(before, after)
           F == [c \in S |-> CellOperations(before, after, row, c)]
           D(c) == Differs(before, after, row, c)
           O(c) == Setting(after, row, c)
           E == CellsOfRow(before, after, row)
<1>1. IsFiniteSet(S) /\ S \subseteq Column /\ row \in Row
  BY FiniteRows DEF Writable
<1>2. \A c : CellOperations(before, after, row, c) = IF D(c) THEN <<O(c)>> ELSE <<>>
  BY DEF CellOperations, Operations, Setting, OperationOf, Target, Differs
<1>3. \A c \in S : O(c) \in P
  BY <1>1, PossibleHas
<1>4. E = Listed(F, S)
  BY <1>1, CellsListed DEF CellsBy
<1> HIDE DEF P, D, O, E, S
<1>5. ASSUME NEW c \in S
      PROVE  /\ CellOperations(before, after, row, c) \in Seq(P)
             /\ \A op : Among(op, CellOperations(before, after, row, c)) <=> D(c) /\ op = O(c)
  <2>1. <<O(c)>> \in Seq(P) /\ \A op : Among(op, <<O(c)>>) <=> op = O(c)
    BY <1>3, AmongSingle
  <2>2. <<>> \in Seq(P) /\ \A op : ~ Among(op, <<>>)
    BY AmongNone
  <2>3. CellOperations(before, after, row, c) = IF D(c) THEN <<O(c)>> ELSE <<>>
    BY <1>2
  <2>4. QED
    BY <2>1, <2>2, <2>3
<1>6. /\ F \in [S -> Seq(P)]
      /\ \A c \in S : \A op : Among(op, F[c]) <=> D(c) /\ op = O(c)
  BY <1>5
<1> HIDE DEF F
<1>7. /\ Listed(F, S) \in Seq(P)
      /\ \A op : Among(op, Listed(F, S)) <=> \E c \in S : Among(op, F[c])
  BY <1>1, <1>6, AmongEach
<1>8. E \in Seq(P) /\ \A op : Among(op, E) <=> \E c \in S : D(c) /\ op = O(c)
  BY <1>4, <1>6, <1>7
<1>9. QED
  BY <1>8 DEF E, P, D, O, S

(* One row: its insertion, if it is new, and its cells.                    *)
ForRow(before, after, row, op) ==
    \/ row \notin RowsOf(before) /\ op = Insertion(row)
    \/ \E c \in ColumnsOf(after, row) :
          Differs(before, after, row, c) /\ op = Setting(after, row, c)

LEMMA RowIs ==
  ASSUME NEW before, NEW after, Writable(after), NEW row \in RowsOf(after)
  PROVE  /\ RowOperations(before, after, row) \in Seq(Possible(before, after))
         /\ \A op : Among(op, RowOperations(before, after, row)) <=> ForRow(before, after, row, op)
<1> DEFINE P == Possible(before, after)
           head == IF row \in RowsOf(before) THEN <<>> ELSE <<Insertion(row)>>
           E == CellsOfRow(before, after, row)
<1>1. RowOperations(before, after, row) = head \o E
  BY DEF RowOperations, Operations, Insertion, OperationOf, ColumnsOf, CellsOfRow
<1>2. /\ E \in Seq(P)
      /\ \A op : Among(op, E)
            <=> \E c \in ColumnsOf(after, row) :
                   Differs(before, after, row, c) /\ op = Setting(after, row, c)
  BY CellsAre
<1>3. Insertion(row) \in P
  BY FiniteRows, PossibleHas
<1> HIDE DEF P, E
<1>4. /\ head \in Seq(P)
      /\ \A op : Among(op, head) <=> row \notin RowsOf(before) /\ op = Insertion(row)
  <2>1. /\ <<Insertion(row)>> \in Seq(P)
        /\ \A op : Among(op, <<Insertion(row)>>) <=> op = Insertion(row)
    BY <1>3, AmongSingle
  <2>2. <<>> \in Seq(P) /\ \A op : ~ Among(op, <<>>)
    BY AmongNone
  <2>3. QED
    BY <2>1, <2>2
<1> HIDE DEF head
<1>5. head \o E \in Seq(P) /\ \A op : Among(op, head \o E) <=> Among(op, head) \/ Among(op, E)
  BY <1>2, <1>4, AmongBoth
<1>6. QED
  BY <1>1, <1>2, <1>4, <1>5 DEF ForRow, P

(* A plan consists of the operations that are needed, and of no others.    *)
LEMMA PlanIs ==
  ASSUME NEW before, NEW after, Writable(after), IsFiniteSet(after.migrations \ before.migrations)
  PROVE  /\ plan(before, after) \in Seq(Possible(before, after))
         /\ \A op : Among(op, plan(before, after)) <=> Needed(before, after, op)
<1> DEFINE P == Possible(before, after)
           R == RowsOf(after)
           F == [row \in R |-> RowOperations(before, after, row)]
           head == IF metadata(before) = metadata(after) THEN <<>> ELSE <<CatalogWrite(after)>>
           rows == Rows(before, after)
           deletions == Deletions(before, after)
           marks == Marks(before, after)
<1>1. plan(before, after) = head \o deletions \o rows \o marks
  BY DEF plan, Operations, CatalogWrite, OperationOf, Rows
<1>2. /\ head \in Seq(P)
      /\ \A op : Among(op, head) <=> WritesCatalog(before, after, op)
  <2>1. CatalogWrite(after) \in P
    BY PossibleHas
  <2> HIDE DEF P
  <2>2. /\ <<CatalogWrite(after)>> \in Seq(P)
        /\ \A op : Among(op, <<CatalogWrite(after)>>) <=> op = CatalogWrite(after)
    BY <2>1, AmongSingle
  <2>3. <<>> \in Seq(P) /\ \A op : ~ Among(op, <<>>)
    BY AmongNone
  <2>4. QED
    BY <2>2, <2>3 DEF WritesCatalog
<1>3. deletions \in Seq(P) /\ \A op : Among(op, deletions) <=> DeletesRow(before, after, op)
  BY DeletionsAre
<1>4. marks \in Seq(P) /\ \A op : Among(op, marks) <=> MarksMigration(before, after, op)
  BY MarksAre
<1>5. IsFiniteSet(R) /\ R \subseteq Row
  BY FiniteRows
<1>6. rows = Listed(F, R)
  BY RowsListed DEF RowsBy
<1>7. /\ F \in [R -> Seq(P)]
      /\ \A row \in R : \A op : Among(op, F[row]) <=> ForRow(before, after, row, op)
  <2>1. \A row \in R : /\ RowOperations(before, after, row) \in Seq(P)
                       /\ \A op : Among(op, RowOperations(before, after, row))
                                     <=> ForRow(before, after, row, op)
    BY RowIs
  <2> HIDE DEF P, R
  <2>2. QED
    BY <2>1
<1> HIDE DEF P, F, head, rows, deletions, marks
<1>8. /\ rows \in Seq(P)
      /\ \A op : Among(op, rows) <=> \E row \in R : ForRow(before, after, row, op)
  <2> HIDE DEF R
  <2>1. /\ Listed(F, R) \in Seq(P)
        /\ \A op : Among(op, Listed(F, R)) <=> \E row \in R : Among(op, F[row])
    BY <1>5, <1>7, AmongEach
  <2>2. QED
    BY <1>6, <1>7, <2>1
<1>9. ASSUME NEW op
      PROVE  (\E row \in R : ForRow(before, after, row, op))
                <=> InsertsRow(before, after, op) \/ SetsCell(before, after, op)
  BY DEF ForRow, InsertsRow, SetsCell
<1>10. /\ head \o deletions \in Seq(P)
       /\ \A op : Among(op, head \o deletions) <=> Among(op, head) \/ Among(op, deletions)
  BY <1>2, <1>3, AmongBoth
<1> DEFINE two == head \o deletions
<1> HIDE DEF two
<1>11. /\ two \o rows \in Seq(P)
       /\ \A op : Among(op, two \o rows) <=> Among(op, two) \/ Among(op, rows)
  BY <1>8, <1>10, AmongBoth DEF two
<1> DEFINE three == two \o rows
<1> HIDE DEF three
<1>12. /\ three \o marks \in Seq(P)
       /\ \A op : Among(op, three \o marks) <=> Among(op, three) \/ Among(op, marks)
  BY <1>4, <1>11, AmongBoth DEF three
<1>13. plan(before, after) = three \o marks
  BY <1>1 DEF two, three
<1>14. ASSUME NEW op PROVE Among(op, plan(before, after)) <=> Needed(before, after, op)
  <2>1. Among(op, two) <=> WritesCatalog(before, after, op) \/ DeletesRow(before, after, op)
    BY <1>2, <1>3, <1>10 DEF two
  <2>2. Among(op, rows) <=> InsertsRow(before, after, op) \/ SetsCell(before, after, op)
    BY <1>8, <1>9
  <2>3. Among(op, three) <=> Among(op, two) \/ Among(op, rows)
    BY <1>11 DEF three
  <2>4. QED
    BY <1>4, <1>12, <1>13, <2>1, <2>2, <2>3 DEF Needed
<1>15. QED
  BY <1>12, <1>13, <1>14 DEF P
----------------------------------------------------------------------------
(* The replay, one event at a time.                                        *)
ReplayStart ==
    [ok |-> TRUE, meta |-> metadata(EmptyDatabase), rows |-> <<>>,
     allocators |-> [t \in Table |-> 1]]

Reading(g, D, events) ==
    g = [s \in SUBSET D |->
            IF s = {} THEN ReplayStart ELSE Replay(g[Earlier(s)], events[Max(s)])]

ReplayLoop(events) == CHOOSE g : Reading(g, DOMAIN events, events)

(* What the replay has come to after k events.                             *)
Prefix(events, k) == ReplayLoop(events)[1..k]

LEMMA ReadingExists ==
  ASSUME NEW events, NEW n \in Nat
  PROVE  \E g : Reading(g, 1..n, events)
<1> DEFINE T == {k \in Nat : \E g : Reading(g, 1..k, events)}
<1>1. 0 \in T
  <2> DEFINE g == [s \in {{}} |-> ReplayStart]
  <2>1. SUBSET (1..0) = {{}}
    OBVIOUS
  <2>2. Reading(g, 1..0, events)
    BY <2>1 DEF Reading, Earlier
  <2>3. QED
    BY <2>2
<1>2. ASSUME NEW k \in T PROVE k + 1 \in T
  <2>1. PICK g : Reading(g, 1..k, events)
    OBVIOUS
  <2> DEFINE h == [s \in SUBSET (1..k + 1) |->
                      IF k + 1 \in s THEN Replay(g[s \ {k + 1}], events[k + 1]) ELSE g[s]]
             body(s) == IF s = {} THEN ReplayStart
                        ELSE Replay(h[s \ {Max(s)}], events[Max(s)])
  <2>2. ASSUME NEW s \in SUBSET (1..k + 1) PROVE h[s] = body(s)
    <3>1. CASE k + 1 \in s
      <4>1. Max(s) = k + 1
        <5>1. k + 1 \in Nat /\ s # {}
          BY <3>1
        <5>2. Max(s) \in s /\ k + 1 =< Max(s)
          BY <3>1, <5>1, Maximum
        <5>3. Max(s) \in 1..k + 1 /\ k \in Nat
          BY <5>2
        <5> QED
          BY <5>2, <5>3
      <4>2. s \ {k + 1} \in SUBSET (1..k)
        OBVIOUS
      <4>3. h[s \ {k + 1}] = g[s \ {k + 1}]
        BY <4>2
      <4>4. h[s] = Replay(g[s \ {k + 1}], events[k + 1])
        BY <3>1
      <4> HIDE DEF h
      <4>5. QED
        BY <3>1, <4>1, <4>3, <4>4
    <3>2. CASE k + 1 \notin s
      <4>1. s \in SUBSET (1..k)
        BY <3>2
      <4>2. h[s] = g[s]
        BY <3>2
      <4>3. CASE s = {}
        <5>1. g[s] = ReplayStart
          BY <2>1, <4>1, <4>3 DEF Reading, Earlier
        <5>2. QED
          BY <4>2, <4>3, <5>1
      <4>4. CASE s # {}
        <5>1. g[s] = Replay(g[s \ {Max(s)}], events[Max(s)])
          BY <2>1, <4>1, <4>4 DEF Reading, Earlier
        <5>2. h[s \ {Max(s)}] = g[s \ {Max(s)}]
          BY <3>2
        <5> HIDE DEF h
        <5>3. QED
          BY <4>2, <4>4, <5>1, <5>2
      <4>5. QED
        BY <4>3, <4>4
    <3>3. QED
      BY <3>1, <3>2
  <2>3. h = [s \in SUBSET (1..k + 1) |-> h[s]]
    OBVIOUS
  <2>4. [s \in SUBSET (1..k + 1) |-> h[s]] = [s \in SUBSET (1..k + 1) |-> body(s)]
    <3> HIDE DEF h
    <3>1. QED
      BY <2>2
  <2>5. Reading(h, 1..k + 1, events)
    <3> HIDE DEF h
    <3>1. QED
      BY <2>3, <2>4 DEF Reading, Earlier
  <2>6. QED
    BY <2>5
<1>3. T = Nat
  <2> HIDE DEF T
  <2>1. T \in SUBSET Nat
    BY DEF T
  <2>2. QED
    BY <1>1, <1>2, <2>1, Induction
<1>4. QED
  BY <1>3

LEMMA LoopReads ==
  ASSUME NEW events, IsPlan(events), NEW s, Indexes(s, events)
  PROVE  /\ s = {} => ReplayLoop(events)[s] = ReplayStart
         /\ s # {} => ReplayLoop(events)[s]
                        = Replay(ReplayLoop(events)[Earlier(s)], events[Max(s)])
<1> DEFINE g == ReplayLoop(events)
           n == Len(events)
<1>1. n \in Nat /\ DOMAIN events = 1..n
  BY DEF IsPlan
<1>2. Reading(g, 1..n, events)
  BY <1>1, ReadingExists DEF ReplayLoop
<1> HIDE DEF g
<1>3. g[s] = IF s = {} THEN ReplayStart ELSE Replay(g[Earlier(s)], events[Max(s)])
  BY <1>2 DEF Reading, Indexes
<1>4. QED
  BY <1>3 DEF g

LEMMA PrefixStarts ==
  ASSUME NEW events, IsPlan(events)
  PROVE  Prefix(events, 0) = ReplayStart
<1>1. Indexes(1..0, events) /\ 1..0 = {}
  BY DEF Indexes
<1>2. QED
  BY <1>1, LoopReads DEF Prefix

LEMMA PrefixGoesOn ==
  ASSUME NEW events, IsPlan(events), NEW i \in 1..Len(events)
  PROVE  Prefix(events, i) = Replay(Prefix(events, i - 1), events[i])
<1> DEFINE g == ReplayLoop(events)
           n == Len(events)
<1>1. i \in Nat /\ 1 =< i /\ i =< n /\ n \in Nat
  BY DEF IsPlan
<1> HIDE DEF n
<1>2. i \in 1..i /\ 1..i # {} /\ 1..i \in SUBSET (1..n) /\ 1..i \in SUBSET (1..i)
  <2>1. \A k \in 1..i : k \in 1..n
    BY <1>1
  <2>2. i \in 1..i
    BY <1>1
  <2>3. QED
    BY <2>1, <2>2
<1>3. Max(1..i) = i
  <2>1. Max(1..i) \in 1..i /\ \A k \in 1..i : k =< Max(1..i)
    BY <1>1, <1>2, Maximum
  <2>2. QED
    BY <1>1, <1>2, <2>1
<1>4. (1..i) \ {i} = 1..i - 1
  BY <1>1
<1>5. g[1..i] = Replay(g[(1..i) \ {Max(1..i)}], events[Max(1..i)])
  <2> DEFINE s == 1..i
  <2>1. Indexes(s, events) /\ s # {}
    BY <1>2 DEF n, Indexes
  <2> HIDE DEF s
  <2>2. g[s] = Replay(g[Earlier(s)], events[Max(s)])
    BY <2>1, LoopReads
  <2>3. QED
    BY <2>2 DEF s, Earlier
<1>6. QED
  BY <1>3, <1>4, <1>5 DEF Prefix

LEMMA ReplayedIsPrefix ==
  ASSUME NEW events, IsPlan(events)
  PROVE  Replayed(events) = Prefix(events, Len(events))
<1>1. DOMAIN events = 1..Len(events)
  BY DEF IsPlan
<1>2. FoldLeft(Replay, ReplayStart, events) = ReplayLoop(events)[DOMAIN events]
  BY DEF FoldLeft, MapThenFoldSet, ReplayLoop, Reading, Earlier
<1>3. QED
  BY <1>1, <1>2 DEF Replayed, ReplayStart, Prefix

(* A replay that is behind the end does not notice what comes later.       *)
LEMMA PrefixOfMore ==
  ASSUME NEW T, NEW l \in Seq(T), NEW e \in Seq(T)
  PROVE  /\ IsPlan(l \o e)
         /\ Prefix(l \o e, Len(l)) = Replayed(l)
         /\ \A i \in 1..Len(e) :
               Prefix(l \o e, Len(l) + i) = Replay(Prefix(l \o e, Len(l) + (i - 1)), e[i])
         /\ Replayed(l \o e) = Prefix(l \o e, Len(l) + Len(e))
<1> DEFINE more == l \o e
<1>1. /\ more \in Seq(T) /\ Len(more) = Len(l) + Len(e) /\ Len(l) \in Nat /\ Len(e) \in Nat
      /\ \A i \in 1..Len(l) : more[i] = l[i]
      /\ \A i \in 1..Len(e) : more[Len(l) + i] = e[i]
  OBVIOUS
<1> HIDE DEF more
<1>2. IsPlan(more) /\ IsPlan(l)
  BY <1>1 DEF IsPlan
<1> DEFINE K == {k \in Nat : k =< Len(l) => Prefix(more, k) = Prefix(l, k)}
<1>3. 0 \in K
  BY <1>2, PrefixStarts
<1>4. ASSUME NEW k \in K PROVE k + 1 \in K
  <2>1. SUFFICES ASSUME k + 1 =< Len(l) PROVE Prefix(more, k + 1) = Prefix(l, k + 1)
    OBVIOUS
  <2>2. k + 1 \in 1..Len(l) /\ k + 1 \in 1..Len(more) /\ (k + 1) - 1 = k /\ k =< Len(l)
    BY <1>1, <2>1
  <2>3. Prefix(more, k + 1) = Replay(Prefix(more, k), more[k + 1])
    BY <1>2, <2>2, PrefixGoesOn
  <2>4. Prefix(l, k + 1) = Replay(Prefix(l, k), l[k + 1])
    BY <1>2, <2>2, PrefixGoesOn
  <2>5. QED
    BY <1>1, <2>2, <2>3, <2>4
<1>5. K = Nat
  <2>1. K \in SUBSET Nat
    OBVIOUS
  <2> HIDE DEF K
  <2>2. QED
    BY <1>3, <1>4, <2>1, Induction
<1>6. Prefix(more, Len(l)) = Replayed(l)
  BY <1>1, <1>2, <1>5, ReplayedIsPrefix
<1>7. ASSUME NEW i \in 1..Len(e)
      PROVE  Prefix(more, Len(l) + i) = Replay(Prefix(more, Len(l) + (i - 1)), e[i])
  <2>1. Len(l) + i \in 1..Len(more) /\ (Len(l) + i) - 1 = Len(l) + (i - 1)
    BY <1>1
  <2>2. QED
    BY <1>1, <1>2, <2>1, PrefixGoesOn
<1>8. Replayed(more) = Prefix(more, Len(l) + Len(e))
  BY <1>1, <1>2, ReplayedIsPrefix
<1>9. QED
  BY <1>2, <1>6, <1>7, <1>8 DEF more
----------------------------------------------------------------------------
(* The contract's state and a replay of its log, side by side.             *)
Framed(st) ==
    /\ Shaped(st)
    /\ st.revision \in Nat
    /\ st.rows \subseteq Row
    /\ st.version \in [Row -> Nat]
    /\ st.generation \in [Row -> Nat]

Readable(acc) ==
    /\ acc.ok
    /\ acc = [ok |-> acc.ok, meta |-> acc.meta, rows |-> acc.rows, allocators |-> acc.allocators]
    /\ acc.allocators \in [Table -> Nat \ {0}]

(* A row reads the same in both.                                           *)
Agrees(st, acc, r) ==
    acc.rows[r].version = st.version[r] /\ acc.rows[r].cells = CellsOf(st, r)

CellsBehind(st) ==
    \A k \in DOMAIN st.cells : k \in CellKey /\ k.generation =< st.generation[k.row]

Allocated(st, acc) == \A r \in Row : st.generation[r] > 0 => r[2] < acc.allocators[r[1]]
Born(st) == \A r \in st.rows : st.generation[r] > 0

Linked(st, acc) ==
    /\ Framed(st) /\ Readable(acc)
    /\ acc.rows = [r \in st.rows |-> acc.rows[r]]
    /\ \A r \in st.rows : Agrees(st, acc, r)
    /\ CellsBehind(st) /\ Allocated(st, acc) /\ Born(st)

(* What one operation of a plan makes of a store.                          *)
Versioned(st, res, r, n) == res.version = [st.version EXCEPT ![r] = n]

InsertsInStore(st, res, r, n) ==
    /\ Framed(res) /\ res.revision = st.revision /\ res.migrations = st.migrations
    /\ RowInserted(st, res, r) /\ Versioned(st, res, r, n)

DeletesInStore(st, res, r, n) ==
    /\ Framed(res) /\ res.revision = st.revision /\ res.migrations = st.migrations
    /\ RowDeleted(st, res, r) /\ Versioned(st, res, r, n)

SetsInStore(st, res, r, c, d, n) ==
    /\ Framed(res) /\ res.revision = st.revision /\ res.migrations = st.migrations
    /\ r \in st.rows /\ res.rows = st.rows /\ res.generation = st.generation
    /\ res.cells = Put(st.cells, CellKeyOf(st, r, c), d)
    /\ Versioned(st, res, r, n)

KeepsRows(st, res, migrations) ==
    /\ Framed(res) /\ res.revision = st.revision /\ res.migrations = migrations
    /\ RowsKept(st, res)

LEMMA RowPair == ASSUME NEW r \in Row
                 PROVE  r = <<r[1], r[2]>> /\ r[1] \in Table /\ r[2] \in RowId
BY DEF Row

LEMMA OperationParts ==
  ASSUME NEW k, NEW t, NEW r, NEW c, NEW d
  PROVE  /\ OperationOf(k, t, r, c, d).kind = k
         /\ OperationOf(k, t, r, c, d).table = t
         /\ OperationOf(k, t, r, c, d).row = r
         /\ OperationOf(k, t, r, c, d).column = c
         /\ OperationOf(k, t, r, c, d).data = d
BY DEF OperationOf

LEMMA InsertionInStore ==
  ASSUME NEW st, Framed(st), NEW r \in Row, NEW p, Accepts(st, Insertion(r), p), NEW n \in Nat
  PROVE  InsertsInStore(st, ApplyOperation(st, Insertion(r), n), r, n)
<1> DEFINE op == Insertion(r)
           res == ApplyOperation(st, op, n)
           G == [st.generation EXCEPT ![r] = @ + 1]
           base == [st EXCEPT !.rows = st.rows \cup {r}, !.generation[r] = @ + 1]
<1>1. op.kind = INSERT_ROW /\ RowOf(op) = r
  BY OperationParts, RowPair DEF Insertion, RowOf
<1>2. r \notin st.rows
  BY <1>1 DEF Accepts, Applicable
<1>3. res = [base EXCEPT !.version[r] = n]
  <2> HIDE DEF op
  <2>1. res = [ApplyRowOperation(st, op) EXCEPT !.version[RowOf(op)] = n]
    BY <1>1 DEF ApplyOperation
  <2>2. ApplyRowOperation(st, op) = base
    BY <1>1 DEF ApplyRowOperation, InsertRow
  <2> HIDE DEF res, base
  <2>3. QED
    BY <1>1, <2>1, <2>2
<1>4. base = [revision |-> st.revision, catalog |-> st.catalog,
              migrations |-> st.migrations, rows |-> st.rows \cup {r},
              version |-> st.version, generation |-> G, cells |-> st.cells]
  BY Incarnate, Zenon DEF Framed
<1>5. G \in [Row -> Nat] /\ [st.version EXCEPT ![r] = n] \in [Row -> Nat]
  BY DEF Framed
<1> HIDE DEF base, res, G
<1>6. Shaped(base) /\ base.version = st.version /\ base.version \in [Row -> Nat]
  BY <1>4 DEF Framed, Shaped
<1>7. res = [revision |-> st.revision, catalog |-> st.catalog,
              migrations |-> st.migrations, rows |-> st.rows \cup {r},
              version |-> [st.version EXCEPT ![r] = n], generation |-> G, cells |-> st.cells]
  BY <1>3, <1>4, <1>6, Stamp
<1>8. Framed(res)
  BY <1>5, <1>7 DEF Framed, Shaped
<1>9. /\ res.revision = st.revision /\ res.migrations = st.migrations
      /\ res.rows = st.rows \cup {r} /\ res.version = [st.version EXCEPT ![r] = n]
      /\ res.generation = G /\ res.cells = st.cells
  BY <1>7
<1>10. QED
  BY <1>2, <1>8, <1>9 DEF InsertsInStore, RowInserted, Versioned, G, res

LEMMA DeletionInStore ==
  ASSUME NEW st, Framed(st), NEW r \in Row, NEW p, Accepts(st, Deletion(r), p), NEW n \in Nat
  PROVE  DeletesInStore(st, ApplyOperation(st, Deletion(r), n), r, n)
<1> DEFINE op == Deletion(r)
           res == ApplyOperation(st, op, n)
           base == [st EXCEPT !.rows = st.rows \ {r}]
<1>1. op.kind = DELETE_ROW /\ RowOf(op) = r
  BY OperationParts, RowPair DEF Deletion, RowOf
<1>2. r \in st.rows
  BY <1>1 DEF Accepts, Applicable
<1>3. res = [base EXCEPT !.version[r] = n]
  <2> HIDE DEF op
  <2>1. res = [ApplyRowOperation(st, op) EXCEPT !.version[RowOf(op)] = n]
    BY <1>1 DEF ApplyOperation
  <2>2. ApplyRowOperation(st, op) = base
    BY <1>1 DEF ApplyRowOperation
  <2> HIDE DEF res, base
  <2>3. QED
    BY <1>1, <2>1, <2>2
<1>4. base = [revision |-> st.revision, catalog |-> st.catalog,
              migrations |-> st.migrations, rows |-> st.rows \ {r},
              version |-> st.version, generation |-> st.generation, cells |-> st.cells]
  BY DEF Framed, Shaped
<1>5. [st.version EXCEPT ![r] = n] \in [Row -> Nat]
  BY DEF Framed
<1> HIDE DEF base, res
<1>6. Shaped(base) /\ base.version = st.version /\ base.version \in [Row -> Nat]
  BY <1>4 DEF Framed, Shaped
<1>7. res = [revision |-> st.revision, catalog |-> st.catalog,
              migrations |-> st.migrations, rows |-> st.rows \ {r},
              version |-> [st.version EXCEPT ![r] = n], generation |-> st.generation,
              cells |-> st.cells]
  BY <1>3, <1>4, <1>6, Stamp
<1>8. Framed(res)
  BY <1>5, <1>7 DEF Framed, Shaped
<1>9. /\ res.revision = st.revision /\ res.migrations = st.migrations
      /\ res.rows = st.rows \ {r} /\ res.version = [st.version EXCEPT ![r] = n]
      /\ res.generation = st.generation /\ res.cells = st.cells
  BY <1>7
<1>10. QED
  BY <1>2, <1>8, <1>9 DEF DeletesInStore, RowDeleted, Versioned, res

LEMMA SettingInStore ==
  ASSUME NEW st, Framed(st), NEW r \in Row, NEW db, NEW c,
         NEW p, Accepts(st, Setting(db, r, c), p), NEW n \in Nat
  PROVE  SetsInStore(st, ApplyOperation(st, Setting(db, r, c), n), r, c, Target(db, r, c), n)
<1> DEFINE op == Setting(db, r, c)
           d == Target(db, r, c)
           res == ApplyOperation(st, op, n)
           C == Put(st.cells, CellKeyOf(st, r, c), d)
           base == [st EXCEPT !.cells = C]
<1>1. op.kind = SET_CELL /\ RowOf(op) = r /\ op.column = c /\ op.data = d
  BY OperationParts, RowPair DEF Setting, RowOf
<1>2. r \in st.rows
  BY <1>1 DEF Accepts, Applicable
<1>3. res = [base EXCEPT !.version[r] = n]
  <2> HIDE DEF op, d
  <2>1. res = [ApplyRowOperation(st, op) EXCEPT !.version[RowOf(op)] = n]
    BY <1>1 DEF ApplyOperation
  <2>2. ApplyRowOperation(st, op) = base
    BY <1>1 DEF ApplyRowOperation
  <2> HIDE DEF res, base
  <2>3. QED
    BY <1>1, <2>1, <2>2
<1> HIDE DEF C
<1>4. base = [revision |-> st.revision, catalog |-> st.catalog,
              migrations |-> st.migrations, rows |-> st.rows,
              version |-> st.version, generation |-> st.generation, cells |-> C]
  BY DEF Framed, Shaped
<1>5. [st.version EXCEPT ![r] = n] \in [Row -> Nat]
  BY DEF Framed
<1> HIDE DEF base, res
<1>6. Shaped(base) /\ base.version = st.version /\ base.version \in [Row -> Nat]
  BY <1>4 DEF Framed, Shaped
<1>7. res = [revision |-> st.revision, catalog |-> st.catalog,
              migrations |-> st.migrations, rows |-> st.rows,
              version |-> [st.version EXCEPT ![r] = n], generation |-> st.generation,
              cells |-> C]
  BY <1>3, <1>4, <1>6, Stamp
<1>8. Framed(res)
  BY <1>5, <1>7 DEF Framed, Shaped
<1>9. /\ res.revision = st.revision /\ res.migrations = st.migrations
      /\ res.rows = st.rows /\ res.version = [st.version EXCEPT ![r] = n]
      /\ res.generation = st.generation /\ res.cells = C
  BY <1>7
<1>10. QED
  BY <1>2, <1>8, <1>9 DEF SetsInStore, Versioned, res, C

LEMMA CatalogInStore ==
  ASSUME NEW st, Framed(st), NEW db, NEW n \in Nat
  PROVE  KeepsRows(st, ApplyOperation(st, CatalogWrite(db), n), st.migrations)
<1> DEFINE op == CatalogWrite(db)
           res == ApplyOperation(st, op, n)
           K == Put(st.catalog, op.column, op.data)
<1>1. op.kind = PUT_CATALOG
  BY OperationParts DEF CatalogWrite
<1>2. res = [st EXCEPT !.catalog = K]
  <2> HIDE DEF op
  <2>1. QED
    BY <1>1 DEF ApplyOperation
<1> HIDE DEF K, res
<1>3. res = [revision |-> st.revision, catalog |-> K,
             migrations |-> st.migrations, rows |-> st.rows,
             version |-> st.version, generation |-> st.generation, cells |-> st.cells]
  BY <1>2 DEF Framed, Shaped
<1>4. QED
  BY <1>3 DEF KeepsRows, RowsKept, Framed, Shaped, res

LEMMA MarkInStore ==
  ASSUME NEW st, Framed(st), NEW v, NEW n \in Nat
  PROVE  KeepsRows(st, ApplyOperation(st, Mark(v), n), st.migrations \cup {v})
<1> DEFINE op == Mark(v)
           res == ApplyOperation(st, op, n)
           M == st.migrations \cup {v}
<1>1. op.kind = MARK_MIGRATION /\ op.column = v
  BY OperationParts DEF Mark
<1>2. res = [st EXCEPT !.migrations = M]
  <2> HIDE DEF op
  <2>1. QED
    BY <1>1 DEF ApplyOperation
<1> HIDE DEF M, res
<1>3. res = [revision |-> st.revision, catalog |-> st.catalog,
             migrations |-> M, rows |-> st.rows,
             version |-> st.version, generation |-> st.generation, cells |-> st.cells]
  BY <1>2 DEF Framed, Shaped
<1>4. QED
  BY <1>3 DEF KeepsRows, RowsKept, Framed, Shaped, res, M
(* What the event of one operation makes of a replay.                      *)
Fresh(n) == [version |-> n, cells |-> <<>>]
Above(a, r) == [a EXCEPT ![r[1]] = IF r[2] >= @ THEN r[2] + 1 ELSE @]

ReplayInto(acc, meta, rows, allocators) ==
    [ok |-> acc.ok, meta |-> meta, rows |-> rows, allocators |-> allocators]

LEMMA WithRows ==
  ASSUME NEW acc, Readable(acc), NEW R
  PROVE  [acc EXCEPT !.rows = R] = ReplayInto(acc, acc.meta, R, acc.allocators)
<1>1. acc = [ok |-> acc.ok, meta |-> acc.meta, rows |-> acc.rows, allocators |-> acc.allocators]
  BY DEF Readable
<1>2. QED
  BY <1>1 DEF ReplayInto

LEMMA WithMeta ==
  ASSUME NEW acc, Readable(acc), NEW M
  PROVE  [acc EXCEPT !.meta = M] = ReplayInto(acc, M, acc.rows, acc.allocators)
<1>1. acc = [ok |-> acc.ok, meta |-> acc.meta, rows |-> acc.rows, allocators |-> acc.allocators]
  BY DEF Readable
<1>2. QED
  BY <1>1 DEF ReplayInto

LEMMA WithAllocators ==
  ASSUME NEW acc, Readable(acc), NEW A
  PROVE  [acc EXCEPT !.allocators = A] = ReplayInto(acc, acc.meta, acc.rows, A)
<1>1. acc = [ok |-> acc.ok, meta |-> acc.meta, rows |-> acc.rows, allocators |-> acc.allocators]
  BY DEF Readable
<1>2. QED
  BY <1>1 DEF ReplayInto

LEMMA ReplayParts ==
  ASSUME NEW acc, Readable(acc), NEW M, NEW R, NEW A
  PROVE  /\ ReplayInto(acc, M, R, A).meta = M
         /\ ReplayInto(acc, M, R, A).rows = R
         /\ ReplayInto(acc, M, R, A).ok = acc.ok
         /\ ReplayInto(acc, M, R, A).allocators = A
         /\ A \in [Table -> Nat \ {0}] => Readable(ReplayInto(acc, M, R, A))
BY DEF ReplayInto, Readable

LEMMA CatalogReplayed ==
  ASSUME NEW acc, Readable(acc), NEW db, NEW event, event.operation = CatalogWrite(db)
  PROVE  Replay(acc, event) = ReplayInto(acc, metadata(db), acc.rows, acc.allocators)
<1> DEFINE op == CatalogWrite(db)
<1>1. op.kind = PUT_CATALOG /\ op.column = CATALOG_KEY /\ op.data = metadata(db)
  BY OperationParts DEF CatalogWrite
<1> HIDE DEF op
<1>2. Replay(acc, event) = [acc EXCEPT !.meta = op.data]
  BY <1>1 DEF Replay, ReplayCatalog, op
<1>3. QED
  BY <1>1, <1>2, WithMeta

LEMMA MarkReplayed ==
  ASSUME NEW acc, NEW v, NEW event, event.operation = Mark(v)
  PROVE  Replay(acc, event) = acc
<1> DEFINE op == Mark(v)
<1>1. op.kind = MARK_MIGRATION
  BY OperationParts DEF Mark
<1> HIDE DEF op
<1>2. QED
  BY <1>1 DEF Replay, op

LEMMA DeletionReplayed ==
  ASSUME NEW acc, Readable(acc), NEW r \in Row, NEW event, event.operation = Deletion(r)
  PROVE  Replay(acc, event) = ReplayInto(acc, acc.meta, Drop(acc.rows, r), acc.allocators)
<1> DEFINE op == Deletion(r)
<1>1. op.kind = DELETE_ROW /\ RowOf(op) = r
  BY OperationParts, RowPair DEF Deletion, RowOf
<1> HIDE DEF op
<1>2. Replay(acc, event) = [acc EXCEPT !.rows = Drop(acc.rows, r)]
  BY <1>1 DEF Replay, ReplayDelete, op
<1>3. QED
  BY <1>2, WithRows

LEMMA SettingReplayed ==
  ASSUME NEW acc, Readable(acc), NEW r \in Row, r \in DOMAIN acc.rows,
         NEW db, NEW c, NEW event, event.operation = Setting(db, r, c)
  PROVE  Replay(acc, event)
            = ReplayInto(acc, acc.meta,
                         [acc.rows EXCEPT ![r] =
                            [version |-> event.revision,
                             cells |-> Put(acc.rows[r].cells, c, Target(db, r, c))]],
                         acc.allocators)
<1> DEFINE op == Setting(db, r, c)
           d == Target(db, r, c)
           x == [version |-> event.revision, cells |-> Put(acc.rows[r].cells, c, d)]
<1>1. op.kind = SET_CELL /\ RowOf(op) = r /\ op.column = c /\ op.data = d
  BY OperationParts, RowPair DEF Setting, RowOf
<1> HIDE DEF op, d
<1>2. Replay(acc, event)
        = ReplayCell(acc, r, event.revision, Put(acc.rows[r].cells, c, d))
  BY <1>1 DEF Replay, op
<1>3. Replay(acc, event) = [acc EXCEPT !.rows[r] = x]
  BY <1>2 DEF ReplayCell
<1> HIDE DEF x
<1>4. [acc EXCEPT !.rows[r] = x] = [acc EXCEPT !.rows = [acc.rows EXCEPT ![r] = x]]
  BY DEF Readable
<1> DEFINE R == [acc.rows EXCEPT ![r] = x]
<1> HIDE DEF R
<1>5. [acc EXCEPT !.rows = R] = ReplayInto(acc, acc.meta, R, acc.allocators)
  BY WithRows
<1>6. QED
  BY <1>3, <1>4, <1>5 DEF x, d, R

LEMMA InsertionReplayed ==
  ASSUME NEW acc, Readable(acc), NEW r \in Row, NEW event, event.operation = Insertion(r)
  PROVE  Replay(acc, event)
            = ReplayInto(acc, acc.meta, Put(acc.rows, r, Fresh(event.revision)),
                         Above(acc.allocators, r))
<1> DEFINE op == Insertion(r)
           R == Put(acc.rows, r, Fresh(event.revision))
           A == Above(acc.allocators, r)
           X == [acc EXCEPT !.rows = R]
<1>1. op.kind = INSERT_ROW /\ RowOf(op) = r /\ op.table = r[1] /\ op.row = r[2]
  BY OperationParts, RowPair DEF Insertion, RowOf
<1> HIDE DEF op
<1>2. Replay(acc, event) = ReplayInsert(acc, op, event.revision)
  BY <1>1 DEF Replay, op
<1>3. ReplayInsert(acc, op, event.revision)
        = [acc EXCEPT !.rows = R,
                      !.allocators[r[1]] = IF r[2] >= @ THEN r[2] + 1 ELSE @]
  BY <1>1 DEF ReplayInsert, Fresh
<1>4. [acc EXCEPT !.rows = R, !.allocators[r[1]] = IF r[2] >= @ THEN r[2] + 1 ELSE @]
        = [X EXCEPT !.allocators = A]
  <2> HIDE DEF R
  <2>1. QED
    BY DEF Readable, Above
<1> HIDE DEF R, A
<1>5. X = ReplayInto(acc, acc.meta, R, acc.allocators)
  BY WithRows
<1> HIDE DEF X
<1>6. Readable(X) /\ X.meta = acc.meta /\ X.rows = R
  BY <1>5, ReplayParts DEF Readable
<1>7. [X EXCEPT !.allocators = A] = ReplayInto(X, X.meta, X.rows, A)
  BY <1>6, WithAllocators
<1>8. X.ok = acc.ok
  BY <1>5, ReplayParts
<1>9. QED
  BY <1>2, <1>3, <1>4, <1>6, <1>7, <1>8 DEF ReplayInto, R, A
(* What a reader of the contract sees of a row, after an operation.        *)
Stored(st, r) == {c \in Column : r \in st.rows /\ CellKeyOf(st, r, c) \in DOMAIN st.cells}

LEMMA CellsAreStored ==
  ASSUME NEW st, NEW r
  PROVE  /\ DOMAIN CellsOf(st, r) = Stored(st, r)
         /\ CellsOf(st, r) = [c \in Stored(st, r) |-> st.cells[CellKeyOf(st, r, c)]]
BY DEF CellsOf, Stored

LEMMA CellsStay ==
  ASSUME NEW st, NEW res, NEW q, res.cells = st.cells, res.generation[q] = st.generation[q],
         q \in st.rows, q \in res.rows
  PROVE  CellsOf(res, q) = CellsOf(st, q)
BY DEF CellsOf, CellKeyOf

LEMMA NothingIsEmpty == ASSUME NEW f, f = [x \in {} |-> f[x]] PROVE f = <<>>
OBVIOUS

LEMMA NewRowsStoreNothing ==
  ASSUME NEW st, Framed(st), CellsBehind(st), NEW r \in Row, NEW res, NEW n,
         InsertsInStore(st, res, r, n)
  PROVE  CellsOf(res, r) = <<>>
<1>1. /\ res.generation[r] = st.generation[r] + 1 /\ st.generation[r] \in Nat
      /\ res.cells = st.cells
  BY DEF InsertsInStore, RowInserted, Framed
<1>2. ASSUME NEW c \in Column PROVE CellKeyOf(res, r, c) \notin DOMAIN res.cells
  <2> DEFINE k == CellKeyOf(res, r, c)
  <2>1. k.generation = res.generation[r] /\ k.row = r
    BY DEF CellKeyOf
  <2> HIDE DEF k
  <2>2. SUFFICES ASSUME k \in DOMAIN res.cells PROVE FALSE
    BY DEF k
  <2>3. k.generation =< st.generation[r]
    BY <1>1, <2>1, <2>2 DEF CellsBehind
  <2>4. QED
    BY <1>1, <2>1, <2>3
<1>3. Stored(res, r) = {}
  BY <1>2 DEF Stored
<1>4. CellsOf(res, r) = [c \in {} |-> res.cells[CellKeyOf(res, r, c)]]
  BY <1>3, CellsAreStored
<1>5. CellsOf(res, r) = [c \in {} |-> CellsOf(res, r)[c]]
  BY <1>4
<1>6. QED
  BY <1>5, NothingIsEmpty

LEMMA CellIsStored ==
  ASSUME NEW st, NEW r \in Row, NEW res, NEW c \in Column, NEW d, NEW n,
         SetsInStore(st, res, r, c, d, n)
  PROVE  /\ CellsOf(res, r) = Put(CellsOf(st, r), c, d)
         /\ \A q \in st.rows : q # r => CellsOf(res, q) = CellsOf(st, q)
<1> DEFINE key == CellKeyOf(st, r, c)
<1>1. /\ r \in st.rows /\ res.rows = st.rows /\ res.generation = st.generation
      /\ res.cells = Put(st.cells, key, d)
  BY DEF SetsInStore
<1>2. \A q, b : CellKeyOf(res, q, b) = CellKeyOf(st, q, b)
  BY <1>1 DEF CellKeyOf
<1>3. \A q, b : CellKeyOf(st, q, b) = key <=> q = r /\ b = c
  BY DEF CellKeyOf
<1> HIDE DEF key
<1>4. /\ DOMAIN res.cells = DOMAIN st.cells \cup {key}
      /\ \A k \in DOMAIN res.cells : res.cells[k] = IF k = key THEN d ELSE st.cells[k]
  BY <1>1 DEF Put
<1>5. Stored(res, r) = Stored(st, r) \cup {c}
  BY <1>1, <1>2, <1>3, <1>4 DEF Stored
<1>6. ASSUME NEW b \in Stored(res, r)
      PROVE  res.cells[CellKeyOf(res, r, b)]
                = IF b = c THEN d ELSE st.cells[CellKeyOf(st, r, b)]
  <2>1. CellKeyOf(st, r, b) \in DOMAIN res.cells
    BY <1>2, <1>6 DEF Stored
  <2>2. QED
    BY <1>2, <1>3, <1>4, <2>1
<1>7. CellsOf(res, r) = [b \in Stored(res, r) |-> res.cells[CellKeyOf(res, r, b)]]
  BY CellsAreStored
<1>8. Put(CellsOf(st, r), c, d)
        = [b \in Stored(st, r) \cup {c} |-> IF b = c THEN d ELSE CellsOf(st, r)[b]]
  BY CellsAreStored DEF Put
<1>9. \A b \in Stored(st, r) : CellsOf(st, r)[b] = st.cells[CellKeyOf(st, r, b)]
  BY CellsAreStored
<1>10. CellsOf(res, r) = Put(CellsOf(st, r), c, d)
  BY <1>5, <1>6, <1>7, <1>8, <1>9
<1>11. ASSUME NEW q \in st.rows, q # r PROVE CellsOf(res, q) = CellsOf(st, q)
  <2>1. Stored(res, q) = Stored(st, q)
    BY <1>1, <1>2, <1>3, <1>4, <1>11 DEF Stored
  <2>2. ASSUME NEW b \in Stored(st, q)
        PROVE  res.cells[CellKeyOf(res, q, b)] = st.cells[CellKeyOf(st, q, b)]
    <3>1. CellKeyOf(st, q, b) \in DOMAIN st.cells
      BY <2>2 DEF Stored
    <3>2. QED
      BY <1>2, <1>3, <1>4, <1>11, <3>1
  <2>3. CellsOf(res, q) = [b \in Stored(res, q) |-> res.cells[CellKeyOf(res, q, b)]]
    BY CellsAreStored
  <2>4. CellsOf(st, q) = [b \in Stored(st, q) |-> st.cells[CellKeyOf(st, q, b)]]
    BY CellsAreStored
  <2>5. QED
    BY <2>1, <2>2, <2>3, <2>4
<1>12. QED
  BY <1>10, <1>11

----------------------------------------------------------------------------
(* The two stay linked.                                                    *)
LEMMA InsertionLinks ==
  ASSUME NEW st, NEW acc, Linked(st, acc), NEW r \in Row, NEW res, NEW n \in Nat,
         InsertsInStore(st, res, r, n), NEW M
  PROVE  Linked(res, ReplayInto(acc, M, Put(acc.rows, r, Fresh(n)), Above(acc.allocators, r)))
<1> DEFINE R == Put(acc.rows, r, Fresh(n))
           A == Above(acc.allocators, r)
           acc2 == ReplayInto(acc, M, R, A)
<1>1. Framed(st) /\ Readable(acc) /\ CellsBehind(st) /\ Allocated(st, acc) /\ Born(st)
      /\ DOMAIN acc.rows = st.rows
  BY DEF Linked
<1>2. /\ Framed(res) /\ r \notin st.rows /\ res.rows = st.rows \cup {r}
      /\ res.cells = st.cells
      /\ res.generation = [st.generation EXCEPT ![r] = @ + 1]
      /\ res.version = [st.version EXCEPT ![r] = n]
  BY DEF InsertsInStore, RowInserted, Versioned
<1>3. r[1] \in Table /\ r[2] \in Nat
  BY RowPair, ProjectionAssumption
<1>4. /\ A \in [Table -> Nat \ {0}]
      /\ r[2] < A[r[1]]
      /\ \A t \in Table : acc.allocators[t] =< A[t]
  BY <1>1, <1>3 DEF Above, Readable
<1>5. /\ R = [q \in st.rows \cup {r} |-> IF q = r THEN Fresh(n) ELSE acc.rows[q]]
  BY <1>1 DEF Put
<1> HIDE DEF A, R
<1>6. Readable(acc2) /\ acc2.rows = R /\ acc2.allocators = A
  BY <1>1, <1>4, ReplayParts
<1> HIDE DEF acc2
<1>7. acc2.rows = [q \in res.rows |-> acc2.rows[q]]
  BY <1>2, <1>5, <1>6
<1>8. \A q \in Row : q # r => /\ res.generation[q] = st.generation[q]
                              /\ res.version[q] = st.version[q]
  BY <1>1, <1>2 DEF Framed
<1>9. /\ res.generation[r] = st.generation[r] + 1 /\ res.version[r] = n
      /\ st.generation \in [Row -> Nat]
  BY <1>1, <1>2 DEF Framed
<1>10. ASSUME NEW q \in res.rows PROVE Agrees(res, acc2, q)
  <2>1. CASE q = r
    <3>1. CellsOf(res, r) = <<>>
      BY <1>1, NewRowsStoreNothing
    <3>2. acc2.rows[r] = Fresh(n)
      BY <1>5, <1>6
    <3>3. Fresh(n).version = n /\ Fresh(n).cells = <<>>
      BY DEF Fresh
    <3>4. QED
      BY <1>9, <2>1, <3>1, <3>2, <3>3 DEF Agrees
  <2>2. CASE q # r
    <3>1. q \in st.rows /\ q \in Row /\ acc2.rows[q] = acc.rows[q] /\ Agrees(st, acc, q)
      BY <1>1, <1>2, <1>5, <1>6, <2>2 DEF Linked, Framed
    <3>2. CellsOf(res, q) = CellsOf(st, q)
      BY <1>2, <1>8, <2>2, <3>1, CellsStay
    <3>3. QED
      BY <1>8, <2>2, <3>1, <3>2 DEF Agrees
  <2>3. QED
    BY <2>1, <2>2
<1>11. \A q \in Row : st.generation[q] \in Nat /\ st.generation[q] =< res.generation[q]
                      /\ res.generation[q] \in Nat
  BY <1>8, <1>9
<1>12. CellsBehind(res)
  <2>1. SUFFICES ASSUME NEW k \in DOMAIN res.cells
                 PROVE  k \in CellKey /\ k.generation =< res.generation[k.row]
    BY DEF CellsBehind
  <2>2. k \in CellKey /\ k.generation =< st.generation[k.row]
    BY <1>1, <1>2, <2>1 DEF CellsBehind
  <2>3. k.row \in Row /\ k.generation \in Nat
    BY <2>2 DEF CellKey
  <2>4. QED
    BY <1>11, <2>2, <2>3
<1>13. Allocated(res, acc2)
  <2>1. SUFFICES ASSUME NEW q \in Row, res.generation[q] > 0 PROVE q[2] < A[q[1]]
    BY <1>6 DEF Allocated
  <2>2. q[1] \in Table /\ q[2] \in Nat
    BY RowPair, ProjectionAssumption
  <2>3. CASE q = r
    BY <1>4, <2>3
  <2>4. CASE q # r
    <3>1. q[2] < acc.allocators[q[1]]
      BY <1>1, <1>8, <2>1, <2>4 DEF Allocated
    <3>2. acc.allocators[q[1]] \in Nat /\ A[q[1]] \in Nat
      BY <1>1, <1>4, <2>2 DEF Readable
    <3>3. QED
      BY <1>4, <2>2, <3>1, <3>2
  <2>5. QED
    BY <2>3, <2>4
<1>14. Born(res)
  <2>1. SUFFICES ASSUME NEW q \in res.rows PROVE res.generation[q] > 0
    BY DEF Born
  <2>2. CASE q = r
    BY <1>9, <2>2
  <2>3. CASE q # r
    BY <1>1, <1>2, <1>8, <2>3 DEF Born, Framed
  <2>4. QED
    BY <2>2, <2>3
<1>15. QED
  BY <1>2, <1>6, <1>7, <1>10, <1>12, <1>13, <1>14 DEF Linked, acc2, R, A

LEMMA DeletionLinks ==
  ASSUME NEW st, NEW acc, Linked(st, acc), NEW r \in Row, NEW res, NEW n \in Nat,
         DeletesInStore(st, res, r, n), NEW M
  PROVE  Linked(res, ReplayInto(acc, M, Drop(acc.rows, r), acc.allocators))
<1> DEFINE R == Drop(acc.rows, r)
           acc2 == ReplayInto(acc, M, R, acc.allocators)
<1>1. Framed(st) /\ Readable(acc) /\ CellsBehind(st) /\ Allocated(st, acc) /\ Born(st)
      /\ DOMAIN acc.rows = st.rows
  BY DEF Linked
<1>2. /\ Framed(res) /\ res.rows = st.rows \ {r} /\ res.cells = st.cells
      /\ res.generation = st.generation
      /\ res.version = [st.version EXCEPT ![r] = n]
  BY DEF DeletesInStore, RowDeleted, Versioned
<1>3. R = [q \in st.rows \ {r} |-> acc.rows[q]]
  BY <1>1 DEF Drop
<1> HIDE DEF R
<1>4. Readable(acc2) /\ acc2.rows = R /\ acc2.allocators = acc.allocators
  BY <1>1, ReplayParts DEF Readable
<1> HIDE DEF acc2
<1>5. acc2.rows = [q \in res.rows |-> acc2.rows[q]]
  BY <1>2, <1>3, <1>4
<1>6. ASSUME NEW q \in res.rows PROVE Agrees(res, acc2, q)
  <2>1. q \in st.rows /\ q # r /\ acc2.rows[q] = acc.rows[q] /\ Agrees(st, acc, q)
    BY <1>1, <1>2, <1>3, <1>4 DEF Linked
  <2>2. CellsOf(res, q) = CellsOf(st, q)
    BY <1>2, <2>1, CellsStay
  <2>3. res.version[q] = st.version[q]
    BY <1>1, <1>2, <2>1 DEF Framed
  <2>4. QED
    BY <2>1, <2>2, <2>3 DEF Agrees
<1>7. CellsBehind(res) /\ Allocated(res, acc2) /\ Born(res)
  BY <1>1, <1>2, <1>4 DEF CellsBehind, Allocated, Born
<1>8. QED
  BY <1>2, <1>4, <1>5, <1>6, <1>7 DEF Linked, acc2, R

LEMMA SettingLinks ==
  ASSUME NEW st, NEW acc, Linked(st, acc), NEW r \in Row, NEW c \in Column, NEW d, NEW res,
         NEW n \in Nat, SetsInStore(st, res, r, c, d, n), NEW M
  PROVE  Linked(res, ReplayInto(acc, M,
                                [acc.rows EXCEPT ![r] =
                                    [version |-> n, cells |-> Put(acc.rows[r].cells, c, d)]],
                                acc.allocators))
<1> DEFINE x == [version |-> n, cells |-> Put(acc.rows[r].cells, c, d)]
           R == [acc.rows EXCEPT ![r] = x]
           acc2 == ReplayInto(acc, M, R, acc.allocators)
<1>1. Framed(st) /\ Readable(acc) /\ CellsBehind(st) /\ Allocated(st, acc) /\ Born(st)
      /\ DOMAIN acc.rows = st.rows /\ acc.rows = [q \in st.rows |-> acc.rows[q]]
  BY DEF Linked
<1>2. /\ Framed(res) /\ r \in st.rows /\ res.rows = st.rows
      /\ res.generation = st.generation
      /\ res.cells = Put(st.cells, CellKeyOf(st, r, c), d)
      /\ res.version = [st.version EXCEPT ![r] = n]
  BY DEF SetsInStore, Versioned
<1>3. x.version = n /\ x.cells = Put(acc.rows[r].cells, c, d)
  OBVIOUS
<1> HIDE DEF x
<1>4. R = [q \in st.rows |-> IF q = r THEN x ELSE acc.rows[q]]
  BY <1>1, <1>2
<1> HIDE DEF R
<1>5. Readable(acc2) /\ acc2.rows = R /\ acc2.allocators = acc.allocators
  BY <1>1, ReplayParts DEF Readable
<1> HIDE DEF acc2
<1>6. acc2.rows = [q \in res.rows |-> acc2.rows[q]]
  BY <1>2, <1>4, <1>5
<1>7. /\ CellsOf(res, r) = Put(CellsOf(st, r), c, d)
      /\ \A q \in st.rows : q # r => CellsOf(res, q) = CellsOf(st, q)
  BY CellIsStored
<1>8. ASSUME NEW q \in res.rows PROVE Agrees(res, acc2, q)
  <2>1. q \in st.rows /\ Agrees(st, acc, q)
    BY <1>2 DEF Linked
  <2>2. CASE q = r
    <3>1. acc2.rows[q] = x /\ res.version[q] = n
      BY <1>1, <1>2, <1>4, <1>5, <2>2 DEF Framed
    <3>2. QED
      BY <1>3, <1>7, <2>1, <2>2, <3>1 DEF Agrees
  <2>3. CASE q # r
    <3>1. acc2.rows[q] = acc.rows[q] /\ res.version[q] = st.version[q]
      BY <1>1, <1>2, <1>4, <1>5, <2>1, <2>3 DEF Framed
    <3>2. QED
      BY <1>7, <2>1, <2>3, <3>1 DEF Agrees
  <2>4. QED
    BY <2>2, <2>3
<1>9. CellsBehind(res)
  <2> DEFINE key == CellKeyOf(st, r, c)
  <2>1. key \in CellKey /\ key.row = r /\ key.generation = st.generation[r]
        /\ st.generation[r] \in Nat
    BY <1>1, <1>2 DEF CellKeyOf, CellKey, Framed
  <2> HIDE DEF key
  <2>2. DOMAIN res.cells = DOMAIN st.cells \cup {key}
    BY <1>2 DEF Put, key
  <2>3. QED
    BY <1>1, <1>2, <2>1, <2>2 DEF CellsBehind
<1>10. Allocated(res, acc2) /\ Born(res)
  BY <1>1, <1>2, <1>5 DEF Allocated, Born
<1>11. QED
  BY <1>2, <1>5, <1>6, <1>8, <1>9, <1>10 DEF Linked, acc2, R, x

LEMMA KeepingLinks ==
  ASSUME NEW st, NEW acc, Linked(st, acc), NEW res, NEW migrations,
         KeepsRows(st, res, migrations), NEW M
  PROVE  /\ Linked(res, ReplayInto(acc, M, acc.rows, acc.allocators))
         /\ Linked(res, acc)
<1> DEFINE acc2 == ReplayInto(acc, M, acc.rows, acc.allocators)
<1>1. /\ Framed(res) /\ res.rows = st.rows /\ res.version = st.version
      /\ res.generation = st.generation /\ res.cells = st.cells
  BY DEF KeepsRows, RowsKept
<1>2. Readable(acc) /\ Readable(acc2) /\ acc2.rows = acc.rows /\ acc2.allocators = acc.allocators
  BY ReplayParts DEF Linked, Readable
<1> HIDE DEF acc2
<1>3. \A q \in st.rows : CellsOf(res, q) = CellsOf(st, q)
  BY <1>1, CellsStay
<1>4. QED
  BY <1>1, <1>2, <1>3 DEF Linked, Agrees, CellsBehind, Allocated, Born, acc2
----------------------------------------------------------------------------
(* Halfway through a plan from one database to another.  The order of the  *)
(* operations does not matter: each one that was carried out has its       *)
(* effect, and keeps it; what needs no operation is there all along.       *)
Reads(acc, row, c, x) ==
    c \in DOMAIN acc.rows[row].cells /\ acc.rows[row].cells[c] = x

Done(st, acc, op) ==
    /\ op.kind = PUT_CATALOG => acc.meta = op.data
    /\ op.kind = INSERT_ROW => RowOf(op) \in st.rows
    /\ op.kind = DELETE_ROW => RowOf(op) \notin st.rows
    /\ op.kind = SET_CELL => RowOf(op) \in st.rows /\ Reads(acc, RowOf(op), op.column, op.data)
    /\ op.kind = MARK_MIGRATION => op.column \in st.migrations

(* A name is used for one row only, and for a row of the tables there are  *)
(* or have been.                                                           *)
NamedOnce(st, bound) ==
    \A row \in Row : st.generation[row] =< 1 /\ (st.generation[row] > 0 => row[1] < bound)

Between(st, acc, before, after) ==
    /\ RowsOf(before) \cap RowsOf(after) \subseteq st.rows
    /\ st.rows \subseteq RowsOf(before) \cup RowsOf(after)
    /\ \A row \in RowsOf(before) \cap RowsOf(after) : \A c \in ColumnsOf(after, row) :
          ~ Differs(before, after, row, c) => Reads(acc, row, c, Target(after, row, c))
    /\ metadata(before) = metadata(after) => acc.meta = metadata(after)
    /\ before.migrations \subseteq st.migrations
    /\ st.migrations \subseteq after.migrations
    /\ NamedOnce(st, after.next_object_id)
    /\ \A row \in RowsOf(after) \ RowsOf(before) : row \notin st.rows => st.generation[row] = 0

Advances(st, acc, res, acc2, before, after) ==
    /\ \A row \in RowsOf(after) : row \in st.rows => row \in res.rows
    /\ res.rows \subseteq st.rows \cup RowsOf(after)
    /\ \A row \in RowsOf(after) : \A c \in ColumnsOf(after, row) :
          row \in st.rows /\ Reads(acc, row, c, Target(after, row, c))
             => Reads(acc2, row, c, Target(after, row, c))
    /\ acc2.meta \in {acc.meta, metadata(after)}
    /\ st.migrations \subseteq res.migrations
    /\ res.migrations \subseteq st.migrations \cup after.migrations
    /\ \A row \in Row : \/ res.generation[row] = st.generation[row]
                        \/ /\ row \in RowsOf(after) \ RowsOf(before)
                           /\ row \notin st.rows /\ row \in res.rows
                           /\ res.generation[row] = st.generation[row] + 1

(* Every table has its identifier below the next one.                      *)
Bounded(db) == db.next_object_id \in Nat /\ \A t \in DOMAIN db.tables : t < db.next_object_id

LEMMA AdvancingKeepsBetween ==
  ASSUME NEW st, NEW acc, NEW res, NEW acc2, NEW before, NEW after,
         Framed(st), Bounded(after),
         Between(st, acc, before, after), Advances(st, acc, res, acc2, before, after)
  PROVE  Between(res, acc2, before, after)
<1>0. \A db : RowsOf(db) \subseteq Row
  BY FiniteRows
<1>1. /\ RowsOf(before) \cap RowsOf(after) \subseteq res.rows
      /\ res.rows \subseteq RowsOf(before) \cup RowsOf(after)
  BY DEF Between, Advances
<1>2. ASSUME NEW row \in RowsOf(before) \cap RowsOf(after), NEW c \in ColumnsOf(after, row),
             ~ Differs(before, after, row, c)
      PROVE  Reads(acc2, row, c, Target(after, row, c))
  BY <1>2 DEF Between, Advances
<1>3. metadata(before) = metadata(after) => acc2.meta = metadata(after)
  BY DEF Between, Advances
<1>4. before.migrations \subseteq res.migrations /\ res.migrations \subseteq after.migrations
  BY DEF Between, Advances
<1>5. NamedOnce(res, after.next_object_id)
  <2>1. SUFFICES ASSUME NEW row \in Row
                 PROVE  /\ res.generation[row] =< 1
                        /\ res.generation[row] > 0 => row[1] < after.next_object_id
    BY DEF NamedOnce
  <2>2. CASE res.generation[row] = st.generation[row]
    BY <2>2 DEF Between, NamedOnce
  <2>3. CASE /\ row \in RowsOf(after) \ RowsOf(before)
             /\ row \notin st.rows /\ row \in res.rows
             /\ res.generation[row] = st.generation[row] + 1
    <3>1. st.generation[row] = 0
      BY <2>3 DEF Between
    <3>2. row[1] \in DOMAIN after.tables
      BY <2>3 DEF RowsOf
    <3>3. QED
      BY <2>3, <3>1, <3>2 DEF Bounded
  <2>4. QED
    BY <2>2, <2>3 DEF Advances
<1>6. ASSUME NEW row \in RowsOf(after) \ RowsOf(before), row \notin res.rows
      PROVE  res.generation[row] = 0
  <2>1. row \notin st.rows /\ row \in Row
    BY <1>0, <1>6 DEF Advances
  <2>2. QED
    BY <1>6, <2>1 DEF Advances, Between
<1>7. QED
  BY <1>1, <1>2, <1>3, <1>4, <1>5, <1>6 DEF Between

(* The kinds of the operations of a plan, and what they are about.         *)
LEMMA NeededParts ==
  ASSUME NEW before, NEW after, NEW op, Needed(before, after, op)
  PROVE  /\ op.kind \in {PUT_CATALOG, INSERT_ROW, DELETE_ROW, SET_CELL, MARK_MIGRATION}
         /\ op.kind = PUT_CATALOG => op.data = metadata(after)
         /\ op.kind = INSERT_ROW => RowOf(op) \in RowsOf(after) \ RowsOf(before)
         /\ op.kind = DELETE_ROW => RowOf(op) \in RowsOf(before) \ RowsOf(after)
         /\ op.kind = SET_CELL => /\ RowOf(op) \in RowsOf(after)
                                  /\ op.column \in ColumnsOf(after, RowOf(op))
                                  /\ op.data = Target(after, RowOf(op), op.column)
         /\ op.kind = MARK_MIGRATION => op.column \in after.migrations
<1>0. \A row : row \in RowsOf(before) \/ row \in RowsOf(after) => row = <<row[1], row[2]>>
  BY FiniteRows, RowPair
<1>1. CASE WritesCatalog(before, after, op)
  BY <1>1, OperationParts DEF WritesCatalog, CatalogWrite
<1>2. CASE DeletesRow(before, after, op)
  <2>1. PICK row \in RowsOf(before) \ RowsOf(after) : op = Deletion(row)
    BY <1>2 DEF DeletesRow
  <2>2. op.kind = DELETE_ROW /\ RowOf(op) = row
    BY <1>0, <2>1, OperationParts DEF Deletion, RowOf
  <2>3. QED
    BY <2>2
<1>3. CASE InsertsRow(before, after, op)
  <2>1. PICK row \in RowsOf(after) \ RowsOf(before) : op = Insertion(row)
    BY <1>3 DEF InsertsRow
  <2>2. op.kind = INSERT_ROW /\ RowOf(op) = row
    BY <1>0, <2>1, OperationParts DEF Insertion, RowOf
  <2>3. QED
    BY <2>2
<1>4. CASE SetsCell(before, after, op)
  <2>1. PICK row \in RowsOf(after) : \E c \in ColumnsOf(after, row) : op = Setting(after, row, c)
    BY <1>4 DEF SetsCell
  <2>2. PICK c \in ColumnsOf(after, row) : op = Setting(after, row, c)
    BY <2>1
  <2>3. op.kind = SET_CELL /\ RowOf(op) = row /\ op.column = c /\ op.data = Target(after, row, c)
    BY <1>0, <2>2, OperationParts DEF Setting, RowOf
  <2>4. QED
    BY <2>3
<1>5. CASE MarksMigration(before, after, op)
  <2>1. PICK v \in after.migrations : op = Mark(v)
    BY <1>5 DEF MarksMigration
  <2>2. op.kind = MARK_MIGRATION /\ op.column = v
    BY <2>1, OperationParts DEF Mark
  <2>3. QED
    BY <2>2
<1>6. QED
  BY <1>1, <1>2, <1>3, <1>4, <1>5 DEF Needed

LEMMA AdvancingKeepsDone ==
  ASSUME NEW st, NEW acc, NEW res, NEW acc2, NEW before, NEW after,
         Advances(st, acc, res, acc2, before, after),
         NEW op, Needed(before, after, op), Done(st, acc, op)
  PROVE  Done(res, acc2, op)
<1>1. CASE op.kind = PUT_CATALOG
  BY <1>1, NeededParts DEF Done, Advances
<1>2. CASE op.kind = INSERT_ROW
  BY <1>2, NeededParts DEF Done, Advances
<1>3. CASE op.kind = DELETE_ROW
  BY <1>3, NeededParts DEF Done, Advances
<1>4. CASE op.kind = SET_CELL
  BY <1>4, NeededParts DEF Done, Advances
<1>5. CASE op.kind = MARK_MIGRATION
  BY <1>5, NeededParts DEF Done, Advances
<1>6. QED
  BY <1>1, <1>2, <1>3, <1>4, <1>5, NeededParts
(* One operation, as the contract carries it out and the replay reads it.  *)
Carries(st, acc, op, res, acc2, before, after) ==
    /\ Linked(res, acc2) /\ res.revision = st.revision
    /\ Advances(st, acc, res, acc2, before, after)
    /\ Done(res, acc2, op)

LEMMA InsertionCarries ==
  ASSUME NEW st, NEW acc, Linked(st, acc), NEW before, NEW after,
         NEW row \in RowsOf(after) \ RowsOf(before), NEW event,
         event.operation = Insertion(row), event.revision \in Nat,
         NEW p, Accepts(st, Insertion(row), p)
  PROVE  Carries(st, acc, Insertion(row), ApplyOperation(st, Insertion(row), event.revision),
                 Replay(acc, event), before, after)
<1> DEFINE op == Insertion(row)
           n == event.revision
           res == ApplyOperation(st, op, n)
           acc2 == Replay(acc, event)
           R == Put(acc.rows, row, Fresh(n))
           A == Above(acc.allocators, row)
<1>1. row \in Row /\ Framed(st) /\ Readable(acc) /\ DOMAIN acc.rows = st.rows
  BY FiniteRows DEF Linked
<1>2. InsertsInStore(st, res, row, n)
  BY <1>1, InsertionInStore
<1> HIDE DEF res
<1>3. acc2 = ReplayInto(acc, acc.meta, R, A)
  BY <1>1, InsertionReplayed
<1> HIDE DEF acc2
<1>4. Linked(res, acc2)
  BY <1>1, <1>2, <1>3, InsertionLinks
<1>5. acc2.meta = acc.meta /\ acc2.rows = R
  BY <1>1, <1>3, ReplayParts
<1>6. /\ row \notin st.rows /\ res.rows = st.rows \cup {row}
      /\ res.generation = [st.generation EXCEPT ![row] = @ + 1]
      /\ res.revision = st.revision /\ res.migrations = st.migrations
  BY <1>2 DEF InsertsInStore, RowInserted
<1>7. \A q \in st.rows : R[q] = acc.rows[q]
  BY <1>1, <1>6 DEF Put
<1> HIDE DEF R, A
<1>8. \A q \in Row : IF q = row THEN res.generation[q] = st.generation[q] + 1
                     ELSE res.generation[q] = st.generation[q]
  BY <1>1, <1>6 DEF Framed
<1>9. Advances(st, acc, res, acc2, before, after)
  BY <1>5, <1>6, <1>7, <1>8 DEF Advances, Reads
<1>10. op.kind = INSERT_ROW /\ RowOf(op) = row
  BY <1>1, OperationParts, RowPair DEF Insertion, RowOf
<1>11. Done(res, acc2, op)
  BY <1>6, <1>10 DEF Done
<1>12. QED
  BY <1>4, <1>6, <1>9, <1>11 DEF Carries, res, acc2

LEMMA DeletionCarries ==
  ASSUME NEW st, NEW acc, Linked(st, acc), NEW before, NEW after,
         NEW row \in RowsOf(before) \ RowsOf(after), NEW event,
         event.operation = Deletion(row), event.revision \in Nat,
         NEW p, Accepts(st, Deletion(row), p)
  PROVE  Carries(st, acc, Deletion(row), ApplyOperation(st, Deletion(row), event.revision),
                 Replay(acc, event), before, after)
<1> DEFINE op == Deletion(row)
           n == event.revision
           res == ApplyOperation(st, op, n)
           acc2 == Replay(acc, event)
           R == Drop(acc.rows, row)
<1>1. row \in Row /\ Framed(st) /\ Readable(acc) /\ DOMAIN acc.rows = st.rows
  BY FiniteRows DEF Linked
<1>2. DeletesInStore(st, res, row, n)
  BY <1>1, DeletionInStore
<1> HIDE DEF res
<1>3. acc2 = ReplayInto(acc, acc.meta, R, acc.allocators)
  BY <1>1, DeletionReplayed
<1> HIDE DEF acc2
<1>4. Linked(res, acc2)
  BY <1>1, <1>2, <1>3, DeletionLinks
<1>5. acc2.meta = acc.meta /\ acc2.rows = R
  BY <1>1, <1>3, ReplayParts
<1>6. /\ res.rows = st.rows \ {row} /\ res.generation = st.generation
      /\ res.revision = st.revision /\ res.migrations = st.migrations
  BY <1>2 DEF DeletesInStore, RowDeleted
<1>7. \A q \in st.rows : q # row => R[q] = acc.rows[q]
  BY <1>1 DEF Drop
<1> HIDE DEF R
<1>8. Advances(st, acc, res, acc2, before, after)
  BY <1>5, <1>6, <1>7 DEF Advances, Reads
<1>9. op.kind = DELETE_ROW /\ RowOf(op) = row
  BY <1>1, OperationParts, RowPair DEF Deletion, RowOf
<1>10. Done(res, acc2, op)
  BY <1>6, <1>9 DEF Done
<1>11. QED
  BY <1>4, <1>6, <1>8, <1>10 DEF Carries, res, acc2

LEMMA SettingCarries ==
  ASSUME NEW st, NEW acc, Linked(st, acc), NEW before, NEW after, Writable(after),
         NEW row \in RowsOf(after), NEW c \in ColumnsOf(after, row), NEW event,
         event.operation = Setting(after, row, c), event.revision \in Nat,
         NEW p, Accepts(st, Setting(after, row, c), p)
  PROVE  Carries(st, acc, Setting(after, row, c),
                 ApplyOperation(st, Setting(after, row, c), event.revision),
                 Replay(acc, event), before, after)
<1> DEFINE op == Setting(after, row, c)
           n == event.revision
           d == Target(after, row, c)
           res == ApplyOperation(st, op, n)
           acc2 == Replay(acc, event)
           x == [version |-> n, cells |-> Put(acc.rows[row].cells, c, d)]
           R == [acc.rows EXCEPT ![row] = x]
<1>1. /\ row \in Row /\ c \in Column /\ Framed(st) /\ Readable(acc) /\ DOMAIN acc.rows = st.rows
      /\ acc.rows = [q \in st.rows |-> acc.rows[q]]
  BY FiniteRows DEF Linked, Writable
<1>2. SetsInStore(st, res, row, c, d, n)
  BY <1>1, SettingInStore
<1> HIDE DEF res
<1>3. /\ row \in st.rows /\ res.rows = st.rows /\ res.generation = st.generation
      /\ res.revision = st.revision /\ res.migrations = st.migrations
  BY <1>2 DEF SetsInStore
<1>4. acc2 = ReplayInto(acc, acc.meta, R, acc.allocators)
  BY <1>1, <1>3, SettingReplayed
<1> HIDE DEF acc2, d
<1>5. Linked(res, acc2)
  BY <1>1, <1>2, <1>4, SettingLinks
<1>6. acc2.meta = acc.meta /\ acc2.rows = R
  BY <1>1, <1>4, ReplayParts DEF Readable
<1>7. x.cells = Put(acc.rows[row].cells, c, d)
  OBVIOUS
<1> HIDE DEF x
<1>8. R[row] = x /\ \A q \in st.rows : q # row => R[q] = acc.rows[q]
  BY <1>1, <1>3
<1> HIDE DEF R
<1>9. Reads(acc2, row, c, d)
  BY <1>6, <1>7, <1>8 DEF Reads, Put
<1>10. ASSUME NEW q \in RowsOf(after), NEW b \in ColumnsOf(after, q), q \in st.rows,
              Reads(acc, q, b, Target(after, q, b))
       PROVE  Reads(acc2, q, b, Target(after, q, b))
  <2>1. CASE q # row
    BY <1>6, <1>8, <1>10, <2>1 DEF Reads
  <2>2. CASE q = row /\ b = c
    BY <1>9, <2>2 DEF d
  <2>3. CASE q = row /\ b # c
    BY <1>6, <1>7, <1>8, <1>10, <2>3 DEF Reads, Put
  <2>4. QED
    BY <2>1, <2>2, <2>3
<1>11. Advances(st, acc, res, acc2, before, after)
  BY <1>3, <1>6, <1>10 DEF Advances
<1>12. op.kind = SET_CELL /\ RowOf(op) = row /\ op.column = c /\ op.data = d
  BY <1>1, OperationParts, RowPair DEF Setting, RowOf, d
<1>13. Done(res, acc2, op)
  BY <1>3, <1>9, <1>12 DEF Done
<1>14. QED
  BY <1>3, <1>5, <1>11, <1>13 DEF Carries, res, acc2

LEMMA CatalogCarries ==
  ASSUME NEW st, NEW acc, Linked(st, acc), NEW before, NEW after, NEW event,
         event.operation = CatalogWrite(after), event.revision \in Nat
  PROVE  Carries(st, acc, CatalogWrite(after),
                 ApplyOperation(st, CatalogWrite(after), event.revision),
                 Replay(acc, event), before, after)
<1> DEFINE op == CatalogWrite(after)
           res == ApplyOperation(st, op, event.revision)
           acc2 == Replay(acc, event)
<1>1. Framed(st) /\ Readable(acc)
  BY DEF Linked
<1>2. KeepsRows(st, res, st.migrations)
  BY <1>1, CatalogInStore
<1> HIDE DEF res
<1>3. acc2 = ReplayInto(acc, metadata(after), acc.rows, acc.allocators)
  BY <1>1, CatalogReplayed
<1> HIDE DEF acc2
<1>4. Linked(res, acc2)
  BY <1>2, <1>3, KeepingLinks
<1>5. acc2.meta = metadata(after) /\ acc2.rows = acc.rows
  BY <1>1, <1>3, ReplayParts
<1>6. /\ res.rows = st.rows /\ res.generation = st.generation
      /\ res.revision = st.revision /\ res.migrations = st.migrations
  BY <1>2 DEF KeepsRows, RowsKept
<1>7. Advances(st, acc, res, acc2, before, after)
  BY <1>5, <1>6 DEF Advances, Reads
<1>8. op.kind = PUT_CATALOG /\ op.data = metadata(after)
  BY OperationParts DEF CatalogWrite
<1>9. Done(res, acc2, op)
  BY <1>5, <1>8 DEF Done
<1>10. QED
  BY <1>4, <1>6, <1>7, <1>9 DEF Carries, res, acc2

LEMMA MarkCarries ==
  ASSUME NEW st, NEW acc, Linked(st, acc), NEW before, NEW after, NEW v \in after.migrations,
         NEW event, event.operation = Mark(v), event.revision \in Nat
  PROVE  Carries(st, acc, Mark(v), ApplyOperation(st, Mark(v), event.revision),
                 Replay(acc, event), before, after)
<1> DEFINE op == Mark(v)
           res == ApplyOperation(st, op, event.revision)
           acc2 == Replay(acc, event)
<1>1. Framed(st) /\ Readable(acc)
  BY DEF Linked
<1>2. KeepsRows(st, res, st.migrations \cup {v})
  BY <1>1, MarkInStore
<1> HIDE DEF res
<1>3. acc2 = acc
  BY MarkReplayed
<1> HIDE DEF acc2
<1>4. Linked(res, acc2)
  BY <1>2, <1>3, KeepingLinks
<1>5. /\ res.rows = st.rows /\ res.generation = st.generation
      /\ res.revision = st.revision /\ res.migrations = st.migrations \cup {v}
  BY <1>2 DEF KeepsRows, RowsKept
<1>6. Advances(st, acc, res, acc2, before, after)
  BY <1>3, <1>5 DEF Advances, Reads
<1>7. op.kind = MARK_MIGRATION /\ op.column = v
  BY OperationParts DEF Mark
<1>8. Done(res, acc2, op)
  BY <1>5, <1>7 DEF Done
<1>9. QED
  BY <1>4, <1>5, <1>6, <1>8 DEF Carries, res, acc2

LEMMA OperationCarries ==
  ASSUME NEW st, NEW acc, Linked(st, acc), NEW before, NEW after, Writable(after),
         NEW op, Needed(before, after, op), NEW event,
         event.operation = op, event.revision \in Nat, NEW p, Accepts(st, op, p)
  PROVE  Carries(st, acc, op, ApplyOperation(st, op, event.revision),
                 Replay(acc, event), before, after)
<1>1. CASE WritesCatalog(before, after, op)
  BY <1>1, CatalogCarries DEF WritesCatalog
<1>2. CASE DeletesRow(before, after, op)
  BY <1>2, DeletionCarries DEF DeletesRow
<1>3. CASE InsertsRow(before, after, op)
  BY <1>3, InsertionCarries DEF InsertsRow
<1>4. CASE SetsCell(before, after, op)
  BY <1>4, SettingCarries DEF SetsCell
<1>5. CASE MarksMigration(before, after, op)
  BY <1>5, MarkCarries DEF MarksMigration
<1>6. QED
  BY <1>1, <1>2, <1>3, <1>4, <1>5 DEF Needed
(* A whole plan.                                                           *)
LEMMA CountingKeepsLinks ==
  ASSUME NEW s, NEW acc, NEW before, NEW after, Linked(s, acc), Between(s, acc, before, after)
  PROVE  /\ Linked(Advanced(s), acc) /\ Between(Advanced(s), acc, before, after)
         /\ Advanced(s).revision = s.revision + 1
         /\ \A op : Done(s, acc, op) => Done(Advanced(s), acc, op)
<1> DEFINE res == Advanced(s)
<1>1. Shaped(s) /\ s.revision \in Nat
  BY DEF Linked, Framed
<1>2. res = [revision |-> s.revision + 1, catalog |-> s.catalog,
             migrations |-> s.migrations, rows |-> s.rows, version |-> s.version,
             generation |-> s.generation, cells |-> s.cells]
  BY <1>1 DEF Advanced, Shaped
<1> HIDE DEF res
<1>3. /\ Shaped(res) /\ res.revision = s.revision + 1 /\ res.migrations = s.migrations
      /\ res.rows = s.rows /\ res.version = s.version /\ res.generation = s.generation
      /\ res.cells = s.cells
  BY <1>2 DEF Shaped
<1>4. Framed(res)
  BY <1>3 DEF Linked, Framed
<1>5. \A q \in s.rows : CellsOf(res, q) = CellsOf(s, q)
  BY <1>3, CellsStay
<1>6. Linked(res, acc)
  BY <1>3, <1>4, <1>5 DEF Linked, Agrees, CellsBehind, Allocated, Born
<1>7. Between(res, acc, before, after)
  BY <1>3 DEF Between, NamedOnce
<1>8. \A op : Done(s, acc, op) => Done(res, acc, op)
  BY <1>3 DEF Done
<1>9. QED
  BY <1>3, <1>6, <1>7, <1>8 DEF res

(* The contract and the replay of the grown log after a plan.              *)
CarriedOut(st, l, st2, l2, before, after) ==
    /\ IsPlan(l2)
    /\ st2.revision = st.revision + 1
    /\ Linked(st2, Replayed(l2))
    /\ Between(st2, Replayed(l2), before, after)
    /\ \A op : Needed(before, after, op) => Done(st2, Replayed(l2), op)

Grown(l, ops, n) == l \o EventsOf(ops, n)

(* The events e of some operations, to follow those of l.                  *)
Follows(T, l, e, ops, n) ==
    /\ l \in Seq(T) /\ e \in Seq(T) /\ Len(e) = Len(ops)
    /\ \A i \in 1..Len(ops) : e[i].operation = ops[i] /\ e[i].revision = n

LEMMA EventsAre ==
  ASSUME NEW l, IsPlan(l), NEW ops, IsPlan(ops), NEW n
  PROVE  \E T : Follows(T, l, EventsOf(ops, n), ops, n)
<1> DEFINE e == EventsOf(ops, n)
<1>1. PICK S : l \in Seq(S)
  BY DEF IsPlan
<1>2. Len(ops) \in Nat /\ DOMAIN ops = 1..Len(ops)
  BY DEF IsPlan
<1>3. e = [i \in 1..Len(ops) |-> [revision |-> n, index |-> i - 1, operation |-> ops[i]]]
  BY <1>2 DEF EventsOf
<1>4. \A i \in 1..Len(ops) : e[i].operation = ops[i] /\ e[i].revision = n
  BY <1>3
<1> DEFINE T == S \cup {e[i] : i \in 1..Len(ops)}
<1>5. e = [i \in 1..Len(ops) |-> e[i]] /\ DOMAIN e = 1..Len(ops)
  BY <1>3
<1> HIDE DEF e
<1>6. \A i \in 1..Len(ops) : e[i] \in T
  OBVIOUS
<1>7. l \in Seq(T)
  <2>1. Len(l) \in Nat /\ l = [i \in 1..Len(l) |-> l[i]] /\ \A i \in 1..Len(l) : l[i] \in S
    BY <1>1
  <2>2. \A i \in 1..Len(l) : l[i] \in T
    BY <2>1
  <2> HIDE DEF T
  <2>3. l \in [1..Len(l) -> T]
    BY <2>1, <2>2
  <2>4. QED
    BY <2>1, <2>3, SeqDef
<1> HIDE DEF T
<1>8. e \in [1..Len(ops) -> T]
  BY <1>5, <1>6
<1>9. e \in Seq(T) /\ Len(e) = Len(ops)
  BY <1>2, <1>5, <1>8, SeqDef, LenProperties
<1>10. Follows(T, l, e, ops, n)
  BY <1>4, <1>7, <1>9 DEF Follows
<1>11. QED
  BY <1>10 DEF e

(* A log that has grown is read on from where it ended.                    *)
ReadsOn(l, e) ==
    /\ IsPlan(l \o e) /\ Prefix(l \o e, Len(l)) = Replayed(l)
    /\ \A i \in 1..Len(e) :
          Prefix(l \o e, Len(l) + i) = Replay(Prefix(l \o e, Len(l) + (i - 1)), e[i])
    /\ Replayed(l \o e) = Prefix(l \o e, Len(l) + Len(e))
    /\ Len(l) + 0 = Len(l)

LEMMA GrownReadsOn ==
  ASSUME NEW T, NEW l, NEW e, NEW ops, NEW n, Follows(T, l, e, ops, n)
  PROVE  ReadsOn(l, e)
<1>1. l \in Seq(T) /\ e \in Seq(T)
  BY DEF Follows
<1>2. Len(l) + 0 = Len(l)
  BY <1>1
<1>3. QED
  BY <1>1, <1>2, PrefixOfMore DEF ReadsOn

LEMMA AppliedWasAdmitted ==
  ASSUME NEW st, NEW p, NEW ops, IsPlan(ops), NEW expected, Apply(st, expected, ops, p).ok
  PROVE  PlanAdmitted(st, expected, ops)
<1>1. SUFFICES ASSUME ~ PlanAdmitted(st, expected, ops) PROVE FALSE
  OBVIOUS
<1>2. Apply(st, expected, ops, p) = Failure(st)
  BY <1>1, ApplyIsOutcome
<1>3. QED
  BY <1>2, SuccessFields

LEMMA PlanCarries ==
  ASSUME NEW st, NEW l, IsPlan(l), Linked(st, Replayed(l)),
         NEW before, NEW after, Writable(after), Bounded(after),
         IsFiniteSet(after.migrations \ before.migrations),
         Between(st, Replayed(l), before, after),
         NEW expected, NEW p, NEW ops, ops = plan(before, after),
         Apply(st, expected, ops, p).ok
  PROVE  LET st2 == Apply(st, expected, ops, p).store
         IN  CarriedOut(st, l, st2, Grown(l, ops, st2.revision), before, after)
<1> DEFINE n == st.revision + 1
           e == EventsOf(ops, n)
           more == l \o e
           len == Len(ops)
           out(i) == Outcome(st, ops, p, i)
           pre(i) == Prefix(more, Len(l) + i)
<1>1. /\ IsPlan(ops) /\ len \in Nat
      /\ \A i \in 1..len : Needed(before, after, ops[i])
      /\ \A op : Needed(before, after, op) => \E i \in 1..len : ops[i] = op
  <2>1. /\ ops \in Seq(Possible(before, after))
        /\ \A op : Among(op, ops) <=> Needed(before, after, op)
    BY PlanIs
  <2>2. QED
    BY <2>1 DEF Among, IsPlan
<1>2. PICK T : Follows(T, l, e, ops, n)
  BY <1>1, EventsAre
<1>a. Len(e) = len /\ \A i \in 1..len : e[i].operation = ops[i] /\ e[i].revision = n
  BY <1>2 DEF Follows
<1>b. ReadsOn(l, e)
  <2> HIDE DEF e, n
  <2>1. QED
    BY <1>2, GrownReadsOn
<1>3. /\ IsPlan(more) /\ Prefix(more, Len(l)) = Replayed(l)
      /\ \A i \in 1..len : pre(i) = Replay(pre(i - 1), e[i])
      /\ Replayed(more) = pre(len)
  <2> HIDE DEF e, len
  <2>1. QED
    BY <1>a, <1>b DEF ReadsOn
<1>4. /\ out(0) = Success(st)
      /\ \A i \in 1..len : out(i) = Step(st, p, out(i - 1), ops[i])
      /\ \A i \in 1..len : Accepts(out(i - 1).store, ops[i], p)
  BY <1>1, OutcomeStarts, OutcomeGoesOn, EveryOperationAccepted
<1>5. n \in Nat
  BY DEF Linked, Framed
<1>6. Len(l) + 0 = Len(l)
  BY <1>b DEF ReadsOn
<1>7. pre(0) = Replayed(l)
  BY <1>3, <1>6
<1> HIDE DEF e, more, len, out, pre, n
<1> DEFINE Good(i) ==
              /\ out(i) = Success(out(i).store)
              /\ out(i).store.revision = st.revision
              /\ Linked(out(i).store, pre(i))
              /\ Between(out(i).store, pre(i), before, after)
              /\ \A j \in 1..i : Done(out(i).store, pre(i), ops[j])
           K == {k \in Nat : k =< len => Good(k)}
<1>8. 0 \in K
  <2>1. out(0).store = st
    BY <1>4, SuccessFields
  <2>2. 1..0 = {}
    OBVIOUS
  <2>3. Good(0)
    BY <1>4, <1>7, <2>1, <2>2
  <2>4. QED
    BY <2>3
<1>9. ASSUME NEW k \in K PROVE k + 1 \in K
  <2>1. SUFFICES ASSUME k + 1 =< len PROVE Good(k + 1)
    OBVIOUS
  <2> DEFINE s == out(k).store
             a == pre(k)
             op == ops[k + 1]
             res == ApplyOperation(s, op, n)
             acc2 == Replay(a, e[k + 1])
  <2>2. k + 1 \in 1..len /\ (k + 1) - 1 = k
    BY <1>1, <2>1
  <2>3. Good(k)
    <3> HIDE DEF Good
    <3>1. QED
      BY <1>1, <2>1
  <2>4. /\ Linked(s, a) /\ Between(s, a, before, after) /\ s.revision = st.revision
        /\ out(k) = Success(s)
    BY <2>3
  <2>5. Accepts(s, op, p) /\ Needed(before, after, op)
    BY <1>1, <1>4, <2>2
  <2>6. e[k + 1].operation = op /\ e[k + 1].revision = n
    BY <1>a, <2>2
  <2>7. out(k + 1) = Step(st, p, out(k), op) /\ pre(k + 1) = acc2
    BY <1>3, <1>4, <2>2
  <2>8. out(k + 1) = Success(res)
    <3> HIDE DEF s, op
    <3>1. Step(st, p, Success(s), op) = Success(res)
      BY <2>5, StepCarriesOn DEF n
    <3>2. QED
      BY <2>4, <2>7, <3>1 DEF op
  <2>9. Carries(s, a, op, res, acc2, before, after)
    <3> DEFINE ev == e[k + 1]
    <3> HIDE DEF s, a, op, ev
    <3>1. ev.operation = op /\ ev.revision = n /\ n \in Nat
      BY <1>5, <2>6 DEF ev
    <3>2. Carries(s, a, op, ApplyOperation(s, op, ev.revision), Replay(a, ev), before, after)
      BY <1>5, <2>4, <2>5, <3>1, OperationCarries
    <3>3. QED
      BY <3>1, <3>2 DEF ev
  <2>10. out(k + 1).store = res
    BY <2>8, SuccessFields
  <2>11. \A j \in 1..k : Done(s, a, ops[j]) /\ Needed(before, after, ops[j])
    BY <1>1, <2>1, <2>3
  <2> HIDE DEF s, a, op, res, acc2, Good
  <2>12. /\ Linked(res, acc2) /\ res.revision = s.revision /\ Done(res, acc2, op)
         /\ Advances(s, a, res, acc2, before, after)
    BY <2>9 DEF Carries
  <2>13. Between(res, acc2, before, after)
    BY <2>4, <2>12, AdvancingKeepsBetween DEF Linked
  <2>14. \A j \in 1..k : Done(res, acc2, ops[j])
    BY <2>11, <2>12, AdvancingKeepsDone
  <2>15. \A j \in 1..k + 1 : Done(res, acc2, ops[j])
    <3>1. TAKE j \in 1..k + 1
    <3>2. CASE j = k + 1
      BY <2>12, <3>2 DEF op
    <3>3. CASE j # k + 1
      <4>1. j \in 1..k
        BY <3>3
      <4>2. QED
        BY <2>14, <4>1
    <3>4. QED
      BY <3>2, <3>3
  <2>16. QED
    BY <2>4, <2>7, <2>8, <2>10, <2>12, <2>13, <2>15 DEF Good
<1>10. K = Nat
  <2>1. K \in SUBSET Nat
    OBVIOUS
  <2> HIDE DEF K
  <2>2. QED
    BY <1>8, <1>9, <2>1, Induction
<1>11. Good(len)
  <2> HIDE DEF Good
  <2>1. len \in K
    BY <1>1, <1>10
  <2>2. QED
    BY <1>1, <2>1
<1> DEFINE s == out(len).store
           a == pre(len)
           result == Apply(st, expected, ops, p)
           st2 == result.store
<1>12. /\ out(len) = Success(s) /\ s.revision = st.revision /\ Linked(s, a)
       /\ Between(s, a, before, after) /\ \A j \in 1..len : Done(s, a, ops[j])
  BY <1>11
<1>13. PlanAdmitted(st, expected, ops)
  BY <1>1, AppliedWasAdmitted
<1>14. result = Success(Advanced(s))
  <2>1. Outcome(st, ops, p, Len(ops)) = Success(s)
    BY <1>12 DEF out, len
  <2> HIDE DEF s, result
  <2>2. QED
    BY <1>1, <1>13, <2>1, ApplySucceeds DEF result
<1>15. st2 = Advanced(s)
  <2> HIDE DEF s, result
  <2>1. QED
    BY <1>14, SuccessFields
<1> HIDE DEF s, a, result, st2, Good, K
<1>16. \A op : Needed(before, after, op) => Done(s, a, op)
  BY <1>1, <1>12
<1>17. /\ Linked(st2, a) /\ Between(st2, a, before, after) /\ st2.revision = n
       /\ \A op : Needed(before, after, op) => Done(st2, a, op)
  BY <1>12, <1>15, <1>16, CountingKeepsLinks DEF n
<1>18. Grown(l, ops, st2.revision) = more
  BY <1>17 DEF Grown, more, e
<1>19. Replayed(more) = a
  BY <1>3 DEF a
<1>20. CarriedOut(st, l, st2, more, before, after)
  BY <1>3, <1>17, <1>19 DEF CarriedOut, n
<1>21. QED
  BY <1>18, <1>20 DEF st2, result
----------------------------------------------------------------------------
(* The order within a plan: which rows live after each operation, and      *)
(* whether the next one finds what _apply requires.                        *)
LivingAfter(R, op) ==
    CASE op.kind = INSERT_ROW -> R \cup {RowOf(op)}
      [] op.kind = DELETE_ROW -> R \ {RowOf(op)}
      [] OTHER -> R

Fits(R, op) ==
    /\ op.kind = INSERT_ROW => RowOf(op) \notin R
    /\ op.kind \in {SET_CELL, DELETE_ROW} => RowOf(op) \in R

Living(h, R, s) ==
    /\ h[0] = R
    /\ \A i \in 1..Len(s) : Fits(h[i - 1], s[i]) /\ h[i] = LivingAfter(h[i - 1], s[i])

(* The operations s can be carried out where the rows R live, and leave Q. *)
Leads(R, s, Q) == \E h : Living(h, R, s) /\ h[Len(s)] = Q

LEMMA LeadsNowhere ==
  ASSUME NEW R, NEW s, Len(s) = 0
  PROVE  Leads(R, s, R)
<1> DEFINE h == [i \in {0} |-> R]
<1>1. h[0] = R /\ 1..0 = {}
  OBVIOUS
<1> HIDE DEF h
<1>2. Living(h, R, s) /\ h[Len(s)] = R
  BY <1>1 DEF Living
<1>3. QED
  BY <1>2 DEF Leads

LEMMA LeadsOnce ==
  ASSUME NEW R, NEW op, Fits(R, op)
  PROVE  Leads(R, <<op>>, LivingAfter(R, op))
<1> DEFINE Q == LivingAfter(R, op)
           h == [i \in {0, 1} |-> IF i = 0 THEN R ELSE Q]
           s == <<op>>
<1>1. h[0] = R /\ h[1] = Q
  OBVIOUS
<1>2. Len(s) = 1 /\ s[1] = op /\ 1..1 = {1}
  OBVIOUS
<1> HIDE DEF h, s, Q
<1>3. Living(h, R, s) /\ h[Len(s)] = Q
  BY <1>1, <1>2 DEF Living, Q
<1>4. QED
  BY <1>3 DEF Leads, s, Q

LEMMA LeadsOn ==
  ASSUME NEW T, NEW s \in Seq(T), NEW t \in Seq(T), NEW R, NEW Q, NEW P,
         Leads(R, s, Q), Leads(Q, t, P)
  PROVE  Leads(R, s \o t, P)
<1>1. PICK f : Living(f, R, s) /\ f[Len(s)] = Q
  BY DEF Leads
<1>2. PICK g : Living(g, Q, t) /\ g[Len(t)] = P
  BY DEF Leads
<1> DEFINE m == Len(s)
           n == Len(t)
           u == s \o t
           h == [i \in 0..m + n |-> IF i =< m THEN f[i] ELSE g[i - m]]
<1>3. /\ m \in Nat /\ n \in Nat /\ Len(u) = m + n
      /\ \A i \in 1..m : u[i] = s[i]
      /\ \A i \in 1..n : u[m + i] = t[i]
  OBVIOUS
<1> HIDE DEF u, m, n
<1>4. \A i \in 0..m : h[i] = f[i]
  BY <1>3
<1>5. \A i \in 0..n : h[m + i] = g[i]
  <2>1. TAKE i \in 0..n
  <2>2. CASE i = 0
    BY <1>1, <1>2, <1>3, <2>2 DEF Living, m
  <2>3. CASE i # 0
    <3>1. m + i \in 0..m + n /\ ~ (m + i =< m) /\ (m + i) - m = i
      BY <1>3, <2>3
    <3>2. QED
      BY <3>1
  <2>4. QED
    BY <2>2, <2>3
<1> HIDE DEF h
<1>6. ASSUME NEW i \in 1..m + n
      PROVE  Fits(h[i - 1], u[i]) /\ h[i] = LivingAfter(h[i - 1], u[i])
  <2>1. CASE i \in 1..m
    <3>1. h[i] = f[i] /\ h[i - 1] = f[i - 1] /\ u[i] = s[i]
      BY <1>3, <1>4, <2>1
    <3>2. QED
      BY <1>1, <2>1, <3>1 DEF Living, m
  <2>2. CASE i \notin 1..m
    <3>1. PICK j \in 1..n : i = m + j
      <4>1. i - m \in 1..n /\ i = m + (i - m)
        BY <1>3, <2>2
      <4>2. QED
        BY <4>1
    <3>2. h[i] = g[j] /\ u[i] = t[j]
      BY <1>3, <1>5, <3>1
    <3>3. h[i - 1] = g[j - 1]
      <4>1. j - 1 \in 0..n /\ i - 1 = m + (j - 1)
        BY <1>3, <3>1
      <4>2. QED
        BY <1>5, <4>1
    <3>4. QED
      BY <1>2, <3>2, <3>3 DEF Living, n
  <2>3. QED
    BY <2>1, <2>2
<1>7. h[0] = R
  BY <1>1, <1>3, <1>4 DEF Living
<1>8. h[m + n] = P
  BY <1>2, <1>3, <1>5 DEF n
<1>9. Living(h, R, u) /\ h[Len(u)] = P
  BY <1>3, <1>6, <1>7, <1>8 DEF Living
<1>10. QED
  BY <1>9 DEF Leads, u

(* One sequence after the other.                                           *)
LEMMA LeadsThrough ==
  ASSUME NEW T, NEW n \in Nat, NEW seqs \in [1..n -> Seq(T)], NEW G,
         \A i \in 1..n : Leads(G[i - 1], seqs[i], G[i])
  PROVE  Leads(G[0], FlattenSeq(seqs), G[n])
<1>0. Len(seqs) = n
  OBVIOUS
<1>1. CASE n = 0
  <2>1. FlattenSeq(seqs) = seqs
    BY <1>0, <1>1 DEF FlattenSeq
  <2>2. QED
    BY <1>0, <1>1, <2>1, LeadsNowhere
<1>2. CASE n # 0
  <2>a. PICK f : Stepwise(f, n, seqs)
    BY <1>0, <1>2, FlattenedStepwise
  <2>1. /\ FlattenSeq(seqs) = f[n] /\ f[1] = seqs[1]
        /\ \A i \in 1..n : i # 1 => f[i] = f[i - 1] \o seqs[i]
    BY <2>a DEF Stepwise
  <2> DEFINE Upto(k) == f[k] \in Seq(T) /\ Leads(G[0], f[k], G[k])
             K == {k \in Nat : k + 1 =< n => Upto(k + 1)}
  <2>2. 0 \in K
    <3>1. 1 \in 1..n /\ 1 - 1 = 0 /\ seqs[1] \in Seq(T)
      BY <1>2
    <3>2. Upto(1)
      BY <2>1, <3>1
    <3>3. QED
      BY <3>2
  <2>3. ASSUME NEW k \in K PROVE k + 1 \in K
    <3>1. SUFFICES ASSUME (k + 1) + 1 =< n PROVE Upto((k + 1) + 1)
      OBVIOUS
    <3> DEFINE j == k + 1
    <3> HIDE DEF Upto
    <3>2. Upto(j) /\ j \in Nat /\ j + 1 \in 1..n /\ j + 1 # 1 /\ (j + 1) - 1 = j
      BY <3>1
    <3> HIDE DEF j
    <3>3. f[j + 1] = f[j] \o seqs[j + 1] /\ seqs[j + 1] \in Seq(T)
      BY <2>1, <3>2
    <3>4. Leads(G[j], seqs[j + 1], G[j + 1])
      BY <3>2
    <3>5. Upto(j + 1)
      BY <3>2, <3>3, <3>4, LeadsOn DEF Upto
    <3>6. QED
      BY <3>5 DEF j
  <2>4. K = Nat
    <3>1. K \in SUBSET Nat
      OBVIOUS
    <3> HIDE DEF K
    <3>2. QED
      BY <2>2, <2>3, <3>1, Induction
  <2>5. n - 1 \in K /\ (n - 1) + 1 = n
    <3> HIDE DEF K
    <3>1. QED
      BY <1>2, <2>4
  <2>6. Upto(n)
    <3> HIDE DEF Upto
    <3>1. QED
      BY <2>5
  <2>7. QED
    BY <2>1, <2>6
<1>3. QED
  BY <1>1, <1>2

(* The sequences of a set of things, one thing after the other: H says     *)
(* which rows live when some of them are through.                          *)
LEMMA LeadsForEach ==
  ASSUME NEW S, IsFiniteSet(S), NEW T, NEW F \in [S -> Seq(T)], NEW H,
         \A U \in SUBSET S : \A e \in S : e \notin U => Leads(H[U], F[e], H[U \cup {e}])
  PROVE  Leads(H[{}], Listed(F, S), H[S])
<1> DEFINE n == Cardinality(S)
           s == SetToSeq(S)
           seqs == [i \in 1..n |-> F[s[i]]]
           through(i) == {s[j] : j \in 1..i}
           G == [i \in 0..n |-> H[through(i)]]
<1>1. /\ n \in Nat /\ s \in [1..n -> S] /\ \A e \in S : \E i \in 1..n : s[i] = e
      /\ \A i, j \in 1..n : s[i] = s[j] => i = j
  BY AllListed
<1>2. Listed(F, S) = FlattenSeq(seqs)
  BY DEF Listed
<1> HIDE DEF n, s
<1>3. seqs \in [1..n -> Seq(T)] /\ \A i \in 1..n : seqs[i] = F[s[i]]
  BY <1>1
<1> HIDE DEF seqs
<1>4. through(0) = {} /\ through(n) = S
  <2>1. 1..0 = {}
    OBVIOUS
  <2>2. QED
    BY <1>1, <2>1
<1>5. ASSUME NEW i \in 1..n
      PROVE  Leads(G[i - 1], seqs[i], G[i])
  <2>1. i - 1 \in 0..n /\ i \in 0..n
    BY <1>1
  <2>2. through(i - 1) \in SUBSET S /\ s[i] \in S /\ s[i] \notin through(i - 1)
    <3>1. \A j \in 1..i - 1 : j \in 1..n /\ j # i
      BY <1>1
    <3>2. QED
      BY <1>1, <3>1
  <2>3. through(i) = through(i - 1) \cup {s[i]}
    <3>1. \A j : j \in 1..i <=> j \in 1..i - 1 \/ j = i
      BY <1>1
    <3>2. QED
      BY <3>1
  <2>4. G[i - 1] = H[through(i - 1)] /\ G[i] = H[through(i)]
    BY <2>1
  <2> HIDE DEF through, G
  <2>5. QED
    BY <1>3, <2>2, <2>3, <2>4
<1>6. G[0] = H[{}] /\ G[n] = H[S]
  <2>1. 0 \in 0..n /\ n \in 0..n
    BY <1>1
  <2>2. G[0] = H[through(0)] /\ G[n] = H[through(n)]
    BY <2>1
  <2> HIDE DEF through, G
  <2>3. QED
    BY <1>4, <2>2
<1> HIDE DEF G, through
<1>7. Leads(G[0], FlattenSeq(seqs), G[n])
  BY <1>1, <1>3, <1>5, LeadsThrough
<1>8. QED
  BY <1>2, <1>6, <1>7

(* Deletions take away the rows that are gone.                             *)
LEMMA DeletionsLead ==
  ASSUME NEW before, NEW after
  PROVE  Leads(RowsOf(before), Deletions(before, after), RowsOf(before) \cap RowsOf(after))
<1> DEFINE A == RowsOf(before)
           S == RowsOf(before) \ RowsOf(after)
           T == {Deletion(row) : row \in S}
           F == DeletionsBy(before, after)
           H == [U \in SUBSET S |-> A \ U]
<1>1. IsFiniteSet(S) /\ \A row \in S : row = <<row[1], row[2]>>
  <2>1. S \in SUBSET RowsOf(before) /\ IsFiniteSet(RowsOf(before)) /\ RowsOf(before) \subseteq Row
    BY FiniteRows
  <2>2. QED
    BY <2>1, FS_Subset, RowPair
<1>2. ASSUME NEW row \in S PROVE F[row] = <<Deletion(row)>> /\ F[row] \in Seq(T)
  BY DEF DeletionsBy
<1>3. F \in [S -> Seq(T)]
  <2>1. F = [row \in S |-> F[row]]
    BY DEF DeletionsBy
  <2> HIDE DEF F, S, T
  <2>2. QED
    BY <1>2, <2>1
<1>4. S \subseteq A /\ A \ S = RowsOf(before) \cap RowsOf(after)
  OBVIOUS
<1> HIDE DEF F, S, T, A
<1>5. ASSUME NEW U \in SUBSET S, NEW row \in S, row \notin U
      PROVE  Leads(H[U], F[row], H[U \cup {row}])
  <2>1. Deletion(row).kind = DELETE_ROW /\ RowOf(Deletion(row)) = row
    BY <1>1, OperationParts DEF Deletion, RowOf
  <2>2. H[U] = A \ U /\ H[U \cup {row}] = (A \ U) \ {row} /\ row \in A \ U
    BY <1>4, <1>5
  <2>3. Fits(H[U], Deletion(row)) /\ LivingAfter(H[U], Deletion(row)) = H[U \cup {row}]
    BY <2>1, <2>2 DEF Fits, LivingAfter
  <2> HIDE DEF H
  <2>4. QED
    BY <1>2, <2>3, LeadsOnce
<1>6. H[{}] = A /\ H[S] = A \ S
  OBVIOUS
<1> HIDE DEF H
<1>7. Leads(H[{}], Listed(F, S), H[S])
  BY <1>1, <1>3, <1>5, LeadsForEach
<1>8. QED
  BY <1>4, <1>6, <1>7, DeletionsListed DEF A, F, S

(* What leaves the rows as they are may come in any number.                *)
LEMMA LeadsAround ==
  ASSUME NEW S, IsFiniteSet(S), NEW T, NEW F \in [S -> Seq(T)], NEW R,
         \A e \in S : Leads(R, F[e], R)
  PROVE  Leads(R, Listed(F, S), R)
<1> DEFINE H == [U \in SUBSET S |-> R]
<1>1. \A U \in SUBSET S : H[U] = R
  OBVIOUS
<1> HIDE DEF H
<1>2. \A U \in SUBSET S : \A e \in S : e \notin U => Leads(H[U], F[e], H[U \cup {e}])
  <2>1. \A U \in SUBSET S : \A e \in S : U \cup {e} \in SUBSET S
    OBVIOUS
  <2>2. QED
    BY <1>1, <2>1
<1>3. Leads(H[{}], Listed(F, S), H[S])
  BY <1>2, LeadsForEach
<1>4. H[{}] = R /\ H[S] = R
  <2>1. {} \in SUBSET S /\ S \in SUBSET S
    OBVIOUS
  <2>2. QED
    BY <1>1, <2>1
<1>5. QED
  BY <1>3, <1>4

LEMMA MarksLead ==
  ASSUME NEW before, NEW after, IsFiniteSet(after.migrations \ before.migrations), NEW R
  PROVE  Leads(R, Marks(before, after), R)
<1> DEFINE S == after.migrations \ before.migrations
           T == {Mark(v) : v \in S}
           F == MarksBy(before, after)
<1>1. ASSUME NEW v \in S PROVE F[v] = <<Mark(v)>> /\ F[v] \in Seq(T)
  <2>1. F[v] = <<Mark(v)>> /\ Mark(v) \in T
    BY DEF MarksBy
  <2> HIDE DEF F, T
  <2>2. QED
    BY <2>1
<1>2. F \in [S -> Seq(T)]
  <2>1. F = [v \in S |-> F[v]]
    BY DEF MarksBy
  <2> HIDE DEF F, S, T
  <2>2. QED
    BY <1>1, <2>1
<1>3. IsFiniteSet(S)
  OBVIOUS
<1> HIDE DEF F, S, T
<1>4. ASSUME NEW v \in S PROVE Leads(R, F[v], R)
  <2>1. Mark(v).kind = MARK_MIGRATION
    BY OperationParts DEF Mark
  <2>2. Fits(R, Mark(v)) /\ LivingAfter(R, Mark(v)) = R
    BY <2>1 DEF Fits, LivingAfter
  <2>3. QED
    BY <1>1, <2>2, LeadsOnce
<1>5. Leads(R, Listed(F, S), R)
  BY <1>2, <1>3, <1>4, LeadsAround
<1>6. QED
  BY <1>5, MarksListed DEF F, S

(* The cells of a row that lives.                                          *)
LEMMA CellsLead ==
  ASSUME NEW before, NEW after, NEW row \in Row, IsFiniteSet(ColumnsOf(after, row)),
         NEW R, row \in R
  PROVE  Leads(R, CellsOfRow(before, after, row), R)
<1> DEFINE S == ColumnsOf(after, row)
           T == {Setting(after, row, c) : c \in S}
           F == CellsBy(before, after, row)
<1>1. ASSUME NEW c \in S
      PROVE  F[c] = <<>> \/ F[c] = <<Setting(after, row, c)>>
  BY DEF CellsBy, CellOperations, Operations, Setting, OperationOf, Target
<1>2. F \in [S -> Seq(T)]
  <2>1. F = [c \in S |-> F[c]]
    BY DEF CellsBy
  <2>2. \A c \in S : Setting(after, row, c) \in T
    OBVIOUS
  <2> HIDE DEF F, S, T
  <2>3. \A c \in S : <<>> \in Seq(T) /\ <<Setting(after, row, c)>> \in Seq(T)
    BY <2>2
  <2>4. QED
    BY <1>1, <2>1, <2>3
<1>3. IsFiniteSet(S)
  OBVIOUS
<1> HIDE DEF F, S, T
<1>4. ASSUME NEW c \in S PROVE Leads(R, F[c], R)
  <2> DEFINE op == Setting(after, row, c)
  <2>1. op.kind = SET_CELL /\ RowOf(op) = row
    BY OperationParts, RowPair DEF Setting, RowOf
  <2> HIDE DEF op
  <2>2. Fits(R, op) /\ LivingAfter(R, op) = R
    BY <2>1 DEF Fits, LivingAfter
  <2>3. Leads(R, <<op>>, R)
    BY <2>2, LeadsOnce
  <2>4. Leads(R, <<>>, R)
    BY LeadsNowhere
  <2>5. QED
    BY <1>1, <2>3, <2>4 DEF op
<1>5. Leads(R, Listed(F, S), R)
  BY <1>2, <1>3, <1>4, LeadsAround
<1>6. QED
  BY <1>5, CellsListed DEF F, S

(* A row comes in if it is new, and is filled.                             *)
LEMMA RowLeads ==
  ASSUME NEW before, NEW after, Writable(after), NEW row \in RowsOf(after), NEW R,
         row \in RowsOf(before) <=> row \in R
  PROVE  Leads(R, RowOperations(before, after, row), R \cup {row})
<1> DEFINE Q == R \cup {row}
           head == IF row \in RowsOf(before) THEN <<>> ELSE <<Insertion(row)>>
           E == CellsOfRow(before, after, row)
           P == Possible(before, after)
<1>1. RowOperations(before, after, row) = head \o E
  BY DEF RowOperations, Operations, Insertion, OperationOf, ColumnsOf, CellsOfRow
<1>2. row \in Row /\ row \in Q /\ IsFiniteSet(ColumnsOf(after, row))
  BY FiniteRows DEF Writable
<1>3. E \in Seq(P)
  BY CellsAre
<1>4. head \in Seq(P)
  <2>1. Insertion(row) \in P
    BY <1>2, PossibleHas
  <2> HIDE DEF P
  <2>2. <<Insertion(row)>> \in Seq(P) /\ <<>> \in Seq(P)
    BY <2>1
  <2>3. QED
    BY <2>2
<1> HIDE DEF P, E, Q
<1>5. Leads(Q, E, Q)
  BY <1>2, CellsLead DEF E
<1>6. Leads(R, head, Q)
  <2>1. CASE row \in RowsOf(before)
    <3>1. head = <<>> /\ Q = R
      BY <2>1 DEF Q
    <3>2. QED
      BY <3>1, LeadsNowhere
  <2>2. CASE row \notin RowsOf(before)
    <3> DEFINE op == Insertion(row)
    <3>1. op.kind = INSERT_ROW /\ RowOf(op) = row
      BY <1>2, OperationParts, RowPair DEF Insertion, RowOf
    <3>2. head = <<op>>
      BY <2>2
    <3> HIDE DEF op, head
    <3>3. Fits(R, op) /\ LivingAfter(R, op) = Q
      BY <2>2, <3>1 DEF Fits, LivingAfter, Q
    <3>4. QED
      BY <3>2, <3>3, LeadsOnce
  <2>3. QED
    BY <2>1, <2>2
<1> HIDE DEF head
<1>7. Leads(R, head \o E, Q)
  BY <1>3, <1>4, <1>5, <1>6, LeadsOn
<1>8. QED
  BY <1>1, <1>7 DEF Q

LEMMA RowsLead ==
  ASSUME NEW before, NEW after, Writable(after)
  PROVE  Leads(RowsOf(before) \cap RowsOf(after), Rows(before, after), RowsOf(after))
<1> DEFINE K == RowsOf(before) \cap RowsOf(after)
           S == RowsOf(after)
           T == Possible(before, after)
           F == RowsBy(before, after)
           H == [U \in SUBSET S |-> K \cup U]
<1>1. IsFiniteSet(S)
  BY FiniteRows
<1>2. F \in [S -> Seq(T)] /\ \A row \in S : F[row] = RowOperations(before, after, row)
  <2>1. \A row \in S : RowOperations(before, after, row) \in Seq(T)
    BY RowIs
  <2> HIDE DEF T
  <2>2. QED
    BY <2>1 DEF RowsBy
<1>3. ASSUME NEW U \in SUBSET S, NEW row \in S, row \notin U
      PROVE  Leads(H[U], F[row], H[U \cup {row}])
  <2>1. H[U] = K \cup U /\ H[U \cup {row}] = (K \cup U) \cup {row}
    OBVIOUS
  <2>2. row \in RowsOf(before) <=> row \in K \cup U
    BY <1>3
  <2> HIDE DEF H, F
  <2>3. Leads(K \cup U, RowOperations(before, after, row), (K \cup U) \cup {row})
    <3> DEFINE R == K \cup U
    <3>1. row \in RowsOf(before) <=> row \in R
      BY <2>2
    <3> HIDE DEF R
    <3>2. Leads(R, RowOperations(before, after, row), R \cup {row})
      BY <3>1, RowLeads
    <3>3. QED
      BY <3>2 DEF R
  <2>4. QED
    BY <1>2, <2>1, <2>3
<1>4. H[{}] = K /\ H[S] = S
  OBVIOUS
<1> HIDE DEF F, S, T, H
<1>5. Leads(H[{}], Listed(F, S), H[S])
  BY <1>1, <1>2, <1>3, LeadsForEach
<1>6. QED
  BY <1>4, <1>5, RowsListed DEF F, S

(* A plan can be carried out, row by row, and leaves the rows planned for: *)
(* deletions find their rows, insertions find none, and cells come after   *)
(* the insertion of their row.                                             *)
LEMMA PlanLeads ==
  ASSUME NEW before, NEW after, Writable(after), IsFiniteSet(after.migrations \ before.migrations)
  PROVE  Leads(RowsOf(before), plan(before, after), RowsOf(after))
<1> DEFINE A == RowsOf(before)
           B == RowsOf(after)
           K == RowsOf(before) \cap RowsOf(after)
           T == Possible(before, after)
           head == IF metadata(before) = metadata(after) THEN <<>> ELSE <<CatalogWrite(after)>>
           deletions == Deletions(before, after)
           rows == Rows(before, after)
           marks == Marks(before, after)
<1>1. plan(before, after) = head \o deletions \o rows \o marks
  BY DEF plan, Operations, CatalogWrite, OperationOf, Rows
<1>2. deletions \in Seq(T) /\ marks \in Seq(T)
  BY DeletionsAre, MarksAre
<1>3. rows \in Seq(T)
  <2> DEFINE F == RowsBy(before, after)
  <2>1. IsFiniteSet(B)
    BY FiniteRows
  <2>2. F \in [B -> Seq(T)]
    <3>1. \A row \in B : RowOperations(before, after, row) \in Seq(T)
      BY RowIs
    <3> HIDE DEF T
    <3>2. QED
      BY <3>1 DEF RowsBy
  <2> HIDE DEF F, T, B
  <2>3. Listed(F, B) \in Seq(T)
    BY <2>1, <2>2, AmongEach
  <2>4. QED
    BY <2>3, RowsListed DEF F, B
<1>4. head \in Seq(T) /\ Leads(A, head, A)
  <2> DEFINE op == CatalogWrite(after)
  <2>1. op \in T
    BY PossibleHas
  <2>2. op.kind = PUT_CATALOG
    BY OperationParts DEF CatalogWrite
  <2> HIDE DEF op, T
  <2>3. <<op>> \in Seq(T) /\ <<>> \in Seq(T)
    BY <2>1
  <2>4. Fits(A, op) /\ LivingAfter(A, op) = A
    BY <2>2 DEF Fits, LivingAfter
  <2>5. Leads(A, <<op>>, A) /\ Leads(A, <<>>, A)
    BY <2>4, LeadsOnce, LeadsNowhere
  <2>6. QED
    BY <2>3, <2>5 DEF op
<1>5. Leads(A, deletions, K) /\ Leads(K, rows, B) /\ Leads(B, marks, B)
  BY DeletionsLead, RowsLead, MarksLead
<1> HIDE DEF A, B, K, T, head, deletions, rows, marks
<1>6. head \o deletions \in Seq(T) /\ Leads(A, head \o deletions, K)
  BY <1>2, <1>4, <1>5, LeadsOn
<1> DEFINE two == head \o deletions
<1> HIDE DEF two
<1>7. two \in Seq(T) /\ Leads(A, two, K)
  BY <1>6 DEF two
<1>8. two \o rows \in Seq(T) /\ Leads(A, two \o rows, B)
  BY <1>3, <1>5, <1>7, LeadsOn
<1> DEFINE three == two \o rows
<1> HIDE DEF three
<1>9. three \in Seq(T) /\ Leads(A, three, B)
  BY <1>8 DEF three
<1>10. Leads(A, three \o marks, B)
  BY <1>2, <1>5, <1>9, LeadsOn
<1>11. QED
  BY <1>1, <1>10 DEF two, three, A, B

(* _apply accepts an operation of a plan that finds what it needs.         *)
Fitted(st, op, n, p) ==
    /\ Accepts(st, op, p)
    /\ Framed(ApplyOperation(st, op, n))
    /\ ApplyOperation(st, op, n).rows = LivingAfter(st.rows, op)

LEMMA NeededIsAccepted ==
  ASSUME NEW st, Framed(st), NEW before, NEW after, Writable(after),
         NEW op, Needed(before, after, op), before.migrations = after.migrations,
         NEW p, p \/ metadata(before) = metadata(after), Fits(st.rows, op), NEW n \in Nat
  PROVE  Fitted(st, op, n, p)
<1> DEFINE res == ApplyOperation(st, op, n)
<1>1. CASE WritesCatalog(before, after, op)
  <2>1. op = CatalogWrite(after) /\ p
    BY <1>1 DEF WritesCatalog
  <2>2. op.kind = PUT_CATALOG /\ op.table = ZeroKey /\ op.row = ZeroKey /\ op.column = CATALOG_KEY
    BY <2>1, OperationParts DEF CatalogWrite
  <2>3. CATALOG_KEY # ZeroKey
    BY ProjectionAssumption, CanonicalAssumption
  <2>4. KeepsRows(st, res, st.migrations)
    BY <2>1, CatalogInStore
  <2> HIDE DEF res
  <2>5. Framed(res) /\ res.rows = st.rows
    BY <2>4 DEF KeepsRows, RowsKept
  <2>6. Accepts(st, op, p)
    BY <2>1, <2>2, <2>3 DEF Accepts, WellFormed, Applicable, CatalogKinds
  <2>7. LivingAfter(st.rows, op) = st.rows
    BY <2>2 DEF LivingAfter
  <2>8. QED
    BY <2>5, <2>6, <2>7 DEF Fitted, res
<1>2. CASE DeletesRow(before, after, op)
  <2>1. PICK row \in RowsOf(before) \ RowsOf(after) : op = Deletion(row)
    BY <1>2 DEF DeletesRow
  <2>2. row \in Row /\ row = <<row[1], row[2]>> /\ row[1] # ZeroKey /\ row[2] # ZeroKey
    BY FiniteRows, RowPair, CanonicalAssumption
  <2>3. /\ op.kind = DELETE_ROW /\ op.table = row[1] /\ op.row = row[2]
        /\ op.column = ZeroKey /\ op.data = EmptyData
    BY <2>1, OperationParts DEF Deletion
  <2>4. RowOf(op) = row
    BY <2>2, <2>3 DEF RowOf
  <2>5. Accepts(st, op, p)
    BY <2>2, <2>3, <2>4 DEF Accepts, WellFormed, Applicable, CatalogKinds, RowKinds, Fits
  <2>6. DeletesInStore(st, res, row, n)
    BY <2>1, <2>2, <2>5, DeletionInStore
  <2> HIDE DEF res
  <2>7. Framed(res) /\ res.rows = st.rows \ {row}
    BY <2>6 DEF DeletesInStore, RowDeleted
  <2>8. LivingAfter(st.rows, op) = st.rows \ {row}
    BY <2>3, <2>4 DEF LivingAfter
  <2>9. QED
    BY <2>5, <2>7, <2>8 DEF Fitted, res
<1>3. CASE InsertsRow(before, after, op)
  <2>1. PICK row \in RowsOf(after) \ RowsOf(before) : op = Insertion(row)
    BY <1>3 DEF InsertsRow
  <2>2. row \in Row /\ row = <<row[1], row[2]>> /\ row[1] # ZeroKey /\ row[2] # ZeroKey
    BY FiniteRows, RowPair, CanonicalAssumption
  <2>3. /\ op.kind = INSERT_ROW /\ op.table = row[1] /\ op.row = row[2]
        /\ op.column = ZeroKey /\ op.data = EmptyData
    BY <2>1, OperationParts DEF Insertion
  <2>4. RowOf(op) = row
    BY <2>2, <2>3 DEF RowOf
  <2>5. Accepts(st, op, p)
    BY <2>2, <2>3, <2>4 DEF Accepts, WellFormed, Applicable, CatalogKinds, RowKinds, Fits
  <2>6. InsertsInStore(st, res, row, n)
    BY <2>1, <2>2, <2>5, InsertionInStore
  <2> HIDE DEF res
  <2>7. Framed(res) /\ res.rows = st.rows \cup {row}
    BY <2>6 DEF InsertsInStore, RowInserted
  <2>8. LivingAfter(st.rows, op) = st.rows \cup {row}
    BY <2>3, <2>4 DEF LivingAfter
  <2>9. QED
    BY <2>5, <2>7, <2>8 DEF Fitted, res
<1>4. CASE SetsCell(before, after, op)
  <2>1. PICK row \in RowsOf(after), c \in Column : op = Setting(after, row, c)
    BY <1>4 DEF SetsCell, Writable
  <2>2. row \in Row /\ row = <<row[1], row[2]>> /\ row[1] # ZeroKey /\ row[2] # ZeroKey
    BY FiniteRows, RowPair, CanonicalAssumption
  <2>3. /\ op.kind = SET_CELL /\ op.table = row[1] /\ op.row = row[2] /\ op.column = c
        /\ c # ZeroKey
    BY <2>1, OperationParts, CanonicalAssumption DEF Setting
  <2>4. RowOf(op) = row
    BY <2>2, <2>3 DEF RowOf
  <2>5. Accepts(st, op, p)
    BY <2>2, <2>3, <2>4 DEF Accepts, WellFormed, Applicable, CatalogKinds, RowKinds, Fits
  <2>6. SetsInStore(st, res, row, c, Target(after, row, c), n)
    BY <2>1, <2>2, <2>5, SettingInStore
  <2> HIDE DEF res
  <2>7. Framed(res) /\ res.rows = st.rows
    BY <2>6 DEF SetsInStore
  <2>8. LivingAfter(st.rows, op) = st.rows
    BY <2>3 DEF LivingAfter
  <2>9. QED
    BY <2>5, <2>7, <2>8 DEF Fitted, res
<1>5. CASE MarksMigration(before, after, op)
  BY <1>5 DEF MarksMigration
<1>6. QED
  BY <1>1, <1>2, <1>3, <1>4, <1>5 DEF Needed

LEMMA PlanIsAccepted ==
  ASSUME NEW st, Framed(st), NEW before, NEW after, Writable(after),
         st.rows = RowsOf(before), before.migrations = after.migrations,
         NEW p, p \/ metadata(before) = metadata(after),
         NEW ops, ops = plan(before, after), Len(ops) \in 1..MaxOperations
  PROVE  Apply(st, st.revision, ops, p).ok
<1> DEFINE len == Len(ops)
           n == st.revision + 1
           out(i) == Outcome(st, ops, p, i)
<1>1. IsFiniteSet(after.migrations \ before.migrations)
  <2>1. after.migrations \ before.migrations = {}
    OBVIOUS
  <2>2. QED
    BY <2>1, FS_EmptySet
<1>2. /\ IsPlan(ops) /\ len \in Nat
      /\ \A i \in 1..len : Needed(before, after, ops[i])
  <2>1. /\ ops \in Seq(Possible(before, after))
        /\ \A op : Among(op, ops) <=> Needed(before, after, op)
    BY <1>1, PlanIs
  <2>2. QED
    BY <2>1 DEF Among, IsPlan
<1>3. PICK h : Living(h, st.rows, ops)
  BY <1>1, PlanLeads DEF Leads
<1>4. /\ out(0) = Success(st)
      /\ \A i \in 1..len : out(i) = Step(st, p, out(i - 1), ops[i])
  BY <1>2, OutcomeStarts, OutcomeGoesOn
<1>5. n \in Nat
  BY DEF Framed
<1> HIDE DEF len, out
<1> DEFINE Good(i) ==
              LET s == out(i).store
              IN  out(i) = Success(s) /\ Framed(s) /\ s.rows = h[i]
           K == {k \in Nat : k =< len => Good(k)}
<1>6. 0 \in K
  <2>1. out(0).store = st /\ st.rows = h[0]
    BY <1>3, <1>4, SuccessFields DEF Living
  <2>2. Good(0)
    BY <1>4, <2>1
  <2>3. QED
    BY <2>2
<1>7. ASSUME NEW k \in K PROVE k + 1 \in K
  <2>1. SUFFICES ASSUME k + 1 =< len PROVE Good(k + 1)
    OBVIOUS
  <2> DEFINE s == out(k).store
             op == ops[k + 1]
             res == ApplyOperation(s, op, n)
  <2>2. k + 1 \in 1..len /\ (k + 1) - 1 = k
    BY <1>2, <2>1
  <2>3. out(k) = Success(s) /\ Framed(s) /\ s.rows = h[k]
    BY <1>2, <2>1
  <2>4. Needed(before, after, op) /\ out(k + 1) = Step(st, p, out(k), op)
    BY <1>2, <1>4, <2>2
  <2>5. Fits(h[k], op) /\ h[k + 1] = LivingAfter(h[k], op)
    BY <1>3, <2>2 DEF Living, len
  <2> HIDE DEF s, op
  <2>6. Fitted(s, op, n, p)
    <3> HIDE DEF n
    <3>1. QED
      BY <1>5, <2>3, <2>4, <2>5, NeededIsAccepted
  <2>7. out(k + 1) = Success(res)
    <3>1. Step(st, p, Success(s), op) = Success(res)
      BY <2>6, StepCarriesOn DEF Fitted
    <3>2. QED
      BY <2>3, <2>4, <3>1
  <2>8. out(k + 1).store = res
    <3> HIDE DEF res
    <3>1. QED
      BY <2>7, SuccessFields
  <2>9. Framed(res) /\ res.rows = h[k + 1]
    BY <2>3, <2>5, <2>6 DEF Fitted
  <2> HIDE DEF res
  <2>10. QED
    BY <2>7, <2>8, <2>9
<1>8. K = Nat
  <2>1. K \in SUBSET Nat
    OBVIOUS
  <2> HIDE DEF K
  <2>2. QED
    BY <1>6, <1>7, <2>1, Induction
<1>9. Good(len)
  <2> HIDE DEF Good
  <2>1. len \in K
    BY <1>2, <1>8
  <2>2. QED
    BY <1>2, <2>1
<1> DEFINE s == out(len).store
<1>10. Outcome(st, ops, p, Len(ops)) = Success(s)
  BY <1>9 DEF out, len
<1>11. PlanAdmitted(st, st.revision, ops)
  BY DEF PlanAdmitted
<1> HIDE DEF s
<1>12. Apply(st, st.revision, ops, p) = Success(Advanced(s))
  BY <1>2, <1>10, <1>11, ApplySucceeds
<1>13. QED
  BY <1>12, SuccessFields
----------------------------------------------------------------------------
(* A database as the statements keep it: identifiers below their           *)
(* allocators, and a value in every column of every row.                   *)
RowFilled(row, columns) ==
    /\ row = [version |-> row.version, values |-> row.values]
    /\ row.values = [c \in columns |-> row.values[c]]
    /\ \A c \in columns : row.values[c] \in Value \cup {Null}

TableFormed(table) ==
    /\ table = [columns |-> table.columns, next_row_id |-> table.next_row_id,
                rows |-> table.rows]
    /\ table.rows = [r \in DOMAIN table.rows |-> table.rows[r]]

TableSound(table) ==
    /\ DOMAIN table.columns \subseteq ObjectId
    /\ table.next_row_id \in Nat \ {0}
    /\ \A r \in DOMAIN table.rows :
          /\ r \in RowId /\ r < table.next_row_id
          /\ RowFilled(table.rows[r], DOMAIN table.columns)

DatabaseFormed(db) ==
    /\ db = [tables |-> db.tables, migrations |-> db.migrations,
             next_object_id |-> db.next_object_id]
    /\ db.tables = [t \in DOMAIN db.tables |-> db.tables[t]]

DatabaseSound(db) ==
    /\ DatabaseFormed(db)
    /\ db.next_object_id \in Nat \ {0}
    /\ \A t \in DOMAIN db.tables :
          /\ t \in ObjectId /\ t < db.next_object_id
          /\ TableFormed(db.tables[t]) /\ TableSound(db.tables[t])

(* The contract and the replay of its log show a database.                 *)
Shows(st, acc, db) ==
    /\ st.rows = RowsOf(db)
    /\ acc.meta = metadata(db)
    /\ st.migrations = db.migrations
    /\ \A row \in RowsOf(db) : \A c \in ColumnsOf(db, row) :
          Reads(acc, row, c, Target(db, row, c))

(* The parts of a replayed database.                                       *)
RowsIn(acc, t) == {r \in RowId : <<t, r>> \in DOMAIN acc.rows}

ValueRead(acc, t, r, c) ==
    IF c \in DOMAIN acc.rows[<<t, r>>].cells THEN acc.rows[<<t, r>>].cells[c].value ELSE Null

RowRead(acc, t, r) ==
    [version |-> acc.rows[<<t, r>>].version,
     values |-> [c \in DOMAIN acc.meta.tables[t] |-> ValueRead(acc, t, r, c)]]

TableRead(acc, t) ==
    [columns |-> acc.meta.tables[t], next_row_id |-> acc.allocators[t],
     rows |-> [r \in RowsIn(acc, t) |-> RowRead(acc, t, r)]]

DatabaseRead(acc) ==
    [tables |-> [t \in DOMAIN acc.meta.tables |-> TableRead(acc, t)],
     migrations |-> acc.meta.migrations, next_object_id |-> acc.meta.next_object_id]

CellsDecode(acc) ==
    \A t \in DOMAIN acc.meta.tables : \A r \in RowsIn(acc, t) :
        \A c \in DOMAIN acc.meta.tables[t] :
            c \in DOMAIN acc.rows[<<t, r>>].cells
                => Decodes(acc.meta.tables[t][c], acc.rows[<<t, r>>].cells[c])

LEMMA RebuildIs ==
  ASSUME NEW l
  PROVE  /\ rebuild(l).db = DatabaseRead(Replayed(l))
         /\ Replayed(l).ok /\ CellsDecode(Replayed(l)) => rebuild(l).ok
<1> DEFINE acc == Replayed(l)
<1> HIDE DEF acc
<1>1. rebuild(l) = [ok |-> acc.ok /\ CellsDecode(acc), db |-> DatabaseRead(acc)]
  BY Zenon DEF rebuild, DatabaseRead, TableRead, RowRead, ValueRead, RowsIn, CellsDecode, acc
<1> DEFINE d == DatabaseRead(acc)
           k == acc.ok /\ CellsDecode(acc)
<1>2. rebuild(l) = [ok |-> k, db |-> d]
  BY <1>1
<1> HIDE DEF d, k
<1>3. rebuild(l).db = d /\ rebuild(l).ok = k
  BY <1>2
<1>4. k => rebuild(l).ok
  BY <1>3
<1>5. QED
  BY <1>3, <1>4 DEF acc, d, k

(* Two databases with the same tables, columns, rows and values.           *)
Same(db, other) ==
    /\ DOMAIN db.tables = DOMAIN other.tables
    /\ \A t \in DOMAIN db.tables :
          /\ db.tables[t].columns = other.tables[t].columns
          /\ DOMAIN db.tables[t].rows = DOMAIN other.tables[t].rows
          /\ \A r \in DOMAIN db.tables[t].rows :
                db.tables[t].rows[r].values = other.tables[t].rows[r].values

AllocatesAs(acc, db) ==
    \A t \in DOMAIN db.tables : db.tables[t].next_row_id = acc.allocators[t]

VersionsAs(acc, db) ==
    \A t \in DOMAIN db.tables : \A r \in DOMAIN db.tables[t].rows :
        db.tables[t].rows[r].version = acc.rows[<<t, r>>].version

LEMMA MetadataParts ==
  ASSUME NEW db
  PROVE  /\ DOMAIN metadata(db).tables = DOMAIN db.tables
         /\ \A t \in DOMAIN db.tables : metadata(db).tables[t] = db.tables[t].columns
         /\ metadata(db).migrations = db.migrations
         /\ metadata(db).next_object_id = db.next_object_id
BY DEF metadata, Definitions

LEMMA RowsByTable ==
  ASSUME NEW db, NEW t \in Table, NEW r \in RowId
  PROVE  <<t, r>> \in RowsOf(db) <=> t \in DOMAIN db.tables /\ r \in DOMAIN db.tables[t].rows
BY DEF RowsOf, Row

LEMMA ReadParts ==
  ASSUME NEW acc
  PROVE  LET db == DatabaseRead(acc)
         IN  /\ DatabaseFormed(db)
             /\ DOMAIN db.tables = DOMAIN acc.meta.tables
             /\ db.migrations = acc.meta.migrations
             /\ db.next_object_id = acc.meta.next_object_id
             /\ \A t \in DOMAIN db.tables :
                  /\ TableFormed(db.tables[t])
                  /\ db.tables[t].columns = acc.meta.tables[t]
                  /\ db.tables[t].next_row_id = acc.allocators[t]
                  /\ DOMAIN db.tables[t].rows = RowsIn(acc, t)
                  /\ \A r \in RowsIn(acc, t) : db.tables[t].rows[r] = RowRead(acc, t, r)
<1> DEFINE db == DatabaseRead(acc)
           T == [t \in DOMAIN acc.meta.tables |-> TableRead(acc, t)]
<1>1. db = [tables |-> T, migrations |-> acc.meta.migrations,
            next_object_id |-> acc.meta.next_object_id]
  BY DEF DatabaseRead
<1>2. DOMAIN T = DOMAIN acc.meta.tables /\ \A t \in DOMAIN T : T[t] = TableRead(acc, t)
  OBVIOUS
<1>3. T = [t \in DOMAIN T |-> T[t]]
  BY <1>2
<1> HIDE DEF db, T
<1>4. /\ db.tables = T /\ db.migrations = acc.meta.migrations
      /\ db.next_object_id = acc.meta.next_object_id
      /\ db = [tables |-> db.tables, migrations |-> db.migrations,
               next_object_id |-> db.next_object_id]
  BY <1>1
<1>5. ASSUME NEW t
      PROVE  LET table == TableRead(acc, t)
             IN  /\ TableFormed(table)
                 /\ table.columns = acc.meta.tables[t]
                 /\ table.next_row_id = acc.allocators[t]
                 /\ DOMAIN table.rows = RowsIn(acc, t)
                 /\ \A r \in RowsIn(acc, t) : table.rows[r] = RowRead(acc, t, r)
  <2> DEFINE table == TableRead(acc, t)
             R == [r \in RowsIn(acc, t) |-> RowRead(acc, t, r)]
  <2>1. table = [columns |-> acc.meta.tables[t], next_row_id |-> acc.allocators[t], rows |-> R]
    BY DEF TableRead
  <2>2. /\ DOMAIN R = RowsIn(acc, t) /\ \A r \in RowsIn(acc, t) : R[r] = RowRead(acc, t, r)
        /\ R = [r \in DOMAIN R |-> R[r]]
    OBVIOUS
  <2> HIDE DEF table, R
  <2>3. /\ table.columns = acc.meta.tables[t] /\ table.next_row_id = acc.allocators[t]
        /\ table.rows = R
        /\ table = [columns |-> table.columns, next_row_id |-> table.next_row_id,
                    rows |-> table.rows]
    BY <2>1
  <2>4. QED
    BY <2>2, <2>3 DEF TableFormed, table
<1>6. QED
  BY <1>2, <1>3, <1>4, <1>5 DEF DatabaseFormed, db

(* The replayed database has the columns, rows and values that the         *)
(* contract shows.                                                         *)
LEMMA CellsRead ==
  ASSUME NEW st, NEW acc, Linked(st, acc), NEW db, DatabaseSound(db), Shows(st, acc, db),
         NEW t \in DOMAIN db.tables
  PROVE  /\ acc.meta.tables[t] = db.tables[t].columns
         /\ RowsIn(acc, t) = DOMAIN db.tables[t].rows
         /\ \A r \in RowsIn(acc, t), c \in DOMAIN db.tables[t].columns :
              /\ c \in DOMAIN acc.rows[<<t, r>>].cells
              /\ Decodes(db.tables[t].columns[c], acc.rows[<<t, r>>].cells[c])
              /\ ValueRead(acc, t, r, c) = db.tables[t].rows[r].values[c]
<1>1. /\ DOMAIN acc.rows = st.rows /\ st.rows = RowsOf(db)
      /\ acc.meta = metadata(db)
  BY DEF Linked, Shows
<1>2. acc.meta.tables[t] = db.tables[t].columns
  BY <1>1, MetadataParts
<1>3. t \in Table /\ \A r \in DOMAIN db.tables[t].rows : r \in RowId
  BY ProjectionAssumption DEF DatabaseSound, TableSound
<1>4. RowsIn(acc, t) = DOMAIN db.tables[t].rows
  <2>1. \A r \in RowId : <<t, r>> \in DOMAIN acc.rows <=> r \in DOMAIN db.tables[t].rows
    BY <1>1, <1>3, RowsByTable
  <2>2. QED
    BY <1>3, <2>1 DEF RowsIn
<1>5. ASSUME NEW r \in RowsIn(acc, t), NEW c \in DOMAIN db.tables[t].columns
      PROVE  /\ c \in DOMAIN acc.rows[<<t, r>>].cells
             /\ Decodes(db.tables[t].columns[c], acc.rows[<<t, r>>].cells[c])
             /\ ValueRead(acc, t, r, c) = db.tables[t].rows[r].values[c]
  <2> DEFINE row == <<t, r>>
             x == acc.rows[row].cells[c]
  <2>1. row[1] = t /\ row[2] = r
    OBVIOUS
  <2>2. row \in RowsOf(db)
    BY <1>1 DEF RowsIn
  <2> HIDE DEF row
  <2>3. ColumnsOf(db, row) = DOMAIN db.tables[t].columns
        /\ Target(db, row, c) = encode(db.tables[t].columns[c], db.tables[t].rows[r].values[c])
    BY <2>1 DEF ColumnsOf, Target, ValueIn
  <2>4. Reads(acc, row, c, Target(db, row, c))
    BY <2>2, <2>3 DEF Shows
  <2>5. c \in DOMAIN acc.rows[row].cells
        /\ x = encode(db.tables[t].columns[c], db.tables[t].rows[r].values[c])
    BY <2>3, <2>4 DEF Reads
  <2> HIDE DEF x
  <2>6. x.sql_type = db.tables[t].columns[c] /\ x.value = db.tables[t].rows[r].values[c]
    BY <2>5 DEF encode
  <2>7. ValueRead(acc, t, r, c) = x.value
    BY <2>5 DEF ValueRead, row, x
  <2>8. QED
    BY <2>5, <2>6, <2>7 DEF Decodes, row, x
<1>6. QED
  BY <1>2, <1>4, <1>5

LEMMA ReadingShows ==
  ASSUME NEW st, NEW acc, Linked(st, acc), NEW db, DatabaseSound(db), Shows(st, acc, db)
  PROVE  /\ CellsDecode(acc)
         /\ LET new == DatabaseRead(acc)
            IN  /\ DatabaseSound(new) /\ Shows(st, acc, new) /\ Same(new, db)
                /\ AllocatesAs(acc, new) /\ VersionsAs(acc, new)
<1> DEFINE new == DatabaseRead(acc)
<1>1. /\ DatabaseFormed(new)
      /\ DOMAIN new.tables = DOMAIN acc.meta.tables
      /\ new.migrations = acc.meta.migrations
      /\ new.next_object_id = acc.meta.next_object_id
      /\ \A t \in DOMAIN new.tables :
            /\ TableFormed(new.tables[t])
            /\ new.tables[t].columns = acc.meta.tables[t]
            /\ new.tables[t].next_row_id = acc.allocators[t]
            /\ DOMAIN new.tables[t].rows = RowsIn(acc, t)
            /\ \A r \in RowsIn(acc, t) : new.tables[t].rows[r] = RowRead(acc, t, r)
  BY ReadParts
<1> HIDE DEF new
<1>2. /\ acc.meta = metadata(db) /\ st.rows = RowsOf(db) /\ st.migrations = db.migrations
      /\ DOMAIN acc.rows = st.rows
  BY DEF Shows, Linked
<1>3. /\ DOMAIN new.tables = DOMAIN db.tables /\ new.migrations = db.migrations
      /\ new.next_object_id = db.next_object_id
  BY <1>1, <1>2, MetadataParts
<1>4. ASSUME NEW t \in DOMAIN new.tables
      PROVE  /\ new.tables[t].columns = db.tables[t].columns
             /\ DOMAIN new.tables[t].rows = DOMAIN db.tables[t].rows
             /\ RowsIn(acc, t) = DOMAIN db.tables[t].rows
             /\ \A r \in RowsIn(acc, t), c \in DOMAIN db.tables[t].columns :
                  /\ c \in DOMAIN acc.rows[<<t, r>>].cells
                  /\ Decodes(db.tables[t].columns[c], acc.rows[<<t, r>>].cells[c])
                  /\ ValueRead(acc, t, r, c) = db.tables[t].rows[r].values[c]
  BY <1>1, <1>3, CellsRead
<1>5. CellsDecode(acc)
  BY <1>1, <1>4 DEF CellsDecode
<1>6. ASSUME NEW t \in DOMAIN new.tables, NEW r \in DOMAIN new.tables[t].rows
      PROVE  /\ new.tables[t].rows[r].version = acc.rows[<<t, r>>].version
             /\ new.tables[t].rows[r].values = db.tables[t].rows[r].values
             /\ RowFilled(new.tables[t].rows[r], DOMAIN db.tables[t].columns)
  <2> DEFINE C == DOMAIN db.tables[t].columns
             values == db.tables[t].rows[r].values
             row == new.tables[t].rows[r]
  <2>1. row = RowRead(acc, t, r) /\ r \in RowsIn(acc, t) /\ acc.meta.tables[t] = db.tables[t].columns
    BY <1>1, <1>4
  <2>2. /\ row.version = acc.rows[<<t, r>>].version
        /\ row.values = [c \in C |-> ValueRead(acc, t, r, c)]
    BY <2>1 DEF RowRead
  <2>a. row = [version |-> row.version, values |-> row.values]
    <3> DEFINE x == acc.rows[<<t, r>>].version
               y == [c \in C |-> ValueRead(acc, t, r, c)]
    <3>1. row = [version |-> x, values |-> y]
      BY <2>1 DEF RowRead
    <3> HIDE DEF x, y, row
    <3>2. QED
      BY <3>1
  <2>3. values = [c \in C |-> values[c]] /\ \A c \in C : values[c] \in Value \cup {Null}
    BY <1>3, <1>4 DEF DatabaseSound, TableSound, RowFilled
  <2>4. \A c \in C : ValueRead(acc, t, r, c) = values[c]
    BY <1>4, <2>1
  <2> HIDE DEF C, values, row
  <2>5. row.values = values
    BY <2>2, <2>3, <2>4
  <2>6. RowFilled(row, C)
    BY <2>3, <2>5, <2>a DEF RowFilled
  <2>7. QED
    BY <2>2, <2>5, <2>6 DEF C, values, row
<1>7. ASSUME NEW t \in DOMAIN new.tables PROVE TableSound(new.tables[t])
  <2>1. t \in Table /\ DOMAIN new.tables[t].columns \subseteq ObjectId
    BY <1>3, <1>4, ProjectionAssumption DEF DatabaseSound, TableSound
  <2>2. new.tables[t].next_row_id = acc.allocators[t] /\ acc.allocators[t] \in Nat \ {0}
    BY <1>1, <2>1 DEF Linked, Readable
  <2>3. ASSUME NEW r \in DOMAIN new.tables[t].rows PROVE r \in RowId /\ r < acc.allocators[t]
    <3>1. r \in RowId /\ <<t, r>> \in st.rows
      BY <1>1, <1>2 DEF RowsIn
    <3>2. <<t, r>> \in Row /\ <<t, r>>[1] = t /\ <<t, r>>[2] = r
      BY <2>1, <3>1 DEF Row
    <3>3. QED
      BY <3>1, <3>2 DEF Linked, Born, Allocated
  <2>4. QED
    BY <1>4, <1>6, <2>1, <2>2, <2>3 DEF TableSound
<1>8. DatabaseSound(new)
  BY <1>1, <1>3, <1>7 DEF DatabaseSound
<1>9. Same(new, db)
  BY <1>3, <1>4, <1>6 DEF Same
<1>10. metadata(new) = metadata(db)
  BY <1>3, <1>4 DEF metadata, Definitions
<1>11. RowsOf(new) = RowsOf(db)
  BY <1>3, <1>4 DEF RowsOf
<1>12. ASSUME NEW row \in RowsOf(db)
       PROVE  /\ ColumnsOf(new, row) = ColumnsOf(db, row)
              /\ \A c : Target(new, row, c) = Target(db, row, c)
  BY <1>4, <1>6, <1>11, <1>12 DEF RowsOf, ColumnsOf, Target, ValueIn
<1>13. Shows(st, acc, new)
  BY <1>2, <1>3, <1>10, <1>11, <1>12 DEF Shows
<1>14. AllocatesAs(acc, new) /\ VersionsAs(acc, new)
  BY <1>1, <1>6 DEF AllocatesAs, VersionsAs
<1>15. QED
  BY <1>5, <1>8, <1>9, <1>13, <1>14 DEF new
----------------------------------------------------------------------------
(* What statements make of a database: identifiers come from the           *)
(* allocators, and those only grow.                                        *)
TableExtends(before, table) ==
    /\ before.next_row_id =< table.next_row_id
    /\ \A r \in DOMAIN table.rows : r \in DOMAIN before.rows \/ before.next_row_id =< r

Allocates(before, db) ==
    /\ before.next_object_id =< db.next_object_id
    /\ \A t \in DOMAIN db.tables :
          /\ t \in DOMAIN before.tables => TableExtends(before.tables[t], db.tables[t])
          /\ t \notin DOMAIN before.tables => before.next_object_id =< t

Extends(before, db) == Allocates(before, db) /\ db.migrations = before.migrations

WithTables(db, tables, n) ==
    [tables |-> tables, migrations |-> db.migrations, next_object_id |-> n]

TableOf(columns, n, rows) == [columns |-> columns, next_row_id |-> n, rows |-> rows]

LEMMA WithTablesParts ==
  ASSUME NEW db, NEW tables, NEW n, tables = [t \in DOMAIN tables |-> tables[t]]
  PROVE  LET new == WithTables(db, tables, n)
         IN  /\ DatabaseFormed(new) /\ new.tables = tables /\ new.next_object_id = n
             /\ new.migrations = db.migrations
BY DEF WithTables, DatabaseFormed

LEMMA TableParts ==
  ASSUME NEW columns, NEW n, NEW rows, rows = [r \in DOMAIN rows |-> rows[r]]
  PROVE  LET table == TableOf(columns, n, rows)
         IN  /\ TableFormed(table) /\ table.columns = columns /\ table.next_row_id = n
             /\ table.rows = rows
BY DEF TableOf, TableFormed

LEMMA TableReplaced ==
  ASSUME NEW before, DatabaseSound(before), NEW db, DatabaseSound(db), Extends(before, db),
         NEW t \in DOMAIN db.tables, NEW table, TableFormed(table), TableSound(table),
         TableExtends(db.tables[t], table), NEW n \in Nat, db.next_object_id =< n
  PROVE  LET new == WithTables(db, [db.tables EXCEPT ![t] = table], n)
         IN  DatabaseSound(new) /\ Extends(before, new)
<1> DEFINE tables == [db.tables EXCEPT ![t] = table]
           new == WithTables(db, tables, n)
<1>1. /\ DOMAIN tables = DOMAIN db.tables
      /\ \A s \in DOMAIN tables : tables[s] = IF s = t THEN table ELSE db.tables[s]
      /\ tables = [s \in DOMAIN tables |-> tables[s]]
  OBVIOUS
<1> HIDE DEF tables
<1>2. /\ DatabaseFormed(new) /\ new.tables = tables /\ new.next_object_id = n
      /\ new.migrations = db.migrations
  BY <1>1, WithTablesParts
<1> HIDE DEF new
<1>3. n \in Nat \ {0} /\ \A s \in DOMAIN tables : s < n
  BY <1>1, ProjectionAssumption DEF DatabaseSound, ObjectId
<1>4. DatabaseSound(new)
  BY <1>1, <1>2, <1>3 DEF DatabaseSound
<1>5. ASSUME NEW s \in DOMAIN tables, s \in DOMAIN before.tables
      PROVE  TableExtends(before.tables[s], tables[s])
  <2>1. CASE s # t
    BY <1>1, <1>5, <2>1 DEF Extends, Allocates
  <2>2. CASE s = t
    <3>1. before.tables[t].next_row_id \in Nat /\ db.tables[t].next_row_id \in Nat
          /\ table.next_row_id \in Nat /\ \A r \in DOMAIN table.rows : r \in Nat
      BY <1>5, <2>2, ProjectionAssumption DEF DatabaseSound, TableSound
    <3>2. TableExtends(before.tables[t], db.tables[t])
      BY <1>5, <2>2 DEF Extends, Allocates
    <3>3. TableExtends(before.tables[t], table)
      BY <3>1, <3>2 DEF TableExtends
    <3>4. QED
      BY <1>1, <2>2, <3>3
  <2>3. QED
    BY <2>1, <2>2
<1>6. before.next_object_id =< n
  BY DEF DatabaseSound, Extends, Allocates
<1>7. Extends(before, new)
  BY <1>1, <1>2, <1>5, <1>6 DEF Extends, Allocates
<1>8. QED
  BY <1>4, <1>7 DEF new, tables

Staged(before, db) == DatabaseSound(before) /\ DatabaseSound(db) /\ Extends(before, db)

LEMMA RowsReplaced ==
  ASSUME NEW db, DatabaseSound(db), NEW t \in DOMAIN db.tables, NEW R
  PROVE  [db EXCEPT !.tables[t].rows = R]
            = WithTables(db, [db.tables EXCEPT ![t] = TableOf(db.tables[t].columns,
                                                            db.tables[t].next_row_id, R)],
                         db.next_object_id)
<1>1. /\ db = [tables |-> db.tables, migrations |-> db.migrations,
               next_object_id |-> db.next_object_id]
      /\ db.tables = [s \in DOMAIN db.tables |-> db.tables[s]]
      /\ db.tables[t] = [columns |-> db.tables[t].columns,
                         next_row_id |-> db.tables[t].next_row_id, rows |-> db.tables[t].rows]
  BY DEF DatabaseSound, DatabaseFormed, TableFormed
<1> DEFINE table == [db.tables[t] EXCEPT !.rows = R]
<1>2. table = TableOf(db.tables[t].columns, db.tables[t].next_row_id, R)
  BY <1>1 DEF TableOf
<1>3. [db EXCEPT !.tables[t].rows = R] = [db EXCEPT !.tables = [db.tables EXCEPT ![t] = table]]
  OBVIOUS
<1> HIDE DEF table
<1> DEFINE tables == [db.tables EXCEPT ![t] = table]
<1> HIDE DEF tables
<1>4. [db EXCEPT !.tables = tables] = WithTables(db, tables, db.next_object_id)
  BY <1>1 DEF WithTables
<1>5. QED
  BY <1>2, <1>3, <1>4 DEF tables

(* Rows may change without the catalog.                                    *)
LEMMA SameMetadata ==
  ASSUME NEW db, DatabaseSound(db), NEW t \in DOMAIN db.tables, NEW table,
         table.columns = db.tables[t].columns
  PROVE  metadata(WithTables(db, [db.tables EXCEPT ![t] = table], db.next_object_id))
            = metadata(db)
<1> DEFINE tables == [db.tables EXCEPT ![t] = table]
           new == WithTables(db, tables, db.next_object_id)
<1>1. /\ DOMAIN tables = DOMAIN db.tables
      /\ \A s \in DOMAIN tables : tables[s].columns = db.tables[s].columns
      /\ tables = [s \in DOMAIN tables |-> tables[s]]
  OBVIOUS
<1> HIDE DEF tables
<1>2. /\ new.tables = tables /\ new.next_object_id = db.next_object_id
      /\ new.migrations = db.migrations
  BY <1>1, WithTablesParts
<1> HIDE DEF new
<1>3. Definitions(new) = Definitions(db)
  BY <1>1, <1>2 DEF Definitions
<1>4. QED
  BY <1>2, <1>3 DEF metadata, new, tables

LEMMA DeleteStages ==
  ASSUME NEW before, NEW db, Staged(before, db), NEW t \in DOMAIN db.tables,
         NEW r \in DOMAIN db.tables[t].rows
  PROVE  Staged(before, Delete(db, t, r)) /\ metadata(Delete(db, t, r)) = metadata(db)
<1> DEFINE old == db.tables[t]
           R == Drop(old.rows, r)
           table == TableOf(old.columns, old.next_row_id, R)
<1>1. TableFormed(old) /\ TableSound(old)
  BY DEF Staged, DatabaseSound
<1>2. Delete(db, t, r) = WithTables(db, [db.tables EXCEPT ![t] = table], db.next_object_id)
  BY RowsReplaced DEF Delete, Staged
<1> HIDE DEF old
<1>3. /\ DOMAIN R \subseteq DOMAIN old.rows /\ \A q \in DOMAIN R : R[q] = old.rows[q]
      /\ R = [q \in DOMAIN R |-> R[q]]
  BY DEF Drop
<1> HIDE DEF R
<1>4. /\ TableFormed(table) /\ table.columns = old.columns
      /\ table.next_row_id = old.next_row_id /\ table.rows = R
  BY <1>3, TableParts
<1> HIDE DEF table
<1>5. TableSound(table) /\ TableExtends(old, table)
  BY <1>1, <1>3, <1>4 DEF TableSound, TableExtends
<1>6. Staged(before, Delete(db, t, r))
  BY <1>2, <1>4, <1>5, TableReplaced DEF Staged, DatabaseSound, old
<1>7. metadata(Delete(db, t, r)) = metadata(db)
  BY <1>2, <1>4, SameMetadata DEF Staged, old
<1>8. QED
  BY <1>6, <1>7

LEMMA InsertStages ==
  ASSUME NEW before, NEW db, Staged(before, db), NEW t \in DOMAIN db.tables,
         db.tables[t].next_row_id =< MaxRow, NEW v \in Value \cup {Null}
  PROVE  Staged(before, Insert(db, t, v)) /\ metadata(Insert(db, t, v)) = metadata(db)
<1> DEFINE old == db.tables[t]
           r == old.next_row_id
           row == [version |-> 1, values |-> [c \in DOMAIN old.columns |-> v]]
           R == Put(old.rows, r, row)
           mid == [db EXCEPT !.tables[t].rows = R]
           midway == TableOf(old.columns, r, R)
           table == TableOf(old.columns, r + 1, R)
<1>1. TableFormed(old) /\ TableSound(old)
  BY DEF Staged, DatabaseSound
<1>2. RowFilled(row, DOMAIN old.columns)
  BY DEF RowFilled
<1> HIDE DEF row
<1>3. Insert(db, t, v) = [db EXCEPT !.tables[t].rows = R, !.tables[t].next_row_id = @ + 1]
  BY DEF Insert, row
<1>4. Insert(db, t, v) = WithTables(db, [db.tables EXCEPT ![t] = table], db.next_object_id)
  <2>1. /\ db = [tables |-> db.tables, migrations |-> db.migrations,
                 next_object_id |-> db.next_object_id]
        /\ db.tables = [s \in DOMAIN db.tables |-> db.tables[s]]
        /\ old = [columns |-> old.columns, next_row_id |-> r, rows |-> old.rows]
    BY <1>1 DEF Staged, DatabaseSound, DatabaseFormed, TableFormed
  <2> DEFINE change == [old EXCEPT !.rows = R, !.next_row_id = @ + 1]
             tables == [db.tables EXCEPT ![t] = change]
  <2>2. change = table
    <3> DEFINE x == [old EXCEPT !.rows = R]
               n == r + 1
    <3>1. change = [x EXCEPT !.next_row_id = n]
      BY <2>1
    <3> HIDE DEF R, old, n
    <3>2. x = [columns |-> old.columns, next_row_id |-> r, rows |-> R]
      BY <2>1
    <3> HIDE DEF x
    <3>3. [x EXCEPT !.next_row_id = n] = [columns |-> old.columns, next_row_id |-> n, rows |-> R]
      BY <3>2
    <3>4. QED
      BY <3>1, <3>3 DEF TableOf, n
  <2>3. [db EXCEPT !.tables[t].rows = R, !.tables[t].next_row_id = @ + 1]
          = [db EXCEPT !.tables = tables]
    <3> HIDE DEF R, row
    <3>1. QED
      BY <2>1
  <2> HIDE DEF tables, change
  <2>4. [db EXCEPT !.tables = tables] = WithTables(db, tables, db.next_object_id)
    BY <2>1 DEF WithTables
  <2>5. QED
    BY <1>3, <2>2, <2>3, <2>4 DEF tables
<1>5. /\ DOMAIN R = DOMAIN old.rows \cup {r}
      /\ R[r] = row /\ \A q \in DOMAIN R : q # r => R[q] = old.rows[q]
      /\ R = [q \in DOMAIN R |-> R[q]]
  <2> HIDE DEF old
  <2>1. QED
    BY DEF Put
<1> HIDE DEF R
<1>6. /\ TableFormed(table) /\ table.columns = old.columns
      /\ table.next_row_id = r + 1 /\ table.rows = R
  BY <1>5, TableParts
<1> HIDE DEF table
<1>7. r \in Nat \ {0} /\ r =< MaxRow /\ r \in RowId /\ \A q \in DOMAIN old.rows : q \in RowId /\ q < r
  BY <1>1, ProjectionAssumption DEF TableSound
<1>8. \A q \in RowId : q \in Nat
  BY ProjectionAssumption
<1> HIDE DEF r
<1>9. TableSound(table)
  BY <1>1, <1>2, <1>5, <1>6, <1>7, <1>8 DEF TableSound
<1>10. TableExtends(old, table)
  BY <1>1, <1>5, <1>6, <1>7 DEF TableExtends, r
<1> HIDE DEF old
<1>11. Staged(before, Insert(db, t, v))
  BY <1>4, <1>6, <1>9, <1>10, TableReplaced DEF Staged, DatabaseSound, old
<1>12. metadata(Insert(db, t, v)) = metadata(db)
  BY <1>4, <1>6, SameMetadata DEF Staged, old
<1>13. QED
  BY <1>11, <1>12

LEMMA SameAllocator ==
  ASSUME NEW before, NEW db, Staged(before, db), NEW t \in DOMAIN db.tables, NEW table,
         TableFormed(table), TableSound(table), TableExtends(db.tables[t], table)
  PROVE  Staged(before, WithTables(db, [db.tables EXCEPT ![t] = table], db.next_object_id))
<1>1. db.next_object_id \in Nat
  BY DEF Staged, DatabaseSound
<1>2. QED
  BY <1>1, TableReplaced DEF Staged

(* The rows of a table change in place, and perhaps its columns.           *)
LEMMA RewrittenSound ==
  ASSUME NEW old, TableSound(old), NEW columns, DOMAIN columns \subseteq ObjectId,
         NEW R, R = [q \in DOMAIN R |-> R[q]], DOMAIN R = DOMAIN old.rows,
         \A q \in DOMAIN R : RowFilled(R[q], DOMAIN columns)
  PROVE  LET table == TableOf(columns, old.next_row_id, R)
         IN  TableFormed(table) /\ TableSound(table) /\ TableExtends(old, table)
<1> DEFINE table == TableOf(columns, old.next_row_id, R)
<1>1. /\ TableFormed(table) /\ table.columns = columns
      /\ table.next_row_id = old.next_row_id /\ table.rows = R
  BY TableParts
<1> HIDE DEF table
<1>2. TableSound(table) /\ TableExtends(old, table)
  BY <1>1 DEF TableSound, TableExtends
<1>3. QED
  BY <1>1, <1>2 DEF table

LEMMA UpdateStages ==
  ASSUME NEW before, NEW db, Staged(before, db), NEW t \in DOMAIN db.tables,
         NEW r \in DOMAIN db.tables[t].rows, NEW c \in DOMAIN db.tables[t].columns,
         NEW v \in Value \cup {Null}
  PROVE  Staged(before, Update(db, t, r, c, v)) /\ metadata(Update(db, t, r, c, v)) = metadata(db)
<1> DEFINE old == db.tables[t]
           row == old.rows[r]
           new == [row EXCEPT !.version = @ + 1, !.values[c] = v]
           R == [old.rows EXCEPT ![r] = new]
           C == DOMAIN old.columns
           table == TableOf(old.columns, old.next_row_id, R)
<1>1. TableFormed(old) /\ TableSound(old)
  BY DEF Staged, DatabaseSound
<1>2. old.rows = [q \in DOMAIN old.rows |-> old.rows[q]] /\ RowFilled(row, C)
      /\ \A q \in DOMAIN old.rows : RowFilled(old.rows[q], C)
  BY <1>1 DEF TableFormed, TableSound
<1>3. Update(db, t, r, c, v) = [db EXCEPT !.tables[t].rows = R]
  <2>1. Update(db, t, r, c, v) = [db EXCEPT !.tables[t].rows[r] = new]
    BY DEF Update
  <2> HIDE DEF new
  <2>2. QED
    BY <2>1
<1>4. RowFilled(new, C)
  <2>1. /\ row = [version |-> row.version, values |-> row.values]
        /\ row.values = [b \in C |-> row.values[b]]
        /\ \A b \in C : row.values[b] \in Value \cup {Null}
    BY <1>2 DEF RowFilled
  <2> DEFINE n == row.version + 1
             x == [row EXCEPT !.version = n]
             values == [row.values EXCEPT ![c] = v]
  <2>2. new = [x EXCEPT !.values[c] = v]
    BY <2>1
  <2> HIDE DEF row, n, new
  <2>3. x = [version |-> n, values |-> row.values]
    BY <2>1
  <2> HIDE DEF x
  <2>4. [x EXCEPT !.values[c] = v] = [version |-> n, values |-> values]
    BY <2>3
  <2>5. values = [b \in C |-> values[b]] /\ \A b \in C : values[b] \in Value \cup {Null}
    <3> HIDE DEF C
    <3>1. QED
      BY <2>1
  <2> HIDE DEF values
  <2>6. new.version = n /\ new.values = values /\ new = [version |-> new.version, values |-> new.values]
    BY <2>2, <2>4
  <2>7. QED
    BY <2>5, <2>6 DEF RowFilled
<1> HIDE DEF new, row
<1>5. /\ R = [q \in DOMAIN R |-> R[q]] /\ DOMAIN R = DOMAIN old.rows
      /\ \A q \in DOMAIN R : RowFilled(R[q], C)
  <2> HIDE DEF old, C
  <2>1. QED
    BY <1>2, <1>4
<1> HIDE DEF R
<1>6. [db EXCEPT !.tables[t].rows = R] = WithTables(db, [db.tables EXCEPT ![t] = table], db.next_object_id)
  BY RowsReplaced DEF Staged
<1>7. DOMAIN old.columns \subseteq ObjectId
  BY <1>1 DEF TableSound
<1> HIDE DEF old
<1>8. TableFormed(table) /\ TableSound(table) /\ TableExtends(old, table)
  BY <1>1, <1>5, <1>7, RewrittenSound
<1>a. table.columns = old.columns
  BY <1>5, TableParts
<1> HIDE DEF table
<1>9. Staged(before, WithTables(db, [db.tables EXCEPT ![t] = table], db.next_object_id))
  BY <1>8, SameAllocator DEF Staged, old
<1>10. metadata(Update(db, t, r, c, v)) = metadata(db)
  BY <1>3, <1>6, <1>a, SameMetadata DEF Staged, old
<1>11. QED
  BY <1>3, <1>6, <1>9, <1>10

(* Columns and rows in one statement.                                      *)
Changed(db, t, columns, rows) ==
    [db EXCEPT !.tables[t].columns = columns, !.tables[t].rows = rows]

TablesWith(db, t, columns, rows) ==
    [db.tables EXCEPT ![t] = TableOf(columns, db.tables[t].next_row_id, rows)]

LEMMA ColumnsReplaced ==
  ASSUME NEW db, DatabaseSound(db), NEW t \in DOMAIN db.tables, NEW columns, NEW R
  PROVE  Changed(db, t, columns, R)
            = WithTables(db, TablesWith(db, t, columns, R), db.next_object_id)
<1> DEFINE old == db.tables[t]
           mid == [old EXCEPT !.columns = columns]
           table == [mid EXCEPT !.rows = R]
           tables == [db.tables EXCEPT ![t] = table]
<1>1. /\ db = [tables |-> db.tables, migrations |-> db.migrations,
               next_object_id |-> db.next_object_id]
      /\ db.tables = [s \in DOMAIN db.tables |-> db.tables[s]]
      /\ old = [columns |-> old.columns, next_row_id |-> old.next_row_id, rows |-> old.rows]
  BY DEF DatabaseSound, DatabaseFormed, TableFormed
<1>2. [db EXCEPT !.tables[t].columns = columns, !.tables[t].rows = R]
        = [db EXCEPT !.tables = tables]
  BY <1>1
<1>3. mid = [columns |-> columns, next_row_id |-> old.next_row_id, rows |-> old.rows]
  <2> HIDE DEF old
  <2>1. QED
    BY <1>1
<1>4. table = TableOf(columns, old.next_row_id, R)
  <2> HIDE DEF mid, old
  <2>1. QED
    BY <1>3 DEF TableOf
<1> HIDE DEF tables, table, mid, old
<1>5. [db EXCEPT !.tables = tables] = WithTables(db, tables, db.next_object_id)
  BY <1>1 DEF WithTables
<1>6. QED
  BY <1>2, <1>4, <1>5 DEF tables, old, Changed, TablesWith

LEMMA FilledWithout ==
  ASSUME NEW row, NEW C, RowFilled(row, C), NEW c, NEW n
  PROVE  RowFilled([version |-> n, values |-> Drop(row.values, c)], C \ {c})
<1> DEFINE values == Drop(row.values, c)
<1>1. row.values = [b \in C |-> row.values[b]] /\ \A b \in C : row.values[b] \in Value \cup {Null}
  BY DEF RowFilled
<1>2. values = [b \in C \ {c} |-> values[b]] /\ \A b \in C \ {c} : values[b] \in Value \cup {Null}
  BY <1>1 DEF Drop
<1> HIDE DEF values
<1>3. RowFilled([version |-> n, values |-> values], C \ {c})
  BY <1>2 DEF RowFilled
<1>4. QED
  BY <1>3 DEF values

LEMMA FilledWith ==
  ASSUME NEW row, NEW C, RowFilled(row, C), NEW c, NEW v \in Value \cup {Null}, NEW n
  PROVE  RowFilled([version |-> n, values |-> Put(row.values, c, v)], C \cup {c})
<1> DEFINE values == Put(row.values, c, v)
<1>1. row.values = [b \in C |-> row.values[b]] /\ \A b \in C : row.values[b] \in Value \cup {Null}
  BY DEF RowFilled
<1>2. values = [b \in C \cup {c} |-> values[b]]
      /\ \A b \in C \cup {c} : values[b] \in Value \cup {Null}
  BY <1>1 DEF Put
<1> HIDE DEF values
<1>3. RowFilled([version |-> n, values |-> values], C \cup {c})
  BY <1>2 DEF RowFilled
<1>4. QED
  BY <1>3 DEF values

LEMMA DropColumnStages ==
  ASSUME NEW before, NEW db, Staged(before, db), NEW t \in DOMAIN db.tables,
         NEW c \in DOMAIN db.tables[t].columns
  PROVE  Staged(before, DropColumn(db, t, c))
<1> DEFINE old == db.tables[t]
           columns == Drop(old.columns, c)
           Next(r) == [version |-> old.rows[r].version + 1, values |-> Drop(old.rows[r].values, c)]
           R == [r \in DOMAIN old.rows |-> Next(r)]
           table == TableOf(columns, old.next_row_id, R)
<1>1. TableFormed(old) /\ TableSound(old)
  BY DEF Staged, DatabaseSound
<1>2. DropColumn(db, t, c) = Changed(db, t, columns, R)
  BY DEF DropColumn, Rewritten, Changed
<1>3. DOMAIN columns = DOMAIN old.columns \ {c} /\ DOMAIN columns \subseteq ObjectId
  <2> HIDE DEF old
  <2>1. DOMAIN columns = DOMAIN old.columns \ {c}
    BY DEF Drop
  <2>2. QED
    BY <1>1, <2>1 DEF TableSound
<1> HIDE DEF columns
<1>4. \A r \in DOMAIN old.rows : RowFilled(Next(r), DOMAIN columns)
  <2>1. TAKE r \in DOMAIN old.rows
  <2> DEFINE row == old.rows[r]
             n == row.version + 1
  <2>2. RowFilled(row, DOMAIN old.columns)
    BY <1>1 DEF TableSound
  <2> HIDE DEF old, row, n, columns
  <2>3. RowFilled([version |-> n, values |-> Drop(row.values, c)], DOMAIN old.columns \ {c})
    BY <2>2, FilledWithout
  <2>4. Next(r) = [version |-> n, values |-> Drop(row.values, c)]
    BY DEF row, n
  <2>5. QED
    BY <1>3, <2>3, <2>4
<1> HIDE DEF Next
<1>5. /\ R = [q \in DOMAIN R |-> R[q]] /\ DOMAIN R = DOMAIN old.rows
      /\ \A q \in DOMAIN R : RowFilled(R[q], DOMAIN columns)
  <2> HIDE DEF old
  <2>1. QED
    BY <1>4
<1> HIDE DEF R
<1>6. Changed(db, t, columns, R) = WithTables(db, TablesWith(db, t, columns, R), db.next_object_id)
  BY ColumnsReplaced DEF Staged
<1>a. TablesWith(db, t, columns, R) = [db.tables EXCEPT ![t] = table]
  BY DEF TablesWith
<1> HIDE DEF old
<1>7. TableFormed(table) /\ TableSound(table) /\ TableExtends(old, table)
  BY <1>1, <1>3, <1>5, RewrittenSound
<1> HIDE DEF table
<1>8. Staged(before, WithTables(db, [db.tables EXCEPT ![t] = table], db.next_object_id))
  BY <1>7, SameAllocator DEF Staged, old
<1>9. QED
  BY <1>2, <1>6, <1>8, <1>a

LEMMA AddColumnStages ==
  ASSUME NEW before, NEW db, Staged(before, db), NEW t \in DOMAIN db.tables,
         db.next_object_id =< MaxObject, NEW type, NEW v \in Value \cup {Null}
  PROVE  Staged(before, AddColumn(db, t, type, v))
<1> DEFINE old == db.tables[t]
           c == db.next_object_id
           columns == Put(old.columns, c, type)
           Next(r) == [version |-> old.rows[r].version + 1, values |-> Put(old.rows[r].values, c, v)]
           R == [r \in DOMAIN old.rows |-> Next(r)]
           table == TableOf(columns, old.next_row_id, R)
           tables == [db.tables EXCEPT ![t] = table]
           mid == WithTables(db, tables, c)
<1>1. TableFormed(old) /\ TableSound(old) /\ c \in Nat \ {0}
  BY DEF Staged, DatabaseSound
<1>2. AddColumn(db, t, type, v)
        = [db EXCEPT !.next_object_id = c + 1, !.tables[t].columns = columns, !.tables[t].rows = R]
  BY DEF AddColumn, Rewritten
<1>a. c \in ObjectId
  BY <1>1, ProjectionAssumption DEF ObjectId
<1>3. DOMAIN columns = DOMAIN old.columns \cup {c} /\ DOMAIN columns \subseteq ObjectId
  <2> HIDE DEF old, c
  <2>1. DOMAIN columns = DOMAIN old.columns \cup {c}
    BY DEF Put
  <2>2. QED
    BY <1>1, <1>a, <2>1 DEF TableSound
<1>4. \A r \in DOMAIN old.rows : RowFilled(Next(r), DOMAIN columns)
  <2>1. TAKE r \in DOMAIN old.rows
  <2> DEFINE row == old.rows[r]
             n == row.version + 1
  <2> HIDE DEF c
  <2>2. RowFilled(row, DOMAIN old.columns)
    BY <1>1 DEF TableSound
  <2> HIDE DEF old, row, n, columns
  <2>3. RowFilled([version |-> n, values |-> Put(row.values, c, v)], DOMAIN old.columns \cup {c})
    BY <2>2, FilledWith
  <2>4. Next(r) = [version |-> n, values |-> Put(row.values, c, v)]
    BY DEF row, n
  <2>5. QED
    BY <1>3, <2>3, <2>4
<1> HIDE DEF columns, Next
<1>5. /\ R = [q \in DOMAIN R |-> R[q]] /\ DOMAIN R = DOMAIN old.rows
      /\ \A q \in DOMAIN R : RowFilled(R[q], DOMAIN columns)
  <2> HIDE DEF old
  <2>1. QED
    BY <1>4
<1> HIDE DEF R
<1>6. Changed(db, t, columns, R) = mid
  <2>1. Changed(db, t, columns, R) = WithTables(db, TablesWith(db, t, columns, R), c)
    BY ColumnsReplaced DEF Staged
  <2>2. TablesWith(db, t, columns, R) = tables
    BY DEF TablesWith
  <2>3. QED
    BY <2>1, <2>2
<1>7. [db EXCEPT !.next_object_id = c + 1, !.tables[t].columns = columns, !.tables[t].rows = R]
        = WithTables(db, tables, c + 1)
  <2> DEFINE n == c + 1
             x == [db EXCEPT !.tables[t].columns = columns, !.tables[t].rows = R]
  <2>1. db = [tables |-> db.tables, migrations |-> db.migrations,
              next_object_id |-> db.next_object_id]
    BY DEF Staged, DatabaseSound, DatabaseFormed
  <2> HIDE DEF n, table
  <2>2. [db EXCEPT !.next_object_id = n, !.tables[t].columns = columns, !.tables[t].rows = R]
          = [x EXCEPT !.next_object_id = n]
    BY <2>1
  <2>3. x = mid
    BY <1>6 DEF Changed
  <2> HIDE DEF x, tables
  <2>4. [mid EXCEPT !.next_object_id = n] = WithTables(db, tables, n)
    BY DEF WithTables
  <2>5. QED
    BY <2>2, <2>3, <2>4 DEF n
<1> HIDE DEF old
<1>8. TableFormed(table) /\ TableSound(table) /\ TableExtends(old, table)
  BY <1>1, <1>3, <1>5, RewrittenSound
<1> HIDE DEF table
<1>9. c + 1 \in Nat /\ db.next_object_id =< c + 1
  BY <1>1
<1>10. DatabaseSound(WithTables(db, tables, c + 1)) /\ Extends(before, WithTables(db, tables, c + 1))
  <2> DEFINE n == c + 1
  <2>1. n \in Nat /\ db.next_object_id =< n
    BY <1>9
  <2> HIDE DEF n
  <2>2. DatabaseSound(WithTables(db, tables, n)) /\ Extends(before, WithTables(db, tables, n))
    BY <1>8, <2>1, TableReplaced DEF Staged, old
  <2>3. QED
    BY <2>2 DEF n
<1>11. QED
  BY <1>2, <1>7, <1>10 DEF Staged

LEMMA DropTableStages ==
  ASSUME NEW before, NEW db, Staged(before, db), NEW t
  PROVE  Staged(before, DropTable(db, t))
<1> DEFINE tables == Drop(db.tables, t)
           n == db.next_object_id
           new == WithTables(db, tables, n)
<1>1. /\ db = [tables |-> db.tables, migrations |-> db.migrations, next_object_id |-> n]
      /\ n \in Nat \ {0}
  BY DEF Staged, DatabaseSound, DatabaseFormed
<1>2. /\ DOMAIN tables = DOMAIN db.tables \ {t} /\ \A s \in DOMAIN tables : tables[s] = db.tables[s]
      /\ tables = [s \in DOMAIN tables |-> tables[s]]
  BY DEF Drop
<1>3. DropTable(db, t) = [db EXCEPT !.tables = tables]
  BY DEF DropTable
<1> HIDE DEF tables, n
<1>4. [db EXCEPT !.tables = tables] = new
  BY <1>1 DEF WithTables
<1>5. /\ DatabaseFormed(new) /\ new.tables = tables /\ new.next_object_id = n
      /\ new.migrations = db.migrations
  BY <1>2, WithTablesParts
<1> HIDE DEF new
<1>6. DatabaseSound(new)
  BY <1>1, <1>2, <1>5 DEF Staged, DatabaseSound, n
<1>7. Extends(before, new)
  BY <1>2, <1>5 DEF Staged, Extends, Allocates, n
<1>8. QED
  BY <1>3, <1>4, <1>6, <1>7 DEF Staged

LEMMA CreateTableStages ==
  ASSUME NEW before, NEW db, Staged(before, db), db.next_object_id < MaxObject, NEW type
  PROVE  Staged(before, CreateTable(db, type))
<1> DEFINE t == db.next_object_id
           columns == [c \in {t + 1} |-> type]
           table == TableOf(columns, 1, <<>>)
           tables == Put(db.tables, t, table)
           new == WithTables(db, tables, t + 2)
<1>1. /\ db = [tables |-> db.tables, migrations |-> db.migrations,
               next_object_id |-> db.next_object_id]
      /\ t \in Nat \ {0}
  BY DEF Staged, DatabaseSound, DatabaseFormed
<1>2. t \in ObjectId /\ t + 1 \in ObjectId
  BY <1>1, ProjectionAssumption DEF ObjectId
<1>3. DOMAIN columns \subseteq ObjectId
  BY <1>2
<1>4. CreateTable(db, type) = new
  <2> DEFINE x == [db EXCEPT !.next_object_id = t + 2]
             n == t + 2
  <2>1. CreateTable(db, type) = [db EXCEPT !.next_object_id = n, !.tables = tables]
    BY DEF CreateTable, TableOf
  <2> HIDE DEF n, tables
  <2>a. x = [tables |-> db.tables, migrations |-> db.migrations, next_object_id |-> t + 2]
    BY <1>1
  <2>b. [db EXCEPT !.next_object_id = n, !.tables = tables] = [x EXCEPT !.tables = tables]
    BY <1>1 DEF n
  <2> HIDE DEF x
  <2>2. [x EXCEPT !.tables = tables] = WithTables(db, tables, n)
    BY <2>a DEF WithTables, n
  <2>3. QED
    BY <2>1, <2>2, <2>b DEF n
<1> HIDE DEF columns
<1>5. TableFormed(table) /\ table.columns = columns /\ table.next_row_id = 1 /\ DOMAIN table.rows = {}
  <2> DEFINE nothing == <<>>
             one == 1
  <2>1. DOMAIN nothing = {} /\ nothing = [r \in DOMAIN nothing |-> nothing[r]]
    OBVIOUS
  <2> HIDE DEF nothing, one
  <2> DEFINE x == TableOf(columns, one, nothing)
  <2>2. TableFormed(x) /\ x.columns = columns /\ x.next_row_id = one /\ x.rows = nothing
    BY <2>1 DEF TableFormed, TableOf
  <2> HIDE DEF x
  <2>3. table = x
    BY DEF x, one, nothing
  <2> HIDE DEF table
  <2>4. QED
    BY <2>1, <2>2, <2>3 DEF one
<1> HIDE DEF table
<1>6. TableSound(table)
  BY <1>3, <1>5 DEF TableSound
<1>7. /\ DOMAIN tables = DOMAIN db.tables \cup {t}
      /\ \A s \in DOMAIN tables : tables[s] = IF s = t THEN table ELSE db.tables[s]
      /\ tables = [s \in DOMAIN tables |-> tables[s]]
  <2> HIDE DEF t
  <2>1. QED
    BY DEF Put
<1> HIDE DEF tables
<1>8. /\ DatabaseFormed(new) /\ new.tables = tables /\ new.next_object_id = t + 2
      /\ new.migrations = db.migrations
  BY <1>7, WithTablesParts
<1> HIDE DEF new
<1>9. ASSUME NEW s \in DOMAIN tables
      PROVE  s \in ObjectId /\ s < t + 2 /\ TableFormed(tables[s]) /\ TableSound(tables[s])
  <2>1. CASE s = t
    BY <1>1, <1>2, <1>5, <1>6, <1>7, <2>1
  <2>2. CASE s # t
    <3>1. s \in DOMAIN db.tables /\ tables[s] = db.tables[s]
      BY <1>7, <2>2
    <3>2. s \in ObjectId /\ s < t /\ TableFormed(db.tables[s]) /\ TableSound(db.tables[s])
      BY <3>1 DEF Staged, DatabaseSound
    <3>3. s < t + 2
      BY <1>1, <3>2, ProjectionAssumption DEF ObjectId
    <3>4. QED
      BY <3>1, <3>2, <3>3
  <2>3. QED
    BY <2>1, <2>2
<1>10. DatabaseSound(new)
  BY <1>1, <1>8, <1>9 DEF DatabaseSound
<1>11. before.next_object_id \in Nat /\ before.next_object_id =< t
       /\ \A s \in DOMAIN before.tables : s < before.next_object_id /\ s \in Nat
  BY ProjectionAssumption DEF Staged, DatabaseSound, Extends, Allocates, ObjectId
<1>12. t \notin DOMAIN before.tables
  BY <1>1, <1>11
<1>13. Extends(before, new)
  <2>1. before.next_object_id =< t + 2
    BY <1>1, <1>11
  <2>2. \A s \in DOMAIN tables : s # t => s \in DOMAIN db.tables /\ tables[s] = db.tables[s]
    BY <1>7
  <2> HIDE DEF t
  <2>3. QED
    BY <1>8, <1>11, <1>12, <2>1, <2>2 DEF Staged, Extends, Allocates
<1>14. QED
  BY <1>4, <1>10, <1>13 DEF Staged
----------------------------------------------------------------------------
(* Before a plan: the snapshot is shown, and what the statements named     *)
(* anew has never been used.                                               *)
LEMMA ValuesArePresent ==
  ASSUME NEW db, DatabaseSound(db), NEW row \in RowsOf(db), NEW c \in ColumnsOf(db, row)
  PROVE  ValueIn(db, row, c) \in Value \cup {Null} /\ ValueIn(db, row, c) # Absent
<1>1. row[1] \in DOMAIN db.tables /\ row[2] \in DOMAIN db.tables[row[1]].rows
  BY DEF RowsOf
<1>2. RowFilled(db.tables[row[1]].rows[row[2]], DOMAIN db.tables[row[1]].columns)
  BY <1>1 DEF DatabaseSound, TableSound
<1>3. ValueIn(db, row, c) \in Value \cup {Null}
  BY <1>2 DEF RowFilled, ColumnsOf, ValueIn
<1>4. QED
  BY <1>3, ProjectionAssumption

LEMMA SameCellSameTarget ==
  ASSUME NEW before, NEW after, NEW row \in RowsOf(after), DatabaseSound(after),
         NEW c \in ColumnsOf(after, row), ~ Differs(before, after, row, c)
  PROVE  /\ row \in RowsOf(before) /\ c \in ColumnsOf(before, row)
         /\ Target(before, row, c) = Target(after, row, c)
<1>1. ValueIn(after, row, c) # Absent
  BY ValuesArePresent
<1>2. Previous(before, after, row, c) # Absent
  BY <1>1 DEF Differs
<1>3. /\ row \in RowsOf(before) /\ c \in DOMAIN before.tables[row[1]].columns
      /\ before.tables[row[1]].columns[c] = after.tables[row[1]].columns[c]
      /\ Previous(before, after, row, c) = ValueIn(before, row, c)
  BY <1>2 DEF Previous
<1>4. QED
  BY <1>3 DEF Differs, ColumnsOf, Target

LEMMA NewRowsAreUnused ==
  ASSUME NEW st, NEW acc, Linked(st, acc), NEW before, NEW after,
         DatabaseSound(before), DatabaseSound(after), Allocates(before, after),
         AllocatesAs(acc, before), NamedOnce(st, before.next_object_id),
         NEW row \in RowsOf(after) \ RowsOf(before)
  PROVE  st.generation[row] = 0
<1>1. /\ row \in Row /\ row[1] \in DOMAIN after.tables
      /\ row[2] \in DOMAIN after.tables[row[1]].rows
      /\ row[1] \in DOMAIN before.tables => row[2] \notin DOMAIN before.tables[row[1]].rows
  BY DEF RowsOf
<1>2. st.generation[row] \in Nat
  BY <1>1 DEF Linked, Framed
<1>3. SUFFICES ASSUME st.generation[row] > 0 PROVE FALSE
  BY <1>2
<1>4. row[1] < before.next_object_id /\ row[2] < acc.allocators[row[1]]
  BY <1>1, <1>3 DEF NamedOnce, Linked, Allocated
<1>5. row[1] \in Nat /\ row[2] \in Nat /\ before.next_object_id \in Nat
  BY <1>1, ProjectionAssumption DEF Row, ObjectId, DatabaseSound
<1>6. row[1] \in DOMAIN before.tables
  BY <1>1, <1>4, <1>5 DEF Allocates
<1>7. before.tables[row[1]].next_row_id = acc.allocators[row[1]] /\ before.tables[row[1]].next_row_id \in Nat
  BY <1>6 DEF AllocatesAs, DatabaseSound, TableSound
<1>8. before.tables[row[1]].next_row_id =< row[2]
  BY <1>1, <1>6 DEF Allocates, TableExtends
<1>9. QED
  BY <1>4, <1>5, <1>7, <1>8

LEMMA PlansStart ==
  ASSUME NEW st, NEW acc, Linked(st, acc), NEW before, NEW after,
         DatabaseSound(before), DatabaseSound(after), Allocates(before, after),
         before.migrations \subseteq after.migrations,
         Shows(st, acc, before), AllocatesAs(acc, before), NamedOnce(st, before.next_object_id)
  PROVE  Between(st, acc, before, after)
<1>1. /\ st.rows = RowsOf(before) /\ acc.meta = metadata(before)
      /\ st.migrations = before.migrations
  BY DEF Shows
<1>2. ASSUME NEW row \in RowsOf(before) \cap RowsOf(after), NEW c \in ColumnsOf(after, row),
             ~ Differs(before, after, row, c)
      PROVE  Reads(acc, row, c, Target(after, row, c))
  <2>1. c \in ColumnsOf(before, row) /\ Target(before, row, c) = Target(after, row, c)
    BY <1>2, SameCellSameTarget
  <2>2. QED
    BY <1>2, <2>1 DEF Shows
<1>3. NamedOnce(st, after.next_object_id)
  <2>1. before.next_object_id \in Nat /\ after.next_object_id \in Nat
        /\ before.next_object_id =< after.next_object_id
    BY DEF DatabaseSound, Allocates
  <2>2. \A row \in Row : row[1] \in Nat
    BY ProjectionAssumption DEF Row, ObjectId
  <2>3. QED
    BY <2>1, <2>2 DEF NamedOnce
<1>4. \A row \in RowsOf(after) \ RowsOf(before) : row \notin st.rows => st.generation[row] = 0
  BY NewRowsAreUnused
<1>5. QED
  BY <1>1, <1>2, <1>3, <1>4 DEF Between

(* After a plan the contract shows what was staged.                        *)
LEMMA PlansEnd ==
  ASSUME NEW st, NEW acc, Linked(st, acc), NEW before, NEW after, DatabaseSound(after),
         Between(st, acc, before, after),
         \A op : Needed(before, after, op) => Done(st, acc, op)
  PROVE  Shows(st, acc, after)
<1>0. \A db : RowsOf(db) \subseteq Row
  BY FiniteRows
<1>1. ASSUME NEW row \in RowsOf(before) \ RowsOf(after) PROVE row \notin st.rows
  <2>1. Done(st, acc, Deletion(row))
    BY DEF Needed, DeletesRow
  <2>2. Deletion(row).kind = DELETE_ROW /\ RowOf(Deletion(row)) = row
    BY <1>0, OperationParts, RowPair DEF Deletion, RowOf
  <2>3. QED
    BY <2>1, <2>2 DEF Done
<1>2. ASSUME NEW row \in RowsOf(after) \ RowsOf(before) PROVE row \in st.rows
  <2>1. Done(st, acc, Insertion(row))
    BY DEF Needed, InsertsRow
  <2>2. Insertion(row).kind = INSERT_ROW /\ RowOf(Insertion(row)) = row
    BY <1>0, OperationParts, RowPair DEF Insertion, RowOf
  <2>3. QED
    BY <2>1, <2>2 DEF Done
<1>3. st.rows = RowsOf(after)
  BY <1>1, <1>2 DEF Between
<1>4. acc.meta = metadata(after)
  <2>1. CASE metadata(before) = metadata(after)
    BY <2>1 DEF Between
  <2>2. CASE metadata(before) # metadata(after)
    <3>1. Done(st, acc, CatalogWrite(after))
      BY <2>2 DEF Needed, WritesCatalog
    <3>2. CatalogWrite(after).kind = PUT_CATALOG /\ CatalogWrite(after).data = metadata(after)
      BY OperationParts DEF CatalogWrite
    <3>3. QED
      BY <3>1, <3>2 DEF Done
  <2>3. QED
    BY <2>1, <2>2
<1>5. ASSUME NEW row \in RowsOf(after), NEW c \in ColumnsOf(after, row)
      PROVE  Reads(acc, row, c, Target(after, row, c))
  <2>1. CASE Differs(before, after, row, c)
    <3> DEFINE op == Setting(after, row, c)
    <3>1. Done(st, acc, op)
      BY <2>1 DEF Needed, SetsCell
    <3>2. op.kind = SET_CELL /\ RowOf(op) = row /\ op.column = c /\ op.data = Target(after, row, c)
      BY <1>0, OperationParts, RowPair DEF Setting, RowOf
    <3> HIDE DEF op
    <3>3. QED
      BY <3>1, <3>2 DEF Done
  <2>2. CASE ~ Differs(before, after, row, c)
    BY <2>2, SameCellSameTarget DEF Between
  <2>3. QED
    BY <2>1, <2>2
<1>6. ASSUME NEW v \in after.migrations \ before.migrations PROVE v \in st.migrations
  <2>1. Done(st, acc, Mark(v))
    BY DEF Needed, MarksMigration
  <2>2. Mark(v).kind = MARK_MIGRATION /\ Mark(v).column = v
    BY OperationParts DEF Mark
  <2>3. QED
    BY <2>1, <2>2 DEF Done
<1>7. st.migrations = after.migrations
  BY <1>6 DEF Between
<1>8. QED
  BY <1>3, <1>4, <1>5, <1>7 DEF Shows
----------------------------------------------------------------------------
(* A plan between sound databases can be made, and one between equal       *)
(* databases is empty.                                                     *)
LEMMA SoundIsWritable ==
  ASSUME NEW db, DatabaseSound(db)
  PROVE  Writable(db) /\ Bounded(db)
<1>1. ASSUME NEW row \in RowsOf(db)
      PROVE  ColumnsOf(db, row) \subseteq ObjectId
  BY DEF RowsOf, ColumnsOf, DatabaseSound, TableSound
<1>2. IsFiniteSet(ObjectId) /\ ObjectId \subseteq Column
  BY FS_Interval, ProjectionAssumption DEF ObjectId
<1>3. Writable(db)
  BY <1>1, <1>2, FS_Subset DEF Writable
<1>4. Bounded(db)
  BY DEF DatabaseSound, Bounded
<1>5. QED
  BY <1>3, <1>4

LEMMA NothingToPlan ==
  ASSUME NEW db, DatabaseSound(db)
  PROVE  plan(db, db) = <<>>
<1>1. \A row \in RowsOf(db) : \A c \in ColumnsOf(db, row) : ~ Differs(db, db, row, c)
  BY DEF Differs, Previous, ColumnsOf
<1>2. \A op : ~ Needed(db, db, op)
  BY <1>1 DEF Needed, WritesCatalog, DeletesRow, InsertsRow, SetsCell, MarksMigration
<1>3. db.migrations \ db.migrations = {} /\ IsFiniteSet(db.migrations \ db.migrations)
  BY FS_EmptySet
<1> DEFINE ops == plan(db, db)
<1>4. ops \in Seq(Possible(db, db)) /\ \A op : ~ Among(op, ops)
  BY <1>2, <1>3, PlanIs, SoundIsWritable
<1> HIDE DEF ops
<1>5. Len(ops) = 0
  <2>1. \A i \in 1..Len(ops) : Among(ops[i], ops)
    BY DEF Among
  <2>2. Len(ops) \in Nat
    BY <1>4
  <2>3. QED
    BY <1>4, <2>1, <2>2
<1>6. QED
  BY <1>4, <1>5, EmptySeq DEF ops

(* The state of the contract and its log, between transactions.            *)
ContractIsRead(st, l) ==
    LET acc == Replayed(l)
        db == rebuild(l).db
    IN  /\ IsPlan(l) /\ Linked(st, acc)
        /\ rebuild(l).ok
        /\ DatabaseSound(db) /\ Shows(st, acc, db)
        /\ AllocatesAs(acc, db) /\ VersionsAs(acc, db)
        /\ NamedOnce(st, db.next_object_id)

LEMMA ShownIsRead ==
  ASSUME NEW st, NEW l, IsPlan(l), Linked(st, Replayed(l)), NEW db, DatabaseSound(db),
         Shows(st, Replayed(l), db), NamedOnce(st, db.next_object_id)
  PROVE  ContractIsRead(st, l) /\ Same(rebuild(l).db, db)
<1> DEFINE acc == Replayed(l)
           new == rebuild(l).db
<1>1. new = DatabaseRead(acc) /\ (acc.ok /\ CellsDecode(acc) => rebuild(l).ok)
  BY RebuildIs
<1>2. acc.ok
  BY DEF Linked, Readable
<1>3. /\ CellsDecode(acc)
      /\ DatabaseSound(new) /\ Shows(st, acc, new) /\ Same(new, db)
      /\ AllocatesAs(acc, new) /\ VersionsAs(acc, new)
  <2> HIDE DEF acc, new
  <2>1. QED
    BY <1>1, ReadingShows DEF acc
<1>4. new.next_object_id = db.next_object_id
  <2>1. metadata(new) = metadata(db)
    BY <1>3 DEF Shows
  <2> HIDE DEF new
  <2>2. QED
    BY <2>1, MetadataParts
<1> HIDE DEF acc, new
<1>5. QED
  BY <1>1, <1>2, <1>3, <1>4 DEF ContractIsRead, acc, new

(* What a batch may plan, and what has become of it when it commits.       *)
Plannable(before, after) ==
    /\ DatabaseSound(after) /\ Allocates(before, after)
    /\ before.migrations \subseteq after.migrations
    /\ IsFiniteSet(after.migrations \ before.migrations)

CommittedAs(st, st2, l2, after) ==
    /\ ContractIsRead(st2, l2) /\ Same(rebuild(l2).db, after)
    /\ st2.revision = st.revision + 1

LEMMA CommitIsRead ==
  ASSUME NEW st, NEW l, ContractIsRead(st, l), NEW before, before = rebuild(l).db,
         NEW after, Plannable(before, after), NEW expected, NEW p, NEW ops, ops = plan(before, after),
         Apply(st, expected, ops, p).ok
  PROVE  LET st2 == Apply(st, expected, ops, p).store
             l2 == Grown(l, ops, st2.revision)
         IN  CommittedAs(st, st2, l2, after)
<1> DEFINE acc == Replayed(l)
           st2 == Apply(st, expected, ops, p).store
           l2 == Grown(l, ops, st2.revision)
           acc2 == Replayed(l2)
<1>1. /\ IsPlan(l) /\ Linked(st, acc) /\ DatabaseSound(before) /\ Shows(st, acc, before)
      /\ AllocatesAs(acc, before) /\ NamedOnce(st, before.next_object_id)
  BY DEF ContractIsRead
<1>2. Between(st, acc, before, after)
  BY <1>1, PlansStart DEF Plannable
<1>3. CarriedOut(st, l, st2, l2, before, after)
  BY <1>1, <1>2, PlanCarries, SoundIsWritable DEF Plannable
<1> HIDE DEF st2, l2
<1>4. /\ IsPlan(l2) /\ st2.revision = st.revision + 1 /\ Linked(st2, acc2)
      /\ Between(st2, acc2, before, after)
      /\ \A op : Needed(before, after, op) => Done(st2, acc2, op)
  BY <1>3 DEF CarriedOut
<1>5. Shows(st2, acc2, after)
  BY <1>4, PlansEnd DEF Plannable
<1>6. NamedOnce(st2, after.next_object_id)
  BY <1>4 DEF Between
<1>7. ContractIsRead(st2, l2) /\ Same(rebuild(l2).db, after)
  BY <1>4, <1>5, <1>6, ShownIsRead DEF Plannable
<1>8. QED
  BY <1>4, <1>7 DEF CommittedAs, st2, l2

(* At the beginning both are empty.                                        *)
LEMMA EmptyIsRead == ContractIsRead(EmptyStore, <<>>)
<1> DEFINE l == <<>>
           acc == Replayed(l)
           db == EmptyDatabase
           st == EmptyStore
<1>1. IsPlan(l) /\ Len(l) = 0
  <2>1. l \in Seq({})
    OBVIOUS
  <2>2. QED
    BY <2>1 DEF IsPlan
<1> HIDE DEF l
<1>2. acc = ReplayStart
  BY <1>1, ReplayedIsPrefix, PrefixStarts
<1>3. /\ acc.ok /\ acc.meta = metadata(db) /\ acc.rows = <<>>
      /\ acc.allocators = [t \in Table |-> 1]
      /\ acc = [ok |-> acc.ok, meta |-> acc.meta, rows |-> acc.rows, allocators |-> acc.allocators]
  BY <1>2 DEF ReplayStart
<1> HIDE DEF acc
<1>4. Readable(acc)
  BY <1>3 DEF Readable
<1>5. /\ st.revision = 0 /\ st.rows = {} /\ st.migrations = {} /\ st.cells = <<>>
      /\ st.version = [r \in Row |-> 0] /\ st.generation = [r \in Row |-> 0]
      /\ Shaped(st)
  BY DEF EmptyStore, Shaped
<1> HIDE DEF st
<1>6. Framed(st)
  BY <1>5 DEF Framed
<1>7. Linked(st, acc)
  <2>1. acc.rows = [r \in st.rows |-> acc.rows[r]]
    BY <1>3, <1>5
  <2>2. CellsBehind(st) /\ Allocated(st, acc) /\ Born(st)
    BY <1>5 DEF CellsBehind, Allocated, Born
  <2>3. QED
    BY <1>4, <1>5, <1>6, <2>1, <2>2 DEF Linked
<1>8. /\ DOMAIN db.tables = {} /\ db.migrations = {} /\ db.next_object_id = 1
      /\ DatabaseFormed(db)
  BY DEF EmptyDatabase, DatabaseFormed
<1> HIDE DEF db
<1>9. DatabaseSound(db)
  BY <1>8 DEF DatabaseSound
<1>10. RowsOf(db) = {}
  BY <1>8 DEF RowsOf
<1>11. Shows(st, acc, db)
  BY <1>3, <1>5, <1>8, <1>10 DEF Shows
<1>12. NamedOnce(st, db.next_object_id)
  BY <1>5 DEF NamedOnce
<1>13. ContractIsRead(st, l)
  BY <1>1, <1>7, <1>9, <1>11, <1>12, ShownIsRead DEF acc
<1>14. QED
  BY <1>13 DEF st, l

----------------------------------------------------------------------------
(* What is planned: the staged database, with a version if it is new.      *)
LEMMA AllocatesItself ==
  ASSUME NEW db, DatabaseSound(db)
  PROVE  Staged(db, db)
BY DEF Staged, Extends, Allocates, TableExtends, DatabaseSound, TableSound

LEMMA MigratedIs ==
  ASSUME NEW b, Staged(b.before, b.staged), NEW version
  PROVE  LET after == Migrated(b, version)
         IN  /\ Plannable(b.before, after)
             /\ after = b.before \/ after.tables = b.staged.tables
<1> DEFINE before == b.before
           staged == b.staged
           after == Migrated(b, version)
           M == staged.migrations \cup {version}
<1>1. /\ DatabaseSound(before) /\ DatabaseSound(staged)
      /\ Allocates(before, staged) /\ staged.migrations = before.migrations
      /\ Allocates(before, before)
  BY AllocatesItself DEF Staged, Extends
<1>2. IsFiniteSet({}) /\ IsFiniteSet({version})
  BY FS_EmptySet, FS_Singleton
<1>3. CASE version = Absent
  <2>1. after = staged
    BY <1>3 DEF Migrated
  <2>2. staged.migrations \ before.migrations = {}
    BY <1>1
  <2>3. QED
    BY <1>1, <1>2, <2>1, <2>2 DEF Plannable
<1>4. CASE version # Absent /\ version \in before.migrations
  <2>1. after = before
    BY <1>4 DEF Migrated
  <2>2. before.migrations \ before.migrations = {}
    OBVIOUS
  <2>3. QED
    BY <1>1, <1>2, <2>1, <2>2 DEF Plannable
<1>5. CASE version # Absent /\ version \notin before.migrations
  <2>1. after = [staged EXCEPT !.migrations = M]
    BY <1>5 DEF Migrated
  <2>2. /\ staged = [tables |-> staged.tables, migrations |-> staged.migrations,
                     next_object_id |-> staged.next_object_id]
        /\ staged.tables = [t \in DOMAIN staged.tables |-> staged.tables[t]]
    BY <1>1 DEF DatabaseSound, DatabaseFormed
  <2> HIDE DEF after, M, staged
  <2>3. after = [tables |-> staged.tables, migrations |-> M, next_object_id |-> staged.next_object_id]
    BY <2>1, <2>2
  <2>4. /\ after.tables = staged.tables /\ after.migrations = M
        /\ after.next_object_id = staged.next_object_id
        /\ after = [tables |-> after.tables, migrations |-> after.migrations,
                    next_object_id |-> after.next_object_id]
    BY <2>3
  <2>5. DatabaseSound(after)
    BY <1>1, <2>2, <2>4 DEF DatabaseSound, DatabaseFormed
  <2>6. Allocates(before, after)
    BY <1>1, <2>4 DEF Allocates
  <2>7. before.migrations \subseteq M /\ M \ before.migrations = {version}
    BY <1>1, <1>5 DEF M
  <2>8. QED
    BY <1>2, <2>4, <2>5, <2>6, <2>7 DEF Plannable, after, staged
<1>6. QED
  BY <1>3, <1>4, <1>5
----------------------------------------------------------------------------
(* The inductive invariant: the replay of the log shows the contract's     *)
(* state, and a batch holds sound databases, on the snapshot it took as    *)
(* long as nobody has committed since.                                     *)
BatchOf(privileged, revision, before, staged, statements) ==
    [status |-> "open", privileged |-> privileged, revision |-> revision,
     before |-> before, staged |-> staged, statements |-> statements]

BatchFormed(b) ==
    b = BatchOf(b.privileged, b.revision, b.before, b.staged, b.statements)

BatchSound(b, st, l) ==
    /\ BatchFormed(b)
    /\ b.revision \in Nat /\ b.revision =< st.revision
    /\ Staged(b.before, b.staged)
    /\ b.privileged \/ metadata(b.before) = metadata(b.staged)
    /\ b.revision = st.revision => b.before = rebuild(l).db

ProjectionInvariant ==
    /\ ContractIsRead(store, log)
    /\ batch = [w \in Writer |-> batch[w]]
    /\ \A w \in Writer : batch[w] = Idle \/ BatchSound(batch[w], store, log)

LEMMA BatchParts ==
  ASSUME NEW privileged, NEW revision, NEW before, NEW staged, NEW statements
  PROVE  LET b == BatchOf(privileged, revision, before, staged, statements)
         IN  /\ BatchFormed(b) /\ b.status = "open" /\ b.revision = revision
             /\ b.before = before /\ b.staged = staged /\ b.privileged = privileged
BY DEF BatchOf, BatchFormed

LEMMA InitIsRead == ASSUME ProjectionInit PROVE ProjectionInvariant
<1>1. ContractIsRead(store, log)
  BY EmptyIsRead DEF ProjectionInit
<1>2. batch = [w \in Writer |-> batch[w]] /\ \A w \in Writer : batch[w] = Idle
  BY DEF ProjectionInit
<1>3. QED
  BY <1>1, <1>2 DEF ProjectionInvariant

(* A step of one writer, as far as the batches go.                         *)
LEMMA OneBatchChanges ==
  ASSUME ProjectionInvariant, NEW w \in Writer, NEW b, batch' = [batch EXCEPT ![w] = b]
  PROVE  /\ batch' = [v \in Writer |-> batch'[v]]
         /\ batch'[w] = b /\ \A v \in Writer : v # w => batch'[v] = batch[v]
BY DEF ProjectionInvariant

LEMMA OpenKeeps ==
  ASSUME ProjectionInvariant, NEW w \in Writer, NEW privileged, Open(w, privileged)
  PROVE  ProjectionInvariant'
<1> DEFINE db == rebuild(log).db
           b == BatchOf(privileged, store.revision, db, db, 0)
<1>1. batch' = [batch EXCEPT ![w] = b] /\ store' = store /\ log' = log
  BY DEF Open, BatchOf
<1>2. /\ BatchFormed(b) /\ b.revision = store.revision /\ b.before = db /\ b.staged = db
  <2> HIDE DEF db
  <2>1. QED
    BY BatchParts
<1>3. store.revision \in Nat /\ DatabaseSound(db) /\ ContractIsRead(store, log)
  BY DEF ProjectionInvariant, ContractIsRead, Linked, Framed
<1>4. Staged(db, db)
  BY <1>3, AllocatesItself
<1> HIDE DEF b
<1>5. BatchSound(b, store, log)
  BY <1>2, <1>3, <1>4 DEF BatchSound
<1> HIDE DEF db
<1>6. /\ batch' = [v \in Writer |-> batch'[v]]
      /\ batch'[w] = b /\ \A v \in Writer : v # w => batch'[v] = batch[v]
  BY <1>1, OneBatchChanges
<1>7. \A v \in Writer : batch'[v] = Idle \/ BatchSound(batch'[v], store, log)
  BY <1>5, <1>6 DEF ProjectionInvariant
<1>8. QED
  BY <1>1, <1>3, <1>6, <1>7 DEF ProjectionInvariant

LEMMA OpenIsSound ==
  ASSUME ProjectionInvariant, NEW w \in Writer, batch[w].status = "open"
  PROVE  BatchSound(batch[w], store, log)
<1>1. Idle.status = "idle"
  BY DEF Idle
<1>2. batch[w] # Idle
  BY <1>1
<1>3. QED
  BY <1>2 DEF ProjectionInvariant

LEMMA StageKeeps ==
  ASSUME ProjectionInvariant, NEW w \in Writer, batch[w].status = "open",
         NEW db, Staged(batch[w].before, db), Stage(w, db),
         batch[w].privileged \/ metadata(db) = metadata(batch[w].staged)
  PROVE  ProjectionInvariant'
<1> DEFINE old == batch[w]
           b == BatchOf(old.privileged, old.revision, old.before, db, old.statements + 1)
<1>1. BatchSound(old, store, log)
  BY OpenIsSound
<1>2. old = BatchOf(old.privileged, old.revision, old.before, old.staged, old.statements)
  BY <1>1 DEF BatchSound, BatchFormed
<1>3. batch' = [batch EXCEPT ![w] = b] /\ store' = store /\ log' = log
  <2> DEFINE n == old.statements + 1
             x == [old EXCEPT !.staged = db]
             y == [x EXCEPT !.statements = n]
  <2>1. batch = [v \in Writer |-> batch[v]]
    BY DEF ProjectionInvariant
  <2>a. batch' = [batch EXCEPT ![w].staged = db, ![w].statements = n] /\ store' = store /\ log' = log
    <3>1. (batch[w].statements) = old.statements
      OBVIOUS
    <3>2. QED
      BY <1>2, <2>1, <3>1 DEF Stage, BatchOf
  <2> HIDE DEF n
  <2>2. [batch EXCEPT ![w].staged = db, ![w].statements = n] = [batch EXCEPT ![w] = y]
    BY <2>1
  <2> HIDE DEF old
  <2>3. x = BatchOf(old.privileged, old.revision, old.before, db, old.statements)
    BY <1>2 DEF BatchOf
  <2> HIDE DEF x
  <2>4. y = BatchOf(old.privileged, old.revision, old.before, db, n)
    BY <2>3 DEF BatchOf
  <2>5. QED
    BY <2>a, <2>2, <2>4 DEF n
<1>4. /\ BatchFormed(b) /\ b.revision = old.revision /\ b.before = old.before /\ b.staged = db
      /\ b.privileged = old.privileged
  <2> HIDE DEF old
  <2>1. QED
    BY BatchParts
<1> HIDE DEF b
<1>5. BatchSound(b, store, log)
  BY <1>1, <1>4 DEF BatchSound
<1>6. /\ batch' = [v \in Writer |-> batch'[v]]
      /\ batch'[w] = b /\ \A v \in Writer : v # w => batch'[v] = batch[v]
  BY <1>3, OneBatchChanges
<1>7. \A v \in Writer : batch'[v] = Idle \/ BatchSound(batch'[v], store, log)
  BY <1>5, <1>6 DEF ProjectionInvariant
<1>8. QED
  BY <1>3, <1>6, <1>7 DEF ProjectionInvariant

LEMMA StatementKeeps ==
  ASSUME ProjectionInvariant, NEW w \in Writer, Statement(w)
  PROVE  ProjectionInvariant'
<1> DEFINE db == batch[w].staged
           before == batch[w].before
<1>1. batch[w].status = "open"
  BY DEF Statement
<1>2. Staged(before, db)
  BY <1>1, OpenIsSound DEF BatchSound
<1> DEFINE Stages(new) ==
              /\ Staged(before, new) /\ Stage(w, new)
              /\ batch[w].privileged \/ metadata(new) = metadata(db)
<1>3. SUFFICES \E new : Stages(new)
  BY <1>1, StageKeeps
<1>4. CASE Definition(w)
  <2>0. batch[w].privileged
    BY <1>4 DEF Definition
  <2>1. ASSUME db.next_object_id < MaxObject, NEW type \in Type, Stage(w, CreateTable(db, type))
        PROVE  \E new : Stages(new)
    BY <1>2, <2>0, <2>1, CreateTableStages
  <2>2. ASSUME NEW t \in DOMAIN db.tables, Stage(w, DropTable(db, t))
        PROVE  \E new : Stages(new)
    BY <1>2, <2>0, <2>2, DropTableStages
  <2>3. ASSUME NEW t \in DOMAIN db.tables, db.next_object_id =< MaxObject,
               NEW type \in Type, NEW v \in Value \cup {Null}, Stage(w, AddColumn(db, t, type, v))
        PROVE  \E new : Stages(new)
    BY <1>2, <2>0, <2>3, AddColumnStages
  <2>4. ASSUME NEW t \in DOMAIN db.tables, NEW c \in DOMAIN db.tables[t].columns,
               Stage(w, DropColumn(db, t, c))
        PROVE  \E new : Stages(new)
    BY <1>2, <2>0, <2>4, DropColumnStages
  <2>5. QED
    BY <1>4, <2>1, <2>2, <2>3, <2>4 DEF Definition
<1>5. CASE Manipulation(w)
  <2>1. ASSUME NEW t \in DOMAIN db.tables, db.tables[t].next_row_id =< MaxRow,
               NEW v \in Value \cup {Null}, Stage(w, Insert(db, t, v))
        PROVE  \E new : Stages(new)
    BY <1>2, <2>1, InsertStages
  <2>2. ASSUME NEW t \in DOMAIN db.tables, NEW r \in DOMAIN db.tables[t].rows,
               Stage(w, Delete(db, t, r))
        PROVE  \E new : Stages(new)
    BY <1>2, <2>2, DeleteStages
  <2>3. ASSUME NEW t \in DOMAIN db.tables, NEW r \in DOMAIN db.tables[t].rows,
               NEW c \in DOMAIN db.tables[t].columns, NEW v \in Value \cup {Null},
               Stage(w, Update(db, t, r, c, v))
        PROVE  \E new : Stages(new)
    BY <1>2, <2>3, UpdateStages
  <2>4. QED
    BY <1>5, <2>1, <2>2, <2>3 DEF Manipulation
<1>6. QED
  BY <1>4, <1>5 DEF Statement

LEMMA FailKeeps ==
  ASSUME ProjectionInvariant, NEW w \in Writer, Fail(w)
  PROVE  ProjectionInvariant'
<1>1. /\ batch' = [batch EXCEPT ![w] = Idle] /\ store' = store /\ log' = log
  BY DEF Fail
<1>2. /\ batch' = [v \in Writer |-> batch'[v]]
      /\ batch'[w] = Idle /\ \A v \in Writer : v # w => batch'[v] = batch[v]
  BY <1>1, OneBatchChanges
<1>3. \A v \in Writer : batch'[v] = Idle \/ BatchSound(batch'[v], store, log)
  BY <1>2 DEF ProjectionInvariant
<1>4. QED
  BY <1>1, <1>2, <1>3 DEF ProjectionInvariant

(* A submitted plan leaves the contract as it was, or its snapshot was the *)
(* present state and its database is what the next replay reads.           *)
BatchCommitted(b, version) ==
    /\ b.before = rebuild(log).db
    /\ ContractIsRead(store', log')
    /\ store'.revision = store.revision + 1
    /\ Same(rebuild(log').db, Migrated(b, version))
    /\ Migrated(b, version).tables = b.staged.tables

LEMMA SubmitCommits ==
  ASSUME ProjectionInvariant, NEW w \in Writer, NEW version, Submit(w, version)
  PROVE  (store' = store /\ log' = log) \/ BatchCommitted(batch[w], version)
<1> DEFINE b == batch[w]
           after == Migrated(b, version)
           ops == plan(b.before, after)
           result == Apply(store, b.revision, ops, b.privileged)
<1>1. BatchSound(b, store, log) /\ ContractIsRead(store, log)
  BY OpenIsSound DEF Submit, ProjectionInvariant
<1>2. SUFFICES ASSUME ops # <<>>, result.ok,
                      store' = result.store, log' = log \o EventsOf(ops, result.store.revision)
               PROVE  BatchCommitted(b, version)
  BY DEF Submit
<1>3. /\ Plannable(b.before, after)
      /\ after = b.before \/ after.tables = b.staged.tables
  <2> HIDE DEF b
  <2>1. QED
    BY <1>1, MigratedIs DEF BatchSound
<1> HIDE DEF b, after
<1>4. after # b.before
  BY <1>1, <1>2, NothingToPlan DEF BatchSound, Staged
<1>5. IsPlan(ops)
  <2>1. ops \in Seq(Possible(b.before, after))
    BY <1>3, PlanIs, SoundIsWritable DEF Plannable
  <2>2. QED
    BY <2>1 DEF IsPlan
<1> HIDE DEF ops
<1>6. b.revision = store.revision
  BY <1>2, <1>5, AppliedWasAdmitted DEF PlanAdmitted
<1>7. b.before = rebuild(log).db
  BY <1>1, <1>6 DEF BatchSound
<1>8. /\ ContractIsRead(store', log') /\ Same(rebuild(log').db, after)
      /\ store'.revision = store.revision + 1
  <2> DEFINE st2 == result.store
             l2 == Grown(log, ops, st2.revision)
  <2>a. ops = plan(b.before, after)
    BY DEF ops
  <2>1. CommittedAs(store, st2, l2, after)
    BY <1>1, <1>2, <1>3, <1>7, <2>a, CommitIsRead
  <2>2. store' = st2 /\ log' = l2
    BY <1>2 DEF Grown
  <2>3. QED
    BY <2>1, <2>2 DEF CommittedAs
<1>9. QED
  BY <1>3, <1>4, <1>7, <1>8 DEF BatchCommitted, after

LEMMA SubmitKeeps ==
  ASSUME ProjectionInvariant, NEW w \in Writer, NEW version, Submit(w, version)
  PROVE  ProjectionInvariant'
<1>1. batch' = [batch EXCEPT ![w] = Idle]
  BY DEF Submit
<1>2. /\ batch' = [v \in Writer |-> batch'[v]]
      /\ batch'[w] = Idle /\ \A v \in Writer : v # w => batch'[v] = batch[v]
  BY <1>1, OneBatchChanges
<1>3. CASE store' = store /\ log' = log
  <2>1. \A v \in Writer : batch'[v] = Idle \/ BatchSound(batch'[v], store, log)
    BY <1>2 DEF ProjectionInvariant
  <2>2. QED
    BY <1>2, <1>3, <2>1 DEF ProjectionInvariant
<1>4. CASE BatchCommitted(batch[w], version)
  <2>1. ContractIsRead(store', log') /\ store'.revision = store.revision + 1
    BY <1>4 DEF BatchCommitted
  <2>2. store.revision \in Nat
    BY DEF ProjectionInvariant, ContractIsRead, Linked, Framed
  <2>3. ASSUME NEW v \in Writer PROVE batch'[v] = Idle \/ BatchSound(batch'[v], store', log')
    <3>1. CASE v = w
      BY <1>2, <3>1
    <3>2. CASE v # w /\ batch[v] = Idle
      BY <1>2, <3>2
    <3>3. CASE v # w /\ BatchSound(batch[v], store, log)
      BY <1>2, <2>1, <2>2, <3>3 DEF BatchSound
    <3>4. QED
      BY <3>1, <3>2, <3>3 DEF ProjectionInvariant
  <2>4. QED
    BY <1>2, <2>1, <2>3 DEF ProjectionInvariant
<1>5. QED
  BY <1>3, <1>4, SubmitCommits

----------------------------------------------------------------------------
(* The invariant holds: whatever writers do, on whatever snapshots.        *)
THEOREM ProjectionIsInvariant == ProjectionSpec => []ProjectionInvariant
<1>1. ProjectionInit => ProjectionInvariant
  BY InitIsRead
<1>2. ASSUME ProjectionInvariant, [ProjectionNext]_projectionVars PROVE ProjectionInvariant'
  <2>1. CASE UNCHANGED projectionVars
    BY <1>2, <2>1 DEF projectionVars, ProjectionInvariant
  <2>2. CASE ProjectionNext
    <3>1. PICK w \in Writer :
              \/ \E privileged \in BOOLEAN : Open(w, privileged)
              \/ Statement(w)
              \/ Fail(w)
              \/ \E version \in Version \cup {Absent} : Submit(w, version)
      BY <2>2 DEF ProjectionNext
    <3>2. CASE \E privileged \in BOOLEAN : Open(w, privileged)
      BY <1>2, <3>2, OpenKeeps
    <3>3. CASE Statement(w)
      BY <1>2, <3>3, StatementKeeps
    <3>4. CASE Fail(w)
      BY <1>2, <3>4, FailKeeps
    <3>5. CASE \E version \in Version \cup {Absent} : Submit(w, version)
      BY <1>2, <3>5, SubmitKeeps
    <3>6. QED
      BY <3>1, <3>2, <3>3, <3>4, <3>5
  <2>3. QED
    BY <1>2, <2>1, <2>2
<1>3. QED
  BY <1>1, <1>2, PTL DEF ProjectionSpec

(* Whatever plans were committed, the next gateway to start can replay     *)
(* them (rebuild of projection.rs).                                        *)
THEOREM LogAlwaysReplays == ProjectionSpec => []LogReplays
<1>1. ProjectionInvariant => LogReplays
  BY DEF ProjectionInvariant, ContractIsRead, LogReplays
<1>2. QED
  BY <1>1, ProjectionIsInvariant, PTL

(* The replayed database is the contract's state: rows, versions, cells    *)
(* and migrations (rebuild against getCell, rowVersion, appliedMigrations). *)
THEOREM ReplayIsTheContract == ProjectionSpec => []ProjectionMatchesContract
<1>1. ASSUME ProjectionInvariant PROVE ProjectionMatchesContract
  <2> DEFINE acc == Replayed(log)
             db == rebuild(log).db
  <2>1. Linked(store, acc) /\ Shows(store, acc, db) /\ VersionsAs(acc, db)
    BY <1>1 DEF ProjectionInvariant, ContractIsRead
  <2> HIDE DEF acc, db
  <2>2. RowsOf(db) = store.rows /\ db.migrations = store.migrations
    BY <2>1 DEF Shows
  <2>3. ASSUME NEW row \in RowsOf(db)
        PROVE  /\ db.tables[row[1]].rows[row[2]].version = store.version[row]
               /\ \A c \in DOMAIN db.tables[row[1]].columns :
                     /\ c \in DOMAIN CellsOf(store, row)
                     /\ CellsOf(store, row)[c] =
                           encode(db.tables[row[1]].columns[c], ValueIn(db, row, c))
    <3>1. /\ row[1] \in DOMAIN db.tables /\ row[2] \in DOMAIN db.tables[row[1]].rows
          /\ row = <<row[1], row[2]>>
      BY FiniteRows, RowPair DEF RowsOf
    <3>2. Agrees(store, acc, row)
      BY <2>1, <2>2 DEF Linked
    <3>3. db.tables[row[1]].rows[row[2]].version = acc.rows[row].version
      BY <2>1, <3>1 DEF VersionsAs
    <3>4. \A c \in ColumnsOf(db, row) : Reads(acc, row, c, Target(db, row, c))
      BY <2>1 DEF Shows
    <3>5. QED
      BY <3>2, <3>3, <3>4 DEF Agrees, Reads, ColumnsOf, Target
  <2>4. QED
    BY <2>2, <2>3 DEF ProjectionMatchesContract, db
<1>2. QED
  BY <1>1, ProjectionIsInvariant, PTL

(* An identifier a row has had is never given to another row, not even     *)
(* after a restart (next_row_id of rebuild and of INSERT).                 *)
THEOREM RowIdsAreGivenOnce == ProjectionSpec => []RowIdsAreNeverReused
<1>1. ProjectionInvariant => RowIdsAreNeverReused
  BY DEF ProjectionInvariant, ContractIsRead, NamedOnce, RowIdsAreNeverReused
<1>2. QED
  BY <1>1, ProjectionIsInvariant, PTL

(* A plan made on the present state is accepted, whatever statements are   *)
(* behind it, unless it is too long; a plan of a user's batch keeps off    *)
(* the catalog (plan of projection.rs against _apply).                     *)
THEOREM FreshPlansPass == ProjectionSpec => []FreshPlansAreAccepted
<1>1. ASSUME ProjectionInvariant, NEW w \in Writer, batch[w].status = "open",
             batch[w].revision = store.revision,
             Len(plan(batch[w].before, batch[w].staged)) \in 1..MaxOperations
      PROVE  Apply(store, batch[w].revision, plan(batch[w].before, batch[w].staged),
                   batch[w].privileged).ok
  <2> DEFINE before == batch[w].before
             staged == batch[w].staged
             ops == plan(before, staged)
             p == batch[w].privileged
  <2>1. /\ Staged(before, staged) /\ before = rebuild(log).db
        /\ p \/ metadata(before) = metadata(staged)
    BY <1>1, OpenIsSound DEF BatchSound
  <2>2. Framed(store) /\ store.rows = RowsOf(before)
    BY <1>1, <2>1 DEF ProjectionInvariant, ContractIsRead, Linked, Shows
  <2>3. Writable(staged) /\ before.migrations = staged.migrations
    BY <2>1, SoundIsWritable DEF Staged, Extends
  <2>4. Len(ops) \in 1..MaxOperations
    BY <1>1
  <2>5. ops = plan(before, staged)
    OBVIOUS
  <2> HIDE DEF before, staged, ops, p
  <2>6. Apply(store, store.revision, ops, p).ok
    BY <2>1, <2>2, <2>3, <2>4, <2>5, PlanIsAccepted
  <2>7. QED
    BY <1>1, <2>6 DEF before, staged, ops, p
<1>2. ProjectionInvariant => FreshPlansAreAccepted
  BY <1>1 DEF FreshPlansAreAccepted
<1>3. QED
  BY <1>2, ProjectionIsInvariant, PTL

(* The same tables, columns, rows and values.                              *)
LEMMA SameContent ==
  ASSUME NEW db, NEW other, Same(db, other)
  PROVE  Content(db) = Content(other)
BY DEF Same, Content

(* A commit means what its writer staged: the next replay has the staged   *)
(* tables, columns and values (plan, then rebuild).                        *)
THEOREM CommitsAreReadBack == ProjectionSpec => CommitsAreRead
<1>1. ASSUME ProjectionInvariant, [ProjectionNext]_projectionVars, NEW w \in Writer,
             batch[w].status = "open", batch'[w] = Idle, store' # store
      PROVE  Content(rebuild(log').db) = Content(batch[w].staged)
  <2>1. PICK v \in Writer : \E version : Submit(v, version)
    <3>1. ProjectionNext
      BY <1>1 DEF projectionVars
    <3>2. PICK v \in Writer :
              \/ \E privileged \in BOOLEAN : Open(v, privileged)
              \/ Statement(v)
              \/ Fail(v)
              \/ \E version \in Version \cup {Absent} : Submit(v, version)
      BY <3>1 DEF ProjectionNext
    <3>3. \A privileged : ~ Open(v, privileged)
      BY <1>1 DEF Open
    <3>4. ~ Fail(v)
      BY <1>1 DEF Fail
    <3>5. \A db : ~ Stage(v, db)
      BY <1>1 DEF Stage
    <3>6. ~ Statement(v)
      BY <3>5 DEF Statement, Definition, Manipulation
    <3>7. QED
      BY <3>2, <3>3, <3>4, <3>6
  <2>2. PICK version : Submit(v, version)
    BY <2>1
  <2>3. v = w
    <3>1. SUFFICES ASSUME v # w PROVE FALSE
      OBVIOUS
    <3>2. batch' = [batch EXCEPT ![v] = Idle]
      BY <2>2 DEF Submit
    <3>3. batch'[w] = batch[w]
      BY <1>1, <3>1, <3>2, OneBatchChanges
    <3>4. Idle.status = "idle"
      BY DEF Idle
    <3>5. QED
      BY <1>1, <3>3, <3>4
  <2>4. BatchCommitted(batch[w], version)
    BY <1>1, <2>2, <2>3, SubmitCommits
  <2>5. /\ Same(rebuild(log').db, Migrated(batch[w], version))
        /\ Migrated(batch[w], version).tables = batch[w].staged.tables
    BY <2>4 DEF BatchCommitted
  <2>6. Content(rebuild(log').db) = Content(Migrated(batch[w], version))
    BY <2>5, SameContent
  <2>7. Content(Migrated(batch[w], version)) = Content(batch[w].staged)
    BY <2>5 DEF Content
  <2>8. QED
    BY <2>6, <2>7
<1>2. ProjectionInvariant /\ [ProjectionNext]_projectionVars =>
        [\A w \in Writer :
            batch[w].status = "open" /\ batch'[w] = Idle /\ store' # store
               => Content(rebuild(log').db) = Content(batch[w].staged)]_projectionVars
  BY <1>1
<1>3. QED
  BY <1>2, ProjectionIsInvariant, PTL DEF ProjectionSpec, CommitsAreRead
=============================================================================
