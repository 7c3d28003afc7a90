---------------------------- MODULE CatalogProofs ----------------------------
(* Theorems about Catalog: what is written about a name keeps meaning the  *)
(* object it meant, whatever is renamed, dropped and added, under however  *)
(* many names and in however many operations of one statement.             *)
(*                                                                         *)
(* The argument, in the order of the sections below:                       *)
(*   - the loops of ALTER TABLE and DROP VIEW are sequences of turns, over *)
(*     which one may use induction (AlterTableTurns, DropViewsTurns);      *)
(*   - what dependents are removed is closed: no view or function that     *)
(*     stays speaks of a name or a view that goes (RemovalRelieves);       *)
(*   - an operation turns a table into one that Inherits it: by their      *)
(*     identifiers, columns keep whether they are keys and deferred, and   *)
(*     policies keep what they speak of (AddedBecomes, RenamedBecomes,     *)
(*     DroppedBecomes);                                                    *)
(*   - so the catalog Evolves: identifiers stay unique, every table has    *)
(*     its ancestor, and texts keep their relations; this composes over    *)
(*     turns (EvolvesOn), whether or not the catalog between two turns is  *)
(*     well defined;                                                       *)
(*   - foreign keys are carried from turn to turn, but they may dangle in  *)
(*     between, or refer to a primary key that is gone for good; at the    *)
(*     end of the statement WellDefined excludes both (LinksCarriedOn,     *)
(*     LinksInTheEnd);                                                     *)
(*   - every statement has an Outcome that says all of this, and so keeps  *)
(*     CatalogWhole, of which the theorems are consequences.               *)
EXTENDS Catalog, TLAPS, WellFoundedInduction, SequenceTheorems

(* Induction over the naturals, for a set of them.                         *)
LEMMA Induction ==
  ASSUME NEW T \in SUBSET Nat, 0 \in T, \A n \in T : n + 1 \in T
  PROVE  T = Nat
<1> DEFINE Less == OpToRel(<, Nat)
           Out == Nat \ T
<1>1. SUFFICES ASSUME Out # {} PROVE FALSE
  OBVIOUS
<1>2. IsWellFoundedOn(Less, Nat)
  BY NatLessThanWellFounded
<1>3. \A x, y \in Nat : <<y, x>> \in Less <=> y < x
  BY DEF OpToRel
<1> HIDE DEF Less
<1>4. PICK m \in Out : \A k \in Out : ~ (<<k, m>> \in Less)
  BY <1>1, <1>2, WFMin
<1>5. m # 0 /\ m - 1 \in Nat /\ m - 1 < m
  BY <1>4
<1>6. m - 1 \in T
  BY <1>3, <1>4, <1>5
<1>7. QED
  BY <1>4, <1>5, <1>6

(* The loops of ALTER TABLE over its operations and of DROP VIEW over its  *)
(* names: one turn, and all of them.                                       *)
Turn(alters, if_exists, cascade, acc, x) ==
    IF alters THEN Alter(acc, x) ELSE drop_view(acc, x, if_exists, cascade)

Turns(g, n, alters, if_exists, cascade, start, s) ==
    g = [i \in 0..n |-> IF i = 0 THEN start ELSE Turn(alters, if_exists, cascade, g[i - 1], s[i])]

LEMMA TurnsExist ==
  ASSUME NEW start, NEW s, NEW alters, NEW if_exists, NEW cascade, NEW n \in Nat
  PROVE  \E g : Turns(g, n, alters, if_exists, cascade, start, s)
<1> DEFINE T == {k \in Nat : \E g : Turns(g, k, alters, if_exists, cascade, start, s)}
<1>1. 0 \in T
  <2> DEFINE g == [i \in 0..0 |-> start]
  <2>1. Turns(g, 0, alters, if_exists, cascade, start, s)
    BY DEF Turns
  <2>2. QED
    BY <2>1
<1>2. ASSUME NEW k \in T PROVE k + 1 \in T
  <2>1. PICK g : Turns(g, k, alters, if_exists, cascade, start, s)
    OBVIOUS
  <2> DEFINE h == [i \in 0..k + 1 |-> IF i = k + 1 THEN Turn(alters, if_exists, cascade, g[k], s[i]) ELSE g[i]]
             body(i) == IF i = 0 THEN start ELSE Turn(alters, if_exists, cascade, h[i - 1], s[i])
  <2>2. ASSUME NEW i \in 0..k + 1 PROVE h[i] = body(i)
    <3>1. CASE i = k + 1
      <4>1. i # 0 /\ i - 1 = k /\ h[i - 1] = g[k]
        BY <3>1
      <4>2. h[i] = Turn(alters, if_exists, cascade, g[k], s[i])
        BY <3>1
      <4> HIDE DEF h
      <4>3. QED
        BY <4>1, <4>2
    <3>2. CASE i # k + 1
      <4>1. i \in 0..k /\ h[i] = g[i]
        BY <3>2
      <4>2. i # 0 => h[i - 1] = g[i - 1]
        BY <3>2
      <4>3. g[i] = IF i = 0 THEN start ELSE Turn(alters, if_exists, cascade, g[i - 1], s[i])
        BY <2>1, <4>1 DEF Turns
      <4> HIDE DEF h
      <4>4. QED
        BY <4>1, <4>2, <4>3
    <3>3. QED
      BY <3>1, <3>2
  <2>3. h = [i \in 0..k + 1 |-> h[i]]
    OBVIOUS
  <2>4. [i \in 0..k + 1 |-> h[i]] = [i \in 0..k + 1 |-> body(i)]
    <3> HIDE DEF h
    <3>1. QED
      BY <2>2
  <2>5. Turns(h, k + 1, alters, if_exists, cascade, start, s)
    <3> HIDE DEF h
    <3>1. QED
      BY <2>3, <2>4 DEF Turns
  <2>6. QED
    BY <2>5
<1>3. T = Nat
  <2> HIDE DEF T
  <2>1. T \in SUBSET Nat
    BY DEF T
  <2>2. QED
    BY <1>1, <1>2, <2>1, Induction
<1>4. QED
  BY <1>3

(* What is committed is what the last turn leaves.                         *)
LEMMA AlterTableTurns ==
  ASSUME NEW name, NEW operations \in Seq(Alteration), AlterTable(name, operations)
  PROVE  /\ name \in DOMAIN db.tables
         /\ \E g : /\ Turns(g, Len(operations), TRUE, FALSE, FALSE, Unaltered(db, name), operations)
                  /\ Commit(g[Len(operations)])
<1> DEFINE n == Len(operations)
           start == Unaltered(db, name)
           g == CHOOSE g : g = [i \in 0..n |->
                                   IF i = 0 THEN start ELSE Alter(g[i - 1], operations[i])]
<1>1. n \in Nat
  OBVIOUS
<1>2. \E h : h = [i \in 0..n |-> IF i = 0 THEN start ELSE Alter(h[i - 1], operations[i])]
  <2>1. \E h : Turns(h, n, TRUE, FALSE, FALSE, start, operations)
    BY <1>1, TurnsExist
  <2>2. QED
    BY <2>1 DEF Turns, Turn
<1>3. g = [i \in 0..n |-> IF i = 0 THEN start ELSE Alter(g[i - 1], operations[i])]
  BY <1>2
<1>4. Turns(g, n, TRUE, FALSE, FALSE, start, operations)
  BY <1>3 DEF Turns, Turn
<1>5. Commit(g[n])
  BY DEF AlterTable
<1>6. QED
  BY <1>4, <1>5 DEF AlterTable

LEMMA DropViewsTurns ==
  ASSUME NEW names \in Seq(Relation), NEW if_exists, NEW cascade, DropViews(names, if_exists, cascade)
  PROVE  \E g : /\ Turns(g, Len(names), FALSE, if_exists, cascade, Ok(db), names)
                /\ Commit([g[Len(names)] EXCEPT !.db.schema_version = @ + 1])
<1> DEFINE n == Len(names)
           g == CHOOSE g : g = [i \in 0..n |-> IF i = 0 THEN Ok(db)
                                   ELSE drop_view(g[i - 1], names[i], if_exists, cascade)]
<1>1. n \in Nat
  OBVIOUS
<1>2. \E h : h = [i \in 0..n |-> IF i = 0 THEN Ok(db)
                                ELSE drop_view(h[i - 1], names[i], if_exists, cascade)]
  <2>1. \E h : Turns(h, n, FALSE, if_exists, cascade, Ok(db), names)
    BY <1>1, TurnsExist
  <2>2. QED
    BY <2>1 DEF Turns, Turn
<1>3. g = [i \in 0..n |-> IF i = 0 THEN Ok(db)
                         ELSE drop_view(g[i - 1], names[i], if_exists, cascade)]
  BY <1>2
<1>4. Turns(g, n, FALSE, if_exists, cascade, Ok(db), names)
  BY <1>3 DEF Turns, Turn
<1>5. Commit([g[n] EXCEPT !.db.schema_version = @ + 1])
  BY DEF DropViews
<1>6. QED
  BY <1>4, <1>5

----------------------------------------------------------------------------
(* What goes with names that stop meaning what they meant.                 *)

(* Some views and functions have gone, and with them all who speak of      *)
(* names or of views that have gone (remove_dependents).                   *)
Thinned(before, after, names, gone) ==
    /\ IsMap(after)
    /\ DOMAIN after \subseteq DOMAIN before
    /\ \A x \in DOMAIN after :
          after[x] = before[x] /\ \A name \in after[x] : name \notin names /\ name \notin gone

(* The part of functions that the code searches.                           *)
Bodies(d) == [f \in DOMAIN d.functions |-> d.functions[f].body]

SameBut(d, e) ==
    /\ IsMap(e) /\ DOMAIN e = CatalogFields
    /\ e.schema_version = d.schema_version /\ e.next_object_id = d.next_object_id

Relieved(d, e, names) ==
    /\ SameBut(d, e) /\ e.tables = d.tables
    /\ Thinned(d.views, e.views, names, DOMAIN d.views \ DOMAIN e.views)
    /\ IsMap(e.functions)
    /\ Thinned(Bodies(d), Bodies(e), names, DOMAIN d.views \ DOMAIN e.views)

LEMMA DependentsAreClosed ==
  ASSUME NEW d, NEW names, NEW v \in DOMAIN d.views, v \notin DependentViews(d, names)
  PROVE  \A name \in d.views[v] : name \notin names /\ name \notin DependentViews(d, names)
<1>1. PICK S \in SUBSET DOMAIN d.views : ViewsOf(d, names \cup S) \subseteq S /\ v \notin S
  BY DEF DependentViews
<1>2. DependentViews(d, names) \subseteq S
  BY <1>1 DEF DependentViews
<1>3. d.views[v] \cap (names \cup S) = {}
  BY <1>1 DEF ViewsOf, references
<1>4. QED
  BY <1>2, <1>3

LEMMA RemovalRelieves ==
  ASSUME NEW d, Formed(d), NEW names, NEW cascade, remove_dependents(d, names, cascade).ok
  PROVE  Relieved(d, remove_dependents(d, names, cascade).db, names)
<1> DEFINE gone == DependentViews(d, names)
           views == Without(d.views, gone)
           functions == Without(d.functions, FunctionsOf(d, names \cup gone))
           e == [d EXCEPT !.views = views, !.functions = functions]
<1>1. remove_dependents(d, names, cascade).db = e
  BY DEF remove_dependents, Refused, Ok
<1>2. SameBut(d, e) /\ e.tables = d.tables /\ e.views = views /\ e.functions = functions
  <2> HIDE DEF views, functions
  <2>1. QED
    BY DEF Formed, CatalogFields, IsMap, SameBut
<1>3. gone \subseteq DOMAIN d.views
  BY DEF DependentViews
<1>4. IsMap(views) /\ IsMap(functions)
  BY DEF IsMap, Without
<1>5. /\ DOMAIN views = DOMAIN d.views \ gone
      /\ \A v \in DOMAIN views : views[v] = d.views[v]
      /\ DOMAIN functions = DOMAIN d.functions \ FunctionsOf(d, names \cup gone)
      /\ \A f \in DOMAIN functions : functions[f] = d.functions[f]
  BY DEF Without
<1>6. Thinned(d.views, views, names, gone)
  <2>1. ASSUME NEW v \in DOMAIN views
        PROVE  \A name \in views[v] : name \notin names /\ name \notin gone
    BY <1>5, <2>1, DependentsAreClosed
  <2> HIDE DEF views, gone
  <2>2. QED
    BY <1>4, <1>5, <2>1 DEF Thinned
<1>7. Thinned(Bodies(d), Bodies(e), names, gone)
  <2> HIDE DEF gone
  <2>1. ASSUME NEW f \in DOMAIN functions
        PROVE  \A name \in d.functions[f].body : name \notin names /\ name \notin gone
    BY <1>5, <2>1 DEF FunctionsOf, references
  <2> HIDE DEF functions, e
  <2>2. /\ DOMAIN Bodies(e) = DOMAIN functions /\ IsMap(Bodies(e))
        /\ DOMAIN Bodies(d) = DOMAIN d.functions
        /\ \A f \in DOMAIN functions :
              f \in DOMAIN d.functions /\ Bodies(e)[f] = d.functions[f].body
              /\ Bodies(d)[f] = d.functions[f].body
    BY <1>2, <1>5 DEF Bodies, IsMap
  <2>3. QED
    BY <2>1, <2>2 DEF Thinned
<1>8. DOMAIN d.views \ DOMAIN views = gone
  BY <1>3, <1>5
<1> HIDE DEF e, views, functions, gone
<1>9. QED
  BY <1>1, <1>2, <1>4, <1>6, <1>7, <1>8 DEF Relieved

----------------------------------------------------------------------------
(* What ALTER TABLE makes of a table, by the identifiers of its columns: w *)
(* is u after any number of operations since identifier n was free.        *)
SameColumn(u, e, w, c) ==
    /\ w.columns[c] = u.columns[e]
    /\ e \in KeysOf(u) <=> c \in KeysOf(w)
    /\ e \in u.deferred_unique <=> c \in w.deferred_unique

ColumnsHeld(u, w, n) ==
    \A c \in DOMAIN w.columns :
        w.columns[c] >= n \/ \E e \in DOMAIN u.columns : SameColumn(u, e, w, c)

PolicyLost(u, w, p) ==
    \E c \in DOMAIN u.columns :
        /\ c \in u.policies[p]
        /\ \A e \in DOMAIN w.columns : w.columns[e] # u.columns[c]

PoliciesHeld(u, w) ==
    \A p \in DOMAIN u.policies :
        IF p \in DOMAIN w.policies THEN PolicyColumns(w, p) = PolicyColumns(u, p)
        ELSE PolicyLost(u, w, p)

Holds(u, w, n) == w.id = u.id /\ ColumnsHeld(u, w, n) /\ PoliciesHeld(u, w)

Inherits(u, w, n) == Holds(u, w, n) /\ DOMAIN w.policies \subseteq DOMAIN u.policies

Distinct(w) == \A c, e \in DOMAIN w.columns : w.columns[c] = w.columns[e] => c = e

Becomes(u, w, n) == TableFormed(w) /\ Distinct(w) /\ Inherits(u, w, n)

TableSound(u, n) ==
    /\ n \in Nat /\ TableFormed(u) /\ Distinct(u)
    /\ \A c \in DOMAIN u.columns : u.columns[c] \in Nat /\ u.columns[c] < n

(* Only the foreign keys differ.                                           *)
Rekeyed(u, w) ==
    /\ IsMap(w) /\ DOMAIN w = TableFields
    /\ w.id = u.id /\ w.columns = u.columns /\ w.primary_key = u.primary_key
    /\ w.unique = u.unique /\ w.deferred_unique = u.deferred_unique /\ w.policies = u.policies
    /\ \A fk \in w.foreign_keys :
          fk \in ForeignKey /\ \E old \in u.foreign_keys : fk.column = old.column

(* A table inherits itself, and still does if it is rekeyed.               *)
LEMMA HoldsItself ==
  ASSUME NEW u, NEW n, TableSound(u, n)
  PROVE  Becomes(u, u, n)
<1>1. ColumnsHeld(u, u, n)
  BY DEF ColumnsHeld, SameColumn
<1>2. PoliciesHeld(u, u)
  BY DEF PoliciesHeld
<1>3. QED
  BY <1>1, <1>2 DEF Becomes, TableSound, Inherits, Holds

LEMMA RekeyedBecomes ==
  ASSUME NEW u, NEW m, NEW w, NEW n, Becomes(u, m, n), Rekeyed(m, w)
  PROVE  Becomes(u, w, n)
<1>1. TableFormed(w)
  <2>1. TableFormed(m) /\ KeysOf(w) = KeysOf(m)
    BY DEF Becomes, Rekeyed, KeysOf
  <2>2. \A fk \in w.foreign_keys : fk \in ForeignKey /\ fk.column \in DOMAIN w.columns
    BY <2>1 DEF Rekeyed, TableFormed
  <2>3. QED
    BY <2>1, <2>2 DEF Rekeyed, TableFormed
<1>2. Distinct(w)
  BY DEF Becomes, Rekeyed, Distinct
<1>3. ColumnsHeld(u, w, n)
  <2>1. KeysOf(w) = KeysOf(m)
    BY DEF Rekeyed, KeysOf
  <2>2. QED
    BY <2>1 DEF Becomes, Inherits, Holds, ColumnsHeld, SameColumn, Rekeyed
<1>4. PoliciesHeld(u, w)
  BY DEF Becomes, Inherits, Holds, PoliciesHeld, PolicyLost, PolicyColumns, Rekeyed
<1>5. QED
  BY <1>1, <1>2, <1>3, <1>4 DEF Becomes, Inherits, Holds, Rekeyed

(* One statement's turns, one after the other.                             *)
LEMMA HoldsOn ==
  ASSUME NEW u, NEW m, NEW w, NEW n, NEW k, TableSound(u, n), TableSound(m, k), n <= k,
         Inherits(u, m, n), Inherits(m, w, k),
         \A c \in DOMAIN w.columns : w.columns[c] \in Nat
  PROVE  Inherits(u, w, n)
<1>1. ColumnsHeld(u, w, n)
  <2>1. SUFFICES ASSUME NEW c \in DOMAIN w.columns, ~ (w.columns[c] >= n)
                 PROVE  \E e \in DOMAIN u.columns : SameColumn(u, e, w, c)
    BY DEF ColumnsHeld
  <2>2. ~ (w.columns[c] >= k)
    BY <2>1 DEF TableSound
  <2>3. PICK e \in DOMAIN m.columns : SameColumn(m, e, w, c)
    BY <2>2 DEF Inherits, Holds, ColumnsHeld
  <2>4. ~ (m.columns[e] >= n)
    BY <2>1, <2>3 DEF SameColumn
  <2>5. PICK f \in DOMAIN u.columns : SameColumn(u, f, m, e)
    BY <2>4 DEF Inherits, Holds, ColumnsHeld
  <2>6. SameColumn(u, f, w, c)
    BY <2>3, <2>5 DEF SameColumn
  <2>7. QED
    BY <2>6
<1>2. PoliciesHeld(u, w)
  <2>1. SUFFICES ASSUME NEW p \in DOMAIN u.policies
                 PROVE  IF p \in DOMAIN w.policies THEN PolicyColumns(w, p) = PolicyColumns(u, p)
                        ELSE PolicyLost(u, w, p)
    BY DEF PoliciesHeld
  <2>2. CASE p \in DOMAIN w.policies
    BY <2>2 DEF Inherits, Holds, PoliciesHeld
  <2>3. CASE p \notin DOMAIN w.policies /\ p \in DOMAIN m.policies
    <3>1. PICK c \in DOMAIN m.columns :
             c \in m.policies[p] /\ \A e \in DOMAIN w.columns : w.columns[e] # m.columns[c]
      BY <2>3 DEF Inherits, Holds, PoliciesHeld, PolicyLost
    <3>2. m.columns[c] \in PolicyColumns(m, p)
      BY <3>1 DEF PolicyColumns
    <3>3. PolicyColumns(m, p) = PolicyColumns(u, p)
      BY <2>3 DEF Inherits, Holds, PoliciesHeld
    <3>4. PICK f \in u.policies[p] : u.columns[f] = m.columns[c]
      BY <3>2, <3>3 DEF PolicyColumns
    <3>5. f \in DOMAIN u.columns
      BY DEF TableSound, TableFormed
    <3>6. PolicyLost(u, w, p)
      BY <3>1, <3>4, <3>5 DEF PolicyLost
    <3>7. QED
      BY <2>3, <3>6
  <2>4. CASE p \notin DOMAIN m.policies
    <3>1. PICK c \in DOMAIN u.columns :
             c \in u.policies[p] /\ \A e \in DOMAIN m.columns : m.columns[e] # u.columns[c]
      BY <2>4 DEF Inherits, Holds, PoliciesHeld, PolicyLost
    <3>2. \A e \in DOMAIN w.columns : w.columns[e] # u.columns[c]
      <4>1. SUFFICES ASSUME NEW e \in DOMAIN w.columns, w.columns[e] = u.columns[c]
                     PROVE  FALSE
        OBVIOUS
      <4>2. ~ (w.columns[e] >= k)
        BY <4>1 DEF TableSound
      <4>3. PICK f \in DOMAIN m.columns : SameColumn(m, f, w, e)
        BY <4>2 DEF Inherits, Holds, ColumnsHeld
      <4>4. QED
        BY <3>1, <4>1, <4>3 DEF SameColumn
    <3>3. p \notin DOMAIN w.policies
      BY <2>4 DEF Inherits
    <3>4. QED
      BY <3>1, <3>2, <3>3 DEF PolicyLost
  <2>5. QED
    BY <2>2, <2>3, <2>4
<1>3. QED
  BY <1>1, <1>2 DEF Inherits, Holds

----------------------------------------------------------------------------
(* The operations on one table.                                            *)
AddedTo(table, op, n) ==
    [table EXCEPT !.columns = Put(@, op.column, n),
                  !.unique = IF op.unique THEN @ \cup {op.column} ELSE @,
                  !.generated = op.generated @@ @,
                  !.checks = @ \cup op.checks,
                  !.foreign_keys = @ \cup {[r EXCEPT !.column = op.column] : r \in op.references}]

ColumnKey(r, column) == [r EXCEPT !.column = column]

LEMMA ColumnKeys ==
  ASSUME NEW r \in ForeignKey, NEW column \in ColumnName
  PROVE  /\ ColumnKey(r, column) \in ForeignKey
         /\ ColumnKey(r, column).column = column
         /\ ColumnKey(r, column).target = r.target
         /\ ColumnKey(r, column).refers = r.refers
BY DEF ColumnKey, ForeignKey

Added(table, op, n, w) ==
    /\ IsMap(w) /\ DOMAIN w = TableFields
    /\ w.id = table.id /\ w.columns = Put(table.columns, op.column, n)
    /\ w.primary_key = table.primary_key
    /\ w.unique = IF op.unique THEN table.unique \cup {op.column} ELSE table.unique
    /\ w.deferred_unique = table.deferred_unique
    /\ w.foreign_keys = table.foreign_keys \cup {ColumnKey(r, op.column) : r \in op.references}
    /\ w.policies = table.policies

LEMMA AddedFields ==
  ASSUME NEW table, NEW op, NEW n, DOMAIN table = TableFields
  PROVE  Added(table, op, n, AddedTo(table, op, n))
<1> DEFINE columns == Put(table.columns, op.column, n)
           unique == IF op.unique THEN table.unique \cup {op.column} ELSE table.unique
           generated == op.generated @@ table.generated
           checks == table.checks \cup op.checks
           keys == table.foreign_keys \cup {ColumnKey(r, op.column) : r \in op.references}
           w == [table EXCEPT !.columns = columns, !.unique = unique, !.generated = generated,
                              !.checks = checks, !.foreign_keys = keys]
<1>1. AddedTo(table, op, n) = w
  BY DEF AddedTo, ColumnKey
<1>2. /\ IsMap(w) /\ DOMAIN w = TableFields
      /\ w.id = table.id /\ w.columns = columns /\ w.primary_key = table.primary_key
      /\ w.unique = unique /\ w.deferred_unique = table.deferred_unique
      /\ w.foreign_keys = keys /\ w.policies = table.policies
  <2> HIDE DEF columns, unique, generated, checks, keys
  <2>1. QED
    BY DEF IsMap, TableFields
<1>3. QED
  <2> HIDE DEF w
  <2>1. QED
    BY <1>1, <1>2 DEF Added

LEMMA AddedBecomes ==
  ASSUME NEW table, NEW op, NEW n, TableSound(table, n), op.column \notin DOMAIN table.columns,
         op.column \in ColumnName, op.references \in SUBSET ForeignKey
  PROVE  /\ Becomes(table, AddedTo(table, op, n), n)
         /\ \A c \in DOMAIN AddedTo(table, op, n).columns :
               AddedTo(table, op, n).columns[c] >= n => AddedTo(table, op, n).columns[c] = n
<1> DEFINE w == AddedTo(table, op, n)
<1>0. Added(table, op, n, w)
  BY AddedFields DEF TableSound, TableFormed
<1> HIDE DEF w
<1>1. /\ IsMap(w) /\ DOMAIN w = TableFields
      /\ w.id = table.id /\ w.columns = Put(table.columns, op.column, n)
      /\ w.primary_key = table.primary_key
      /\ w.unique = IF op.unique THEN table.unique \cup {op.column} ELSE table.unique
      /\ w.deferred_unique = table.deferred_unique
      /\ w.foreign_keys = table.foreign_keys \cup {ColumnKey(r, op.column) : r \in op.references}
      /\ w.policies = table.policies
  BY <1>0 DEF Added
<1>2. /\ IsMap(w.columns) /\ DOMAIN w.columns = DOMAIN table.columns \cup {op.column}
      /\ \A c \in DOMAIN table.columns : w.columns[c] = table.columns[c]
      /\ w.columns[op.column] = n
  BY <1>1 DEF Put, IsMap
<1>3. KeysOf(w) \cup w.deferred_unique \subseteq DOMAIN w.columns
  BY <1>1, <1>2 DEF KeysOf, TableSound, TableFormed
<1>4. TableFormed(w)
  <2>1. \A fk \in w.foreign_keys : fk \in ForeignKey /\ fk.column \in DOMAIN w.columns
    <3>1. ASSUME NEW fk \in table.foreign_keys
          PROVE  fk \in ForeignKey /\ fk.column \in DOMAIN w.columns
      BY <1>2 DEF TableSound, TableFormed
    <3>2. ASSUME NEW r \in op.references
          PROVE  ColumnKey(r, op.column) \in ForeignKey
                    /\ ColumnKey(r, op.column).column \in DOMAIN w.columns
      BY <1>2, ColumnKeys
    <3>3. QED
      BY <1>1, <3>1, <3>2
  <2>2. DOMAIN w.columns \subseteq ColumnName
    BY <1>2 DEF TableSound, TableFormed
  <2>3. IsMap(w.policies) /\ \A p \in DOMAIN w.policies : w.policies[p] \subseteq DOMAIN w.columns
    BY <1>1, <1>2 DEF TableSound, TableFormed
  <2>4. QED
    BY <1>1, <1>2, <1>3, <2>1, <2>2, <2>3 DEF TableFormed
<1>5. Distinct(w)
  BY <1>2 DEF Distinct, TableSound
<1>6. ColumnsHeld(table, w, n)
  <2>1. ASSUME NEW c \in DOMAIN table.columns PROVE SameColumn(table, c, w, c)
    BY <1>1, <1>2 DEF SameColumn, KeysOf
  <2>2. w.columns[op.column] >= n
    BY <1>2 DEF TableSound
  <2>3. QED
    BY <1>2, <2>1, <2>2 DEF ColumnsHeld
<1>7. PoliciesHeld(table, w)
  <2>1. ASSUME NEW p \in DOMAIN table.policies PROVE PolicyColumns(w, p) = PolicyColumns(table, p)
    BY <1>1, <1>2 DEF PolicyColumns, TableSound, TableFormed
  <2>2. QED
    BY <1>1, <2>1 DEF PoliciesHeld
<1>8. \A c \in DOMAIN w.columns : w.columns[c] >= n => w.columns[c] = n
  BY <1>2 DEF TableSound
<1>9. QED
  BY <1>1, <1>4, <1>5, <1>6, <1>7, <1>8 DEF w, Becomes, Inherits, Holds

(* A column under its new name, and the old name of a column.              *)
To(c, old, new) == IF c = old THEN new ELSE c
From(c, old, new) == IF c = new THEN old ELSE c

Renamed(table, old, new, w) ==
    /\ IsMap(w) /\ DOMAIN w = TableFields
    /\ w.id = table.id
    /\ w.columns = [c \in rename_expression(DOMAIN table.columns, old, new) |->
                       table.columns[From(c, old, new)]]
    /\ w.primary_key = To(table.primary_key, old, new)
    /\ w.unique = rename_expression(table.unique, old, new)
    /\ w.deferred_unique = rename_expression(table.deferred_unique, old, new)
    /\ w.policies = [p \in DOMAIN table.policies |->
                        rename_expression(table.policies[p], old, new)]
    /\ w.foreign_keys = {ColumnKey(fk, To(fk.column, old, new)) : fk \in table.foreign_keys}

LEMMA RenamedFields ==
  ASSUME NEW table, NEW old, NEW new, DOMAIN table = TableFields
  PROVE  Renamed(table, old, new, RenameInTable(table, old, new))
BY DEF Renamed, RenameInTable, RenameTiming, To, From, ColumnKey, IsMap, TableFields

LEMMA RenameExpression ==
  ASSUME NEW S, NEW T, S \subseteq T, NEW old \in T, NEW new, new \notin T
  PROVE  /\ rename_expression(S, old, new) \subseteq rename_expression(T, old, new)
         /\ \A c \in rename_expression(T, old, new) :
               /\ From(c, old, new) \in T
               /\ To(From(c, old, new), old, new) = c
               /\ c \in rename_expression(S, old, new) <=> From(c, old, new) \in S
         /\ \A c \in T :
               /\ To(c, old, new) \in rename_expression(T, old, new)
               /\ From(To(c, old, new), old, new) = c
BY DEF rename_expression, From, To

LEMMA RenamedBecomes ==
  ASSUME NEW table, NEW old, NEW new, NEW n, TableSound(table, n),
         old \in DOMAIN table.columns, new \notin DOMAIN table.columns, new \in ColumnName
  PROVE  Becomes(table, RenameInTable(table, old, new), n)
<1> DEFINE w == RenameInTable(table, old, new)
           all(S) == rename_expression(S, old, new)
           C == DOMAIN table.columns
<1>0. Renamed(table, old, new, w)
  BY RenamedFields DEF TableSound, TableFormed
<1> HIDE DEF w
<1>1. /\ IsMap(w) /\ DOMAIN w = TableFields /\ w.id = table.id
      /\ w.columns = [c \in all(C) |-> table.columns[From(c, old, new)]]
      /\ w.primary_key = To(table.primary_key, old, new)
      /\ w.unique = all(table.unique) /\ w.deferred_unique = all(table.deferred_unique)
      /\ w.policies = [p \in DOMAIN table.policies |-> all(table.policies[p])]
      /\ w.foreign_keys = {ColumnKey(fk, To(fk.column, old, new)) : fk \in table.foreign_keys}
  BY <1>0 DEF Renamed
<1>2. /\ IsMap(w.columns) /\ DOMAIN w.columns = all(C)
      /\ \A c \in all(C) : w.columns[c] = table.columns[From(c, old, new)]
  BY <1>1 DEF IsMap
<1>3. /\ Absent # old /\ Absent # new
      /\ table.unique \subseteq C /\ table.deferred_unique \subseteq C
      /\ KeysOf(table) \subseteq C
  BY CatalogAssumption DEF TableSound, TableFormed, KeysOf
<1>4. \A c \in all(C) : From(c, old, new) \in C /\ To(From(c, old, new), old, new) = c
  BY DEF rename_expression, To, From
<1>5. /\ \A c \in all(C) : c \in all(table.unique) <=> From(c, old, new) \in table.unique
      /\ \A c \in all(C) :
            c \in all(table.deferred_unique) <=> From(c, old, new) \in table.deferred_unique
      /\ all(table.unique) \subseteq all(C) /\ all(table.deferred_unique) \subseteq all(C)
  BY <1>3, RenameExpression
<1>6. KeysOf(w) \subseteq all(C)
  BY <1>1, <1>3, <1>5 DEF KeysOf, To, rename_expression
<1>7. ASSUME NEW c \in all(C) PROVE SameColumn(table, From(c, old, new), w, c)
  <2>1. From(c, old, new) \in KeysOf(table) <=> c \in KeysOf(w)
    <3>1. From(c, old, new) = table.primary_key <=> c = To(table.primary_key, old, new)
      BY <1>3, <1>4 DEF To, From, KeysOf
    <3>2. From(c, old, new) # Absent /\ c # Absent
      BY <1>3, <1>4, CatalogAssumption DEF From, TableSound, TableFormed
    <3>3. QED
      BY <1>1, <1>5, <3>1, <3>2 DEF KeysOf
  <2>2. QED
    BY <1>1, <1>2, <1>5, <2>1 DEF SameColumn
<1>8. TableFormed(w)
  <2>1. all(C) \subseteq ColumnName
    BY DEF rename_expression, TableSound, TableFormed
  <2>2. \A fk \in w.foreign_keys : fk \in ForeignKey /\ fk.column \in all(C)
    <3>1. ASSUME NEW fk \in table.foreign_keys
          PROVE  /\ ColumnKey(fk, To(fk.column, old, new)) \in ForeignKey
                 /\ ColumnKey(fk, To(fk.column, old, new)).column \in all(C)
      <4>1. fk \in ForeignKey /\ fk.column \in C
        BY DEF TableSound, TableFormed
      <4>2. To(fk.column, old, new) \in all(C)
        BY <4>1, RenameExpression
      <4>3. QED
        BY <2>1, <4>1, <4>2, ColumnKeys
    <3>2. QED
      BY <1>1, <3>1
  <2>3. IsMap(w.policies) /\ \A p \in DOMAIN w.policies : w.policies[p] \subseteq all(C)
    <3>1. ASSUME NEW p \in DOMAIN table.policies PROVE all(table.policies[p]) \subseteq all(C)
      <4>1. table.policies[p] \subseteq C
        BY DEF TableSound, TableFormed
      <4>2. QED
        BY <4>1 DEF rename_expression
    <3> HIDE DEF all
    <3>2. QED
      BY <1>1, <3>1 DEF IsMap
  <2>4. QED
    BY <1>1, <1>2, <1>5, <1>6, <2>1, <2>2, <2>3 DEF TableFormed
<1>9. Distinct(w)
  <2>1. SUFFICES ASSUME NEW c \in all(C), NEW e \in all(C), w.columns[c] = w.columns[e]
                 PROVE  c = e
    BY <1>2 DEF Distinct
  <2>2. From(c, old, new) = From(e, old, new)
    BY <1>2, <1>4, <2>1 DEF TableSound, Distinct
  <2>3. QED
    BY <1>4, <2>2
<1>10. ColumnsHeld(table, w, n)
  BY <1>2, <1>4, <1>7 DEF ColumnsHeld
<1>11. PoliciesHeld(table, w) /\ DOMAIN w.policies = DOMAIN table.policies
  <2>1. DOMAIN w.policies = DOMAIN table.policies
    BY <1>1
  <2>2. ASSUME NEW p \in DOMAIN table.policies PROVE PolicyColumns(w, p) = PolicyColumns(table, p)
    <3>1. table.policies[p] \subseteq C
      BY DEF TableSound, TableFormed
    <3>2. w.policies[p] = all(table.policies[p]) /\ w.policies[p] \subseteq all(C)
      <4>1. all(table.policies[p]) \subseteq all(C)
        BY <3>1 DEF rename_expression
      <4>2. QED
        BY <1>1, <4>1
    <3>3. ASSUME NEW c \in w.policies[p]
          PROVE  From(c, old, new) \in table.policies[p] /\ w.columns[c] = table.columns[From(c, old, new)]
      <4>1. From(c, old, new) \in table.policies[p]
        BY <3>1, <3>2 DEF rename_expression, From
      <4>2. QED
        BY <1>2, <3>2, <4>1
    <3>4. ASSUME NEW c \in table.policies[p]
          PROVE  To(c, old, new) \in w.policies[p] /\ w.columns[To(c, old, new)] = table.columns[c]
      <4>1. To(c, old, new) \in all(table.policies[p]) /\ From(To(c, old, new), old, new) = c
        BY <3>1 DEF To, From, rename_expression
      <4>2. QED
        BY <1>2, <3>2, <4>1
    <3>5. QED
      BY <3>3, <3>4 DEF PolicyColumns
  <2>3. QED
    BY <2>1, <2>2 DEF PoliciesHeld
<1>12. QED
  BY <1>1, <1>8, <1>9, <1>10, <1>11 DEF w, Becomes, Inherits, Holds

(* A column and what goes with it in its own table.                        *)
Dropped(table, name, column, w) ==
    /\ IsMap(w) /\ DOMAIN w = TableFields
    /\ w.id = table.id
    /\ w.columns = Without(table.columns, {column})
    /\ w.primary_key = IF table.primary_key = column THEN Absent ELSE table.primary_key
    /\ w.unique = table.unique \ {column}
    /\ w.deferred_unique = table.deferred_unique \ {column}
    /\ w.policies = Without(table.policies, PoliciesUsing(table, column))
    /\ \A fk \in w.foreign_keys :
          fk \in table.foreign_keys /\ fk.column # column /\ ~ (fk.target = name /\ fk.refers = column)

LEMMA DroppedFields ==
  ASSUME NEW table, NEW name, NEW column, DOMAIN table = TableFields
  PROVE  Dropped(table, name, column, ColumnDropped(table, name, column))
<1> DEFINE m == WithoutColumn(table, name, column)
           policies == Without(m.policies, PoliciesUsing(table, column))
           w == [m EXCEPT !.policies = policies]
<1>1. /\ IsMap(m) /\ DOMAIN m = TableFields
      /\ m.id = table.id
      /\ m.columns = Without(table.columns, {column})
      /\ m.primary_key = (IF table.primary_key = column THEN Absent ELSE table.primary_key)
      /\ m.unique = table.unique \ {column}
      /\ m.deferred_unique = table.deferred_unique \ {column}
      /\ m.policies = table.policies
      /\ m.foreign_keys = {fk \in table.foreign_keys :
                              fk.column # column /\ ~ (fk.target = name /\ fk.refers = column)}
  BY DEF WithoutColumn, IsMap, TableFields
<1>2. ColumnDropped(table, name, column) = w
  BY DEF ColumnDropped
<1>3. /\ IsMap(w) /\ DOMAIN w = TableFields
      /\ w.id = m.id /\ w.columns = m.columns /\ w.primary_key = m.primary_key
      /\ w.unique = m.unique /\ w.deferred_unique = m.deferred_unique
      /\ w.foreign_keys = m.foreign_keys /\ w.policies = policies
  <2> HIDE DEF m, policies
  <2>1. QED
    BY <1>1 DEF IsMap, TableFields
<1>4. QED
  <2> HIDE DEF m, w
  <2>1. \A fk \in w.foreign_keys :
          fk \in table.foreign_keys /\ fk.column # column /\ ~ (fk.target = name /\ fk.refers = column)
    BY <1>1, <1>3
  <2>2. QED
    BY <1>1, <1>2, <1>3, <2>1 DEF Dropped

LEMMA DroppedBecomes ==
  ASSUME NEW table, NEW name, NEW column, NEW n, TableSound(table, n),
         column \in DOMAIN table.columns
  PROVE  Becomes(table, ColumnDropped(table, name, column), n)
<1> DEFINE w == ColumnDropped(table, name, column)
           C == DOMAIN table.columns
<1>0. Dropped(table, name, column, w)
  BY DroppedFields DEF TableSound, TableFormed
<1> HIDE DEF w
<1>1. /\ IsMap(w.columns) /\ DOMAIN w.columns = C \ {column}
      /\ \A c \in DOMAIN w.columns : w.columns[c] = table.columns[c]
  BY <1>0 DEF Dropped, Without, IsMap
<1>2. column # Absent
  BY CatalogAssumption DEF TableSound, TableFormed
<1>3. KeysOf(w) = KeysOf(table) \ {column}
  BY <1>0, <1>2 DEF Dropped, KeysOf
<1>4. /\ IsMap(w.policies)
      /\ \A p \in DOMAIN w.policies :
            /\ p \in DOMAIN table.policies /\ w.policies[p] = table.policies[p]
            /\ column \notin w.policies[p]
      /\ \A p \in DOMAIN table.policies \ DOMAIN w.policies : column \in table.policies[p]
  BY <1>0 DEF Dropped, Without, IsMap, PoliciesUsing, expression_uses
<1>5. TableFormed(w)
  <2>1. KeysOf(w) \cup w.deferred_unique \subseteq DOMAIN w.columns
    BY <1>0, <1>1, <1>3 DEF Dropped, TableSound, TableFormed
  <2>2. \A fk \in w.foreign_keys : fk \in ForeignKey /\ fk.column \in DOMAIN w.columns
    BY <1>0, <1>1 DEF Dropped, TableSound, TableFormed
  <2>3. \A p \in DOMAIN w.policies : w.policies[p] \subseteq DOMAIN w.columns
    BY <1>1, <1>4 DEF TableSound, TableFormed
  <2>4. DOMAIN w.columns \subseteq ColumnName
    BY <1>1 DEF TableSound, TableFormed
  <2>5. QED
    BY <1>0, <1>1, <1>4, <2>1, <2>2, <2>3, <2>4 DEF Dropped, TableFormed
<1>6. Distinct(w)
  BY <1>1 DEF Distinct, TableSound
<1>7. ColumnsHeld(table, w, n)
  <2>1. ASSUME NEW c \in DOMAIN w.columns PROVE c \in C /\ SameColumn(table, c, w, c)
    BY <1>0, <1>1, <1>3 DEF SameColumn, Dropped
  <2>2. QED
    BY <2>1 DEF ColumnsHeld
<1>8. PoliciesHeld(table, w)
  <2>1. ASSUME NEW p \in DOMAIN table.policies, p \in DOMAIN w.policies
        PROVE  PolicyColumns(w, p) = PolicyColumns(table, p)
    BY <1>1, <1>4, <2>1 DEF PolicyColumns, TableSound, TableFormed
  <2>2. ASSUME NEW p \in DOMAIN table.policies, p \notin DOMAIN w.policies
        PROVE  PolicyLost(table, w, p)
    <3>1. column \in table.policies[p]
      BY <1>4, <2>2
    <3>2. \A e \in DOMAIN w.columns : w.columns[e] # table.columns[column]
      BY <1>1 DEF TableSound, Distinct
    <3>3. QED
      BY <3>1, <3>2 DEF PolicyLost
  <2>3. QED
    BY <2>1, <2>2 DEF PoliciesHeld
<1>9. QED
  BY <1>0, <1>4, <1>5, <1>6, <1>7, <1>8 DEF w, Dropped, Becomes, Inherits, Holds

(* The operations that reach other tables reach their foreign keys alone.  *)
LEMMA TablesRekeyed ==
  ASSUME NEW table, TableFormed(table), NEW fks,
         \A fk \in fks : fk \in ForeignKey /\ \E old \in table.foreign_keys : fk.column = old.column
  PROVE  /\ Rekeyed(table, [table EXCEPT !.foreign_keys = fks])
         /\ [table EXCEPT !.foreign_keys = fks].foreign_keys = fks
BY DEF Rekeyed, TableFormed, IsMap, TableFields

----------------------------------------------------------------------------
(* The whole catalog.  Whatever its tables are called by now, each was a   *)
(* table before; at most the table name has a new column, the next one.    *)
Descends(d, e) ==
    \A s \in DOMAIN e.tables :
        \E t \in DOMAIN d.tables : Inherits(d.tables[t], e.tables[s], d.next_object_id)

Follows(d, e, from, name) ==
    /\ IsMap(e) /\ DOMAIN e = CatalogFields
    /\ e.schema_version \in Nat
    /\ e.next_object_id \in Nat /\ d.next_object_id <= e.next_object_id
    /\ IsMap(e.tables) /\ IsMap(e.views) /\ IsMap(e.functions)
    /\ \A s \in DOMAIN e.tables :
          from[s] \in DOMAIN d.tables /\ Becomes(d.tables[from[s]], e.tables[s], d.next_object_id)
    /\ \A s, t \in DOMAIN e.tables : from[s] = from[t] => s = t
    /\ \A s \in DOMAIN e.tables : \A c \in DOMAIN e.tables[s].columns :
          e.tables[s].columns[c] >= d.next_object_id =>
             /\ s = name /\ e.tables[s].columns[c] = d.next_object_id
             /\ d.next_object_id < e.next_object_id

LEMMA TablesSound ==
  ASSUME NEW d, CatalogSound(d), NEW t \in DOMAIN d.tables
  PROVE  TableSound(d.tables[t], d.next_object_id)
<1>1. d.next_object_id \in Nat /\ TableFormed(d.tables[t])
  BY DEF CatalogSound, Formed
<1>2. Distinct(d.tables[t])
  BY DEF CatalogSound, Identified, Distinct
<1>3. QED
  BY <1>1, <1>2 DEF CatalogSound, Identified, TableSound

(* Identifiers stay unique if tables and columns are of before or new.     *)
LEMMA FollowersDescend ==
  ASSUME NEW d, CatalogSound(d), NEW e, NEW from, NEW name, Follows(d, e, from, name)
  PROVE  CatalogSound(e) /\ Descends(d, e)
<1> DEFINE n == d.next_object_id
<1>1. Formed(e)
  BY DEF Follows, Formed, Becomes
<1>2. Descends(d, e)
  BY DEF Follows, Becomes, Descends
<1>3. \A s \in DOMAIN e.tables : e.tables[s].id = d.tables[from[s]].id
  BY DEF Follows, Becomes, Inherits, Holds
<1>4. ASSUME NEW s \in DOMAIN e.tables, NEW c \in DOMAIN e.tables[s].columns
      PROVE  \/ s = name /\ e.tables[s].columns[c] = n /\ n < e.next_object_id
             \/ \E f \in DOMAIN d.tables[from[s]].columns :
                   e.tables[s].columns[c] = d.tables[from[s]].columns[f]
  <2>1. ColumnsHeld(d.tables[from[s]], e.tables[s], n)
    BY DEF Follows, Becomes, Inherits, Holds
  <2>2. QED
    BY <2>1 DEF ColumnsHeld, SameColumn, Follows
<1>5. n \in Nat
  BY DEF CatalogSound, Formed
<1>6. ASSUME NEW s \in DOMAIN e.tables
      PROVE  /\ e.tables[s].id \in Nat /\ e.tables[s].id < e.next_object_id
             /\ \A c \in DOMAIN e.tables[s].columns :
                   /\ e.tables[s].columns[c] \in Nat
                   /\ e.tables[s].columns[c] < e.next_object_id
  <2>1. from[s] \in DOMAIN d.tables /\ n <= e.next_object_id /\ e.next_object_id \in Nat
    BY DEF Follows
  <2>2. d.tables[from[s]].id \in Nat /\ d.tables[from[s]].id < n
    BY <2>1 DEF CatalogSound, Identified
  <2>3. \A f \in DOMAIN d.tables[from[s]].columns :
          d.tables[from[s]].columns[f] \in Nat /\ d.tables[from[s]].columns[f] < n
    BY <2>1 DEF CatalogSound, Identified
  <2>4. QED
    BY <1>3, <1>4, <1>5, <2>1, <2>2, <2>3
<1>7. ASSUME NEW s \in DOMAIN e.tables, NEW t \in DOMAIN e.tables, e.tables[s].id = e.tables[t].id
      PROVE  s = t
  BY <1>3, <1>7 DEF Follows, CatalogSound, Identified
<1>8. ASSUME NEW s \in DOMAIN e.tables, NEW t \in DOMAIN e.tables,
             NEW c \in DOMAIN e.tables[s].columns, NEW f \in DOMAIN e.tables[t].columns,
             e.tables[s].columns[c] = e.tables[t].columns[f]
      PROVE  s = t /\ c = f
  <2>1. s = t
    <3>1. from[s] \in DOMAIN d.tables /\ from[t] \in DOMAIN d.tables
      BY DEF Follows
    <3>2. /\ \A g \in DOMAIN d.tables[from[s]].columns :
              d.tables[from[s]].columns[g] \in Nat /\ d.tables[from[s]].columns[g] < n
          /\ \A g \in DOMAIN d.tables[from[t]].columns :
              d.tables[from[t]].columns[g] \in Nat /\ d.tables[from[t]].columns[g] < n
      BY <3>1 DEF CatalogSound, Identified
    <3>3. CASE e.tables[s].columns[c] = n
      <4>1. s = name
        BY <1>4, <1>5, <3>2, <3>3
      <4>2. t = name
        <5>1. e.tables[t].columns[f] = n
          BY <1>8, <3>3
        <5>2. QED
          BY <1>4, <1>5, <3>2, <5>1
      <4>3. QED
        BY <4>1, <4>2
    <3>4. CASE e.tables[s].columns[c] # n
      <4>1. PICK g \in DOMAIN d.tables[from[s]].columns :
               e.tables[s].columns[c] = d.tables[from[s]].columns[g]
        BY <1>4, <3>4
      <4>2. PICK h \in DOMAIN d.tables[from[t]].columns :
               e.tables[t].columns[f] = d.tables[from[t]].columns[h]
        BY <1>4, <1>8, <3>4
      <4>3. d.tables[from[s]].columns[g] = d.tables[from[t]].columns[h]
        BY <1>8, <4>1, <4>2
      <4>4. \A x, y \in DOMAIN d.tables :
               \A j \in DOMAIN d.tables[x].columns, k \in DOMAIN d.tables[y].columns :
                   d.tables[x].columns[j] = d.tables[y].columns[k] => x = y
        BY DEF CatalogSound, Identified
      <4>5. from[s] = from[t]
        BY <3>1, <4>3, <4>4
      <4>6. QED
        BY <4>5 DEF Follows
    <3>5. QED
      BY <3>3, <3>4
  <2>2. Distinct(e.tables[s])
    BY DEF Follows, Becomes
  <2>3. QED
    BY <1>8, <2>1, <2>2 DEF Distinct
<1>9. Identified(e)
  BY <1>6, <1>7, <1>8 DEF Identified
<1>10. QED
  BY <1>1, <1>2, <1>9 DEF CatalogSound

(* What views and functions keep.                                          *)
Kept(before, after, d, e) ==
    /\ DOMAIN after \subseteq DOMAIN before
    /\ \A x \in DOMAIN after :
          /\ after[x] = before[x]
          /\ \A name \in after[x] : Meaning(d, name) \subseteq Meaning(e, name)

Bound(d, e) == Kept(d.views, e.views, d, e) /\ Kept(Bodies(d), Bodies(e), d, e)

(* Nothing that is still spoken of is among the names or has gone.         *)
Spared(d, e, names) ==
    /\ Thinned(d.views, e.views, names, DOMAIN d.views \ DOMAIN e.views)
    /\ Thinned(Bodies(d), Bodies(e), names, DOMAIN d.views \ DOMAIN e.views)
    /\ \A t \in DOMAIN d.tables :
          t \notin names => t \in DOMAIN e.tables /\ e.tables[t].id = d.tables[t].id

LEMMA SparedMeansBound ==
  ASSUME NEW d, NEW e, NEW names, Spared(d, e, names)
  PROVE  Bound(d, e)
<1>1. ASSUME NEW name, name \notin names, name \notin DOMAIN d.views \ DOMAIN e.views
      PROVE  Meaning(d, name) \subseteq Meaning(e, name)
  <2>1. ASSUME NEW t \in DOMAIN d.tables \cap {name} PROVE <<"table", d.tables[t].id>> \in Meaning(e, name)
    <3>1. t \in DOMAIN e.tables \cap {name} /\ e.tables[t].id = d.tables[t].id
      BY <1>1 DEF Spared
    <3>2. QED
      BY <3>1 DEF Meaning
  <2>2. ASSUME NEW v \in DOMAIN d.views \cap {name} PROVE <<"view", v>> \in Meaning(e, name)
    <3>1. v \in DOMAIN e.views \cap {name}
      BY <1>1
    <3>2. QED
      BY <3>1 DEF Meaning
  <2>3. QED
    BY <2>1, <2>2 DEF Meaning
<1>2. Kept(d.views, e.views, d, e)
  BY <1>1 DEF Spared, Thinned, Kept
<1>3. Kept(Bodies(d), Bodies(e), d, e)
  BY <1>1 DEF Spared, Thinned, Kept
<1>4. QED
  BY <1>2, <1>3 DEF Bound

(* What every operation of ALTER TABLE, and the statement as a whole, does.*)
Evolves(d, e) ==
    CatalogSound(e) /\ d.next_object_id <= e.next_object_id /\ Descends(d, e) /\ Bound(d, e)

Versioned(d, e) == e = d \/ e.schema_version > d.schema_version

Advances(d, r) == Evolves(d, r.db) /\ Versioned(d, r.db) /\ r.name \in DOMAIN r.db.tables

LEMMA FollowersEvolve ==
  ASSUME NEW d, CatalogSound(d), NEW e, NEW from, NEW name, Follows(d, e, from, name),
         NEW names, Spared(d, e, names)
  PROVE  Evolves(d, e)
<1>1. CatalogSound(e) /\ Descends(d, e)
  BY FollowersDescend
<1>2. Bound(d, e)
  BY SparedMeansBound
<1>3. QED
  BY <1>1, <1>2 DEF Evolves, Follows

LEMMA EvolvesFromItself ==
  ASSUME NEW d, CatalogSound(d)
  PROVE  Evolves(d, d)
<1>1. Descends(d, d)
  <2>1. ASSUME NEW s \in DOMAIN d.tables PROVE Inherits(d.tables[s], d.tables[s], d.next_object_id)
    <3>1. TableSound(d.tables[s], d.next_object_id)
      BY TablesSound
    <3>2. QED
      BY <3>1, HoldsItself DEF Becomes
  <2>2. QED
    BY <2>1 DEF Descends
<1>2. Bound(d, d)
  BY DEF Bound, Kept
<1>3. QED
  BY <1>1, <1>2 DEF Evolves, CatalogSound, Formed

LEMMA EvolvesOn ==
  ASSUME NEW d, NEW m, NEW e, CatalogSound(d), Evolves(d, m), Evolves(m, e)
  PROVE  Evolves(d, e)
<1>1. /\ d.next_object_id \in Nat /\ m.next_object_id \in Nat /\ e.next_object_id \in Nat
      /\ d.next_object_id <= m.next_object_id /\ m.next_object_id <= e.next_object_id
  BY DEF Evolves, CatalogSound, Formed
<1>2. Descends(d, e)
  <2>1. ASSUME NEW s \in DOMAIN e.tables
        PROVE  \E t \in DOMAIN d.tables : Inherits(d.tables[t], e.tables[s], d.next_object_id)
    <3>1. PICK k \in DOMAIN m.tables : Inherits(m.tables[k], e.tables[s], m.next_object_id)
      BY DEF Evolves, Descends
    <3>2. PICK t \in DOMAIN d.tables : Inherits(d.tables[t], m.tables[k], d.next_object_id)
      BY DEF Evolves, Descends
    <3>3. /\ TableSound(d.tables[t], d.next_object_id) /\ TableSound(m.tables[k], m.next_object_id)
          /\ TableSound(e.tables[s], e.next_object_id)
      BY TablesSound DEF Evolves
    <3>4. Inherits(d.tables[t], e.tables[s], d.next_object_id)
      BY <1>1, <3>1, <3>2, <3>3, HoldsOn DEF TableSound
    <3>5. QED
      BY <3>4
  <2>2. QED
    BY <2>1 DEF Descends
<1>3. Bound(d, e)
  BY DEF Evolves, Bound, Kept
<1>4. QED
  BY <1>1, <1>2, <1>3 DEF Evolves

(* Nothing is spoken of that changes, as long as every table keeps its     *)
(* name, or has no dependents.                                             *)
LEMMA NothingGoes ==
  ASSUME NEW d, CatalogSound(d), NEW e, NEW names, e.views = d.views, e.functions = d.functions,
         names = {} \/ ~ HasDependents(d, names),
         \A t \in DOMAIN d.tables :
            t \notin names => t \in DOMAIN e.tables /\ e.tables[t].id = d.tables[t].id
  PROVE  Spared(d, e, names)
<1>1. IsMap(d.views) /\ IsMap(d.functions)
  BY DEF CatalogSound, Formed
<1>2. /\ \A v \in DOMAIN d.views : \A name \in d.views[v] : name \notin names
      /\ \A f \in DOMAIN d.functions : \A name \in d.functions[f].body : name \notin names
  BY DEF HasDependents, ViewsOf, FunctionsOf, references
<1>3. /\ Bodies(e) = Bodies(d) /\ IsMap(Bodies(d)) /\ DOMAIN Bodies(d) = DOMAIN d.functions
      /\ \A f \in DOMAIN d.functions : Bodies(d)[f] = d.functions[f].body
  BY DEF Bodies, IsMap
<1>4. QED
  BY <1>1, <1>2, <1>3 DEF Spared, Thinned

(* The operations of ALTER TABLE on the whole catalog.                     *)
LEMMA AddColumnAdvances ==
  ASSUME NEW d, CatalogSound(d), NEW name \in DOMAIN d.tables, NEW op,
         op.column \in ColumnName, op.references \in SUBSET ForeignKey,
         AddColumn(d, name, op).ok
  PROVE  Advances(d, AddColumn(d, name, op))
<1> DEFINE n == d.next_object_id
           added == AddedTo(d.tables[name], op, n)
           mid == [d EXCEPT !.tables[name] = added, !.next_object_id = @ + 1]
           e == [mid EXCEPT !.schema_version = @ + 1]
<1>1. CASE op.column \in DOMAIN d.tables[name].columns
  <2>1. AddColumn(d, name, op) = Unaltered(d, name)
    BY <1>1 DEF AddColumn, Unalterable
  <2>2. QED
    BY <2>1, EvolvesFromItself DEF Unaltered, Advances, Versioned
<1>2. CASE op.column \notin DOMAIN d.tables[name].columns
  <2>1. AddColumn(d, name, op) = Altered(mid, name)
    BY <1>2 DEF AddColumn, AddedTo
  <2>2. Formed(d) /\ d.schema_version \in Nat /\ n \in Nat /\ TableSound(d.tables[name], n)
    BY TablesSound DEF CatalogSound, Formed
  <2>3. /\ Becomes(d.tables[name], added, n)
        /\ \A c \in DOMAIN added.columns : added.columns[c] >= n => added.columns[c] = n
    BY <1>2, <2>2, AddedBecomes
  <2> HIDE DEF added
  <2>4. /\ IsMap(e) /\ DOMAIN e = CatalogFields /\ IsMap(e.tables)
        /\ DOMAIN e.tables = DOMAIN d.tables /\ e.tables[name] = added
        /\ \A s \in DOMAIN d.tables : s # name => e.tables[s] = d.tables[s]
        /\ e.views = d.views /\ e.functions = d.functions
        /\ e.schema_version = d.schema_version + 1 /\ e.next_object_id = n + 1
    BY <2>2 DEF Formed, IsMap, CatalogFields
  <2> HIDE DEF mid, e
  <2>5. ASSUME NEW s \in DOMAIN d.tables
        PROVE  /\ Becomes(d.tables[s], e.tables[s], n)
               /\ \A c \in DOMAIN e.tables[s].columns :
                     e.tables[s].columns[c] >= n => s = name /\ e.tables[s].columns[c] = n
    <3>1. CASE s = name
      BY <2>3, <2>4, <3>1
    <3>2. CASE s # name
      <4>1. TableSound(d.tables[s], n)
        BY TablesSound
      <4>2. Becomes(d.tables[s], d.tables[s], n)
        BY <4>1, HoldsItself
      <4>3. QED
        BY <2>2, <2>4, <3>2, <4>1, <4>2 DEF TableSound
    <3>3. QED
      BY <3>1, <3>2
  <2>6. Follows(d, e, [s \in DOMAIN d.tables |-> s], name)
    BY <2>2, <2>4, <2>5 DEF Follows, Formed
  <2>7. Spared(d, e, {})
    <3>1. \A t \in DOMAIN d.tables : t \in DOMAIN e.tables /\ e.tables[t].id = d.tables[t].id
      BY <2>4, <2>5 DEF Becomes, Inherits, Holds
    <3>2. QED
      BY <2>4, <3>1, NothingGoes
  <2>8. Evolves(d, e)
    BY <2>6, <2>7, FollowersEvolve
  <2>9. Altered(mid, name).db = e /\ Altered(mid, name).name = name
    BY DEF Altered, e
  <2>10. QED
    BY <2>1, <2>2, <2>4, <2>8, <2>9 DEF Advances, Versioned
<1>3. QED
  BY <1>1, <1>2

LEMMA AlterColumnAdvances ==
  ASSUME NEW d, CatalogSound(d), NEW name \in DOMAIN d.tables, NEW op,
         AlterColumn(d, name, op).ok
  PROVE  Advances(d, AlterColumn(d, name, op))
<1> DEFINE e == [d EXCEPT !.schema_version = @ + 1]
<1>1. AlterColumn(d, name, op) = Altered(d, name)
  BY DEF AlterColumn, Unalterable
<1>2. Formed(d) /\ d.schema_version \in Nat /\ d.next_object_id \in Nat
  BY DEF CatalogSound, Formed
<1>3. /\ IsMap(e) /\ DOMAIN e = CatalogFields /\ e.tables = d.tables
      /\ e.views = d.views /\ e.functions = d.functions
      /\ e.schema_version = d.schema_version + 1 /\ e.next_object_id = d.next_object_id
  BY <1>2 DEF Formed, IsMap, CatalogFields
<1> HIDE DEF e
<1>4. ASSUME NEW s \in DOMAIN d.tables
      PROVE  /\ Becomes(d.tables[s], d.tables[s], d.next_object_id)
             /\ \A c \in DOMAIN d.tables[s].columns : ~ (d.tables[s].columns[c] >= d.next_object_id)
  <2>1. TableSound(d.tables[s], d.next_object_id)
    BY TablesSound
  <2>2. QED
    BY <2>1, HoldsItself DEF TableSound
<1>5. Follows(d, e, [s \in DOMAIN d.tables |-> s], name)
  BY <1>2, <1>3, <1>4 DEF Follows, Formed
<1>6. Spared(d, e, {})
  BY <1>3, NothingGoes
<1>7. Evolves(d, e)
  BY <1>5, <1>6, FollowersEvolve
<1>8. Altered(d, name).db = e /\ Altered(d, name).name = name
  BY DEF Altered, e
<1>9. QED
  BY <1>1, <1>2, <1>3, <1>7, <1>8 DEF Advances, Versioned

(* A foreign key that refers to the column by its old name.                *)
Rereferred(fk, target, old, new) ==
    IF fk.target = target /\ fk.refers = old THEN [fk EXCEPT !.refers = new] ELSE fk

LEMMA RereferredKeys ==
  ASSUME NEW fk \in ForeignKey, NEW target, NEW old, NEW new \in ColumnName
  PROVE  /\ Rereferred(fk, target, old, new) \in ForeignKey
         /\ Rereferred(fk, target, old, new).column = fk.column
         /\ Rereferred(fk, target, old, new).target = fk.target
         /\ Rereferred(fk, target, old, new).deferred = fk.deferred
         /\ Rereferred(fk, target, old, new).refers =
               IF fk.target = target THEN To(fk.refers, old, new) ELSE fk.refers
BY DEF Rereferred, ForeignKey, To

LEMMA ReferencesRekeyed ==
  ASSUME NEW table, TableFormed(table), NEW target, NEW old, NEW new \in ColumnName
  PROVE  /\ Rekeyed(table, RenameReferences(table, target, old, new))
         /\ \A fk \in RenameReferences(table, target, old, new).foreign_keys :
               \E was \in table.foreign_keys : fk = Rereferred(was, target, old, new)
<1> DEFINE fks == {Rereferred(fk, target, old, new) : fk \in table.foreign_keys}
           w == [table EXCEPT !.foreign_keys = fks]
<1>1. RenameReferences(table, target, old, new) = w
  BY DEF RenameReferences, Rereferred
<1>2. \A fk \in fks : fk \in ForeignKey /\ \E was \in table.foreign_keys : fk.column = was.column
  <2>1. ASSUME NEW was \in table.foreign_keys
        PROVE  /\ Rereferred(was, target, old, new) \in ForeignKey
               /\ Rereferred(was, target, old, new).column = was.column
    <3>1. was \in ForeignKey
      BY DEF TableFormed
    <3>2. QED
      BY <3>1, RereferredKeys
  <2>2. QED
    BY <2>1
<1>3. \A fk \in fks : \E was \in table.foreign_keys : fk = Rereferred(was, target, old, new)
  OBVIOUS
<1> HIDE DEF fks
<1>4. Rekeyed(table, w) /\ w.foreign_keys = fks
  BY <1>2, TablesRekeyed
<1>5. QED
  BY <1>1, <1>3, <1>4

(* The tables of d, those in one with their columns renamed.               *)
WithRenamed(d, t, name, op) ==
    IF t = name THEN RenameInTable(d.tables[t], op.column, op.to) ELSE d.tables[t]

ColumnRenamed(d, name, op, e) ==
    /\ op.column \in DOMAIN d.tables[name].columns
    /\ op.to \notin DOMAIN d.tables[name].columns
    /\ IsMap(e) /\ DOMAIN e = CatalogFields /\ IsMap(e.tables)
    /\ DOMAIN e.tables = DOMAIN d.tables
    /\ \A t \in DOMAIN d.tables :
          e.tables[t] = RenameReferences(WithRenamed(d, t, name, op), name, op.column, op.to)
    /\ e.views = d.views /\ e.functions = d.functions
    /\ e.schema_version = d.schema_version + 1 /\ e.next_object_id = d.next_object_id

LEMMA RenameColumnEffect ==
  ASSUME NEW d, CatalogSound(d), NEW name \in DOMAIN d.tables, NEW op,
         RenameColumn(d, name, op).ok
  PROVE  /\ ColumnRenamed(d, name, op, RenameColumn(d, name, op).db)
         /\ RenameColumn(d, name, op).name = name
<1> DEFINE renamed == [d.tables EXCEPT ![name] = RenameInTable(@, op.column, op.to)]
           tables == [t \in DOMAIN renamed |-> RenameReferences(renamed[t], name, op.column, op.to)]
           mid == [d EXCEPT !.tables = tables]
           e == [mid EXCEPT !.schema_version = @ + 1]
<1>1. /\ RenameColumn(d, name, op) = Altered(mid, name)
      /\ op.column \in DOMAIN d.tables[name].columns
      /\ op.to \notin DOMAIN d.tables[name].columns
  BY DEF RenameColumn, Unalterable
<1>2. Altered(mid, name).db = e /\ Altered(mid, name).name = name
  BY DEF Altered
<1>3. /\ IsMap(tables) /\ DOMAIN tables = DOMAIN d.tables
      /\ \A t \in DOMAIN d.tables :
            tables[t] = RenameReferences(WithRenamed(d, t, name, op), name, op.column, op.to)
  BY DEF IsMap, WithRenamed
<1> HIDE DEF tables
<1>4. /\ IsMap(e) /\ DOMAIN e = CatalogFields /\ e.tables = tables
      /\ e.views = d.views /\ e.functions = d.functions
      /\ e.schema_version = d.schema_version + 1 /\ e.next_object_id = d.next_object_id
  BY DEF CatalogSound, Formed, IsMap, CatalogFields
<1> HIDE DEF mid, e
<1>5. QED
  BY <1>1, <1>2, <1>3, <1>4 DEF ColumnRenamed

LEMMA RenameColumnAdvances ==
  ASSUME NEW d, CatalogSound(d), NEW name \in DOMAIN d.tables, NEW op,
         op.column \in ColumnName, op.to \in ColumnName,
         RenameColumn(d, name, op).ok
  PROVE  Advances(d, RenameColumn(d, name, op))
<1> DEFINE n == d.next_object_id
           e == RenameColumn(d, name, op).db
<1>1. ColumnRenamed(d, name, op, e) /\ RenameColumn(d, name, op).name = name
  BY RenameColumnEffect
<1> HIDE DEF e
<1>2. Formed(d) /\ d.schema_version \in Nat /\ n \in Nat
  BY DEF CatalogSound, Formed
<1>3. /\ op.column \in DOMAIN d.tables[name].columns
      /\ op.to \notin DOMAIN d.tables[name].columns
      /\ IsMap(e) /\ DOMAIN e = CatalogFields /\ IsMap(e.tables)
      /\ DOMAIN e.tables = DOMAIN d.tables
      /\ e.views = d.views /\ e.functions = d.functions
      /\ e.schema_version = d.schema_version + 1 /\ e.next_object_id = d.next_object_id
  BY <1>1 DEF ColumnRenamed
<1>4. ASSUME NEW s \in DOMAIN d.tables
      PROVE  /\ Becomes(d.tables[s], e.tables[s], n)
             /\ \A c \in DOMAIN e.tables[s].columns : ~ (e.tables[s].columns[c] >= n)
  <2> DEFINE m == WithRenamed(d, s, name, op)
  <2>1. TableSound(d.tables[s], n)
    BY TablesSound
  <2>2. Becomes(d.tables[s], m, n)
    <3>1. CASE s = name
      BY <1>3, <2>1, <3>1, RenamedBecomes DEF WithRenamed
    <3>2. CASE s # name
      BY <2>1, <3>2, HoldsItself DEF WithRenamed
    <3>3. QED
      BY <3>1, <3>2
  <2>3. \A c \in DOMAIN m.columns : ~ (m.columns[c] >= n)
    <3>1. CASE s = name
      <4>1. Renamed(d.tables[s], op.column, op.to, m)
        BY <2>1, <3>1, RenamedFields DEF WithRenamed, TableSound, TableFormed
      <4>2. QED
        BY <1>3, <2>1, <3>1, <4>1 DEF Renamed, From, rename_expression, TableSound
    <3>2. CASE s # name
      BY <2>1, <3>2 DEF WithRenamed, TableSound
    <3>3. QED
      BY <3>1, <3>2
  <2>4. Rekeyed(m, e.tables[s])
    <3>1. e.tables[s] = RenameReferences(m, name, op.column, op.to)
      BY <1>1 DEF ColumnRenamed
    <3>2. TableFormed(m)
      BY <2>2 DEF Becomes
    <3> HIDE DEF m
    <3>3. QED
      BY <3>1, <3>2, ReferencesRekeyed
  <2> HIDE DEF m
  <2>5. Becomes(d.tables[s], e.tables[s], n)
    BY <2>2, <2>4, RekeyedBecomes
  <2>6. QED
    BY <2>3, <2>4, <2>5 DEF Rekeyed
<1>5. Follows(d, e, [s \in DOMAIN d.tables |-> s], name)
  BY <1>2, <1>3, <1>4 DEF Follows, Formed
<1>6. Spared(d, e, {})
  <2>1. \A t \in DOMAIN d.tables : t \in DOMAIN e.tables /\ e.tables[t].id = d.tables[t].id
    BY <1>3, <1>4 DEF Becomes, Inherits, Holds
  <2>2. QED
    BY <1>3, <2>1, NothingGoes
<1>7. Evolves(d, e)
  BY <1>5, <1>6, FollowersEvolve
<1>8. QED
  BY <1>1, <1>2, <1>3, <1>7 DEF e, Advances, Versioned

(* Foreign keys of other tables that go with what they refer to.           *)
KeysDropped(d, S, dependent, e) ==
    /\ SameBut(d, e) /\ e.views = d.views /\ e.functions = d.functions
    /\ IsMap(e.tables) /\ DOMAIN e.tables = DOMAIN d.tables
    /\ \A t \in DOMAIN d.tables :
          /\ t \in S => e.tables[t] = d.tables[t]
          /\ t \notin S => e.tables[t] = WithoutKeys(d.tables[t], dependent)

LEMMA DropForeignKeysEffect ==
  ASSUME NEW d, IsMap(d), DOMAIN d = CatalogFields, NEW S, NEW cascade, NEW dependent,
         DropForeignKeys(d, S, cascade, dependent).ok
  PROVE  KeysDropped(d, S, dependent, DropForeignKeys(d, S, cascade, dependent).db)
<1> DEFINE tables == [t \in DOMAIN d.tables |->
                         IF t \in S THEN d.tables[t]
                         ELSE WithoutKeys(d.tables[t], dependent)]
           e == [d EXCEPT !.tables = tables]
<1>1. DropForeignKeys(d, S, cascade, dependent).db = e
  <2>1. DropForeignKeys(d, S, cascade, dependent) = Refused(d)
           \/ DropForeignKeys(d, S, cascade, dependent) = Ok(e)
    BY DEF DropForeignKeys
  <2> HIDE DEF e
  <2>2. QED
    BY <2>1 DEF Refused, Ok
<1>2. /\ IsMap(tables) /\ DOMAIN tables = DOMAIN d.tables
      /\ \A t \in DOMAIN d.tables :
            /\ t \in S => tables[t] = d.tables[t]
            /\ t \notin S => tables[t] = WithoutKeys(d.tables[t], dependent)
  BY DEF IsMap
<1> HIDE DEF tables
<1>3. SameBut(d, e) /\ e.tables = tables /\ e.views = d.views /\ e.functions = d.functions
  BY DEF SameBut, IsMap, CatalogFields
<1> HIDE DEF e
<1>4. QED
  BY <1>1, <1>2, <1>3 DEF KeysDropped

LEMMA WithoutKeysRekeyed ==
  ASSUME NEW table, TableFormed(table), NEW dependent
  PROVE  /\ Rekeyed(table, WithoutKeys(table, dependent))
         /\ WithoutKeys(table, dependent).foreign_keys = table.foreign_keys \ dependent
<1> DEFINE fks == table.foreign_keys \ dependent
<1>1. \A fk \in fks : fk \in ForeignKey /\ \E old \in table.foreign_keys : fk.column = old.column
  BY DEF TableFormed
<1> HIDE DEF fks
<1>2. /\ Rekeyed(table, [table EXCEPT !.foreign_keys = fks])
      /\ [table EXCEPT !.foreign_keys = fks].foreign_keys = fks
  BY <1>1, TablesRekeyed
<1>3. QED
  BY <1>2 DEF fks, WithoutKeys

(* The foreign keys that refer to a column.                                *)
Dependent(d, name, column) ==
    {fk \in ForeignKeysOf(d) :
        /\ fk.target = name
        /\ \/ fk.refers = column
           \/ fk.refers = Absent /\ d.tables[name].primary_key = column}

ColumnGone(d, name, column, e) ==
    /\ column \in DOMAIN d.tables[name].columns
    /\ IsMap(e) /\ DOMAIN e = CatalogFields /\ IsMap(e.tables)
    /\ DOMAIN e.tables = DOMAIN d.tables
    /\ e.tables[name] = ColumnDropped(d.tables[name], name, column)
    /\ \A t \in DOMAIN d.tables \ {name} :
          e.tables[t] = WithoutKeys(d.tables[t], Dependent(d, name, column))
    /\ Thinned(d.views, e.views, {name}, DOMAIN d.views \ DOMAIN e.views)
    /\ IsMap(e.functions)
    /\ Thinned(Bodies(d), Bodies(e), {name}, DOMAIN d.views \ DOMAIN e.views)
    /\ e.schema_version = d.schema_version + 1 /\ e.next_object_id = d.next_object_id

LEMMA DropColumnEffect ==
  ASSUME NEW d, CatalogSound(d), NEW name \in DOMAIN d.tables, NEW op,
         DropColumn(d, name, op).ok
  PROVE  \/ DropColumn(d, name, op) = Unaltered(d, name)
         \/ /\ ColumnGone(d, name, op.column, DropColumn(d, name, op).db)
            /\ DropColumn(d, name, op).name = name
<1> DEFINE rest == remove_dependents(d, {name}, op.cascade)
           keys == DropForeignKeys(rest.db, {name}, op.cascade, Dependent(d, name, op.column))
           mid == [keys.db EXCEPT !.tables[name] = ColumnDropped(@, name, op.column)]
           e == [mid EXCEPT !.schema_version = @ + 1]
<1>1. CASE op.column \notin DOMAIN d.tables[name].columns
  BY <1>1 DEF DropColumn, Unalterable
<1>2. CASE op.column \in DOMAIN d.tables[name].columns
  <2>1. DropColumn(d, name, op) = Altered(mid, name) /\ rest.ok /\ keys.ok
    BY <1>2 DEF DropColumn, Unalterable, Dependent
  <2>2. Relieved(d, rest.db, {name})
    BY <2>1, RemovalRelieves DEF CatalogSound
  <2> HIDE DEF rest
  <2>3. KeysDropped(rest.db, {name}, Dependent(d, name, op.column), keys.db)
    BY <2>1, <2>2, DropForeignKeysEffect DEF Relieved, SameBut
  <2> HIDE DEF keys
  <2>4. /\ IsMap(keys.db) /\ DOMAIN keys.db = CatalogFields /\ IsMap(keys.db.tables)
        /\ DOMAIN keys.db.tables = DOMAIN d.tables
        /\ keys.db.tables[name] = d.tables[name]
        /\ \A t \in DOMAIN d.tables \ {name} :
              keys.db.tables[t]
                 = WithoutKeys(d.tables[t], Dependent(d, name, op.column))
        /\ keys.db.views = rest.db.views /\ keys.db.functions = rest.db.functions
        /\ keys.db.schema_version = d.schema_version
        /\ keys.db.next_object_id = d.next_object_id
    BY <2>2, <2>3 DEF Relieved, KeysDropped, SameBut
  <2>5. Altered(mid, name).db = e /\ Altered(mid, name).name = name
    BY DEF Altered
  <2>6. /\ IsMap(e) /\ DOMAIN e = CatalogFields /\ IsMap(e.tables)
        /\ DOMAIN e.tables = DOMAIN d.tables
        /\ e.tables[name] = ColumnDropped(d.tables[name], name, op.column)
        /\ \A t \in DOMAIN d.tables \ {name} : e.tables[t] = keys.db.tables[t]
        /\ e.views = rest.db.views /\ e.functions = rest.db.functions
        /\ e.schema_version = d.schema_version + 1 /\ e.next_object_id = d.next_object_id
    BY <2>4 DEF IsMap, CatalogFields
  <2> HIDE DEF mid, e
  <2>7. ColumnGone(d, name, op.column, e)
    <3>1. Bodies(e) = Bodies(rest.db)
      BY <2>6 DEF Bodies
    <3>2. QED
      BY <1>2, <2>2, <2>4, <2>6, <3>1 DEF ColumnGone, Relieved
  <2>8. QED
    BY <2>1, <2>5, <2>7
<1>3. QED
  BY <1>1, <1>2

LEMMA DropColumnAdvances ==
  ASSUME NEW d, CatalogSound(d), NEW name \in DOMAIN d.tables, NEW op,
         DropColumn(d, name, op).ok
  PROVE  Advances(d, DropColumn(d, name, op))
<1> DEFINE n == d.next_object_id
           e == DropColumn(d, name, op).db
<1>1. CASE DropColumn(d, name, op) = Unaltered(d, name)
  BY <1>1, EvolvesFromItself DEF Unaltered, Advances, Versioned
<1>2. CASE ColumnGone(d, name, op.column, e) /\ DropColumn(d, name, op).name = name
  <2> HIDE DEF e
  <2>1. Formed(d) /\ d.schema_version \in Nat /\ n \in Nat
    BY DEF CatalogSound, Formed
  <2>2. /\ op.column \in DOMAIN d.tables[name].columns
        /\ IsMap(e) /\ DOMAIN e = CatalogFields /\ IsMap(e.tables)
        /\ DOMAIN e.tables = DOMAIN d.tables
        /\ e.tables[name] = ColumnDropped(d.tables[name], name, op.column)
        /\ IsMap(e.views) /\ IsMap(e.functions)
        /\ e.schema_version = d.schema_version + 1 /\ e.next_object_id = n
    BY <1>2 DEF ColumnGone, Thinned
  <2>3. ASSUME NEW s \in DOMAIN d.tables
        PROVE  /\ Becomes(d.tables[s], e.tables[s], n)
               /\ \A c \in DOMAIN e.tables[s].columns : ~ (e.tables[s].columns[c] >= n)
    <3>1. TableSound(d.tables[s], n)
      BY TablesSound
    <3>2. CASE s = name
      <4>1. Becomes(d.tables[s], e.tables[s], n)
        BY <2>2, <3>1, <3>2, DroppedBecomes
      <4>2. Dropped(d.tables[s], name, op.column, e.tables[s])
        BY <2>2, <3>1, <3>2, DroppedFields DEF TableSound, TableFormed
      <4>3. QED
        BY <3>1, <4>1, <4>2 DEF Dropped, Without, TableSound
    <3>3. CASE s # name
      <4>1. Rekeyed(d.tables[s], e.tables[s])
        <5>1. e.tables[s] = WithoutKeys(d.tables[s], Dependent(d, name, op.column))
          BY <1>2, <3>3 DEF ColumnGone
        <5>2. QED
          BY <3>1, <5>1, WithoutKeysRekeyed DEF TableSound
      <4>2. Becomes(d.tables[s], e.tables[s], n)
        BY <3>1, <4>1, HoldsItself, RekeyedBecomes
      <4>3. QED
        BY <3>1, <4>1, <4>2 DEF Rekeyed, TableSound
    <3>4. QED
      BY <3>2, <3>3
  <2>4. Follows(d, e, [s \in DOMAIN d.tables |-> s], name)
    BY <2>1, <2>2, <2>3 DEF Follows
  <2>5. Spared(d, e, {name})
    BY <1>2, <2>2, <2>3 DEF ColumnGone, Spared, Becomes, Inherits, Holds
  <2>6. Evolves(d, e)
    BY <2>4, <2>5, FollowersEvolve
  <2>7. QED
    BY <1>2, <2>1, <2>2, <2>6 DEF e, Advances, Versioned
<1>3. QED
  BY <1>1, <1>2, DropColumnEffect

(* A foreign key to a table under its new name.                            *)
Retargeted(fk, name, new) == [fk EXCEPT !.target = To(@, name, new)]

LEMMA RetargetedKeys ==
  ASSUME NEW fk \in ForeignKey, NEW name, NEW new \in Relation
  PROVE  /\ Retargeted(fk, name, new) \in ForeignKey
         /\ Retargeted(fk, name, new).column = fk.column
         /\ Retargeted(fk, name, new).target = To(fk.target, name, new)
         /\ Retargeted(fk, name, new).refers = fk.refers
         /\ Retargeted(fk, name, new).deferred = fk.deferred
BY DEF Retargeted, ForeignKey, To

Retarget(table, name, new) ==
    [table EXCEPT !.foreign_keys = {Retargeted(fk, name, new) : fk \in @}]

LEMMA RetargetRekeyed ==
  ASSUME NEW table, TableFormed(table), NEW name, NEW new \in Relation
  PROVE  /\ Rekeyed(table, Retarget(table, name, new))
         /\ \A fk \in Retarget(table, name, new).foreign_keys :
               \E was \in table.foreign_keys : fk = Retargeted(was, name, new)
<1> DEFINE fks == {Retargeted(fk, name, new) : fk \in table.foreign_keys}
           w == [table EXCEPT !.foreign_keys = fks]
<1>1. Retarget(table, name, new) = w
  BY DEF Retarget
<1>2. \A fk \in fks : fk \in ForeignKey /\ \E was \in table.foreign_keys : fk.column = was.column
  <2>1. ASSUME NEW was \in table.foreign_keys
        PROVE  /\ Retargeted(was, name, new) \in ForeignKey
               /\ Retargeted(was, name, new).column = was.column
    <3>1. was \in ForeignKey
      BY DEF TableFormed
    <3>2. QED
      BY <3>1, RetargetedKeys
  <2>2. QED
    BY <2>1
<1>3. \A fk \in fks : \E was \in table.foreign_keys : fk = Retargeted(was, name, new)
  OBVIOUS
<1> HIDE DEF fks
<1>4. Rekeyed(table, w) /\ w.foreign_keys = fks
  BY <1>2, TablesRekeyed
<1>5. QED
  BY <1>1, <1>3, <1>4

TableRenamed(d, name, new, e) ==
    /\ new \notin DOMAIN d.tables /\ new \notin DOMAIN d.views /\ ~ HasDependents(d, {name})
    /\ IsMap(e) /\ DOMAIN e = CatalogFields /\ IsMap(e.tables)
    /\ DOMAIN e.tables = (DOMAIN d.tables \ {name}) \cup {new}
    /\ \A t \in DOMAIN e.tables :
          e.tables[t] = Retarget(d.tables[From(t, name, new)], name, new)
    /\ e.views = d.views /\ e.functions = d.functions
    /\ e.schema_version = d.schema_version + 1 /\ e.next_object_id = d.next_object_id

LEMMA RenameTableEffect ==
  ASSUME NEW d, CatalogSound(d), NEW name \in DOMAIN d.tables, NEW op,
         RenameTable(d, name, op).ok
  PROVE  /\ TableRenamed(d, name, op.to, RenameTable(d, name, op).db)
         /\ RenameTable(d, name, op).name = op.to
<1> DEFINE tables == [t \in (DOMAIN d.tables \ {name}) \cup {op.to} |->
                         Retarget(d.tables[From(t, name, op.to)], name, op.to)]
           mid == [d EXCEPT !.tables = tables]
           e == [mid EXCEPT !.schema_version = @ + 1]
<1>1. ~ (op.to \in DOMAIN d.tables \cup DOMAIN d.views \/ HasDependents(d, {name}))
  BY DEF RenameTable, Unalterable
<1>2. RenameTable(d, name, op) = Altered(mid, op.to)
  BY <1>1 DEF RenameTable, Retarget, Retargeted, From, To
<1>3. Altered(mid, op.to).db = e /\ Altered(mid, op.to).name = op.to
  BY DEF Altered
<1>4. /\ IsMap(tables) /\ DOMAIN tables = (DOMAIN d.tables \ {name}) \cup {op.to}
      /\ \A t \in DOMAIN tables : tables[t] = Retarget(d.tables[From(t, name, op.to)], name, op.to)
  BY DEF IsMap
<1> HIDE DEF tables
<1>5. /\ IsMap(e) /\ DOMAIN e = CatalogFields /\ e.tables = tables
      /\ e.views = d.views /\ e.functions = d.functions
      /\ e.schema_version = d.schema_version + 1 /\ e.next_object_id = d.next_object_id
  BY DEF CatalogSound, Formed, IsMap, CatalogFields
<1> HIDE DEF mid, e
<1>6. QED
  BY <1>1, <1>2, <1>3, <1>4, <1>5 DEF TableRenamed

LEMMA RenameTableAdvances ==
  ASSUME NEW d, CatalogSound(d), NEW name \in DOMAIN d.tables, NEW op, op.to \in Relation,
         RenameTable(d, name, op).ok
  PROVE  Advances(d, RenameTable(d, name, op))
<1> DEFINE n == d.next_object_id
           e == RenameTable(d, name, op).db
           was(s) == From(s, name, op.to)
<1>1. TableRenamed(d, name, op.to, e) /\ RenameTable(d, name, op).name = op.to
  BY RenameTableEffect
<1> HIDE DEF e
<1>2. Formed(d) /\ d.schema_version \in Nat /\ n \in Nat
  BY DEF CatalogSound, Formed
<1>3. /\ op.to \notin DOMAIN d.tables
      /\ IsMap(e) /\ DOMAIN e = CatalogFields /\ IsMap(e.tables)
      /\ DOMAIN e.tables = (DOMAIN d.tables \ {name}) \cup {op.to}
      /\ e.views = d.views /\ e.functions = d.functions
      /\ e.schema_version = d.schema_version + 1 /\ e.next_object_id = d.next_object_id
  BY <1>1 DEF TableRenamed
<1>4. /\ \A s \in DOMAIN e.tables : was(s) \in DOMAIN d.tables
      /\ \A s, t \in DOMAIN e.tables : was(s) = was(t) => s = t
  BY <1>3 DEF From
<1>5. ASSUME NEW s \in DOMAIN e.tables
      PROVE  /\ Becomes(d.tables[was(s)], e.tables[s], n)
             /\ \A c \in DOMAIN e.tables[s].columns : ~ (e.tables[s].columns[c] >= n)
  <2>1. TableSound(d.tables[was(s)], n)
    BY <1>4, TablesSound
  <2>2. Rekeyed(d.tables[was(s)], e.tables[s])
    <3>1. e.tables[s] = Retarget(d.tables[was(s)], name, op.to)
      BY <1>1 DEF TableRenamed
    <3>2. QED
      BY <2>1, <3>1, RetargetRekeyed DEF TableSound
  <2>3. Becomes(d.tables[was(s)], e.tables[s], n)
    BY <2>1, <2>2, HoldsItself, RekeyedBecomes
  <2>4. QED
    BY <2>1, <2>2, <2>3 DEF Rekeyed, TableSound
<1>6. Follows(d, e, [s \in DOMAIN e.tables |-> was(s)], name)
  <2> DEFINE from == [s \in DOMAIN e.tables |-> was(s)]
  <2>1. \A s \in DOMAIN e.tables : from[s] = was(s)
    OBVIOUS
  <2> HIDE DEF from, was
  <2>2. Follows(d, e, from, name)
    BY <1>2, <1>3, <1>4, <1>5, <2>1 DEF Follows, Formed
  <2>3. QED
    BY <2>2 DEF from
<1>7. Spared(d, e, {name})
  <2>1. ASSUME NEW t \in DOMAIN d.tables, t \notin {name}
        PROVE  t \in DOMAIN e.tables /\ e.tables[t].id = d.tables[t].id
    <3>1. t \in DOMAIN e.tables /\ was(t) = t
      BY <1>3, <2>1 DEF From
    <3>2. QED
      BY <1>5, <3>1 DEF Becomes, Inherits, Holds
  <2>2. ~ HasDependents(d, {name})
    BY <1>1 DEF TableRenamed
  <2>3. QED
    BY <1>3, <2>1, <2>2, NothingGoes
<1>8. Evolves(d, e)
  BY <1>6, <1>7, FollowersEvolve
<1>9. QED
  BY <1>1, <1>2, <1>3, <1>8 DEF e, Advances, Versioned

----------------------------------------------------------------------------
(* Foreign keys by what they stand for.  Between two operations of one     *)
(* statement a key may refer to what is not there (yet), or to the primary *)
(* key of a table that has lost it; the statement then fails.              *)
Referred(d, fk) ==
    /\ fk.target \in DOMAIN d.tables
    /\ RefersTo(d, fk) # Absent => RefersTo(d, fk) \in DOMAIN d.tables[fk.target].columns

ReferredColumn(d, fk) == d.tables[fk.target].columns[RefersTo(d, fk)]

Link(d, t, fk) == <<d.tables[t].columns[fk.column], ReferredColumn(d, fk), fk.deferred>>

LinksFrom(n, L, d) ==
    \A t \in DOMAIN d.tables : \A fk \in d.tables[t].foreign_keys :
        \/ d.tables[t].columns[fk.column] >= n
        \/ /\ Referred(d, fk)
           /\ RefersTo(d, fk) # Absent => Link(d, t, fk) \in L

(* A foreign key is one of before, of the same columns and the same time;  *)
(* at most it has lost the primary key it refers to.                       *)
Carries(d, t, fk, e, s, key) ==
    /\ e.tables[s].columns[key.column] = d.tables[t].columns[fk.column]
    /\ key.deferred = fk.deferred
    /\ Referred(d, fk) =>
          /\ Referred(e, key)
          /\ RefersTo(e, key) # Absent =>
                RefersTo(d, fk) # Absent /\ ReferredColumn(e, key) = ReferredColumn(d, fk)

LinksCarried(d, e) ==
    \A s \in DOMAIN e.tables : \A key \in e.tables[s].foreign_keys :
        \/ e.tables[s].columns[key.column] >= d.next_object_id
        \/ \E t \in DOMAIN d.tables : \E fk \in d.tables[t].foreign_keys : Carries(d, t, fk, e, s, key)

LEMMA LinksCarriedOn ==
  ASSUME NEW d, NEW e, CatalogSound(d), CatalogSound(e), LinksCarried(d, e),
         NEW n \in Nat, n <= d.next_object_id, NEW L, LinksFrom(n, L, d)
  PROVE  LinksFrom(n, L, e)
<1>1. SUFFICES ASSUME NEW s \in DOMAIN e.tables, NEW key \in e.tables[s].foreign_keys,
                      ~ (e.tables[s].columns[key.column] >= n)
               PROVE  /\ Referred(e, key)
                      /\ RefersTo(e, key) # Absent => Link(e, s, key) \in L
  BY DEF LinksFrom
<1>2. e.tables[s].columns[key.column] \in Nat /\ d.next_object_id \in Nat
  <2>1. key.column \in DOMAIN e.tables[s].columns
    BY DEF CatalogSound, Formed, TableFormed
  <2>2. QED
    BY <2>1 DEF CatalogSound, Formed, Identified
<1>3. ~ (e.tables[s].columns[key.column] >= d.next_object_id)
  BY <1>1, <1>2
<1> PICK t \in DOMAIN d.tables : \E fk \in d.tables[t].foreign_keys : Carries(d, t, fk, e, s, key)
  BY <1>3 DEF LinksCarried
<1>4. PICK fk \in d.tables[t].foreign_keys : Carries(d, t, fk, e, s, key)
  OBVIOUS
<1>5. /\ Referred(d, fk)
      /\ RefersTo(d, fk) # Absent => Link(d, t, fk) \in L
  BY <1>1, <1>4 DEF LinksFrom, Carries
<1>6. RefersTo(e, key) # Absent => Link(e, s, key) = Link(d, t, fk)
  BY <1>4, <1>5 DEF Carries, Link
<1>7. QED
  BY <1>4, <1>5, <1>6 DEF Carries

(* A well defined catalog has its links, and what it has are its links.    *)
LEMMA LinksFromTheStart ==
  ASSUME NEW d, CatalogSound(d), WellDefined(d), NEW n
  PROVE  LinksFrom(n, Links(d), d)
<1>1. ASSUME NEW t \in DOMAIN d.tables, NEW fk \in d.tables[t].foreign_keys
      PROVE  Referred(d, fk) /\ Link(d, t, fk) \in Links(d)
  <2>1. Referred(d, fk)
    <3>1. fk.target \in DOMAIN d.tables /\ RefersTo(d, fk) \in KeysOf(d.tables[fk.target])
      BY DEF WellDefined
    <3>2. KeysOf(d.tables[fk.target]) \subseteq DOMAIN d.tables[fk.target].columns
      BY <3>1 DEF WellDefined
    <3>3. QED
      BY <3>1, <3>2 DEF Referred
  <2>2. <<t, fk>> \in UNION {{x} \X d.tables[x].foreign_keys : x \in DOMAIN d.tables}
    OBVIOUS
  <2>3. Link(d, t, fk) = <<d.tables[<<t, fk>>[1]].columns[<<t, fk>>[2].column],
                           d.tables[<<t, fk>>[2].target].columns[RefersTo(d, <<t, fk>>[2])],
                           <<t, fk>>[2].deferred>>
    BY DEF Link, ReferredColumn
  <2>4. QED
    BY <2>1, <2>2, <2>3 DEF Links
<1>2. QED
  BY <1>1 DEF LinksFrom

LEMMA LinksInTheEnd ==
  ASSUME NEW e, CatalogSound(e), WellDefined(e), NEW n, NEW L, LinksFrom(n, L, e)
  PROVE  \A link \in Links(e) : link[1] >= n \/ link \in L
<1>1. ASSUME NEW t \in DOMAIN e.tables, NEW fk \in e.tables[t].foreign_keys
      PROVE  Link(e, t, fk)[1] >= n \/ Link(e, t, fk) \in L
  <2>1. RefersTo(e, fk) \in KeysOf(e.tables[fk.target]) /\ fk.target \in DOMAIN e.tables
    BY DEF WellDefined
  <2>2. KeysOf(e.tables[fk.target]) \subseteq ColumnName
    BY <2>1 DEF CatalogSound, Formed, TableFormed
  <2>3. RefersTo(e, fk) # Absent
    BY <2>1, <2>2, CatalogAssumption
  <2>4. Link(e, t, fk)[1] = e.tables[t].columns[fk.column]
    BY DEF Link
  <2>5. QED
    BY <2>3, <2>4 DEF LinksFrom
<1>2. ASSUME NEW link \in Links(e)
      PROVE  \E t \in DOMAIN e.tables : \E fk \in e.tables[t].foreign_keys : link = Link(e, t, fk)
  <2>1. PICK x \in UNION {{t} \X e.tables[t].foreign_keys : t \in DOMAIN e.tables} :
           link = <<e.tables[x[1]].columns[x[2].column],
                    e.tables[x[2].target].columns[RefersTo(e, x[2])], x[2].deferred>>
    BY DEF Links
  <2>2. x[1] \in DOMAIN e.tables /\ x[2] \in e.tables[x[1]].foreign_keys
    OBVIOUS
  <2>3. link = Link(e, x[1], x[2])
    BY <2>1 DEF Link, ReferredColumn
  <2>4. QED
    BY <2>2, <2>3
<1>3. QED
  BY <1>1, <1>2

(* A foreign key that is left as it is, while its target keeps its columns *)
(* and its primary key.                                                    *)
LEMMA KeyStays ==
  ASSUME NEW d, NEW t \in DOMAIN d.tables, NEW fk \in d.tables[t].foreign_keys,
         NEW e, NEW s \in DOMAIN e.tables,
         fk.column \in DOMAIN d.tables[t].columns,
         e.tables[s].columns[fk.column] = d.tables[t].columns[fk.column],
         fk.target \in DOMAIN d.tables =>
            /\ fk.target \in DOMAIN e.tables
            /\ e.tables[fk.target].primary_key = d.tables[fk.target].primary_key
            /\ \A c \in DOMAIN d.tables[fk.target].columns :
                  /\ c \in DOMAIN e.tables[fk.target].columns
                  /\ e.tables[fk.target].columns[c] = d.tables[fk.target].columns[c]
  PROVE  Carries(d, t, fk, e, s, fk)
<1>1. CASE Referred(d, fk)
  <2>1. RefersTo(e, fk) = RefersTo(d, fk)
    BY <1>1 DEF RefersTo, Referred
  <2>2. QED
    BY <1>1, <2>1 DEF Carries, Referred, ReferredColumn
<1>2. CASE ~ Referred(d, fk)
  BY <1>2 DEF Carries
<1>3. QED
  BY <1>1, <1>2

(* The operations of ALTER TABLE on the foreign keys.                      *)
LEMMA AddColumnCarries ==
  ASSUME NEW d, CatalogSound(d), NEW name \in DOMAIN d.tables, NEW op,
         op.column \in ColumnName, op.references \in SUBSET ForeignKey,
         AddColumn(d, name, op).ok
  PROVE  LinksCarried(d, AddColumn(d, name, op).db)
<1> DEFINE n == d.next_object_id
           added == AddedTo(d.tables[name], op, n)
           mid == [d EXCEPT !.tables[name] = added, !.next_object_id = @ + 1]
           e == [mid EXCEPT !.schema_version = @ + 1]
<1>1. \A t \in DOMAIN d.tables : \A fk \in d.tables[t].foreign_keys :
         fk.column \in DOMAIN d.tables[t].columns
  BY DEF CatalogSound, Formed, TableFormed
<1>2. CASE op.column \in DOMAIN d.tables[name].columns
  <2>1. AddColumn(d, name, op).db = d
    BY <1>2 DEF AddColumn, Unalterable, Unaltered
  <2>2. QED
    BY <1>1, <2>1, KeyStays DEF LinksCarried
<1>3. CASE op.column \notin DOMAIN d.tables[name].columns
  <2>1. AddColumn(d, name, op).db = e
    BY <1>3 DEF AddColumn, AddedTo, Altered
  <2>2. n \in Nat /\ TableSound(d.tables[name], n)
    BY TablesSound DEF CatalogSound, Formed
  <2>3. Added(d.tables[name], op, n, added)
    BY <2>2, AddedFields DEF TableSound, TableFormed
  <2> HIDE DEF added
  <2>4. /\ added.columns = Put(d.tables[name].columns, op.column, n)
        /\ added.primary_key = d.tables[name].primary_key
        /\ added.foreign_keys = d.tables[name].foreign_keys
                                  \cup {ColumnKey(r, op.column) : r \in op.references}
    BY <2>3 DEF Added
  <2>5. /\ DOMAIN added.columns = DOMAIN d.tables[name].columns \cup {op.column}
        /\ \A c \in DOMAIN d.tables[name].columns : added.columns[c] = d.tables[name].columns[c]
        /\ added.columns[op.column] = n
    BY <1>3, <2>4 DEF Put
  <2>6. /\ DOMAIN e.tables = DOMAIN d.tables /\ e.tables[name] = added
        /\ \A s \in DOMAIN d.tables : s # name => e.tables[s] = d.tables[s]
    BY DEF CatalogSound, Formed, CatalogFields, IsMap
  <2> HIDE DEF mid, e
  <2>7. ASSUME NEW t \in DOMAIN d.tables
        PROVE  /\ t \in DOMAIN e.tables /\ e.tables[t].primary_key = d.tables[t].primary_key
               /\ \A c \in DOMAIN d.tables[t].columns :
                     c \in DOMAIN e.tables[t].columns
                        /\ e.tables[t].columns[c] = d.tables[t].columns[c]
    BY <2>4, <2>5, <2>6
  <2>8. ASSUME NEW s \in DOMAIN d.tables, NEW fk \in d.tables[s].foreign_keys
        PROVE  Carries(d, s, fk, e, s, fk)
    BY <1>1, <2>7, KeyStays
  <2>9. ASSUME NEW s \in DOMAIN e.tables, NEW key \in e.tables[s].foreign_keys
        PROVE  \/ e.tables[s].columns[key.column] >= n
               \/ \E t \in DOMAIN d.tables : \E fk \in d.tables[t].foreign_keys :
                     Carries(d, t, fk, e, s, key)
    <3>1. CASE key \in d.tables[s].foreign_keys
      BY <2>6, <2>8, <3>1
    <3>2. CASE key \notin d.tables[s].foreign_keys
      <4>1. s = name
        BY <2>6, <3>2
      <4>2. PICK r \in op.references : key = ColumnKey(r, op.column)
        BY <2>4, <2>6, <3>2, <4>1
      <4>3. key.column = op.column
        BY <4>2, ColumnKeys
      <4>4. QED
        BY <2>2, <2>5, <2>6, <4>1, <4>3
    <3>3. QED
      BY <3>1, <3>2
  <2>10. QED
    BY <2>1, <2>9 DEF LinksCarried
<1>4. QED
  BY <1>2, <1>3

LEMMA AlterColumnCarries ==
  ASSUME NEW d, CatalogSound(d), NEW name \in DOMAIN d.tables, NEW op,
         AlterColumn(d, name, op).ok
  PROVE  LinksCarried(d, AlterColumn(d, name, op).db)
<1> DEFINE e == [d EXCEPT !.schema_version = @ + 1]
<1>1. AlterColumn(d, name, op).db = e
  BY DEF AlterColumn, Unalterable, Altered
<1>2. e.tables = d.tables
  BY DEF CatalogSound, Formed, CatalogFields, IsMap
<1> HIDE DEF e
<1>3. \A t \in DOMAIN d.tables : \A fk \in d.tables[t].foreign_keys :
         fk.column \in DOMAIN d.tables[t].columns
  BY DEF CatalogSound, Formed, TableFormed
<1>4. QED
  BY <1>1, <1>2, <1>3, KeyStays DEF LinksCarried

LEMMA RenameTableCarries ==
  ASSUME NEW d, CatalogSound(d), NEW name \in DOMAIN d.tables, NEW op, op.to \in Relation,
         RenameTable(d, name, op).ok
  PROVE  LinksCarried(d, RenameTable(d, name, op).db)
<1> DEFINE e == RenameTable(d, name, op).db
           new == op.to
           was(s) == From(s, name, new)
<1>1. TableRenamed(d, name, new, e)
  BY RenameTableEffect
<1> HIDE DEF e
<1>2. /\ new \notin DOMAIN d.tables
      /\ DOMAIN e.tables = (DOMAIN d.tables \ {name}) \cup {new}
      /\ \A s \in DOMAIN e.tables : was(s) \in DOMAIN d.tables
  BY <1>1 DEF TableRenamed, From
<1>3. ASSUME NEW s \in DOMAIN e.tables
      PROVE  /\ Rekeyed(d.tables[was(s)], e.tables[s])
             /\ \A key \in e.tables[s].foreign_keys :
                   \E fk \in d.tables[was(s)].foreign_keys : key = Retargeted(fk, name, new)
  <2>1. e.tables[s] = Retarget(d.tables[was(s)], name, new) /\ TableFormed(d.tables[was(s)])
    BY <1>1, <1>2 DEF TableRenamed, CatalogSound, Formed
  <2>2. QED
    BY <2>1, RetargetRekeyed
<1>4. ASSUME NEW t \in DOMAIN d.tables
      PROVE  To(t, name, new) \in DOMAIN e.tables /\ was(To(t, name, new)) = t
  BY <1>2 DEF To, From
<1>5. ASSUME NEW s \in DOMAIN e.tables, NEW key \in e.tables[s].foreign_keys
      PROVE  \E t \in DOMAIN d.tables : \E fk \in d.tables[t].foreign_keys : Carries(d, t, fk, e, s, key)
  <2>1. PICK fk \in d.tables[was(s)].foreign_keys : key = Retargeted(fk, name, new)
    BY <1>3
  <2>2. fk \in ForeignKey
    BY <1>2 DEF CatalogSound, Formed, TableFormed
  <2>3. /\ key.column = fk.column /\ key.refers = fk.refers /\ key.deferred = fk.deferred
        /\ key.target = To(fk.target, name, new)
    BY <2>1, <2>2, RetargetedKeys
  <2>4. e.tables[s].columns = d.tables[was(s)].columns
    BY <1>3 DEF Rekeyed
  <2>5. ASSUME Referred(d, fk)
        PROVE  /\ key.target \in DOMAIN e.tables
               /\ e.tables[key.target].columns = d.tables[fk.target].columns
               /\ RefersTo(e, key) = RefersTo(d, fk)
    <3>1. fk.target \in DOMAIN d.tables
      BY <2>5 DEF Referred
    <3>2. key.target \in DOMAIN e.tables /\ was(key.target) = fk.target
      BY <1>4, <2>3, <3>1
    <3>3. Rekeyed(d.tables[fk.target], e.tables[key.target])
      BY <1>3, <3>2
    <3>4. QED
      BY <2>3, <3>2, <3>3 DEF Rekeyed, RefersTo
  <2>6. Carries(d, was(s), fk, e, s, key)
    BY <2>3, <2>4, <2>5 DEF Carries, Referred, ReferredColumn
  <2>7. QED
    BY <1>2, <2>6
<1>6. QED
  BY <1>5 DEF e, LinksCarried

LEMMA RenameColumnCarries ==
  ASSUME NEW d, CatalogSound(d), NEW name \in DOMAIN d.tables, NEW op,
         op.column \in ColumnName, op.to \in ColumnName,
         RenameColumn(d, name, op).ok
  PROVE  LinksCarried(d, RenameColumn(d, name, op).db)
<1> DEFINE e == RenameColumn(d, name, op).db
           old == op.column
           new == op.to
           m(t) == WithRenamed(d, t, name, op)
<1>1. ColumnRenamed(d, name, op, e)
  BY RenameColumnEffect
<1> HIDE DEF e
<1>2. /\ old \in DOMAIN d.tables[name].columns /\ new \notin DOMAIN d.tables[name].columns
      /\ DOMAIN e.tables = DOMAIN d.tables
      /\ old # Absent /\ new # Absent
  BY <1>1, CatalogAssumption DEF ColumnRenamed
<1>3. /\ Renamed(d.tables[name], old, new, m(name))
      /\ TableFormed(m(name))
  <2>1. TableSound(d.tables[name], d.next_object_id)
    BY TablesSound
  <2>2. Becomes(d.tables[name], m(name), d.next_object_id)
    BY <1>2, <2>1, RenamedBecomes DEF WithRenamed
  <2>3. QED
    BY <2>1, <2>2, RenamedFields DEF WithRenamed, TableSound, TableFormed, Becomes
<1>4. ASSUME NEW s \in DOMAIN d.tables
      PROVE  /\ Rekeyed(m(s), e.tables[s])
             /\ \A key \in e.tables[s].foreign_keys :
                   \E mk \in m(s).foreign_keys : key = Rereferred(mk, name, old, new)
  <2>1. e.tables[s] = RenameReferences(m(s), name, old, new)
    BY <1>1 DEF ColumnRenamed
  <2>2. TableFormed(m(s))
    <3>1. CASE s = name
      BY <1>3, <3>1
    <3>2. CASE s # name
      BY <3>2 DEF WithRenamed, CatalogSound, Formed
    <3>3. QED
      BY <3>1, <3>2
  <2> HIDE DEF m
  <2>3. QED
    BY <2>1, <2>2, ReferencesRekeyed
<1>5. ASSUME NEW s \in DOMAIN d.tables, NEW mk \in m(s).foreign_keys
      PROVE  \E fk \in d.tables[s].foreign_keys :
                /\ mk \in ForeignKey /\ fk \in ForeignKey
                /\ mk.target = fk.target /\ mk.refers = fk.refers /\ mk.deferred = fk.deferred
                /\ m(s).columns[mk.column] = d.tables[s].columns[fk.column]
  <2>0. TableFormed(d.tables[s])
    BY DEF CatalogSound, Formed
  <2>1. CASE s = name
    <3>1. PICK fk \in d.tables[name].foreign_keys : mk = ColumnKey(fk, To(fk.column, old, new))
      BY <1>3, <2>1 DEF Renamed
    <3>2. fk \in ForeignKey /\ fk.column \in DOMAIN d.tables[name].columns
      BY <2>0, <2>1 DEF TableFormed
    <3>3. To(fk.column, old, new) \in ColumnName
      BY <3>2 DEF To, ForeignKey
    <3>4. /\ mk \in ForeignKey /\ mk.column = To(fk.column, old, new)
          /\ mk.target = fk.target /\ mk.refers = fk.refers
      BY <3>1, <3>2, <3>3, ColumnKeys
    <3>5. mk.deferred = fk.deferred
      BY <3>1, <3>2 DEF ColumnKey, ForeignKey
    <3>6. m(name).columns[mk.column] = d.tables[name].columns[fk.column]
      BY <1>2, <1>3, <3>2, <3>4 DEF Renamed, To, From, rename_expression
    <3>7. QED
      BY <2>1, <3>2, <3>4, <3>5, <3>6
  <2>2. CASE s # name
    BY <2>0, <2>2 DEF WithRenamed, TableFormed
  <2>3. QED
    BY <2>1, <2>2
<1>6. ASSUME NEW s \in DOMAIN e.tables, NEW key \in e.tables[s].foreign_keys
      PROVE  \E t \in DOMAIN d.tables : \E fk \in d.tables[t].foreign_keys : Carries(d, t, fk, e, s, key)
  <2>0. s \in DOMAIN d.tables
    BY <1>2
  <2>1. PICK mk \in m(s).foreign_keys : key = Rereferred(mk, name, old, new)
    BY <1>4, <2>0
  <2>2. PICK fk \in d.tables[s].foreign_keys :
           /\ mk \in ForeignKey /\ fk \in ForeignKey
           /\ mk.target = fk.target /\ mk.refers = fk.refers /\ mk.deferred = fk.deferred
           /\ m(s).columns[mk.column] = d.tables[s].columns[fk.column]
    BY <1>5, <2>0
  <2>3. /\ key.column = mk.column /\ key.target = fk.target /\ key.deferred = fk.deferred
        /\ key.refers = IF fk.target = name THEN To(fk.refers, old, new) ELSE fk.refers
    BY <2>1, <2>2, RereferredKeys
  <2>4. e.tables[s].columns[key.column] = d.tables[s].columns[fk.column]
    BY <1>4, <2>0, <2>2, <2>3 DEF Rekeyed
  <2>5. ASSUME Referred(d, fk)
        PROVE  /\ Referred(e, key)
               /\ RefersTo(e, key) # Absent =>
                     RefersTo(d, fk) # Absent /\ ReferredColumn(e, key) = ReferredColumn(d, fk)
    <3>1. fk.target \in DOMAIN d.tables
      BY <2>5 DEF Referred
    <3>2. CASE fk.target = name
      <4>1. /\ e.tables[name].columns = m(name).columns
            /\ e.tables[name].primary_key = m(name).primary_key
        BY <1>4 DEF Rekeyed
      <4>2. e.tables[name].primary_key = To(d.tables[name].primary_key, old, new)
        BY <1>3, <4>1 DEF Renamed
      <4>3. RefersTo(e, key) = To(RefersTo(d, fk), old, new)
        BY <1>2, <2>3, <3>2, <4>2 DEF RefersTo, To
      <4>4. RefersTo(e, key) = Absent <=> RefersTo(d, fk) = Absent
        BY <1>2, <4>3 DEF To
      <4>5. ASSUME NEW c \in DOMAIN d.tables[name].columns
            PROVE  /\ To(c, old, new) \in DOMAIN e.tables[name].columns
                   /\ e.tables[name].columns[To(c, old, new)] = d.tables[name].columns[c]
        BY <1>2, <1>3, <4>1 DEF Renamed, To, From, rename_expression
      <4>6. RefersTo(d, fk) # Absent => RefersTo(d, fk) \in DOMAIN d.tables[name].columns
        BY <2>5, <3>2 DEF Referred
      <4>7. QED
        BY <1>2, <2>3, <3>2, <4>3, <4>4, <4>5, <4>6 DEF Referred, ReferredColumn
    <3>3. CASE fk.target # name
      <4>1. m(fk.target) = d.tables[fk.target]
        BY <3>3 DEF WithRenamed
      <4>2. /\ e.tables[fk.target].columns = d.tables[fk.target].columns
            /\ e.tables[fk.target].primary_key = d.tables[fk.target].primary_key
        BY <1>4, <3>1, <4>1 DEF Rekeyed
      <4>3. RefersTo(e, key) = RefersTo(d, fk)
        BY <2>3, <3>3, <4>2 DEF RefersTo
      <4>4. QED
        BY <1>2, <2>3, <2>5, <3>1, <4>2, <4>3 DEF Referred, ReferredColumn
    <3>4. QED
      BY <3>2, <3>3
  <2>6. Carries(d, s, fk, e, s, key)
    BY <2>3, <2>4, <2>5 DEF Carries
  <2>7. QED
    BY <2>0, <2>6
<1>7. QED
  BY <1>6 DEF e, LinksCarried

LEMMA ColumnGoneCarries ==
  ASSUME NEW d, CatalogSound(d), NEW name \in DOMAIN d.tables, NEW column, NEW e,
         ColumnGone(d, name, column, e)
  PROVE  LinksCarried(d, e)
<1>1. /\ column \in DOMAIN d.tables[name].columns /\ DOMAIN e.tables = DOMAIN d.tables
      /\ e.tables[name] = ColumnDropped(d.tables[name], name, column)
      /\ \A t \in DOMAIN d.tables \ {name} :
            e.tables[t] = WithoutKeys(d.tables[t], Dependent(d, name, column))
  BY DEF ColumnGone
<1>2. \A t \in DOMAIN d.tables : TableFormed(d.tables[t])
  BY DEF CatalogSound, Formed
<1>3. column # Absent
  BY <1>1, <1>2, CatalogAssumption DEF TableFormed
<1>4. Dropped(d.tables[name], name, column, e.tables[name])
  BY <1>1, <1>2, DroppedFields DEF TableFormed
<1>5. /\ \A c \in DOMAIN d.tables[name].columns : c # column =>
            /\ c \in DOMAIN e.tables[name].columns
            /\ e.tables[name].columns[c] = d.tables[name].columns[c]
      /\ e.tables[name].primary_key
            = IF d.tables[name].primary_key = column THEN Absent ELSE d.tables[name].primary_key
  BY <1>4 DEF Dropped, Without
<1>6. ASSUME NEW t \in DOMAIN d.tables, t # name
      PROVE  /\ Rekeyed(d.tables[t], e.tables[t])
             /\ e.tables[t].foreign_keys = d.tables[t].foreign_keys \ Dependent(d, name, column)
  BY <1>1, <1>2, <1>6, WithoutKeysRekeyed
<1>7. ASSUME NEW s \in DOMAIN d.tables, NEW fk \in e.tables[s].foreign_keys
      PROVE  /\ fk \in d.tables[s].foreign_keys
             /\ e.tables[s].columns[fk.column] = d.tables[s].columns[fk.column]
             /\ fk.target = name => fk.refers # column
             /\ fk.target = name /\ fk.refers = Absent /\ d.tables[name].primary_key = column
                   => s = name
  <2>1. CASE s = name
    <3>1. /\ fk \in d.tables[name].foreign_keys /\ fk.column # column
          /\ ~ (fk.target = name /\ fk.refers = column)
      BY <1>4, <2>1 DEF Dropped
    <3>2. fk.column \in DOMAIN d.tables[name].columns
      BY <1>2, <3>1 DEF TableFormed
    <3>3. QED
      BY <1>5, <2>1, <3>1, <3>2
  <2>2. CASE s # name
    <3>1. fk \in d.tables[s].foreign_keys /\ fk \notin Dependent(d, name, column)
      BY <1>6, <2>2
    <3>2. fk \in ForeignKeysOf(d)
      BY <3>1 DEF ForeignKeysOf
    <3>3. QED
      BY <1>6, <2>2, <3>1, <3>2 DEF Dependent, Rekeyed
  <2>3. QED
    BY <2>1, <2>2
<1>8. ASSUME NEW s \in DOMAIN d.tables, NEW fk \in e.tables[s].foreign_keys
      PROVE  Carries(d, s, fk, e, s, fk)
  <2>1. ASSUME Referred(d, fk)
        PROVE  /\ Referred(e, fk)
               /\ RefersTo(e, fk) # Absent =>
                     RefersTo(d, fk) # Absent /\ ReferredColumn(e, fk) = ReferredColumn(d, fk)
    <3>1. fk.target \in DOMAIN d.tables
      BY <2>1 DEF Referred
    <3>2. CASE fk.target = name
      <4>1. RefersTo(e, fk) = Absent \/ (RefersTo(e, fk) = RefersTo(d, fk) /\ RefersTo(d, fk) # column)
        BY <1>5, <1>7, <3>2 DEF RefersTo
      <4>2. QED
        BY <1>1, <1>5, <2>1, <3>2, <4>1 DEF Referred, ReferredColumn
    <3>3. CASE fk.target # name
      <4>1. Rekeyed(d.tables[fk.target], e.tables[fk.target])
        BY <1>6, <3>1, <3>3
      <4>2. RefersTo(e, fk) = RefersTo(d, fk)
        BY <4>1 DEF Rekeyed, RefersTo
      <4>3. QED
        BY <1>1, <2>1, <3>1, <4>1, <4>2 DEF Referred, ReferredColumn, Rekeyed
    <3>4. QED
      BY <3>2, <3>3
  <2>2. QED
    BY <1>7, <2>1 DEF Carries
<1>9. QED
  BY <1>1, <1>7, <1>8 DEF LinksCarried

----------------------------------------------------------------------------
(* The statements.  First those of several turns: ALTER TABLE...           *)
LEMMA AlterAdvances ==
  ASSUME NEW acc, acc.ok, CatalogSound(acc.db), acc.name \in DOMAIN acc.db.tables,
         NEW op \in Alteration, Alter(acc, op).ok
  PROVE  Advances(acc.db, Alter(acc, op)) /\ LinksCarried(acc.db, Alter(acc, op).db)
<1>1. CASE op.kind = "ADD COLUMN"
  <2>1. Alter(acc, op) = AddColumn(acc.db, acc.name, op)
    BY <1>1 DEF Alter
  <2>2. op.column \in ColumnName /\ op.references \in SUBSET ForeignKey
    BY <1>1 DEF Alteration
  <2>3. QED
    BY <2>1, <2>2, AddColumnAdvances, AddColumnCarries
<1>2. CASE op.kind = "RENAME COLUMN"
  <2>1. Alter(acc, op) = RenameColumn(acc.db, acc.name, op)
    BY <1>2 DEF Alter
  <2>2. op.column \in ColumnName /\ op.to \in ColumnName
    BY <1>2 DEF Alteration
  <2>3. QED
    BY <2>1, <2>2, RenameColumnAdvances, RenameColumnCarries
<1>3. CASE op.kind = "DROP COLUMN"
  <2>1. Alter(acc, op) = DropColumn(acc.db, acc.name, op)
    BY <1>3 DEF Alter
  <2>2. Advances(acc.db, DropColumn(acc.db, acc.name, op))
    BY <2>1, DropColumnAdvances
  <2>3. LinksCarried(acc.db, DropColumn(acc.db, acc.name, op).db)
    <3>1. CASE DropColumn(acc.db, acc.name, op) = Unaltered(acc.db, acc.name)
      <4>1. DropColumn(acc.db, acc.name, op).db = acc.db
        BY <3>1 DEF Unaltered
      <4>2. \A t \in DOMAIN acc.db.tables : \A fk \in acc.db.tables[t].foreign_keys :
               fk.column \in DOMAIN acc.db.tables[t].columns
        BY DEF CatalogSound, Formed, TableFormed
      <4>3. QED
        BY <4>1, <4>2, KeyStays DEF LinksCarried
    <3>2. CASE ColumnGone(acc.db, acc.name, op.column, DropColumn(acc.db, acc.name, op).db)
      BY <3>2, ColumnGoneCarries
    <3>3. QED
      BY <2>1, <3>1, <3>2, DropColumnEffect
  <2>4. QED
    BY <2>1, <2>2, <2>3
<1>4. CASE op.kind = "ALTER COLUMN"
  <2>1. Alter(acc, op) = AlterColumn(acc.db, acc.name, op)
    BY <1>4 DEF Alter
  <2>2. QED
    BY <2>1, AlterColumnAdvances, AlterColumnCarries
<1>5. CASE op.kind = "RENAME TO"
  <2>1. Alter(acc, op) = RenameTable(acc.db, acc.name, op)
    BY <1>5 DEF Alter
  <2>2. op.to \in Relation
    BY <1>5 DEF Alteration
  <2>3. QED
    BY <2>1, <2>2, RenameTableAdvances, RenameTableCarries
<1>6. op.kind \in {"ADD COLUMN", "RENAME COLUMN", "DROP COLUMN", "ALTER COLUMN", "RENAME TO"}
  BY DEF Alteration
<1>7. QED
  BY <1>1, <1>2, <1>3, <1>4, <1>5, <1>6

(* What has happened to the catalog d since the statement began.           *)
Altering(d, r) ==
    /\ Evolves(d, r.db) /\ Versioned(d, r.db) /\ r.name \in DOMAIN r.db.tables
    /\ LinksFrom(d.next_object_id, Links(d), r.db)

LEMMA AlteringOn ==
  ASSUME NEW d, CatalogSound(d), NEW acc, acc.ok, Altering(d, acc),
         NEW op \in Alteration, Alter(acc, op).ok
  PROVE  Altering(d, Alter(acc, op))
<1> DEFINE m == acc.db
           e == Alter(acc, op).db
<1>1. Evolves(d, m) /\ CatalogSound(m) /\ Versioned(d, m) /\ acc.name \in DOMAIN m.tables
      /\ LinksFrom(d.next_object_id, Links(d), m)
  BY DEF Altering, Evolves
<1>2. Evolves(m, e) /\ Versioned(m, e) /\ Alter(acc, op).name \in DOMAIN e.tables /\ LinksCarried(m, e)
  BY <1>1, AlterAdvances DEF Advances
<1> HIDE DEF m, e
<1>3. Evolves(d, e)
  BY <1>1, <1>2, EvolvesOn
<1>4. Versioned(d, e)
  <2>1. d.schema_version \in Nat /\ m.schema_version \in Nat /\ e.schema_version \in Nat
    BY <1>1, <1>2 DEF Evolves, CatalogSound, Formed
  <2>2. QED
    BY <1>1, <1>2, <2>1 DEF Versioned
<1>5. LinksFrom(d.next_object_id, Links(d), e)
  <2>1. /\ d.next_object_id \in Nat /\ d.next_object_id <= m.next_object_id
        /\ CatalogSound(m) /\ CatalogSound(e)
    BY <1>1, <1>2 DEF Evolves, CatalogSound, Formed
  <2>2. QED
    BY <1>1, <1>2, <2>1, LinksCarriedOn
<1>6. QED
  BY <1>2, <1>3, <1>4, <1>5 DEF e, Altering

LEMMA AlterTableEvolves ==
  ASSUME CatalogSound(db), WellDefined(db), NEW name, NEW operations \in Seq(Alteration),
         AlterTable(name, operations)
  PROVE  /\ Evolves(db, db') /\ Versioned(db, db') /\ WellDefined(db')
         /\ LinksFrom(db.next_object_id, Links(db), db')
<1> DEFINE n == Len(operations)
<1>1. name \in DOMAIN db.tables
  BY AlterTableTurns
<1>2. PICK g : /\ Turns(g, n, TRUE, FALSE, FALSE, Unaltered(db, name), operations)
               /\ Commit(g[n])
  BY AlterTableTurns
<1>3. /\ g[0] = Unaltered(db, name)
      /\ \A i \in 1..n : g[i] = Alter(g[i - 1], operations[i])
  BY <1>2 DEF Turns, Turn
<1> DEFINE T == {i \in Nat : i <= n /\ g[i].ok => Altering(db, g[i])}
<1>4. 0 \in T
  <2>1. Altering(db, Unaltered(db, name))
    BY <1>1, EvolvesFromItself, LinksFromTheStart DEF Altering, Unaltered, Versioned
  <2>2. QED
    BY <1>3, <2>1
<1>5. ASSUME NEW i \in T PROVE i + 1 \in T
  <2>1. SUFFICES ASSUME i + 1 <= n, g[i + 1].ok PROVE Altering(db, g[i + 1])
    OBVIOUS
  <2>2. i \in Nat /\ i + 1 \in 1..n /\ operations[i + 1] \in Alteration
    BY <2>1
  <2>3. g[i + 1] = Alter(g[i], operations[i + 1])
    BY <1>3, <2>2
  <2>4. g[i].ok
    BY <2>1, <2>3 DEF Alter
  <2>5. Altering(db, g[i])
    BY <2>1, <2>2, <2>4
  <2> HIDE DEF T
  <2>6. QED
    BY <2>1, <2>2, <2>3, <2>4, <2>5, AlteringOn
<1>6. T = Nat
  <2> HIDE DEF T
  <2>1. T \in SUBSET Nat
    BY DEF T
  <2>2. QED
    BY <1>4, <1>5, <2>1, Induction
<1>7. n \in Nat /\ g[n].ok /\ WellDefined(g[n].db) /\ db' = g[n].db
  BY <1>2 DEF Commit
<1>8. Altering(db, g[n])
  BY <1>6, <1>7
<1>9. QED
  BY <1>7, <1>8 DEF Altering

(* ... and DROP VIEW.                                                      *)
Dropping(d, r) ==
    /\ DOMAIN r = {"ok", "db"}
    /\ r.ok => /\ Evolves(d, r.db) /\ r.db.tables = d.tables
               /\ r.db.schema_version = d.schema_version
               /\ r.db.next_object_id = d.next_object_id

LEMMA ViewDropped ==
  ASSUME NEW d, CatalogSound(d), NEW name, NEW if_exists, NEW cascade, NEW acc, acc.ok, acc.db = d,
         drop_view(acc, name, if_exists, cascade).ok
  PROVE  Dropping(d, drop_view(acc, name, if_exists, cascade))
<1> DEFINE rest == remove_dependents(d, {name}, cascade)
           e == [rest.db EXCEPT !.views = Without(@, {name})]
<1>1. drop_view(acc, name, if_exists, cascade) = Ok(e) /\ rest.ok
  <2>1. \/ drop_view(acc, name, if_exists, cascade) = Refused(d)
        \/ drop_view(acc, name, if_exists, cascade) = Ok(e) /\ rest.ok
    BY DEF drop_view
  <2> HIDE DEF e, rest
  <2>2. QED
    BY <2>1 DEF Refused
<1>2. Relieved(d, rest.db, {name})
  BY <1>1, RemovalRelieves DEF CatalogSound
<1> HIDE DEF rest
<1>3. /\ IsMap(e) /\ DOMAIN e = CatalogFields /\ e.tables = d.tables
      /\ e.views = Without(rest.db.views, {name}) /\ e.functions = rest.db.functions
      /\ e.schema_version = d.schema_version /\ e.next_object_id = d.next_object_id
  BY <1>2 DEF Relieved, SameBut, IsMap, CatalogFields
<1> HIDE DEF e
<1>4. /\ IsMap(e.views) /\ DOMAIN e.views = DOMAIN rest.db.views \ {name}
      /\ \A v \in DOMAIN e.views : e.views[v] = rest.db.views[v]
  BY <1>3 DEF Without, IsMap
<1>5. Spared(d, e, {name})
  <2>1. Bodies(e) = Bodies(rest.db)
    BY <1>3 DEF Bodies
  <2>2. QED
    BY <1>2, <1>3, <1>4, <2>1 DEF Relieved, Thinned, Spared
<1>6. Follows(d, e, [s \in DOMAIN d.tables |-> s], name)
  <2>1. d.schema_version \in Nat /\ d.next_object_id \in Nat /\ IsMap(d.tables) /\ IsMap(e.functions)
    BY <1>2, <1>3 DEF CatalogSound, Formed, Relieved, Thinned
  <2>2. ASSUME NEW s \in DOMAIN d.tables
        PROVE  /\ Becomes(d.tables[s], d.tables[s], d.next_object_id)
               /\ \A c \in DOMAIN d.tables[s].columns : ~ (d.tables[s].columns[c] >= d.next_object_id)
    <3>1. TableSound(d.tables[s], d.next_object_id)
      BY TablesSound
    <3>2. QED
      BY <3>1, HoldsItself DEF TableSound
  <2>3. QED
    BY <1>3, <1>4, <2>1, <2>2 DEF Follows
<1>7. Evolves(d, e)
  BY <1>5, <1>6, FollowersEvolve
<1>8. QED
  BY <1>1, <1>3, <1>7 DEF Dropping, Ok

LEMMA DroppingOn ==
  ASSUME NEW d, CatalogSound(d), NEW acc, Dropping(d, acc), NEW name, NEW if_exists, NEW cascade
  PROVE  Dropping(d, drop_view(acc, name, if_exists, cascade))
<1> DEFINE r == drop_view(acc, name, if_exists, cascade)
           m == acc.db
<1>1. DOMAIN r = {"ok", "db"}
  BY DEF drop_view, Dropping, Refused, Ok
<1>2. ASSUME r.ok
      PROVE  /\ Evolves(d, r.db) /\ r.db.tables = d.tables
             /\ r.db.schema_version = d.schema_version /\ r.db.next_object_id = d.next_object_id
  <2>1. acc.ok
    BY <1>2 DEF drop_view
  <2>2. Evolves(d, m) /\ CatalogSound(m)
    BY <2>1 DEF Dropping, Evolves
  <2>3. Dropping(m, r)
    BY <1>2, <2>1, <2>2, ViewDropped
  <2> HIDE DEF r
  <2>4. Evolves(m, r.db)
    BY <1>2, <2>3 DEF Dropping
  <2>5. Evolves(d, r.db)
    BY <2>2, <2>4, EvolvesOn
  <2>6. QED
    BY <1>2, <2>1, <2>3, <2>5 DEF Dropping
<1> HIDE DEF r
<1>3. QED
  BY <1>1, <1>2 DEF r, Dropping

LEMMA DropViewsEvolves ==
  ASSUME CatalogSound(db), NEW names \in Seq(Relation), NEW if_exists, NEW cascade,
         DropViews(names, if_exists, cascade)
  PROVE  /\ Evolves(db, db') /\ Versioned(db, db') /\ WellDefined(db')
         /\ db'.tables = db.tables
<1> DEFINE n == Len(names)
<1>1. PICK g : /\ Turns(g, n, FALSE, if_exists, cascade, Ok(db), names)
               /\ Commit([g[n] EXCEPT !.db.schema_version = @ + 1])
  BY DropViewsTurns
<1>2. /\ g[0] = Ok(db)
      /\ \A i \in 1..n : g[i] = drop_view(g[i - 1], names[i], if_exists, cascade)
  BY <1>1 DEF Turns, Turn
<1> DEFINE T == {i \in Nat : i <= n => Dropping(db, g[i])}
<1>3. 0 \in T
  <2>1. Dropping(db, Ok(db))
    BY EvolvesFromItself DEF Dropping, Ok
  <2>2. QED
    BY <1>2, <2>1
<1>4. ASSUME NEW i \in T PROVE i + 1 \in T
  <2>1. SUFFICES ASSUME i + 1 <= n PROVE Dropping(db, g[i + 1])
    OBVIOUS
  <2>2. i \in Nat /\ i + 1 \in 1..n /\ Dropping(db, g[i])
    BY <2>1
  <2>3. g[i + 1] = drop_view(g[i], names[i + 1], if_exists, cascade)
    BY <1>2, <2>2
  <2>4. QED
    BY <2>2, <2>3, DroppingOn
<1>5. T = Nat
  <2> HIDE DEF T
  <2>1. T \in SUBSET Nat
    BY DEF T
  <2>2. QED
    BY <1>3, <1>4, <2>1, Induction
<1>6. Dropping(db, g[n])
  BY <1>5
<1> DEFINE m == g[n].db
           e == [m EXCEPT !.schema_version = @ + 1]
<1>7. g[n].ok /\ WellDefined(e) /\ db' = e
  <2>1. DOMAIN g[n] = {"ok", "db"}
    BY <1>6 DEF Dropping
  <2> DEFINE r == [g[n] EXCEPT !.db.schema_version = @ + 1]
  <2>2. r.ok = g[n].ok /\ r.db = e
    BY <2>1
  <2>3. r.ok /\ WellDefined(r.db) /\ db' = r.db
    BY <1>1 DEF Commit
  <2> HIDE DEF r
  <2>4. QED
    BY <2>2, <2>3
<1>8. /\ Evolves(db, m) /\ m.tables = db.tables /\ m.schema_version = db.schema_version
      /\ m.next_object_id = db.next_object_id
  BY <1>6, <1>7 DEF Dropping
<1> HIDE DEF m
<1>9. /\ IsMap(e) /\ DOMAIN e = CatalogFields /\ e.tables = m.tables
      /\ e.views = m.views /\ e.functions = m.functions
      /\ e.schema_version = m.schema_version + 1 /\ e.next_object_id = m.next_object_id
  BY <1>8 DEF Evolves, CatalogSound, Formed, IsMap, CatalogFields
<1> HIDE DEF e
<1>10. CatalogSound(e)
  BY <1>8, <1>9 DEF Evolves, CatalogSound, Formed, Identified
<1>11. Evolves(db, e)
  <2>1. Bodies(e) = Bodies(m)
    BY <1>9 DEF Bodies
  <2>2. Bound(db, e)
    BY <1>8, <1>9, <2>1 DEF Evolves, Bound, Kept, Meaning
  <2>3. QED
    BY <1>8, <1>9, <1>10, <2>2 DEF Evolves, Descends
<1>12. QED
  BY <1>7, <1>8, <1>9, <1>11 DEF Versioned, Evolves, CatalogSound, Formed

(* DROP TABLE, over all the tables at once.                                *)
TablesGone(d, dropped, e) ==
    /\ IsMap(e) /\ DOMAIN e = CatalogFields /\ IsMap(e.tables)
    /\ DOMAIN e.tables = DOMAIN d.tables \ dropped
    /\ \A t \in DOMAIN e.tables :
          e.tables[t] = WithoutKeys(d.tables[t], {fk \in ForeignKeysOf(d) : fk.target \in dropped})
    /\ Thinned(d.views, e.views, dropped, DOMAIN d.views \ DOMAIN e.views)
    /\ IsMap(e.functions)
    /\ Thinned(Bodies(d), Bodies(e), dropped, DOMAIN d.views \ DOMAIN e.views)
    /\ e.schema_version = d.schema_version + 1 /\ e.next_object_id = d.next_object_id

LEMMA DropTablesEffect ==
  ASSUME NEW d, CatalogSound(d), NEW dropped, NEW if_exists, NEW cascade,
         drop_tables(d, dropped, if_exists, cascade).ok
  PROVE  TablesGone(d, dropped, drop_tables(d, dropped, if_exists, cascade).db)
<1> DEFINE rest == remove_dependents(d, dropped, cascade)
           dependent == {fk \in ForeignKeysOf(d) : fk.target \in dropped}
           keys == DropForeignKeys(rest.db, dropped, cascade, dependent)
           e == [keys.db EXCEPT !.tables = Without(@, dropped), !.schema_version = @ + 1]
<1>1. drop_tables(d, dropped, if_exists, cascade).db = e /\ rest.ok /\ keys.ok
  <2>1. \/ drop_tables(d, dropped, if_exists, cascade) = Refused(d)
        \/ drop_tables(d, dropped, if_exists, cascade) = Ok(e) /\ rest.ok /\ keys.ok
    BY DEF drop_tables
  <2> HIDE DEF e, keys, rest
  <2>2. QED
    BY <2>1 DEF Refused, Ok
<1>2. Relieved(d, rest.db, dropped)
  BY <1>1, RemovalRelieves DEF CatalogSound
<1> HIDE DEF rest, dependent
<1>3. KeysDropped(rest.db, dropped, dependent, keys.db)
  BY <1>1, <1>2, DropForeignKeysEffect DEF Relieved, SameBut
<1> HIDE DEF keys
<1>4. /\ IsMap(keys.db) /\ DOMAIN keys.db = CatalogFields /\ DOMAIN keys.db.tables = DOMAIN d.tables
      /\ \A t \in DOMAIN d.tables \ dropped : keys.db.tables[t] = WithoutKeys(d.tables[t], dependent)
      /\ keys.db.views = rest.db.views /\ keys.db.functions = rest.db.functions
      /\ keys.db.schema_version = d.schema_version /\ keys.db.next_object_id = d.next_object_id
  BY <1>2, <1>3 DEF Relieved, KeysDropped, SameBut
<1>5. /\ IsMap(e) /\ DOMAIN e = CatalogFields /\ e.tables = Without(keys.db.tables, dropped)
      /\ e.views = rest.db.views /\ e.functions = rest.db.functions
      /\ e.schema_version = d.schema_version + 1 /\ e.next_object_id = d.next_object_id
  BY <1>4 DEF IsMap, CatalogFields
<1> HIDE DEF e
<1>6. /\ IsMap(e.tables) /\ DOMAIN e.tables = DOMAIN d.tables \ dropped
      /\ \A t \in DOMAIN e.tables : e.tables[t] = WithoutKeys(d.tables[t], dependent)
  BY <1>4, <1>5 DEF Without, IsMap
<1>7. QED
  <2>1. Bodies(e) = Bodies(rest.db)
    BY <1>5 DEF Bodies
  <2>2. QED
    BY <1>1, <1>2, <1>5, <1>6, <2>1 DEF TablesGone, Relieved, dependent

LEMMA TablesGoneEvolves ==
  ASSUME NEW d, CatalogSound(d), NEW dropped, NEW e, TablesGone(d, dropped, e)
  PROVE  Evolves(d, e) /\ Versioned(d, e) /\ LinksCarried(d, e)
<1> DEFINE dependent == {fk \in ForeignKeysOf(d) : fk.target \in dropped}
           n == d.next_object_id
<1>1. /\ IsMap(e) /\ DOMAIN e = CatalogFields /\ IsMap(e.tables)
      /\ IsMap(e.views) /\ IsMap(e.functions)
      /\ DOMAIN e.tables = DOMAIN d.tables \ dropped
      /\ \A t \in DOMAIN e.tables : e.tables[t] = WithoutKeys(d.tables[t], dependent)
      /\ e.schema_version = d.schema_version + 1 /\ e.next_object_id = n
  BY DEF TablesGone, Thinned
<1>2. d.schema_version \in Nat /\ n \in Nat
  BY DEF CatalogSound, Formed
<1>3. ASSUME NEW s \in DOMAIN e.tables
      PROVE  /\ s \in DOMAIN d.tables /\ TableSound(d.tables[s], n)
             /\ Rekeyed(d.tables[s], e.tables[s])
             /\ e.tables[s].foreign_keys = d.tables[s].foreign_keys \ dependent
  <2>1. s \in DOMAIN d.tables /\ TableSound(d.tables[s], n)
    BY <1>1, TablesSound
  <2> HIDE DEF dependent
  <2>2. QED
    BY <1>1, <2>1, WithoutKeysRekeyed DEF TableSound
<1>4. ASSUME NEW s \in DOMAIN e.tables
      PROVE  /\ Becomes(d.tables[s], e.tables[s], n)
             /\ \A c \in DOMAIN e.tables[s].columns : ~ (e.tables[s].columns[c] >= n)
  <2>1. Becomes(d.tables[s], e.tables[s], n)
    BY <1>3, HoldsItself, RekeyedBecomes
  <2>2. QED
    BY <1>3, <2>1 DEF Rekeyed, TableSound
<1> DEFINE from == [s \in DOMAIN e.tables |-> s]
<1>5. Follows(d, e, from, {})
  <2>1. \A s \in DOMAIN e.tables : from[s] = s
    OBVIOUS
  <2> HIDE DEF from
  <2>2. QED
    BY <1>1, <1>2, <1>3, <1>4, <2>1 DEF Follows
<1>6. Spared(d, e, dropped)
  <2>1. ASSUME NEW t \in DOMAIN d.tables, t \notin dropped
        PROVE  t \in DOMAIN e.tables /\ e.tables[t].id = d.tables[t].id
    BY <1>1, <1>3, <2>1 DEF Rekeyed
  <2>2. QED
    BY <2>1 DEF Spared, TablesGone
<1>7. Evolves(d, e)
  BY <1>5, <1>6, FollowersEvolve
<1>8. LinksCarried(d, e)
  <2>1. ASSUME NEW s \in DOMAIN e.tables, NEW fk \in e.tables[s].foreign_keys
        PROVE  fk \in d.tables[s].foreign_keys /\ Carries(d, s, fk, e, s, fk)
    <3>1. s \in DOMAIN d.tables /\ fk \in d.tables[s].foreign_keys /\ fk \notin dependent
      BY <1>3
    <3>2. fk.target \notin dropped
      BY <3>1 DEF ForeignKeysOf
    <3>3. fk.column \in DOMAIN d.tables[s].columns
      BY <1>3, <3>1 DEF TableSound, TableFormed
    <3>4. fk.target \in DOMAIN d.tables =>
             fk.target \in DOMAIN e.tables /\ Rekeyed(d.tables[fk.target], e.tables[fk.target])
      BY <1>1, <1>3, <3>2
    <3>5. QED
      BY <1>3, <3>1, <3>3, <3>4, KeyStays DEF Rekeyed
  <2>2. QED
    BY <1>3, <2>1 DEF LinksCarried
<1>9. QED
  BY <1>1, <1>2, <1>7, <1>8 DEF Versioned

(* What every statement does to the catalog.  A table is one of before or  *)
(* is new with all its columns.                                            *)
Fresh(w, n) == w.id >= n /\ \A c \in DOMAIN w.columns : w.columns[c] >= n

Succeeds(d, e) ==
    \A s \in DOMAIN e.tables :
        \/ Fresh(e.tables[s], d.next_object_id)
        \/ \E t \in DOMAIN d.tables : Holds(d.tables[t], e.tables[s], d.next_object_id)

(* A text that nobody replaces keeps what it is written about.             *)
TextsHeld(before, after, d, e) ==
    \A x \in DOMAIN before \cap DOMAIN after :
        after[x] = before[x] => \A name \in before[x] : Meaning(d, name) \subseteq Meaning(e, name)

LinksKept(d, e) == \A link \in Links(e) : link \in Links(d) \/ link[1] >= d.next_object_id

Outcome(d, e) ==
    /\ CatalogSound(e) /\ WellDefined(e)
    /\ Succeeds(d, e)
    /\ TextsHeld(d.views, e.views, d, e) /\ TextsHeld(Bodies(d), Bodies(e), d, e)
    /\ LinksKept(d, e)
    /\ Versioned(d, e)

LEMMA OutcomeOfEvolution ==
  ASSUME NEW d, CatalogSound(d), WellDefined(d), NEW e, Evolves(d, e), Versioned(d, e),
         WellDefined(e), LinksFrom(d.next_object_id, Links(d), e)
  PROVE  Outcome(d, e)
<1>1. CatalogSound(e) /\ Succeeds(d, e)
  BY DEF Evolves, Descends, Inherits, Succeeds
<1>2. TextsHeld(d.views, e.views, d, e) /\ TextsHeld(Bodies(d), Bodies(e), d, e)
  BY DEF Evolves, Bound, Kept, TextsHeld
<1>3. LinksKept(d, e)
  BY <1>1, LinksInTheEnd DEF LinksKept
<1>4. QED
  BY <1>1, <1>2, <1>3 DEF Outcome

(* Statements that leave the tables they find standing, but for policies   *)
(* that are added and row security that is switched.                       *)
StandsAs(u, w) ==
    /\ TableFormed(w)
    /\ w.id = u.id /\ w.columns = u.columns /\ w.primary_key = u.primary_key
    /\ w.unique = u.unique /\ w.deferred_unique = u.deferred_unique
    /\ w.foreign_keys = u.foreign_keys
    /\ \A p \in DOMAIN u.policies : p \in DOMAIN w.policies /\ w.policies[p] = u.policies[p]

NewTable(w, n, m) ==
    /\ TableFormed(w) /\ Distinct(w)
    /\ w.id \in Nat /\ n <= w.id /\ w.id < m
    /\ \A c \in DOMAIN w.columns :
          w.columns[c] \in Nat /\ n <= w.columns[c] /\ w.columns[c] < m

Stands(d, e, name) ==
    /\ IsMap(e) /\ DOMAIN e = CatalogFields
    /\ IsMap(e.tables) /\ IsMap(e.views) /\ IsMap(e.functions)
    /\ e.next_object_id \in Nat /\ d.next_object_id <= e.next_object_id
    /\ e.schema_version = d.schema_version + 1
    /\ \A t \in DOMAIN d.tables : t \in DOMAIN e.tables /\ StandsAs(d.tables[t], e.tables[t])
    /\ \A s \in DOMAIN e.tables \ DOMAIN d.tables :
          s = name /\ NewTable(e.tables[s], d.next_object_id, e.next_object_id)
    /\ DOMAIN d.views \subseteq DOMAIN e.views

LEMMA OutcomeOfStanding ==
  ASSUME NEW d, CatalogSound(d), WellDefined(d), NEW e, NEW name, Stands(d, e, name),
         WellDefined(e)
  PROVE  Outcome(d, e)
<1> DEFINE n == d.next_object_id
           m == e.next_object_id
<1>1. n \in Nat /\ m \in Nat /\ n <= m /\ d.schema_version \in Nat
      /\ e.schema_version = d.schema_version + 1
  BY DEF Stands, CatalogSound, Formed
<1>2. Formed(e)
  BY <1>1 DEF Stands, StandsAs, NewTable, Formed
<1>3. ASSUME NEW t \in DOMAIN d.tables
      PROVE  /\ t \in DOMAIN e.tables /\ StandsAs(d.tables[t], e.tables[t])
             /\ TableSound(d.tables[t], n)
             /\ d.tables[t].id \in Nat /\ d.tables[t].id < n
  BY TablesSound DEF Stands, CatalogSound, Identified
<1>4. ASSUME NEW s \in DOMAIN e.tables
      PROVE  \/ s \in DOMAIN d.tables
             \/ s = name /\ NewTable(e.tables[s], n, m)
  BY DEF Stands
<1>5. Identified(e)
  <2>1. ASSUME NEW s \in DOMAIN e.tables
        PROVE  /\ e.tables[s].id \in Nat /\ e.tables[s].id < m
               /\ \A c \in DOMAIN e.tables[s].columns :
                     e.tables[s].columns[c] \in Nat /\ e.tables[s].columns[c] < m
    BY <1>1, <1>3, <1>4 DEF StandsAs, TableSound, NewTable
  <2>2. ASSUME NEW s \in DOMAIN e.tables, s \in DOMAIN d.tables
        PROVE  /\ e.tables[s].id = d.tables[s].id /\ e.tables[s].columns = d.tables[s].columns
               /\ e.tables[s].id < n
               /\ \A c \in DOMAIN e.tables[s].columns : e.tables[s].columns[c] < n
    BY <1>3, <2>2 DEF StandsAs, TableSound
  <2>3. ASSUME NEW s \in DOMAIN e.tables, s \notin DOMAIN d.tables
        PROVE  /\ s = name /\ ~ (e.tables[s].id < n)
               /\ \A c \in DOMAIN e.tables[s].columns : ~ (e.tables[s].columns[c] < n)
               /\ Distinct(e.tables[s])
    BY <1>1, <1>4, <2>3 DEF NewTable
  <2>4. ASSUME NEW s \in DOMAIN e.tables, NEW t \in DOMAIN e.tables
        PROVE  /\ e.tables[s].id = e.tables[t].id => s = t
               /\ \A c \in DOMAIN e.tables[s].columns, f \in DOMAIN e.tables[t].columns :
                     e.tables[s].columns[c] = e.tables[t].columns[f] => s = t /\ c = f
    <3>1. CASE s \in DOMAIN d.tables /\ t \in DOMAIN d.tables
      BY <2>2, <3>1 DEF CatalogSound, Identified
    <3>2. CASE s \in DOMAIN d.tables /\ t \notin DOMAIN d.tables
      BY <2>2, <2>3, <3>2
    <3>3. CASE s \notin DOMAIN d.tables /\ t \in DOMAIN d.tables
      BY <2>2, <2>3, <3>3
    <3>4. CASE s \notin DOMAIN d.tables /\ t \notin DOMAIN d.tables
      BY <2>3, <3>4 DEF Distinct
    <3>5. QED
      BY <3>1, <3>2, <3>3, <3>4
  <2>5. QED
    BY <2>1, <2>4 DEF Identified
<1>6. Succeeds(d, e)
  <2>1. ASSUME NEW t \in DOMAIN d.tables PROVE Holds(d.tables[t], e.tables[t], n)
    <3>1. ColumnsHeld(d.tables[t], e.tables[t], n)
      BY <1>3 DEF StandsAs, ColumnsHeld, SameColumn, KeysOf
    <3>2. PoliciesHeld(d.tables[t], e.tables[t])
      BY <1>3 DEF StandsAs, PoliciesHeld, PolicyColumns
    <3>3. QED
      BY <1>3, <3>1, <3>2 DEF StandsAs, Holds
  <2>2. ASSUME NEW s \in DOMAIN e.tables, NewTable(e.tables[s], n, m) PROVE Fresh(e.tables[s], n)
    BY <1>1, <2>2 DEF NewTable, Fresh
  <2>3. QED
    BY <1>4, <2>1, <2>2 DEF Succeeds
<1>7. \A x : Meaning(d, x) \subseteq Meaning(e, x)
  BY <1>3 DEF Meaning, StandsAs, Stands
<1>8. TextsHeld(d.views, e.views, d, e) /\ TextsHeld(Bodies(d), Bodies(e), d, e)
  BY <1>7 DEF TextsHeld
<1>9. LinksKept(d, e)
  <2>1. LinksFrom(n, Links(d), d)
    BY LinksFromTheStart
  <2>2. LinksCarried(d, e)
    <3>1. ASSUME NEW t \in DOMAIN d.tables, NEW fk \in d.tables[t].foreign_keys
          PROVE  Carries(d, t, fk, e, t, fk)
      <4>1. fk.column \in DOMAIN d.tables[t].columns
        BY <1>3 DEF TableSound, TableFormed
      <4>2. QED
        BY <1>3, <4>1, KeyStays DEF StandsAs
    <3>2. ASSUME NEW s \in DOMAIN e.tables, NEW fk \in e.tables[s].foreign_keys, s \notin DOMAIN d.tables
          PROVE  e.tables[s].columns[fk.column] >= n
      <4>1. NewTable(e.tables[s], n, m) /\ fk.column \in DOMAIN e.tables[s].columns
        BY <1>4, <3>2 DEF NewTable, TableFormed
      <4>2. QED
        BY <1>1, <4>1 DEF NewTable
    <3>3. QED
      BY <1>3, <3>1, <3>2 DEF LinksCarried, StandsAs
  <2>3. CatalogSound(e)
    BY <1>2, <1>5 DEF CatalogSound
  <2>4. LinksFrom(n, Links(d), e)
    BY <1>1, <2>1, <2>2, <2>3, LinksCarriedOn
  <2>5. QED
    BY <2>3, <2>4, LinksInTheEnd DEF LinksKept
<1>10. QED
  BY <1>1, <1>2, <1>5, <1>6, <1>8, <1>9 DEF Outcome, CatalogSound, Versioned

LEMMA StandsItself ==
  ASSUME NEW d, CatalogSound(d), NEW t \in DOMAIN d.tables
  PROVE  StandsAs(d.tables[t], d.tables[t])
BY DEF CatalogSound, Formed, StandsAs

(* The statements that create something.                                   *)
LEMMA CreateTableOutcome ==
  ASSUME CatalogSound(db), WellDefined(db), NEW name, NEW definition \in TableDefinition,
         definition.deferred_unique \subseteq {definition.primary_key} \cup definition.unique,
         CreateTable(name, definition)
  PROVE  Outcome(db, db')
<1> DEFINE id == db.next_object_id
           k == Len(definition.columns)
           C == ToSet(definition.columns)
           at(c) == CHOOSE i \in DOMAIN definition.columns : definition.columns[i] = c
           columns == [c \in C |-> id + at(c)]
           table == [id |-> id, columns |-> columns,
                     primary_key |-> definition.primary_key, unique |-> definition.unique,
                     deferred_unique |-> {}, foreign_keys |-> definition.foreign_keys,
                     generated |-> definition.generated, checks |-> definition.checks,
                     policies |-> <<>>, rls_enabled |-> FALSE]
           w == deferred_statement(table, definition)
           e == [db EXCEPT !.tables = Put(@, name, w), !.schema_version = @ + 1,
                           !.next_object_id = id + 1 + k]
<1>1. name \notin DOMAIN db.tables /\ WellDefined(e) /\ db' = e
  <2>1. name \notin DOMAIN db.tables /\ Commit(Ok(e))
    BY DEF CreateTable
  <2> HIDE DEF e
  <2>2. QED
    BY <2>1 DEF Commit, Ok
<1>2. id \in Nat /\ k \in Nat /\ db.schema_version \in Nat /\ definition.columns \in Seq(ColumnName)
  BY DEF CatalogSound, Formed, TableDefinition
<1>3. /\ C \subseteq ColumnName
      /\ \A c \in C : at(c) \in 1..k /\ definition.columns[at(c)] = c
  BY <1>2 DEF ToSet
<1>4. /\ IsMap(columns) /\ DOMAIN columns = C
      /\ \A c \in C : columns[c] = id + at(c)
  BY DEF IsMap
<1>5. /\ \A c \in C : columns[c] \in Nat /\ id <= columns[c] /\ columns[c] < id + 1 + k
      /\ \A c, f \in C : columns[c] = columns[f] => c = f
  <2>1. ASSUME NEW c \in C PROVE columns[c] \in Nat /\ id <= columns[c] /\ columns[c] < id + 1 + k
    <3>1. at(c) \in 1..k /\ columns[c] = id + at(c)
      BY <1>3, <1>4
    <3> HIDE DEF at, columns
    <3>2. QED
      BY <1>2, <3>1
  <2>2. ASSUME NEW c \in C, NEW f \in C, columns[c] = columns[f] PROVE c = f
    <3>1. at(c) \in 1..k /\ at(f) \in 1..k /\ id + at(c) = id + at(f)
      BY <1>3, <1>4, <2>2
    <3>2. at(c) = at(f)
      <4> HIDE DEF at
      <4>1. QED
        BY <1>2, <3>1
    <3>3. definition.columns[at(c)] = c /\ definition.columns[at(f)] = f
      BY <1>3
    <3> HIDE DEF at
    <3>4. QED
      BY <3>2, <3>3
  <2>3. QED
    BY <2>1, <2>2
<1> HIDE DEF columns
<1>6. /\ IsMap(w) /\ DOMAIN w = TableFields
      /\ w.id = id /\ w.columns = columns /\ w.primary_key = definition.primary_key
      /\ w.unique = definition.unique /\ w.deferred_unique = definition.deferred_unique
      /\ w.policies = <<>>
      /\ w.foreign_keys = {[fk EXCEPT !.deferred = @ \/ fk.column \in definition.deferred_foreign] :
                              fk \in definition.foreign_keys}
  BY DEF deferred_statement, IsMap, TableFields
<1>7. /\ IsMap(e) /\ DOMAIN e = CatalogFields /\ e.tables = Put(db.tables, name, w)
      /\ e.views = db.views /\ e.functions = db.functions
      /\ e.schema_version = db.schema_version + 1 /\ e.next_object_id = id + 1 + k
  <2> HIDE DEF w
  <2>1. QED
    BY DEF CatalogSound, Formed, IsMap, CatalogFields
<1>8. /\ IsMap(e.tables) /\ DOMAIN e.tables = DOMAIN db.tables \cup {name}
      /\ e.tables[name] = w
      /\ \A t \in DOMAIN db.tables : e.tables[t] = db.tables[t]
  <2> HIDE DEF w, e
  <2>1. QED
    BY <1>1, <1>7 DEF Put, IsMap
<1> HIDE DEF w, e
<1>9. /\ KeysOf(w) \subseteq C
      /\ \A fk \in w.foreign_keys : fk.column \in C
  BY <1>1, <1>4, <1>6, <1>8 DEF WellDefined
<1>10. TableFormed(w)
  <2>1. w.deferred_unique \subseteq C
    <3>1. w.deferred_unique \subseteq ColumnName
      BY <1>6 DEF TableDefinition
    <3>2. w.deferred_unique \subseteq KeysOf(w)
      BY <1>6, <3>1, CatalogAssumption DEF KeysOf
    <3>3. QED
      BY <1>9, <3>2
  <2>2. w.foreign_keys \subseteq ForeignKey
    <3>1. ASSUME NEW fk \in definition.foreign_keys
          PROVE  [fk EXCEPT !.deferred = @ \/ fk.column \in definition.deferred_foreign] \in ForeignKey
      <4>1. fk \in ForeignKey
        BY DEF TableDefinition
      <4>2. (fk.deferred \/ fk.column \in definition.deferred_foreign) \in BOOLEAN
        OBVIOUS
      <4>3. QED
        BY <4>1, <4>2 DEF ForeignKey
    <3>2. QED
      BY <1>6, <3>1
  <2>3. IsMap(w.policies) /\ DOMAIN w.policies = {}
    BY <1>6 DEF IsMap
  <2>4. IsMap(w.columns) /\ DOMAIN w.columns = C
    BY <1>4, <1>6
  <2>5. QED
    BY <1>3, <1>6, <1>9, <2>1, <2>2, <2>3, <2>4 DEF TableFormed
<1>11. NewTable(w, id, id + 1 + k)
  BY <1>2, <1>4, <1>5, <1>6, <1>10 DEF NewTable, Distinct
<1>12. Stands(db, e, name)
  <2>1. IsMap(e.views) /\ IsMap(e.functions)
    BY <1>7 DEF CatalogSound, Formed
  <2>2. ASSUME NEW t \in DOMAIN db.tables PROVE t \in DOMAIN e.tables /\ StandsAs(db.tables[t], e.tables[t])
    BY <1>8, StandsItself
  <2>3. QED
    BY <1>2, <1>7, <1>8, <1>11, <2>1, <2>2 DEF Stands
<1>13. QED
  BY <1>1, <1>12, OutcomeOfStanding

LEMMA CreateViewOutcome ==
  ASSUME CatalogSound(db), WellDefined(db), NEW name, NEW text, NEW or_replace,
         CreateView(name, text, or_replace)
  PROVE  Outcome(db, db')
<1> DEFINE views == Put(db.views, name, text)
           e == [db EXCEPT !.views = views, !.schema_version = @ + 1]
<1>1. WellDefined(e) /\ db' = e
  BY DEF CreateView, Commit, Ok
<1>2. IsMap(views) /\ DOMAIN db.views \subseteq DOMAIN views
  BY DEF Put, IsMap
<1> HIDE DEF views
<1>3. /\ IsMap(e) /\ DOMAIN e = CatalogFields /\ e.tables = db.tables
      /\ e.views = views /\ e.functions = db.functions
      /\ e.schema_version = db.schema_version + 1 /\ e.next_object_id = db.next_object_id
  BY DEF CatalogSound, Formed, IsMap, CatalogFields
<1> HIDE DEF e
<1>4. Stands(db, e, name)
  BY <1>2, <1>3, StandsItself DEF Stands, CatalogSound, Formed
<1>5. QED
  BY <1>1, <1>4, OutcomeOfStanding

LEMMA CreateFunctionOutcome ==
  ASSUME CatalogSound(db), WellDefined(db), NEW f, NEW text, NEW returns, NEW replace,
         CreateFunction(f, text, returns, replace)
  PROVE  Outcome(db, db')
<1> DEFINE functions == Put(db.functions, f, [body |-> text, returns |-> returns])
           e == [db EXCEPT !.functions = functions, !.schema_version = @ + 1]
<1>1. WellDefined(e) /\ db' = e
  BY DEF CreateFunction, Commit, Ok
<1>2. IsMap(functions)
  BY DEF Put, IsMap
<1> HIDE DEF functions
<1>3. /\ IsMap(e) /\ DOMAIN e = CatalogFields /\ e.tables = db.tables
      /\ e.views = db.views /\ e.functions = functions
      /\ e.schema_version = db.schema_version + 1 /\ e.next_object_id = db.next_object_id
  BY DEF CatalogSound, Formed, IsMap, CatalogFields
<1> HIDE DEF e
<1>4. Stands(db, e, f)
  BY <1>2, <1>3, StandsItself DEF Stands, CatalogSound, Formed
<1>5. QED
  BY <1>1, <1>4, OutcomeOfStanding

(* One table is replaced by one that stands for it.                        *)
LEMMA OneTableStands ==
  ASSUME CatalogSound(db), NEW t \in DOMAIN db.tables, NEW w, StandsAs(db.tables[t], w)
  PROVE  Stands(db, [db EXCEPT !.tables[t] = w, !.schema_version = @ + 1], t)
<1> DEFINE e == [db EXCEPT !.tables[t] = w, !.schema_version = @ + 1]
<1>1. /\ IsMap(e) /\ DOMAIN e = CatalogFields /\ IsMap(e.tables)
      /\ DOMAIN e.tables = DOMAIN db.tables /\ e.tables[t] = w
      /\ \A s \in DOMAIN db.tables : s # t => e.tables[s] = db.tables[s]
      /\ e.views = db.views /\ e.functions = db.functions
      /\ e.schema_version = db.schema_version + 1 /\ e.next_object_id = db.next_object_id
  BY DEF CatalogSound, Formed, IsMap, CatalogFields
<1> HIDE DEF e
<1>2. \A s \in DOMAIN db.tables : StandsAs(db.tables[s], e.tables[s])
  BY <1>1, StandsItself
<1>3. Stands(db, e, t)
  BY <1>1, <1>2 DEF Stands, CatalogSound, Formed
<1>4. QED
  BY <1>3 DEF e

LEMMA CreatePolicyOutcome ==
  ASSUME CatalogSound(db), WellDefined(db), NEW t, NEW policy, NEW uses,
         CreatePolicy(t, policy, uses)
  PROVE  Outcome(db, db')
<1> DEFINE u == db.tables[t]
           policies == Put(u.policies, policy, uses)
           w == [u EXCEPT !.policies = policies]
           e == [db EXCEPT !.tables[t] = w, !.schema_version = @ + 1]
<1>1. t \in DOMAIN db.tables /\ policy \notin DOMAIN u.policies /\ WellDefined(e) /\ db' = e
  BY DEF CreatePolicy, Commit, Ok
<1>2. /\ IsMap(policies) /\ DOMAIN policies = DOMAIN u.policies \cup {policy}
      /\ policies[policy] = uses
      /\ \A p \in DOMAIN u.policies : policies[p] = u.policies[p]
  BY <1>1 DEF Put, IsMap
<1> HIDE DEF policies
<1>3. TableFormed(u)
  BY <1>1 DEF CatalogSound, Formed
<1>4. /\ IsMap(w) /\ DOMAIN w = TableFields
      /\ w.id = u.id /\ w.columns = u.columns /\ w.primary_key = u.primary_key
      /\ w.unique = u.unique /\ w.deferred_unique = u.deferred_unique
      /\ w.foreign_keys = u.foreign_keys /\ w.checks = u.checks /\ w.policies = policies
  BY <1>3 DEF TableFormed, IsMap, TableFields
<1> HIDE DEF w
<1>5. e.tables[t] = w /\ t \in DOMAIN e.tables
  BY <1>1 DEF CatalogSound, Formed, IsMap, CatalogFields
<1>6. uses \subseteq DOMAIN w.columns
  <2>1. \A x \in ExpressionsOf(w) : x \subseteq DOMAIN w.columns
    BY <1>1, <1>5 DEF WellDefined
  <2>2. uses \in ExpressionsOf(w)
    BY <1>2, <1>4 DEF ExpressionsOf
  <2>3. QED
    BY <2>1, <2>2
<1>7. StandsAs(u, w)
  <2>1. \A p \in DOMAIN w.policies : w.policies[p] \subseteq DOMAIN w.columns
    BY <1>2, <1>3, <1>4, <1>6 DEF TableFormed
  <2>2. KeysOf(w) = KeysOf(u)
    BY <1>4 DEF KeysOf
  <2>3. TableFormed(w)
    BY <1>2, <1>3, <1>4, <2>1, <2>2 DEF TableFormed
  <2>4. QED
    BY <1>2, <1>4, <2>3 DEF StandsAs
<1>8. Stands(db, e, t)
  BY <1>1, <1>7, OneTableStands
<1>9. QED
  <2> HIDE DEF e
  <2>1. QED
    BY <1>1, <1>8, OutcomeOfStanding

LEMMA SetRowSecurityOutcome ==
  ASSUME CatalogSound(db), WellDefined(db), NEW t, NEW enabled, SetRowSecurity(t, enabled)
  PROVE  Outcome(db, db')
<1> DEFINE u == db.tables[t]
           w == [u EXCEPT !.rls_enabled = enabled]
           e == [db EXCEPT !.tables[t] = w, !.schema_version = @ + 1]
<1>1. t \in DOMAIN db.tables /\ WellDefined(e) /\ db' = e
  BY DEF SetRowSecurity, Commit, Ok
<1>2. TableFormed(u)
  BY <1>1 DEF CatalogSound, Formed
<1>3. /\ IsMap(w) /\ DOMAIN w = TableFields
      /\ w.id = u.id /\ w.columns = u.columns /\ w.primary_key = u.primary_key
      /\ w.unique = u.unique /\ w.deferred_unique = u.deferred_unique
      /\ w.foreign_keys = u.foreign_keys /\ w.policies = u.policies
  BY <1>2 DEF TableFormed, IsMap, TableFields
<1> HIDE DEF w
<1>4. StandsAs(u, w)
  <2>1. KeysOf(w) = KeysOf(u)
    BY <1>3 DEF KeysOf
  <2>2. QED
    BY <1>2, <1>3, <2>1 DEF TableFormed, StandsAs
<1>5. Stands(db, e, t)
  BY <1>1, <1>4, OneTableStands
<1>6. QED
  <2> HIDE DEF e
  <2>1. QED
    BY <1>1, <1>5, OutcomeOfStanding

(* Every statement of an administrator has its outcome.                    *)
LEMMA EveryStatement ==
  ASSUME CatalogSound(db), WellDefined(db), CatalogNext
  PROVE  Outcome(db, db')
<1>1. ASSUME NEW name \in Relation, NEW operations \in Alterations, AlterTable(name, operations)
      PROVE  Outcome(db, db')
  <2>1. operations \in Seq(Alteration)
    BY CatalogAssumption
  <2>2. /\ Evolves(db, db') /\ Versioned(db, db') /\ WellDefined(db')
        /\ LinksFrom(db.next_object_id, Links(db), db')
    BY <1>1, <2>1, AlterTableEvolves
  <2>3. QED
    BY <2>2, OutcomeOfEvolution
<1>2. ASSUME NEW name \in Relation, NEW definition \in Definitions, CreateTable(name, definition)
      PROVE  Outcome(db, db')
  BY <1>2, CreateTableOutcome, CatalogAssumption
<1>3. ASSUME NEW names, NEW if_exists, NEW cascade, DropTables(names, if_exists, cascade)
      PROVE  Outcome(db, db')
  <2> DEFINE r == drop_tables(db, names, if_exists, cascade)
  <2>1. r.ok /\ WellDefined(r.db) /\ db' = r.db
    BY <1>3 DEF DropTables, Commit
  <2>2. TablesGone(db, names, r.db)
    BY <2>1, DropTablesEffect
  <2> HIDE DEF r
  <2>3. Evolves(db, r.db) /\ Versioned(db, r.db) /\ LinksCarried(db, r.db)
    BY <2>2, TablesGoneEvolves
  <2>4. LinksFrom(db.next_object_id, Links(db), r.db)
    <3>1. LinksFrom(db.next_object_id, Links(db), db) /\ CatalogSound(r.db)
          /\ db.next_object_id \in Nat
      BY <2>3, LinksFromTheStart DEF Evolves, CatalogSound, Formed
    <3>2. QED
      BY <2>3, <3>1, LinksCarriedOn
  <2>5. QED
    BY <2>1, <2>3, <2>4, OutcomeOfEvolution
<1>4. ASSUME NEW names \in Seq(Relation), NEW if_exists, NEW cascade,
             DropViews(names, if_exists, cascade)
      PROVE  Outcome(db, db')
  <2>1. /\ Evolves(db, db') /\ Versioned(db, db') /\ WellDefined(db')
        /\ db'.tables = db.tables
    BY <1>4, DropViewsEvolves
  <2>2. LinksFrom(db.next_object_id, Links(db), db')
    <3>1. LinksFrom(db.next_object_id, Links(db), db)
      BY LinksFromTheStart
    <3>2. QED
      BY <2>1, <3>1 DEF LinksFrom, Referred, RefersTo, Link, ReferredColumn
  <2>3. QED
    BY <2>1, <2>2, OutcomeOfEvolution
<1>5. \A names \in SeqOf(Relation, 2) : names \in Seq(Relation)
  <2>1. ASSUME NEW m \in Nat, NEW names \in [1..m -> Relation] PROVE names \in Seq(Relation)
    BY SeqDef
  <2>2. SUFFICES ASSUME NEW names \in SeqOf(Relation, 2) PROVE names \in Seq(Relation)
    OBVIOUS
  <2>3. names \in UNION {[1..m -> Relation] : m \in 0..2}
    BY Zenon DEF SeqOf
  <2>4. PICK m \in 0..2 : names \in [1..m -> Relation]
    BY <2>3
  <2>5. QED
    BY <2>1, <2>4
<1>6. QED
  BY <1>1, <1>2, <1>3, <1>4, <1>5, CreateViewOutcome, CreatePolicyOutcome, SetRowSecurityOutcome,
     CreateFunctionOutcome DEF CatalogNext

(* The inductive invariant: one identifier for each table and column, and  *)
(* every name that a definition mentions is there.                         *)
CatalogWhole == CatalogSound(db) /\ WellDefined(db)

(* No statement, of however many operations, leaves a catalog behind in    *)
(* which a name dangles or two objects are one (validate_constraints and   *)
(* its callers).                                                           *)
THEOREM CatalogStaysWhole == CatalogSpec => []CatalogWhole
<1>1. CatalogInit => CatalogWhole
  BY InitialCatalogs DEF CatalogInit, CatalogWhole
<1>2. CatalogWhole /\ [CatalogNext]_db => CatalogWhole'
  <2>1. ASSUME CatalogWhole, CatalogNext PROVE CatalogWhole'
    BY <2>1, EveryStatement DEF CatalogWhole, Outcome
  <2>2. ASSUME CatalogWhole, db' = db PROVE CatalogWhole'
    BY <2>2 DEF CatalogWhole
  <2>3. QED
    BY <2>1, <2>2
<1>3. QED
  BY <1>1, <1>2, PTL DEF CatalogSpec

(* A step of the specification is a statement with its outcome, or none.   *)
LEMMA EveryStep ==
  ASSUME CatalogWhole, [CatalogNext]_db
  PROVE  db' = db \/ Outcome(db, db')
BY EveryStatement DEF CatalogWhole

(* A statement that changes anything in the catalog, any definition or the *)
(* row security of a table, moves the schema version (alter_table,         *)
(* drop_tables, policy_statement and the other statements of DDL).         *)
THEOREM VersionsTellOfSchemas == CatalogSpec => SchemaVersionTellsOfChange
<1>1. CatalogWhole /\ [CatalogNext]_db => [db'.schema_version > db.schema_version]_db
  BY EveryStep DEF Outcome, Versioned
<1>2. QED
  BY <1>1, CatalogStaysWhole, PTL DEF CatalogSpec, SchemaVersionTellsOfChange

(* A foreign key refers to the columns it was declared for, through any    *)
(* chain of renames, drops and additions; only one of a new column is new  *)
(* (alter_table, drop_tables).                                             *)
THEOREM LinksAreKept == CatalogSpec => LinksKeepTheirColumns
<1>1. CatalogWhole /\ [CatalogNext]_db
         => [\A link \in Links(db') \ Links(db) : link[1] >= db.next_object_id]_db
  BY EveryStep DEF Outcome, LinksKept
<1>2. QED
  BY <1>1, CatalogStaysWhole, PTL DEF CatalogSpec, LinksKeepTheirColumns

(* What a view, or the body of a function, is written about is neither     *)
(* renamed away nor dropped without it (remove_dependents and its          *)
(* callers); what a function returns may be.                               *)
THEOREM TextsKeepTheirRelations == CatalogSpec => DependentsStayBound
<1> DEFINE A == /\ \A v \in DOMAIN db.views \cap DOMAIN db'.views :
                      db'.views[v] = db.views[v] =>
                         \A name \in db.views[v] : Meaning(db, name) \subseteq Meaning(db', name)
                /\ \A f \in DOMAIN db.functions \cap DOMAIN db'.functions :
                      db'.functions[f].body = db.functions[f].body =>
                         \A name \in db.functions[f].body :
                             Meaning(db, name) \subseteq Meaning(db', name)
<1>1. ASSUME CatalogWhole, CatalogNext PROVE A
  <2>1. Outcome(db, db')
    BY <1>1, EveryStatement DEF CatalogWhole
  <2>2. TextsHeld(db.views, db'.views, db, db') /\ TextsHeld(Bodies(db), Bodies(db'), db, db')
    BY <2>1 DEF Outcome
  <2>3. ASSUME NEW f \in DOMAIN db.functions \cap DOMAIN db'.functions,
               db'.functions[f].body = db.functions[f].body, NEW name \in db.functions[f].body
        PROVE  Meaning(db, name) \subseteq Meaning(db', name)
    <3>1. f \in DOMAIN Bodies(db) /\ Bodies(db)[f] = db.functions[f].body
      BY DEF Bodies
    <3>2. f \in DOMAIN Bodies(db') /\ Bodies(db')[f] = db'.functions[f].body
      BY DEF Bodies
    <3>3. QED
      BY <2>2, <2>3, <3>1, <3>2 DEF TextsHeld
  <2>4. QED
    BY <2>2, <2>3 DEF TextsHeld
<1>2. CatalogWhole /\ [CatalogNext]_db => [A]_db
  BY <1>1
<1>3. QED
  BY <1>2, CatalogStaysWhole, PTL DEF CatalogSpec, DependentsStayBound

(* The policies of a table that lives on, and...                          *)
LEMMA PoliciesKept ==
  ASSUME NEW d, NEW e, CatalogSound(d), Succeeds(d, e),
         NEW t \in DOMAIN d.tables, NEW s \in DOMAIN e.tables, e.tables[s].id = d.tables[t].id
  PROVE  PoliciesHeld(d.tables[t], e.tables[s])
<1>1. d.next_object_id \in Nat /\ d.tables[t].id \in Nat /\ d.tables[t].id < d.next_object_id
  BY DEF CatalogSound, Formed, Identified
<1>2. ~ Fresh(e.tables[s], d.next_object_id)
  BY <1>1 DEF Fresh
<1>3. PICK u \in DOMAIN d.tables : Holds(d.tables[u], e.tables[s], d.next_object_id)
  BY <1>2 DEF Succeeds
<1>4. d.tables[u].id = d.tables[t].id
  BY <1>3 DEF Holds
<1>5. u = t
  BY <1>4 DEF CatalogSound, Identified
<1>6. QED
  BY <1>3, <1>5 DEF Holds

(* No policy is lifted from a table or made to speak of another column by  *)
(* renames and reused names; it goes with a column it speaks of            *)
(* (alter_table).                                                          *)
THEOREM PoliciesAreKept == CatalogSpec => PoliciesKeepTheirColumns
<1> DEFINE A == \A t \in DOMAIN db.tables : \A s \in DOMAIN db'.tables :
                   db'.tables[s].id = db.tables[t].id =>
                      \A p \in DOMAIN db.tables[t].policies :
                         IF p \in DOMAIN db'.tables[s].policies
                         THEN PolicyColumns(db'.tables[s], p) = PolicyColumns(db.tables[t], p)
                         ELSE \E c \in DOMAIN db.tables[t].columns :
                                 /\ c \in db.tables[t].policies[p]
                                 /\ \A e \in DOMAIN db'.tables[s].columns :
                                       db'.tables[s].columns[e] # db.tables[t].columns[c]
<1>1. ASSUME CatalogWhole, CatalogNext PROVE A
  <2>1. CatalogSound(db) /\ Succeeds(db, db')
    BY <1>1, EveryStatement DEF CatalogWhole, Outcome
  <2>2. ASSUME NEW t \in DOMAIN db.tables, NEW s \in DOMAIN db'.tables,
               db'.tables[s].id = db.tables[t].id
        PROVE  PoliciesHeld(db.tables[t], db'.tables[s])
    BY <2>1, <2>2, PoliciesKept
  <2>3. QED
    BY <2>2 DEF PoliciesHeld, PolicyLost
<1>2. CatalogWhole /\ [CatalogNext]_db => [A]_db
  BY <1>1
<1>3. QED
  BY <1>2, CatalogStaysWhole, PTL DEF CatalogSpec, PoliciesKeepTheirColumns

(* A key by the name and the table it has.                                 *)
LEMMA KeysByName ==
  ASSUME NEW d, CatalogSound(d), NEW key
  PROVE  /\ key \in Keys(d) <=>
              \E t \in DOMAIN d.tables : \E c \in KeysOf(d.tables[t]) :
                  key = d.tables[t].columns[c]
         /\ \A t \in DOMAIN d.tables : \A c \in KeysOf(d.tables[t]) :
              key = d.tables[t].columns[c] =>
                 (key \in DeferredKeys(d) <=> c \in d.tables[t].deferred_unique)
<1>1. ASSUME NEW t \in DOMAIN d.tables, NEW c \in KeysOf(d.tables[t])
      PROVE  d.tables[t].columns[c] \in Keys(d)
  <2>1. <<t, c>> \in UNION {{x} \X KeysOf(d.tables[x]) : x \in DOMAIN d.tables}
    OBVIOUS
  <2>2. d.tables[<<t, c>>[1]].columns[<<t, c>>[2]] \in Keys(d)
    BY <2>1 DEF Keys
  <2>3. QED
    BY <2>2
<1>2. ASSUME key \in Keys(d)
      PROVE  \E t \in DOMAIN d.tables : \E c \in KeysOf(d.tables[t]) : key = d.tables[t].columns[c]
  <2>1. PICK x \in UNION {{t} \X KeysOf(d.tables[t]) : t \in DOMAIN d.tables} :
           key = d.tables[x[1]].columns[x[2]]
    BY <1>2 DEF Keys
  <2>2. QED
    BY <2>1
<1>3. ASSUME NEW t \in DOMAIN d.tables, NEW c \in KeysOf(d.tables[t]),
             key = d.tables[t].columns[c], c \in d.tables[t].deferred_unique
      PROVE  key \in DeferredKeys(d)
  <2>1. <<t, c>> \in UNION {{x} \X (d.tables[x].deferred_unique \cap KeysOf(d.tables[x])) :
                              x \in DOMAIN d.tables}
    BY <1>3
  <2>2. d.tables[<<t, c>>[1]].columns[<<t, c>>[2]] \in DeferredKeys(d)
    BY <2>1 DEF DeferredKeys
  <2>3. QED
    BY <1>3, <2>2
<1>4. ASSUME NEW t \in DOMAIN d.tables, NEW c \in KeysOf(d.tables[t]),
             key = d.tables[t].columns[c], key \in DeferredKeys(d)
      PROVE  c \in d.tables[t].deferred_unique
  <2>1. PICK x \in UNION {{y} \X (d.tables[y].deferred_unique \cap KeysOf(d.tables[y])) :
                            y \in DOMAIN d.tables} : key = d.tables[x[1]].columns[x[2]]
    BY <1>4 DEF DeferredKeys
  <2>2. /\ x[1] \in DOMAIN d.tables
        /\ x[2] \in d.tables[x[1]].deferred_unique /\ x[2] \in KeysOf(d.tables[x[1]])
    OBVIOUS
  <2>3. c \in DOMAIN d.tables[t].columns /\ x[2] \in DOMAIN d.tables[x[1]].columns
    BY <2>2 DEF CatalogSound, Formed, TableFormed
  <2>4. d.tables[t].columns[c] = d.tables[x[1]].columns[x[2]]
    BY <1>4, <2>1
  <2>5. \A y, z \in DOMAIN d.tables :
           \A j \in DOMAIN d.tables[y].columns, k \in DOMAIN d.tables[z].columns :
               d.tables[y].columns[j] = d.tables[z].columns[k] => y = z /\ j = k
    BY DEF CatalogSound, Identified
  <2>6. t = x[1] /\ c = x[2]
    BY <2>2, <2>3, <2>4, <2>5
  <2>7. QED
    BY <2>2, <2>6
<1>5. QED
  BY <1>1, <1>2, <1>3, <1>4

(* ... when the keys of a column that lives on are checked.                *)
LEMMA TimingKept ==
  ASSUME NEW d, NEW e, CatalogSound(d), CatalogSound(e), Succeeds(d, e),
         NEW key \in Keys(d), key \in Keys(e)
  PROVE  key \in DeferredKeys(d) <=> key \in DeferredKeys(e)
<1> PICK t \in DOMAIN d.tables : \E c \in KeysOf(d.tables[t]) : key = d.tables[t].columns[c]
  BY KeysByName
<1>1. PICK c \in KeysOf(d.tables[t]) : key = d.tables[t].columns[c]
  OBVIOUS
<1> PICK s \in DOMAIN e.tables : \E f \in KeysOf(e.tables[s]) : key = e.tables[s].columns[f]
  BY KeysByName
<1>2. PICK f \in KeysOf(e.tables[s]) : key = e.tables[s].columns[f]
  OBVIOUS
<1>3. c \in DOMAIN d.tables[t].columns /\ f \in DOMAIN e.tables[s].columns
  BY DEF CatalogSound, Formed, TableFormed
<1>4. d.next_object_id \in Nat /\ key \in Nat /\ key < d.next_object_id
  BY <1>1, <1>3 DEF CatalogSound, Formed, Identified
<1>5. ~ Fresh(e.tables[s], d.next_object_id)
  BY <1>2, <1>3, <1>4 DEF Fresh
<1>6. PICK u \in DOMAIN d.tables : Holds(d.tables[u], e.tables[s], d.next_object_id)
  BY <1>5 DEF Succeeds
<1>7. PICK g \in DOMAIN d.tables[u].columns : SameColumn(d.tables[u], g, e.tables[s], f)
  BY <1>2, <1>3, <1>4, <1>6 DEF Holds, ColumnsHeld
<1>8. u = t /\ g = c
  <2>1. d.tables[u].columns[g] = d.tables[t].columns[c]
    BY <1>1, <1>2, <1>7 DEF SameColumn
  <2>2. QED
    BY <1>3, <2>1 DEF CatalogSound, Identified
<1>9. c \in d.tables[t].deferred_unique <=> f \in e.tables[s].deferred_unique
  BY <1>7, <1>8 DEF SameColumn
<1>10. QED
  BY <1>1, <1>2, <1>9, KeysByName

(* A key that lives on is checked when it always was, under whatever name  *)
(* (deferred_statement, alter_table).                                      *)
THEOREM TimingIsKept == CatalogSpec => KeysKeepTheirTiming
<1> DEFINE A == \A key \in Keys(db) \cap Keys(db') :
                   key \in DeferredKeys(db) <=> key \in DeferredKeys(db')
<1>1. ASSUME CatalogWhole, CatalogNext PROVE A
  <2>1. CatalogSound(db) /\ CatalogSound(db') /\ Succeeds(db, db')
    BY <1>1, EveryStatement DEF CatalogWhole, Outcome
  <2>2. QED
    BY <2>1, TimingKept
<1>2. CatalogWhole /\ [CatalogNext]_db => [A]_db
  BY <1>1
<1>3. QED
  BY <1>2, CatalogStaysWhole, PTL DEF CatalogSpec, KeysKeepTheirTiming
=============================================================================
