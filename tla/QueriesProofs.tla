---------------------------- MODULE QueriesProofs ----------------------------
(* What readers are answered, for any database, any queries and requests,  *)
(* texts and embeds of any depth and any limit on nesting.  The first part *)
(* is about the recursive functions of Queries and Rest: that they exist,  *)
(* what a step of them is, and that they keep to their types.              *)
EXTENDS Rest, SqlEngineProofs

(* The recursive functions of the model.  Those over texts go n steps deep:*)
(* what they are at 0, and one step.  Those over sequences are loops.      *)
Args(loop) ==
    CASE loop.over = "visits" -> Visits
      [] loop.over = "evaluated" -> Readings(loop.tables)
      [] loop.over = "meant" -> Readings(loop.tables)
      [] loop.over = "mentioned" -> Texts
      [] loop.over = "searched" -> Searches
      [] loop.over = "embedded" -> [table: Names, row: Nat, spec: Specs]

Registered(tables) == [name \in Names |-> IF name \in tables THEN <<name>> ELSE Absent]

EvaluateStep(tables, reading, inner) ==
    IF Shadows(reading.query, reading.env) THEN Absent
    ELSE Read(reading.query, reading.env, Registered(tables), inner)

MeaningStep(views, tables, reading, inner) ==
    Read(reading.query, reading.env, [name \in Names |-> MeaningOf(name, views, tables, inner)], inner)

MentionStep(query, inner) ==
    FlattenSeq([i \in DOMAIN query.with |-> inner[query.with[i].query]])
    \o FlattenSeq([i \in DOMAIN query.from |->
          IF query.from[i].kind = "query" THEN inner[query.from[i].query]
          ELSE <<query.from[i].name>>])

Level(loop, arg, inner) ==
    CASE loop.over = "visits" -> NormalizeQuery(loop.views, loop.tables, arg, inner)
      [] loop.over = "evaluated" -> EvaluateStep(loop.tables, arg, inner)
      [] loop.over = "meant" -> MeaningStep(loop.views, loop.tables, arg, inner)
      [] loop.over = "mentioned" -> MentionStep(arg, inner)
      [] loop.over = "searched" -> DependAll(loop.views, arg, inner)
      [] loop.over = "embedded" -> Embed(loop.db, arg, loop.filters, loop.context, inner)

Round(loop, acc, i) ==
    CASE loop.over = "texts" -> [with: Seq([name: Names, query: acc]), from: Seq(Sources(acc))]
      [] loop.over = "specs" -> [alias: Names, target: Names, hint: {Absent} \cup STRING,
                                 inner: BOOLEAN, nested: Seq(acc)]
      [] loop.over = "with" -> Declare(acc, loop.with[i], loop.inner)
      [] loop.over = "names" -> Depend(loop.views, loop.path, acc, loop.names[i], loop.inner)
      [] loop.over = "needed" -> Compute(acc, loop.views, loop.context, loop.names[i])
      [] loop.over = "parts" -> IF i = 1 THEN loop.parts[i] ELSE acc \o loop.parts[i]
      [] OTHER -> [arg \in Args(loop) |-> Level(loop, arg, acc)]

Rounds(g, n, loop, start) ==
    g = [i \in 0..n |-> IF i = 0 THEN start ELSE Round(loop, g[i - 1], i)]

LEMMA RoundsExist ==
  ASSUME NEW start, NEW loop, NEW n \in Nat
  PROVE  \E g : Rounds(g, n, loop, start)
<1> DEFINE T == {k \in Nat : \E g : Rounds(g, k, loop, start)}
<1>1. 0 \in T
  <2> DEFINE g == [i \in 0..0 |-> start]
  <2>1. Rounds(g, 0, loop, start)
    BY DEF Rounds
  <2>2. QED
    BY <2>1
<1>2. ASSUME NEW k \in T PROVE k + 1 \in T
  <2>1. PICK g : Rounds(g, k, loop, start)
    OBVIOUS
  <2> DEFINE h == [i \in 0..k + 1 |-> IF i = k + 1 THEN Round(loop, g[k], i) ELSE g[i]]
             body(i) == IF i = 0 THEN start ELSE Round(loop, h[i - 1], i)
  <2>2. ASSUME NEW i \in 0..k + 1 PROVE h[i] = body(i)
    <3>1. CASE i = k + 1
      <4>1. i # 0 /\ i - 1 = k /\ h[i - 1] = g[k]
        BY <3>1
      <4>2. h[i] = Round(loop, g[k], i)
        BY <3>1
      <4> HIDE DEF h
      <4>3. QED
        BY <4>1, <4>2
    <3>2. CASE i # k + 1
      <4>1. i \in 0..k /\ h[i] = g[i]
        BY <3>2
      <4>2. i # 0 => h[i - 1] = g[i - 1]
        BY <3>2
      <4>3. g[i] = IF i = 0 THEN start ELSE Round(loop, g[i - 1], i)
        BY <2>1, <4>1 DEF Rounds
      <4> HIDE DEF h
      <4>4. QED
        BY <4>1, <4>2, <4>3
    <3>3. QED
      BY <3>1, <3>2
  <2>3. h = [i \in 0..k + 1 |-> h[i]]
    OBVIOUS
  <2>4. [i \in 0..k + 1 |-> h[i]] = [i \in 0..k + 1 |-> body(i)]
    <3> HIDE DEF h
    <3>1. QED
      BY <2>2
  <2>5. Rounds(h, k + 1, loop, start)
    <3> HIDE DEF h
    <3>1. QED
      BY <2>3, <2>4 DEF Rounds
  <2>6. QED
    BY <2>5
<1>3. T = Nat
  <2> HIDE DEF T
  <2>1. T \in SUBSET Nat
    BY DEF T
  <2>2. QED
    BY <1>1, <1>2, <2>1, Induction
<1>4. QED
  BY <1>3

(* n steps deep, for a value at 0.                                         *)
Levels(g, n, loop, base) ==
    g = [i \in 0..n |-> [arg \in Args(loop) |-> IF i = 0 THEN base ELSE Level(loop, arg, g[i - 1])]]

LevelLoops == {"visits", "evaluated", "meant", "mentioned", "searched", "embedded"}

LEMMA LevelsExist ==
  ASSUME NEW loop, loop.over \in LevelLoops, NEW n \in Nat, NEW base
  PROVE  \E g : Levels(g, n, loop, base)
<1> DEFINE start == [arg \in Args(loop) |-> base]
<1>1. PICK g : Rounds(g, n, loop, start)
  BY RoundsExist
<1>2. \A acc, i : Round(loop, acc, i) = [arg \in Args(loop) |-> Level(loop, arg, acc)]
  BY DEF Round, LevelLoops
<1> DEFINE level(i) == [arg \in Args(loop) |-> IF i = 0 THEN base ELSE Level(loop, arg, g[i - 1])]
           round(i) == IF i = 0 THEN start ELSE Round(loop, g[i - 1], i)
<1>3. \A i \in 0..n : level(i) = round(i)
  <2> SUFFICES ASSUME NEW i \in 0..n PROVE level(i) = round(i)
    OBVIOUS
  <2>1. CASE i = 0
    BY <2>1
  <2>2. CASE i # 0
    <3>1. round(i) = [arg \in Args(loop) |-> Level(loop, arg, g[i - 1])]
      BY <1>2, <2>2
    <3>2. level(i) = [arg \in Args(loop) |-> Level(loop, arg, g[i - 1])]
      BY <2>2
    <3>3. QED
      BY <3>1, <3>2
  <2>3. QED
    BY <2>1, <2>2
<1>4. g = [i \in 0..n |-> round(i)]
  BY <1>1 DEF Rounds
<1> HIDE DEF level, round
<1>5. g = [i \in 0..n |-> level(i)]
  BY <1>3, <1>4
<1>6. Levels(g, n, loop, base)
  BY <1>5 DEF Levels, level
<1>7. QED
  BY <1>6

(* What Levels says, point by point.                                       *)
LEMMA LevelsStep ==
  ASSUME NEW g, NEW n \in Nat, NEW loop, NEW base, Levels(g, n, loop, base)
  PROVE  /\ \A arg \in Args(loop) : g[0][arg] = base
         /\ \A i \in 0..n : i # 0 => \A arg \in Args(loop) : g[i][arg] = Level(loop, arg, g[i - 1])
<1>1. \A i \in 0..n : g[i] = [arg \in Args(loop) |-> IF i = 0 THEN base ELSE Level(loop, arg, g[i - 1])]
  BY DEF Levels
<1>2. 0 \in 0..n
  OBVIOUS
<1>3. QED
  BY <1>1, <1>2

----------------------------------------------------------------------------
VisitsLoop(views, tables) == [over |-> "visits", views |-> views, tables |-> tables]

LEMMA MaxVisitsType == MaxVisits \in Nat
BY QueriesAssumption DEF MaxVisits

LEMMA NormalizationSteps ==
  ASSUME NEW views, NEW tables
  PROVE  /\ \A visit \in Visits : Normalization(views, tables)[0][visit] = Rejected
         /\ \A n \in 0..MaxVisits : n # 0 => \A visit \in Visits :
               Normalization(views, tables)[n][visit] =
                 NormalizeQuery(views, tables, visit, Normalization(views, tables)[n - 1])
<1> DEFINE loop == VisitsLoop(views, tables)
           f == CHOOSE f : f = [n \in 0..MaxVisits |-> [visit \in Visits |->
                   IF n = 0 THEN Rejected ELSE NormalizeQuery(views, tables, visit, f[n - 1])]]
<1>1. /\ Args(loop) = Visits /\ loop.over \in LevelLoops
      /\ \A arg, inner : Level(loop, arg, inner) = NormalizeQuery(views, tables, arg, inner)
  BY DEF Args, Level, LevelLoops, VisitsLoop
<1> HIDE DEF loop
<1>2. \A g : Levels(g, MaxVisits, loop, Rejected) <=>
              g = [n \in 0..MaxVisits |-> [visit \in Visits |->
                   IF n = 0 THEN Rejected ELSE NormalizeQuery(views, tables, visit, g[n - 1])]]
  BY <1>1 DEF Levels
<1>3. \E g : Levels(g, MaxVisits, loop, Rejected)
  BY <1>1, LevelsExist, MaxVisitsType
<1>4. Levels(f, MaxVisits, loop, Rejected)
  BY <1>2, <1>3
<1>5. Normalization(views, tables) = f
  BY DEF Normalization
<1> HIDE DEF f
<1>6. QED
  BY ZenonT(60), <1>1, <1>4, <1>5, LevelsStep, MaxVisitsType

TablesLoop(over, views, tables) == [over |-> over, views |-> views, tables |-> tables]

LEMMA EvaluationSteps ==
  ASSUME NEW tables
  PROVE  /\ \A reading \in Readings(tables) : Evaluation(tables)[0][reading] = Absent
         /\ \A n \in 0..MaxText : n # 0 => \A reading \in Readings(tables) :
               Evaluation(tables)[n][reading] = EvaluateStep(tables, reading, Evaluation(tables)[n - 1])
<1> DEFINE loop == TablesLoop("evaluated", {}, tables)
           f == CHOOSE f : f = [n \in 0..MaxText |-> [reading \in Readings(tables) |->
                   IF n = 0 \/ Shadows(reading.query, reading.env) THEN Absent
                   ELSE Read(reading.query, reading.env, Registered(tables), f[n - 1])]]
<1>1. /\ Args(loop) = Readings(tables) /\ loop.over \in LevelLoops
      /\ \A arg, inner : Level(loop, arg, inner) = EvaluateStep(tables, arg, inner)
  BY DEF Args, Level, LevelLoops, TablesLoop
<1>2. MaxText \in Nat
  BY QueriesAssumption
<1> HIDE DEF loop
<1>3. ASSUME NEW g
      PROVE  Levels(g, MaxText, loop, Absent) <=>
              g = [n \in 0..MaxText |-> [reading \in Readings(tables) |->
                   IF n = 0 \/ Shadows(reading.query, reading.env) THEN Absent
                   ELSE Read(reading.query, reading.env, Registered(tables), g[n - 1])]]
  <2> DEFINE a(n, reading) == IF n = 0 THEN Absent ELSE Level(loop, reading, g[n - 1])
             b(n, reading) == IF n = 0 \/ Shadows(reading.query, reading.env) THEN Absent
                              ELSE Read(reading.query, reading.env, Registered(tables), g[n - 1])
             c(n) == [reading \in Readings(tables) |-> a(n, reading)]
             e(n) == [reading \in Readings(tables) |-> b(n, reading)]
  <2>1. \A n, reading : a(n, reading) = b(n, reading)
    BY <1>1 DEF EvaluateStep
  <2> HIDE DEF a, b
  <2>2. \A n : c(n) = e(n)
    BY <2>1
  <2>3. Levels(g, MaxText, loop, Absent) <=> g = [n \in 0..MaxText |-> c(n)]
    BY <1>1 DEF Levels, a
  <2> HIDE DEF c, e
  <2>4. Levels(g, MaxText, loop, Absent) <=> g = [n \in 0..MaxText |-> e(n)]
    BY <2>2, <2>3
  <2>5. QED
    BY <2>4 DEF e, b
<1>4. \E g : Levels(g, MaxText, loop, Absent)
  BY <1>1, <1>2, LevelsExist
<1>5. Levels(f, MaxText, loop, Absent)
  BY <1>3, <1>4
<1>6. Evaluation(tables) = f
  BY DEF Evaluation, Registered
<1> HIDE DEF f
<1>7. /\ \A arg \in Args(loop) : f[0][arg] = Absent
      /\ \A i \in 0..MaxText : i # 0 => \A arg \in Args(loop) : f[i][arg] = Level(loop, arg, f[i - 1])
  BY <1>1, <1>2, <1>5, <1>6, LevelsStep
<1>8. QED
  BY <1>1, <1>6, <1>7

LEMMA MeaningSteps ==
  ASSUME NEW views, NEW tables, NEW depth \in Nat
  PROVE  LET M == Meanings(views, tables, depth)
         IN  /\ \A reading \in Readings(tables) : M[0][reading] = Absent
             /\ \A n \in 0..depth : n # 0 => \A reading \in Readings(tables) :
                   M[n][reading] = MeaningStep(views, tables, reading, M[n - 1])
<1> DEFINE loop == TablesLoop("meant", views, tables)
           f == CHOOSE f : f = [n \in 0..depth |-> [reading \in Readings(tables) |->
                   IF n = 0 THEN Absent
                   ELSE Read(reading.query, reading.env,
                             [name \in Names |-> MeaningOf(name, views, tables, f[n - 1])], f[n - 1])]]
<1>1. /\ Args(loop) = Readings(tables) /\ loop.over \in LevelLoops
      /\ \A arg, inner : Level(loop, arg, inner) = MeaningStep(views, tables, arg, inner)
  BY DEF Args, Level, LevelLoops, TablesLoop
<1> HIDE DEF loop
<1>2. ASSUME NEW g
      PROVE  Levels(g, depth, loop, Absent) <=>
              g = [n \in 0..depth |-> [reading \in Readings(tables) |->
                   IF n = 0 THEN Absent
                   ELSE Read(reading.query, reading.env,
                             [name \in Names |-> MeaningOf(name, views, tables, g[n - 1])], g[n - 1])]]
  <2> DEFINE a(n, reading) == IF n = 0 THEN Absent ELSE Level(loop, reading, g[n - 1])
             b(n, reading) == IF n = 0 THEN Absent
                              ELSE Read(reading.query, reading.env,
                                        [name \in Names |-> MeaningOf(name, views, tables, g[n - 1])],
                                        g[n - 1])
             c(n) == [reading \in Readings(tables) |-> a(n, reading)]
             e(n) == [reading \in Readings(tables) |-> b(n, reading)]
  <2>1. \A n, reading : a(n, reading) = b(n, reading)
    BY <1>1 DEF MeaningStep
  <2> HIDE DEF a, b
  <2>2. \A n : c(n) = e(n)
    BY <2>1
  <2>3. Levels(g, depth, loop, Absent) <=> g = [n \in 0..depth |-> c(n)]
    BY <1>1 DEF Levels, a
  <2> HIDE DEF c, e
  <2>4. Levels(g, depth, loop, Absent) <=> g = [n \in 0..depth |-> e(n)]
    BY <2>2, <2>3
  <2>5. QED
    BY <2>4 DEF e, b
<1>3. \E g : Levels(g, depth, loop, Absent)
  BY <1>1, LevelsExist
<1>4. Levels(f, depth, loop, Absent)
  BY <1>2, <1>3
<1>5. Meanings(views, tables, depth) = f
  BY DEF Meanings
<1> HIDE DEF f
<1>6. /\ \A arg \in Args(loop) : f[0][arg] = Absent
      /\ \A i \in 0..depth : i # 0 => \A arg \in Args(loop) : f[i][arg] = Level(loop, arg, f[i - 1])
  BY ZenonT(30), <1>1, <1>4, <1>5, LevelsStep
<1>7. QED
  BY <1>1, <1>5, <1>6

LEMMA MentionedSteps ==
  /\ \A query \in Texts : Mentioned[0][query] = <<>>
  /\ \A n \in 0..MaxText : n # 0 => \A query \in Texts :
        Mentioned[n][query] = MentionStep(query, Mentioned[n - 1])
<1> DEFINE loop == [over |-> "mentioned"]
           f == CHOOSE f : f = [n \in 0..MaxText |-> [query \in Texts |->
                   IF n = 0 THEN <<>>
                   ELSE FlattenSeq([i \in DOMAIN query.with |-> f[n - 1][query.with[i].query]])
                        \o FlattenSeq([i \in DOMAIN query.from |->
                             IF query.from[i].kind = "query" THEN f[n - 1][query.from[i].query]
                             ELSE <<query.from[i].name>>])]]
<1>1. /\ Args(loop) = Texts /\ loop.over \in LevelLoops
      /\ \A arg, inner : Level(loop, arg, inner) = MentionStep(arg, inner)
  BY DEF Args, Level, LevelLoops
<1>2. MaxText \in Nat
  BY QueriesAssumption
<1> HIDE DEF loop
<1>3. ASSUME NEW g
      PROVE  Levels(g, MaxText, loop, <<>>) <=>
              g = [n \in 0..MaxText |-> [query \in Texts |->
                   IF n = 0 THEN <<>>
                   ELSE FlattenSeq([i \in DOMAIN query.with |-> g[n - 1][query.with[i].query]])
                        \o FlattenSeq([i \in DOMAIN query.from |->
                             IF query.from[i].kind = "query" THEN g[n - 1][query.from[i].query]
                             ELSE <<query.from[i].name>>])]]
  <2> DEFINE a(n, query) == IF n = 0 THEN <<>> ELSE Level(loop, query, g[n - 1])
             b(n, query) == IF n = 0 THEN <<>>
                            ELSE FlattenSeq([i \in DOMAIN query.with |->
                                                g[n - 1][query.with[i].query]])
                                 \o FlattenSeq([i \in DOMAIN query.from |->
                                      IF query.from[i].kind = "query"
                                      THEN g[n - 1][query.from[i].query]
                                      ELSE <<query.from[i].name>>])
             c(n) == [query \in Texts |-> a(n, query)]
             e(n) == [query \in Texts |-> b(n, query)]
  <2>1. \A n, query : a(n, query) = b(n, query)
    BY <1>1 DEF MentionStep
  <2> HIDE DEF a, b
  <2>2. \A n : c(n) = e(n)
    BY <2>1
  <2>3. Levels(g, MaxText, loop, <<>>) <=> g = [n \in 0..MaxText |-> c(n)]
    BY <1>1 DEF Levels, a
  <2> HIDE DEF c, e
  <2>4. Levels(g, MaxText, loop, <<>>) <=> g = [n \in 0..MaxText |-> e(n)]
    BY <2>2, <2>3
  <2>5. QED
    BY <2>4 DEF e, b
<1>4. \E g : Levels(g, MaxText, loop, <<>>)
  BY <1>1, <1>2, LevelsExist
<1>5. Levels(f, MaxText, loop, <<>>)
  BY <1>3, <1>4
<1>6. Mentioned = f
  BY DEF Mentioned
<1> HIDE DEF f
<1>7. /\ \A arg \in Args(loop) : f[0][arg] = <<>>
      /\ \A i \in 0..MaxText : i # 0 => \A arg \in Args(loop) : f[i][arg] = Level(loop, arg, f[i - 1])
  BY <1>1, <1>2, <1>5, <1>6, LevelsStep
<1>8. QED
  BY <1>1, <1>6, <1>7

LEMMA DependencySteps ==
  ASSUME NEW views, NEW query
  PROVE  \E g : /\ \A search \in Searches : g[0][search] = Found(FALSE, <<>>)
                /\ \A n \in 0..(MaxNesting + 2) : n # 0 => \A search \in Searches :
                      g[n][search] = DependAll(views, search, g[n - 1])
                /\ dependencies(views, query) = g[MaxNesting + 2][Search(query, {}, Found(TRUE, <<>>))]
<1> DEFINE loop == TablesLoop("searched", views, {})
           m == MaxNesting + 2
           nothing == Found(FALSE, <<>>)
           f == CHOOSE f : f = [n \in 0..(MaxNesting + 2) |-> [search \in Searches |->
                   IF n = 0 THEN Found(FALSE, <<>>) ELSE DependAll(views, search, f[n - 1])]]
<1>1. /\ Args(loop) = Searches /\ loop.over \in LevelLoops
      /\ \A arg, inner : Level(loop, arg, inner) = DependAll(views, arg, inner)
  BY DEF Args, Level, LevelLoops, TablesLoop
<1>2. m \in Nat
  BY QueriesAssumption
<1> HIDE DEF loop
<1>3. ASSUME NEW g
      PROVE  Levels(g, m, loop, nothing) <=>
              g = [n \in 0..(MaxNesting + 2) |-> [search \in Searches |->
                   IF n = 0 THEN Found(FALSE, <<>>) ELSE DependAll(views, search, g[n - 1])]]
  <2> DEFINE a(n, search) == IF n = 0 THEN nothing ELSE Level(loop, search, g[n - 1])
             b(n, search) == IF n = 0 THEN Found(FALSE, <<>>)
                             ELSE DependAll(views, search, g[n - 1])
             c(n) == [search \in Searches |-> a(n, search)]
             e(n) == [search \in Searches |-> b(n, search)]
  <2>1. \A n, search : a(n, search) = b(n, search)
    BY <1>1
  <2> HIDE DEF a, b
  <2>2. \A n : c(n) = e(n)
    BY <2>1
  <2>3. Levels(g, m, loop, nothing) <=> g = [n \in 0..m |-> c(n)]
    BY <1>1 DEF Levels, a
  <2> HIDE DEF c, e
  <2>4. Levels(g, m, loop, nothing) <=> g = [n \in 0..m |-> e(n)]
    BY <2>2, <2>3
  <2>5. QED
    BY <2>4 DEF e, b
<1>4. \E g : Levels(g, m, loop, nothing)
  BY <1>1, <1>2, LevelsExist
<1>5. Levels(f, m, loop, nothing)
  BY <1>3, <1>4
<1>6. dependencies(views, query) = f[m][Search(query, {}, Found(TRUE, <<>>))]
  BY DEF dependencies
<1> HIDE DEF f, nothing
<1>7. /\ \A arg \in Args(loop) : f[0][arg] = nothing
      /\ \A i \in 0..m : i # 0 => \A arg \in Args(loop) : f[i][arg] = Level(loop, arg, f[i - 1])
  <2> HIDE DEF m
  <2>1. QED
    BY <1>2, <1>5, LevelsStep
<1>8. QED
  BY <1>1, <1>6, <1>7 DEF nothing

Places == [table: Names, row: Nat, spec: Specs]
EmbeddedLoop(d, filters, context) ==
    [over |-> "embedded", db |-> d, filters |-> filters, context |-> context]

LEMMA EmbeddingSteps ==
  ASSUME NEW d, NEW filters, NEW context
  PROVE  LET E == Embedding(d, filters, context)
         IN  /\ \A place \in Places : E[0][place] = NoAnswer
             /\ \A n \in 0..MaxText : n # 0 => \A place \in Places :
                   E[n][place] = Embed(d, place, filters, context, E[n - 1])
<1> DEFINE loop == EmbeddedLoop(d, filters, context)
           f == CHOOSE f : f = [n \in 0..MaxText |-> [place \in [table: Names, row: Nat, spec: Specs] |->
                   IF n = 0 THEN NoAnswer ELSE Embed(d, place, filters, context, f[n - 1])]]
<1>1. /\ Args(loop) = Places /\ loop.over \in LevelLoops
      /\ \A arg, inner : Level(loop, arg, inner) = Embed(d, arg, filters, context, inner)
  BY DEF Args, Level, LevelLoops, EmbeddedLoop, Places
<1>2. MaxText \in Nat
  BY QueriesAssumption
<1> HIDE DEF loop
<1>3. ASSUME NEW g
      PROVE  Levels(g, MaxText, loop, NoAnswer) <=>
              g = [n \in 0..MaxText |-> [place \in [table: Names, row: Nat, spec: Specs] |->
                   IF n = 0 THEN NoAnswer ELSE Embed(d, place, filters, context, g[n - 1])]]
  BY <1>1 DEF Levels, Places
<1>4. \E g : Levels(g, MaxText, loop, NoAnswer)
  BY <1>1, <1>2, LevelsExist
<1>5. Levels(f, MaxText, loop, NoAnswer)
  BY <1>3, <1>4
<1>6. Embedding(d, filters, context) = f
  BY DEF Embedding
<1> HIDE DEF f
<1>7. QED
  BY ZenonT(60), <1>1, <1>2, <1>5, <1>6, LevelsStep

(* What Rounds says, point by point.                                       *)
LEMMA RoundsStep ==
  ASSUME NEW g, NEW n \in Nat, NEW loop, NEW start, Rounds(g, n, loop, start)
  PROVE  g[0] = start /\ \A i \in 1..n : g[i] = Round(loop, g[i - 1], i)
<1>1. \A i \in 0..n : g[i] = IF i = 0 THEN start ELSE Round(loop, g[i - 1], i)
  BY DEF Rounds
<1>2. QED
  BY <1>1

WithLoop(with, inner) == [over |-> "with", with |-> with, inner |-> inner]

LEMMA ScopesSteps ==
  ASSUME NEW with, Len(with) \in Nat, NEW env, NEW inner
  PROVE  /\ Scopes(with, env, inner)[0] = env
         /\ \A i \in 1..Len(with) :
               Scopes(with, env, inner)[i] = Declare(Scopes(with, env, inner)[i - 1], with[i], inner)
<1> DEFINE loop == WithLoop(with, inner)
           n == Len(with)
           f == CHOOSE f : f = [i \in 0..n |-> IF i = 0 THEN env ELSE Declare(f[i - 1], with[i], inner)]
<1>1. \A acc, i : Round(loop, acc, i) = Declare(acc, with[i], inner)
  BY DEF Round, WithLoop
<1> HIDE DEF loop
<1>2. \A g : Rounds(g, n, loop, env) <=>
               g = [i \in 0..n |-> IF i = 0 THEN env ELSE Declare(g[i - 1], with[i], inner)]
  BY <1>1 DEF Rounds
<1>3. \E g : Rounds(g, n, loop, env)
  BY RoundsExist
<1>4. Rounds(f, n, loop, env)
  BY <1>2, <1>3
<1>5. Scopes(with, env, inner) = f
  BY DEF Scopes
<1> HIDE DEF f
<1>6. f[0] = env /\ \A i \in 1..n : f[i] = Round(loop, f[i - 1], i)
  BY <1>4, RoundsStep
<1>7. QED
  BY <1>1, <1>5, <1>6

NamesLoop(views, path, names, inner) ==
    [over |-> "names", views |-> views, path |-> path, names |-> names, inner |-> inner]

LEMMA DependAllSteps ==
  ASSUME NEW views, NEW search, NEW inner, Len(Mentioned[MaxText][search.query]) \in Nat
  PROVE  LET names == Mentioned[MaxText][search.query]
         IN  \E g : /\ g[0] = search.found
                    /\ \A i \in 1..Len(names) :
                          g[i] = Depend(views, search.path, g[i - 1], names[i], inner)
                    /\ DependAll(views, search, inner) = g[Len(names)]
<1> DEFINE names == Mentioned[MaxText][search.query]
           n == Len(names)
           loop == NamesLoop(views, search.path, names, inner)
           f == CHOOSE f : f = [i \in 0..n |-> IF i = 0 THEN search.found
                                ELSE Depend(views, search.path, f[i - 1], names[i], inner)]
<1>1. \A acc, i : Round(loop, acc, i) = Depend(views, search.path, acc, names[i], inner)
  BY DEF Round, NamesLoop
<1> HIDE DEF loop
<1>2. \A g : Rounds(g, n, loop, search.found) <=>
               g = [i \in 0..n |-> IF i = 0 THEN search.found
                                   ELSE Depend(views, search.path, g[i - 1], names[i], inner)]
  BY <1>1 DEF Rounds
<1>3. \E g : Rounds(g, n, loop, search.found)
  BY RoundsExist
<1>4. Rounds(f, n, loop, search.found)
  BY <1>2, <1>3
<1>5. DependAll(views, search, inner) = f[n]
  BY DEF DependAll
<1> HIDE DEF f
<1>6. f[0] = search.found /\ \A i \in 1..n : f[i] = Round(loop, f[i - 1], i)
  BY <1>4, RoundsStep
<1>7. QED
  BY <1>1, <1>5, <1>6

NeededLoop(views, context, names) ==
    [over |-> "needed", views |-> views, context |-> context, names |-> names]

LEMMA PreparedSteps ==
  ASSUME NEW d, NEW query, NEW context, Len(dependencies(Views(d), query).names) \in Nat
  PROVE  LET needed == dependencies(Views(d), query)
         IN  \E g : /\ g[0] = Success(d)
                    /\ \A i \in 1..Len(needed.names) :
                          g[i] = Compute(g[i - 1], Views(d), context, needed.names[i])
                    /\ prepared(d, query, context) =
                          IF needed.ok THEN g[Len(needed.names)] ELSE Failure(d)
<1> DEFINE needed == dependencies(Views(d), query)
           n == Len(needed.names)
           loop == NeededLoop(Views(d), context, needed.names)
           f == CHOOSE f : f = [i \in 0..n |-> IF i = 0 THEN Success(d)
                                ELSE Compute(f[i - 1], Views(d), context, needed.names[i])]
<1>1. \A acc, i : Round(loop, acc, i) = Compute(acc, Views(d), context, needed.names[i])
  BY DEF Round, NeededLoop
<1> HIDE DEF loop
<1>2. \A g : Rounds(g, n, loop, Success(d)) <=>
               g = [i \in 0..n |-> IF i = 0 THEN Success(d)
                                   ELSE Compute(g[i - 1], Views(d), context, needed.names[i])]
  BY <1>1 DEF Rounds
<1>3. \E g : Rounds(g, n, loop, Success(d))
  BY RoundsExist
<1>4. Rounds(f, n, loop, Success(d))
  BY <1>2, <1>3
<1>5. prepared(d, query, context) = IF needed.ok THEN f[n] ELSE Failure(d)
  BY DEF prepared, Computed
<1> HIDE DEF f
<1>6. f[0] = Success(d) /\ \A i \in 1..n : f[i] = Round(loop, f[i - 1], i)
  BY <1>4, RoundsStep
<1>7. QED
  BY <1>1, <1>5, <1>6

PartsLoop(parts) == [over |-> "parts", parts |-> parts]

LEMMA FlattenSteps ==
  ASSUME NEW parts, Len(parts) \in Nat
  PROVE  IF Len(parts) = 0 THEN FlattenSeq(parts) = parts
         ELSE \E g : /\ g[1] = parts[1]
                     /\ \A i \in 2..Len(parts) : g[i] = g[i - 1] \o parts[i]
                     /\ FlattenSeq(parts) = g[Len(parts)]
<1> DEFINE n == Len(parts)
           loop == PartsLoop(parts)
           Flattens(h) == h = [i \in 1..n |-> IF i = 1 THEN parts[i] ELSE h[i - 1] \o parts[i]]
           f == CHOOSE h : Flattens(h)
<1>1. CASE n = 0
  BY <1>1 DEF FlattenSeq
<1>2. CASE n # 0
  <2>1. \A acc, i : Round(loop, acc, i) = IF i = 1 THEN parts[i] ELSE acc \o parts[i]
    BY DEF Round, PartsLoop
  <2> HIDE DEF loop
  <2>2. PICK g : Rounds(g, n, loop, <<>>)
    BY RoundsExist
  <2> DEFINE h == [i \in 1..n |-> g[i]]
  <2>3. \A i \in 1..n : g[i] = IF i = 1 THEN parts[i] ELSE g[i - 1] \o parts[i]
    <3>1. \A i \in 1..n : g[i] = Round(loop, g[i - 1], i)
      BY <2>2, RoundsStep
    <3>2. QED
      BY <2>1, <3>1
  <2>4. Flattens(h)
    <3> DEFINE b(i) == IF i = 1 THEN parts[i] ELSE h[i - 1] \o parts[i]
    <3>1. \A i \in 1..n : i # 1 => i - 1 \in 1..n
      OBVIOUS
    <3>2. \A i \in 1..n : g[i] = b(i)
      BY <2>3, <3>1
    <3> HIDE DEF b
    <3>3. [i \in 1..n |-> g[i]] = [i \in 1..n |-> b(i)]
      BY <3>2
    <3>4. QED
      BY <3>3 DEF b
  <2> HIDE DEF h
  <2>5. Flattens(f)
    <3> HIDE DEF Flattens
    <3>1. QED
      BY <2>4
  <2>6. FlattenSeq(parts) = f[n]
    BY <1>2 DEF FlattenSeq
  <2> HIDE DEF f
  <2>7. \A i \in 1..n : f[i] = IF i = 1 THEN parts[i] ELSE f[i - 1] \o parts[i]
    BY <2>5
  <2>8. 1 \in 1..n
    BY <1>2
  <2>9. f[1] = parts[1] /\ \A i \in 2..n : f[i] = f[i - 1] \o parts[i]
    <3>1. \A i \in 2..n : i \in 1..n /\ i # 1
      OBVIOUS
    <3>2. QED
      BY <2>7, <2>8, <3>1
  <2>10. QED
    BY <1>2, <2>6, <2>9
<1>3. QED
  BY <1>1, <1>2

LEMMA TextsSteps ==
  /\ TextsTo[0] = {}
  /\ \A n \in 1..MaxText :
        TextsTo[n] = [with: Seq([name: Names, query: TextsTo[n - 1]]),
                      from: Seq(Sources(TextsTo[n - 1]))]
<1> DEFINE loop == [over |-> "texts"]
           f == CHOOSE f : f = [n \in 0..MaxText |-> IF n = 0 THEN {}
                   ELSE [with: Seq([name: Names, query: f[n - 1]]), from: Seq(Sources(f[n - 1]))]]
<1>1. \A acc, i : Round(loop, acc, i) = [with: Seq([name: Names, query: acc]), from: Seq(Sources(acc))]
  BY DEF Round
<1>2. MaxText \in Nat
  BY QueriesAssumption
<1> HIDE DEF loop
<1>3. \A g : Rounds(g, MaxText, loop, {}) <=> g = [n \in 0..MaxText |-> IF n = 0 THEN {}
                   ELSE [with: Seq([name: Names, query: g[n - 1]]), from: Seq(Sources(g[n - 1]))]]
  BY <1>1 DEF Rounds
<1>4. \E g : Rounds(g, MaxText, loop, {})
  BY <1>2, RoundsExist
<1>5. Rounds(f, MaxText, loop, {})
  BY <1>3, <1>4
<1>6. TextsTo = f
  BY DEF TextsTo
<1> HIDE DEF f
<1>7. f[0] = {} /\ \A i \in 1..MaxText : f[i] = Round(loop, f[i - 1], i)
  BY <1>2, <1>5, RoundsStep
<1>8. QED
  BY <1>1, <1>6, <1>7

LEMMA SpecsSteps ==
  /\ SpecsTo[0] = {}
  /\ \A n \in 1..MaxText :
        SpecsTo[n] = [alias: Names, target: Names, hint: {Absent} \cup STRING, inner: BOOLEAN,
                      nested: Seq(SpecsTo[n - 1])]
<1> DEFINE loop == [over |-> "specs"]
           f == CHOOSE f : f = [n \in 0..MaxText |-> IF n = 0 THEN {}
                   ELSE [alias: Names, target: Names, hint: {Absent} \cup STRING, inner: BOOLEAN,
                         nested: Seq(f[n - 1])]]
<1>1. \A acc, i : Round(loop, acc, i) = [alias: Names, target: Names, hint: {Absent} \cup STRING,
                                         inner: BOOLEAN, nested: Seq(acc)]
  BY DEF Round
<1>2. MaxText \in Nat
  BY QueriesAssumption
<1> HIDE DEF loop
<1>3. \A g : Rounds(g, MaxText, loop, {}) <=> g = [n \in 0..MaxText |-> IF n = 0 THEN {}
                   ELSE [alias: Names, target: Names, hint: {Absent} \cup STRING, inner: BOOLEAN,
                         nested: Seq(g[n - 1])]]
  BY <1>1 DEF Rounds
<1>4. \E g : Rounds(g, MaxText, loop, {})
  BY <1>2, RoundsExist
<1>5. Rounds(f, MaxText, loop, {})
  BY <1>3, <1>4
<1>6. SpecsTo = f
  BY DEF SpecsTo
<1> HIDE DEF f
<1>7. f[0] = {} /\ \A i \in 1..MaxText : f[i] = Round(loop, f[i - 1], i)
  BY <1>2, <1>5, RoundsStep
<1>8. QED
  BY <1>1, <1>6, <1>7

----------------------------------------------------------------------------
(* Sequences put one after the other.                                      *)

(* Induction over sequences, for a set of them.                            *)
LEMMA SequenceInduction ==
  ASSUME NEW S, NEW T \in SUBSET Seq(S), <<>> \in T, \A s \in T, e \in S : Append(s, e) \in T
  PROVE  T = Seq(S)
<1> DEFINE N == {n \in Nat : \A s \in Seq(S) : Len(s) = n => s \in T}
<1>1. 0 \in N
  <2>1. \A s \in Seq(S) : Len(s) = 0 => s = <<>>
    BY EmptySeq
  <2>2. QED
    BY <2>1
<1>2. ASSUME NEW n \in N PROVE n + 1 \in N
  <2> SUFFICES ASSUME NEW s \in Seq(S), Len(s) = n + 1 PROVE s \in T
    OBVIOUS
  <2>1. s # <<>>
    BY EmptySeq
  <2>2. PICK f \in Seq(S), e \in S : s = Append(f, e)
    BY <2>1, SequenceEmptyOrAppend
  <2>3. Len(f) \in Nat /\ Len(f) + 1 = n + 1
    BY <2>2
  <2>4. f \in T
    BY <2>3
  <2>5. QED
    BY <2>2, <2>4
<1>3. N = Nat
  <2> HIDE DEF N
  <2>1. N \in SUBSET Nat
    BY DEF N
  <2>2. QED
    BY <1>1, <1>2, <2>1, Induction
<1>4. ASSUME NEW s \in Seq(S) PROVE s \in T
  <2>1. Len(s) \in N
    BY <1>3
  <2>2. QED
    BY <2>1
<1>5. QED
  BY <1>4

LEMMA FlattenEmpty == FlattenSeq(<<>>) = <<>>
BY DEF FlattenSeq

LEMMA FlattenAppend ==
  ASSUME NEW V, NEW p \in Seq(Seq(V)), NEW x \in Seq(V)
  PROVE  FlattenSeq(Append(p, x)) = FlattenSeq(p) \o x
<1> DEFINE a == Append(p, x)
           n == Len(p)
<1>1. /\ a \in Seq(Seq(V)) /\ n \in Nat /\ Len(a) = n + 1 /\ a[n + 1] = x
      /\ \A i \in 1..n : a[i] = p[i]
  BY AppendProperties
<1> HIDE DEF a
<1>2. PICK g : /\ g[1] = a[1]
               /\ \A i \in 2..(n + 1) : g[i] = g[i - 1] \o a[i]
               /\ FlattenSeq(a) = g[n + 1]
  <2>1. Len(a) \in Nat /\ Len(a) # 0
    BY <1>1
  <2>2. \E g : /\ g[1] = a[1]
               /\ \A i \in 2..Len(a) : g[i] = g[i - 1] \o a[i]
               /\ FlattenSeq(a) = g[Len(a)]
    BY <2>1, FlattenSteps
  <2>3. QED
    BY <1>1, <2>2
<1>3. CASE n = 0
  <2>1. p = <<>>
    BY <1>3
  <2>2. FlattenSeq(p) = <<>>
    BY <2>1, FlattenEmpty
  <2>3. FlattenSeq(a) = x
    BY <1>1, <1>2, <1>3
  <2>4. <<>> \o x = x
    BY ConcatEmptySeq
  <2>5. QED
    BY <2>2, <2>3, <2>4 DEF a
<1>4. CASE n # 0
  <2>1. PICK h : /\ h[1] = p[1]
                 /\ \A i \in 2..n : h[i] = h[i - 1] \o p[i]
                 /\ FlattenSeq(p) = h[n]
    BY <1>1, <1>4, FlattenSteps
  <2> DEFINE T == {k \in Nat : k + 1 =< n => g[k + 1] = h[k + 1]}
  <2>2. 0 \in T
    BY <1>1, <1>2, <1>4, <2>1
  <2>3. ASSUME NEW k \in T PROVE k + 1 \in T
    <3> SUFFICES ASSUME k + 1 + 1 =< n PROVE g[k + 1 + 1] = h[k + 1 + 1]
      OBVIOUS
    <3> DEFINE j == k + 1 + 1
    <3>1. j \in 2..n /\ j \in 2..(n + 1) /\ j \in 1..n /\ j - 1 = k + 1 /\ k + 1 =< n
      BY <1>1
    <3>2. g[k + 1] = h[k + 1]
      BY <3>1
    <3> HIDE DEF j
    <3>3. g[j] = g[j - 1] \o a[j] /\ h[j] = h[j - 1] \o p[j] /\ a[j] = p[j]
      BY <1>1, <1>2, <2>1, <3>1
    <3>4. g[j] = h[j]
      BY <3>1, <3>2, <3>3
    <3>5. QED
      BY <3>4 DEF j
  <2>4. T = Nat
    <3> HIDE DEF T
    <3>1. T \in SUBSET Nat
      BY DEF T
    <3>2. QED
      BY <2>2, <2>3, <3>1, Induction
  <2>5. g[n] = h[n]
    <3>1. n - 1 \in Nat /\ (n - 1) + 1 = n
      BY <1>1, <1>4
    <3>2. n - 1 \in T
      <4> HIDE DEF T, n
      <4>1. QED
        BY <2>4, <3>1
    <3>3. QED
      BY <3>1, <3>2
  <2>6. g[n + 1] = g[n] \o x
    <3>1. n + 1 \in 2..(n + 1) /\ (n + 1) - 1 = n
      BY <1>1, <1>4
    <3>2. QED
      BY <1>1, <1>2, <3>1
  <2>7. QED
    BY <1>2, <2>1, <2>5, <2>6 DEF a
<1>5. QED
  BY <1>3, <1>4

LEMMA FlattenType ==
  ASSUME NEW V, NEW p \in Seq(Seq(V))
  PROVE  FlattenSeq(p) \in Seq(V)
<1> DEFINE T == {q \in Seq(Seq(V)) : FlattenSeq(q) \in Seq(V)}
<1>1. <<>> \in T
  <2>1. <<>> \in Seq(V) /\ <<>> \in Seq(Seq(V))
    BY EmptySeq
  <2>2. QED
    BY <2>1, FlattenEmpty
<1>2. ASSUME NEW q \in T, NEW x \in Seq(V) PROVE Append(q, x) \in T
  <2>1. FlattenSeq(Append(q, x)) = FlattenSeq(q) \o x
    BY FlattenAppend
  <2>2. FlattenSeq(q) \o x \in Seq(V)
    BY ConcatProperties
  <2>3. QED
    BY <2>1, <2>2, AppendProperties
<1>3. T = Seq(Seq(V))
  <2> HIDE DEF T
  <2>1. T \in SUBSET Seq(Seq(V))
    BY DEF T
  <2>2. QED
    BY <1>1, <1>2, <2>1, SequenceInduction
<1>4. QED
  BY <1>3

LEMMA FlattenConcat ==
  ASSUME NEW V, NEW p \in Seq(Seq(V)), NEW q \in Seq(Seq(V))
  PROVE  FlattenSeq(p \o q) = FlattenSeq(p) \o FlattenSeq(q)
<1> DEFINE T == {r \in Seq(Seq(V)) : FlattenSeq(p \o r) = FlattenSeq(p) \o FlattenSeq(r)}
<1>1. <<>> \in T
  <2>1. FlattenSeq(p) \in Seq(V) /\ <<>> \in Seq(Seq(V))
    BY FlattenType, EmptySeq
  <2>2. p \o <<>> = p /\ FlattenSeq(p) \o <<>> = FlattenSeq(p)
    BY <2>1, ConcatEmptySeq
  <2>3. QED
    BY <2>1, <2>2, FlattenEmpty
<1>2. ASSUME NEW r \in T, NEW x \in Seq(V) PROVE Append(r, x) \in T
  <2>1. p \o Append(r, x) = Append(p \o r, x)
    <3>1. /\ Append(r, x) = r \o <<x>> /\ p \o r \in Seq(Seq(V)) /\ <<x>> \in Seq(Seq(V))
          /\ Append(p \o r, x) = (p \o r) \o <<x>>
      BY AppendIsConcat, ConcatProperties
    <3>2. QED
      BY <3>1, ConcatAssociative
  <2>2. p \o r \in Seq(Seq(V))
    BY ConcatProperties
  <2>3. FlattenSeq(Append(p \o r, x)) = FlattenSeq(p \o r) \o x
    BY <2>2, FlattenAppend
  <2>4. FlattenSeq(Append(r, x)) = FlattenSeq(r) \o x
    BY FlattenAppend
  <2>5. (FlattenSeq(p) \o FlattenSeq(r)) \o x = FlattenSeq(p) \o (FlattenSeq(r) \o x)
    BY SMTT(30), FlattenType, ConcatAssociative
  <2>6. Append(r, x) \in Seq(Seq(V))
    BY AppendProperties
  <2>7. QED
    BY <2>1, <2>3, <2>4, <2>5, <2>6
<1>3. T = Seq(Seq(V))
  <2> HIDE DEF T
  <2>1. T \in SUBSET Seq(Seq(V))
    BY DEF T
  <2>2. QED
    BY <1>1, <1>2, <2>1, SequenceInduction
<1>4. QED
  BY <1>3

Mapped(g, s) == [i \in DOMAIN s |-> g[s[i]]]

LEMMA MappedSeq ==
  ASSUME NEW S, NEW V, NEW g \in [S -> V], NEW s \in Seq(S)
  PROVE  Mapped(g, s) \in Seq(V)
BY DEF Mapped

LEMMA MappedAt ==
  ASSUME NEW V, NEW S, NEW g, NEW s \in Seq(S), Mapped(g, s) \in Seq(V)
  PROVE  Len(Mapped(g, s)) = Len(s) /\ \A i \in 1..Len(s) : Mapped(g, s)[i] = g[s[i]]
<1> DEFINE m == Mapped(g, s)
<1>1. DOMAIN m = DOMAIN s /\ \A i \in DOMAIN s : m[i] = g[s[i]]
  BY DEF Mapped
<1> HIDE DEF m
<1>2. Len(m) = Len(s) /\ \A i \in 1..Len(s) : m[i] = g[s[i]]
  BY <1>1 DEF m
<1>3. QED
  BY <1>2 DEF m

(* Every element of a sequence gives way to a sequence.                    *)
Spread(g, s) == FlattenSeq(Mapped(g, s))

LEMMA SpreadType ==
  ASSUME NEW S, NEW V, NEW g \in [S -> Seq(V)], NEW s \in Seq(S)
  PROVE  Spread(g, s) \in Seq(V)
BY MappedSeq, FlattenType DEF Spread

LEMMA SpreadConcat ==
  ASSUME NEW S, NEW V, NEW g \in [S -> Seq(V)], NEW s \in Seq(S), NEW t \in Seq(S)
  PROVE  Spread(g, s \o t) = Spread(g, s) \o Spread(g, t)
<1> DEFINE p == Mapped(g, s)
           q == Mapped(g, t)
           w == s \o t
           r == Mapped(g, w)
<1>1. /\ p \in Seq(Seq(V)) /\ Len(p) = Len(s) /\ \A i \in 1..Len(s) : p[i] = g[s[i]]
      /\ q \in Seq(Seq(V)) /\ Len(q) = Len(t) /\ \A i \in 1..Len(t) : q[i] = g[t[i]]
  <2>1. p \in Seq(Seq(V)) /\ q \in Seq(Seq(V))
    BY MappedSeq
  <2>2. Len(p) = Len(s) /\ \A i \in 1..Len(s) : p[i] = g[s[i]]
    BY <2>1, MappedAt
  <2>3. Len(q) = Len(t) /\ \A i \in 1..Len(t) : q[i] = g[t[i]]
    BY <2>1, MappedAt
  <2> HIDE DEF p, q
  <2>4. QED
    BY <2>1, <2>2, <2>3
<1>2. /\ w \in Seq(S) /\ Len(w) = Len(s) + Len(t)
      /\ \A i \in 1..Len(s) + Len(t) : w[i] = IF i <= Len(s) THEN s[i] ELSE t[i - Len(s)]
  BY ConcatProperties
<1> HIDE DEF w
<1>3. r \in Seq(Seq(V)) /\ Len(r) = Len(w) /\ \A i \in 1..Len(w) : r[i] = g[w[i]]
  <2>1. r \in Seq(Seq(V))
    BY <1>2, MappedSeq
  <2>2. Len(r) = Len(w) /\ \A i \in 1..Len(w) : r[i] = g[w[i]]
    <3>1. w \in Seq(S)
      BY <1>2
    <3>2. QED
      BY <2>1, <3>1, MappedAt
  <2> HIDE DEF r
  <2>3. QED
    BY <2>1, <2>2
<1> HIDE DEF p, q, r
<1>4. /\ p \o q \in Seq(Seq(V)) /\ Len(p \o q) = Len(s) + Len(t)
      /\ \A i \in 1..Len(s) + Len(t) : (p \o q)[i] = IF i <= Len(s) THEN p[i] ELSE q[i - Len(s)]
  <2>1. /\ p \o q \in Seq(Seq(V)) /\ Len(p \o q) = Len(p) + Len(q)
        /\ \A i \in 1..Len(p) + Len(q) : (p \o q)[i] = IF i <= Len(p) THEN p[i] ELSE q[i - Len(p)]
    BY ZenonT(30), <1>1, ConcatProperties
  <2>2. QED
    BY <1>1, <2>1
<1>5. ASSUME NEW i \in 1..Len(r) PROVE r[i] = (p \o q)[i]
  <2>1. Len(s) \in Nat /\ Len(t) \in Nat /\ i \in 1..Len(s) + Len(t)
    BY <1>2, <1>3
  <2>2. CASE i <= Len(s)
    BY SMTT(30), <1>1, <1>2, <1>3, <1>4, <2>1, <2>2
  <2>3. CASE ~ i <= Len(s)
    <3>1. i - Len(s) \in 1..Len(t)
      BY <2>1, <2>3
    <3>2. QED
      BY ZenonT(30), <1>1, <1>2, <1>3, <1>4, <2>1, <2>3, <3>1
  <2>4. QED
    BY <2>2, <2>3
<1>6. r = p \o q
  <2>1. Len(r) = Len(p \o q)
    BY <1>2, <1>3, <1>4
  <2>2. QED
    BY <1>3, <1>4, <1>5, <2>1, SeqEqual
<1>7. FlattenSeq(r) = FlattenSeq(p) \o FlattenSeq(q)
  BY <1>1, <1>6, FlattenConcat
<1>8. QED
  BY <1>7 DEF Spread, p, q, r, w

LEMMA SpreadFlatten ==
  ASSUME NEW S, NEW V, NEW g \in [S -> Seq(V)], NEW p \in Seq(Seq(S))
  PROVE  Spread(g, FlattenSeq(p)) = FlattenSeq([i \in DOMAIN p |-> Spread(g, p[i])])
<1> DEFINE all(q) == [i \in DOMAIN q |-> Spread(g, q[i])]
           T == {q \in Seq(Seq(S)) : Spread(g, FlattenSeq(q)) = FlattenSeq(all(q))}
<1>1. <<>> \in T
  BY FlattenEmpty DEF Spread, Mapped
<1>2. ASSUME NEW q \in T, NEW x \in Seq(S) PROVE Append(q, x) \in T
  <2>1. FlattenSeq(q) \in Seq(S) /\ FlattenSeq(Append(q, x)) = FlattenSeq(q) \o x
    BY FlattenType, FlattenAppend
  <2>2. Spread(g, FlattenSeq(q) \o x) = Spread(g, FlattenSeq(q)) \o Spread(g, x)
    BY ZenonT(30), <2>1, SpreadConcat
  <2>3. all(q) \in Seq(Seq(V))
    <3>1. \A y \in Seq(S) : Spread(g, y) \in Seq(V)
      BY SpreadType
    <3>2. DOMAIN q = 1..Len(q) /\ Len(q) \in Nat /\ \A i \in 1..Len(q) : q[i] \in Seq(S)
      OBVIOUS
    <3>3. \A i \in 1..Len(q) : Spread(g, q[i]) \in Seq(V)
      BY <3>1, <3>2
    <3> DEFINE e(i) == Spread(g, q[i])
    <3>4. [i \in 1..Len(q) |-> e(i)] \in Seq(Seq(V))
      <4> HIDE DEF e
      <4>1. \A i \in 1..Len(q) : e(i) \in Seq(V)
        BY <3>3 DEF e
      <4>2. QED
        BY <3>2, <4>1
    <3>5. QED
      BY <3>2, <3>4
  <2>4. all(Append(q, x)) = Append(all(q), Spread(g, x))
    <3> DEFINE a == Append(q, x)
    <3>1. /\ a \in Seq(Seq(S)) /\ Len(a) = Len(q) + 1 /\ \A i \in 1..Len(q) : a[i] = q[i]
          /\ a[Len(q) + 1] = x
      BY AppendProperties
    <3> HIDE DEF a
    <3>2. DOMAIN a = 1..Len(q) + 1 /\ DOMAIN q = 1..Len(q) /\ Len(q) \in Nat
      BY <3>1
    <3>3. QED
      BY <3>1, <3>2 DEF a
  <2>5. Spread(g, x) \in Seq(V)
    BY SpreadType
  <2> HIDE DEF all
  <2>6. FlattenSeq(Append(all(q), Spread(g, x))) = FlattenSeq(all(q)) \o Spread(g, x)
    BY <2>3, <2>5, FlattenAppend
  <2>7. Append(q, x) \in Seq(Seq(S))
    BY AppendProperties
  <2>8. QED
    BY <2>1, <2>2, <2>4, <2>6, <2>7
<1>3. T = Seq(Seq(S))
  <2> HIDE DEF T
  <2>1. T \in SUBSET Seq(Seq(S))
    BY DEF T
  <2>2. QED
    BY <1>1, <1>2, <2>1, SequenceInduction
<1>4. QED
  BY <1>3

LEMMA FlattenOne ==
  ASSUME NEW V, NEW x \in Seq(V)
  PROVE  FlattenSeq(<<x>>) = x
<1>1. <<>> \in Seq(Seq(V)) /\ Append(<<>>, x) = <<x>> /\ <<>> \o x = x
  BY ConcatEmptySeq
<1>2. FlattenSeq(Append(<<>>, x)) = FlattenSeq(<<>>) \o x
  BY <1>1, FlattenAppend
<1>3. QED
  BY <1>1, <1>2, FlattenEmpty

LEMMA SpreadOne ==
  ASSUME NEW S, NEW V, NEW g \in [S -> Seq(V)], NEW x \in S
  PROVE  Spread(g, <<x>>) = g[x]
<1>1. [i \in DOMAIN <<x>> |-> g[<<x>>[i]]] = <<g[x]>>
  OBVIOUS
<1>2. QED
  BY <1>1, FlattenOne DEF Spread, Mapped

----------------------------------------------------------------------------
(* Texts, and the types of what is computed of them.                       *)
LEMMA BoundsAre == MaxNesting \in Nat /\ MaxText \in Nat /\ MaxNesting < MaxText /\ MaxText - 1 \in 0..MaxText
BY QueriesAssumption

LEMMA SeqGrows ==
  ASSUME NEW S, NEW T, S \subseteq T
  PROVE  Seq(S) \subseteq Seq(T)
OBVIOUS

LEMMA ItemsGrow ==
  ASSUME NEW S, NEW T, S \subseteq T
  PROVE  /\ Seq([name: Names, query: S]) \subseteq Seq([name: Names, query: T])
         /\ Seq(Sources(S)) \subseteq Seq(Sources(T))
         /\ [with: Seq([name: Names, query: S]), from: Seq(Sources(S))]
              \subseteq [with: Seq([name: Names, query: T]), from: Seq(Sources(T))]
<1> DEFINE A == [name: Names, query: S]
           B == [name: Names, query: T]
           C == Sources(S)
           D == Sources(T)
<1>1. A \subseteq B
  OBVIOUS
<1>2. C \subseteq D
  BY DEF Sources
<1> HIDE DEF A, B, C, D
<1>3. Seq(A) \subseteq Seq(B)
  BY <1>1, SeqGrows
<1>4. Seq(C) \subseteq Seq(D)
  BY <1>2, SeqGrows
<1>5. [with: Seq(A), from: Seq(C)] \subseteq [with: Seq(B), from: Seq(D)]
  BY <1>3, <1>4
<1>6. QED
  BY <1>3, <1>4, <1>5 DEF A, B, C, D

LEMMA TextsGrowByOne ==
  ASSUME NEW n \in 0..MaxText, n + 1 \in 0..MaxText
  PROVE  TextsTo[n] \subseteq TextsTo[n + 1]
<1> DEFINE T == {k \in Nat : k + 1 \in 0..MaxText => TextsTo[k] \subseteq TextsTo[k + 1]}
<1>1. 0 \in T
  BY TextsSteps
<1>2. ASSUME NEW k \in T PROVE k + 1 \in T
  <2> SUFFICES ASSUME k + 1 + 1 \in 0..MaxText PROVE TextsTo[k + 1] \subseteq TextsTo[k + 1 + 1]
    OBVIOUS
  <2> DEFINE j == k + 1
             m == j + 1
  <2>1. j \in 1..MaxText /\ m \in 1..MaxText /\ j - 1 = k /\ m - 1 = j
    BY BoundsAre
  <2>2. TextsTo[k] \subseteq TextsTo[j]
    BY <2>1
  <2> HIDE DEF j, m
  <2>3. /\ TextsTo[j] = [with: Seq([name: Names, query: TextsTo[k]]), from: Seq(Sources(TextsTo[k]))]
        /\ TextsTo[m] = [with: Seq([name: Names, query: TextsTo[j]]), from: Seq(Sources(TextsTo[j]))]
    BY <2>1, TextsSteps
  <2>4. TextsTo[j] \subseteq TextsTo[m]
    BY <2>2, <2>3, ItemsGrow
  <2>5. QED
    BY <2>4 DEF j, m
<1>3. T = Nat
  <2> HIDE DEF T
  <2>1. T \in SUBSET Nat
    BY DEF T
  <2>2. QED
    BY <1>1, <1>2, <2>1, Induction
<1>4. n \in T
  <2> HIDE DEF T
  <2>1. QED
    BY <1>3
<1>5. QED
  BY <1>4

LEMMA TextsGrow ==
  ASSUME NEW m \in 0..MaxText, NEW n \in 0..MaxText, m =< n
  PROVE  TextsTo[m] \subseteq TextsTo[n]
<1> DEFINE T == {k \in Nat : m + k \in 0..MaxText => TextsTo[m] \subseteq TextsTo[m + k]}
<1>1. 0 \in T
  OBVIOUS
<1>2. ASSUME NEW k \in T PROVE k + 1 \in T
  <2> SUFFICES ASSUME m + (k + 1) \in 0..MaxText PROVE TextsTo[m] \subseteq TextsTo[m + (k + 1)]
    OBVIOUS
  <2> DEFINE j == m + k
  <2>1. j \in 0..MaxText /\ j + 1 \in 0..MaxText /\ m + (k + 1) = j + 1
    BY BoundsAre
  <2>2. TextsTo[m] \subseteq TextsTo[j]
    BY <2>1
  <2> HIDE DEF j
  <2>3. TextsTo[j] \subseteq TextsTo[j + 1]
    BY <2>1, TextsGrowByOne
  <2>4. QED
    BY <2>1, <2>2, <2>3
<1>3. T = Nat
  <2> HIDE DEF T
  <2>1. T \in SUBSET Nat
    BY DEF T
  <2>2. QED
    BY <1>1, <1>2, <2>1, Induction
<1>4. n - m \in Nat /\ m + (n - m) = n
  BY BoundsAre
<1>5. n - m \in T
  <2> HIDE DEF T
  <2>1. QED
    BY <1>3, <1>4
<1>6. QED
  BY <1>4, <1>5

(* The parts of a text are texts.                                          *)
TextParts(query, texts) ==
    /\ query = [with |-> query.with, from |-> query.from]
    /\ query.with \in Seq([name: Names, query: texts])
    /\ query.from \in Seq(Sources(texts))

LEMMA PartsOfTexts ==
  ASSUME NEW n \in 0..MaxText, NEW query \in TextsTo[n]
  PROVE  n # 0 /\ n - 1 \in 0..MaxText /\ TextParts(query, TextsTo[n - 1])
<1>1. n # 0
  BY TextsSteps
<1>2. n \in 1..MaxText /\ n - 1 \in 0..MaxText
  BY <1>1, BoundsAre
<1>3. TextsTo[n] = [with: Seq([name: Names, query: TextsTo[n - 1]]), from: Seq(Sources(TextsTo[n - 1]))]
  BY <1>2, TextsSteps
<1>4. QED
  BY <1>1, <1>2, <1>3 DEF TextParts

LEMMA TextOfParts ==
  ASSUME NEW n \in 1..MaxText, NEW with, NEW from,
         TextParts([with |-> with, from |-> from], TextsTo[n - 1])
  PROVE  [with |-> with, from |-> from] \in TextsTo[n]
<1>1. TextsTo[n] = [with: Seq([name: Names, query: TextsTo[n - 1]]), from: Seq(Sources(TextsTo[n - 1]))]
  BY TextsSteps
<1>2. QED
  BY <1>1 DEF TextParts

LEMMA PartsOfText ==
  ASSUME NEW query \in Texts
  PROVE  TextParts(query, Texts)
<1>1. MaxText \in 0..MaxText /\ query \in TextsTo[MaxText]
  BY BoundsAre DEF Texts
<1> DEFINE m == MaxText - 1
<1>2. TextParts(query, TextsTo[m]) /\ m \in 0..MaxText /\ m =< MaxText
  BY <1>1, PartsOfTexts, BoundsAre
<1> HIDE DEF m
<1>3. TextsTo[m] \subseteq Texts
  BY <1>1, <1>2, TextsGrow DEF Texts
<1>4. /\ Seq([name: Names, query: TextsTo[m]]) \subseteq Seq([name: Names, query: Texts])
      /\ Seq(Sources(TextsTo[m])) \subseteq Seq(Sources(Texts))
  BY <1>3, ItemsGrow
<1>5. QED
  BY <1>2, <1>4 DEF TextParts

(* Part by part.                                                           *)
LEMMA SourceKinds ==
  ASSUME NEW texts, NEW source \in Sources(texts)
  PROVE  \/ source.kind = "query" /\ source = Derived(source.query) /\ source.query \in texts
         \/ source.kind = "name" /\ source = Named(source.name) /\ source.name \in Names
         \/ source.kind = "qualified" /\ source = Qualified(source.name) /\ source.name \in Names
BY DEF Sources, Derived, Named, Qualified

LEMMA PartKinds ==
  ASSUME NEW query, NEW texts, TextParts(query, texts)
  PROVE  /\ Len(query.with) \in Nat /\ DOMAIN query.with = 1..Len(query.with)
         /\ Len(query.from) \in Nat /\ DOMAIN query.from = 1..Len(query.from)
         /\ \A i \in DOMAIN query.with :
               /\ query.with[i] = [name |-> query.with[i].name, query |-> query.with[i].query]
               /\ query.with[i].name \in Names /\ query.with[i].query \in texts
         /\ \A i \in DOMAIN query.from : query.from[i] \in Sources(texts)
<1> DEFINE A == [name: Names, query: texts]
           B == Sources(texts)
<1>1. \A a \in A : a = [name |-> a.name, query |-> a.query] /\ a.name \in Names /\ a.query \in texts
  OBVIOUS
<1> HIDE DEF A, B
<1>2. query.with \in Seq(A) /\ query.from \in Seq(B)
  BY DEF TextParts, A, B
<1> DEFINE with == query.with
           from == query.from
<1> HIDE DEF with, from
<1>3. /\ Len(with) \in Nat /\ DOMAIN with = 1..Len(with) /\ \A i \in DOMAIN with : with[i] \in A
      /\ Len(from) \in Nat /\ DOMAIN from = 1..Len(from) /\ \A i \in DOMAIN from : from[i] \in B
  BY <1>2 DEF with, from
<1>4. QED
  BY <1>1, <1>3 DEF with, from, B

----------------------------------------------------------------------------
(* Normalization, one query: all its parts are normalized, and it is made  *)
(* of what they become.                                                    *)
TextViews(views) ==
    /\ views \in [DOMAIN views -> [materialized: BOOLEAN, query: Texts]]
    /\ DOMAIN views \subseteq Names

CteVisit(visit, i) == At(Inside(visit), visit.query.with[i].query)
SourceDone(views, tables, visit, inner, i) ==
    NormalizeSource(views, tables, visit.query.from[i], Inside(visit), inner)

RewrittenQuery(views, tables, visit, inner) ==
    [with |-> [i \in DOMAIN visit.query.with |->
                  [name |-> visit.query.with[i].name,
                   query |-> inner[CteVisit(visit, i)].source.query]],
     from |-> [i \in DOMAIN visit.query.from |-> SourceDone(views, tables, visit, inner, i).source]]

LEMMA NormalizedParts ==
  ASSUME NEW views, NEW tables, NEW visit, NEW inner
  PROVE  LET normal == NormalizeQuery(views, tables, visit, inner)
         IN  \/ normal = Rejected
             \/ /\ ~ (visit.depth >= MaxNesting)
                /\ \A i \in DOMAIN visit.query.with :
                      /\ inner[CteVisit(visit, i)].ok
                      /\ inner[CteVisit(visit, i)].references \subseteq normal.references
                /\ \A i \in DOMAIN visit.query.from :
                      /\ SourceDone(views, tables, visit, inner, i).ok
                      /\ SourceDone(views, tables, visit, inner, i).references \subseteq normal.references
                /\ normal = Rewritten(Derived(RewrittenQuery(views, tables, visit, inner)), normal.references)
                /\ \A x \in normal.references :
                      \/ \E i \in DOMAIN visit.query.with : x \in inner[CteVisit(visit, i)].references
                      \/ \E i \in DOMAIN visit.query.from :
                            x \in SourceDone(views, tables, visit, inner, i).references
<1> DEFINE with == visit.query.with
           from == visit.query.from
           cte(i) == inner[CteVisit(visit, i)]
           source(i) == SourceDone(views, tables, visit, inner, i)
           ctes == [i \in DOMAIN with |-> cte(i)]
           sources == [i \in DOMAIN from |-> source(i)]
           parts == {ctes[i] : i \in DOMAIN with} \cup {sources[i] : i \in DOMAIN from}
           query == [with |-> [i \in DOMAIN with |->
                                  [name |-> with[i].name, query |-> ctes[i].source.query]],
                     from |-> [i \in DOMAIN from |-> sources[i].source]]
           references == UNION {part.references : part \in parts}
           normal == NormalizeQuery(views, tables, visit, inner)
<1>1. normal =
        IF \/ Cardinality(visit.path) >= MaxNesting \/ visit.depth >= MaxNesting
           \/ \E part \in parts : ~ part.ok
        THEN Rejected
        ELSE Rewritten(Derived(query), references)
  BY DEF NormalizeQuery, CteVisit, SourceDone
<1>2. query = RewrittenQuery(views, tables, visit, inner)
  BY DEF RewrittenQuery
<1>3. /\ \A i \in DOMAIN with : cte(i) \in parts
      /\ \A i \in DOMAIN from : source(i) \in parts
      /\ \A part \in parts : (\E i \in DOMAIN with : part = cte(i)) \/ (\E i \in DOMAIN from : part = source(i))
  <2> HIDE DEF cte, source
  <2>1. QED
    OBVIOUS
<1> HIDE DEF normal, query, parts, cte, source
<1>4. CASE normal # Rejected
  <2>1. /\ ~ (visit.depth >= MaxNesting) /\ \A part \in parts : part.ok
        /\ normal = Rewritten(Derived(query), references)
    BY <1>1, <1>4
  <2>2. normal.references = references
    BY <2>1 DEF Rewritten
  <2>3. normal = Rewritten(Derived(query), normal.references)
    BY <2>1, <2>2
  <2>4. /\ \A part \in parts : part.references \subseteq references
        /\ \A x \in references : \E part \in parts : x \in part.references
    OBVIOUS
  <2> HIDE DEF references
  <2>5. /\ \A i \in DOMAIN with : cte(i).ok /\ cte(i).references \subseteq normal.references
        /\ \A i \in DOMAIN from : source(i).ok /\ source(i).references \subseteq normal.references
    BY <1>3, <2>1, <2>2, <2>4
  <2>6. \A x \in normal.references :
           \/ \E i \in DOMAIN with : x \in cte(i).references
           \/ \E i \in DOMAIN from : x \in source(i).references
    BY <1>3, <2>2, <2>4
  <2>7. QED
    BY <1>2, <2>1, <2>3, <2>5, <2>6 DEF normal, cte, source
<1>5. QED
  BY <1>4 DEF normal

(* The visits of parts are visits, one step deeper.                        *)
Deeper(visit) == visit \in Visits /\ visit.depth \in 1..MaxNesting

LEMMA InsideVisit ==
  ASSUME NEW visit \in Visits, ~ (visit.depth >= MaxNesting)
  PROVE  /\ Inside(visit) \in Visits /\ Inside(visit).depth = visit.depth + 1
         /\ Inside(visit).path = visit.path /\ Inside(visit).query = visit.query
         /\ Inside(visit).ctes =
              visit.ctes \cup {visit.query.with[i].name : i \in DOMAIN visit.query.with}
         /\ Deeper(Inside(visit))
<1>1. visit = [query |-> visit.query, path |-> visit.path, depth |-> visit.depth, ctes |-> visit.ctes]
  BY DEF Visits
<1>2. visit.query \in Texts /\ visit.path \in SUBSET Names /\ visit.depth \in 0..MaxNesting
      /\ visit.ctes \in SUBSET Names
  BY DEF Visits
<1> DEFINE names == {visit.query.with[i].name : i \in DOMAIN visit.query.with}
<1>3. names \subseteq Names
  <2>1. TextParts(visit.query, Texts)
    BY <1>2, PartsOfText
  <2>2. \A i \in DOMAIN visit.query.with : visit.query.with[i].name \in Names
    BY <2>1, PartKinds
  <2>3. QED
    BY <2>2
<1> HIDE DEF names
<1>4. Inside(visit) = [query |-> visit.query, path |-> visit.path, depth |-> visit.depth + 1,
                       ctes |-> visit.ctes \cup names]
  <2>1. Inside(visit) = [visit EXCEPT !.depth = visit.depth + 1, !.ctes = visit.ctes \cup names]
    BY DEF Inside, names
  <2>2. [visit EXCEPT !.depth = visit.depth + 1, !.ctes = visit.ctes \cup names]
          = [query |-> visit.query, path |-> visit.path, depth |-> visit.depth + 1,
             ctes |-> visit.ctes \cup names]
    <3> DEFINE q == visit.query
               p == visit.path
               d == visit.depth
               c == visit.ctes
               depth == visit.depth + 1
               ctes == visit.ctes \cup names
               once == [visit EXCEPT !.depth = depth]
    <3> HIDE DEF q, p, d, c, depth, ctes, once
    <3>1. [visit EXCEPT !.depth = depth, !.ctes = ctes] = [once EXCEPT !.ctes = ctes]
      BY DEF once
    <3>2. visit = [query |-> q, path |-> p, depth |-> d, ctes |-> c]
      BY <1>1 DEF q, p, d, c
    <3>3. once = [query |-> q, path |-> p, depth |-> depth, ctes |-> c]
      BY ONLY <3>2 DEF once
    <3>4. [once EXCEPT !.ctes = ctes] = [query |-> q, path |-> p, depth |-> depth, ctes |-> ctes]
      BY ONLY <3>3
    <3>5. QED
      BY <3>1, <3>4 DEF q, p, depth, ctes
  <2>3. QED
    BY <2>1, <2>2
<1>5. visit.depth + 1 \in 1..MaxNesting /\ visit.depth + 1 \in 0..MaxNesting
  BY <1>2, BoundsAre
<1>6. QED
  BY <1>2, <1>3, <1>4, <1>5 DEF Visits, Deeper, names

LEMMA AtVisit ==
  ASSUME NEW place \in Visits, NEW query \in Texts
  PROVE  /\ At(place, query) \in Visits /\ At(place, query).query = query
         /\ At(place, query).depth = place.depth /\ At(place, query).path = place.path
         /\ At(place, query).ctes = place.ctes
<1>1. place = [query |-> place.query, path |-> place.path, depth |-> place.depth, ctes |-> place.ctes]
  BY DEF Visits
<1>2. At(place, query) = [query |-> query, path |-> place.path, depth |-> place.depth, ctes |-> place.ctes]
  BY <1>1 DEF At
<1>3. QED
  BY <1>2 DEF Visits

LEMMA VisitIs ==
  ASSUME NEW query \in Texts, NEW path \in SUBSET Names
  PROVE  /\ Visit(query, path) \in Visits /\ Visit(query, path).query = query
         /\ Visit(query, path).depth = 0 /\ Visit(query, path).ctes = {}
         /\ Visit(query, path).path = path
BY BoundsAre DEF Visit, Visits

(* What is normalized nests no deeper than is allowed and refers to tables *)
(* that no view hides.                                                     *)
NormalizedTo(views, tables, depth, normal) ==
    \/ normal = Rejected
    \/ /\ depth \in 0..(MaxNesting - 1)
       /\ normal = Rewritten(Derived(normal.source.query), normal.references)
       /\ normal.source.query \in TextsTo[MaxNesting - depth]
       /\ normal.references \subseteq tables \ DOMAIN views

LEMMA RewrittenIs ==
  /\ \A source, references : /\ Rewritten(source, references).ok
                             /\ Rewritten(source, references).source = source
                             /\ Rewritten(source, references).references = references
  /\ ~ Rejected.ok
  /\ \A query : Derived(query).query = query /\ Derived(query).kind = "query"
BY DEF Rewritten, Rejected, Derived

LEMMA NormalizedText ==
  ASSUME NEW views, NEW tables, NEW depth, NEW normal, normal.ok, NormalizedTo(views, tables, depth, normal)
  PROVE  /\ normal.source = Derived(normal.source.query)
         /\ depth \in 0..(MaxNesting - 1) /\ normal.source.query \in TextsTo[MaxNesting - depth]
         /\ normal.source.query \in Texts /\ normal.source.query \in TextsTo[MaxNesting]
         /\ normal.references \subseteq tables \ DOMAIN views
<1>1. /\ depth \in 0..(MaxNesting - 1)
      /\ normal = Rewritten(Derived(normal.source.query), normal.references)
      /\ normal.source.query \in TextsTo[MaxNesting - depth]
      /\ normal.references \subseteq tables \ DOMAIN views
  BY RewrittenIs DEF NormalizedTo
<1>2. normal.source = Derived(normal.source.query)
  BY <1>1, RewrittenIs
<1> DEFINE m == MaxNesting - depth
<1>3. m \in 0..MaxText /\ m =< MaxText /\ MaxText \in 0..MaxText /\ m =< MaxNesting /\ MaxNesting \in 0..MaxText
  BY <1>1, BoundsAre
<1> HIDE DEF m
<1>4. TextsTo[m] \subseteq Texts /\ TextsTo[m] \subseteq TextsTo[MaxNesting]
  BY <1>3, TextsGrow DEF Texts
<1>5. QED
  BY <1>1, <1>2, <1>4 DEF m

LEMMA NormalizedSource ==
  ASSUME NEW views, TextViews(views), NEW tables \in SUBSET Names, NEW place, Deeper(place),
         NEW source \in Sources(Texts), NEW inner,
         \A visit \in Visits : NormalizedTo(views, tables, visit.depth, inner[visit])
  PROVE  LET done == NormalizeSource(views, tables, source, place, inner)
         IN  \/ done = Rejected
             \/ /\ done = Rewritten(done.source, done.references)
                /\ done.source \in Sources(TextsTo[MaxNesting - place.depth])
                /\ done.references \subseteq tables \ DOMAIN views
<1> DEFINE done == NormalizeSource(views, tables, source, place, inner)
           texts == TextsTo[MaxNesting - place.depth]
           Fine(x) == \/ x = Rejected
                      \/ /\ x = Rewritten(x.source, x.references)
                         /\ x.source \in Sources(texts)
                         /\ x.references \subseteq tables \ DOMAIN views
<1>1. ASSUME NEW query \in Texts PROVE Fine(inner[At(place, query)])
  <2> DEFINE x == inner[At(place, query)]
  <2>1. NormalizedTo(views, tables, place.depth, x)
    BY AtVisit DEF Deeper
  <2> HIDE DEF x
  <2>2. Derived(x.source.query) \in Sources(texts) <=> x.source.query \in texts
    BY DEF Derived, Sources
  <2>3. x = Rewritten(Derived(x.source.query), x.references) =>
           x.source = Derived(x.source.query)
    BY RewrittenIs
  <2>4. Fine(x)
    BY <2>1, <2>2, <2>3 DEF NormalizedTo
  <2>5. QED
    BY <2>4 DEF x
<1>2. \/ Named(source.name) \in Sources(texts) /\ Qualified(source.name) \in Sources(texts)
      \/ source.kind = "query"
  BY SourceKinds DEF Named, Qualified, Sources
<1> HIDE DEF texts
<1>3. CASE source.kind = "query"
  <2>1. done = inner[At(place, source.query)] /\ source.query \in Texts
    BY <1>3, SourceKinds DEF NormalizeSource, Named, Qualified
  <2> HIDE DEF done
  <2>2. Fine(done)
    BY <1>1, <2>1
  <2>3. QED
    BY <2>2 DEF done, texts
<1>4. CASE source.kind = "name" /\ source.name \in place.ctes
  <2>1. done = Rewritten(source, {}) /\ source = Named(source.name)
    BY <1>4, SourceKinds DEF NormalizeSource, Derived, Qualified
  <2> HIDE DEF done
  <2>2. Fine(done)
    BY <1>2, <1>4, <2>1, RewrittenIs
  <2>3. QED
    BY <2>2 DEF done, texts
<1>5. CASE source.kind # "query" /\ ~ (source.kind = "name" /\ source.name \in place.ctes)
           /\ source.name \in DOMAIN views
  <2> DEFINE path == place.path \cup {source.name}
             visit == Visit(views[source.name].query, path)
             expanded == inner[visit]
  <2>1. done = IF views[source.name].materialized \/ source.name \in place.path \/ ~ expanded.ok
               THEN Rejected ELSE inner[At(place, expanded.source.query)]
    BY <1>5 DEF NormalizeSource, ExpandView
  <2>2. views[source.name].query \in Texts /\ path \in SUBSET Names
    BY <1>5 DEF TextViews, Deeper, Visits
  <2>3. NormalizedTo(views, tables, visit.depth, expanded)
    BY <2>2, VisitIs
  <2> HIDE DEF expanded, done, visit
  <2>4. expanded.ok => expanded.source.query \in Texts
    BY <2>3, NormalizedText
  <2>5. Fine(done)
    BY <1>1, <2>1, <2>4
  <2>6. QED
    BY <2>5 DEF done, texts
<1>6. CASE source.kind # "query" /\ ~ (source.kind = "name" /\ source.name \in place.ctes)
           /\ source.name \notin DOMAIN views
  <2>1. done = IF source.name \in tables THEN BaseTable(source) ELSE Rejected
    BY <1>6 DEF NormalizeSource
  <2> HIDE DEF done
  <2>2. source.name \in tables => done = Rewritten(Qualified(source.name), {source.name})
    BY <2>1 DEF BaseTable
  <2>3. Fine(done)
    BY <1>2, <1>6, <2>1, <2>2, RewrittenIs
  <2>4. QED
    BY <2>3 DEF done, texts
<1>7. QED
  BY <1>3, <1>4, <1>5, <1>6

LEMMA NormalizationType ==
  ASSUME NEW views, TextViews(views), NEW tables \in SUBSET Names
  PROVE  \A n \in 0..MaxVisits : \A visit \in Visits :
            NormalizedTo(views, tables, visit.depth, Normalization(views, tables)[n][visit])
<1> DEFINE N == Normalization(views, tables)
           T == {n \in Nat : n \in 0..MaxVisits =>
                    \A visit \in Visits : NormalizedTo(views, tables, visit.depth, N[n][visit])}
<1>1. 0 \in T
  BY NormalizationSteps DEF NormalizedTo
<1>2. ASSUME NEW n \in T PROVE n + 1 \in T
  <2> SUFFICES ASSUME n + 1 \in 0..MaxVisits, NEW visit \in Visits
               PROVE  NormalizedTo(views, tables, visit.depth, N[n + 1][visit])
    OBVIOUS
  <2> DEFINE j == n + 1
             inner == N[n]
             normal == NormalizeQuery(views, tables, visit, inner)
             here == Inside(visit)
             m == MaxNesting - visit.depth
             done(i) == SourceDone(views, tables, visit, inner, i)
  <2>1. j \in 0..MaxVisits /\ j # 0 /\ j - 1 = n /\ n \in 0..MaxVisits
    BY MaxVisitsType
  <2>2. \A v \in Visits : NormalizedTo(views, tables, v.depth, inner[v])
    BY <2>1
  <2> HIDE DEF j
  <2>3. N[j][visit] = normal
    BY <2>1, NormalizationSteps
  <2> HIDE DEF inner, N
  <2>4. CASE normal # Rejected
    <3> DEFINE query == RewrittenQuery(views, tables, visit, inner)
               cte(i) == inner[CteVisit(visit, i)]
    <3>1. /\ ~ (visit.depth >= MaxNesting)
          /\ \A i \in DOMAIN visit.query.with : cte(i).ok
          /\ \A i \in DOMAIN visit.query.from : done(i).ok
          /\ normal = Rewritten(Derived(query), normal.references)
          /\ \A x \in normal.references :
                \/ \E i \in DOMAIN visit.query.with : x \in cte(i).references
                \/ \E i \in DOMAIN visit.query.from : x \in done(i).references
      <4> HIDE DEF normal
      <4>1. QED
        BY <2>4, NormalizedParts DEF normal
    <3> HIDE DEF normal
    <3>2. /\ Deeper(here) /\ here \in Visits /\ here.depth = visit.depth + 1
          /\ visit.depth \in 0..(MaxNesting - 1)
      BY <3>1, InsideVisit, BoundsAre DEF Visits
    <3>3. /\ m \in 1..MaxText /\ m - 1 = MaxNesting - here.depth
      BY <3>2, BoundsAre
    <3>4. TextParts(visit.query, Texts)
      BY PartsOfText DEF Visits
    <3>5. ASSUME NEW i \in DOMAIN visit.query.with
          PROVE  /\ visit.query.with[i].name \in Names /\ cte(i).source.query \in TextsTo[m - 1]
                 /\ cte(i).references \subseteq tables \ DOMAIN views
      <4>1. visit.query.with[i].query \in Texts /\ visit.query.with[i].name \in Names
        BY <3>4, PartKinds
      <4>2. CteVisit(visit, i) \in Visits /\ CteVisit(visit, i).depth = here.depth
        BY <3>2, <4>1, AtVisit DEF CteVisit
      <4>3. NormalizedTo(views, tables, here.depth, cte(i)) /\ cte(i).ok
        BY <2>2, <3>1, <4>2
      <4> HIDE DEF cte, m, here
      <4>4. /\ cte(i).source.query \in TextsTo[MaxNesting - here.depth]
            /\ cte(i).references \subseteq tables \ DOMAIN views
        BY <4>3, NormalizedText
      <4>5. QED
        BY <3>3, <4>1, <4>4
    <3>6. ASSUME NEW i \in DOMAIN visit.query.from
          PROVE  /\ done(i).source \in Sources(TextsTo[m - 1])
                 /\ done(i).references \subseteq tables \ DOMAIN views
      <4>1. visit.query.from[i] \in Sources(Texts)
        BY <3>4, PartKinds
      <4>2. \/ done(i) = Rejected
            \/ /\ done(i).source \in Sources(TextsTo[MaxNesting - here.depth])
               /\ done(i).references \subseteq tables \ DOMAIN views
        <5> HIDE DEF here
        <5>1. QED
          BY ZenonT(30), <2>2, <3>2, <4>1, NormalizedSource DEF SourceDone, here
      <4> HIDE DEF done, m, here
      <4>3. QED
        BY <3>1, <3>3, <4>2, RewrittenIs
    <3>7. normal.references \subseteq tables \ DOMAIN views
      <4> HIDE DEF cte, done
      <4>1. QED
        BY <3>1, <3>5, <3>6
    <3>8. query \in TextsTo[m]
      <4> DEFINE with == [i \in DOMAIN visit.query.with |->
                            [name |-> visit.query.with[i].name, query |-> cte(i).source.query]]
                 from == [i \in DOMAIN visit.query.from |-> done(i).source]
                 A == [name: Names, query: TextsTo[m - 1]]
                 B == Sources(TextsTo[m - 1])
      <4>1. query = [with |-> with, from |-> from]
        BY DEF RewrittenQuery
      <4>2. /\ \A i \in DOMAIN visit.query.with :
                  [name |-> visit.query.with[i].name, query |-> cte(i).source.query] \in A
            /\ \A i \in DOMAIN visit.query.from : done(i).source \in B
        <5> HIDE DEF cte, done, m
        <5>1. QED
          BY <3>5, <3>6
      <4>3. /\ Len(visit.query.with) \in Nat /\ DOMAIN visit.query.with = 1..Len(visit.query.with)
            /\ Len(visit.query.from) \in Nat /\ DOMAIN visit.query.from = 1..Len(visit.query.from)
        BY <3>4, PartKinds
      <4> HIDE DEF A, B, cte, done, query
      <4>4. with \in Seq(A) /\ from \in Seq(B)
        BY <4>2, <4>3
      <4> HIDE DEF with, from
      <4>5. TextParts([with |-> with, from |-> from], TextsTo[m - 1])
        BY <4>4 DEF TextParts, A, B
      <4> HIDE DEF m
      <4>6. QED
        BY <3>3, <4>1, <4>5, TextOfParts
    <3> HIDE DEF query
    <3>9. normal.source.query = query
      BY <3>1, RewrittenIs
    <3>10. NormalizedTo(views, tables, visit.depth, normal)
      BY <3>1, <3>2, <3>7, <3>8, <3>9 DEF NormalizedTo
    <3>11. QED
      BY <2>3, <3>10 DEF j
  <2>5. CASE normal = Rejected
    BY <2>3, <2>5 DEF NormalizedTo, j
  <2>6. QED
    BY <2>4, <2>5
<1>3. T = Nat
  <2> HIDE DEF T
  <2>1. T \in SUBSET Nat
    BY DEF T
  <2>2. QED
    BY <1>1, <1>2, <2>1, Induction
<1>4. ASSUME NEW n \in 0..MaxVisits
      PROVE  \A visit \in Visits : NormalizedTo(views, tables, visit.depth, N[n][visit])
  <2>1. n \in T
    <3> HIDE DEF T
    <3>1. QED
      BY <1>3
  <2> HIDE DEF N
  <2>2. QED
    BY <2>1
<1>5. QED
  BY <1>4

----------------------------------------------------------------------------
(* What is read of a text is Absent or a sequence of tables.               *)
Maybe(tables) == {Absent} \cup Seq(tables)

LEMMA ScopesType ==
  ASSUME NEW tables, NEW query \in Texts, NEW env \in Environments(tables), NEW inner,
         \A reading \in Readings(tables) : inner[reading] \in Maybe(tables)
  PROVE  \A i \in 0..Len(query.with) : Scopes(query.with, env, inner)[i] \in Environments(tables)
<1> DEFINE n == Len(query.with)
           scopes == Scopes(query.with, env, inner)
           T == {i \in Nat : i \in 0..n => scopes[i] \in Environments(tables)}
<1>1. /\ n \in Nat /\ DOMAIN query.with = 1..n
      /\ \A i \in 1..n : query.with[i].name \in Names /\ query.with[i].query \in Texts
  BY PartsOfText, PartKinds
<1>2. scopes[0] = env /\ \A i \in 1..n : scopes[i] = Declare(scopes[i - 1], query.with[i], inner)
  BY <1>1, ScopesSteps
<1> HIDE DEF scopes, n
<1>3. 0 \in T
  BY <1>2
<1>4. ASSUME NEW i \in T PROVE i + 1 \in T
  <2> SUFFICES ASSUME i + 1 \in 0..n PROVE scopes[i + 1] \in Environments(tables)
    OBVIOUS
  <2> DEFINE j == i + 1
             before == scopes[i]
             cte == query.with[j]
             value == inner[Reading(cte.query, before)]
  <2>1. j \in 1..n /\ j - 1 = i /\ i \in 0..n
    BY <1>1
  <2>2. before \in Environments(tables)
    BY <2>1
  <2> HIDE DEF j, before
  <2>3. Reading(cte.query, before) \in Readings(tables)
    BY <1>1, <2>1, <2>2 DEF Reading, Readings
  <2>4. value \in Maybe(tables)
    BY <2>3
  <2>5. scopes[j] = [before EXCEPT ![cte.name] = value]
    BY <1>2, <2>1 DEF Declare, before
  <2> HIDE DEF value, cte
  <2>6. scopes[j] \in Environments(tables)
    BY <2>2, <2>4, <2>5 DEF Environments, Maybe
  <2>7. QED
    BY <2>6 DEF j
<1>5. T = Nat
  <2> HIDE DEF T
  <2>1. T \in SUBSET Nat
    BY DEF T
  <2>2. QED
    BY <1>3, <1>4, <2>1, Induction
<1>6. QED
  BY <1>1, <1>5 DEF scopes, n

(* Read, taken apart.                                                      *)
ReadAt(query, env, relations, inner, i) ==
    ReadSource(query.from[i], Scopes(query.with, env, inner)[Len(query.with)], relations, inner)

LEMMA ReadIs ==
  ASSUME NEW query, NEW env, NEW relations, NEW inner
  PROVE  Read(query, env, relations, inner) =
            IF \/ \E i \in DOMAIN query.with :
                     Scopes(query.with, env, inner)[i][query.with[i].name] = Absent
               \/ \E i \in DOMAIN query.from : ReadAt(query, env, relations, inner, i) = Absent
            THEN Absent
            ELSE FlattenSeq([i \in DOMAIN query.from |-> ReadAt(query, env, relations, inner, i)])
<1> DEFINE scopes == Scopes(query.with, env, inner)
           read == [i \in DOMAIN query.from |->
                      ReadSource(query.from[i], scopes[Len(query.with)], relations, inner)]
<1>1. Read(query, env, relations, inner) =
        IF \/ \E i \in DOMAIN query.with : scopes[i][query.with[i].name] = Absent
           \/ \E i \in DOMAIN query.from : read[i] = Absent
        THEN Absent
        ELSE FlattenSeq(read)
  BY DEF Read
<1>2. read = [i \in DOMAIN query.from |-> ReadAt(query, env, relations, inner, i)]
  BY DEF ReadAt
<1>3. \A i \in DOMAIN query.from : read[i] = ReadAt(query, env, relations, inner, i)
  BY DEF ReadAt
<1> HIDE DEF read, scopes
<1>4. QED
  BY <1>1, <1>2, <1>3 DEF scopes

LEMMA ReadAtType ==
  ASSUME NEW tables, NEW query \in Texts, NEW env \in Environments(tables), NEW inner,
         \A reading \in Readings(tables) : inner[reading] \in Maybe(tables),
         NEW relations, \A name \in Names : relations[name] \in Maybe(tables)
  PROVE  \A i \in DOMAIN query.from : ReadAt(query, env, relations, inner, i) \in Maybe(tables)
<1> SUFFICES ASSUME NEW i \in DOMAIN query.from
             PROVE  ReadAt(query, env, relations, inner, i) \in Maybe(tables)
  OBVIOUS
<1> DEFINE source == query.from[i]
           scope == Scopes(query.with, env, inner)[Len(query.with)]
<1>1. source \in Sources(Texts) /\ Len(query.with) \in Nat
  BY PartsOfText, PartKinds
<1>2. scope \in Environments(tables)
  <2>1. Len(query.with) \in 0..Len(query.with)
    BY <1>1
  <2>2. QED
    BY <2>1, ScopesType
<1>3. ReadAt(query, env, relations, inner, i) =
        IF source.kind = "query" THEN inner[Reading(source.query, scope)]
        ELSE IF source.kind = "name" /\ scope[source.name] # Absent THEN scope[source.name]
        ELSE relations[source.name]
  BY DEF ReadAt, ReadSource
<1> HIDE DEF source, scope
<1>4. CASE source.kind = "query"
  <2>1. Reading(source.query, scope) \in Readings(tables)
    BY <1>1, <1>2, <1>4, SourceKinds DEF Reading, Readings, Named, Qualified
  <2>2. QED
    BY <1>3, <1>4, <2>1
<1>5. CASE source.kind # "query"
  <2>1. source.name \in Names
    BY <1>1, <1>5, SourceKinds
  <2>2. scope[source.name] \in Maybe(tables)
    BY <1>2, <2>1 DEF Environments, Maybe
  <2>3. QED
    BY <1>3, <1>5, <2>1, <2>2
<1>6. QED
  BY <1>4, <1>5

LEMMA ReadType ==
  ASSUME NEW tables, NEW query \in Texts, NEW env \in Environments(tables), NEW inner,
         \A reading \in Readings(tables) : inner[reading] \in Maybe(tables),
         NEW relations, \A name \in Names : relations[name] \in Maybe(tables)
  PROVE  Read(query, env, relations, inner) \in Maybe(tables)
<1> DEFINE at(i) == ReadAt(query, env, relations, inner, i)
           read == [i \in DOMAIN query.from |-> at(i)]
<1>1. \A i \in DOMAIN query.from : at(i) \in Maybe(tables)
  BY ReadAtType
<1>2. DOMAIN query.from = 1..Len(query.from) /\ Len(query.from) \in Nat
  BY PartsOfText, PartKinds
<1>3. CASE \E i \in DOMAIN query.from : at(i) = Absent
  BY <1>3, ReadIs DEF Maybe
<1>4. CASE \A i \in DOMAIN query.from : at(i) # Absent
  <2> DEFINE W == Seq(tables)
  <2>1. \A i \in DOMAIN query.from : at(i) \in W
    BY <1>1, <1>4 DEF Maybe
  <2> HIDE DEF at, W
  <2>2. read \in Seq(W)
    BY <1>2, <2>1
  <2> HIDE DEF read
  <2>3. FlattenSeq(read) \in Seq(tables)
    BY <2>2, FlattenType DEF W
  <2>4. \/ Read(query, env, relations, inner) = Absent
        \/ Read(query, env, relations, inner) = FlattenSeq(read)
    BY ReadIs DEF read, at
  <2>5. QED
    BY <2>3, <2>4 DEF Maybe
<1>5. QED
  BY <1>3, <1>4

LEMMA EvaluationType ==
  ASSUME NEW tables
  PROVE  \A n \in 0..MaxText : \A reading \in Readings(tables) :
            Evaluation(tables)[n][reading] \in Maybe(tables)
<1> DEFINE E == Evaluation(tables)
           T == {n \in Nat : n \in 0..MaxText =>
                    \A reading \in Readings(tables) : E[n][reading] \in Maybe(tables)}
<1>1. 0 \in T
  BY EvaluationSteps DEF Maybe
<1>2. ASSUME NEW n \in T PROVE n + 1 \in T
  <2> SUFFICES ASSUME n + 1 \in 0..MaxText, NEW reading \in Readings(tables)
               PROVE  E[n + 1][reading] \in Maybe(tables)
    OBVIOUS
  <2> DEFINE j == n + 1
             inner == E[n]
  <2>1. j \in 0..MaxText /\ j # 0 /\ j - 1 = n /\ n \in 0..MaxText
    BY BoundsAre
  <2>2. \A r \in Readings(tables) : inner[r] \in Maybe(tables)
    BY <2>1
  <2> HIDE DEF j
  <2>3. E[j][reading] = EvaluateStep(tables, reading, inner)
    BY <2>1, EvaluationSteps
  <2> HIDE DEF E, inner
  <2>4. reading.query \in Texts /\ reading.env \in Environments(tables)
    BY DEF Readings
  <2>5. \A name \in Names : Registered(tables)[name] \in Maybe(tables)
    BY DEF Registered, Maybe
  <2>6. Read(reading.query, reading.env, Registered(tables), inner) \in Maybe(tables)
    BY <2>2, <2>4, <2>5, ReadType
  <2>7. EvaluateStep(tables, reading, inner) \in Maybe(tables)
    BY <2>6 DEF EvaluateStep, Maybe
  <2>8. QED
    BY <2>3, <2>7 DEF j
<1>3. T = Nat
  <2> HIDE DEF T
  <2>1. T \in SUBSET Nat
    BY DEF T
  <2>2. QED
    BY <1>1, <1>2, <2>1, Induction
<1>4. ASSUME NEW n \in 0..MaxText
      PROVE  \A reading \in Readings(tables) : E[n][reading] \in Maybe(tables)
  <2>1. n \in T
    <3> HIDE DEF T
    <3>1. QED
      BY <1>3
  <2> HIDE DEF E
  <2>2. QED
    BY <2>1
<1>5. QED
  BY <1>4

----------------------------------------------------------------------------
(* The dependencies of a query are views, none of them twice.              *)
LEMMA MentionedType == \A n \in 0..MaxText : \A query \in Texts : Mentioned[n][query] \in Seq(Names)
<1> DEFINE M == Mentioned
           T == {n \in Nat : n \in 0..MaxText => \A query \in Texts : M[n][query] \in Seq(Names)}
<1>1. 0 \in T
  BY MentionedSteps, EmptySeq
<1>2. ASSUME NEW n \in T PROVE n + 1 \in T
  <2> SUFFICES ASSUME n + 1 \in 0..MaxText, NEW query \in Texts PROVE M[n + 1][query] \in Seq(Names)
    OBVIOUS
  <2> DEFINE j == n + 1
             inner == M[n]
             W == Seq(Names)
             with == query.with
             from == query.from
             nested(i) == inner[with[i].query]
             own(i) == IF from[i].kind = "query" THEN inner[from[i].query] ELSE <<from[i].name>>
             a == [i \in DOMAIN with |-> nested(i)]
             b == [i \in DOMAIN from |-> own(i)]
  <2>1. j \in 0..MaxText /\ j # 0 /\ j - 1 = n /\ n \in 0..MaxText
    BY BoundsAre
  <2>2. \A q \in Texts : inner[q] \in W
    BY <2>1
  <2> HIDE DEF j
  <2>3. M[j][query] = MentionStep(query, inner)
    BY <2>1, MentionedSteps
  <2>4. MentionStep(query, inner) = FlattenSeq(a) \o FlattenSeq(b)
    BY DEF MentionStep
  <2> HIDE DEF M, inner, W
  <2>5. /\ Len(with) \in Nat /\ DOMAIN with = 1..Len(with)
        /\ Len(from) \in Nat /\ DOMAIN from = 1..Len(from)
        /\ \A i \in DOMAIN with : with[i].query \in Texts
        /\ \A i \in DOMAIN from : from[i] \in Sources(Texts)
    BY PartsOfText, PartKinds
  <2> HIDE DEF with, from
  <2>6. \A i \in DOMAIN with : nested(i) \in W
    BY <2>2, <2>5
  <2>7. \A i \in DOMAIN from : own(i) \in W
    <3> SUFFICES ASSUME NEW i \in DOMAIN from PROVE own(i) \in W
      OBVIOUS
    <3> DEFINE source == from[i]
    <3>1. source \in Sources(Texts)
      BY <2>5
    <3> HIDE DEF source
    <3>2. CASE source.kind = "query"
      BY <2>2, <3>1, <3>2, SourceKinds DEF source, Named, Qualified
    <3>3. CASE source.kind # "query"
      <4>1. source.name \in Names
        BY <3>1, <3>3, SourceKinds
      <4>2. <<source.name>> \in W
        BY <4>1 DEF W
      <4>3. QED
        BY <3>3, <4>2 DEF source
    <3>4. QED
      BY <3>2, <3>3
  <2> HIDE DEF nested, own
  <2>8. a \in Seq(W) /\ b \in Seq(W)
    BY <2>5, <2>6, <2>7
  <2> HIDE DEF a, b
  <2>9. FlattenSeq(a) \in Seq(Names) /\ FlattenSeq(b) \in Seq(Names)
    BY <2>8, FlattenType DEF W
  <2>10. FlattenSeq(a) \o FlattenSeq(b) \in Seq(Names)
    BY <2>9, ConcatProperties
  <2>11. QED
    BY <2>3, <2>4, <2>10 DEF j
<1>3. T = Nat
  <2> HIDE DEF T
  <2>1. T \in SUBSET Nat
    BY DEF T
  <2>2. QED
    BY <1>1, <1>2, <2>1, Induction
<1>4. ASSUME NEW n \in 0..MaxText
      PROVE  \A query \in Texts : M[n][query] \in Seq(Names)
  <2>1. n \in T
    <3> HIDE DEF T
    <3>1. QED
      BY <1>3
  <2> HIDE DEF M
  <2>2. QED
    BY <2>1
<1>5. QED
  BY <1>4

Distinct(names) == \A i, j \in 1..Len(names) : names[i] = names[j] => i = j

FoundViews(views, found) ==
    /\ found = Found(found.ok, found.names)
    /\ found.ok \in BOOLEAN
    /\ found.names \in Seq(DOMAIN views)
    /\ Distinct(found.names)

LEMMA FoundIs == \A ok, names : Found(ok, names).ok = ok /\ Found(ok, names).names = names
BY DEF Found

LEMMA AppendedIsDistinct ==
  ASSUME NEW S, NEW s \in Seq(S), Distinct(s), NEW x \in S, x \notin ToSet(s)
  PROVE  Append(s, x) \in Seq(S) /\ Distinct(Append(s, x))
<1> DEFINE a == Append(s, x)
           n == Len(s)
<1>1. /\ a \in Seq(S) /\ n \in Nat /\ Len(a) = n + 1 /\ a[n + 1] = x
      /\ \A i \in 1..n : a[i] = s[i]
  BY AppendProperties
<1>2. \A i \in 1..n : s[i] # x
  BY DEF ToSet
<1>3. \A i, j \in 1..n : s[i] = s[j] => i = j
  BY DEF Distinct
<1> HIDE DEF a, n
<1>4. \A i \in 1..(n + 1) : i \in 1..n \/ i = n + 1
  BY <1>1
<1>5. \A i, j \in 1..(n + 1) : a[i] = a[j] => i = j
  BY <1>1, <1>2, <1>3, <1>4
<1>6. Distinct(a)
  BY <1>1, <1>5 DEF Distinct
<1>7. QED
  BY <1>1, <1>6 DEF a

LEMMA DependFinds ==
  ASSUME NEW views, TextViews(views), NEW path \in SUBSET Names, NEW found, FoundViews(views, found),
         NEW name \in Names, NEW inner,
         \A search \in Searches : FoundViews(views, search.found) => FoundViews(views, inner[search])
  PROVE  FoundViews(views, Depend(views, path, found, name, inner))
<1> DEFINE nested == inner[Search(views[name].query, path \cup {name}, found)]
           result == Depend(views, path, found, name, inner)
<1>1. result = IF ~ found.ok \/ name \notin DOMAIN views THEN found
               ELSE IF name \in path \/ Cardinality(path) > MaxNesting THEN Found(FALSE, found.names)
               ELSE IF nested.ok /\ views[name].materialized /\ name \notin ToSet(nested.names)
                    THEN Found(TRUE, Append(nested.names, name))
               ELSE nested
  BY DEF Depend
<1>2. FoundViews(views, Found(FALSE, found.names))
  BY ZenonT(30), FoundIs DEF FoundViews
<1>3. name \in DOMAIN views => FoundViews(views, nested)
  <2> SUFFICES ASSUME name \in DOMAIN views PROVE FoundViews(views, nested)
    OBVIOUS
  <2> DEFINE query == views[name].query
             around == path \cup {name}
             search == Search(query, around, found)
  <2>1. query \in Texts /\ around \in SUBSET Names
    BY DEF TextViews
  <2>2. Seq(DOMAIN views) \subseteq Seq(Names)
    BY SeqGrows DEF TextViews
  <2>3. found \in [ok: BOOLEAN, names: Seq(Names)]
    <3>1. /\ found = [ok |-> found.ok, names |-> found.names] /\ found.ok \in BOOLEAN
          /\ found.names \in Seq(DOMAIN views)
      BY DEF FoundViews, Found
    <3> DEFINE W == Seq(Names)
    <3>2. found.names \in W
      BY <2>2, <3>1
    <3> HIDE DEF W
    <3>3. found \in [ok: BOOLEAN, names: W]
      BY <3>1, <3>2
    <3>4. QED
      BY <3>3 DEF W
  <2> HIDE DEF query, around
  <2>4. search \in Searches /\ search.found = found
    BY <2>1, <2>3 DEF Searches, Search
  <2> HIDE DEF search
  <2>5. FoundViews(views, inner[search])
    BY <2>4
  <2>6. QED
    BY <2>5 DEF search, query, around
<1>4. name \in DOMAIN views /\ nested.ok /\ name \notin ToSet(nested.names)
        => FoundViews(views, Found(TRUE, Append(nested.names, name)))
  <2> HIDE DEF nested
  <2>1. SUFFICES ASSUME name \in DOMAIN views, name \notin ToSet(nested.names)
                 PROVE  FoundViews(views, Found(TRUE, Append(nested.names, name)))
    OBVIOUS
  <2>2. nested.names \in Seq(DOMAIN views) /\ Distinct(nested.names)
    BY <1>3, <2>1 DEF FoundViews
  <2> DEFINE a == Append(nested.names, name)
  <2>3. a \in Seq(DOMAIN views) /\ Distinct(a)
    BY <2>1, <2>2, AppendedIsDistinct
  <2> HIDE DEF a
  <2>4. FoundViews(views, Found(TRUE, a))
    BY ZenonT(60), <2>3, FoundIs DEF FoundViews
  <2>5. QED
    BY <2>4 DEF a
<1> HIDE DEF nested, result
<1>5. FoundViews(views, result)
  BY <1>1, <1>2, <1>3, <1>4
<1>6. QED
  BY <1>5 DEF result

LEMMA DependAllFinds ==
  ASSUME NEW views, TextViews(views), NEW search \in Searches, FoundViews(views, search.found), NEW inner,
         \A other \in Searches : FoundViews(views, other.found) => FoundViews(views, inner[other])
  PROVE  FoundViews(views, DependAll(views, search, inner))
<1> DEFINE names == Mentioned[MaxText][search.query]
           n == Len(names)
<1>1. names \in Seq(Names) /\ n \in Nat /\ search.path \in SUBSET Names
  <2>1. search.query \in Texts /\ search.path \in SUBSET Names
    BY DEF Searches
  <2>2. names \in Seq(Names)
    BY <2>1, MentionedType, BoundsAre
  <2>3. QED
    BY <2>1, <2>2
<1>2. PICK g : /\ g[0] = search.found
               /\ \A i \in 1..n : g[i] = Depend(views, search.path, g[i - 1], names[i], inner)
               /\ DependAll(views, search, inner) = g[n]
  BY <1>1, DependAllSteps
<1> HIDE DEF names
<1> DEFINE T == {i \in Nat : i \in 0..n => FoundViews(views, g[i])}
<1>3. 0 \in T
  BY <1>2
<1>4. ASSUME NEW i \in T PROVE i + 1 \in T
  <2> SUFFICES ASSUME i + 1 \in 0..n PROVE FoundViews(views, g[i + 1])
    OBVIOUS
  <2> DEFINE j == i + 1
             path == search.path
  <2>1. j \in 1..n /\ j - 1 = i /\ FoundViews(views, g[i])
    BY <1>1
  <2> HIDE DEF j, path
  <2>2. g[j] = Depend(views, path, g[i], names[j], inner) /\ names[j] \in Names /\ path \in SUBSET Names
    BY <1>1, <1>2, <2>1 DEF path
  <2>3. FoundViews(views, g[j])
    BY <2>1, <2>2, DependFinds
  <2>4. QED
    BY <2>3 DEF j
<1>5. T = Nat
  <2> HIDE DEF T
  <2>1. T \in SUBSET Nat
    BY DEF T
  <2>2. QED
    BY <1>3, <1>4, <2>1, Induction
<1>6. FoundViews(views, g[n])
  BY <1>1, <1>5
<1>7. QED
  BY <1>2, <1>6

LEMMA DependenciesAreViews ==
  ASSUME NEW views, TextViews(views), NEW query \in Texts
  PROVE  FoundViews(views, dependencies(views, query))
<1> DEFINE m == MaxNesting + 2
           first == Search(query, {}, Found(TRUE, <<>>))
<1>1. PICK g : /\ \A search \in Searches : g[0][search] = Found(FALSE, <<>>)
               /\ \A n \in 0..m : n # 0 => \A search \in Searches :
                     g[n][search] = DependAll(views, search, g[n - 1])
               /\ dependencies(views, query) = g[m][first]
  BY DependencySteps
<1>2. m \in Nat
  BY BoundsAre
<1>3. \A ok \in BOOLEAN : FoundViews(views, Found(ok, <<>>))
  <2>1. <<>> \in Seq(DOMAIN views) /\ Len(<<>>) = 0
    BY EmptySeq
  <2>2. Distinct(<<>>)
    BY <2>1 DEF Distinct
  <2>3. QED
    BY <2>1, <2>2, FoundIs DEF FoundViews
<1> HIDE DEF m
<1> DEFINE T == {n \in Nat : n \in 0..m => \A search \in Searches :
                    FoundViews(views, search.found) => FoundViews(views, g[n][search])}
<1>4. 0 \in T
  BY <1>1, <1>3
<1>5. ASSUME NEW n \in T PROVE n + 1 \in T
  <2> SUFFICES ASSUME n + 1 \in 0..m, NEW search \in Searches, FoundViews(views, search.found)
               PROVE  FoundViews(views, g[n + 1][search])
    OBVIOUS
  <2> DEFINE j == n + 1
             inner == g[n]
  <2>1. j \in 0..m /\ j # 0 /\ j - 1 = n /\ n \in 0..m
    BY <1>2
  <2>2. \A other \in Searches : FoundViews(views, other.found) => FoundViews(views, inner[other])
    BY <2>1
  <2> HIDE DEF j
  <2>3. g[j][search] = DependAll(views, search, inner)
    BY <1>1, <2>1
  <2> HIDE DEF inner
  <2>4. FoundViews(views, g[j][search])
    BY <2>2, <2>3, DependAllFinds
  <2>5. QED
    BY <2>4 DEF j
<1>6. T = Nat
  <2> HIDE DEF T
  <2>1. T \in SUBSET Nat
    BY DEF T
  <2>2. QED
    BY <1>4, <1>5, <2>1, Induction
<1>7. first \in Searches /\ first.found = Found(TRUE, <<>>)
  BY EmptySeq DEF Searches, Search, Found
<1> HIDE DEF first
<1>8. FoundViews(views, g[m][first])
  <2>1. FoundViews(views, first.found)
    BY <1>3, <1>7
  <2>2. m \in T
    BY <1>2, <1>6
  <2>3. m \in 0..m
    BY <1>2
  <2>4. QED
    BY <1>7, <2>1, <2>2, <2>3
<1>9. QED
  BY <1>1, <1>8

----------------------------------------------------------------------------
(* A database that queries can be asked of.                                *)
Plain(d) ==
    /\ d = [catalog |-> d.catalog, rows |-> d.rows, next_row_id |-> d.next_row_id]
    /\ Viewed(d)
    /\ \A t \in DOMAIN d.rows : DOMAIN d.rows[t] \in SUBSET Nat /\ IsFiniteSet(DOMAIN d.rows[t])

LEMMA FormedIsPlain ==
  ASSUME NEW d, Formed(d), Viewed(d)
  PROVE  Plain(d)
<1>1. \A t \in DOMAIN d.rows : DOMAIN d.rows[t] \in SUBSET Nat /\ IsFiniteSet(DOMAIN d.rows[t])
  BY RowsAreFinite
<1>2. d = [catalog |-> d.catalog, rows |-> d.rows, next_row_id |-> d.next_row_id]
  BY DEF Formed
<1>3. QED
  BY <1>1, <1>2 DEF Plain

LEMMA PlainViews ==
  ASSUME NEW d, Plain(d)
  PROVE  TextViews(Views(d)) /\ DOMAIN d.rows \in SUBSET Names
BY DEF Plain, Viewed, TextViews

LEMMA PutIs ==
  ASSUME NEW f, NEW k, NEW v
  PROVE  /\ DOMAIN Put(f, k, v) = DOMAIN f \cup {k}
         /\ Put(f, k, v)[k] = v
         /\ \A x \in DOMAIN f : x # k => Put(f, k, v)[x] = f[x]
BY DEF Put

LEMMA WithoutIs ==
  ASSUME NEW views, TextViews(views), NEW name
  PROVE  /\ TextViews(Without(views, name)) /\ DOMAIN Without(views, name) = DOMAIN views \ {name}
         /\ \A v \in DOMAIN views \ {name} : Without(views, name)[v] = views[v]
BY DEF Without, TextViews

LEMMA CatalogWithIs ==
  ASSUME NEW catalog, NEW name, {"views", "rls_enabled", "policies"} \subseteq DOMAIN catalog
  PROVE  LET c == CatalogWith(catalog, name)
         IN  /\ c = [x \in DOMAIN c |-> c[x]] /\ DOMAIN c = DOMAIN catalog
             /\ c.views = Without(catalog.views, name)
             /\ c.rls_enabled = Put(catalog.rls_enabled, name, FALSE)
             /\ c.policies = Put(catalog.policies, name, {})
             /\ \A x \in DOMAIN catalog \ {"views", "rls_enabled", "policies"} : c[x] = catalog[x]
<1> DEFINE views == Without(catalog.views, name)
           rls == Put(catalog.rls_enabled, name, FALSE)
           policies == Put(catalog.policies, name, {})
           c == CatalogWith(catalog, name)
<1>1. c = [catalog EXCEPT !.views = views, !.rls_enabled = rls, !.policies = policies]
  BY DEF CatalogWith
<1> HIDE DEF views, rls, policies, c
<1>2. c = [x \in DOMAIN catalog |->
             IF x = "policies" THEN policies ELSE IF x = "rls_enabled" THEN rls
             ELSE IF x = "views" THEN views ELSE catalog[x]]
  BY <1>1
<1>3. QED
  BY <1>2 DEF views, rls, policies, c

LEMMA TabulatedIs ==
  ASSUME NEW d, Plain(d), NEW name, NEW rows
  PROVE  Tabulated(d, name, rows) = [catalog |-> CatalogWith(d.catalog, name),
                                     rows |-> Put(d.rows, name, rows), next_row_id |-> d.next_row_id]
<1> DEFINE c == d.catalog
           r == d.rows
           n == d.next_row_id
           c2 == CatalogWith(d.catalog, name)
           r2 == Put(d.rows, name, rows)
           e == [d EXCEPT !.rows = r2]
<1>1. d = [catalog |-> c, rows |-> r, next_row_id |-> n]
  BY DEF Plain
<1> HIDE DEF c, r, n, c2, r2, e
<1>2. e = [catalog |-> c, rows |-> r2, next_row_id |-> n]
  BY ONLY <1>1 DEF e
<1>3. [e EXCEPT !.catalog = c2] = [catalog |-> c2, rows |-> r2, next_row_id |-> n]
  BY ONLY <1>2
<1>4. Tabulated(d, name, rows) = [d EXCEPT !.rows = r2, !.catalog = c2]
  BY DEF Tabulated, r2, c2
<1>5. [d EXCEPT !.rows = r2, !.catalog = c2] = [e EXCEPT !.catalog = c2]
  BY DEF e
<1>6. QED
  BY <1>3, <1>4, <1>5 DEF c2, r2, n

LEMMA TabulatedIsPlain ==
  ASSUME NEW d, Plain(d), NEW name \in Names, NEW V, NEW rows \in Seq(V)
  PROVE  Plain(Tabulated(d, name, rows))
<1> DEFINE e == Tabulated(d, name, rows)
           views == Without(Views(d), name)
           c == CatalogWith(d.catalog, name)
<1>1. e = [catalog |-> c, rows |-> Put(d.rows, name, rows), next_row_id |-> d.next_row_id]
  BY TabulatedIs
<1> HIDE DEF c, e
<1>2. e.catalog = c /\ e.rows = Put(d.rows, name, rows)
      /\ e = [catalog |-> e.catalog, rows |-> e.rows, next_row_id |-> e.next_row_id]
  BY <1>1
<1>3. /\ c = [x \in DOMAIN c |-> c[x]] /\ {"views", "rls_enabled", "policies"} \subseteq DOMAIN c
      /\ c.views = views /\ c.rls_enabled = Put(d.catalog.rls_enabled, name, FALSE)
      /\ c.policies = Put(d.catalog.policies, name, {})
  <2>1. {"views", "rls_enabled", "policies"} \subseteq DOMAIN d.catalog
    BY DEF Plain, Viewed
  <2>2. /\ CatalogWith(d.catalog, name) = [x \in DOMAIN CatalogWith(d.catalog, name) |-> CatalogWith(d.catalog, name)[x]]
        /\ DOMAIN CatalogWith(d.catalog, name) = DOMAIN d.catalog
        /\ CatalogWith(d.catalog, name).views = Without(d.catalog.views, name)
        /\ CatalogWith(d.catalog, name).rls_enabled = Put(d.catalog.rls_enabled, name, FALSE)
        /\ CatalogWith(d.catalog, name).policies = Put(d.catalog.policies, name, {})
    BY <2>1, CatalogWithIs
  <2>3. QED
    BY <2>1, <2>2 DEF Views, c
<1>4. TextViews(views) /\ DOMAIN views \subseteq Names
  BY PlainViews, WithoutIs DEF TextViews
<1>5. /\ DOMAIN e.rows = DOMAIN d.rows \cup {name}
      /\ DOMAIN c.rls_enabled = DOMAIN d.catalog.rls_enabled \cup {name}
      /\ DOMAIN c.policies = DOMAIN d.catalog.policies \cup {name}
  <2>1. DOMAIN Put(d.rows, name, rows) = DOMAIN d.rows \cup {name}
    BY PutIs
  <2>2. DOMAIN Put(d.catalog.rls_enabled, name, FALSE) = DOMAIN d.catalog.rls_enabled \cup {name}
    BY PutIs
  <2>3. DOMAIN Put(d.catalog.policies, name, {}) = DOMAIN d.catalog.policies \cup {name}
    BY PutIs
  <2>4. QED
    BY <1>2, <1>3, <2>1, <2>2, <2>3
<1>6. /\ DOMAIN e.rows \subseteq Names
      /\ DOMAIN e.rows \subseteq DOMAIN c.rls_enabled \cap DOMAIN c.policies
  BY <1>5 DEF Plain, Viewed
<1>7. Viewed(e)
  <2> HIDE DEF views
  <2>1. Views(e) = views
    BY <1>2, <1>3 DEF Views
  <2>2. QED
    BY <1>2, <1>3, <1>4, <1>6, <2>1 DEF Viewed, TextViews
<1>8. ASSUME NEW t \in DOMAIN e.rows
      PROVE  DOMAIN e.rows[t] \in SUBSET Nat /\ IsFiniteSet(DOMAIN e.rows[t])
  <2>1. CASE t = name
    <3>1. e.rows[t] = rows
      <4>1. Put(d.rows, name, rows)[name] = rows
        BY DEF Put
      <4>2. QED
        BY <1>2, <2>1, <4>1
    <3>2. DOMAIN rows = 1..Len(rows) /\ Len(rows) \in Nat
      OBVIOUS
    <3>3. IsFiniteSet(1..Len(rows))
      BY <3>2, FS_Interval
    <3>4. QED
      BY <3>1, <3>2, <3>3
  <2>2. CASE t # name
    <3>1. t \in DOMAIN d.rows /\ e.rows[t] = d.rows[t]
      <4>1. t \in DOMAIN d.rows
        BY <1>5, <2>2
      <4>2. Put(d.rows, name, rows)[t] = d.rows[t]
        BY <2>2, <4>1 DEF Put
      <4>3. QED
        BY <1>2, <4>1, <4>2
    <3>2. QED
      BY <3>1 DEF Plain
  <2>3. QED
    BY <2>1, <2>2
<1>9. Plain(e)
  BY <1>2, <1>7, <1>8 DEF Plain
<1>10. QED
  BY <1>9 DEF e

(* Reading tables gives a sequence of rows.                                *)
LEMMA OrderedVisible ==
  ASSUME NEW d, Plain(d), NEW t \in DOMAIN d.rows, NEW S \in SUBSET DOMAIN d.rows[t]
  PROVE  /\ Cardinality(S) \in Nat /\ DOMAIN Ordered(S) = 1..Cardinality(S)
         /\ S \in SUBSET Nat /\ IsFiniteSet(S)
         /\ \A i \in 1..Cardinality(S) : Ordered(S)[i] \in S
         /\ \A x \in S : \E i \in 1..Cardinality(S) : Ordered(S)[i] = x
<1>1. S \in SUBSET Nat /\ IsFiniteSet(S)
  BY FS_Subset DEF Plain
<1>2. DOMAIN Ordered(S) = 1..Cardinality(S)
  BY DEF Ordered
<1>3. QED
  BY <1>1, <1>2, OrderedLists

AnyRow(d) == UNION {{d.rows[t][r] : r \in DOMAIN d.rows[t]} : t \in DOMAIN d.rows}

LEMMA ReadTableType ==
  ASSUME NEW d, Plain(d), NEW t \in DOMAIN d.rows, NEW context
  PROVE  read_table(d, t, context) \in Seq(AnyRow(d))
<1> DEFINE S == Visible(d, t, context)
           n == Cardinality(S)
           row(i) == d.rows[t][Ordered(S)[i]]
           A == AnyRow(d)
<1>1. S \in SUBSET DOMAIN d.rows[t]
  BY DEF Visible, Rows
<1> HIDE DEF S
<1>2. n \in Nat /\ DOMAIN Ordered(S) = 1..n /\ \A i \in 1..n : Ordered(S)[i] \in S
  BY <1>1, OrderedVisible
<1>3. read_table(d, t, context) = [i \in 1..n |-> row(i)]
  BY <1>2 DEF read_table, Listed, Rows, S
<1>4. \A i \in 1..n : row(i) \in A
  BY <1>1, <1>2 DEF AnyRow
<1> HIDE DEF n, row, A
<1>5. [i \in 1..n |-> row(i)] \in Seq(A)
  BY <1>2, <1>4
<1>6. QED
  BY <1>3, <1>5 DEF A

LEMMA RowsOfType ==
  ASSUME NEW d, Plain(d), NEW tables \in SUBSET DOMAIN d.rows, NEW read \in Seq(tables), NEW context
  PROVE  /\ rows_of(d, read, context) \in Seq(AnyRow(d))
         /\ rows_of(d, read, context) = Spread([t \in DOMAIN d.rows |-> read_table(d, t, context)], read)
<1> DEFINE g == [t \in DOMAIN d.rows |-> read_table(d, t, context)]
           A == AnyRow(d)
<1>1. g \in [DOMAIN d.rows -> Seq(A)]
  BY ReadTableType
<1>2. read \in Seq(DOMAIN d.rows)
  BY SeqGrows
<1>3. \A i \in DOMAIN read : read[i] \in DOMAIN d.rows
  BY <1>2
<1>4. [i \in DOMAIN read |-> read_table(d, read[i], context)] = Mapped(g, read)
  BY <1>3 DEF Mapped
<1>5. rows_of(d, read, context) = Spread(g, read)
  BY <1>4 DEF rows_of, Spread
<1> HIDE DEF g, A
<1>6. Spread(g, read) \in Seq(A)
  BY <1>1, <1>2, SpreadType
<1>7. QED
  BY <1>5, <1>6 DEF g, A

----------------------------------------------------------------------------
(* Two databases that differ in hidden rows alone.                         *)
Twin(d, e, context) ==
    /\ e.catalog = d.catalog /\ DOMAIN e.rows = DOMAIN d.rows
    /\ \A t \in DOMAIN d.rows :
          /\ Visible(e, t, context) = Visible(d, t, context)
          /\ \A r \in Visible(d, t, context) : e.rows[t][r] = d.rows[t][r]

Twins(d, e, context) == Plain(d) /\ Plain(e) /\ Twin(d, e, context)

LEMMA AllowedByCatalog ==
  ASSUME NEW d, NEW e, NEW t, NEW command, NEW values, NEW context, NEW check,
         e.catalog.policies[t] = d.catalog.policies[t], e.catalog.rls_enabled[t] = d.catalog.rls_enabled[t]
  PROVE  allowed(e, t, command, values, context, check) <=> allowed(d, t, command, values, context, check)
BY DEF allowed

LEMMA ReadableTwin ==
  ASSUME NEW d, Plain(d), NEW context
  PROVE  Twins(d, Readable(d, context), context)
<1> DEFINE e == Readable(d, context)
           R == [t \in DOMAIN d.rows |-> [r \in Visible(d, t, context) |-> d.rows[t][r]]]
<1>1. e = [catalog |-> d.catalog, rows |-> R, next_row_id |-> d.next_row_id]
  <2>1. e = [d EXCEPT !.rows = R]
    BY DEF Readable, Visible, Rows
  <2> DEFINE c == d.catalog
             n == d.next_row_id
             r == d.rows
  <2>2. d = [catalog |-> c, rows |-> r, next_row_id |-> n]
    BY DEF Plain
  <2> HIDE DEF R, e, c, r, n
  <2>3. [d EXCEPT !.rows = R] = [catalog |-> c, rows |-> R, next_row_id |-> n]
    BY ONLY <2>2
  <2>4. QED
    BY <2>1, <2>3 DEF c, n
<1> HIDE DEF e
<1>2. e.catalog = d.catalog /\ e.rows = R
      /\ e = [catalog |-> e.catalog, rows |-> e.rows, next_row_id |-> e.next_row_id]
  BY <1>1
<1>3. DOMAIN R = DOMAIN d.rows
      /\ \A t \in DOMAIN d.rows :
            /\ DOMAIN R[t] = Visible(d, t, context)
            /\ \A r \in Visible(d, t, context) : R[t][r] = d.rows[t][r]
  OBVIOUS
<1> HIDE DEF R
<1>4. ASSUME NEW t \in DOMAIN d.rows
      PROVE  Visible(e, t, context) = Visible(d, t, context)
  <2>1. \A values : allowed(e, t, "SELECT", values, context, FALSE)
                      <=> allowed(d, t, "SELECT", values, context, FALSE)
    BY <1>2, AllowedByCatalog
  <2> DEFINE shown(values) == allowed(d, t, "SELECT", values, context, FALSE)
  <2>2. Visible(d, t, context) = {r \in DOMAIN d.rows[t] : shown(d.rows[t][r])}
    BY DEF Visible, Rows
  <2>3. Visible(e, t, context) = {r \in DOMAIN e.rows[t] : shown(e.rows[t][r])}
    BY <2>1 DEF Visible, Rows
  <2> HIDE DEF shown
  <2>4. QED
    BY <1>2, <1>3, <2>2, <2>3
<1>5. ASSUME NEW t \in DOMAIN e.rows
      PROVE  DOMAIN e.rows[t] \in SUBSET Nat /\ IsFiniteSet(DOMAIN e.rows[t])
  <2>1. t \in DOMAIN d.rows /\ DOMAIN e.rows[t] \in SUBSET DOMAIN d.rows[t]
    BY <1>2, <1>3 DEF Visible, Rows
  <2> DEFINE S == DOMAIN e.rows[t]
  <2> HIDE DEF S
  <2>2. t \in DOMAIN d.rows /\ S \in SUBSET DOMAIN d.rows[t]
    BY <2>1 DEF S
  <2>3. S \in SUBSET Nat /\ IsFiniteSet(S)
    BY <2>2, OrderedVisible
  <2>4. QED
    BY <2>3 DEF S
<1>6. Viewed(e)
  BY <1>2, <1>3 DEF Plain, Viewed, Views
<1>7. Plain(e)
  BY <1>2, <1>5, <1>6 DEF Plain
<1>8. Twin(d, e, context)
  BY <1>2, <1>3, <1>4 DEF Twin
<1>9. QED
  BY <1>7, <1>8 DEF Twins, e

LEMMA TwinTables ==
  ASSUME NEW d, NEW e, NEW context, Twins(d, e, context), NEW t \in DOMAIN d.rows
  PROVE  read_table(e, t, context) = read_table(d, t, context)
<1> DEFINE S == Visible(d, t, context)
           n == Cardinality(S)
<1>1. S \in SUBSET DOMAIN d.rows[t]
  BY DEF Visible, Rows
<1>2. Visible(e, t, context) = S /\ \A r \in S : e.rows[t][r] = d.rows[t][r]
  BY DEF Twins, Twin
<1> HIDE DEF S
<1>3. DOMAIN Ordered(S) = 1..n /\ \A i \in 1..n : Ordered(S)[i] \in S
  BY <1>1, OrderedVisible DEF Twins
<1>4. /\ read_table(e, t, context) = [i \in DOMAIN Ordered(S) |-> e.rows[t][Ordered(S)[i]]]
      /\ read_table(d, t, context) = [i \in DOMAIN Ordered(S) |-> d.rows[t][Ordered(S)[i]]]
  BY <1>2 DEF read_table, Listed, Rows, S
<1>5. \A i \in DOMAIN Ordered(S) : e.rows[t][Ordered(S)[i]] = d.rows[t][Ordered(S)[i]]
  BY <1>2, <1>3
<1>6. QED
  BY <1>4, <1>5

LEMMA TwinRows ==
  ASSUME NEW d, NEW e, NEW context, Twins(d, e, context), NEW tables \in SUBSET DOMAIN d.rows,
         NEW read \in Seq(tables)
  PROVE  rows_of(e, read, context) = rows_of(d, read, context)
<1>1. \A i \in DOMAIN read : read[i] \in DOMAIN d.rows
  OBVIOUS
<1>2. \A i \in DOMAIN read : read_table(e, read[i], context) = read_table(d, read[i], context)
  BY <1>1, TwinTables
<1>3. [i \in DOMAIN read |-> read_table(e, read[i], context)]
        = [i \in DOMAIN read |-> read_table(d, read[i], context)]
  BY <1>2
<1>4. QED
  BY <1>3 DEF rows_of

(* A query is normalized and evaluated by names alone; the rows come last. *)
NamesRead(views, tables, query) ==
    LET normal == Normalization(views, tables)[MaxVisits][Visit(query, {})]
    IN  Evaluation(normal.references)[MaxText][Reading(normal.source.query, Undeclared)]

LEMMA NormalIs ==
  ASSUME NEW d, Plain(d), NEW query \in Texts, normalize(d, query).ok
  PROVE  LET normal == normalize(d, query)
         IN  /\ NormalizedTo(Views(d), DOMAIN d.rows, 0, normal)
             /\ normal.source = Derived(normal.source.query)
             /\ normal.source.query \in Texts /\ normal.source.query \in TextsTo[MaxNesting]
             /\ normal.references \subseteq DOMAIN d.rows \ DOMAIN Views(d)
<1> DEFINE visit == Visit(query, {})
           normal == normalize(d, query)
<1>1. visit \in Visits /\ visit.depth = 0
  BY VisitIs
<1> HIDE DEF visit
<1>2. NormalizedTo(Views(d), DOMAIN d.rows, 0, Normalization(Views(d), DOMAIN d.rows)[MaxVisits][visit])
  BY <1>1, PlainViews, NormalizationType, MaxVisitsType
<1>3. NormalizedTo(Views(d), DOMAIN d.rows, 0, normal)
  BY <1>2 DEF normalize, visit
<1> HIDE DEF normal
<1>4. QED
  BY <1>3, NormalizedText DEF normal

LEMMA UndeclaredIs ==
  ASSUME NEW tables
  PROVE  Undeclared \in Environments(tables) /\ \A name \in Names : Undeclared[name] = Absent
BY DEF Undeclared, Environments

LEMMA NamesReadType ==
  ASSUME NEW d, Plain(d), NEW query \in Texts, normalize(d, query).ok
  PROVE  /\ NamesRead(Views(d), DOMAIN d.rows, query) \in Maybe(normalize(d, query).references)
         /\ normalize(d, query).references \in SUBSET DOMAIN d.rows
<1> DEFINE normal == normalize(d, query)
           text == normal.source.query
           tables == normal.references
<1>1. text \in Texts /\ tables \in SUBSET DOMAIN d.rows
  BY NormalIs
<1>2. NamesRead(Views(d), DOMAIN d.rows, query) = Evaluation(tables)[MaxText][Reading(text, Undeclared)]
  BY DEF NamesRead, normalize
<1> HIDE DEF text, tables
<1>3. Reading(text, Undeclared) \in Readings(tables)
  BY <1>1, UndeclaredIs DEF Reading, Readings
<1>4. MaxText \in 0..MaxText
  BY BoundsAre
<1>5. Evaluation(tables)[MaxText][Reading(text, Undeclared)] \in Maybe(tables)
  BY <1>3, <1>4, EvaluationType
<1>6. QED
  BY <1>1, <1>2, <1>5 DEF tables

LEMMA QueryBatchesIs ==
  ASSUME NEW d, Plain(d), NEW query \in Texts, NEW context
  PROVE  LET read == NamesRead(Views(d), DOMAIN d.rows, query)
             answer == query_batches(d, query, context)
         IN  \/ answer = NoAnswer /\ (~ normalize(d, query).ok \/ read = Absent)
             \/ /\ normalize(d, query).ok /\ read # Absent
                /\ read \in Seq(normalize(d, query).references)
                /\ normalize(d, query).references \in SUBSET DOMAIN d.rows
                /\ answer = Answer(rows_of(d, read, context))
                /\ rows_of(d, read, context) \in Seq(AnyRow(d))
<1> DEFINE read == NamesRead(Views(d), DOMAIN d.rows, query)
           answer == query_batches(d, query, context)
           normal == normalize(d, query)
<1>1. answer = IF ~ normal.ok \/ ~ normal.references \subseteq DOMAIN d.rows \/ read = Absent
               THEN NoAnswer ELSE Answer(rows_of(d, read, context))
  BY DEF query_batches, Batched, Batches, ReadBy, NamesRead, normalize
<1>2. normal.ok => read \in Maybe(normal.references) /\ normal.references \in SUBSET DOMAIN d.rows
  BY NamesReadType
<1> HIDE DEF read, answer, normal
<1>3. CASE ~ normal.ok \/ read = Absent
  BY <1>1, <1>3 DEF read, answer, normal
<1>4. CASE normal.ok /\ read # Absent
  <2>1. read \in Seq(normal.references) /\ normal.references \in SUBSET DOMAIN d.rows
    BY <1>2, <1>4 DEF Maybe
  <2>2. rows_of(d, read, context) \in Seq(AnyRow(d))
    BY <2>1, RowsOfType
  <2>3. QED
    BY <1>1, <1>4, <2>1, <2>2 DEF read, answer, normal
<1>5. QED
  BY <1>3, <1>4

LEMMA TwinBatches ==
  ASSUME NEW d, NEW e, NEW context, Twins(d, e, context), NEW query \in Texts
  PROVE  query_batches(e, query, context) = query_batches(d, query, context)
<1> DEFINE read == NamesRead(Views(d), DOMAIN d.rows, query)
           normal == normalize(d, query)
<1>1. Views(e) = Views(d) /\ DOMAIN e.rows = DOMAIN d.rows /\ Plain(d)
  BY DEF Twins, Twin, Views
<1>2. normalize(e, query) = normal
  BY <1>1 DEF normalize
<1>3. query_batches(d, query, context) =
        IF ~ normal.ok \/ ~ normal.references \subseteq DOMAIN d.rows \/ read = Absent
        THEN NoAnswer ELSE Answer(rows_of(d, read, context))
  BY DEF query_batches, Batched, Batches, ReadBy, NamesRead, normalize
<1>4. query_batches(e, query, context) =
        IF ~ normal.ok \/ ~ normal.references \subseteq DOMAIN d.rows \/ read = Absent
        THEN NoAnswer ELSE Answer(rows_of(e, read, context))
  BY <1>1, <1>2 DEF query_batches, Batched, Batches, ReadBy, NamesRead, normalize
<1>5. normal.ok /\ read # Absent => rows_of(e, read, context) = rows_of(d, read, context)
  <2> SUFFICES ASSUME normal.ok, read # Absent
               PROVE  rows_of(e, read, context) = rows_of(d, read, context)
    OBVIOUS
  <2>1. read \in Maybe(normal.references) /\ normal.references \in SUBSET DOMAIN d.rows
    BY <1>1, NamesReadType
  <2> HIDE DEF read, normal
  <2>2. read \in Seq(normal.references)
    BY <2>1 DEF Maybe
  <2>3. QED
    BY <2>1, <2>2, TwinRows
<1> HIDE DEF read, normal
<1>6. QED
  BY <1>3, <1>4, <1>5

(* What is materialized for one twin is what is for the other.             *)
LEMMA ResultIs ==
  \A d : /\ Success(d).ok = TRUE /\ Success(d).db = d /\ Failure(d).ok = FALSE /\ Failure(d).db = d
BY DEF Success, Failure

LEMMA AnswerIs ==
  /\ \A rows : Answer(rows).ok = TRUE /\ Answer(rows).rows = rows
  /\ NoAnswer.ok = FALSE /\ NoAnswer.rows = <<>>
BY DEF Answer, NoAnswer

Becomes(d, name, rows, e) ==
    /\ e.catalog = CatalogWith(d.catalog, name)
    /\ DOMAIN e.rows = DOMAIN d.rows \cup {name} /\ e.rows[name] = rows
    /\ \A t \in DOMAIN d.rows : t # name =>
          /\ e.rows[t] = d.rows[t]
          /\ e.catalog.policies[t] = d.catalog.policies[t]
          /\ e.catalog.rls_enabled[t] = d.catalog.rls_enabled[t]
    /\ e.catalog.rls_enabled[name] = FALSE
    /\ Views(e) = Without(Views(d), name)

LEMMA TabulatedRows ==
  ASSUME NEW d, Plain(d), NEW name, NEW rows
  PROVE  Becomes(d, name, rows, Tabulated(d, name, rows))
<1> DEFINE e == Tabulated(d, name, rows)
           c == CatalogWith(d.catalog, name)
<1>1. e.catalog = c /\ e.rows = Put(d.rows, name, rows)
  BY TabulatedIs
<1>2. /\ c.views = Without(d.catalog.views, name)
      /\ c.rls_enabled = Put(d.catalog.rls_enabled, name, FALSE)
      /\ c.policies = Put(d.catalog.policies, name, {})
  BY CatalogWithIs DEF Plain, Viewed
<1>3. DOMAIN d.rows \subseteq DOMAIN d.catalog.rls_enabled /\ DOMAIN d.rows \subseteq DOMAIN d.catalog.policies
  BY DEF Plain, Viewed
<1> HIDE DEF e, c
<1>4. DOMAIN e.rows = DOMAIN d.rows \cup {name} /\ e.rows[name] = rows
      /\ \A t \in DOMAIN d.rows : t # name => e.rows[t] = d.rows[t]
  BY <1>1 DEF Put
<1>5. c.rls_enabled[name] = FALSE
      /\ \A t \in DOMAIN d.rows : t # name => c.rls_enabled[t] = d.catalog.rls_enabled[t]
  BY <1>2, <1>3 DEF Put
<1>6. \A t \in DOMAIN d.rows : t # name => c.policies[t] = d.catalog.policies[t]
  BY <1>2, <1>3 DEF Put
<1>7. QED
  BY <1>1, <1>2, <1>4, <1>5, <1>6 DEF e, c, Views, Becomes

LEMMA TabulatedTwin ==
  ASSUME NEW d, NEW e, NEW context, Twins(d, e, context), NEW name \in Names, NEW V, NEW rows \in Seq(V)
  PROVE  Twins(Tabulated(d, name, rows), Tabulated(e, name, rows), context)
<1> DEFINE a == Tabulated(d, name, rows)
           b == Tabulated(e, name, rows)
<1>1. Plain(d) /\ Plain(e) /\ e.catalog = d.catalog /\ DOMAIN e.rows = DOMAIN d.rows
  BY DEF Twins, Twin
<1>2. Plain(a) /\ Plain(b)
  BY <1>1, TabulatedIsPlain
<1>3. Becomes(d, name, rows, a) /\ Becomes(e, name, rows, b)
  BY <1>1, TabulatedRows
<1> HIDE DEF a, b
<1>4. b.catalog = a.catalog /\ DOMAIN b.rows = DOMAIN a.rows /\ DOMAIN a.rows = DOMAIN d.rows \cup {name}
      /\ a.rows[name] = rows /\ b.rows[name] = rows
  BY <1>1, <1>3 DEF Becomes
<1>5. \A t \in DOMAIN d.rows : t # name =>
          /\ a.rows[t] = d.rows[t] /\ b.rows[t] = e.rows[t]
          /\ a.catalog.policies[t] = d.catalog.policies[t]
          /\ a.catalog.rls_enabled[t] = d.catalog.rls_enabled[t]
  BY <1>1, <1>3 DEF Becomes
<1>6. ASSUME NEW t \in DOMAIN a.rows
      PROVE  /\ Visible(b, t, context) = Visible(a, t, context)
             /\ \A r \in Visible(a, t, context) : b.rows[t][r] = a.rows[t][r]
  <2> DEFINE shown(values) == allowed(a, t, "SELECT", values, context, FALSE)
  <2>1. \A values : allowed(b, t, "SELECT", values, context, FALSE) <=> shown(values)
    BY <1>4, AllowedByCatalog
  <2>2. /\ Visible(a, t, context) = {r \in DOMAIN a.rows[t] : shown(a.rows[t][r])}
        /\ Visible(b, t, context) = {r \in DOMAIN b.rows[t] : shown(b.rows[t][r])}
    BY <2>1 DEF Visible, Rows
  <2>3. CASE t = name
    <3> HIDE DEF shown
    <3>1. QED
      BY <1>4, <2>2, <2>3
  <2>4. CASE t # name
    <3>1. t \in DOMAIN d.rows /\ a.rows[t] = d.rows[t] /\ b.rows[t] = e.rows[t]
      BY <1>4, <1>5, <2>4
    <3>2. \A values : /\ shown(values) <=> allowed(d, t, "SELECT", values, context, FALSE)
                      /\ shown(values) <=> allowed(e, t, "SELECT", values, context, FALSE)
      BY <1>1, <1>5, <2>4, <3>1, AllowedByCatalog
    <3>3. /\ Visible(d, t, context) = {r \in DOMAIN d.rows[t] : shown(d.rows[t][r])}
          /\ Visible(e, t, context) = {r \in DOMAIN e.rows[t] : shown(e.rows[t][r])}
      BY <3>2 DEF Visible, Rows
    <3> HIDE DEF shown
    <3>4. Visible(a, t, context) = Visible(d, t, context) /\ Visible(b, t, context) = Visible(e, t, context)
      BY <2>2, <3>1, <3>3
    <3>5. Visible(e, t, context) = Visible(d, t, context)
          /\ \A r \in Visible(d, t, context) : e.rows[t][r] = d.rows[t][r]
      BY <3>1 DEF Twins, Twin
    <3>6. QED
      BY <3>1, <3>4, <3>5
  <2>5. QED
    BY <2>3, <2>4
<1>7. Twin(a, b, context)
  BY <1>4, <1>6 DEF Twin
<1>8. QED
  BY <1>2, <1>7 DEF Twins, a, b

LEMMA TwinMaterialize ==
  ASSUME NEW d, NEW e, NEW context, Twins(d, e, context), NEW query \in Texts, NEW name \in Names
  PROVE  /\ materialize(e, query, context, name).ok = materialize(d, query, context, name).ok
         /\ Twins(materialize(d, query, context, name).db, materialize(e, query, context, name).db, context)
<1> DEFINE answer == query_batches(d, query, context)
<1>1. query_batches(e, query, context) = answer
  BY TwinBatches
<1>2. materialize(d, query, context, name) =
        IF answer.ok THEN Success(Tabulated(d, name, answer.rows)) ELSE Failure(d)
  BY DEF materialize, Replaced
<1>3. materialize(e, query, context, name) =
        IF answer.ok THEN Success(Tabulated(e, name, answer.rows)) ELSE Failure(e)
  BY <1>1 DEF materialize, Replaced
<1>4. answer.rows \in Seq(AnyRow(d))
  <2> DEFINE A == AnyRow(d)
  <2>1. Plain(d)
    BY DEF Twins
  <2>2. answer = NoAnswer \/ \E rows \in Seq(A) : answer = Answer(rows)
    BY <2>1, QueryBatchesIs
  <2> HIDE DEF answer, A
  <2>3. answer.rows \in Seq(A)
    BY <2>2, AnswerIs, EmptySeq
  <2>4. QED
    BY <2>3 DEF A
<1> HIDE DEF answer
<1>5. Twins(Tabulated(d, name, answer.rows), Tabulated(e, name, answer.rows), context)
  BY <1>4, TabulatedTwin
<1>6. QED
  BY <1>2, <1>3, <1>5, ResultIs

LEMMA TwinPrepared ==
  ASSUME NEW d, NEW e, NEW context, Twins(d, e, context), NEW query \in Texts
  PROVE  /\ prepared(e, query, context).ok = prepared(d, query, context).ok
         /\ Twins(prepared(d, query, context).db, prepared(e, query, context).db, context)
<1> DEFINE needed == dependencies(Views(d), query)
           names == needed.names
           n == Len(names)
           views == Views(d)
<1>1. Plain(d) /\ Views(e) = views
  BY DEF Twins, Twin, Views
<1>2. TextViews(views) /\ names \in Seq(DOMAIN views) /\ n \in Nat
  <2>1. TextViews(views) /\ FoundViews(views, needed)
    BY <1>1, PlainViews, DependenciesAreViews
  <2>2. QED
    BY <2>1 DEF FoundViews
<1>3. \A i \in 1..n : names[i] \in Names /\ views[names[i]].query \in Texts
  <2> HIDE DEF names, views
  <2>1. \A i \in 1..n : names[i] \in DOMAIN views
    BY <1>2
  <2>2. \A name \in DOMAIN views : name \in Names /\ views[name].query \in Texts
    BY <1>2 DEF TextViews
  <2>3. QED
    BY <2>1, <2>2
<1>4. PICK g : /\ g[0] = Success(d)
               /\ \A i \in 1..n : g[i] = Compute(g[i - 1], views, context, names[i])
               /\ prepared(d, query, context) = IF needed.ok THEN g[n] ELSE Failure(d)
  BY <1>2, PreparedSteps
<1>5. PICK h : /\ h[0] = Success(e)
               /\ \A i \in 1..n : h[i] = Compute(h[i - 1], views, context, names[i])
               /\ prepared(e, query, context) = IF needed.ok THEN h[n] ELSE Failure(e)
  <2>1. dependencies(Views(e), query) = needed
    BY <1>1
  <2>2. \E h : /\ h[0] = Success(e)
               /\ \A i \in 1..Len(dependencies(Views(e), query).names) :
                     h[i] = Compute(h[i - 1], Views(e), context, dependencies(Views(e), query).names[i])
               /\ prepared(e, query, context) =
                     IF dependencies(Views(e), query).ok
                     THEN h[Len(dependencies(Views(e), query).names)] ELSE Failure(e)
    BY <1>2, <2>1, PreparedSteps
  <2> HIDE DEF needed, views
  <2>3. QED
    BY <1>1, <2>1, <2>2
<1> HIDE DEF needed, names, n, views
<1> DEFINE T == {i \in Nat : i \in 0..n => h[i].ok = g[i].ok /\ Twins(g[i].db, h[i].db, context)}
<1>6. 0 \in T
  BY <1>4, <1>5, ResultIs
<1>7. ASSUME NEW i \in T PROVE i + 1 \in T
  <2> SUFFICES ASSUME i + 1 \in 0..n
               PROVE  h[i + 1].ok = g[i + 1].ok /\ Twins(g[i + 1].db, h[i + 1].db, context)
    OBVIOUS
  <2> DEFINE j == i + 1
  <2>1. j \in 1..n /\ j - 1 = i /\ h[i].ok = g[i].ok /\ Twins(g[i].db, h[i].db, context)
    BY <1>2
  <2> HIDE DEF j
  <2>2. /\ g[j] = IF g[i].ok THEN materialize(g[i].db, views[names[j]].query, context, names[j]) ELSE g[i]
        /\ h[j] = IF h[i].ok THEN materialize(h[i].db, views[names[j]].query, context, names[j]) ELSE h[i]
    BY <1>4, <1>5, <2>1 DEF Compute
  <2> DEFINE q == views[names[j]].query
             name == names[j]
  <2>3. q \in Texts /\ name \in Names
    BY <1>3, <2>1
  <2> HIDE DEF q, name
  <2>4. /\ materialize(h[i].db, q, context, name).ok = materialize(g[i].db, q, context, name).ok
        /\ Twins(materialize(g[i].db, q, context, name).db, materialize(h[i].db, q, context, name).db, context)
    BY <2>1, <2>3, TwinMaterialize
  <2>5. h[j].ok = g[j].ok /\ Twins(g[j].db, h[j].db, context)
    BY <2>1, <2>2, <2>4 DEF q, name
  <2>6. QED
    BY <2>5 DEF j
<1>8. T = Nat
  <2> HIDE DEF T
  <2>1. T \in SUBSET Nat
    BY DEF T
  <2>2. QED
    BY <1>6, <1>7, <2>1, Induction
<1>9. h[n].ok = g[n].ok /\ Twins(g[n].db, h[n].db, context)
  BY <1>2, <1>8
<1> DEFINE a == prepared(d, query, context)
           b == prepared(e, query, context)
<1>10. a = IF needed.ok THEN g[n] ELSE Failure(d)
  BY <1>4
<1>11. b = IF needed.ok THEN h[n] ELSE Failure(e)
  BY <1>5
<1> HIDE DEF a, b
<1>12. b.ok = a.ok /\ Twins(a.db, b.db, context)
  BY <1>9, <1>10, <1>11, ResultIs
<1>13. QED
  BY <1>12 DEF a, b

(* The first half: answers to queries.                                     *)
LEMMA TwinExecute ==
  ASSUME NEW d, NEW e, NEW context, Twins(d, e, context), NEW query \in Texts
  PROVE  execute(e, query, context) = execute(d, query, context)
<1> DEFINE a == prepared(d, query, context)
           b == prepared(e, query, context)
<1>1. b.ok = a.ok /\ Twins(a.db, b.db, context)
  BY TwinPrepared
<1>2. /\ execute(d, query, context) = IF a.ok THEN query_batches(a.db, query, context) ELSE NoAnswer
      /\ execute(e, query, context) = IF b.ok THEN query_batches(b.db, query, context) ELSE NoAnswer
  BY DEF execute, Executed
<1> HIDE DEF a, b
<1>3. query_batches(b.db, query, context) = query_batches(a.db, query, context)
  BY <1>1, TwinBatches
<1>4. QED
  BY <1>1, <1>2, <1>3

----------------------------------------------------------------------------
(* Specifications of embeds, like texts.                                   *)
LEMMA SpecItemsGrow ==
  ASSUME NEW S, NEW T, S \subseteq T
  PROVE  [alias: Names, target: Names, hint: {Absent} \cup STRING, inner: BOOLEAN, nested: Seq(S)]
           \subseteq [alias: Names, target: Names, hint: {Absent} \cup STRING, inner: BOOLEAN,
                      nested: Seq(T)]
<1> DEFINE A == Seq(S)
           B == Seq(T)
<1>1. A \subseteq B
  BY SeqGrows
<1> HIDE DEF A, B
<1>2. [alias: Names, target: Names, hint: {Absent} \cup STRING, inner: BOOLEAN, nested: A]
        \subseteq [alias: Names, target: Names, hint: {Absent} \cup STRING, inner: BOOLEAN, nested: B]
  BY <1>1
<1>3. QED
  BY <1>2 DEF A, B

LEMMA SpecsGrowByOne ==
  ASSUME NEW n \in 0..MaxText, n + 1 \in 0..MaxText
  PROVE  SpecsTo[n] \subseteq SpecsTo[n + 1]
<1> DEFINE T == {k \in Nat : k + 1 \in 0..MaxText => SpecsTo[k] \subseteq SpecsTo[k + 1]}
<1>1. 0 \in T
  BY SpecsSteps
<1>2. ASSUME NEW k \in T PROVE k + 1 \in T
  <2> SUFFICES ASSUME k + 1 + 1 \in 0..MaxText PROVE SpecsTo[k + 1] \subseteq SpecsTo[k + 1 + 1]
    OBVIOUS
  <2> DEFINE j == k + 1
             m == j + 1
             Of(S) == [alias: Names, target: Names, hint: {Absent} \cup STRING, inner: BOOLEAN,
                       nested: Seq(S)]
  <2>1. j \in 1..MaxText /\ m \in 1..MaxText /\ j - 1 = k /\ m - 1 = j
    BY BoundsAre
  <2>2. SpecsTo[k] \subseteq SpecsTo[j]
    BY <2>1
  <2> HIDE DEF j, m
  <2>3. SpecsTo[j] = Of(SpecsTo[k]) /\ SpecsTo[m] = Of(SpecsTo[j])
    BY <2>1, SpecsSteps
  <2>4. Of(SpecsTo[k]) \subseteq Of(SpecsTo[j])
    BY <2>2, SpecItemsGrow
  <2> HIDE DEF Of
  <2>5. SpecsTo[j] \subseteq SpecsTo[m]
    BY <2>3, <2>4
  <2>6. QED
    BY <2>5 DEF j, m
<1>3. T = Nat
  <2> HIDE DEF T
  <2>1. T \in SUBSET Nat
    BY DEF T
  <2>2. QED
    BY <1>1, <1>2, <2>1, Induction
<1>4. n \in T
  <2> HIDE DEF T
  <2>1. QED
    BY <1>3
<1>5. QED
  BY <1>4

LEMMA PartsOfSpec ==
  ASSUME NEW spec \in Specs
  PROVE  spec.alias \in Names /\ spec.target \in Names /\ spec.inner \in BOOLEAN /\ spec.nested \in Seq(Specs)
<1> DEFINE m == MaxText - 1
           below == SpecsTo[m]
<1>1. MaxText \in 1..MaxText /\ m \in 0..MaxText /\ m + 1 = MaxText /\ MaxText \in 0..MaxText
  BY BoundsAre
<1> HIDE DEF m
<1>2. below \subseteq Specs
  BY <1>1, SpecsGrowByOne DEF Specs
<1>3. Specs = [alias: Names, target: Names, hint: {Absent} \cup STRING, inner: BOOLEAN, nested: Seq(below)]
  BY <1>1, SpecsSteps DEF Specs, m
<1> HIDE DEF below
<1>4. Seq(below) \subseteq Seq(Specs)
  BY <1>2, SeqGrows
<1> DEFINE A == Seq(below)
<1> HIDE DEF A
<1>5. spec.alias \in Names /\ spec.target \in Names /\ spec.inner \in BOOLEAN /\ spec.nested \in A
  <2>1. spec \in [alias: Names, target: Names, hint: {Absent} \cup STRING, inner: BOOLEAN, nested: A]
    BY <1>3 DEF A
  <2>2. QED
    BY <2>1
<1>6. QED
  BY <1>4, <1>5 DEF A

----------------------------------------------------------------------------
(* Twins give the same answers to a GET.                                   *)
LEMMA TwinRelations ==
  ASSUME NEW d, NEW e, NEW context, Twins(d, e, context), NEW t, NEW spec
  PROVE  /\ resolve_relation(e, t, spec) = resolve_relation(d, t, spec)
         /\ resolve_relation(d, t, spec).ok => spec.target \in DOMAIN d.rows
<1>1. BothWays(e) = BothWays(d) /\ DOMAIN e.rows = DOMAIN d.rows
  BY DEF Twins, Twin, BothWays
<1>2. resolve_relation(e, t, spec) = resolve_relation(d, t, spec)
  BY <1>1 DEF resolve_relation
<1>3. spec.target \notin DOMAIN d.rows => resolve_relation(d, t, spec) = [ok |-> FALSE]
  BY DEF resolve_relation
<1>4. QED
  BY <1>2, <1>3

LEMMA TwinSelected ==
  ASSUME NEW d, NEW e, NEW context, Twins(d, e, context), NEW t \in DOMAIN d.rows, NEW filters
  PROVE  /\ Selected(e, t, filters, context) = Selected(d, t, filters, context)
         /\ Selected(d, t, filters, context) \in SUBSET Visible(d, t, context)
<1>1. Visible(e, t, context) = Visible(d, t, context)
      /\ \A r \in Visible(d, t, context) : e.rows[t][r] = d.rows[t][r]
  BY DEF Twins, Twin
<1> DEFINE S == Visible(d, t, context)
           chosen(row) == Qualifies(row, filters)
<1>2. /\ Selected(d, t, filters, context) = {r \in S : chosen(d.rows[t][r])}
      /\ Selected(e, t, filters, context) = {r \in S : chosen(e.rows[t][r])}
  BY <1>1 DEF Selected, Rows
<1> HIDE DEF S, chosen
<1>3. \A r \in S : chosen(e.rows[t][r]) <=> chosen(d.rows[t][r])
  BY <1>1 DEF S
<1>4. QED
  BY <1>2, <1>3 DEF S

LEMMA VisibleRows ==
  ASSUME NEW d, NEW t, NEW context
  PROVE  Visible(d, t, context) \in SUBSET DOMAIN d.rows[t]
BY DEF Visible, Rows

LEMMA TwinRelated ==
  ASSUME NEW d, NEW e, NEW context, Twins(d, e, context), NEW t \in DOMAIN d.rows,
         NEW r \in Visible(d, t, context), NEW spec, spec.target \in DOMAIN d.rows, NEW filters
  PROVE  /\ Related(e, t, r, spec, filters, context) = Related(d, t, r, spec, filters, context)
         /\ Related(d, t, r, spec, filters, context) \in SUBSET Visible(d, spec.target, context)
<1> DEFINE target == spec.target
           own == relation_params(filters, spec)
           S == Selected(d, target, own, context)
           relation == resolve_relation(d, t, spec).relation
           links(row, other) == linked(row, other, relation)
<1>1. Selected(e, target, own, context) = S /\ S \in SUBSET Visible(d, target, context)
  BY TwinSelected
<1>2. resolve_relation(e, t, spec).relation = relation
  BY TwinRelations
<1>3. /\ Related(d, t, r, spec, filters, context) = {o \in S : links(d.rows[t][r], d.rows[target][o])}
      /\ Related(e, t, r, spec, filters, context) = {o \in S : links(e.rows[t][r], e.rows[target][o])}
  BY <1>1, <1>2 DEF Related, relation_rows, Rows
<1>4. e.rows[t][r] = d.rows[t][r] /\ \A o \in S : e.rows[target][o] = d.rows[target][o]
  BY <1>1 DEF Twins, Twin
<1> HIDE DEF S, links, target
<1>5. QED
  BY <1>1, <1>3, <1>4 DEF target

LEMMA TwinMatched ==
  ASSUME NEW d, NEW e, NEW context, Twins(d, e, context), NEW t \in DOMAIN d.rows,
         NEW r \in Visible(d, t, context), NEW spec, NEW filters
  PROVE  Matched(e, t, r, spec, filters, context) <=> Matched(d, t, r, spec, filters, context)
<1>1. CASE resolve_relation(d, t, spec).ok
  <2>1. spec.target \in DOMAIN d.rows
    BY <1>1, TwinRelations
  <2>2. Related(e, t, r, spec, filters, context) = Related(d, t, r, spec, filters, context)
    BY <2>1, TwinRelated
  <2>3. resolve_relation(e, t, spec) = resolve_relation(d, t, spec)
    BY TwinRelations
  <2>4. QED
    BY <2>2, <2>3 DEF Matched
<1>2. CASE ~ resolve_relation(d, t, spec).ok
  <2>1. resolve_relation(e, t, spec) = resolve_relation(d, t, spec)
    BY TwinRelations
  <2>2. QED
    BY <1>2, <2>1 DEF Matched
<1>3. QED
  BY <1>1, <1>2

LEMMA TwinKept ==
  ASSUME NEW d, NEW e, NEW context, Twins(d, e, context), NEW t \in DOMAIN d.rows,
         NEW rows \in SUBSET Visible(d, t, context), NEW embeds, NEW filters
  PROVE  /\ KeptRows(e, t, rows, embeds, filters, context) = KeptRows(d, t, rows, embeds, filters, context)
         /\ KeptRows(d, t, rows, embeds, filters, context).rows \in SUBSET rows
<1> DEFINE inner == {i \in DOMAIN embeds : embeds[i].inner}
           matched(x, r, i) == Matched(x, t, r, embeds[i], filters, context)
           fine(x, i) == resolve_relation(x, t, embeds[i]).ok
           kept(x) == [ok |-> \A r \in rows, i \in inner :
                                 (\A j \in inner : j < i => matched(x, r, j)) => fine(x, i),
                       rows |-> {r \in rows : \A i \in inner : matched(x, r, i)}]
<1>1. \A r \in rows, i \in inner : matched(e, r, i) <=> matched(d, r, i)
  BY TwinMatched
<1>2. \A i \in inner : fine(e, i) <=> fine(d, i)
  BY TwinRelations
<1>3. \A x : KeptRows(x, t, rows, embeds, filters, context) = kept(x)
  BY DEF KeptRows
<1> HIDE DEF inner, matched, fine
<1>4. {r \in rows : \A i \in inner : matched(e, r, i)} = {r \in rows : \A i \in inner : matched(d, r, i)}
  BY <1>1
<1>5. (\A r \in rows, i \in inner : (\A j \in inner : j < i => matched(e, r, j)) => fine(e, i))
        = (\A r \in rows, i \in inner : (\A j \in inner : j < i => matched(d, r, j)) => fine(d, i))
  BY <1>1, <1>2
<1>6. kept(e) = kept(d)
  BY <1>4, <1>5
<1>7. kept(d).rows \in SUBSET rows
  OBVIOUS
<1> HIDE DEF kept
<1>8. QED
  BY <1>3, <1>6, <1>7

(* The places that are embedded at: visible rows.                          *)
ShownAt(d, context, place) ==
    /\ place \in Places /\ place.table \in DOMAIN d.rows
    /\ place.row \in Visible(d, place.table, context)

LEMMA ForShown ==
  ASSUME NEW d, Plain(d), NEW context, NEW t \in DOMAIN d.rows, NEW r \in Visible(d, t, context),
         NEW spec \in Specs
  PROVE  /\ ShownAt(d, context, For(t, r, spec))
         /\ For(t, r, spec).table = t /\ For(t, r, spec).row = r /\ For(t, r, spec).spec = spec
<1>1. t \in Names /\ r \in Nat
  BY VisibleRows DEF Plain, Viewed
<1>2. QED
  BY <1>1 DEF ShownAt, For, Places

LEMMA TwinProject ==
  ASSUME NEW d, NEW e, NEW context, Twins(d, e, context), NEW t \in DOMAIN d.rows, NEW ids,
         \A i \in DOMAIN ids : ids[i] \in Visible(d, t, context), NEW embeds \in Seq(Specs), NEW f, NEW g,
         \A place : ShownAt(d, context, place) => g[place] = f[place]
  PROVE  Project(e, t, ids, embeds, g) = Project(d, t, ids, embeds, f)
<1> DEFINE place(i, j) == For(t, ids[i], embeds[j])
           entry(x, h, i) == [row |-> x.rows[t][ids[i]],
                              embeds |-> [j \in DOMAIN embeds |-> h[place(i, j)].rows]]
           fine(h) == \A i \in DOMAIN ids, j \in DOMAIN embeds : h[place(i, j)].ok
<1>1. \A x, h : Project(x, t, ids, embeds, h) =
                  IF fine(h) THEN Answer([i \in DOMAIN ids |-> entry(x, h, i)]) ELSE NoAnswer
  BY DEF Project, Rows
<1>2. \A i \in DOMAIN ids, j \in DOMAIN embeds : g[place(i, j)] = f[place(i, j)]
  <2>1. \A j \in DOMAIN embeds : embeds[j] \in Specs
    OBVIOUS
  <2>2. \A i \in DOMAIN ids, j \in DOMAIN embeds : ShownAt(d, context, place(i, j))
    BY <2>1, ForShown DEF Twins
  <2>3. QED
    BY <2>2
<1>3. \A i \in DOMAIN ids : e.rows[t][ids[i]] = d.rows[t][ids[i]]
  BY DEF Twins, Twin
<1> HIDE DEF place
<1>4. fine(g) <=> fine(f)
  BY <1>2
<1>5. \A i \in DOMAIN ids : entry(e, g, i) = entry(d, f, i)
  BY <1>2, <1>3
<1> HIDE DEF entry, fine
<1>6. [i \in DOMAIN ids |-> entry(e, g, i)] = [i \in DOMAIN ids |-> entry(d, f, i)]
  BY <1>5
<1>7. QED
  BY <1>1, <1>4, <1>6

LEMMA TwinEmbed ==
  ASSUME NEW d, NEW e, NEW context, Twins(d, e, context), NEW place, ShownAt(d, context, place),
         NEW filters, NEW f, NEW g, \A p : ShownAt(d, context, p) => g[p] = f[p]
  PROVE  Embed(e, place, filters, context, g) = Embed(d, place, filters, context, f)
<1> DEFINE t == place.table
           spec == place.spec
           found == resolve_relation(d, t, spec)
           S == Related(d, t, place.row, spec, filters, context)
           projected(x, h) == Project(x, spec.target, Ordered(S), spec.nested, h)
           shaped(rows) == IF found.relation.outgoing /\ rows # <<>> THEN <<Last(rows)>> ELSE rows
           result(x, h) == IF ~ found.ok \/ ~ projected(x, h).ok THEN NoAnswer
                           ELSE Answer(shaped(projected(x, h).rows))
<1>1. t \in DOMAIN d.rows /\ place.row \in Visible(d, t, context) /\ spec \in Specs
  BY DEF ShownAt, Places
<1>2. resolve_relation(e, t, spec) = found
  BY TwinRelations
<1>3. Embed(d, place, filters, context, f) = result(d, f)
  BY DEF Embed
<1>4. CASE ~ found.ok
  <2>1. Embed(d, place, filters, context, f) = NoAnswer
    BY <1>4 DEF Embed
  <2>2. Embed(e, place, filters, context, g) = NoAnswer
    BY <1>2, <1>4 DEF Embed
  <2>3. QED
    BY <2>1, <2>2
<1>5. CASE found.ok
  <2>1. spec.target \in DOMAIN d.rows
    BY <1>5, TwinRelations
  <2>2. Related(e, t, place.row, spec, filters, context) = S /\ S \in SUBSET Visible(d, spec.target, context)
    BY <1>1, <2>1, TwinRelated
  <2>3. Embed(e, place, filters, context, g) = result(e, g)
    BY <1>2, <2>2 DEF Embed
  <2>4. projected(e, g) = projected(d, f)
    <3>1. S \in SUBSET DOMAIN d.rows[spec.target] /\ Plain(d) /\ spec.nested \in Seq(Specs)
      BY <1>1, <2>2, VisibleRows, PartsOfSpec DEF Twins
    <3> DEFINE ids == Ordered(S)
               target == spec.target
               nested == spec.nested
    <3> HIDE DEF S, target, nested
    <3>2. DOMAIN ids = 1..Cardinality(S) /\ \A i \in 1..Cardinality(S) : ids[i] \in S
      BY <2>1, <3>1, OrderedVisible DEF target
    <3> HIDE DEF ids
    <3>3. \A i \in DOMAIN ids : ids[i] \in Visible(d, target, context)
      BY <2>2, <3>2 DEF target
    <3>4. Project(e, target, ids, nested, g) = Project(d, target, ids, nested, f)
      BY SMTT(30), <2>1, <3>1, <3>3, TwinProject DEF target, nested
    <3>5. QED
      BY <3>4 DEF ids, target, nested
  <2> HIDE DEF projected, shaped, found
  <2>5. result(e, g) = result(d, f)
    BY <2>4
  <2>6. QED
    BY <1>3, <2>3, <2>5
<1>6. QED
  BY <1>4, <1>5

LEMMA TwinEmbedding ==
  ASSUME NEW d, NEW e, NEW context, Twins(d, e, context), NEW filters, NEW n \in 0..MaxText
  PROVE  \A place : ShownAt(d, context, place) =>
            Embedding(e, filters, context)[n][place] = Embedding(d, filters, context)[n][place]
<1> DEFINE F == Embedding(d, filters, context)
           G == Embedding(e, filters, context)
           T == {k \in Nat : k \in 0..MaxText =>
                    \A place : ShownAt(d, context, place) => G[k][place] = F[k][place]}
<1>1. 0 \in T
  <2>1. \A place \in Places : F[0][place] = NoAnswer /\ G[0][place] = NoAnswer
    BY EmbeddingSteps
  <2> HIDE DEF F, G
  <2>2. QED
    BY <2>1 DEF ShownAt
<1>2. ASSUME NEW k \in T PROVE k + 1 \in T
  <2> SUFFICES ASSUME k + 1 \in 0..MaxText, NEW place, ShownAt(d, context, place)
               PROVE  G[k + 1][place] = F[k + 1][place]
    OBVIOUS
  <2> DEFINE j == k + 1
             f == F[k]
             g == G[k]
  <2>1. j \in 0..MaxText /\ j # 0 /\ j - 1 = k /\ k \in 0..MaxText
    BY BoundsAre
  <2>2. \A p : ShownAt(d, context, p) => g[p] = f[p]
    BY <2>1
  <2> HIDE DEF j
  <2>3. place \in Places
    BY DEF ShownAt
  <2>4. F[j][place] = Embed(d, place, filters, context, f) /\ G[j][place] = Embed(e, place, filters, context, g)
    BY <2>1, <2>3, EmbeddingSteps
  <2> HIDE DEF F, G, f, g
  <2>5. G[j][place] = F[j][place]
    BY <2>2, <2>4, TwinEmbed
  <2>6. QED
    BY <2>5 DEF j
<1>3. T = Nat
  <2> HIDE DEF T
  <2>1. T \in SUBSET Nat
    BY DEF T
  <2>2. QED
    BY <1>1, <1>2, <2>1, Induction
<1>4. n \in T
  <2> HIDE DEF T
  <2>1. QED
    BY <1>3
<1> HIDE DEF F, G
<1>5. \A place : ShownAt(d, context, place) => G[n][place] = F[n][place]
  BY <1>4
<1>6. QED
  BY <1>5 DEF F, G

LEMMA SelectIsText ==
  ASSUME NEW name \in Names
  PROVE  Select(<<Named(name)>>) \in Texts
<1> DEFINE A == [name: Names, query: TextsTo[MaxText - 1]]
           B == Sources(TextsTo[MaxText - 1])
<1>1. Named(name) \in B
  BY DEF Named, Sources
<1> HIDE DEF A, B
<1>2. <<Named(name)>> \in Seq(B) /\ <<>> \in Seq(A)
  BY <1>1
<1>3. Texts = [with: Seq(A), from: Seq(B)]
  <2>1. MaxText \in 1..MaxText
    BY BoundsAre
  <2>2. QED
    BY <2>1, TextsSteps DEF A, B, Texts
<1>4. QED
  BY <1>2, <1>3 DEF Select

LEMMA TwinResolved ==
  ASSUME NEW d, NEW e, NEW context, Twins(d, e, context), NEW name \in Names
  PROVE  /\ Resolved(e, name, context).ok = Resolved(d, name, context).ok
         /\ Twins(Resolved(d, name, context).db, Resolved(e, name, context).db, context)
<1> DEFINE query == Select(<<Named(name)>>)
           a == prepared(d, query, context)
           b == prepared(e, query, context)
           m(x) == materialize(x.db, query, context, name)
<1>1. query \in Texts
  BY SelectIsText
<1> HIDE DEF query
<1>2. b.ok = a.ok /\ Twins(a.db, b.db, context)
  BY <1>1, TwinPrepared
<1>3. Views(e) = Views(d)
  BY DEF Twins, Twin, Views
<1>4. /\ Resolved(d, name, context) =
            IF name \notin DOMAIN Views(d) THEN Success(d)
            ELSE IF a.ok /\ name \in DOMAIN Views(a.db) THEN m(a) ELSE a
      /\ Resolved(e, name, context) =
            IF name \notin DOMAIN Views(e) THEN Success(e)
            ELSE IF b.ok /\ name \in DOMAIN Views(b.db) THEN m(b) ELSE b
  BY DEF Resolved, ResolvedView, Evaluated, query
<1> HIDE DEF a, b
<1>5. Views(b.db) = Views(a.db)
  BY <1>2 DEF Twins, Twin, Views
<1>6. m(b).ok = m(a).ok /\ Twins(m(a).db, m(b).db, context)
  BY <1>1, <1>2, TwinMaterialize
<1> HIDE DEF m
<1>7. QED
  BY <1>2, <1>3, <1>4, <1>5, <1>6, ResultIs

(* A list of rows, whole.                                                  *)
LEMMA WholePage ==
  ASSUME NEW S \in SUBSET Nat, IsFiniteSet(S), NEW request \in Gets
  PROVE  /\ Window(request) = [ok |-> TRUE, offset |-> 0, limit |-> Unlimited]
         /\ Page(Ordered(S), Window(request)) = Ordered(S)
<1> DEFINE s == Ordered(S)
           n == Cardinality(S)
           w == Window(request)
<1>1. n \in Nat /\ DOMAIN s = 1..n /\ \A i \in 1..n : s[i] \in Nat
  <2>1. n \in Nat /\ \A i \in 1..n : s[i] \in S
    BY OrderedLists
  <2>2. DOMAIN s = 1..n
    BY DEF Ordered
  <2>3. QED
    BY <2>1, <2>2
<1>2. s = [i \in 1..n |-> s[i]]
  <2> DEFINE body(i) == CHOOSE x \in S : Cardinality({y \in S : y < x}) = i - 1
  <2>1. s = [i \in 1..n |-> body(i)]
    BY DEF Ordered
  <2> HIDE DEF s, n, body
  <2>2. QED
    BY <2>1
<1> HIDE DEF s, n
<1>3. s \in Seq(Nat) /\ Len(s) = n
  BY <1>1, <1>2
<1>4. request.range = Absent /\ request.offset = 0 /\ request.limit = Unlimited
  <2>1. request = [table |-> request.table, filters |-> request.filters, embeds |-> request.embeds,
                   offset |-> 0, limit |-> Unlimited, range |-> Absent, single |-> request.single]
    BY RestAssumption
  <2>2. QED
    BY <2>1
<1>5. w = [ok |-> TRUE, offset |-> 0, limit |-> Unlimited]
  BY <1>4 DEF Window
<1> HIDE DEF w
<1>6. w.limit = Unlimited /\ w.offset = 0
  BY <1>5
<1>7. Page(s, w) = SubSeq(s, 1, n)
  BY <1>3, <1>6 DEF Page
<1>8. SubSeq(s, 1, n) = s
  BY <1>3
<1>9. QED
  BY <1>5, <1>7, <1>8 DEF s, w

LEMMA TwinGetTable ==
  ASSUME NEW d, NEW e, NEW context, Twins(d, e, context), NEW request \in Gets
  PROVE  GetTable(e, request, context) = GetTable(d, request, context)
<1> DEFINE t == request.table
           kept(x) == filter_referenced_rows(x, t, Selected(x, t, request.filters, context), request, context)
           page(x) == Page(Ordered(kept(x).rows), Window(request))
           projected(x) == Project(x, t, page(x), request.embeds,
                                   Embedding(x, request.filters, context)[MaxText])
           result(x) == IF t \notin DOMAIN x.rows \/ ~ kept(x).ok \/ ~ projected(x).ok THEN Failed
                        ELSE Respond(projected(x).rows, Cardinality(kept(x).rows), request)
<1>1. GetTable(d, request, context) = result(d) /\ GetTable(e, request, context) = result(e)
  BY DEF GetTable
<1>2. DOMAIN e.rows = DOMAIN d.rows /\ Plain(d)
  BY DEF Twins, Twin
<1>3. CASE t \notin DOMAIN d.rows
  BY <1>1, <1>2, <1>3
<1>4. CASE t \in DOMAIN d.rows
  <2> DEFINE rows == Selected(d, t, request.filters, context)
             K == kept(d).rows
  <2>1. Selected(e, t, request.filters, context) = rows /\ rows \in SUBSET Visible(d, t, context)
    BY <1>4, TwinSelected
  <2>2. kept(e) = kept(d) /\ K \in SUBSET rows
    <3>1. kept(d) = KeptRows(d, t, rows, request.embeds, request.filters, context)
      BY DEF filter_referenced_rows
    <3>2. kept(e) = KeptRows(e, t, rows, request.embeds, request.filters, context)
      BY <2>1 DEF filter_referenced_rows
    <3> HIDE DEF kept, rows
    <3>3. QED
      BY <1>4, <2>1, <3>1, <3>2, TwinKept
  <2> HIDE DEF kept, rows
  <2>3. K \in SUBSET DOMAIN d.rows[t] /\ K \in SUBSET Visible(d, t, context)
    BY <2>1, <2>2, VisibleRows
  <2> DEFINE ids == Ordered(K)
  <2> HIDE DEF K
  <2>4. /\ K \in SUBSET Nat /\ IsFiniteSet(K) /\ DOMAIN ids = 1..Cardinality(K)
        /\ \A i \in 1..Cardinality(K) : ids[i] \in K
    BY <1>2, <1>4, <2>3, OrderedVisible
  <2>5. page(d) = ids
    BY <2>4, WholePage DEF K
  <2>6. page(e) = page(d)
    BY <2>2
  <2> HIDE DEF ids
  <2>7. \A i \in DOMAIN ids : ids[i] \in Visible(d, t, context)
    BY <2>3, <2>4
  <2> DEFINE F == Embedding(d, request.filters, context)[MaxText]
             G == Embedding(e, request.filters, context)[MaxText]
             embeds == request.embeds
  <2>8. \A place : ShownAt(d, context, place) => G[place] = F[place]
    BY TwinEmbedding, BoundsAre
  <2>9. embeds \in Seq(Specs)
    BY RestAssumption
  <2> HIDE DEF F, G, embeds, page, t
  <2>10. Project(e, t, ids, embeds, G) = Project(d, t, ids, embeds, F)
    BY <1>4, <2>7, <2>8, <2>9, TwinProject
  <2>11. projected(e) = projected(d)
    BY <2>5, <2>6, <2>10 DEF F, G, embeds
  <2> HIDE DEF projected
  <2>12. result(e) = result(d)
    BY <1>2, <2>2, <2>11
  <2>13. QED
    BY <1>1, <2>12
<1>5. QED
  BY <1>3, <1>4

LEMMA TwinGet ==
  ASSUME NEW d, NEW e, NEW context, Twins(d, e, context), NEW request \in Gets
  PROVE  Get(e, request, context) = Get(d, request, context)
<1> DEFINE a == Resolved(d, request.table, context)
           b == Resolved(e, request.table, context)
<1>1. request.table \in Names
  BY RestAssumption
<1>2. b.ok = a.ok /\ Twins(a.db, b.db, context)
  BY <1>1, TwinResolved
<1>3. /\ Get(d, request, context) =
           IF a.ok /\ Window(request).ok THEN GetTable(a.db, request, context) ELSE Failed
      /\ Get(e, request, context) =
           IF b.ok /\ Window(request).ok THEN GetTable(b.db, request, context) ELSE Failed
  BY DEF Get, GetFrom
<1> HIDE DEF a, b
<1>4. GetTable(b.db, request, context) = GetTable(a.db, request, context)
  BY <1>2, TwinGetTable
<1>5. QED
  BY <1>2, <1>3, <1>4

(* The catalog of the database and its tables stay those of the database   *)
(* it started from.                                                        *)
LEMMA StartedFrom ==
  ASSUME EngineInv, [EngineNext]_engineVars, Viewed(db)
  PROVE  EngineInv' /\ Viewed(db)'
<1>1. EngineInv' /\ (db' = db \/ Publishes)
  BY EveryStep
<1>2. db'.catalog = db.catalog /\ DOMAIN db'.rows = DOMAIN db.rows
  BY <1>1 DEF Publishes, Working, Stays
<1>3. QED
  BY <1>1, <1>2 DEF Viewed, Views

QueryInv == EngineInv /\ Viewed(db)

LEMMA QueryInvHolds == EngineSpec => []QueryInv
<1>1. EngineInit => QueryInv
  BY EngineInvInit, QueriesAssumption DEF EngineInit, QueryInv
<1>2. QueryInv /\ [EngineNext]_engineVars => QueryInv'
  BY StartedFrom DEF QueryInv
<1>3. QED
  BY <1>1, <1>2, PTL DEF EngineSpec

(* No answer, failures included, depends on a row its reader may not       *)
(* SELECT: not through an embed, a filter on one, a view or a count        *)
(* (read_table, relation_rows, query_batches).                             *)
THEOREM HiddenRowsAreIgnored == EngineSpec => []AnswersIgnoreHiddenRows
<1>1. QueryInv => AnswersIgnoreHiddenRows
  <2> SUFFICES ASSUME QueryInv, NEW context \in Contexts
               PROVE  /\ \A request \in Gets :
                            Get(db, request, context) = Get(Readable(db, context), request, context)
                      /\ \A query \in Questions :
                            execute(db, query, context) = execute(Readable(db, context), query, context)
    BY DEF AnswersIgnoreHiddenRows
  <2>1. Twins(db, Readable(db, context), context)
    BY FormedIsPlain, ReadableTwin DEF QueryInv, EngineInv
  <2>2. \A query \in Questions : query \in Texts
    BY QueriesAssumption
  <2>3. QED
    BY <2>1, <2>2, TwinGet, TwinExecute
<1>2. QED
  BY <1>1, QueryInvHolds, PTL

----------------------------------------------------------------------------
(* Pages.  What is shown of a row does not depend on the rows around it.   *)
Item(d, t, r, embeds, f) ==
    [row |-> Rows(d, t)[r], embeds |-> [j \in DOMAIN embeds |-> f[For(t, r, embeds[j])].rows]]

Shows(p, d, t, ids, embeds, f) ==
    /\ Len(p.rows) = Len(ids) /\ p.rows \in Seq({Item(d, t, ids[i], embeds, f) : i \in DOMAIN ids})
    /\ \A i \in 1..Len(ids) : p.rows[i] = Item(d, t, ids[i], embeds, f)

LEMMA ProjectShows ==
  ASSUME NEW d, NEW t, NEW S, NEW ids \in Seq(S), NEW embeds, NEW f,
         Project(d, t, ids, embeds, f).ok
  PROVE  /\ Shows(Project(d, t, ids, embeds, f), d, t, ids, embeds, f)
         /\ \A i \in 1..Len(ids), j \in DOMAIN embeds : f[For(t, ids[i], embeds[j])].ok
<1> DEFINE p == Project(d, t, ids, embeds, f)
           item(i) == Item(d, t, ids[i], embeds, f)
           fine == \A i \in DOMAIN ids, j \in DOMAIN embeds : f[For(t, ids[i], embeds[j])].ok
           n == Len(ids)
<1>1. p = IF fine THEN Answer([i \in DOMAIN ids |-> item(i)]) ELSE NoAnswer
  BY DEF Project, Item
<1>2. n \in Nat /\ DOMAIN ids = 1..n
  OBVIOUS
<1> HIDE DEF item, p, n
<1>3. fine
  BY <1>1 DEF NoAnswer, p
<1> HIDE DEF fine
<1>4. p.rows = [i \in 1..n |-> item(i)]
  BY <1>1, <1>2, <1>3 DEF Answer
<1>5. [i \in 1..n |-> item(i)] \in Seq({item(i) : i \in 1..n})
  <2> DEFINE I == {item(i) : i \in 1..n}
  <2>1. \A i \in 1..n : item(i) \in I
    OBVIOUS
  <2> HIDE DEF I
  <2>2. [i \in 1..n |-> item(i)] \in Seq(I)
    BY <1>2, <2>1
  <2>3. QED
    BY <2>2 DEF I
<1>6. Len(p.rows) = n /\ \A i \in 1..n : p.rows[i] = item(i)
  BY <1>2, <1>4
<1>7. p.rows \in Seq({item(i) : i \in DOMAIN ids})
  BY <1>2, <1>4, <1>5
<1>8. Shows(p, d, t, ids, embeds, f)
  BY <1>6, <1>7 DEF Shows, item, n
<1>9. QED
  BY <1>2, <1>3, <1>8 DEF p, n, fine

LEMMA ProjectPart ==
  ASSUME NEW d, NEW t, NEW S, NEW ids \in Seq(S), NEW embeds, NEW f,
         Project(d, t, ids, embeds, f).ok, NEW m \in Nat, NEW n \in Nat, n =< Len(ids)
  PROVE  Project(d, t, SubSeq(ids, m + 1, n), embeds, f)
           = Answer(SubSeq(Project(d, t, ids, embeds, f).rows, m + 1, n))
<1> DEFINE p == Project(d, t, ids, embeds, f)
           item(r) == Item(d, t, r, embeds, f)
           I == {Item(d, t, ids[i], embeds, f) : i \in DOMAIN ids}
           part == SubSeq(ids, m + 1, n)
           fine(s) == \A i \in DOMAIN s, j \in DOMAIN embeds : f[For(t, s[i], embeds[j])].ok
<1>1. /\ Len(p.rows) = Len(ids) /\ p.rows \in Seq(I)
      /\ \A i \in 1..Len(ids) : p.rows[i] = item(ids[i])
      /\ \A i \in 1..Len(ids), j \in DOMAIN embeds : f[For(t, ids[i], embeds[j])].ok
  <2>1. /\ Shows(p, d, t, ids, embeds, f)
        /\ \A i \in 1..Len(ids), j \in DOMAIN embeds : f[For(t, ids[i], embeds[j])].ok
    BY ProjectShows
  <2> HIDE DEF p
  <2>2. QED
    BY <2>1 DEF Shows
<1>2. Project(d, t, part, embeds, f)
        = IF fine(part) THEN Answer([i \in DOMAIN part |-> item(part[i])]) ELSE NoAnswer
  BY DEF Project, Item
<1>3. DOMAIN part = 1..(n - m) /\ \A i \in 1..(n - m) : part[i] = ids[i + m] /\ i + m \in 1..Len(ids)
  OBVIOUS
<1> HIDE DEF item, p, part, I
<1>4. fine(part)
  BY <1>1, <1>3
<1>5. SubSeq(p.rows, m + 1, n) = [i \in 1..(n - m) |-> p.rows[i + m]]
  BY <1>1
<1>6. \A i \in 1..(n - m) : item(part[i]) = p.rows[i + m]
  BY <1>1, <1>3
<1>7. [i \in DOMAIN part |-> item(part[i])] = SubSeq(p.rows, m + 1, n)
  BY <1>3, <1>5, <1>6
<1> HIDE DEF fine
<1>8. Project(d, t, part, embeds, f) = Answer(SubSeq(p.rows, m + 1, n))
  BY <1>2, <1>4, <1>7
<1>9. QED
  BY <1>8 DEF p, part

(* Two requests for rows of the same kind, the one for a part of them.     *)
SameRows(page, request) ==
    /\ page.table = request.table /\ page.filters = request.filters /\ page.embeds = request.embeds
    /\ page.single = request.single

Cuts(page, m, n) == Window(page) = [ok |-> TRUE, offset |-> m, limit |-> n]

LEMMA PagesCut ==
  ASSUME NEW request \in Gets, NEW n \in 1..2, NEW k \in Nat,
         NEW page \in {Paged(request, n, k), Ranged(request, n, k)}
  PROVE  SameRows(page, request) /\ Cuts(page, n * k, n) /\ n * k \in Nat
<1> DEFINE table == request.table
           filters == request.filters
           embeds == request.embeds
           single == request.single
           m == n * k
<1>1. request = [table |-> table, filters |-> filters, embeds |-> embeds, offset |-> 0,
                 limit |-> Unlimited, range |-> Absent, single |-> single]
  BY RestAssumption
<1>2. m \in Nat
  <2>1. CASE n = 1
    BY <2>1
  <2>2. CASE n = 2
    BY <2>2
  <2>3. QED
    BY <2>1, <2>2
<1> DEFINE range == [first |-> m, last |-> m + n - 1]
<1>3. range # Absent /\ range.first = m /\ range.last \in Nat /\ range.last # Absent
      /\ range.last >= range.first /\ range.last - range.first + 1 = n
  <2>1. range.first = m /\ range.last = m + n - 1
    OBVIOUS
  <2>2. m + n - 1 \in Nat
    BY <1>2
  <2> DEFINE last == m + n - 1
  <2> HIDE DEF last, m
  <2>3. [first |-> m, last |-> last] \in [first: Nat, last: {Absent} \cup Nat]
    BY <1>2, <2>2 DEF last
  <2>4. range # Absent /\ last # Absent
    BY <2>2, <2>3, RestAssumption DEF last
  <2>5. QED
    BY <1>2, <2>1, <2>2, <2>4 DEF last
<1> HIDE DEF table, filters, embeds, single, m, range
<1>4. CASE page = Paged(request, n, k)
  <2> DEFINE once == [request EXCEPT !.offset = m]
  <2>1. once = [table |-> table, filters |-> filters, embeds |-> embeds, offset |-> m,
                limit |-> Unlimited, range |-> Absent, single |-> single]
    BY ONLY <1>1
  <2>2. [request EXCEPT !.offset = m, !.limit = n] = [once EXCEPT !.limit = n]
    OBVIOUS
  <2> HIDE DEF once
  <2>3. [once EXCEPT !.limit = n] =
          [table |-> table, filters |-> filters, embeds |-> embeds, offset |-> m,
           limit |-> n, range |-> Absent, single |-> single]
    BY ONLY <2>1
  <2>4. page = [table |-> table, filters |-> filters, embeds |-> embeds, offset |-> m,
                limit |-> n, range |-> Absent, single |-> single]
    BY <1>4, <2>2, <2>3 DEF Paged, m
  <2>5. Cuts(page, m, n)
    BY <2>4 DEF Cuts, Window
  <2>6. SameRows(page, request)
    BY <2>4 DEF SameRows, table, filters, embeds, single
  <2>7. QED
    BY <1>2, <2>5, <2>6 DEF m
<1>5. CASE page = Ranged(request, n, k)
  <2>1. [request EXCEPT !.range = range] =
          [table |-> table, filters |-> filters, embeds |-> embeds, offset |-> 0,
           limit |-> Unlimited, range |-> range, single |-> single]
    BY ONLY <1>1
  <2>2. page = [table |-> table, filters |-> filters, embeds |-> embeds, offset |-> 0,
                limit |-> Unlimited, range |-> range, single |-> single]
    BY <1>5, <2>1 DEF Ranged, m, range
  <2>3. Window(page) = [ok |-> range.last >= range.first, offset |-> range.first,
                        limit |-> range.last - range.first + 1]
    BY <1>3, <2>2 DEF Window
  <2>4. Cuts(page, m, n)
    BY <1>3, <2>3 DEF Cuts
  <2>5. SameRows(page, request)
    BY <2>2 DEF SameRows, table, filters, embeds, single
  <2>6. QED
    BY <1>2, <2>4, <2>5 DEF m
<1>6. QED
  BY <1>4, <1>5

LEMMA SameTwin ==
  ASSUME NEW d, Plain(d), NEW context
  PROVE  Twins(d, d, context)
BY DEF Twins, Twin

LEMMA ResolvedIsPlain ==
  ASSUME NEW d, Plain(d), NEW context, NEW name \in Names
  PROVE  Plain(Resolved(d, name, context).db)
<1>1. Twins(Resolved(d, name, context).db, Resolved(d, name, context).db, context)
  BY SameTwin, TwinResolved
<1>2. QED
  BY <1>1 DEF Twins

(* The rows of a table that are asked for, and what is shown of them.      *)
Asked(d, request, context) ==
    KeptRows(d, request.table, Selected(d, request.table, request.filters, context),
             request.embeds, request.filters, context)

Told(d, request, ids, context) ==
    Project(d, request.table, ids, request.embeds, Embedding(d, request.filters, context)[MaxText])

LEMMA GetTableIs ==
  ASSUME NEW d, NEW context, NEW request, NEW page, SameRows(page, request)
  PROVE  LET kept == Asked(d, request, context)
             told == Told(d, request, Page(Ordered(kept.rows), Window(page)), context)
         IN  GetTable(d, page, context) =
                IF request.table \notin DOMAIN d.rows \/ ~ kept.ok \/ ~ told.ok THEN Failed
                ELSE Respond(told.rows, Cardinality(kept.rows), page)
BY DEF GetTable, filter_referenced_rows, SameRows, Asked, Told

LEMMA AskedRows ==
  ASSUME NEW d, Plain(d), NEW context, NEW request, request.table \in DOMAIN d.rows
  PROVE  LET K == Asked(d, request, context).rows
             s == Ordered(K)
         IN  /\ K \in SUBSET Visible(d, request.table, context)
             /\ K \in SUBSET Nat /\ IsFiniteSet(K) /\ Cardinality(K) \in Nat
             /\ s \in Seq(K) /\ Len(s) = Cardinality(K)
<1> DEFINE t == request.table
           rows == Selected(d, t, request.filters, context)
           K == Asked(d, request, context).rows
           s == Ordered(K)
           n == Cardinality(K)
<1>1. rows \in SUBSET Visible(d, t, context)
  BY SameTwin, TwinSelected
<1>2. K \in SUBSET Visible(d, t, context)
  <2>1. Asked(d, request, context) = KeptRows(d, t, rows, request.embeds, request.filters, context)
    BY DEF Asked
  <2> HIDE DEF rows
  <2>2. KeptRows(d, t, rows, request.embeds, request.filters, context).rows \in SUBSET rows
    BY <1>1, SameTwin, TwinKept
  <2>3. QED
    BY <1>1, <2>1, <2>2
<1> HIDE DEF K
<1>3. K \in SUBSET DOMAIN d.rows[t]
  BY <1>2, VisibleRows
<1>4. /\ n \in Nat /\ DOMAIN s = 1..n /\ K \in SUBSET Nat /\ IsFiniteSet(K)
      /\ \A i \in 1..n : s[i] \in K
  BY <1>3, OrderedVisible
<1>5. s = [i \in 1..n |-> s[i]]
  <2> DEFINE body(i) == CHOOSE x \in K : Cardinality({y \in K : y < x}) = i - 1
  <2>1. s = [i \in 1..n |-> body(i)]
    BY DEF Ordered
  <2> HIDE DEF s, n, body
  <2>2. QED
    BY <2>1
<1> HIDE DEF s, n
<1>6. s \in Seq(K) /\ Len(s) = n
  BY <1>4, <1>5
<1>7. QED
  BY <1>2, <1>4, <1>6 DEF K, s, n

(* One page of a table whose answer is known.                              *)
LEMMA PageIs ==
  ASSUME NEW d, Plain(d), NEW context, NEW request \in Gets, ~ request.single,
         NEW page, SameRows(page, request), NEW m \in Nat, NEW n \in 1..2, Cuts(page, m, n),
         GetTable(d, request, context).ok
  PROVE  LET whole == GetTable(d, request, context)
         IN  GetTable(d, page, context) =
                [ok |-> TRUE, total |-> whole.total,
                 rows |-> SubSeq(whole.rows, m + 1, IF m + n < whole.total THEN m + n ELSE whole.total),
                 first |-> IF m < whole.total THEN m ELSE Absent]
<1> DEFINE whole == GetTable(d, request, context)
           kept == Asked(d, request, context)
           K == kept.rows
           s == Ordered(K)
           N == Cardinality(K)
           p == Told(d, request, s, context)
           e == IF m + n < N THEN m + n ELSE N
           part == SubSeq(s, m + 1, e)
           rows == SubSeq(p.rows, m + 1, e)
           q == Told(d, request, part, context)
<1>1. SameRows(request, request)
  BY DEF SameRows
<1>2. LET told == Told(d, request, Page(s, Window(request)), context)
      IN  whole = IF request.table \notin DOMAIN d.rows \/ ~ kept.ok \/ ~ told.ok THEN Failed
                  ELSE Respond(told.rows, N, request)
  BY <1>1, GetTableIs
<1>3. request.table \in DOMAIN d.rows
  BY <1>2 DEF Failed
<1>4. K \in SUBSET Nat /\ IsFiniteSet(K) /\ N \in Nat /\ s \in Seq(K) /\ Len(s) = N
  BY <1>3, AskedRows
<1>5. Page(s, Window(request)) = s
  <2> HIDE DEF K
  <2>1. QED
    BY <1>4, WholePage
<1>6. kept.ok /\ p.ok /\ whole = Respond(p.rows, N, request)
  BY <1>2, <1>5 DEF Failed
<1>7. LET told == Told(d, request, Page(s, Window(page)), context)
      IN  GetTable(d, page, context) =
              IF request.table \notin DOMAIN d.rows \/ ~ kept.ok \/ ~ told.ok THEN Failed
              ELSE Respond(told.rows, N, page)
  BY GetTableIs
<1> HIDE DEF kept, K, s, N, whole
<1>8. e \in Nat /\ e =< Len(s)
  BY <1>4
<1>9. Page(s, Window(page)) = part
  <2> DEFINE w == Window(page)
  <2>1. w.offset = m /\ w.limit = n
    BY DEF Cuts
  <2>2. w.limit # Unlimited
    BY <2>1, RestAssumption
  <2> HIDE DEF w
  <2>3. QED
    BY <1>4, <2>1, <2>2 DEF Page, w
<1> HIDE DEF e
<1>10. Len(p.rows) = N /\ p.rows \in Seq({Item(d, request.table, s[i], request.embeds,
                                  Embedding(d, request.filters, context)[MaxText]) : i \in DOMAIN s})
  <2>1. Shows(p, d, request.table, s, request.embeds, Embedding(d, request.filters, context)[MaxText])
    BY <1>4, <1>6, ProjectShows DEF Told
  <2> HIDE DEF p
  <2>2. QED
    BY <1>4, <2>1 DEF Shows
<1>11. q = Answer(rows)
  BY <1>4, <1>6, <1>8, ProjectPart DEF Told
<1> HIDE DEF p, part, q
<1>12. GetTable(d, page, context) = Respond(rows, N, page)
  <2>1. q.ok /\ q.rows = rows
    BY <1>11 DEF Answer
  <2> HIDE DEF rows
  <2>2. QED
    BY <1>3, <1>6, <1>7, <1>9, <2>1 DEF q
<1>13. (rows = <<>>) <=> ~ (m < N)
  <2> DEFINE I == {Item(d, request.table, s[i], request.embeds,
                        Embedding(d, request.filters, context)[MaxText]) : i \in DOMAIN s}
  <2>1. Len(p.rows) = N /\ p.rows \in Seq(I)
    BY <1>10
  <2> HIDE DEF I
  <2>2. rows \in Seq(I) /\ Len(rows) = IF m =< e THEN e - m ELSE 0
    BY <1>4, <1>8, <2>1
  <2> HIDE DEF rows
  <2>3. Len(rows) = 0 <=> ~ (m < N)
    BY <1>4, <2>2 DEF e
  <2>4. QED
    BY <2>2, <2>3
<1>14. ~ page.single /\ Window(page).offset = m
  BY DEF SameRows, Cuts
<1>15. Respond(rows, N, page) =
          [ok |-> TRUE, total |-> N, rows |-> rows, first |-> IF m < N THEN m ELSE Absent]
  <2> HIDE DEF rows
  <2>1. QED
    BY <1>13, <1>14 DEF Respond
<1>16. whole.total = N /\ whole.rows = p.rows
  BY <1>6 DEF Respond
<1>17. QED
  BY <1>12, <1>15, <1>16 DEF whole, e

(* A row that is kept has what its !inner embeds ask for.                  *)
LEMMA EmbedOfSome ==
  ASSUME NEW d, Plain(d), NEW context, NEW place, ShownAt(d, context, place), NEW filters, NEW g,
         Matched(d, place.table, place.row, place.spec, filters, context),
         Embed(d, place, filters, context, g).ok
  PROVE  Embed(d, place, filters, context, g).rows # <<>>
<1> DEFINE t == place.table
           spec == place.spec
           target == spec.target
           nested == spec.nested
           found == resolve_relation(d, t, spec)
           S == Related(d, t, place.row, spec, filters, context)
           ids == Ordered(S)
           projected == Project(d, target, ids, nested, g)
           shaped(rows) == IF found.relation.outgoing /\ rows # <<>> THEN <<Last(rows)>> ELSE rows
<1>1. Embed(d, place, filters, context, g) =
        IF ~ found.ok \/ ~ projected.ok THEN NoAnswer ELSE Answer(shaped(projected.rows))
  BY DEF Embed
<1>2. S # {} /\ found.ok
  BY DEF Matched
<1>3. target \in DOMAIN d.rows
  BY <1>2, SameTwin, TwinRelations
<1>4. S \in SUBSET DOMAIN d.rows[target]
  <2>1. t \in DOMAIN d.rows /\ place.row \in Visible(d, t, context)
    BY DEF ShownAt
  <2>2. S \in SUBSET Visible(d, target, context)
    BY <1>3, <2>1, SameTwin, TwinRelated
  <2>3. QED
    BY <2>2, VisibleRows
<1> HIDE DEF S, target, nested, found
<1>5. /\ Cardinality(S) \in Nat /\ IsFiniteSet(S) /\ DOMAIN ids = 1..Cardinality(S)
      /\ \A i \in 1..Cardinality(S) : ids[i] \in S
  BY <1>3, <1>4, OrderedVisible
<1>6. Cardinality(S) # 0
  BY <1>2, <1>5, FS_EmptySet
<1>7. ids \in Seq(S) /\ Len(ids) # 0
  <2> DEFINE body(i) == CHOOSE x \in S : Cardinality({y \in S : y < x}) = i - 1
             n == Cardinality(S)
  <2>1. ids = [i \in 1..n |-> body(i)]
    BY DEF Ordered
  <2> HIDE DEF ids, n, body
  <2>2. ids = [i \in 1..n |-> ids[i]]
    BY <2>1
  <2>3. QED
    BY <1>5, <1>6, <2>2 DEF n
<1> HIDE DEF ids
<1>8. projected.ok
  <2> HIDE DEF projected
  <2>1. QED
    BY <1>1 DEF NoAnswer
<1>9. Shows(projected, d, target, ids, nested, g)
  BY <1>7, <1>8, ProjectShows
<1> HIDE DEF projected
<1>10. projected.rows # <<>>
  BY <1>7, <1>9 DEF Shows
<1> DEFINE rows == projected.rows
<1> HIDE DEF rows
<1>11. shaped(rows) # <<>>
  BY <1>10 DEF rows
<1> HIDE DEF shaped
<1>12. Embed(d, place, filters, context, g) = Answer(shaped(rows))
  BY <1>1, <1>2, <1>8 DEF rows
<1>13. QED
  BY <1>11, <1>12 DEF Answer

LEMMA InnerShown ==
  ASSUME NEW d, Plain(d), NEW context, NEW request \in Gets, request.table \in DOMAIN d.rows,
         NEW s, s = Ordered(Asked(d, request, context).rows), Told(d, request, s, context).ok,
         NEW r \in 1..Len(s), NEW i \in DOMAIN request.embeds, request.embeds[i].inner
  PROVE  Told(d, request, s, context).rows[r].embeds[i] # <<>>
<1> DEFINE t == request.table
           filters == request.filters
           embeds == request.embeds
           spec == embeds[i]
           K == Asked(d, request, context).rows
           E == Embedding(d, filters, context)
           F == E[MaxText]
           x == s[r]
           place == For(t, x, spec)
           told == Told(d, request, s, context)
<1>1. K \in SUBSET Visible(d, t, context) /\ s \in Seq(K)
  BY AskedRows
<1>2. x \in K /\ x \in Visible(d, t, context)
  <2> HIDE DEF K
  <2>1. QED
    BY <1>1
<1>3. embeds \in Seq(Specs) /\ spec \in Specs
  BY RestAssumption
<1>4. Matched(d, t, x, spec, filters, context)
  <2> DEFINE inner == {j \in DOMAIN embeds : embeds[j].inner}
             matched(y, j) == Matched(d, t, y, embeds[j], filters, context)
             rows == Selected(d, t, filters, context)
  <2>1. K = {y \in rows : \A j \in inner : matched(y, j)}
    BY DEF Asked, KeptRows
  <2>2. i \in inner
    OBVIOUS
  <2> HIDE DEF K, inner, matched, rows, x
  <2>3. matched(x, i)
    BY <1>2, <2>1, <2>2
  <2>4. QED
    BY <2>3 DEF matched, x
<1> HIDE DEF K, spec, x, t, filters
<1>5. ShownAt(d, context, place) /\ place.table = t /\ place.row = x /\ place.spec = spec
  BY <1>2, <1>3, ForShown DEF t
<1>6. /\ Shows(told, d, t, s, embeds, F)
      /\ \A j \in 1..Len(s), k \in DOMAIN embeds : F[For(t, s[j], embeds[k])].ok
  BY <1>1, ProjectShows DEF Told, t, filters
<1> HIDE DEF told, F
<1>7. F[place].ok
  BY <1>6 DEF x, spec
<1>8. told.rows[r] = Item(d, t, x, embeds, F)
  BY <1>6 DEF Shows, x
<1>9. told.rows[r].embeds[i] = F[place].rows
  BY <1>8 DEF Item, spec
<1> HIDE DEF place
<1>10. F[place] = Embed(d, place, filters, context, E[MaxText - 1])
  <2>1. MaxText \in 0..MaxText /\ MaxText # 0
    BY BoundsAre
  <2>2. place \in Places
    BY <1>5 DEF ShownAt
  <2>3. QED
    BY <2>1, <2>2, EmbeddingSteps DEF F
<1> DEFINE g == E[MaxText - 1]
<1> HIDE DEF E, g
<1>11. Embed(d, place, filters, context, g).rows # <<>>
  BY <1>4, <1>5, <1>7, <1>10, EmbedOfSome DEF g
<1>12. QED
  BY <1>9, <1>10, <1>11 DEF told, g

LEMMA CoveredInFull ==
  ASSUME Plain(db), NEW request \in Gets, ~ request.single, NEW context
  PROVE  Covered(request, context, Get(db, request, context))
<1> DEFINE t == request.table
           ready == Resolved(db, t, context)
           d == ready.db
           whole == Get(db, request, context)
           kept == Asked(d, request, context)
           K == kept.rows
           s == Ordered(K)
           p == Told(d, request, s, context)
<1> SUFFICES ASSUME whole.ok
             PROVE  /\ whole.total = Len(whole.rows)
                    /\ \A r \in DOMAIN whole.rows, i \in DOMAIN request.embeds :
                          request.embeds[i].inner => whole.rows[r].embeds[i] # <<>>
                    /\ \A n \in 1..2, k \in 0..whole.total :
                          \A page \in {Paged(request, n, k), Ranged(request, n, k)} :
                              Get(db, page, context) = PageOf(whole, n, k)
  BY DEF Covered
<1>1. t \in Names
  BY RestAssumption
<1>2. Plain(d)
  BY <1>1, ResolvedIsPlain
<1>3. ready.ok /\ whole = GetTable(d, request, context)
  BY DEF Get, GetFrom, Failed
<1> HIDE DEF d, ready, whole
<1>4. SameRows(request, request)
  BY DEF SameRows
<1>5. LET told == Told(d, request, Page(s, Window(request)), context)
      IN  whole = IF t \notin DOMAIN d.rows \/ ~ kept.ok \/ ~ told.ok THEN Failed
                  ELSE Respond(told.rows, Cardinality(K), request)
  BY <1>3, <1>4, GetTableIs
<1>6. t \in DOMAIN d.rows
  BY <1>5 DEF Failed
<1>7. /\ K \in SUBSET Nat /\ IsFiniteSet(K) /\ Cardinality(K) \in Nat
      /\ s \in Seq(K) /\ Len(s) = Cardinality(K)
  BY <1>2, <1>6, AskedRows
<1>8. Page(s, Window(request)) = s
  <2> HIDE DEF K
  <2>1. QED
    BY <1>7, WholePage
<1>9. p.ok /\ whole = Respond(p.rows, Cardinality(K), request)
  BY <1>5, <1>8 DEF Failed
<1>10. Shows(p, d, t, s, request.embeds, Embedding(d, request.filters, context)[MaxText])
  BY <1>7, <1>9, ProjectShows DEF Told
<1>11. whole.rows = p.rows /\ whole.total = Cardinality(K)
  BY <1>9 DEF Respond
<1>12. whole.total = Len(whole.rows) /\ DOMAIN whole.rows = 1..Len(s) /\ whole.total \in Nat
  <2> HIDE DEF p, s, K
  <2>1. QED
    BY <1>7, <1>10, <1>11 DEF Shows
<1>13. ASSUME NEW r \in DOMAIN whole.rows, NEW i \in DOMAIN request.embeds, request.embeds[i].inner
       PROVE  whole.rows[r].embeds[i] # <<>>
  <2>1. s = Ordered(Asked(d, request, context).rows) /\ r \in 1..Len(s)
    BY <1>12
  <2> HIDE DEF s
  <2>2. Told(d, request, s, context).rows[r].embeds[i] # <<>>
    BY <1>2, <1>6, <1>9, <1>13, <2>1, InnerShown
  <2>3. QED
    BY <1>11, <2>2
<1>14. ASSUME NEW n \in 1..2, NEW k \in 0..whole.total,
              NEW page \in {Paged(request, n, k), Ranged(request, n, k)}
       PROVE  Get(db, page, context) = PageOf(whole, n, k)
  <2> DEFINE m == n * k
  <2>1. SameRows(page, request) /\ Cuts(page, m, n) /\ m \in Nat
    <3>1. k \in Nat
      BY <1>12
    <3>2. SameRows(page, request) /\ Cuts(page, n * k, n) /\ n * k \in Nat
      BY <3>1, PagesCut
    <3>3. QED
      BY <3>2
  <2>2. Get(db, page, context) = GetTable(d, page, context)
    BY <1>3, <2>1 DEF Get, GetFrom, SameRows, Cuts, d, ready
  <2> HIDE DEF m
  <2>3. GetTable(d, page, context) =
          [ok |-> TRUE, total |-> whole.total,
           rows |-> SubSeq(whole.rows, m + 1, IF m + n < whole.total THEN m + n ELSE whole.total),
           first |-> IF m < whole.total THEN m ELSE Absent]
    BY <1>2, <1>3, <2>1, PageIs
  <2>4. QED
    BY <2>2, <2>3 DEF PageOf, m
<1>15. QED
  BY <1>12, <1>13, <1>14

(* Whoever reads an answer page by page, by limit and offset or by Range,  *)
(* sees every row of the answer once and in its place, and the count of    *)
(* every page is that of all rows, each of which has what it is asked to   *)
(* have with !inner (table, filter_referenced_rows: "before root           *)
(* pagination").                                                           *)
THEOREM PagesAreTheAnswer == EngineSpec => []PagesCoverTheAnswer
<1>1. QueryInv => PagesCoverTheAnswer
  BY FormedIsPlain, CoveredInFull DEF QueryInv, EngineInv, PagesCoverTheAnswer
<1>2. QED
  BY <1>1, QueryInvHolds, PTL

----------------------------------------------------------------------------
(* What has been normalized stays as it is when it is normalized once more *)
(* under more CTEs, as the text of a view is where it is put.              *)
Unfolded(views, source, place, inner) ==
    inner[Visit(views[source.name].query, place.path \cup {source.name})]

IsCte(source, place) == source.kind = "name" /\ source.name \in place.ctes

SourceBecomes(views, tables, source, place, inner, done) ==
    \/ source.kind = "query" /\ done = inner[At(place, source.query)]
    \/ source.kind # "query" /\ IsCte(source, place) /\ done = Rewritten(source, {})
    \/ /\ source.kind # "query" /\ ~ IsCte(source, place) /\ source.name \in DOMAIN views
       /\ Unfolded(views, source, place, inner).ok
       /\ done = inner[At(place, Unfolded(views, source, place, inner).source.query)]
    \/ /\ source.kind # "query" /\ ~ IsCte(source, place)
       /\ source.name \notin DOMAIN views /\ source.name \in tables
       /\ done = Rewritten(Qualified(source.name), {source.name})

LEMMA SourceNormalized ==
  ASSUME NEW views, NEW tables, NEW source, NEW place, NEW inner,
         NormalizeSource(views, tables, source, place, inner).ok
  PROVE  SourceBecomes(views, tables, source, place, inner, NormalizeSource(views, tables, source, place, inner))
<1> DEFINE done == NormalizeSource(views, tables, source, place, inner)
           unfolded == Unfolded(views, source, place, inner)
<1>1. done = IF source.kind = "query" THEN inner[At(place, source.query)]
             ELSE IF IsCte(source, place) THEN Rewritten(source, {})
             ELSE IF source.name \in DOMAIN views
                  THEN IF views[source.name].materialized \/ source.name \in place.path \/ ~ unfolded.ok
                       THEN Rejected ELSE inner[At(place, unfolded.source.query)]
             ELSE IF source.name \in tables THEN Rewritten(Qualified(source.name), {source.name})
             ELSE Rejected
  BY DEF NormalizeSource, ExpandView, Unfolded, IsCte, BaseTable
<1>2. done # Rejected
  BY RewrittenIs
<1> HIDE DEF done, unfolded
<1>3. QED
  BY <1>1, <1>2 DEF SourceBecomes, done, unfolded

Again(inner, other) ==
    \A v, w \in Visits :
        inner[v].ok /\ w.query = inner[v].source.query /\ v.ctes \subseteq w.ctes /\ other[w].ok =>
            other[w].source.query = w.query

AllNormalized(views, tables, inner) ==
    \A visit \in Visits : NormalizedTo(views, tables, visit.depth, inner[visit])

LEMMA NormalizedAt ==
  ASSUME NEW views, NEW tables, NEW inner, AllNormalized(views, tables, inner),
         NEW visit \in Visits, inner[visit].ok
  PROVE  /\ inner[visit].source = Derived(inner[visit].source.query)
         /\ inner[visit].source.query \in Texts
         /\ inner[visit].references \subseteq tables \ DOMAIN views
<1> DEFINE normal == inner[visit]
<1>1. NormalizedTo(views, tables, visit.depth, normal) /\ normal.ok
  BY DEF AllNormalized
<1> HIDE DEF normal
<1>2. normal.source = Derived(normal.source.query) /\ normal.source.query \in Texts
      /\ normal.references \subseteq tables \ DOMAIN views
  BY <1>1, NormalizedText
<1>3. QED
  BY <1>2 DEF normal

LEMMA SourceAgain ==
  ASSUME NEW views, TextViews(views), NEW tables, NEW inner, NEW other,
         AllNormalized(views, tables, inner), AllNormalized(views, tables, other), Again(inner, other),
         NEW p, Deeper(p), NEW q, Deeper(q), p.ctes \subseteq q.ctes,
         NEW source \in Sources(Texts), NEW done, done.ok, SourceBecomes(views, tables, source, p, inner, done),
         NEW more, more.ok, SourceBecomes(views, tables, done.source, q, other, more)
  PROVE  more.source = done.source
<1>1. ASSUME NEW text \in Texts, done = inner[At(p, text)] PROVE more.source = done.source
  <2> DEFINE v == At(p, text)
  <2>1. v \in Visits /\ v.ctes = p.ctes
    BY AtVisit DEF Deeper
  <2> HIDE DEF v
  <2>2. /\ done = inner[v] /\ done.source = Derived(done.source.query) /\ done.source.query \in Texts
    BY <1>1, <2>1, NormalizedAt DEF v
  <2> DEFINE query == done.source.query
             w == At(q, query)
  <2>3. w \in Visits /\ w.query = query /\ w.ctes = q.ctes
    BY <2>2, AtVisit DEF Deeper
  <2>4. done.source.kind = "query" /\ done.source.query = query
    BY <2>2, RewrittenIs
  <2> HIDE DEF query
  <2>5. more = other[w]
    BY <2>4 DEF SourceBecomes
  <2> HIDE DEF w
  <2>6. more.source = Derived(more.source.query)
    BY <2>3, <2>5, NormalizedAt
  <2>7. inner[v].ok /\ w.query = inner[v].source.query /\ v.ctes \subseteq w.ctes /\ other[w].ok
    BY <2>1, <2>2, <2>3, <2>5 DEF query
  <2>8. more.source.query = query
    BY <2>1, <2>3, <2>5, <2>7 DEF Again
  <2>9. QED
    BY <2>2, <2>6, <2>8 DEF query
<1>2. CASE source.kind = "query" /\ done = inner[At(p, source.query)]
  <2>1. source.query \in Texts
    BY <1>2, SourceKinds DEF Named, Qualified
  <2>2. QED
    BY <1>1, <1>2, <2>1
<1>3. CASE source.kind # "query" /\ IsCte(source, p) /\ done = Rewritten(source, {})
  <2>1. done.source = source /\ IsCte(source, q)
    BY <1>3, RewrittenIs DEF IsCte
  <2>2. more = Rewritten(source, {})
    BY <1>3, <2>1 DEF SourceBecomes
  <2>3. QED
    BY <2>1, <2>2, RewrittenIs
<1>4. CASE /\ source.kind # "query" /\ source.name \in DOMAIN views
           /\ Unfolded(views, source, p, inner).ok
           /\ done = inner[At(p, Unfolded(views, source, p, inner).source.query)]
  <2> DEFINE v == Visit(views[source.name].query, p.path \cup {source.name})
             text == Unfolded(views, source, p, inner).source.query
  <2>1. v \in Visits
    <3>1. views[source.name].query \in Texts /\ p.path \cup {source.name} \in SUBSET Names
      BY <1>4 DEF TextViews, Deeper, Visits
    <3>2. QED
      BY <3>1, VisitIs
  <2>2. inner[v].ok /\ text = inner[v].source.query /\ done = inner[At(p, text)]
    BY <1>4 DEF Unfolded
  <2> HIDE DEF v, text
  <2>3. text \in Texts
    BY <2>1, <2>2, NormalizedAt
  <2>4. QED
    BY <1>1, <2>2, <2>3
<1>5. CASE /\ source.kind # "query" /\ source.name \notin DOMAIN views
           /\ done = Rewritten(Qualified(source.name), {source.name})
  <2> DEFINE t == Qualified(source.name)
  <2>1. done.source = t /\ t.kind = "qualified" /\ t.name = source.name
    BY <1>5, RewrittenIs DEF Qualified
  <2> HIDE DEF t
  <2>2. more = Rewritten(Qualified(t.name), {t.name})
    BY <1>5, <2>1 DEF SourceBecomes, IsCte
  <2>3. QED
    BY <2>1, <2>2, RewrittenIs DEF t
<1>6. QED
  BY <1>2, <1>3, <1>4, <1>5 DEF SourceBecomes
Composed(views, tables, visit, inner) ==
    /\ NormalizeQuery(views, tables, visit, inner).source.query =
          RewrittenQuery(views, tables, visit, inner)
    /\ Deeper(Inside(visit))
    /\ Inside(visit).ctes = visit.ctes \cup {visit.query.with[i].name : i \in DOMAIN visit.query.with}
    /\ \A i \in DOMAIN visit.query.with :
          /\ inner[CteVisit(visit, i)].ok
          /\ CteVisit(visit, i) \in Visits
          /\ CteVisit(visit, i).query = visit.query.with[i].query
          /\ CteVisit(visit, i).ctes = Inside(visit).ctes
    /\ \A i \in DOMAIN visit.query.from :
          /\ SourceDone(views, tables, visit, inner, i).ok
          /\ SourceBecomes(views, tables, visit.query.from[i], Inside(visit), inner,
                           SourceDone(views, tables, visit, inner, i))

LEMMA NormalizedOnce ==
  ASSUME NEW views, NEW tables, NEW visit \in Visits, NEW inner,
         NormalizeQuery(views, tables, visit, inner).ok
  PROVE  Composed(views, tables, visit, inner)
<1> DEFINE normal == NormalizeQuery(views, tables, visit, inner)
           query == RewrittenQuery(views, tables, visit, inner)
           cte(i) == CteVisit(visit, i)
           done(i) == SourceDone(views, tables, visit, inner, i)
<1>1. normal # Rejected
  BY RewrittenIs
<1>2. /\ ~ (visit.depth >= MaxNesting)
      /\ \A i \in DOMAIN visit.query.with : inner[cte(i)].ok
      /\ \A i \in DOMAIN visit.query.from : done(i).ok
      /\ normal = Rewritten(Derived(query), normal.references)
  <2> HIDE DEF normal
  <2>1. QED
    BY <1>1, NormalizedParts DEF normal
<1> HIDE DEF normal, query
<1>3. normal.source.query = query
  BY <1>2, RewrittenIs
<1>4. /\ Deeper(Inside(visit)) /\ Inside(visit) \in Visits
      /\ Inside(visit).ctes = visit.ctes \cup {visit.query.with[i].name : i \in DOMAIN visit.query.with}
  BY <1>2, InsideVisit
<1>5. TextParts(visit.query, Texts)
  BY PartsOfText DEF Visits
<1>6. ASSUME NEW i \in DOMAIN visit.query.with
      PROVE  /\ cte(i) \in Visits /\ cte(i).query = visit.query.with[i].query
             /\ cte(i).ctes = Inside(visit).ctes
  <2>1. visit.query.with[i].query \in Texts
    BY <1>5, PartKinds
  <2>2. QED
    BY <1>4, <2>1, AtVisit DEF CteVisit
<1>7. ASSUME NEW i \in DOMAIN visit.query.from
      PROVE  SourceBecomes(views, tables, visit.query.from[i], Inside(visit), inner, done(i))
  BY <1>2, SourceNormalized DEF SourceDone
<1> HIDE DEF cte, done
<1>8. QED
  BY <1>2, <1>3, <1>4, <1>6, <1>7 DEF Composed, normal, query, cte, done

LEMMA AgainOnce ==
  ASSUME NEW views, TextViews(views), NEW tables \in SUBSET Names, NEW inner, NEW other,
         AllNormalized(views, tables, inner), AllNormalized(views, tables, other), Again(inner, other),
         NEW v \in Visits, NEW w \in Visits, NormalizeQuery(views, tables, v, inner).ok,
         w.query = NormalizeQuery(views, tables, v, inner).source.query, v.ctes \subseteq w.ctes,
         NormalizeQuery(views, tables, w, other).ok
  PROVE  NormalizeQuery(views, tables, w, other).source.query = w.query
<1> DEFINE query == RewrittenQuery(views, tables, v, inner)
           again == RewrittenQuery(views, tables, w, other)
           p == Inside(v)
           q == Inside(w)
<1>1. /\ w.query = query
      /\ NormalizeQuery(views, tables, w, other).source.query = again
      /\ Deeper(p) /\ p.ctes = v.ctes \cup {v.query.with[i].name : i \in DOMAIN v.query.with}
      /\ Deeper(q) /\ q.ctes = w.ctes \cup {w.query.with[i].name : i \in DOMAIN w.query.with}
      /\ \A i \in DOMAIN v.query.with :
            /\ inner[CteVisit(v, i)].ok /\ CteVisit(v, i) \in Visits
            /\ CteVisit(v, i).query = v.query.with[i].query /\ CteVisit(v, i).ctes = p.ctes
      /\ \A i \in DOMAIN w.query.with :
            /\ other[CteVisit(w, i)].ok /\ CteVisit(w, i) \in Visits
            /\ CteVisit(w, i).query = w.query.with[i].query /\ CteVisit(w, i).ctes = q.ctes
      /\ \A i \in DOMAIN v.query.from :
            /\ SourceDone(views, tables, v, inner, i).ok
            /\ SourceBecomes(views, tables, v.query.from[i], p, inner, SourceDone(views, tables, v, inner, i))
      /\ \A i \in DOMAIN w.query.from :
            /\ SourceDone(views, tables, w, other, i).ok
            /\ SourceBecomes(views, tables, w.query.from[i], q, other, SourceDone(views, tables, w, other, i))
  <2>1. Composed(views, tables, v, inner) /\ Composed(views, tables, w, other)
    BY NormalizedOnce
  <2>2. QED
    BY <2>1 DEF Composed
<1>2. query.with = [i \in DOMAIN v.query.with |->
                      [name |-> v.query.with[i].name, query |-> inner[CteVisit(v, i)].source.query]]
      /\ query.from = [i \in DOMAIN v.query.from |-> SourceDone(views, tables, v, inner, i).source]
  BY DEF RewrittenQuery
<1>3. again = [with |-> [i \in DOMAIN w.query.with |->
                           [name |-> w.query.with[i].name, query |-> other[CteVisit(w, i)].source.query]],
               from |-> [i \in DOMAIN w.query.from |-> SourceDone(views, tables, w, other, i).source]]
  BY DEF RewrittenQuery
<1>4. TextParts(w.query, Texts) /\ TextParts(v.query, Texts)
  BY PartsOfText DEF Visits
<1> HIDE DEF query, again, p, q
<1>5. p.ctes \subseteq q.ctes
  <2>1. DOMAIN w.query.with = DOMAIN v.query.with
        /\ \A i \in DOMAIN v.query.with : w.query.with[i].name = v.query.with[i].name
    BY <1>1, <1>2
  <2>2. QED
    BY <1>1, <2>1
<1>6. \A i \in DOMAIN w.query.with : other[CteVisit(w, i)].source.query = w.query.with[i].query
  <2> SUFFICES ASSUME NEW i \in DOMAIN w.query.with
               PROVE  other[CteVisit(w, i)].source.query = w.query.with[i].query
    OBVIOUS
  <2> DEFINE a == CteVisit(v, i)
             b == CteVisit(w, i)
  <2>1. i \in DOMAIN v.query.with /\ w.query.with[i].query = inner[a].source.query
    BY <1>1, <1>2
  <2>2. /\ a \in Visits /\ b \in Visits /\ inner[a].ok /\ b.query = inner[a].source.query
        /\ a.ctes \subseteq b.ctes /\ other[b].ok
    BY <1>1, <1>5, <2>1
  <2> HIDE DEF a, b
  <2>3. other[b].source.query = b.query
    BY <2>2 DEF Again
  <2>4. QED
    BY <2>1, <2>2, <2>3 DEF b
<1>7. \A i \in DOMAIN w.query.from : SourceDone(views, tables, w, other, i).source = w.query.from[i]
  <2> SUFFICES ASSUME NEW i \in DOMAIN w.query.from
               PROVE  SourceDone(views, tables, w, other, i).source = w.query.from[i]
    OBVIOUS
  <2> DEFINE done == SourceDone(views, tables, v, inner, i)
             more == SourceDone(views, tables, w, other, i)
             source == v.query.from[i]
  <2>1. i \in DOMAIN v.query.from /\ w.query.from[i] = done.source
    BY <1>1, <1>2
  <2>2. source \in Sources(Texts)
    BY <1>4, <2>1, PartKinds
  <2>3. /\ done.ok /\ SourceBecomes(views, tables, source, p, inner, done)
        /\ more.ok /\ SourceBecomes(views, tables, done.source, q, other, more)
    BY <1>1, <2>1
  <2> HIDE DEF done, more, source
  <2>4. more.source = done.source
    BY <1>1, <1>5, <2>2, <2>3, SourceAgain
  <2>5. QED
    BY <2>1, <2>4 DEF more
<1>8. /\ w.query = [with |-> w.query.with, from |-> w.query.from]
      /\ w.query.with = [i \in DOMAIN w.query.with |->
                           [name |-> w.query.with[i].name, query |-> w.query.with[i].query]]
      /\ w.query.from = [i \in DOMAIN w.query.from |-> w.query.from[i]]
  <2>1. w.query = [with |-> w.query.with, from |-> w.query.from]
    BY <1>4 DEF TextParts
  <2>2. /\ w.query.with = [i \in DOMAIN w.query.with |-> w.query.with[i]]
        /\ w.query.from = [i \in DOMAIN w.query.from |-> w.query.from[i]]
    BY <1>1, <1>2
  <2>3. \A i \in DOMAIN w.query.with :
          w.query.with[i] = [name |-> w.query.with[i].name, query |-> w.query.with[i].query]
    BY <1>4, PartKinds
  <2> DEFINE a(i) == w.query.with[i]
             b(i) == [name |-> w.query.with[i].name, query |-> w.query.with[i].query]
  <2>4. \A i \in DOMAIN w.query.with : a(i) = b(i)
    BY <2>3
  <2> HIDE DEF a, b
  <2>5. [i \in DOMAIN w.query.with |-> a(i)] = [i \in DOMAIN w.query.with |-> b(i)]
    BY <2>4
  <2>6. QED
    BY <2>1, <2>2, <2>5 DEF a, b
<1>9. again = w.query
  <2> DEFINE a(i) == [name |-> w.query.with[i].name, query |-> other[CteVisit(w, i)].source.query]
             b(i) == [name |-> w.query.with[i].name, query |-> w.query.with[i].query]
             s(i) == SourceDone(views, tables, w, other, i).source
             t(i) == w.query.from[i]
  <2>1. /\ \A i \in DOMAIN w.query.with : a(i) = b(i)
        /\ \A i \in DOMAIN w.query.from : s(i) = t(i)
    BY <1>6, <1>7
  <2>2. /\ again = [with |-> [i \in DOMAIN w.query.with |-> a(i)], from |-> [i \in DOMAIN w.query.from |-> s(i)]]
        /\ w.query.with = [i \in DOMAIN w.query.with |-> b(i)]
        /\ w.query.from = [i \in DOMAIN w.query.from |-> t(i)]
    BY <1>3, <1>8
  <2> HIDE DEF a, b, s, t
  <2>3. /\ [i \in DOMAIN w.query.with |-> a(i)] = [i \in DOMAIN w.query.with |-> b(i)]
        /\ [i \in DOMAIN w.query.from |-> s(i)] = [i \in DOMAIN w.query.from |-> t(i)]
    BY <2>1
  <2>4. again = [with |-> w.query.with, from |-> w.query.from]
    BY <2>2, <2>3
  <2>5. QED
    BY <1>8, <2>4
<1>10. QED
  BY <1>1, <1>9

LEMMA NormalizedAgain ==
  ASSUME NEW views, TextViews(views), NEW tables \in SUBSET Names
  PROVE  \A n, m \in 0..MaxVisits :
            Again(Normalization(views, tables)[n], Normalization(views, tables)[m])
<1> DEFINE N == Normalization(views, tables)
           T == {n \in Nat : n \in 0..MaxVisits => \A m \in 0..MaxVisits : Again(N[n], N[m])}
<1>1. \A n \in 0..MaxVisits : AllNormalized(views, tables, N[n])
  BY NormalizationType DEF AllNormalized
<1>2. /\ \A visit \in Visits : N[0][visit] = Rejected
      /\ \A n \in 0..MaxVisits : n # 0 => \A visit \in Visits :
            N[n][visit] = NormalizeQuery(views, tables, visit, N[n - 1])
  BY NormalizationSteps
<1> HIDE DEF N
<1>3. 0 \in T
  BY <1>2, RewrittenIs DEF Again
<1>4. ASSUME NEW n \in T PROVE n + 1 \in T
  <2> SUFFICES ASSUME n + 1 \in 0..MaxVisits, NEW m \in 0..MaxVisits
               PROVE  Again(N[n + 1], N[m])
    OBVIOUS
  <2> DEFINE j == n + 1
             inner == N[n]
             k == m - 1
             other == N[k]
  <2>1. j \in 0..MaxVisits /\ j # 0 /\ j - 1 = n /\ n \in 0..MaxVisits
    BY MaxVisitsType
  <2> HIDE DEF j
  <2>2. CASE m = 0
    BY <1>2, <2>2, RewrittenIs DEF Again
  <2>3. CASE m # 0
    <3>1. k \in 0..MaxVisits /\ m - 1 = k
      BY <2>3, MaxVisitsType
    <3> HIDE DEF k
    <3>2. Again(inner, other)
      BY <2>1, <3>1
    <3>3. AllNormalized(views, tables, inner) /\ AllNormalized(views, tables, other)
      BY <1>1, <2>1, <3>1
    <3>4. /\ \A visit \in Visits : N[j][visit] = NormalizeQuery(views, tables, visit, inner)
          /\ \A visit \in Visits : N[m][visit] = NormalizeQuery(views, tables, visit, other)
      BY <1>2, <2>1, <2>3, <3>1
    <3> HIDE DEF inner, other
    <3>5. Again(N[j], N[m])
      <4> SUFFICES ASSUME NEW v \in Visits, NEW w \in Visits, N[j][v].ok,
                          w.query = N[j][v].source.query, v.ctes \subseteq w.ctes, N[m][w].ok
                   PROVE  N[m][w].source.query = w.query
        BY DEF Again
      <4>1. /\ N[j][v] = NormalizeQuery(views, tables, v, inner)
            /\ N[m][w] = NormalizeQuery(views, tables, w, other)
        BY <3>4
      <4>2. NormalizeQuery(views, tables, w, other).source.query = w.query
        BY <3>2, <3>3, <4>1, AgainOnce
      <4>3. QED
        BY <4>1, <4>2
    <3>6. QED
      BY <3>5 DEF j
  <2>4. QED
    BY <2>2, <2>3
<1>5. T = Nat
  <2> HIDE DEF T
  <2>1. T \in SUBSET Nat
    BY DEF T
  <2>2. QED
    BY <1>3, <1>4, <2>1, Induction
<1>6. ASSUME NEW n \in 0..MaxVisits, NEW m \in 0..MaxVisits PROVE Again(N[n], N[m])
  <2>1. n \in T
    <3> HIDE DEF T
    <3>1. QED
      BY <1>5
  <2>2. QED
    BY <2>1
<1>7. QED
  BY <1>6 DEF N
----------------------------------------------------------------------------
(* What the rewritten text is evaluated to is what the text means, as long *)
(* as the CTEs that are in scope have the same values: those of the texts  *)
(* a view is put into are not in the scope of its own text.                *)
SameScope(ctes, e, m) == \A x \in Names : IF x \in ctes THEN e[x] = m[x] ELSE m[x] = Absent

MeansAs(text, other, ctes, meant, evaluated, tables, registered) ==
    \A e \in Environments(registered), m \in Environments(tables) :
        SameScope(ctes, e, m) /\ evaluated[Reading(other, e)] # Absent =>
            meant[Reading(text, m)] = evaluated[Reading(other, e)]

Lock(inner, meant, evaluated, tables, registered) ==
    \A v \in Visits : inner[v].ok =>
        MeansAs(v.query, inner[v].source.query, v.ctes, meant, evaluated, tables, registered)

Relations(views, tables, meant) == [name \in Names |-> MeaningOf(name, views, tables, meant)]

LEMMA TablesAreMeant ==
  ASSUME NEW views, NEW tables, NEW registered \in SUBSET (tables \ DOMAIN views), NEW meant,
         NEW x \in Names, Registered(registered)[x] # Absent
  PROVE  Registered(registered)[x] = <<x>> /\ Relations(views, tables, meant)[x] = <<x>>
<1>1. x \in registered /\ Registered(registered)[x] = <<x>>
  BY DEF Registered
<1>2. x \in tables /\ x \notin DOMAIN views
  BY <1>1
<1>3. QED
  BY <1>1, <1>2 DEF Relations, MeaningOf

LEMMA SourceFollows ==
  ASSUME NEW views, TextViews(views), NEW tables \in SUBSET Names,
         NEW registered \in SUBSET (tables \ DOMAIN views), NEW inner, NEW meant, NEW evaluated,
         AllNormalized(views, tables, inner), Again(inner, inner),
         Lock(inner, meant, evaluated, tables, registered),
         NEW p, Deeper(p), NEW source \in Sources(Texts), NEW done, done.ok,
         SourceBecomes(views, tables, source, p, inner, done),
         NEW e \in Environments(registered), NEW m \in Environments(tables), SameScope(p.ctes, e, m),
         ReadSource(done.source, e, Registered(registered), evaluated) # Absent
  PROVE  ReadSource(source, m, Relations(views, tables, meant), meant)
           = ReadSource(done.source, e, Registered(registered), evaluated)
<1> DEFINE relations == Relations(views, tables, meant)
           here == Registered(registered)
           value == ReadSource(done.source, e, here, evaluated)
           x == source.name
<1>1. CASE source.kind = "query" /\ done = inner[At(p, source.query)]
  <2> DEFINE text == source.query
             v == At(p, text)
  <2>1. text \in Texts
    BY <1>1, SourceKinds DEF Named, Qualified
  <2>2. v \in Visits /\ v.ctes = p.ctes /\ v.query = text
    BY <2>1, AtVisit DEF Deeper
  <2> HIDE DEF v
  <2>3. done = inner[v] /\ inner[v].ok
    BY <1>1 DEF v
  <2>4. done.source = Derived(done.source.query)
    BY <2>2, <2>3, NormalizedAt
  <2> DEFINE other == done.source.query
  <2>5. done.source.kind = "query" /\ done.source.query = other
    BY <2>4, RewrittenIs
  <2>6. value = evaluated[Reading(other, e)]
    BY <2>5 DEF ReadSource
  <2>7. MeansAs(text, other, p.ctes, meant, evaluated, tables, registered)
    BY <2>2, <2>3 DEF Lock
  <2> HIDE DEF other, text, here
  <2>8. meant[Reading(text, m)] = value
    BY <2>6, <2>7 DEF MeansAs, here
  <2>9. ReadSource(source, m, relations, meant) = meant[Reading(text, m)]
    BY <1>1 DEF ReadSource, text
  <2>10. QED
    BY <2>8, <2>9 DEF here
<1>2. CASE source.kind # "query" /\ IsCte(source, p) /\ done = Rewritten(source, {})
  <2>1. done.source = source /\ source.kind = "name" /\ x \in p.ctes /\ x \in Names
    BY <1>2, RewrittenIs, SourceKinds DEF IsCte
  <2>2. e[x] = m[x]
    BY <2>1 DEF SameScope
  <2> HIDE DEF x
  <2>3. value = IF e[x] # Absent THEN e[x] ELSE here[x]
    BY <2>1 DEF ReadSource, x
  <2>4. ReadSource(source, m, relations, meant) = IF m[x] # Absent THEN m[x] ELSE relations[x]
    BY <2>1 DEF ReadSource, x
  <2>5. here[x] # Absent => here[x] = relations[x]
    <3> SUFFICES ASSUME Registered(registered)[x] # Absent PROVE here[x] = relations[x]
      OBVIOUS
    <3>1. x \in Names
      BY <2>1
    <3>2. Registered(registered)[x] = <<x>> /\ Relations(views, tables, meant)[x] = <<x>>
      BY <3>1, TablesAreMeant
    <3>3. QED
      BY <3>2
  <2>6. value # Absent
    OBVIOUS
  <2> HIDE DEF value, here, relations
  <2>7. ReadSource(source, m, relations, meant) = value
    BY <2>2, <2>3, <2>4, <2>5, <2>6
  <2>8. QED
    BY <2>7 DEF value, here, relations
<1>3. CASE /\ source.kind # "query" /\ ~ IsCte(source, p) /\ x \in DOMAIN views
           /\ Unfolded(views, source, p, inner).ok
           /\ done = inner[At(p, Unfolded(views, source, p, inner).source.query)]
  <2> DEFINE query == views[x].query
             path == p.path \cup {x}
             u == Visit(query, path)
             text == inner[u].source.query
             w == At(p, text)
  <2>1. query \in Texts /\ path \in SUBSET Names /\ x \in Names
    BY <1>3 DEF TextViews, Deeper, Visits
  <2> HIDE DEF query, path
  <2>2. u \in Visits /\ u.ctes = {} /\ u.query = query
    BY <2>1, VisitIs
  <2> HIDE DEF u
  <2>3. inner[u].ok /\ done = inner[w]
    BY <1>3 DEF Unfolded, u, query, path
  <2>4. text \in Texts
    BY <2>2, <2>3, NormalizedAt
  <2> HIDE DEF text
  <2>5. w \in Visits /\ w.ctes = p.ctes /\ w.query = text
    BY <2>4, AtVisit DEF Deeper
  <2> HIDE DEF w
  <2>6. w.query = inner[u].source.query
    BY <2>5 DEF text
  <2>7. inner[w].source.query = text
    BY <2>2, <2>3, <2>5, <2>6 DEF Again
  <2>8. done.source = Derived(text)
    BY <2>3, <2>5, <2>7, NormalizedAt
  <2>9. value = evaluated[Reading(text, e)]
    BY <2>8, RewrittenIs DEF ReadSource
  <2>10. MeansAs(query, text, {}, meant, evaluated, tables, registered)
    BY <2>2, <2>3 DEF Lock, text
  <2>11. Undeclared \in Environments(tables) /\ SameScope({}, e, Undeclared)
    BY UndeclaredIs DEF SameScope
  <2> HIDE DEF value
  <2>12. value # Absent
    BY DEF value
  <2>13. meant[Reading(query, Undeclared)] = value
    BY <2>9, <2>10, <2>11, <2>12 DEF MeansAs
  <2>14. relations[x] = value
    BY <1>3, <2>1, <2>13 DEF Relations, MeaningOf, query
  <2>15. source.kind = "name" => m[x] = Absent
    BY <1>3, <2>1 DEF SameScope, IsCte
  <2> HIDE DEF relations
  <2>16. ReadSource(source, m, relations, meant) = relations[x]
    BY <1>3, <2>15 DEF ReadSource
  <2>17. QED
    BY <2>14, <2>16 DEF value, relations
<1>4. CASE /\ source.kind # "query" /\ ~ IsCte(source, p) /\ x \notin DOMAIN views /\ x \in tables
           /\ done = Rewritten(Qualified(x), {x})
  <2>1. done.source = Qualified(x) /\ x \in Names
    BY <1>4, RewrittenIs
  <2>2. value = here[x]
    BY <2>1 DEF ReadSource, Qualified
  <2>3. source.kind = "name" => m[x] = Absent
    BY <1>4, <2>1 DEF SameScope, IsCte
  <2>4. ReadSource(source, m, relations, meant) = relations[x]
    BY <1>4, <2>3 DEF ReadSource
  <2>5. Registered(registered)[x] # Absent
    BY <2>2
  <2>6. x \in Names
    BY <2>1
  <2> HIDE DEF x, value, relations, here
  <2>7. Registered(registered)[x] = <<x>> /\ Relations(views, tables, meant)[x] = <<x>>
    BY <2>5, <2>6, TablesAreMeant
  <2>8. QED
    BY <2>2, <2>4, <2>7 DEF value, relations, here
<1>5. QED
  BY <1>1, <1>2, <1>3, <1>4 DEF SourceBecomes
Typed(tables, inner) == \A reading \in Readings(tables) : inner[reading] \in Maybe(tables)

LEMMA ScopesFollow ==
  ASSUME NEW tables, NEW registered, NEW text \in Texts, NEW other \in Texts, NEW ctes,
         Len(other.with) = Len(text.with), NEW meant, Typed(tables, meant),
         NEW evaluated, Typed(registered, evaluated),
         \A i \in 1..Len(text.with) :
            /\ other.with[i].name = text.with[i].name /\ text.with[i].name \in ctes
            /\ MeansAs(text.with[i].query, other.with[i].query, ctes, meant, evaluated, tables, registered),
         NEW e \in Environments(registered), NEW m \in Environments(tables), SameScope(ctes, e, m),
         \A i \in 1..Len(text.with) : Scopes(other.with, e, evaluated)[i][other.with[i].name] # Absent
  PROVE  \A i \in 0..Len(text.with) :
            SameScope(ctes, Scopes(other.with, e, evaluated)[i], Scopes(text.with, m, meant)[i])
<1> DEFINE n == Len(text.with)
           es == Scopes(other.with, e, evaluated)
           ms == Scopes(text.with, m, meant)
           T == {i \in Nat : i \in 0..n => SameScope(ctes, es[i], ms[i])}
<1>1. /\ n \in Nat /\ Len(other.with) = n
      /\ \A i \in 1..n : /\ text.with[i].name \in Names /\ other.with[i].name = text.with[i].name
                         /\ text.with[i].name \in ctes
  BY PartsOfText, PartKinds
<1>2. /\ es[0] = e /\ \A i \in 1..n : es[i] = Declare(es[i - 1], other.with[i], evaluated)
      /\ ms[0] = m /\ \A i \in 1..n : ms[i] = Declare(ms[i - 1], text.with[i], meant)
  BY <1>1, ScopesSteps
<1>3. /\ \A i \in 0..n : es[i] \in Environments(registered)
      /\ \A i \in 0..n : ms[i] \in Environments(tables)
  BY <1>1, ScopesType DEF Typed
<1>4. \A i \in 1..n :
         /\ es[i][other.with[i].name] # Absent
         /\ MeansAs(text.with[i].query, other.with[i].query, ctes, meant, evaluated, tables, registered)
  OBVIOUS
<1> HIDE DEF es, ms, n
<1>5. 0 \in T
  BY <1>2
<1>6. ASSUME NEW i \in T PROVE i + 1 \in T
  <2> SUFFICES ASSUME i + 1 \in 0..n PROVE SameScope(ctes, es[i + 1], ms[i + 1])
    OBVIOUS
  <2> DEFINE j == i + 1
             a == es[i]
             b == ms[i]
             name == text.with[j].name
             value == evaluated[Reading(other.with[j].query, a)]
             mean == meant[Reading(text.with[j].query, b)]
  <2>1. j \in 1..n /\ j - 1 = i /\ i \in 0..n
    BY <1>1
  <2>2. a \in Environments(registered) /\ b \in Environments(tables) /\ SameScope(ctes, a, b)
    BY <1>3, <2>1
  <2> HIDE DEF j
  <2>3. es[j] = [a EXCEPT ![name] = value] /\ ms[j] = [b EXCEPT ![name] = mean]
    BY <1>1, <1>2, <2>1 DEF Declare
  <2>4. name \in Names /\ name \in ctes /\ es[j][name] # Absent
    BY <1>1, <1>4, <2>1
  <2>5. MeansAs(text.with[j].query, other.with[j].query, ctes, meant, evaluated, tables, registered)
    BY <1>4, <2>1
  <2> HIDE DEF a, b, name
  <2>6. DOMAIN a = Names /\ DOMAIN b = Names
    BY <2>2 DEF Environments
  <2>7. value # Absent
    <3> HIDE DEF value
    <3>1. QED
      BY <2>3, <2>4, <2>6
  <2>8. mean = value
    BY <2>2, <2>5, <2>7 DEF MeansAs
  <2> HIDE DEF value, mean
  <2>9. SameScope(ctes, es[j], ms[j])
    BY <2>2, <2>3, <2>4, <2>6, <2>8 DEF SameScope
  <2>10. QED
    BY <2>9 DEF j
<1>7. T = Nat
  <2> HIDE DEF T
  <2>1. T \in SUBSET Nat
    BY DEF T
  <2>2. QED
    BY <1>5, <1>6, <2>1, Induction
<1>8. QED
  BY <1>1, <1>7 DEF es, ms, n

LEMMA QueryFollows ==
  ASSUME ~ AcceptsShadowing,
         NEW views, TextViews(views), NEW tables \in SUBSET Names,
         NEW registered \in SUBSET (tables \ DOMAIN views), NEW inner, NEW meant, NEW evaluated,
         AllNormalized(views, tables, inner), Again(inner, inner),
         Lock(inner, meant, evaluated, tables, registered),
         Typed(tables, meant), Typed(registered, evaluated),
         NEW v \in Visits, NEW normal, normal = NormalizeQuery(views, tables, v, inner), normal.ok,
         normal.source.query \in Texts,
         NEW e \in Environments(registered), NEW m \in Environments(tables), SameScope(v.ctes, e, m),
         EvaluateStep(registered, Reading(normal.source.query, e), evaluated) # Absent
  PROVE  MeaningStep(views, tables, Reading(v.query, m), meant)
           = EvaluateStep(registered, Reading(normal.source.query, e), evaluated)
<1> DEFINE text == v.query
           other == normal.source.query
           p == Inside(v)
           n == Len(text.with)
           here == Registered(registered)
           relations == Relations(views, tables, meant)
           es == Scopes(other.with, e, evaluated)
           ms == Scopes(text.with, m, meant)
           done(i) == SourceDone(views, tables, v, inner, i)
           at(i) == ReadAt(other, e, here, evaluated, i)
           mat(i) == ReadAt(text, m, relations, meant, i)
<1>1. Composed(views, tables, v, inner)
  BY NormalizedOnce
<1>2. text \in Texts /\ other \in Texts
  BY DEF Visits
<1>3. /\ n \in Nat /\ DOMAIN text.with = 1..n /\ DOMAIN text.from = 1..Len(text.from)
      /\ \A i \in DOMAIN text.with : text.with[i].name \in Names
      /\ \A i \in DOMAIN text.from : text.from[i] \in Sources(Texts)
      /\ Len(other.with) \in Nat /\ DOMAIN other.with = 1..Len(other.with)
  BY <1>2, PartsOfText, PartKinds
<1>4. other = RewrittenQuery(views, tables, v, inner)
  BY <1>1 DEF Composed
<1>5. /\ DOMAIN other.with = DOMAIN text.with /\ DOMAIN other.from = DOMAIN text.from
      /\ \A i \in DOMAIN text.with : /\ other.with[i].name = text.with[i].name
                                     /\ other.with[i].query = inner[CteVisit(v, i)].source.query
      /\ \A i \in DOMAIN text.from : other.from[i] = done(i).source
  <2> HIDE DEF other
  <2>1. QED
    BY <1>4 DEF RewrittenQuery
<1>6. Len(other.with) = n
  BY <1>3, <1>5
<1>7. /\ ~ Shadows(other, e)
      /\ \A i \in DOMAIN other.with : es[i][other.with[i].name] # Absent
      /\ \A i \in DOMAIN other.from : at(i) # Absent
      /\ EvaluateStep(registered, Reading(other, e), evaluated) = FlattenSeq([i \in DOMAIN other.from |-> at(i)])
  <2>1. /\ ~ Shadows(other, e)
        /\ EvaluateStep(registered, Reading(other, e), evaluated) = Read(other, e, here, evaluated)
    BY DEF EvaluateStep, Reading
  <2> HIDE DEF other, here
  <2>2. Read(other, e, here, evaluated) # Absent
    BY <2>1 DEF other
  <2>3. QED
    BY <2>1, <2>2, ReadIs
<1>8. /\ Deeper(p) /\ p.ctes = v.ctes \cup {text.with[i].name : i \in DOMAIN text.with}
      /\ \A i \in DOMAIN text.with :
            MeansAs(text.with[i].query, other.with[i].query, p.ctes, meant, evaluated, tables, registered)
      /\ \A i \in DOMAIN text.from :
            done(i).ok /\ SourceBecomes(views, tables, text.from[i], p, inner, done(i))
  <2> HIDE DEF other
  <2>1. QED
    BY <1>1, <1>5 DEF Composed, Lock
<1> HIDE DEF text, other, p, n, here, relations, es, ms, done
<1>9. SameScope(p.ctes, e, m)
  <2>1. \A i \in DOMAIN text.with : e[text.with[i].name] = Absent
    BY <1>5, <1>7 DEF Shadows
  <2>2. QED
    BY <1>8, <2>1 DEF SameScope, text
<1>10. \A i \in 0..n : /\ SameScope(p.ctes, es[i], ms[i])
                       /\ es[i] \in Environments(registered) /\ ms[i] \in Environments(tables)
  <2>1. \A i \in 1..n :
           /\ other.with[i].name = text.with[i].name /\ text.with[i].name \in p.ctes
           /\ MeansAs(text.with[i].query, other.with[i].query, p.ctes, meant, evaluated, tables, registered)
           /\ es[i][other.with[i].name] # Absent
    BY <1>3, <1>5, <1>7, <1>8
  <2>2. \A i \in 0..n : SameScope(p.ctes, es[i], ms[i])
    BY <1>2, <1>6, <1>9, <2>1, ScopesFollow DEF es, ms, n
  <2>3. \A i \in 0..n : es[i] \in Environments(registered) /\ ms[i] \in Environments(tables)
    BY <1>2, <1>6, ScopesType DEF es, ms, n, Typed
  <2>4. QED
    BY <2>2, <2>3
<1>11. ASSUME NEW i \in DOMAIN text.from PROVE mat(i) = at(i)
  <2> DEFINE source == text.from[i]
             d == done(i)
             a == es[n]
             b == ms[n]
  <2>1. at(i) = ReadSource(d.source, a, here, evaluated) /\ at(i) # Absent
    BY <1>5, <1>6, <1>7 DEF ReadAt, es
  <2>2. mat(i) = ReadSource(source, b, relations, meant)
    BY DEF ReadAt, ms, n
  <2>3. n \in 0..n
    BY <1>3
  <2>4. a \in Environments(registered) /\ b \in Environments(tables) /\ SameScope(p.ctes, a, b)
    BY <1>10, <2>3
  <2>5. source \in Sources(Texts) /\ d.ok /\ SourceBecomes(views, tables, source, p, inner, d)
    BY <1>3, <1>8
  <2> HIDE DEF source, d, a, b, at, mat
  <2>6. ReadSource(d.source, a, Registered(registered), evaluated) # Absent
    BY <2>1 DEF here
  <2>7. ReadSource(source, b, Relations(views, tables, meant), meant)
          = ReadSource(d.source, a, Registered(registered), evaluated)
    <3>1. Deeper(p)
      BY <1>8
    <3>2. QED
      BY ONLY <3>1, <2>4, <2>5, <2>6, SourceFollows, TextViews(views), tables \in SUBSET Names,
              registered \in SUBSET (tables \ DOMAIN views), AllNormalized(views, tables, inner),
              Again(inner, inner), Lock(inner, meant, evaluated, tables, registered)
  <2>8. QED
    BY <2>1, <2>2, <2>7 DEF here, relations
<1>12. \A i \in DOMAIN text.with : ms[i][text.with[i].name] # Absent
  <2> SUFFICES ASSUME NEW i \in DOMAIN text.with PROVE ms[i][text.with[i].name] # Absent
    OBVIOUS
  <2> DEFINE x == text.with[i].name
  <2>1. x \in p.ctes /\ x \in Names /\ i \in 0..n
    BY <1>3, <1>8
  <2>2. es[i][x] # Absent
    BY <1>5, <1>7
  <2> HIDE DEF x
  <2>3. es[i][x] = ms[i][x]
    BY <1>10, <2>1 DEF SameScope
  <2>4. QED
    BY <2>2, <2>3 DEF x
<1>13. Read(text, m, relations, meant) = FlattenSeq([i \in DOMAIN text.from |-> mat(i)])
  <2>1. \A i \in DOMAIN text.from : mat(i) # Absent
    BY <1>5, <1>7, <1>11
  <2> HIDE DEF relations
  <2>2. QED
    BY <1>12, <2>1, ReadIs DEF ms
<1>14. [i \in DOMAIN text.from |-> mat(i)] = [i \in DOMAIN other.from |-> at(i)]
  <2> HIDE DEF at, mat
  <2>1. QED
    BY <1>5, <1>11
<1>15. MeaningStep(views, tables, Reading(text, m), meant) = Read(text, m, relations, meant)
  BY DEF MeaningStep, Reading, relations, Relations
<1>16. QED
  BY <1>7, <1>13, <1>14, <1>15 DEF text, other
LEMMA MeaningType ==
  ASSUME NEW views, TextViews(views), NEW tables, NEW depth \in Nat
  PROVE  \A n \in 0..depth : Typed(tables, Meanings(views, tables, depth)[n])
<1> DEFINE M == Meanings(views, tables, depth)
           T == {n \in Nat : n \in 0..depth => Typed(tables, M[n])}
<1>1. /\ \A reading \in Readings(tables) : M[0][reading] = Absent
      /\ \A n \in 0..depth : n # 0 => \A reading \in Readings(tables) :
            M[n][reading] = MeaningStep(views, tables, reading, M[n - 1])
  BY MeaningSteps
<1> HIDE DEF M
<1>2. 0 \in T
  BY <1>1 DEF Typed, Maybe
<1>3. ASSUME NEW n \in T PROVE n + 1 \in T
  <2> SUFFICES ASSUME n + 1 \in 0..depth, NEW reading \in Readings(tables)
               PROVE  M[n + 1][reading] \in Maybe(tables)
    BY DEF Typed
  <2> DEFINE j == n + 1
             inner == M[n]
             relations == [name \in Names |-> MeaningOf(name, views, tables, inner)]
  <2>1. j \in 0..depth /\ j # 0 /\ j - 1 = n /\ n \in 0..depth
    OBVIOUS
  <2>2. Typed(tables, inner)
    BY <2>1
  <2> HIDE DEF j
  <2>3. M[j][reading] = MeaningStep(views, tables, reading, inner)
    BY <1>1, <2>1
  <2> HIDE DEF inner
  <2>4. reading.query \in Texts /\ reading.env \in Environments(tables)
    BY DEF Readings
  <2>5. \A name \in Names : relations[name] \in Maybe(tables)
    <3> SUFFICES ASSUME NEW name \in Names PROVE MeaningOf(name, views, tables, inner) \in Maybe(tables)
      OBVIOUS
    <3>1. CASE name \in DOMAIN views
      <4>1. Reading(views[name].query, Undeclared) \in Readings(tables)
        BY <3>1, UndeclaredIs DEF TextViews, Reading, Readings
      <4>2. QED
        BY <2>2, <3>1, <4>1 DEF MeaningOf, Typed
    <3>2. CASE name \notin DOMAIN views
      BY <3>2 DEF MeaningOf, Maybe
    <3>3. QED
      BY <3>1, <3>2
  <2> HIDE DEF relations
  <2>6. Read(reading.query, reading.env, relations, inner) \in Maybe(tables)
    BY <2>2, <2>4, <2>5, ReadType DEF Typed
  <2>7. QED
    BY <2>3, <2>6 DEF MeaningStep, relations, j
<1>4. T = Nat
  <2> HIDE DEF T
  <2>1. T \in SUBSET Nat
    BY DEF T
  <2>2. QED
    BY <1>2, <1>3, <2>1, Induction
<1>5. ASSUME NEW n \in 0..depth PROVE Typed(tables, M[n])
  <2>1. n \in T
    <3> HIDE DEF T
    <3>1. QED
      BY <1>4
  <2>2. QED
    BY <2>1
<1>6. QED
  BY <1>5 DEF M

LEMMA EvaluatedAsMeant ==
  ASSUME ~ AcceptsShadowing,
         NEW views, TextViews(views), NEW tables \in SUBSET Names,
         NEW registered \in SUBSET (tables \ DOMAIN views), NEW depth \in Nat, MaxVisits =< depth
  PROVE  \A n \in 0..MaxVisits, k \in 0..MaxText :
            Lock(Normalization(views, tables)[n], Meanings(views, tables, depth)[n],
                 Evaluation(registered)[k], tables, registered)
<1> DEFINE N == Normalization(views, tables)
           M == Meanings(views, tables, depth)
           E == Evaluation(registered)
           T == {n \in Nat : n \in 0..MaxVisits =>
                    \A k \in 0..MaxText : Lock(N[n], M[n], E[k], tables, registered)}
<1>1. /\ \A visit \in Visits : N[0][visit] = Rejected
      /\ \A n \in 0..MaxVisits : n # 0 => \A visit \in Visits :
            N[n][visit] = NormalizeQuery(views, tables, visit, N[n - 1])
  BY NormalizationSteps
<1>2. \A n \in 0..depth : n # 0 => \A reading \in Readings(tables) :
            M[n][reading] = MeaningStep(views, tables, reading, M[n - 1])
  BY MeaningSteps
<1>3. /\ \A reading \in Readings(registered) : E[0][reading] = Absent
      /\ \A k \in 0..MaxText : k # 0 => \A reading \in Readings(registered) :
            E[k][reading] = EvaluateStep(registered, reading, E[k - 1])
  BY EvaluationSteps
<1>4. /\ \A n \in 0..MaxVisits : AllNormalized(views, tables, N[n])
      /\ \A n \in 0..MaxVisits : Again(N[n], N[n])
      /\ \A n \in 0..MaxVisits : n \in 0..depth
  BY NormalizationType, NormalizedAgain, MaxVisitsType DEF AllNormalized
<1>5. /\ \A n \in 0..depth : Typed(tables, M[n])
      /\ \A k \in 0..MaxText : Typed(registered, E[k])
  BY MeaningType, EvaluationType DEF Typed
<1> HIDE DEF N, M, E
<1>6. 0 \in T
  BY <1>1, RewrittenIs DEF Lock
<1>7. ASSUME NEW n \in T PROVE n + 1 \in T
  <2> SUFFICES ASSUME n + 1 \in 0..MaxVisits, NEW k \in 0..MaxText
               PROVE  Lock(N[n + 1], M[n + 1], E[k], tables, registered)
    OBVIOUS
  <2> DEFINE j == n + 1
             i == k - 1
             inner == N[n]
             meant == M[n]
             evaluated == E[i]
  <2>1. j \in 0..MaxVisits /\ j # 0 /\ j - 1 = n /\ n \in 0..MaxVisits
    BY MaxVisitsType
  <2> HIDE DEF j
  <2> SUFFICES ASSUME NEW v \in Visits, N[j][v].ok,
                      NEW e \in Environments(registered), NEW m \in Environments(tables),
                      SameScope(v.ctes, e, m), E[k][Reading(N[j][v].source.query, e)] # Absent
               PROVE  M[j][Reading(v.query, m)] = E[k][Reading(N[j][v].source.query, e)]
    BY DEF Lock, MeansAs, j
  <2> DEFINE normal == N[j][v]
             other == normal.source.query
  <2>2. other \in Texts /\ v.query \in Texts
    BY <1>4, <2>1, NormalizedAt DEF Visits
  <2>3. Reading(other, e) \in Readings(registered) /\ Reading(v.query, m) \in Readings(tables)
    BY <2>2 DEF Reading, Readings
  <2>4. normal = NormalizeQuery(views, tables, v, inner)
    BY <1>1, <2>1
  <2> HIDE DEF normal
  <2>5. k # 0
    BY <1>3, <2>3 DEF normal
  <2>6. i \in 0..MaxText /\ k - 1 = i
    BY <2>5, BoundsAre
  <2> HIDE DEF i
  <2>7. E[k][Reading(other, e)] = EvaluateStep(registered, Reading(other, e), evaluated)
    BY <1>3, <2>3, <2>5, <2>6
  <2>8. M[j][Reading(v.query, m)] = MeaningStep(views, tables, Reading(v.query, m), meant)
    BY <1>2, <1>4, <2>1, <2>3
  <2>9. /\ AllNormalized(views, tables, inner) /\ Again(inner, inner) /\ Typed(tables, meant)
        /\ Typed(registered, evaluated) /\ Lock(inner, meant, evaluated, tables, registered)
    BY <1>4, <1>5, <2>1, <2>6
  <2>10. /\ normal.ok /\ E[k][Reading(other, e)] # Absent
    BY DEF normal
  <2> HIDE DEF inner, meant, evaluated
  <2>11. MeaningStep(views, tables, Reading(v.query, m), meant)
           = EvaluateStep(registered, Reading(other, e), evaluated)
    BY <2>2, <2>4, <2>7, <2>9, <2>10, QueryFollows
  <2>12. QED
    BY <2>7, <2>8, <2>11 DEF normal
<1>8. T = Nat
  <2> HIDE DEF T
  <2>1. T \in SUBSET Nat
    BY DEF T
  <2>2. QED
    BY <1>6, <1>7, <2>1, Induction
<1>9. ASSUME NEW n \in 0..MaxVisits, NEW k \in 0..MaxText
      PROVE  Lock(N[n], M[n], E[k], tables, registered)
  <2>1. n \in T
    <3> HIDE DEF T
    <3>1. QED
      BY <1>8
  <2>2. QED
    BY <2>1
<1>10. QED
  BY <1>9 DEF N, M, E

(* The answer to a query, before any view is computed: what it means.      *)
LEMMA NamesReadAsMeant ==
  ASSUME ~ AcceptsShadowing, NEW d, Plain(d), NEW query \in Texts, normalize(d, query).ok,
         NEW depth \in Nat, MaxVisits =< depth,
         NamesRead(Views(d), DOMAIN d.rows, query) # Absent
  PROVE  Meanings(Views(d), DOMAIN d.rows, depth)[MaxVisits][Reading(query, Undeclared)]
           = NamesRead(Views(d), DOMAIN d.rows, query)
<1> DEFINE views == Views(d)
           tables == DOMAIN d.rows
           v == Visit(query, {})
           inner == Normalization(views, tables)[MaxVisits]
           meant == Meanings(views, tables, depth)[MaxVisits]
           normal == normalize(d, query)
           registered == normal.references
           evaluated == Evaluation(registered)[MaxText]
           other == normal.source.query
<1>1. normal = inner[v]
  BY DEF normalize
<1>2. v \in Visits /\ v.query = query /\ v.ctes = {}
  BY VisitIs
<1>3. registered \in SUBSET (tables \ DOMAIN views)
  BY NormalIs
<1>4. TextViews(views) /\ tables \in SUBSET Names /\ MaxVisits \in 0..MaxVisits /\ MaxText \in 0..MaxText
  BY PlainViews, MaxVisitsType, BoundsAre
<1>5. NamesRead(views, tables, query) = evaluated[Reading(other, Undeclared)]
  BY DEF NamesRead, normalize
<1> HIDE DEF v, views, tables, normal
<1>6. Lock(inner, meant, evaluated, tables, registered)
  <2> HIDE DEF registered
  <2>1. QED
    BY <1>3, <1>4, EvaluatedAsMeant
<1> HIDE DEF inner, meant, evaluated, registered
<1>7. MeansAs(query, other, {}, meant, evaluated, tables, registered)
  BY <1>1, <1>2, <1>6 DEF Lock, normal
<1>8. Undeclared \in Environments(tables) /\ Undeclared \in Environments(registered)
      /\ SameScope({}, Undeclared, Undeclared)
  BY UndeclaredIs DEF SameScope
<1>9. evaluated[Reading(other, Undeclared)] # Absent
  BY <1>5 DEF views, tables
<1>10. meant[Reading(query, Undeclared)] = evaluated[Reading(other, Undeclared)]
  BY <1>7, <1>8, <1>9 DEF MeansAs
<1>11. QED
  BY <1>5, <1>10 DEF meant, views, tables
----------------------------------------------------------------------------
(* Meanings in which every table stands for a sequence of tables: those of *)
(* a database in which the value of a view has taken its place.            *)
LEMMA NothingIsAbsent ==
  ASSUME NEW tables \in SUBSET Names, NEW s \in Seq(tables)
  PROVE  s # Absent
<1>1. s \in Seq(Names)
  OBVIOUS
<1>2. QED
  BY <1>1, QueriesAssumption

(* g gives the tables that a stored one stands for.                        *)
StandsFor(g, stored, tables) == g \in [stored -> Seq(tables)]

SpreadValue(g, value) == IF value = Absent THEN Absent ELSE Spread(g, value)
SpreadEnv(g, env) == [x \in Names |-> SpreadValue(g, env[x])]

LEMMA SpreadEnvType ==
  ASSUME NEW tables, NEW stored, NEW g, StandsFor(g, stored, tables), NEW env \in Environments(stored)
  PROVE  SpreadEnv(g, env) \in Environments(tables)
<1>1. ASSUME NEW x \in Names PROVE SpreadValue(g, env[x]) \in {Absent} \cup Seq(tables)
  <2>1. env[x] \in {Absent} \cup Seq(stored)
    BY DEF Environments
  <2>2. env[x] \in Seq(stored) => Spread(g, env[x]) \in Seq(tables)
    BY SpreadType DEF StandsFor
  <2>3. QED
    BY <2>1, <2>2 DEF SpreadValue
<1>2. QED
  BY <1>1 DEF SpreadEnv, Environments

Spreads(g, stored, inner, other) ==
    \A text \in Texts, env \in Environments(stored) :
        inner[Reading(text, env)] # Absent =>
            other[Reading(text, SpreadEnv(g, env))] = Spread(g, inner[Reading(text, env)])

Declared(text, env, inner) ==
    \A i \in 1..Len(text.with) : Scopes(text.with, env, inner)[i][text.with[i].name] # Absent

ScopesAreSpread(g, text, env, inner, other) ==
    \A i \in 0..Len(text.with) :
        Scopes(text.with, SpreadEnv(g, env), other)[i] = SpreadEnv(g, Scopes(text.with, env, inner)[i])

LEMMA ScopesSpread ==
  ASSUME NEW tables \in SUBSET Names, NEW stored, NEW g, StandsFor(g, stored, tables),
         NEW text \in Texts, NEW env \in Environments(stored), NEW inner, NEW other,
         Typed(stored, inner), Spreads(g, stored, inner, other),
         Declared(text, env, inner)
  PROVE  ScopesAreSpread(g, text, env, inner, other)
<1> DEFINE n == Len(text.with)
           start == SpreadEnv(g, env)
           xs == Scopes(text.with, env, inner)
           bs == Scopes(text.with, start, other)
           T == {i \in Nat : i \in 0..n => bs[i] = SpreadEnv(g, xs[i])}
<1>1. n \in Nat /\ \A i \in 1..n : text.with[i].name \in Names /\ text.with[i].query \in Texts
  BY PartsOfText, PartKinds
<1>2. /\ xs[0] = env /\ \A i \in 1..n : xs[i] = Declare(xs[i - 1], text.with[i], inner)
      /\ bs[0] = start /\ \A i \in 1..n : bs[i] = Declare(bs[i - 1], text.with[i], other)
  BY <1>1, ScopesSteps
<1>3. \A i \in 0..n : xs[i] \in Environments(stored)
  BY <1>1, ScopesType DEF Typed
<1>4. \A i \in 1..n : xs[i][text.with[i].name] # Absent
  BY DEF Declared
<1> HIDE DEF xs, bs, n
<1>5. 0 \in T
  BY <1>2
<1> HIDE DEF start
<1>6. ASSUME NEW i \in T PROVE i + 1 \in T
  <2> SUFFICES ASSUME i + 1 \in 0..n PROVE bs[i + 1] = SpreadEnv(g, xs[i + 1])
    OBVIOUS
  <2> DEFINE j == i + 1
             a == xs[i]
             name == text.with[j].name
             query == text.with[j].query
             value == inner[Reading(query, a)]
             spread == other[Reading(query, SpreadEnv(g, a))]
  <2>1. j \in 1..n /\ j - 1 = i /\ i \in 0..n
    BY <1>1
  <2>2. a \in Environments(stored) /\ bs[i] = SpreadEnv(g, a)
    BY <1>3, <2>1
  <2> HIDE DEF j
  <2>3. xs[j] = [a EXCEPT ![name] = value] /\ bs[j] = [SpreadEnv(g, a) EXCEPT ![name] = spread]
    BY <1>2, <2>1, <2>2 DEF Declare
  <2>4. name \in Names /\ query \in Texts /\ xs[j][name] # Absent
    BY <1>1, <1>4, <2>1
  <2> HIDE DEF a, name, query
  <2>5. DOMAIN a = Names
    BY <2>2 DEF Environments
  <2>6. value # Absent
    <3> HIDE DEF value
    <3>1. QED
      BY <2>3, <2>4, <2>5
  <2>7. spread = Spread(g, value)
    BY <2>2, <2>4, <2>6 DEF Spreads
  <2> HIDE DEF value, spread
  <2>8. SpreadValue(g, value) = spread
    BY <2>6, <2>7 DEF SpreadValue
  <2>9. bs[j] = SpreadEnv(g, xs[j])
    BY <2>3, <2>4, <2>5, <2>8 DEF SpreadEnv
  <2>10. QED
    BY <2>9 DEF j
<1>7. T = Nat
  <2> HIDE DEF T
  <2>1. T \in SUBSET Nat
    BY DEF T
  <2>2. QED
    BY <1>5, <1>6, <2>1, Induction
<1>8. QED
  BY <1>1, <1>7 DEF ScopesAreSpread, xs, bs, n, start

LEMMA ReadSpreads ==
  ASSUME NEW tables \in SUBSET Names, NEW stored \in SUBSET Names, NEW g, StandsFor(g, stored, tables),
         NEW text \in Texts, NEW env \in Environments(stored), NEW inner, NEW other,
         Typed(stored, inner), Spreads(g, stored, inner, other),
         NEW relations, \A x \in Names : relations[x] \in Maybe(stored),
         NEW others, \A x \in Names : relations[x] # Absent => others[x] = Spread(g, relations[x]),
         Read(text, env, relations, inner) # Absent
  PROVE  Read(text, SpreadEnv(g, env), others, other) = Spread(g, Read(text, env, relations, inner))
<1> DEFINE n == Len(text.with)
           start == SpreadEnv(g, env)
           xs == Scopes(text.with, env, inner)
           bs == Scopes(text.with, start, other)
           at(i) == ReadAt(text, env, relations, inner, i)
           bt(i) == ReadAt(text, start, others, other, i)
           read == [i \in DOMAIN text.from |-> at(i)]
<1>1. /\ n \in Nat /\ DOMAIN text.with = 1..n
      /\ \A i \in 1..n : text.with[i].name \in Names /\ text.with[i].query \in Texts
      /\ Len(text.from) \in Nat /\ DOMAIN text.from = 1..Len(text.from)
      /\ \A i \in DOMAIN text.from : text.from[i] \in Sources(Texts)
  BY PartsOfText, PartKinds
<1>2. /\ \A i \in DOMAIN text.with : xs[i][text.with[i].name] # Absent
      /\ \A i \in DOMAIN text.from : at(i) # Absent
      /\ Read(text, env, relations, inner) = FlattenSeq(read)
  BY ReadIs
<1>3. \A i \in DOMAIN text.from : at(i) \in Seq(stored)
  <2>1. \A i \in DOMAIN text.from : at(i) \in Maybe(stored)
    BY ReadAtType DEF Typed
  <2>2. QED
    BY <1>2, <2>1 DEF Maybe
<1>4. \A i \in 0..n : xs[i] \in Environments(stored)
  BY <1>1, ScopesType DEF Typed
<1>5. \A i \in 0..n : bs[i] = SpreadEnv(g, xs[i])
  <2>1. Declared(text, env, inner)
    BY <1>1, <1>2 DEF Declared
  <2>2. ScopesAreSpread(g, text, env, inner, other)
    BY <2>1, ScopesSpread
  <2>3. QED
    BY <2>2 DEF ScopesAreSpread
<1> HIDE DEF n, start, xs, bs, at, bt, read
<1>6. \A i \in DOMAIN text.with : bs[i][text.with[i].name] # Absent
  <2> SUFFICES ASSUME NEW i \in DOMAIN text.with PROVE bs[i][text.with[i].name] # Absent
    OBVIOUS
  <2> DEFINE x == text.with[i].name
  <2>1. x \in Names /\ i \in 0..n /\ xs[i][x] # Absent
    BY <1>1, <1>2
  <2> HIDE DEF x
  <2>2. xs[i][x] \in Seq(stored)
    BY <1>4, <2>1 DEF Environments
  <2>3. bs[i][x] = Spread(g, xs[i][x])
    BY <1>5, <2>1 DEF SpreadEnv, SpreadValue
  <2>4. bs[i][x] \in Seq(tables)
    BY <2>2, <2>3, SpreadType DEF StandsFor
  <2>5. QED
    BY <2>4, NothingIsAbsent DEF x
<1>7. ASSUME NEW i \in DOMAIN text.from PROVE bt(i) = Spread(g, at(i)) /\ bt(i) # Absent
  <2> DEFINE source == text.from[i]
             a == xs[n]
             b == bs[n]
             x == source.name
  <2>1. n \in 0..n /\ a \in Environments(stored) /\ b = SpreadEnv(g, a)
    BY <1>1, <1>4, <1>5
  <2>2. /\ at(i) = ReadSource(source, a, relations, inner) /\ at(i) # Absent
        /\ bt(i) = ReadSource(source, b, others, other)
    BY <1>2 DEF at, bt, ReadAt, xs, bs, n
  <2>3. source \in Sources(Texts)
    BY <1>1
  <2> HIDE DEF source, a, b
  <2>4. CASE source.kind = "query"
    <3>1. source.query \in Texts
      BY <2>3, <2>4, SourceKinds DEF Named, Qualified
    <3>2. /\ at(i) = inner[Reading(source.query, a)]
          /\ bt(i) = other[Reading(source.query, SpreadEnv(g, a))]
      BY <2>1, <2>2, <2>4 DEF ReadSource
    <3>3. bt(i) = Spread(g, at(i))
      BY <2>1, <2>2, <3>1, <3>2 DEF Spreads
    <3>4. QED
      BY <1>3, <3>3, SpreadType, NothingIsAbsent DEF StandsFor
  <2>5. CASE source.kind # "query"
    <3>1. x \in Names
      BY <2>3, <2>5, SourceKinds
    <3>2. b[x] = SpreadValue(g, a[x])
      BY <2>1, <3>1 DEF SpreadEnv
    <3>3. a[x] \in {Absent} \cup Seq(stored)
      BY <2>1, <3>1 DEF Environments
    <3>4. a[x] # Absent => b[x] # Absent /\ b[x] = Spread(g, a[x])
      <4> HIDE DEF x
      <4> SUFFICES ASSUME a[x] # Absent PROVE b[x] # Absent /\ b[x] = Spread(g, a[x])
        OBVIOUS
      <4>1. a[x] \in Seq(stored) /\ b[x] = Spread(g, a[x])
        BY <3>2, <3>3 DEF SpreadValue
      <4>2. b[x] \in Seq(tables)
        BY <4>1, SpreadType DEF StandsFor
      <4>3. QED
        BY <4>1, <4>2, NothingIsAbsent
    <3>5. a[x] = Absent => b[x] = Absent
      BY <3>2 DEF SpreadValue
    <3>6. relations[x] # Absent => others[x] = Spread(g, relations[x])
      BY <3>1
    <3>7. /\ at(i) = IF source.kind = "name" /\ a[x] # Absent THEN a[x] ELSE relations[x]
          /\ bt(i) = IF source.kind = "name" /\ b[x] # Absent THEN b[x] ELSE others[x]
      BY <2>2, <2>5 DEF ReadSource
    <3>8. bt(i) = Spread(g, at(i))
      <4> HIDE DEF x
      <4>1. QED
        BY <2>2, <3>4, <3>5, <3>6, <3>7
    <3>9. QED
      BY <1>3, <3>8, SpreadType, NothingIsAbsent DEF StandsFor
  <2>6. QED
    BY <2>4, <2>5
<1>8. Read(text, start, others, other) = FlattenSeq([i \in DOMAIN text.from |-> bt(i)])
  <2>1. \A i \in DOMAIN text.from : bt(i) # Absent
    BY <1>7
  <2>2. QED
    BY <1>6, <2>1, ReadIs DEF bs, bt
<1>9. [i \in DOMAIN text.from |-> bt(i)] = [i \in DOMAIN read |-> Spread(g, read[i])]
  <2>1. DOMAIN read = DOMAIN text.from /\ \A i \in DOMAIN text.from : read[i] = at(i)
    BY DEF read
  <2>2. QED
    BY <1>7, <2>1
<1>10. read \in Seq(Seq(stored))
  <2> DEFINE W == Seq(stored)
  <2>1. \A i \in DOMAIN text.from : at(i) \in W
    BY <1>3
  <2> HIDE DEF W
  <2>2. read \in Seq(W)
    BY <1>1, <2>1 DEF read
  <2>3. QED
    BY <2>2 DEF W
<1>11. Spread(g, FlattenSeq(read)) = FlattenSeq([i \in DOMAIN read |-> Spread(g, read[i])])
  BY <1>10, SpreadFlatten DEF StandsFor
<1>12. QED
  BY <1>2, <1>8, <1>9, <1>11 DEF start
LEMMA SpreadUndeclared ==
  ASSUME NEW g
  PROVE  SpreadEnv(g, Undeclared) = Undeclared
BY DEF SpreadEnv, SpreadValue, Undeclared

(* Every view of one database is a view of the other with the same text,   *)
(* and every table of it means in the other what it stands for.            *)
Refines(views, tables, meant, more, stored, g) ==
    /\ \A x \in DOMAIN more : x \in DOMAIN views /\ views[x].query = more[x].query
    /\ \A x \in stored \ DOMAIN more : MeaningOf(x, views, tables, meant) = g[x]

LEMMA RelationsSpread ==
  ASSUME NEW views, NEW tables \in SUBSET Names, NEW more, TextViews(more), NEW stored \in SUBSET Names,
         NEW g, StandsFor(g, stored, tables), NEW inner, NEW other, Spreads(g, stored, inner, other),
         Refines(views, tables, other, more, stored, g), NEW x \in Names,
         Relations(more, stored, inner)[x] # Absent
  PROVE  Relations(views, tables, other)[x] = Spread(g, Relations(more, stored, inner)[x])
<1>1. /\ Relations(more, stored, inner)[x] = MeaningOf(x, more, stored, inner)
      /\ Relations(views, tables, other)[x] = MeaningOf(x, views, tables, other)
  BY DEF Relations
<1>2. CASE x \in DOMAIN more
  <2> DEFINE text == more[x].query
  <2>1. text \in Texts /\ x \in DOMAIN views /\ views[x].query = text
    BY <1>2 DEF TextViews, Refines
  <2>2. /\ MeaningOf(x, more, stored, inner) = inner[Reading(text, Undeclared)]
        /\ MeaningOf(x, views, tables, other) = other[Reading(text, Undeclared)]
    BY <1>2, <2>1 DEF MeaningOf
  <2> HIDE DEF text
  <2>3. Undeclared \in Environments(stored) /\ SpreadEnv(g, Undeclared) = Undeclared
    BY UndeclaredIs, SpreadUndeclared
  <2>4. inner[Reading(text, Undeclared)] # Absent
    BY <1>1, <2>2
  <2>5. other[Reading(text, SpreadEnv(g, Undeclared))] = Spread(g, inner[Reading(text, Undeclared)])
    BY <2>1, <2>3, <2>4 DEF Spreads
  <2>6. QED
    BY <1>1, <2>2, <2>3, <2>5
<1>3. CASE x \notin DOMAIN more
  <2>1. x \in stored /\ MeaningOf(x, more, stored, inner) = <<x>>
    BY <1>1, <1>3 DEF MeaningOf
  <2>2. MeaningOf(x, views, tables, other) = g[x]
    BY <1>3, <2>1 DEF Refines
  <2>3. Spread(g, <<x>>) = g[x]
    BY <2>1, SpreadOne DEF StandsFor
  <2>4. QED
    BY <1>1, <2>1, <2>2, <2>3
<1>4. QED
  BY <1>2, <1>3

LEMMA MeaningSpreads ==
  ASSUME NEW views, TextViews(views), NEW tables \in SUBSET Names,
         NEW more, TextViews(more), NEW stored \in SUBSET Names, NEW g, StandsFor(g, stored, tables),
         NEW depth \in Nat, NEW base \in 0..depth,
         \A n \in base..depth : Refines(views, tables, Meanings(views, tables, depth)[n], more, stored, g)
  PROVE  \A n \in 0..depth : n + base =< depth =>
            Spreads(g, stored, Meanings(more, stored, depth)[n], Meanings(views, tables, depth)[n + base])
<1> DEFINE I == Meanings(more, stored, depth)
           M == Meanings(views, tables, depth)
           T == {n \in Nat : n + base =< depth => Spreads(g, stored, I[n], M[n + base])}
<1>1. /\ \A reading \in Readings(stored) : I[0][reading] = Absent
      /\ \A n \in 0..depth : n # 0 => \A reading \in Readings(stored) :
            I[n][reading] = MeaningStep(more, stored, reading, I[n - 1])
  BY MeaningSteps
<1>2. \A n \in 0..depth : n # 0 => \A reading \in Readings(tables) :
            M[n][reading] = MeaningStep(views, tables, reading, M[n - 1])
  BY MeaningSteps
<1>3. \A n \in 0..depth : Typed(stored, I[n])
  BY MeaningType
<1>4. \A n \in base..depth : Refines(views, tables, M[n], more, stored, g)
  OBVIOUS
<1> HIDE DEF I, M
<1>5. 0 \in T
  BY <1>1 DEF Spreads, Reading, Readings
<1>6. ASSUME NEW n \in T PROVE n + 1 \in T
  <2> SUFFICES ASSUME (n + 1) + base =< depth PROVE Spreads(g, stored, I[n + 1], M[(n + 1) + base])
    OBVIOUS
  <2> DEFINE j == n + 1
             k == j + base
             l == n + base
             inner == I[n]
             other == M[l]
             relations == Relations(more, stored, inner)
             others == Relations(views, tables, other)
  <2>1. /\ j \in 0..depth /\ j # 0 /\ j - 1 = n /\ n \in 0..depth
        /\ k \in 0..depth /\ k # 0 /\ k - 1 = l /\ l \in base..depth /\ l =< depth
    OBVIOUS
  <2>2. Spreads(g, stored, inner, other)
    BY <2>1
  <2> HIDE DEF j, k, l
  <2>3. Typed(stored, inner) /\ Refines(views, tables, other, more, stored, g)
    BY <1>3, <1>4, <2>1
  <2> SUFFICES ASSUME NEW text \in Texts, NEW env \in Environments(stored),
                      I[j][Reading(text, env)] # Absent
               PROVE  M[k][Reading(text, SpreadEnv(g, env))] = Spread(g, I[j][Reading(text, env)])
    BY DEF Spreads, j, k
  <2>4. SpreadEnv(g, env) \in Environments(tables)
    BY SpreadEnvType
  <2>5. Reading(text, env) \in Readings(stored) /\ Reading(text, SpreadEnv(g, env)) \in Readings(tables)
    BY <2>4 DEF Reading, Readings
  <2>6. I[j][Reading(text, env)] = MeaningStep(more, stored, Reading(text, env), inner)
    BY <1>1, <2>1, <2>5
  <2>7. M[k][Reading(text, SpreadEnv(g, env))]
          = MeaningStep(views, tables, Reading(text, SpreadEnv(g, env)), other)
    BY <1>2, <2>1, <2>5
  <2> HIDE DEF inner, other
  <2>8. I[j][Reading(text, env)] = Read(text, env, relations, inner)
    BY <2>6 DEF MeaningStep, Reading, Relations
  <2>9. M[k][Reading(text, SpreadEnv(g, env))] = Read(text, SpreadEnv(g, env), others, other)
    BY <2>7 DEF MeaningStep, Reading, Relations
  <2>10. \A x \in Names : relations[x] \in Maybe(stored)
    <3> SUFFICES ASSUME NEW x \in Names PROVE MeaningOf(x, more, stored, inner) \in Maybe(stored)
      BY DEF Relations
    <3>1. CASE x \in DOMAIN more
      <4>1. Reading(more[x].query, Undeclared) \in Readings(stored)
        BY <3>1, UndeclaredIs DEF TextViews, Reading, Readings
      <4>2. QED
        BY <2>3, <3>1, <4>1 DEF MeaningOf, Typed
    <3>2. CASE x \notin DOMAIN more
      BY <3>2 DEF MeaningOf, Maybe
    <3>3. QED
      BY <3>1, <3>2
  <2>11. \A x \in Names : relations[x] # Absent => others[x] = Spread(g, relations[x])
    <3> SUFFICES ASSUME NEW x \in Names, Relations(more, stored, inner)[x] # Absent
                 PROVE  Relations(views, tables, other)[x] = Spread(g, Relations(more, stored, inner)[x])
      OBVIOUS
    <3>1. QED
      BY <2>2, <2>3, RelationsSpread
  <2> HIDE DEF relations, others
  <2>12. Read(text, env, relations, inner) # Absent
    BY <2>8
  <2>13. Read(text, SpreadEnv(g, env), others, other) = Spread(g, Read(text, env, relations, inner))
    BY <2>2, <2>3, <2>10, <2>11, <2>12, ReadSpreads
  <2>14. QED
    BY <2>8, <2>9, <2>13
<1>7. T = Nat
  <2> HIDE DEF T
  <2>1. T \in SUBSET Nat
    BY DEF T
  <2>2. QED
    BY <1>5, <1>6, <2>1, Induction
<1>8. ASSUME NEW n \in 0..depth, n + base =< depth PROVE Spreads(g, stored, I[n], M[n + base])
  <2>1. n \in T
    <3> HIDE DEF T
    <3>1. QED
      BY <1>7
  <2>2. QED
    BY <1>8, <2>1
<1>9. QED
  BY <1>8 DEF I, M
(* When every table stands for itself, nothing changes: what means         *)
(* something at some depth means the same at a greater one.                *)
Itself(tables) == [x \in tables |-> <<x>>]

LEMMA ItselfStands ==
  ASSUME NEW tables
  PROVE  StandsFor(Itself(tables), tables, tables) /\ \A x \in tables : Itself(tables)[x] = <<x>>
BY DEF StandsFor, Itself

LEMMA SpreadAppend ==
  ASSUME NEW S, NEW V, NEW g \in [S -> Seq(V)], NEW s \in Seq(S), NEW x \in S
  PROVE  Spread(g, Append(s, x)) = Spread(g, s) \o g[x]
<1> DEFINE t == <<x>>
<1>1. t \in Seq(S) /\ Append(s, x) = s \o t
  BY AppendIsConcat
<1>2. Spread(g, t) = g[x]
  BY SpreadOne
<1> HIDE DEF t
<1>3. Spread(g, s \o t) = Spread(g, s) \o Spread(g, t)
  BY ZenonT(60), <1>1, SpreadConcat
<1>4. QED
  BY <1>1, <1>2, <1>3

LEMMA SpreadItself ==
  ASSUME NEW tables, NEW s \in Seq(tables)
  PROVE  Spread(Itself(tables), s) = s
<1> DEFINE g == Itself(tables)
           T == {r \in Seq(tables) : Spread(g, r) = r}
<1>1. g \in [tables -> Seq(tables)] /\ \A x \in tables : g[x] = <<x>>
  BY ItselfStands DEF StandsFor
<1> HIDE DEF g
<1>2. <<>> \in T
  <2>1. <<>> \in Seq(tables)
    BY EmptySeq
  <2>2. Spread(g, <<>>) = <<>>
    BY FlattenEmpty DEF Spread, Mapped
  <2>3. QED
    BY <2>1, <2>2
<1>3. ASSUME NEW r \in T, NEW x \in tables PROVE Append(r, x) \in T
  <2>1. r \in Seq(tables) /\ Spread(g, r) = r
    OBVIOUS
  <2>2. <<x>> \in Seq(tables) /\ Append(r, x) \in Seq(tables) /\ Append(r, x) = r \o <<x>>
    BY <2>1, AppendIsConcat
  <2>3. Spread(g, Append(r, x)) = Spread(g, r) \o g[x]
    BY <1>1, <2>1, SpreadAppend
  <2>4. QED
    BY <1>1, <2>1, <2>2, <2>3
<1>4. T = Seq(tables)
  <2> HIDE DEF T
  <2>1. T \in SUBSET Seq(tables)
    BY DEF T
  <2>2. QED
    BY <1>2, <1>3, <2>1, SequenceInduction
<1>5. QED
  BY <1>4 DEF g

LEMMA SpreadEnvItself ==
  ASSUME NEW tables, NEW env \in Environments(tables)
  PROVE  SpreadEnv(Itself(tables), env) = env
<1>1. ASSUME NEW x \in Names PROVE SpreadValue(Itself(tables), env[x]) = env[x]
  <2>1. env[x] \in {Absent} \cup Seq(tables)
    BY DEF Environments
  <2>2. QED
    BY <2>1, SpreadItself DEF SpreadValue
<1>2. env = [x \in Names |-> env[x]]
  BY DEF Environments
<1> DEFINE a(x) == SpreadValue(Itself(tables), env[x])
           b(x) == env[x]
<1>3. \A x \in Names : a(x) = b(x)
  BY <1>1
<1> HIDE DEF a, b
<1>4. [x \in Names |-> a(x)] = [x \in Names |-> b(x)]
  BY <1>3
<1>5. QED
  BY <1>2, <1>4 DEF SpreadEnv, a, b

Keeps(tables, inner, other) ==
    \A reading \in Readings(tables) : inner[reading] # Absent => other[reading] = inner[reading]

LEMMA MeaningStays ==
  ASSUME NEW views, TextViews(views), NEW tables \in SUBSET Names, NEW depth \in Nat,
         NEW n \in 0..depth, NEW m \in n..depth
  PROVE  Keeps(tables, Meanings(views, tables, depth)[n], Meanings(views, tables, depth)[m])
<1> DEFINE g == Itself(tables)
           M == Meanings(views, tables, depth)
           base == m - n
<1>1. base \in 0..depth /\ n + base = m /\ n + base =< depth
  OBVIOUS
<1> HIDE DEF base
<1>2. StandsFor(g, tables, tables)
  BY ItselfStands
<1>3. ASSUME NEW meant PROVE Refines(views, tables, meant, views, tables, g)
  BY ItselfStands DEF Refines, MeaningOf
<1> HIDE DEF g
<1>4. Spreads(g, tables, M[n], M[n + base])
  BY <1>1, <1>2, <1>3, MeaningSpreads
<1>5. Typed(tables, M[n])
  BY MeaningType
<1> HIDE DEF M
<1>6. ASSUME NEW reading \in Readings(tables), M[n][reading] # Absent PROVE M[m][reading] = M[n][reading]
  <2> DEFINE text == reading.query
             env == reading.env
  <2>1. reading = Reading(text, env) /\ text \in Texts /\ env \in Environments(tables)
    BY DEF Readings, Reading
  <2> HIDE DEF text, env
  <2>2. M[n][reading] \in Seq(tables)
    BY <1>5, <1>6 DEF Typed, Maybe
  <2>3. SpreadEnv(g, env) = env
    BY <2>1, SpreadEnvItself DEF g
  <2>4. M[n + base][Reading(text, SpreadEnv(g, env))] = Spread(g, M[n][Reading(text, env)])
    BY <1>4, <1>6, <2>1 DEF Spreads
  <2>5. Spread(g, M[n][reading]) = M[n][reading]
    BY <2>2, SpreadItself DEF g
  <2>6. QED
    BY <1>1, <2>1, <2>3, <2>4, <2>5
<1>7. QED
  BY <1>6 DEF Keeps, M

(* A view that has been given what it means.                               *)
Standing(tables, name, value) == [x \in tables \cup {name} |-> IF x = name THEN value ELSE <<x>>]

LEMMA TabulatedMeaning ==
  ASSUME NEW views, TextViews(views), NEW tables \in SUBSET Names, NEW name \in DOMAIN views,
         NEW depth \in Nat, NEW base \in 0..depth, NEW value,
         value = Meanings(views, tables, depth)[base][Reading(views[name].query, Undeclared)],
         value # Absent
  PROVE  /\ value \in Seq(tables)
         /\ \A n \in 0..depth : n + base =< depth =>
               Spreads(Standing(tables, name, value), tables \cup {name},
                       Meanings(Without(views, name), tables \cup {name}, depth)[n],
                       Meanings(views, tables, depth)[n + base])
<1> DEFINE text == views[name].query
           M == Meanings(views, tables, depth)
           more == Without(views, name)
           stored == tables \cup {name}
           g == Standing(tables, name, value)
<1>1. text \in Texts /\ name \in Names /\ Undeclared \in Environments(tables)
  BY UndeclaredIs DEF TextViews
<1>2. Reading(text, Undeclared) \in Readings(tables)
  BY <1>1 DEF Reading, Readings
<1>3. value \in Seq(tables)
  <2>1. Typed(tables, M[base])
    BY MeaningType
  <2> HIDE DEF M, text
  <2>2. value = M[base][Reading(text, Undeclared)]
    BY DEF M, text
  <2>3. QED
    BY <1>2, <2>1, <2>2 DEF Typed, Maybe
<1>4. StandsFor(g, stored, tables)
  <2>1. \A x \in stored : (IF x = name THEN value ELSE <<x>>) \in Seq(tables)
    BY <1>3
  <2>2. QED
    BY <2>1 DEF StandsFor, Standing
<1>5. TextViews(more) /\ stored \in SUBSET Names
      /\ DOMAIN more = DOMAIN views \ {name} /\ \A v \in DOMAIN views \ {name} : more[v] = views[v]
  BY <1>1, WithoutIs
<1>6. ASSUME NEW n \in base..depth PROVE Refines(views, tables, M[n], more, stored, g)
  <2>1. \A x \in DOMAIN more : x \in DOMAIN views /\ views[x].query = more[x].query
    BY <1>5
  <2>2. MeaningOf(name, views, tables, M[n]) = value
    <3>1. Keeps(tables, M[base], M[n])
      BY MeaningStays
    <3> HIDE DEF M, text
    <3>2. value = M[base][Reading(text, Undeclared)]
      BY DEF M, text
    <3>3. M[n][Reading(text, Undeclared)] = value
      BY <1>2, <3>1, <3>2 DEF Keeps
    <3>4. QED
      BY <3>3 DEF MeaningOf, text
  <2>3. g[name] = value /\ \A x \in tables \ {name} : g[x] = <<x>>
    BY DEF Standing
  <2>4. ASSUME NEW x \in stored \ DOMAIN more PROVE MeaningOf(x, views, tables, M[n]) = g[x]
    <3>1. CASE x = name
      BY <2>2, <2>3, <3>1
    <3>2. CASE x # name
      <4>1. x \in tables /\ x \notin DOMAIN views
        BY <1>5, <2>4, <3>2
      <4>2. QED
        BY <2>3, <3>2, <4>1 DEF MeaningOf
    <3>3. QED
      BY <3>1, <3>2
  <2> HIDE DEF M, more, stored, g
  <2>5. QED
    BY <2>1, <2>4 DEF Refines
<1> HIDE DEF more, stored, g
<1>7. \A n \in 0..depth : n + base =< depth => Spreads(g, stored, Meanings(more, stored, depth)[n], M[n + base])
  BY <1>4, <1>5, <1>6, MeaningSpreads
<1>8. QED
  BY <1>3, <1>7 DEF more, stored, g
----------------------------------------------------------------------------
(* A table that holds the rows of a view is read like what the view means. *)
Through(S, g, h) == [x \in S |-> Spread(h, g[x])]

LEMMA SpreadTwice ==
  ASSUME NEW S, NEW V, NEW W, NEW g, StandsFor(g, S, V), NEW h, StandsFor(h, V, W), NEW s \in Seq(S)
  PROVE  Spread(h, Spread(g, s)) = Spread(Through(S, g, h), s)
<1> DEFINE p == Mapped(g, s)
           f == [x \in S |-> Spread(h, g[x])]
           a(i) == Spread(h, p[i])
           b(i) == f[s[i]]
<1>1. p \in Seq(Seq(V)) /\ DOMAIN p = DOMAIN s
  <2>1. p \in Seq(Seq(V))
    BY MappedSeq DEF StandsFor
  <2>2. QED
    BY <2>1 DEF Mapped
<1>2. Spread(h, FlattenSeq(p)) = FlattenSeq([i \in DOMAIN p |-> a(i)])
  <2> HIDE DEF p
  <2>1. QED
    BY <1>1, SpreadFlatten DEF StandsFor
<1>3. ASSUME NEW i \in DOMAIN s PROVE a(i) = b(i)
  <2>1. s[i] \in S
    OBVIOUS
  <2>2. p[i] = g[s[i]]
    BY DEF Mapped
  <2>3. QED
    BY <2>1, <2>2
<1>4. Spread(f, s) = FlattenSeq([i \in DOMAIN s |-> b(i)])
  BY DEF Spread, Mapped
<1>5. Spread(h, Spread(g, s)) = FlattenSeq([i \in DOMAIN p |-> a(i)])
  BY <1>2 DEF Spread
<1> HIDE DEF a, b, p
<1>6. [i \in DOMAIN p |-> a(i)] = [i \in DOMAIN s |-> b(i)]
  BY <1>1, <1>3
<1>7. QED
  BY <1>4, <1>5, <1>6 DEF Through

LEMMA OrderedInterval ==
  ASSUME NEW n \in Nat
  PROVE  Ordered(1..n) = [i \in 1..n |-> i]
<1> DEFINE below(x) == {y \in 1..n : y < x}
           body(i) == CHOOSE x \in 1..n : Cardinality(below(x)) = i - 1
<1>1. Cardinality(1..n) = n
  <2>1. n > 0 \/ n = 0
    OBVIOUS
  <2>2. QED
    BY <2>1, FS_Interval
<1>2. ASSUME NEW x \in 1..n PROVE Cardinality(below(x)) = x - 1
  <2>1. below(x) = 1..(x - 1)
    OBVIOUS
  <2> HIDE DEF below
  <2>2. Cardinality(1..(x - 1)) = x - 1
    <3>1. 1 \in Int /\ x - 1 \in Int /\ (1 > x - 1 => x - 1 = 0) /\ (x - 1) - 1 + 1 = x - 1
      OBVIOUS
    <3> DEFINE b == x - 1
    <3> HIDE DEF b
    <3>2. Cardinality(1..b) = IF 1 > b THEN 0 ELSE b - 1 + 1
      BY <3>1, FS_Interval DEF b
    <3>3. QED
      BY <3>1, <3>2 DEF b
  <2>3. QED
    BY <2>1, <2>2
<1>3. ASSUME NEW i \in 1..n PROVE body(i) = i
  <2> HIDE DEF below
  <2>1. \E x \in 1..n : Cardinality(below(x)) = i - 1
    BY <1>2
  <2>2. body(i) \in 1..n /\ Cardinality(below(body(i))) = i - 1
    BY <2>1
  <2> HIDE DEF body
  <2>3. Cardinality(below(body(i))) = body(i) - 1
    BY <1>2, <2>2
  <2>4. QED
    BY <2>2, <2>3
<1>4. Ordered(1..n) = [i \in 1..n |-> body(i)]
  BY <1>1 DEF Ordered
<1> HIDE DEF body, below
<1>5. QED
  BY <1>3, <1>4

LEMMA ReadTabulated ==
  ASSUME NEW d, Plain(d), NEW name \in Names, NEW V, NEW rows \in Seq(V), NEW context
  PROVE  LET e == Tabulated(d, name, rows)
         IN  /\ read_table(e, name, context) = rows
             /\ \A t \in DOMAIN d.rows : t # name => read_table(e, t, context) = read_table(d, t, context)
<1> DEFINE e == Tabulated(d, name, rows)
           n == Len(rows)
           shown(t, values) == allowed(e, t, "SELECT", values, context, FALSE)
           given(t, values) == allowed(d, t, "SELECT", values, context, FALSE)
<1>1. Becomes(d, name, rows, e)
  BY TabulatedRows
<1> HIDE DEF e
<1>2. e.rows[name] = rows /\ e.catalog.rls_enabled[name] = FALSE
      /\ \A t \in DOMAIN d.rows : t # name =>
            /\ e.rows[t] = d.rows[t]
            /\ e.catalog.policies[t] = d.catalog.policies[t]
            /\ e.catalog.rls_enabled[t] = d.catalog.rls_enabled[t]
  BY <1>1 DEF Becomes
<1>3. \A values : shown(name, values)
  BY <1>2 DEF allowed
<1>4. \A t \in DOMAIN d.rows : t # name => \A values : shown(t, values) <=> given(t, values)
  BY <1>2, AllowedByCatalog
<1>5. \A t : /\ Visible(e, t, context) = {r \in DOMAIN e.rows[t] : shown(t, e.rows[t][r])}
             /\ Visible(d, t, context) = {r \in DOMAIN d.rows[t] : given(t, d.rows[t][r])}
  BY DEF Visible, Rows
<1> HIDE DEF shown, given
<1>6. read_table(e, name, context) = rows
  <2>1. n \in Nat /\ DOMAIN rows = 1..n /\ rows = [i \in 1..n |-> rows[i]]
    OBVIOUS
  <2> HIDE DEF n
  <2>2. Visible(e, name, context) = 1..n
    BY <1>2, <1>3, <1>5, <2>1
  <2>3. Ordered(1..n) = [i \in 1..n |-> i]
    BY <2>1, OrderedInterval
  <2> DEFINE q == Ordered(1..n)
  <2>4. DOMAIN q = 1..n /\ \A i \in 1..n : q[i] = i
    BY <2>3
  <2> HIDE DEF q
  <2>5. read_table(e, name, context) = [i \in DOMAIN q |-> rows[q[i]]]
    BY <1>2, <2>2 DEF read_table, Listed, Rows, q
  <2>6. [i \in DOMAIN q |-> rows[q[i]]] = [i \in 1..n |-> rows[i]]
    BY <2>4
  <2>7. QED
    BY <2>1, <2>5, <2>6
<1>7. ASSUME NEW t \in DOMAIN d.rows, t # name PROVE read_table(e, t, context) = read_table(d, t, context)
  <2>1. Visible(e, t, context) = Visible(d, t, context)
    BY <1>2, <1>4, <1>5, <1>7
  <2>2. e.rows[t] = d.rows[t]
    BY <1>2, <1>7
  <2>3. QED
    BY <2>1, <2>2 DEF read_table, Listed, Rows
<1>8. QED
  BY <1>6, <1>7 DEF e

LEMMA RowsTabulated ==
  ASSUME NEW d, Plain(d), NEW name \in Names, NEW value \in Seq(DOMAIN d.rows), NEW context,
         NEW read \in Seq(DOMAIN d.rows \cup {name})
  PROVE  LET e == Tabulated(d, name, rows_of(d, value, context))
             g == Standing(DOMAIN d.rows, name, value)
         IN  /\ Spread(g, read) \in Seq(DOMAIN d.rows)
             /\ rows_of(e, read, context) = rows_of(d, Spread(g, read), context)
<1> DEFINE tables == DOMAIN d.rows
           stored == tables \cup {name}
           rows == rows_of(d, value, context)
           e == Tabulated(d, name, rows)
           g == Standing(tables, name, value)
           A == AnyRow(d)
           B == AnyRow(e)
           h == [t \in tables |-> read_table(d, t, context)]
           k == [t \in stored |-> read_table(e, t, context)]
<1>1. rows \in Seq(A) /\ rows = Spread(h, value)
  BY RowsOfType
<1>2. h \in [tables -> Seq(A)]
  BY ReadTableType
<1>3. g \in [stored -> Seq(tables)] /\ g[name] = value /\ \A t \in tables : t # name => g[t] = <<t>>
  <2>1. ASSUME NEW x \in stored PROVE (IF x = name THEN value ELSE <<x>>) \in Seq(tables)
    <3>1. CASE x = name
      BY <3>1
    <3>2. CASE x # name
      <4>1. x \in tables
        BY <3>2
      <4> HIDE DEF tables
      <4>2. <<x>> \in Seq(tables)
        BY <4>1
      <4>3. QED
        BY <3>2, <4>2
    <3>3. QED
      BY <3>1, <3>2
  <2>2. QED
    BY <2>1 DEF Standing
<1>4. Plain(e) /\ DOMAIN e.rows = stored
  <2>1. Plain(e)
    BY <1>1, TabulatedIsPlain
  <2>2. Becomes(d, name, rows, e)
    BY TabulatedRows
  <2>3. QED
    BY <2>1, <2>2 DEF Becomes
<1>5. /\ read_table(e, name, context) = rows
      /\ \A t \in tables : t # name => read_table(e, t, context) = read_table(d, t, context)
  <2> HIDE DEF rows, A, tables
  <2>1. QED
    BY <1>1, ReadTabulated DEF tables
<1> HIDE DEF A, B, e, g, h, rows
<1>6. rows_of(e, read, context) = Spread(k, read)
  <2>1. stored \in SUBSET DOMAIN e.rows /\ read \in Seq(stored)
    BY <1>4
  <2>2. rows_of(e, read, context) = Spread([t \in DOMAIN e.rows |-> read_table(e, t, context)], read)
    BY <1>4, <2>1, RowsOfType
  <2>3. QED
    BY <1>4, <2>2
<1>7. ASSUME NEW t \in stored PROVE read_table(e, t, context) = Spread(h, g[t])
  <2>1. CASE t = name
    BY <1>1, <1>3, <1>5, <2>1
  <2>2. CASE t # name
    <3>1. t \in tables /\ g[t] = <<t>> /\ read_table(e, t, context) = read_table(d, t, context)
      BY <1>3, <1>5, <2>2
    <3>2. Spread(h, <<t>>) = h[t]
      BY <1>2, <3>1, SpreadOne
    <3>3. h[t] = read_table(d, t, context)
      BY <3>1 DEF h
    <3>4. QED
      BY <3>1, <3>2, <3>3
  <2>3. QED
    BY <2>1, <2>2
<1>8. k = [t \in stored |-> Spread(h, g[t])]
  BY <1>7
<1>9. Spread(h, Spread(g, read)) = Spread(Through(stored, g, h), read)
  <2> HIDE DEF stored, tables
  <2>1. read \in Seq(stored)
    BY DEF stored, tables
  <2>2. StandsFor(g, stored, tables) /\ StandsFor(h, tables, A)
    BY <1>2, <1>3 DEF StandsFor
  <2>3. QED
    BY ONLY <2>1, <2>2, SpreadTwice
<1>10. Spread(g, read) \in Seq(tables)
  <2> HIDE DEF stored
  <2>1. read \in Seq(stored)
    BY DEF stored
  <2>2. QED
    BY <1>3, <2>1, SpreadType
<1> HIDE DEF k
<1>11. rows_of(d, Spread(g, read), context) = Spread(h, Spread(g, read))
  <2> DEFINE r == Spread(g, read)
  <2> HIDE DEF r
  <2>1. r \in Seq(tables)
    BY <1>10 DEF r
  <2>2. rows_of(d, r, context) = Spread(h, r)
    BY <2>1, RowsOfType DEF h
  <2>3. QED
    BY <2>2 DEF r
<1>12. QED
  BY <1>6, <1>8, <1>9, <1>10, <1>11 DEF e, g, rows, Through
(* e has tables for some views of d: what a text means in e, it means in d *)
(* at most base steps deeper, and its rows are the same.                   *)
Carries(d, e, base, depth, context) ==
    \A n \in 0..depth, text \in Texts :
        LET read == Meanings(Views(e), DOMAIN e.rows, depth)[n][Reading(text, Undeclared)]
            meant == Meanings(Views(d), DOMAIN d.rows, depth)[n + base][Reading(text, Undeclared)]
        IN  n + base =< depth /\ read # Absent =>
                meant # Absent /\ rows_of(e, read, context) = rows_of(d, meant, context)

LEMMA CarriesItself ==
  ASSUME NEW d, NEW depth \in Nat, NEW context
  PROVE  Carries(d, d, 0, depth, context)
<1>1. \A n \in 0..depth : n + 0 = n
  OBVIOUS
<1>2. QED
  BY <1>1 DEF Carries

LEMMA SpreadUndeclaredIs ==
  ASSUME NEW g
  PROVE  SpreadEnv(g, Undeclared) = Undeclared
BY DEF SpreadEnv, SpreadValue, Undeclared

LEMMA CarriesOneMore ==
  ASSUME ~ AcceptsShadowing, NEW d, NEW e, Plain(e), NEW base \in Nat, NEW depth \in Nat, NEW context,
         base + MaxVisits =< depth, Carries(d, e, base, depth, context),
         NEW name \in DOMAIN Views(e), normalize(e, Views(e)[name].query).ok,
         NamesRead(Views(e), DOMAIN e.rows, Views(e)[name].query) # Absent
  PROVE  LET value == NamesRead(Views(e), DOMAIN e.rows, Views(e)[name].query)
         IN  Carries(d, Tabulated(e, name, rows_of(e, value, context)), base + MaxVisits, depth, context)
<1> DEFINE views == Views(e)
           tables == DOMAIN e.rows
           query == views[name].query
           value == NamesRead(views, tables, query)
           f == Tabulated(e, name, rows_of(e, value, context))
           stored == tables \cup {name}
           g == Standing(tables, name, value)
           more == Without(views, name)
           M == Meanings(views, tables, depth)
           W == Meanings(more, stored, depth)
<1>1. TextViews(views) /\ tables \in SUBSET Names /\ query \in Texts /\ name \in Names
  <2>1. TextViews(views) /\ tables \in SUBSET Names
    BY PlainViews
  <2>2. QED
    BY <2>1 DEF TextViews
<1>2. MaxVisits \in Nat /\ MaxVisits \in 0..depth /\ MaxVisits =< depth
  BY MaxVisitsType
<1>3. value # Absent /\ normalize(e, query).ok
  OBVIOUS
<1>4. M[MaxVisits][Reading(query, Undeclared)] = value
  <2> HIDE DEF query
  <2>1. QED
    BY <1>1, <1>2, <1>3, NamesReadAsMeant
<1> HIDE DEF value
<1>5. /\ value \in Seq(tables)
      /\ \A n \in 0..depth : n + MaxVisits =< depth => Spreads(g, stored, W[n], M[n + MaxVisits])
  <2> HIDE DEF views, tables
  <2>1. name \in DOMAIN views
    BY DEF views
  <2>2. QED
    BY <1>1, <1>2, <1>3, <1>4, <2>1, TabulatedMeaning
<1>6. Views(f) = more /\ DOMAIN f.rows = stored
  <2> DEFINE rows == rows_of(e, value, context)
  <2> HIDE DEF rows
  <2>1. Becomes(e, name, rows, Tabulated(e, name, rows))
    BY TabulatedRows
  <2>2. f = Tabulated(e, name, rows)
    BY DEF rows
  <2> HIDE DEF f
  <2>3. QED
    BY <2>1, <2>2 DEF Becomes
<1>7. ASSUME NEW read \in Seq(stored)
      PROVE  Spread(g, read) \in Seq(tables) /\ rows_of(f, read, context) = rows_of(e, Spread(g, read), context)
  BY <1>1, <1>5, RowsTabulated
<1>8. TextViews(more) /\ stored \in SUBSET Names
  BY <1>1, WithoutIs
<1>9. \A n \in 0..depth : Typed(stored, W[n])
  <2> HIDE DEF stored, more
  <2>1. QED
    BY <1>8, MeaningType
<1>10. Undeclared \in Environments(stored)
  BY UndeclaredIs
<1> HIDE DEF views, tables, query, f, stored, g, more, M, W
<1>11. ASSUME NEW n \in 0..depth, NEW text \in Texts, n + (base + MaxVisits) =< depth,
              W[n][Reading(text, Undeclared)] # Absent
       PROVE  LET meant == Meanings(Views(d), DOMAIN d.rows, depth)[n + (base + MaxVisits)][Reading(text, Undeclared)]
              IN  /\ meant # Absent
                  /\ rows_of(f, W[n][Reading(text, Undeclared)], context) = rows_of(d, meant, context)
  <2> DEFINE reading == Reading(text, Undeclared)
             read == W[n][reading]
             m == n + MaxVisits
             mid == M[m][reading]
             meant == Meanings(Views(d), DOMAIN d.rows, depth)[m + base][reading]
  <2>1. m \in 0..depth /\ m =< depth /\ m + base =< depth /\ n + (base + MaxVisits) = m + base
    BY <1>2, <1>11
  <2>2. reading \in Readings(stored)
    BY <1>10 DEF Reading, Readings
  <2>3. read \in Seq(stored)
    <3> HIDE DEF reading
    <3>1. Typed(stored, W[n])
      BY <1>9
    <3>2. QED
      BY <1>11, <2>2, <3>1 DEF Typed, Maybe, reading
  <2>4. mid = Spread(g, read)
    <3>1. Spreads(g, stored, W[n], M[m])
      BY <1>5, <2>1
    <3> HIDE DEF m
    <3>2. M[m][Reading(text, SpreadEnv(g, Undeclared))] = Spread(g, W[n][Reading(text, Undeclared)])
      BY <1>10, <1>11, <3>1 DEF Spreads
    <3>3. QED
      BY <3>2, SpreadUndeclaredIs
  <2> HIDE DEF m
  <2>5. mid \in Seq(tables) /\ rows_of(f, read, context) = rows_of(e, mid, context)
    <3> HIDE DEF read, mid
    <3>1. QED
      BY <1>7, <2>3, <2>4
  <2>6. mid # Absent
    <3> HIDE DEF mid
    <3>1. QED
      BY <1>1, <2>5, NothingIsAbsent
  <2>7. meant # Absent /\ rows_of(e, mid, context) = rows_of(d, meant, context)
    <3>1. mid = Meanings(Views(e), DOMAIN e.rows, depth)[m][Reading(text, Undeclared)]
      BY DEF M, views, tables
    <3>2. meant = Meanings(Views(d), DOMAIN d.rows, depth)[m + base][Reading(text, Undeclared)]
      OBVIOUS
    <3> HIDE DEF mid, meant, reading
    <3>3. QED
      BY <2>1, <2>6, <3>1, <3>2 DEF Carries
  <2>8. QED
    BY <2>1, <2>5, <2>7
<1>12. Carries(d, f, base + MaxVisits, depth, context)
  BY <1>6, <1>11 DEF Carries, W
<1>13. QED
  BY <1>12 DEF f, value, query, views, tables
(* The database in which the first i of the names are tables.              *)
Stored(d, names, i, acc, depth, context) ==
    /\ Plain(acc.db)
    /\ \A v \in DOMAIN Views(d) : (\A k \in 1..i : names[k] # v) =>
          v \in DOMAIN Views(acc.db) /\ Views(acc.db)[v] = Views(d)[v]
    /\ Carries(d, acc.db, i * MaxVisits, depth, context)

LEMMA Steps ==
  ASSUME NEW n \in Nat, NEW i \in 0..n, NEW m \in Nat
  PROVE  /\ i * m \in Nat /\ (i + 1) * m = i * m + m
         /\ m * (1 + n) = m + n * m /\ m * (1 + n) \in Nat /\ m =< m * (1 + n)
         /\ i < n => i * m + m =< m * (1 + n)
<1>1. i * m \in Nat /\ (i + 1) * m = i * m + m
  OBVIOUS
<1>2. m * (1 + n) = m + n * m /\ n * m \in Nat
  OBVIOUS
<1>3. i * m =< n * m
  <2> DEFINE k == n - i
  <2>1. k \in Nat /\ n = i + k
    OBVIOUS
  <2> HIDE DEF k
  <2>2. k * m \in Nat /\ (i + k) * m = i * m + k * m
    BY <2>1
  <2>3. QED
    BY <1>1, <1>2, <2>1, <2>2
<1> DEFINE a == i * m
           b == n * m
           c == m * (1 + n)
<1>4. a \in Nat /\ b \in Nat /\ c = m + b /\ a =< b
  BY <1>1, <1>2, <1>3
<1> HIDE DEF a, b, c
<1>5. c \in Nat /\ m =< c /\ a + m =< c
  BY <1>4
<1>6. QED
  BY <1>1, <1>2, <1>5 DEF a, b, c

LEMMA StoredNext ==
  ASSUME ~ AcceptsShadowing, NEW d, Plain(d), NEW names \in Seq(DOMAIN Views(d)), Distinct(names),
         NEW context, NEW i \in 0..Len(names), i < Len(names), NEW acc, acc.ok,
         Stored(d, names, i, acc, MaxVisits * (1 + Len(names)), context)
  PROVE  LET next == Compute(acc, Views(d), context, names[i + 1])
         IN  next.ok => Stored(d, names, i + 1, next, MaxVisits * (1 + Len(names)), context)
<1> DEFINE n == Len(names)
           depth == MaxVisits * (1 + n)
           base == i * MaxVisits
           j == i + 1
           name == names[j]
           e == acc.db
           query == Views(d)[name].query
           next == Compute(acc, Views(d), context, name)
           answer == query_batches(e, query, context)
           value == NamesRead(Views(e), DOMAIN e.rows, query)
           rows == rows_of(e, value, context)
           f == Tabulated(e, name, rows)
<1>1. /\ n \in Nat /\ MaxVisits \in Nat /\ j \in 1..n /\ base \in Nat /\ depth \in Nat
      /\ base + MaxVisits =< depth /\ j * MaxVisits = base + MaxVisits
  <2>1. n \in Nat /\ MaxVisits \in Nat
    BY MaxVisitsType
  <2>2. j \in 1..n
    OBVIOUS
  <2> DEFINE m == MaxVisits
  <2> HIDE DEF m
  <2>3. i * m \in Nat /\ (i + 1) * m = i * m + m /\ m * (1 + n) \in Nat /\ i * m + m =< m * (1 + n)
    <3>1. n \in Nat /\ i \in 0..n /\ m \in Nat /\ i < n
      BY <2>1 DEF m
    <3> HIDE DEF n
    <3>2. QED
      BY <3>1, Steps
  <2>4. QED
    BY <2>1, <2>2, <2>3 DEF m
<1>2. name \in DOMAIN Views(d) /\ \A k \in 1..i : names[k] # name
  <2> HIDE DEF j
  <2>1. name \in DOMAIN Views(d)
    BY <1>1
  <2>2. \A k \in 1..i : k \in 1..n /\ k # j
    BY <1>1 DEF j
  <2>3. QED
    BY <1>1, <2>1, <2>2 DEF Distinct
<1>3. Plain(e) /\ Carries(d, e, base, depth, context)
      /\ \A v \in DOMAIN Views(d) : (\A k \in 1..i : names[k] # v) =>
            v \in DOMAIN Views(e) /\ Views(e)[v] = Views(d)[v]
  BY DEF Stored
<1>4. next = IF answer.ok THEN Success(Tabulated(e, name, answer.rows)) ELSE Failure(e)
  BY DEF Compute, materialize, Replaced
<1>5. name \in DOMAIN Views(e) /\ Views(e)[name] = Views(d)[name] /\ name \in Names /\ query \in Texts
  <2> HIDE DEF name
  <2>1. name \in DOMAIN Views(e) /\ Views(e)[name] = Views(d)[name]
    BY <1>2, <1>3
  <2>2. TextViews(Views(d))
    BY PlainViews
  <2>3. QED
    BY <1>2, <2>1, <2>2 DEF TextViews
<1> SUFFICES ASSUME next.ok PROVE Stored(d, names, j, next, depth, context)
  OBVIOUS
<1> HIDE DEF next, answer, value, rows, query
<1>6. answer.ok /\ next.db = Tabulated(e, name, answer.rows)
  <2> HIDE DEF e, name
  <2>1. QED
    BY <1>4, ResultIs
<1>7. /\ normalize(e, query).ok /\ value # Absent /\ answer = Answer(rows)
      /\ rows \in Seq(AnyRow(e))
  <2> HIDE DEF e
  <2>1. \/ answer = NoAnswer
        \/ /\ normalize(e, query).ok /\ value # Absent /\ answer = Answer(rows)
           /\ rows \in Seq(AnyRow(e))
    BY ZenonT(30), <1>3, <1>5, QueryBatchesIs DEF answer, value, rows
  <2>2. QED
    BY <1>6, <2>1, AnswerIs
<1>8. next.db = f
  BY <1>6, <1>7, AnswerIs
<1> HIDE DEF f, e, name, base, depth, j
<1>9. Plain(f)
  BY <1>3, <1>5, <1>7, TabulatedIsPlain DEF f
<1>10. Carries(d, f, j * MaxVisits, depth, context)
  <2>1. query = Views(e)[name].query
    BY <1>5 DEF query
  <2>2. normalize(e, Views(e)[name].query).ok /\ NamesRead(Views(e), DOMAIN e.rows, Views(e)[name].query) # Absent
    BY <1>7, <2>1 DEF value
  <2>3. Carries(d, Tabulated(e, name, rows_of(e, NamesRead(Views(e), DOMAIN e.rows, Views(e)[name].query), context)),
                base + MaxVisits, depth, context)
    BY <1>1, <1>3, <1>5, <2>2, CarriesOneMore
  <2>4. QED
    BY <1>1, <2>1, <2>3 DEF f, rows, value
<1>11. Views(f) = Without(Views(e), name)
  <2>1. Becomes(e, name, rows, Tabulated(e, name, rows))
    BY <1>3, TabulatedRows
  <2>2. f = Tabulated(e, name, rows)
    BY DEF f
  <2>3. QED
    BY <2>1, <2>2 DEF Becomes
<1>12. ASSUME NEW v \in DOMAIN Views(d), \A k \in 1..j : names[k] # v
       PROVE  v \in DOMAIN Views(f) /\ Views(f)[v] = Views(d)[v]
  <2>1. (\A k \in 1..i : k \in 1..j) /\ j \in 1..j
    BY <1>1 DEF j
  <2>2. v # name /\ \A k \in 1..i : names[k] # v
    BY <1>12, <2>1 DEF name
  <2>3. v \in DOMAIN Views(e) /\ Views(e)[v] = Views(d)[v]
    BY <1>3, <2>2
  <2>4. QED
    BY <1>11, <2>2, <2>3 DEF Without
<1>13. QED
  BY <1>8, <1>9, <1>10, <1>12 DEF Stored
LEMMA PreparedStores ==
  ASSUME ~ AcceptsShadowing, NEW d, Plain(d), NEW query \in Texts, NEW context, prepared(d, query, context).ok
  PROVE  LET n == Len(dependencies(Views(d), query).names)
             e == prepared(d, query, context).db
         IN  n \in Nat /\ Plain(e) /\ Carries(d, e, n * MaxVisits, Depth(d, query), context)
<1> DEFINE views == Views(d)
           needed == dependencies(views, query)
           names == needed.names
           n == Len(names)
           depth == MaxVisits * (1 + n)
<1>1. names \in Seq(DOMAIN views) /\ Distinct(names) /\ n \in Nat
  <2>1. TextViews(views) /\ FoundViews(views, needed)
    BY PlainViews, DependenciesAreViews
  <2>2. QED
    BY <2>1 DEF FoundViews
<1>2. PICK g : /\ g[0] = Success(d)
               /\ \A i \in 1..n : g[i] = Compute(g[i - 1], views, context, names[i])
               /\ prepared(d, query, context) = IF needed.ok THEN g[n] ELSE Failure(d)
  BY <1>1, PreparedSteps
<1>3. prepared(d, query, context) = g[n] /\ g[n].ok
  <2> HIDE DEF needed, n
  <2>1. QED
    BY <1>2, ResultIs
<1>4. Depth(d, query) = depth
  BY DEF Depth
<1>5. MaxVisits \in Nat /\ depth \in Nat
  <2>1. MaxVisits \in Nat
    BY MaxVisitsType
  <2> DEFINE m == MaxVisits
  <2> HIDE DEF m, n
  <2>2. m \in Nat /\ n \in Nat /\ 0 \in 0..n
    BY <1>1, <2>1 DEF m
  <2>3. m * (1 + n) \in Nat
    BY <2>2, Steps
  <2>4. QED
    BY <2>1, <2>3 DEF m
<1> HIDE DEF views, needed, names, n, depth
<1> DEFINE T == {i \in Nat : i \in 0..n => (g[i].ok => Stored(d, names, i, g[i], depth, context))}
<1>6. 0 \in T
  <2>1. g[0].db = d
    BY <1>2, ResultIs
  <2>2. Carries(d, d, 0, depth, context)
    BY <1>5, CarriesItself
  <2>3. 0 * MaxVisits = 0
    BY <1>5
  <2>4. Stored(d, names, 0, g[0], depth, context)
    BY <2>1, <2>2, <2>3 DEF Stored
  <2>5. QED
    BY <2>4
<1>7. ASSUME NEW i \in T PROVE i + 1 \in T
  <2> SUFFICES ASSUME i + 1 \in 0..n, g[i + 1].ok
               PROVE  Stored(d, names, i + 1, g[i + 1], depth, context)
    OBVIOUS
  <2> DEFINE j == i + 1
             acc == g[i]
  <2>1. i \in 0..n /\ i < n /\ j \in 1..n /\ j - 1 = i
    BY <1>1
  <2>2. g[j] = Compute(acc, views, context, names[j])
    <3> HIDE DEF j, acc
    <3>1. g[j] = Compute(g[j - 1], views, context, names[j])
      BY <1>2, <2>1
    <3>2. QED
      BY <2>1, <3>1 DEF acc
  <2>3. acc.ok
    <3> HIDE DEF acc, j
    <3>1. ~ acc.ok => g[j] = acc
      BY <2>2 DEF Compute
    <3>2. QED
      BY <3>1 DEF j
  <2>4. Stored(d, names, i, acc, depth, context)
    BY <2>1, <2>3
  <2> HIDE DEF acc
  <2>5. Compute(acc, Views(d), context, names[i + 1]).ok
          => Stored(d, names, i + 1, Compute(acc, Views(d), context, names[i + 1]), depth, context)
    <3>1. names \in Seq(DOMAIN Views(d)) /\ i \in 0..Len(names) /\ i < Len(names)
          /\ depth = MaxVisits * (1 + Len(names))
      BY <1>1, <2>1 DEF views, n, depth
    <3>2. QED
      BY <1>1, <2>3, <2>4, <3>1, StoredNext
  <2>6. QED
    BY <2>2, <2>5 DEF views
<1>8. T = Nat
  <2> HIDE DEF T
  <2>1. T \in SUBSET Nat
    BY DEF T
  <2>2. QED
    BY <1>6, <1>7, <2>1, Induction
<1>9. n \in Nat /\ Stored(d, names, n, g[n], depth, context)
  BY <1>1, <1>3, <1>8
<1>10. QED
  BY <1>3, <1>4, <1>9 DEF Stored, n, names, needed, views

LEMMA AnswersAsMeant ==
  ASSUME ~ AcceptsShadowing, NEW d, Plain(d), NEW query \in Texts, NEW context, execute(d, query, context).ok
  PROVE  /\ Meaning(d, query) # Absent
         /\ execute(d, query, context).rows = rows_of(d, Meaning(d, query), context)
<1> DEFINE ready == prepared(d, query, context)
           e == ready.db
           answer == execute(d, query, context)
           read == NamesRead(Views(e), DOMAIN e.rows, query)
           n == Len(dependencies(Views(d), query).names)
           depth == Depth(d, query)
           base == n * MaxVisits
           reading == Reading(query, Undeclared)
<1>1. answer = IF ready.ok THEN query_batches(e, query, context) ELSE NoAnswer
  BY DEF execute, Executed
<1>2. answer.ok
  OBVIOUS
<1> HIDE DEF ready, answer
<1>3. ready.ok /\ answer = query_batches(e, query, context)
  BY <1>1, <1>2, AnswerIs
<1>4. n \in Nat /\ Plain(e) /\ Carries(d, e, base, depth, context)
  BY <1>3, PreparedStores DEF ready
<1>5. MaxVisits \in Nat /\ depth \in Nat /\ MaxVisits + base = depth /\ MaxVisits =< depth /\ base \in Nat
  <2> HIDE DEF n
  <2>1. MaxVisits \in Nat
    BY MaxVisitsType
  <2> DEFINE m == MaxVisits
  <2>2. depth = m * (1 + n) /\ base = n * m
    BY DEF Depth, n
  <2> HIDE DEF m, depth, base
  <2>3. m \in Nat /\ n \in Nat /\ n \in 0..n
    BY <1>4, <2>1 DEF m
  <2>4. n * m \in Nat /\ m * (1 + n) = m + n * m /\ m * (1 + n) \in Nat /\ m =< m * (1 + n)
    BY <2>3, Steps
  <2>5. QED
    BY <2>1, <2>2, <2>4 DEF m
<1> HIDE DEF e, depth, base, n
<1>6. normalize(e, query).ok /\ read # Absent /\ answer = Answer(rows_of(e, read, context))
  <2> HIDE DEF read
  <2>1. \/ answer = NoAnswer
        \/ normalize(e, query).ok /\ read # Absent /\ answer = Answer(rows_of(e, read, context))
    BY <1>3, <1>4, QueryBatchesIs DEF read
  <2>2. QED
    BY <1>2, <2>1, AnswerIs
<1>7. Meanings(Views(e), DOMAIN e.rows, depth)[MaxVisits][reading] = read
  BY <1>4, <1>5, <1>6, NamesReadAsMeant
<1>8. Meaning(d, query) = Meanings(Views(d), DOMAIN d.rows, depth)[MaxVisits + base][reading]
  BY <1>5 DEF Meaning, depth
<1> HIDE DEF read
<1>9. MaxVisits \in 0..depth /\ MaxVisits + base =< depth
  BY <1>5
<1>10. Meaning(d, query) # Absent /\ rows_of(e, read, context) = rows_of(d, Meaning(d, query), context)
  BY <1>4, <1>6, <1>7, <1>8, <1>9 DEF Carries
<1>11. answer.rows = rows_of(e, read, context)
  BY <1>6, AnswerIs
<1>12. QED
  BY <1>10, <1>11 DEF answer

(* A query that is answered is answered with what it means, when DataFusion *)
(* accepts no CTE that redeclares one of an enclosing query: no CTE         *)
(* captures a name inside a view or a name it is not in scope of, no view   *)
(* hides a CTE, and a view computed first reads like any other              *)
(* (Normalizer::pre_visit_table_factor, prepared).                          *)
THEOREM NamesMeanWhatTheySay ==
  ASSUME ~ AcceptsShadowing
  PROVE  EngineSpec => []NamesKeepTheirScope
<1>1. QueryInv => NamesKeepTheirScope
  <2> SUFFICES ASSUME QueryInv, work = Idle, NEW query \in Questions, NEW context \in Contexts,
                      execute(db, query, context).ok
               PROVE  /\ Meaning(db, query) # Absent
                      /\ execute(db, query, context).rows = rows_of(db, Meaning(db, query), context)
    BY DEF NamesKeepTheirScope
  <2>1. Plain(db)
    BY FormedIsPlain DEF QueryInv, EngineInv
  <2>2. query \in Texts
    BY QueriesAssumption
  <2>3. QED
    BY <2>1, <2>2, AnswersAsMeant
<1>2. QED
  BY <1>1, QueryInvHolds, PTL
=============================================================================
