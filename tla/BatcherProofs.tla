---------------------------- MODULE BatcherProofs ----------------------------
(***************************************************************************)
(* Proofs about Batcher for any finite set of articles and any relation of *)
(* similarity.  The loop of batch_articles is a recursive function over     *)
(* sets of articles; what holds of every pool is proved by looking at a     *)
(* smallest pool it would not hold of.  Then, about Extraction, the other  *)
(* half of MCBatcher.                                                      *)
(***************************************************************************)
EXTENDS MCBatcher, LeastElements, FiniteSetTheorems, TLAPS

\* What batch_articles is given: finitely many articles, which are numbered.
IsPool(p) == p \subseteq Nat /\ IsFiniteSet(p)

LEMMA SubPool ==
  ASSUME NEW p, IsPool(p), NEW q, q \subseteq p
  PROVE  IsPool(q)
BY FS_Subset DEF IsPool

LEMMA MinIsLeast ==
  ASSUME NEW S, S \subseteq Nat, S # {}
  PROVE  Min(S) \in S /\ \A a \in S : Min(S) <= a
BY LeastExists DEF Min

-----------------------------------------------------------------------------
(***************************************************************************)
(* The loop.  Its function exists: the groups of a pool are those of the    *)
(* pools reached from it, each the one before without its group.           *)
(***************************************************************************)
IsTurn(s, p, turn) ==
  turn = [q \in SUBSET p |->
            IF q = {} THEN {}
            ELSE {Group(s, q)} \cup turn[q \ Group(s, q)]]

Closed(s, C) == \A r \in C : r \ Group(s, r) \in C

Reach(s, p, q) ==
  {r \in SUBSET p : \A C \in SUBSET (SUBSET p) : q \in C /\ Closed(s, C) => r \in C}

LEMMA ReachUnfolds ==
  ASSUME NEW s, NEW p, NEW q \in SUBSET p
  PROVE  Reach(s, p, q) = {q} \cup Reach(s, p, q \ Group(s, q))
<1>. DEFINE rest == q \ Group(s, q)
            C == {q} \cup Reach(s, p, rest)
<1>1. rest \in SUBSET p
  OBVIOUS
<1>2. ASSUME NEW r \in Reach(s, p, q) PROVE r \in C
  <2>1. rest \in Reach(s, p, rest)
    BY <1>1 DEF Reach
  <2>2. \A x \in Reach(s, p, rest) : x \ Group(s, x) \in Reach(s, p, rest)
    BY DEF Reach, Closed
  <2>3. C \in SUBSET (SUBSET p) /\ q \in C /\ Closed(s, C)
    BY <2>1, <2>2 DEF Reach, Closed
  <2>q. QED
    BY <2>3, <1>2 DEF Reach
<1>3. ASSUME NEW r \in C PROVE r \in Reach(s, p, q)
  BY <1>3 DEF Reach, Closed
<1>q. QED
  BY <1>2, <1>3

LEMMA TurnExists ==
  ASSUME NEW s, NEW p
  PROVE  \E turn : IsTurn(s, p, turn)
<1>. DEFINE made(q) == {Group(s, r) : r \in Reach(s, p, q) \ {{}}}
            turn == [q \in SUBSET p |-> made(q)]
<1>1. made({}) = {}
  <2>1. Closed(s, {{}})
    BY DEF Closed
  <2>2. Reach(s, p, {}) \subseteq {{}}
    BY <2>1 DEF Reach
  <2>q. QED
    BY <2>2
<1>2. ASSUME NEW q \in SUBSET p, q # {}
      PROVE  made(q) = {Group(s, q)} \cup made(q \ Group(s, q))
  <2>1. Reach(s, p, q) \ {{}} = {q} \cup (Reach(s, p, q \ Group(s, q)) \ {{}})
    BY <1>2, ReachUnfolds
  <2>q. QED
    BY <2>1
<1>3. ASSUME NEW q \in SUBSET p
      PROVE  turn[q] = IF q = {} THEN {}
                       ELSE {Group(s, q)} \cup turn[q \ Group(s, q)]
  <2>1. q \ Group(s, q) \in SUBSET p
    OBVIOUS
  <2>2. turn[q] = made(q) /\ turn[q \ Group(s, q)] = made(q \ Group(s, q))
    BY <2>1
  <2>. HIDE DEF made, turn
  <2>q. QED
    BY <2>2, <1>1, <1>2
<1>4. IsTurn(s, p, turn)
  <2>1. turn = [q \in SUBSET p |-> turn[q]]
    OBVIOUS
  <2>. HIDE DEF turn
  <2>q. QED
    BY <2>1, <1>3, Zenon DEF IsTurn
<1>q. QED
  BY <1>4

\* Two such functions agree where both are defined, if every group is made of
\* articles of its pool.
LEMMA TurnsAgree ==
  ASSUME NEW s, NEW p, NEW q, q \subseteq p, IsPool(q),
         NEW f, IsTurn(s, p, f), NEW g, IsTurn(s, q, g)
  PROVE  f[q] = g[q]
<1>. DEFINE T == {r \in SUBSET q : f[r] # g[r]}
<1>0. IsFiniteSet(q)
  BY DEF IsPool
<1>1. T \subseteq SUBSET q
  OBVIOUS
<1>2. ASSUME T # {} PROVE \E x \in T : \A y \in T : y \subseteq x => y = x
  <2>. HIDE DEF T
  <2>q. QED
    BY <1>1, <1>2, <1>0, MinimalExists
<1>. SUFFICES ASSUME T # {} PROVE FALSE
  OBVIOUS
<1>3. PICK r \in T : \A y \in T : y \subseteq r => y = r
  BY <1>2
<1>. DEFINE rest == r \ Group(s, r)
<1>4. rest \in SUBSET q /\ r \in SUBSET q /\ r \in SUBSET p /\ rest \in SUBSET p
  OBVIOUS
<1>5. f[r] = IF r = {} THEN {} ELSE {Group(s, r)} \cup f[rest]
  BY <1>4 DEF IsTurn
<1>6. g[r] = IF r = {} THEN {} ELSE {Group(s, r)} \cup g[rest]
  BY <1>4 DEF IsTurn
<1>7. r # {}
  BY <1>5, <1>6
<1>8. Min(r) \in r \cap Group(s, r)
  <2>1. r \in SUBSET Nat
    BY <1>4 DEF IsPool
  <2>q. QED
    BY <2>1, <1>7, MinIsLeast DEF Group
<1>9. rest # r
  BY <1>8
<1>10. f[rest] = g[rest]
  BY <1>3, <1>4, <1>9
<1>q. QED
  BY <1>5, <1>6, <1>10

\* What the loop computes: the group of the pool, and then the same for what
\* is left.
LEMMA GroupingUnfolds ==
  ASSUME NEW s, NEW p, IsPool(p)
  PROVE  /\ p = {} => Grouping(s, p) = {}
         /\ p # {} => Grouping(s, p) =
                        {Group(s, p)} \cup Grouping(s, p \ Group(s, p))
<1>. DEFINE turn(q) == CHOOSE f : IsTurn(s, q, f)
            rest == p \ Group(s, p)
<1>1. ASSUME NEW q PROVE Grouping(s, q) = turn(q)[q]
  BY DEF Grouping, IsTurn
<1>2. ASSUME NEW q PROVE IsTurn(s, q, turn(q))
  BY TurnExists
<1>3. turn(p)[p] = IF p = {} THEN {} ELSE {Group(s, p)} \cup turn(p)[rest]
  <2>1. IsTurn(s, p, turn(p))
    BY <1>2
  <2>2. p \in SUBSET p
    OBVIOUS
  <2>. HIDE DEF turn
  <2>q. QED
    BY <2>1, <2>2 DEF IsTurn
<1>4. rest \subseteq p /\ IsPool(rest)
  BY SubPool
<1>5. turn(p)[rest] = turn(rest)[rest]
  <2>1. IsTurn(s, p, turn(p)) /\ IsTurn(s, rest, turn(rest))
    BY <1>2
  <2>. HIDE DEF turn, rest
  <2>q. QED
    BY <2>1, <1>4, TurnsAgree
<1>q. QED
  BY <1>1, <1>3, <1>5

-----------------------------------------------------------------------------
(***************************************************************************)
(* One turn of the loop.                                                   *)
(***************************************************************************)
\* A non-empty finite set of naturals has a last element.
LEMMA LastExists ==
  ASSUME NEW S, IsPool(S), S # {}
  PROVE  \E a \in S : \A b \in S : b <= a
<1>. DEFINE after(a) == {b \in S : b > a}
            T == {after(a) : a \in S}
<1>1. S \subseteq Nat
  BY DEF IsPool
<1>2. IsFiniteSet(S)
  BY DEF IsPool
<1>3. T \subseteq SUBSET S /\ T # {}
  OBVIOUS
<1>4. \E x \in T : \A y \in T : y \subseteq x => y = x
  <2>. HIDE DEF T
  <2>q. QED
    BY <1>2, <1>3, MinimalExists
<1>5. PICK q \in T : \A y \in T : y \subseteq q => y = q
  BY <1>4
<1>6. PICK a \in S : q = after(a)
  OBVIOUS
<1>7. ASSUME NEW b \in S, b > a PROVE FALSE
  <2>1. after(b) \subseteq after(a)
    <3>1. ASSUME NEW c \in S, c > b PROVE c > a
      <4>1. a \in Nat /\ b \in Nat /\ c \in Nat
        BY <1>1
      <4>q. QED
        BY <4>1, <3>1, <1>7
    <3>q. QED
      BY <3>1
  <2>2. b \in after(a) /\ b \notin after(b)
    BY <1>1, <1>7
  <2>q. QED
    BY <2>1, <2>2, <1>5, <1>6
<1>q. QED
  BY <1>1, <1>7

\* No more than n articles are foremost.
LEMMA ForemostSize ==
  ASSUME NEW S, IsPool(S), NEW n \in Nat
  PROVE  /\ IsPool(Foremost(S, n))
         /\ Cardinality(Foremost(S, n)) <= n
<1>. DEFINE F == Foremost(S, n)
<1>0. S \subseteq Nat /\ IsFiniteSet(S)
  BY DEF IsPool
<1>1. F \subseteq S /\ IsFiniteSet(F) /\ IsPool(F)
  BY <1>0, FS_Subset DEF Foremost, IsPool
<1>2. CASE F = {}
  BY <1>2, <1>1, FS_EmptySet
<1>3. CASE F # {}
  <2>1. PICK a \in F : \A b \in F : b <= a
    BY <1>1, <1>3, LastExists
  <2>. DEFINE less == {b \in S : b < a}
  <2>2. less \in SUBSET S /\ F \ {a} \in SUBSET less
    <3>1. ASSUME NEW b \in F, b # a PROVE b \in less
      <4>1. a \in Nat /\ b \in Nat /\ b \in S
        BY <1>0, <1>1, <2>1
      <4>q. QED
        BY <4>1, <2>1, <3>1
    <3>q. QED
      BY <3>1
  <2>3. Cardinality(less) < n
    BY <2>1 DEF Foremost
  <2>4. /\ IsFiniteSet(less) /\ Cardinality(less) \in Nat
        /\ Cardinality(F \ {a}) <= Cardinality(less)
        /\ IsFiniteSet(F \ {a}) /\ Cardinality(F \ {a}) \in Nat
    BY <1>0, <2>2, FS_Subset, FS_CardinalityType
  <2>5. Cardinality(F) \in Nat /\ Cardinality(F \ {a}) = Cardinality(F) - 1
    BY <1>1, <2>1, FS_RemoveElement, FS_CardinalityType
  <2>q. QED
    BY <1>1, <2>3, <2>4, <2>5
<1>q. QED
  BY <1>2, <1>3

\* When an article is not, there are n of them and all are before it.
LEMMA ForemostFull ==
  ASSUME NEW S, IsPool(S), NEW n \in Nat,
         NEW a \in S, a \notin Foremost(S, n)
  PROVE  /\ Cardinality(Foremost(S, n)) = n
         /\ \A b \in Foremost(S, n) : b < a
<1>. DEFINE F == Foremost(S, n)
            less(x) == {b \in S : b < x}
<1>0. S \subseteq Nat /\ IsFiniteSet(S)
  BY DEF IsPool
<1>1. \A x \in S : IsFiniteSet(less(x)) /\ Cardinality(less(x)) \in Nat
  BY <1>0, FS_Subset, FS_CardinalityType
<1>2. \A x \in S : x \in F <=> Cardinality(less(x)) < n
  BY DEF Foremost
<1>3. ASSUME NEW x \in S \ F, NEW b \in F PROVE b < x
  <2>1. b \in S
    BY DEF Foremost
  <2>2. SUFFICES ASSUME x <= b PROVE FALSE
    BY <1>0, <2>1
  <2>3. less(x) \in SUBSET less(b)
    <3>1. ASSUME NEW c \in S, c < x PROVE c < b
      BY <1>0, <2>1, <2>2, <3>1
    <3>q. QED
      BY <3>1
  <2>4. Cardinality(less(x)) <= Cardinality(less(b))
    BY <2>1, <2>3, <1>1, FS_Subset
  <2>5. x \in S /\ x \notin F /\ b \in F
    OBVIOUS
  <2>. HIDE DEF F, less
  <2>q. QED
    BY <2>1, <2>4, <2>5, <1>1, <1>2
<1>4. Cardinality(F) = n
  <2>. DEFINE m == Min(S \ F)
  <2>1. m \in S \ F /\ \A x \in S \ F : m <= x
    <3>1. S \ F \in SUBSET Nat /\ S \ F # {}
      BY <1>0
    <3>q. QED
      BY <3>1, MinIsLeast
  <2>2. less(m) \subseteq F
    <3>1. ASSUME NEW c \in S, c < m, c \notin F PROVE FALSE
      <4>1. m <= c /\ m \in Nat /\ c \in Nat
        BY <1>0, <2>1, <3>1
      <4>q. QED
        BY <4>1, <3>1
    <3>q. QED
      BY <3>1
  <2>3. Cardinality(less(m)) >= n /\ Cardinality(less(m)) \in Nat
    <3>1. m \in S /\ m \notin F
      BY <2>1
    <3>. HIDE DEF m, F, less
    <3>q. QED
      BY <3>1, <1>1, <1>2
  <2>4. IsFiniteSet(F) /\ Cardinality(F) <= n /\ Cardinality(F) \in Nat
    BY ForemostSize, FS_CardinalityType DEF IsPool
  <2>5. Cardinality(less(m)) <= Cardinality(F)
    BY <2>2, <2>4, FS_Subset
  <2>q. QED
    BY <2>3, <2>4, <2>5
<1>q. QED
  BY <1>3, <1>4

\* The articles similar to the seed, among which the group is chosen.
Alike(s, q) == {a \in q : Similar(s, Min(q), a)}

\* The seed is the first article and in its group, which is made of articles
\* of the pool; so what is left is less.
LEMMA GroupInPool ==
  ASSUME NEW s, NEW q, IsPool(q), q # {}
  PROVE  /\ Min(q) \in q
         /\ \A a \in q : Min(q) <= a
         /\ Min(q) \in Group(s, q)
         /\ Group(s, q) \subseteq q
<1>1. q \in SUBSET Nat
  BY DEF IsPool
<1>q. QED
  BY <1>1, MinIsLeast DEF Group, Foremost

LEMMA AddAtMostOne ==
  ASSUME NEW S, IsFiniteSet(S), NEW x
  PROVE  /\ Cardinality(S \cup {x}) \in Nat
         /\ Cardinality(S \cup {x}) <= Cardinality(S) + 1
<1>1. Cardinality(S) \in Nat
  BY FS_CardinalityType
<1>q. QED
  BY <1>1, FS_AddElement

\* A group is no larger than MaxBatch.
LEMMA GroupSize ==
  ASSUME NEW s, NEW q, IsPool(q), q # {}
  PROVE  Cardinality(Group(s, q)) <= MaxBatch
<1>. DEFINE F == Foremost(Alike(s, q), MaxBatch - 1)
<1>1. Group(s, q) = F \cup {Min(q)}
  BY DEF Group, Alike
<1>2. MaxBatch \in Nat /\ MaxBatch - 1 \in Nat
  BY BatcherAssumption
<1>3. IsPool(Alike(s, q))
  BY SubPool DEF Alike
<1>4. IsFiniteSet(F) /\ Cardinality(F) <= MaxBatch - 1
  BY <1>2, <1>3, ForemostSize DEF IsPool
<1>5. Cardinality(F) \in Nat
  BY <1>4, FS_CardinalityType
<1>6. /\ Cardinality(F \cup {Min(q)}) \in Nat
      /\ Cardinality(F \cup {Min(q)}) <= Cardinality(F) + 1
  <2>1. IsFiniteSet(F)
    BY <1>4
  <2>. HIDE DEF F
  <2>q. QED
    BY <2>1, AddAtMostOne
<1>q. QED
  <2>. HIDE DEF F
  <2>q. QED
    BY <1>1, <1>2, <1>4, <1>5, <1>6

\* Groups of at most MaxBatch that share no article and make up a pool.
Divides(gs, q) ==
  /\ UNION gs = q
  /\ \A g \in gs : g # {} /\ Cardinality(g) <= MaxBatch
  /\ \A g, h \in gs : g # h => g \cap h = {}

\* One turn divides the pool if the turns after it divide what is left.
LEMMA TurnDivides ==
  ASSUME NEW q, NEW g, NEW gs, g \subseteq q, g # {}, Cardinality(g) <= MaxBatch,
         Divides(gs, q \ g)
  PROVE  Divides({g} \cup gs, q)
<1>1. UNION ({g} \cup gs) = q
  BY DEF Divides
<1>2. \A h \in gs : h \subseteq q \ g
  BY DEF Divides
<1>3. \A h, k \in {g} \cup gs : h # k => h \cap k = {}
  BY <1>2 DEF Divides
<1>q. QED
  BY <1>1, <1>3 DEF Divides

\* The loop divides its partition.
LEMMA GroupingDivides ==
  ASSUME NEW s, NEW p, IsPool(p)
  PROVE  Divides(Grouping(s, p), p)
<1>. DEFINE T == {q \in SUBSET p : ~Divides(Grouping(s, q), q)}
<1>1. IsFiniteSet(p)
  BY DEF IsPool
<1>2. T \subseteq SUBSET p
  OBVIOUS
<1>3. ASSUME T # {} PROVE \E x \in T : \A y \in T : y \subseteq x => y = x
  <2>. HIDE DEF T
  <2>q. QED
    BY <1>1, <1>2, <1>3, MinimalExists
<1>. SUFFICES ASSUME T # {} PROVE FALSE
  OBVIOUS
<1>4. PICK q \in T : \A y \in T : y \subseteq q => y = q
  BY <1>3
<1>. DEFINE rest == q \ Group(s, q)
<1>5. IsPool(q)
  BY SubPool
<1>6. q # {}
  BY <1>5, GroupingUnfolds DEF Divides
<1>7. Group(s, q) \subseteq q /\ Group(s, q) # {} /\ Cardinality(Group(s, q)) <= MaxBatch
  BY <1>5, <1>6, GroupInPool, GroupSize
<1>8. rest \in SUBSET p /\ rest \subseteq q /\ rest # q
  BY <1>7
<1>9. Divides(Grouping(s, rest), rest)
  BY <1>4, <1>8
<1>10. Divides({Group(s, q)} \cup Grouping(s, rest), q)
  BY <1>7, <1>9, TurnDivides
<1>q. QED
  BY <1>4, <1>5, <1>6, <1>10, GroupingUnfolds

-----------------------------------------------------------------------------
(***************************************************************************)
(* The languages of a pool.                                                *)
(***************************************************************************)
InLanguage(q, l) == {a \in q : Language[a] = l}

\* A group of the pool is one of the grouping of a language.
LEMMA GroupsByLanguage ==
  ASSUME NEW s, NEW q
  PROVE  \A g : g \in Groups(s, q) <=>
                  \E a \in q : g \in Grouping(s, InLanguage(q, Language[a]))
BY DEF Groups, Partitions, InLanguage

\* Groups are of one language, and divide the pool.
LEMMA GroupsDivide ==
  ASSUME NEW s, NEW q, IsPool(q)
  PROVE  Divides(Groups(s, q), q)
<1>1. ASSUME NEW l PROVE Divides(Grouping(s, InLanguage(q, l)), InLanguage(q, l))
  BY SubPool, GroupingDivides DEF InLanguage
<1>2. ASSUME NEW g \in Groups(s, q)
      PROVE  \E l : /\ g \in Grouping(s, InLanguage(q, l))
                    /\ g \subseteq InLanguage(q, l)
                    /\ g # {} /\ Cardinality(g) <= MaxBatch
  BY <1>1, GroupsByLanguage DEF Divides
<1>3. ASSUME NEW g \in Groups(s, q), NEW h \in Groups(s, q), g # h
      PROVE  g \cap h = {}
  <2>1. PICK l : g \in Grouping(s, InLanguage(q, l)) /\ g \subseteq InLanguage(q, l)
    BY <1>2
  <2>2. PICK m : h \in Grouping(s, InLanguage(q, m)) /\ h \subseteq InLanguage(q, m)
    BY <1>2
  <2>3. CASE l = m
    BY <2>1, <2>2, <2>3, <1>1, <1>3 DEF Divides
  <2>4. CASE l # m
    BY <2>1, <2>2, <2>4 DEF InLanguage
  <2>q. QED
    BY <2>3, <2>4
<1>4. ASSUME NEW a \in q PROVE a \in UNION Groups(s, q)
  <2>1. a \in InLanguage(q, Language[a])
    BY DEF InLanguage
  <2>2. PICK g \in Grouping(s, InLanguage(q, Language[a])) : a \in g
    BY <2>1, <1>1 DEF Divides
  <2>q. QED
    BY <2>2, GroupsByLanguage
<1>5. UNION Groups(s, q) = q
  BY <1>2, <1>4 DEF InLanguage
<1>q. QED
  BY <1>2, <1>3, <1>5 DEF Divides

\* The articles of a run are a pool, and pairs are similar.
BatcherTypeOK == pool \subseteq Articles /\ sim \subseteq Pairs

LEMMA BatcherTypeCorrect == Spec => []BatcherTypeOK
<1>1. Init => BatcherTypeOK
  BY DEF Init, BatcherTypeOK
<1>2. BatcherTypeOK /\ [Next]_vars => BatcherTypeOK'
  BY DEF BatcherTypeOK, Next, Capture, Extract, vars
<1>q. QED
  BY <1>1, <1>2, PTL DEF Spec

\* For every similarity of titles, and whatever was captured in whatever
\* order, each article is in one batch of three to five or carried forward
\* (batch_articles).
THEOREM EveryArticlePlacedOnceHolds == Spec => []EveryArticlePlacedOnce
<1>1. BatcherTypeOK => EveryArticlePlacedOnce
  <2>. SUFFICES ASSUME BatcherTypeOK PROVE EveryArticlePlacedOnce
    OBVIOUS
  <2>1. IsPool(pool)
    BY BatcherAssumption, FS_Subset DEF BatcherTypeOK, IsPool
  <2>2. Divides(Groups(sim, pool), pool)
    BY <2>1, GroupsDivide
  <2>. DEFINE batches == Batches(sim, pool)
              rest == CarriedForward(sim, pool)
  <2>3. \A g, h \in batches : g # h => g \cap h = {}
    BY <2>2 DEF Divides, Batches
  <2>4. \A g \in batches : Cardinality(g) \in MinBatch..MaxBatch
    <3>. SUFFICES ASSUME NEW g \in batches
                  PROVE  Cardinality(g) \in MinBatch..MaxBatch
      OBVIOUS
    <3>1. g \in Groups(sim, pool) /\ Cardinality(g) >= MinBatch
      BY DEF Batches, LargeEnough
    <3>2. g \subseteq pool /\ Cardinality(g) <= MaxBatch
      BY <3>1, <2>2 DEF Divides
    <3>3. IsPool(g)
      BY <2>1, <3>2, SubPool
    <3>4. Cardinality(g) \in Nat
      BY <3>3, FS_CardinalityType DEF IsPool
    <3>q. QED
      BY <3>1, <3>2, <3>4, BatcherAssumption
  <2>5. (UNION batches) \cup rest = pool
    <3>1. ASSUME NEW a PROVE a \in UNION batches <=> \E g \in Groups(sim, pool) : a \in g /\ LargeEnough(g)
      BY DEF Batches
    <3>2. ASSUME NEW a PROVE a \in rest <=> \E g \in Groups(sim, pool) : a \in g /\ ~LargeEnough(g)
      BY DEF CarriedForward
    <3>3. \A a : a \in pool <=> \E g \in Groups(sim, pool) : a \in g
      BY <2>2 DEF Divides
    <3>. HIDE DEF batches, rest
    <3>q. QED
      BY <3>1, <3>2, <3>3
  <2>6. (UNION batches) \cap rest = {}
    <3>1. ASSUME NEW g \in batches, NEW a \in g, a \in rest PROVE FALSE
      <4>1. g \in Groups(sim, pool) /\ LargeEnough(g)
        BY DEF Batches
      <4>2. PICK h \in Groups(sim, pool) : a \in h /\ ~LargeEnough(h)
        BY <3>1 DEF CarriedForward
      <4>q. QED
        BY <4>1, <4>2, <2>2 DEF Divides
    <3>. HIDE DEF batches, rest
    <3>q. QED
      BY <3>1
  <2>q. QED
    BY <2>3, <2>4, <2>5, <2>6 DEF EveryArticlePlacedOnce
<1>q. QED
  BY <1>1, BatcherTypeCorrect, PTL

\* What DailyPipeline takes a grouping to be (its BatchingAssumption), the
\* batcher is, for every similarity of titles: batches are not empty, are made
\* of the articles given and share none.
THEOREM BatchesKeepContract ==
  ASSUME NEW s
  PROVE  LET Batching == [S \in SUBSET Articles |-> Batches(s, S)]
         IN  /\ Batching \in [SUBSET Articles -> SUBSET SUBSET Articles]
             /\ \A S \in SUBSET Articles : \A g \in Batching[S] :
                  /\ g # {} /\ g \subseteq S
                  /\ \A h \in Batching[S] : g # h => g \cap h = {}
<1>1. ASSUME NEW S \in SUBSET Articles
      PROVE  \A g \in Batches(s, S) :
               /\ g # {} /\ g \subseteq S
               /\ \A h \in Batches(s, S) : g # h => g \cap h = {}
  <2>1. IsPool(S)
    BY BatcherAssumption, FS_Subset DEF IsPool
  <2>2. Divides(Groups(s, S), S)
    BY <2>1, GroupsDivide
  <2>3. Batches(s, S) \subseteq Groups(s, S)
    BY DEF Batches
  <2>q. QED
    BY <2>2, <2>3 DEF Divides
<1>q. QED
  BY <1>1

-----------------------------------------------------------------------------
(***************************************************************************)
(* Which articles a group takes.                                           *)
(***************************************************************************)
\* No title is similar to itself in a set of pairs.
LEMMA PairsIrreflexive ==
  ASSUME NEW s, s \subseteq Pairs, NEW a
  PROVE  ~Similar(s, a, a)
<1>1. Cardinality({a}) = 1
  BY FS_Singleton
<1>2. \A x \in s : Cardinality(x) = 2
  BY DEF Pairs, kSubset
<1>3. {a, a} = {a}
  OBVIOUS
<1>4. {a} \notin s
  BY <1>1, <1>2
<1>q. QED
  BY <1>3, <1>4 DEF Similar

\* An article the seed would take is left only by a full group of articles
\* before it.
LEMMA LeftByFullGroup ==
  ASSUME NEW s, s \subseteq Pairs, NEW q, IsPool(q), q # {},
         NEW a \in q, a \notin Group(s, q), Similar(s, Min(q), a)
  PROVE  /\ Cardinality(Group(s, q)) = MaxBatch
         /\ \A b \in Group(s, q) : b < a
<1>. DEFINE alike == Alike(s, q)
            F == Foremost(alike, MaxBatch - 1)
<1>1. Group(s, q) = F \cup {Min(q)}
  BY DEF Group, Alike
<1>2. MaxBatch \in Nat /\ MaxBatch - 1 \in Nat
  BY BatcherAssumption
<1>3. IsPool(alike) /\ a \in alike
  BY SubPool DEF Alike
<1>4. Min(q) \notin F
  BY PairsIrreflexive DEF Foremost, Alike
<1>5. a \notin F /\ a # Min(q)
  BY <1>1
<1>6. IsFiniteSet(F)
  BY <1>2, <1>3, ForemostSize DEF IsPool
<1>7. Cardinality(F) = MaxBatch - 1 /\ \A b \in F : b < a
  <2>. HIDE DEF alike
  <2>q. QED
    BY <1>2, <1>3, <1>5, ForemostFull
<1>8. Cardinality(F \cup {Min(q)}) = MaxBatch
  <2>1. Cardinality(F \cup {Min(q)}) = Cardinality(F) + 1
    <3>. HIDE DEF F
    <3>q. QED
      BY <1>4, <1>6, FS_AddElement
  <2>. HIDE DEF F
  <2>q. QED
    BY <2>1, <1>2, <1>7
<1>9. Min(q) < a
  <2>1. Min(q) <= a /\ Min(q) \in Nat /\ a \in Nat
    BY GroupInPool DEF IsPool
  <2>q. QED
    BY <2>1, <1>5
<1>q. QED
  <2>. HIDE DEF F
  <2>q. QED
    BY <1>1, <1>7, <1>8, <1>9

\* The seed of a group is its first article.
LEMMA SeedIsFirst ==
  ASSUME NEW s, NEW q, IsPool(q), q # {}
  PROVE  Min(Group(s, q)) = Min(q)
<1>. DEFINE g == Group(s, q)
<1>1. Min(q) \in g /\ g \subseteq q /\ \A a \in q : Min(q) <= a
  BY GroupInPool
<1>2. g \in SUBSET Nat /\ g # {}
  BY <1>1 DEF IsPool
<1>3. Min(g) \in g /\ \A a \in g : Min(g) <= a
  BY <1>2, MinIsLeast
<1>4. Min(g) <= Min(q) /\ Min(q) <= Min(g) /\ Min(g) \in Nat /\ Min(q) \in Nat
  BY <1>1, <1>2, <1>3
<1>q. QED
  BY <1>4

\* GreedyByDefinition inside one language.
Greedy(s, gs) ==
  \A g \in gs :
    /\ \A a \in g \ {Min(g)} : Similar(s, Min(g), a)
    /\ \A h \in gs : Min(g) < Min(h) =>
         \A a \in h : Similar(s, Min(g), a) =>
           Cardinality(g) = MaxBatch /\ \A b \in g : b < a

\* One turn is greedy if the turns after it are.
LEMMA TurnGreedy ==
  ASSUME NEW s, s \subseteq Pairs, NEW q, IsPool(q), q # {},
         NEW gs, Divides(gs, q \ Group(s, q)), Greedy(s, gs)
  PROVE  Greedy(s, {Group(s, q)} \cup gs)
<1>. DEFINE g0 == Group(s, q)
<1>1. Min(g0) = Min(q) /\ \A a \in q : Min(q) <= a
  BY SeedIsFirst, GroupInPool
<1>2. \A h \in gs : h \subseteq q /\ h \cap g0 = {}
  BY DEF Divides
<1>3. ASSUME NEW h \in gs PROVE Min(h) \in h
  <2>1. h # {} /\ h \subseteq Nat
    BY <1>2 DEF Divides, IsPool
  <2>q. QED
    BY <2>1, MinIsLeast
<1>4. ASSUME NEW h \in gs PROVE ~(Min(h) < Min(g0))
  <2>1. Min(h) \in q /\ Min(q) <= Min(h) /\ Min(h) \in Nat /\ Min(q) \in Nat
    BY <1>1, <1>2, <1>3, GroupInPool DEF IsPool
  <2>q. QED
    BY <2>1, <1>1
<1>5. ~(Min(g0) < Min(g0))
  <2>1. Min(g0) \in Nat
    BY <1>1, GroupInPool DEF IsPool
  <2>q. QED
    BY <2>1
<1>6. \A a \in g0 \ {Min(g0)} : Similar(s, Min(g0), a)
  BY <1>1 DEF Group, Foremost
<1>7. ASSUME NEW h \in gs, NEW a \in h, Similar(s, Min(g0), a)
      PROVE  Cardinality(g0) = MaxBatch /\ \A b \in g0 : b < a
  <2>1. a \in q /\ a \notin g0
    BY <1>2
  <2>q. QED
    BY <2>1, <1>1, <1>7, LeftByFullGroup
<1>q. QED
  <2>. HIDE DEF g0
  <2>1. ASSUME NEW g \in {g0} \cup gs
        PROVE  \A a \in g \ {Min(g)} : Similar(s, Min(g), a)
    BY <1>6 DEF Greedy
  <2>2. ASSUME NEW g \in {g0} \cup gs, NEW h \in {g0} \cup gs, Min(g) < Min(h),
               NEW a \in h, Similar(s, Min(g), a)
        PROVE  Cardinality(g) = MaxBatch /\ \A b \in g : b < a
    BY <2>2, <1>4, <1>5, <1>7 DEF Greedy
  <2>q. QED
    BY <2>1, <2>2 DEF Greedy, g0

\* The loop is greedy.
LEMMA GroupingGreedy ==
  ASSUME NEW s, s \subseteq Pairs, NEW p, IsPool(p)
  PROVE  Greedy(s, Grouping(s, p))
<1>. DEFINE T == {q \in SUBSET p : ~Greedy(s, Grouping(s, q))}
<1>1. IsFiniteSet(p)
  BY DEF IsPool
<1>2. T \subseteq SUBSET p
  OBVIOUS
<1>3. ASSUME T # {} PROVE \E x \in T : \A y \in T : y \subseteq x => y = x
  <2>. HIDE DEF T
  <2>q. QED
    BY <1>1, <1>2, <1>3, MinimalExists
<1>. SUFFICES ASSUME T # {} PROVE FALSE
  OBVIOUS
<1>4. PICK q \in T : \A y \in T : y \subseteq q => y = q
  BY <1>3
<1>. DEFINE rest == q \ Group(s, q)
<1>5. IsPool(q) /\ IsPool(rest)
  BY SubPool
<1>6. q # {}
  BY <1>5, GroupingUnfolds DEF Greedy
<1>7. rest \in SUBSET p /\ rest \subseteq q /\ rest # q
  BY <1>5, <1>6, GroupInPool
<1>8. Greedy(s, Grouping(s, rest)) /\ Divides(Grouping(s, rest), rest)
  BY <1>4, <1>5, <1>7, GroupingDivides
<1>9. Greedy(s, {Group(s, q)} \cup Grouping(s, rest))
  BY <1>5, <1>6, <1>8, TurnGreedy
<1>q. QED
  BY <1>4, <1>5, <1>6, <1>9, GroupingUnfolds

\* The grouping is the greedy one: every article joins the earliest seed that
\* takes it and has room, whatever the similarity of titles.
THEOREM GreedyByDefinitionHolds == Spec => []GreedyByDefinition
<1>1. BatcherTypeOK => GreedyByDefinition
  <2>. SUFFICES ASSUME BatcherTypeOK PROVE GreedyByDefinition
    OBVIOUS
  <2>1. IsPool(pool) /\ sim \subseteq Pairs
    BY BatcherAssumption, FS_Subset DEF BatcherTypeOK, IsPool
  <2>2. \A g \in Groups(sim, pool) : Min(g) \in g
    <3>1. Divides(Groups(sim, pool), pool) /\ pool \subseteq Nat
      BY <2>1, GroupsDivide DEF IsPool
    <3>2. \A g \in Groups(sim, pool) : g # {} /\ g \in SUBSET Nat
      BY <3>1 DEF Divides
    <3>q. QED
      BY <3>2, MinIsLeast
  <2>3. ASSUME NEW l
        PROVE  /\ Greedy(sim, Grouping(sim, InLanguage(pool, l)))
               /\ Divides(Grouping(sim, InLanguage(pool, l)), InLanguage(pool, l))
    BY <2>1, SubPool, GroupingGreedy, GroupingDivides DEF InLanguage
  <2>4. ASSUME NEW g \in Groups(sim, pool)
        PROVE  \E l : /\ g \in Grouping(sim, InLanguage(pool, l))
                      /\ \A a \in g : Language[a] = l
    <3>1. PICK b \in pool : g \in Grouping(sim, InLanguage(pool, Language[b]))
      BY GroupsByLanguage
    <3>2. g \subseteq InLanguage(pool, Language[b])
      BY <3>1, <2>3 DEF Divides
    <3>q. QED
      BY <3>1, <3>2 DEF InLanguage
  <2>. DEFINE Takes(g, a) == Language[Min(g)] = Language[a] /\ Similar(sim, Min(g), a)
  <2>5. ASSUME NEW g \in Groups(sim, pool), NEW a \in g \ {Min(g)}
        PROVE  Takes(g, a)
    BY <2>2, <2>3, <2>4 DEF Greedy
  <2>6. ASSUME NEW g \in Groups(sim, pool), NEW h \in Groups(sim, pool),
               Min(g) < Min(h), NEW a \in h, Takes(g, a)
        PROVE  Cardinality(g) = MaxBatch /\ \A b \in g : b < a
    <3>1. PICK l : g \in Grouping(sim, InLanguage(pool, l)) /\ \A b \in g : Language[b] = l
      BY <2>4
    <3>2. PICK m : h \in Grouping(sim, InLanguage(pool, m)) /\ \A b \in h : Language[b] = m
      BY <2>4
    <3>3. l = m
      BY <3>1, <3>2, <2>2, <2>6
    <3>q. QED
      BY <3>1, <3>2, <3>3, <2>3, <2>6 DEF Greedy
  <2>q. QED
    BY <2>5, <2>6 DEF GreedyByDefinition
<1>q. QED
  BY <1>1, BatcherTypeCorrect, PTL

-----------------------------------------------------------------------------
(***************************************************************************)
(* An article that is later than all others.                               *)
(***************************************************************************)
\* It becomes a seed of its own or extends one group.
Local(gs, gs2, a) ==
  \/ gs2 = gs \cup {{a}}
  \/ \E g \in gs : gs2 = (gs \ {g}) \cup {g \cup {a}}

\* Who is foremost among the others does not depend on it.
LEMMA ForemostOfLater ==
  ASSUME NEW S, S \subseteq Nat, NEW n, NEW a \in Nat, \A b \in S : b < a
  PROVE  /\ Foremost(S, n) \subseteq Foremost(S \cup {a}, n)
         /\ Foremost(S \cup {a}, n) \subseteq Foremost(S, n) \cup {a}
<1>1. ASSUME NEW b \in S
      PROVE  {c \in S \cup {a} : c < b} = {c \in S : c < b}
  <2>1. b \in Nat /\ b < a
    OBVIOUS
  <2>2. ~(a < b)
    BY <2>1
  <2>q. QED
    BY <2>2
<1>q. QED
  BY <1>1 DEF Foremost

\* The seed of the pool does not either, and its group at most gains it.
LEMMA GroupOfLater ==
  ASSUME NEW s, NEW q, IsPool(q), q # {}, NEW a \in Nat, \A b \in q : b < a
  PROVE  Group(s, q \cup {a}) \in {Group(s, q), Group(s, q) \cup {a}}
<1>. DEFINE q2 == q \cup {a}
<1>1. q \subseteq Nat /\ q2 \in SUBSET Nat /\ q2 # {}
  BY DEF IsPool
<1>2. Min(q2) = Min(q)
  <2>1. Min(q) \in q /\ \A b \in q : Min(q) <= b
    BY GroupInPool
  <2>2. Min(q2) \in q2 /\ \A b \in q2 : Min(q2) <= b
    BY <1>1, MinIsLeast
  <2>3. Min(q) < a /\ Min(q) \in Nat /\ Min(q2) \in Nat
    BY <1>1, <2>1, <2>2
  <2>4. Min(q2) <= Min(q)
    BY <2>1, <2>2
  <2>5. Min(q2) \in q
    BY <2>2, <2>3, <2>4
  <2>6. Min(q) <= Min(q2)
    BY <2>1, <2>5
  <2>q. QED
    BY <2>3, <2>4, <2>6
<1>3. \/ Alike(s, q2) = Alike(s, q)
      \/ Alike(s, q2) = Alike(s, q) \cup {a}
  BY <1>2 DEF Alike
<1>4. /\ Group(s, q) = {Min(q)} \cup Foremost(Alike(s, q), MaxBatch - 1)
      /\ Group(s, q2) = {Min(q)} \cup Foremost(Alike(s, q2), MaxBatch - 1)
  BY <1>2 DEF Group, Alike
<1>5. Alike(s, q) \subseteq Nat /\ \A b \in Alike(s, q) : b < a
  BY <1>1 DEF Alike
<1>6. CASE Alike(s, q2) = Alike(s, q)
  BY <1>4, <1>6
<1>7. CASE Alike(s, q2) = Alike(s, q) \cup {a}
  <2>. DEFINE F == Foremost(Alike(s, q), MaxBatch - 1)
              F2 == Foremost(Alike(s, q2), MaxBatch - 1)
  <2>1. F \subseteq F2 /\ F2 \subseteq F \cup {a}
    BY <1>5, <1>7, ForemostOfLater
  <2>2. F2 = F \/ F2 = F \cup {a}
    BY <2>1
  <2>q. QED
    BY <1>4, <2>2
<1>q. QED
  BY <1>3, <1>6, <1>7

\* Groups beside those that change do not matter.
LEMMA LocalBeside ==
  ASSUME NEW others, NEW gs, NEW gs2, NEW a, others \cap gs = {}, Local(gs, gs2, a)
  PROVE  Local(others \cup gs, others \cup gs2, a)
<1>1. CASE gs2 = gs \cup {{a}}
  BY <1>1 DEF Local
<1>2. CASE \E g \in gs : gs2 = (gs \ {g}) \cup {g \cup {a}}
  <2>1. PICK g \in gs : gs2 = (gs \ {g}) \cup {g \cup {a}}
    BY <1>2
  <2>2. others \cup gs2 = ((others \cup gs) \ {g}) \cup {g \cup {a}}
    BY <2>1
  <2>q. QED
    BY <2>2 DEF Local
<1>q. QED
  BY <1>1, <1>2 DEF Local

\* The change of one grouping is local.
LEMMA GroupingLocal ==
  ASSUME NEW s, NEW p, IsPool(p), NEW a \in Nat, \A b \in p : b < a
  PROVE  Local(Grouping(s, p), Grouping(s, p \cup {a}), a)
<1>. DEFINE T == {q \in SUBSET p : ~Local(Grouping(s, q), Grouping(s, q \cup {a}), a)}
<1>1. IsFiniteSet(p)
  BY DEF IsPool
<1>2. T \subseteq SUBSET p
  OBVIOUS
<1>3. ASSUME T # {} PROVE \E x \in T : \A y \in T : y \subseteq x => y = x
  <2>. HIDE DEF T
  <2>q. QED
    BY <1>1, <1>2, <1>3, MinimalExists
<1>. SUFFICES ASSUME T # {} PROVE FALSE
  OBVIOUS
<1>4. PICK q \in T : \A y \in T : y \subseteq q => y = q
  BY <1>3
<1>. DEFINE q2 == q \cup {a}
            g == Group(s, q)
            rest == q \ g
<1>5. IsPool(q) /\ IsPool(rest) /\ IsPool(q2) /\ a \notin q
  <2>1. IsPool(q) /\ IsPool(rest)
    BY SubPool
  <2>2. IsPool(q2)
    BY <2>1, FS_AddElement DEF IsPool
  <2>3. a \notin q
    BY <2>1
  <2>q. QED
    BY <2>1, <2>2, <2>3
<1>6. Grouping(s, q2) = {Group(s, q2)} \cup Grouping(s, q2 \ Group(s, q2))
  BY <1>5, GroupingUnfolds
<1>7. q # {}
  <2>. SUFFICES ASSUME q = {} PROVE FALSE
    OBVIOUS
  <2>1. Group(s, q2) = {a}
    BY <1>5, GroupInPool
  <2>2. Grouping(s, q2 \ Group(s, q2)) = {} /\ Grouping(s, q) = {}
    BY <2>1, <1>5, GroupingUnfolds
  <2>q. QED
    BY <2>1, <2>2, <1>4, <1>6 DEF Local
<1>8. Grouping(s, q) = {g} \cup Grouping(s, rest)
  BY <1>5, <1>7, GroupingUnfolds
<1>9. g \subseteq q /\ g # {} /\ rest \subseteq q /\ rest # q /\ a \notin g
  BY <1>5, <1>7, GroupInPool
<1>10. g \notin Grouping(s, rest)
  <2>1. Divides(Grouping(s, rest), rest)
    BY <1>5, GroupingDivides
  <2>q. QED
    BY <2>1, <1>9 DEF Divides
<1>11. CASE Group(s, q2) = g
  <2>1. q2 \ Group(s, q2) = rest \cup {a}
    BY <1>9, <1>11
  <2>2. rest \in SUBSET p /\ rest \notin T
    BY <1>4, <1>9
  <2>3. Local(Grouping(s, rest), Grouping(s, rest \cup {a}), a)
    BY <2>2
  <2>4. Local({g} \cup Grouping(s, rest), {g} \cup Grouping(s, rest \cup {a}), a)
    <3>1. {g} \cap Grouping(s, rest) = {}
      BY <1>10
    <3>q. QED
      BY <3>1, <2>3, LocalBeside
  <2>q. QED
    BY <2>1, <2>4, <1>4, <1>6, <1>8, <1>11
<1>12. CASE Group(s, q2) = g \cup {a}
  <2>1. q2 \ Group(s, q2) = rest
    BY <1>5, <1>12
  <2>2. Grouping(s, q2) = (Grouping(s, q) \ {g}) \cup {g \cup {a}}
    BY <2>1, <1>6, <1>8, <1>10, <1>12
  <2>q. QED
    BY <2>2, <1>4, <1>8 DEF Local
<1>13. Group(s, q2) = g \/ Group(s, q2) = g \cup {a}
  BY <1>5, <1>7, GroupOfLater
<1>q. QED
  BY <1>11, <1>12, <1>13

\* The change of all groups is local, for the article has one language.
LEMMA GroupsLocal ==
  ASSUME NEW s, NEW q, IsPool(q), NEW a \in Nat, \A b \in q : b < a
  PROVE  Local(Groups(s, q), Groups(s, q \cup {a}), a)
<1>. DEFINE l == Language[a]
            same == InLanguage(q, l)
            ofOther(m) == Grouping(s, InLanguage(q, m))
            others == UNION {ofOther(Language[b]) : b \in {b \in q : Language[b] # l}}
<1>1. IsPool(same) /\ \A b \in same : b < a
  BY SubPool DEF InLanguage
<1>2. Local(Grouping(s, same), Grouping(s, same \cup {a}), a)
  BY <1>1, GroupingLocal
<1>3. others \cap Grouping(s, same) = {}
  <2>1. ASSUME NEW b \in q, Language[b] # l, NEW g \in ofOther(Language[b])
        PROVE  g \notin Grouping(s, same)
    <3>1. IsPool(InLanguage(q, Language[b]))
      BY SubPool DEF InLanguage
    <3>2. g # {} /\ g \subseteq InLanguage(q, Language[b])
      BY <3>1, GroupingDivides DEF Divides
    <3>3. g \in Grouping(s, same) => g \subseteq same
      BY <1>1, GroupingDivides DEF Divides
    <3>q. QED
      BY <3>2, <3>3, <2>1 DEF InLanguage
  <2>q. QED
    BY <2>1
<1>4. Groups(s, q) = others \cup Grouping(s, same)
  <2>1. ASSUME NEW g PROVE g \in Groups(s, q) <=>
                            \E b \in q : g \in Grouping(s, InLanguage(q, Language[b]))
    BY GroupsByLanguage
  <2>2. ASSUME NEW g \in Grouping(s, same)
        PROVE  \E b \in q : g \in Grouping(s, InLanguage(q, Language[b]))
    <3>1. same # {}
      BY <1>1, GroupingUnfolds
    <3>2. PICK b \in q : Language[b] = l
      BY <3>1 DEF InLanguage
    <3>q. QED
      BY <3>2
  <2>3. ASSUME NEW g, NEW b \in q, g \in Grouping(s, InLanguage(q, Language[b]))
        PROVE  g \in others \cup Grouping(s, same)
    BY <2>3
  <2>4. ASSUME NEW g \in others
        PROVE  \E b \in q : g \in Grouping(s, InLanguage(q, Language[b]))
    OBVIOUS
  <2>. HIDE DEF others, same
  <2>q. QED
    BY <2>1, <2>2, <2>3, <2>4
<1>5. Groups(s, q \cup {a}) = others \cup Grouping(s, same \cup {a})
  <2>. DEFINE q2 == q \cup {a}
  <2>1. ASSUME NEW g PROVE g \in Groups(s, q2) <=>
                            \E b \in q2 : g \in Grouping(s, InLanguage(q2, Language[b]))
    BY GroupsByLanguage
  <2>2. InLanguage(q2, l) = same \cup {a}
    BY DEF InLanguage
  <2>3. \A m : m # l => InLanguage(q2, m) = InLanguage(q, m)
    BY DEF InLanguage
  <2>4. ASSUME NEW g \in Grouping(s, same \cup {a})
        PROVE  \E b \in q2 : g \in Grouping(s, InLanguage(q2, Language[b]))
    <3>1. a \in q2 /\ g \in Grouping(s, InLanguage(q2, Language[a]))
      BY <2>2
    <3>q. QED
      BY <3>1
  <2>5. ASSUME NEW g \in others
        PROVE  \E b \in q2 : g \in Grouping(s, InLanguage(q2, Language[b]))
    <3>1. PICK b \in q : Language[b] # l /\ g \in ofOther(Language[b])
      OBVIOUS
    <3>q. QED
      BY <3>1, <2>3
  <2>6. ASSUME NEW g, NEW b \in q2, g \in Grouping(s, InLanguage(q2, Language[b]))
        PROVE  g \in others \cup Grouping(s, same \cup {a})
    <3>1. CASE Language[b] = l
      BY <2>6, <3>1, <2>2
    <3>2. CASE Language[b] # l
      <4>1. b \in q /\ g \in ofOther(Language[b])
        BY <2>6, <3>2, <2>3
      <4>q. QED
        BY <4>1, <3>2
    <3>q. QED
      BY <3>1, <3>2
  <2>. HIDE DEF others, same, q2
  <2>7. Groups(s, q2) = others \cup Grouping(s, same \cup {a})
    BY <2>1, <2>4, <2>5, <2>6
  <2>q. QED
    BY <2>7 DEF q2
<1>q. QED
  <2>. HIDE DEF others, same
  <2>1. Local(others \cup Grouping(s, same), others \cup Grouping(s, same \cup {a}), a)
    BY <1>2, <1>3, LocalBeside
  <2>q. QED
    BY <2>1, <1>4, <1>5

\* An article later than all others leaves every other group as it was, so
\* that the keys of their batches are stable.
THEOREM LaterArticleIsLocalHolds == Spec => LaterArticleIsLocal
<1>. DEFINE Later(p, q) ==
       \A a \in q \ p :
         (\A b \in p : b < a) => Local(Groups(sim, p), Groups(sim, q), a)
<1>1. BatcherTypeOK /\ [Next]_vars => [Later(pool, pool')]_vars
  <2>. SUFFICES ASSUME BatcherTypeOK, Next PROVE Later(pool, pool')
    OBVIOUS
  <2>1. IsPool(pool)
    BY BatcherAssumption, FS_Subset DEF BatcherTypeOK, IsPool
  <2>2. ASSUME NEW a \in Articles, Capture(a) PROVE Later(pool, pool')
    <3>1. a \in Nat /\ pool' = pool \cup {a}
      BY <2>2, BatcherAssumption DEF Capture
    <3>q. QED
      BY <2>1, <3>1, GroupsLocal
  <2>3. CASE Extract
    BY <2>3 DEF Extract
  <2>q. QED
    BY <2>2, <2>3 DEF Next
<1>2. [Later(pool, pool')]_vars =>
      [\A a \in pool' \ pool :
         (\A b \in pool : b < a) =>
           \/ Groups(sim, pool') = Groups(sim, pool) \cup {{a}}
           \/ \E g \in Groups(sim, pool) :
                Groups(sim, pool') = (Groups(sim, pool) \ {g}) \cup {g \cup {a}}]_vars
  BY DEF Local
<1>q. QED
  BY <1>1, <1>2, BatcherTypeCorrect, PTL DEF Spec, LaterArticleIsLocal

-----------------------------------------------------------------------------
(***************************************************************************)
(* Extraction, for any bound on redirects and any answers.                 *)
(***************************************************************************)
Lacking == {"untitled", "short"}

\* What the handler may rely on at each stage.
StageSound ==
  /\ requests <= hops + 1
  /\ stage # "done" => outcome = "none"
  /\ stage \in {"start", "pin", "answer"} =>
       primary = "none" /\ crawls = 0 /\ extracted = "none"
  /\ stage \in {"start", "pin"} => requests = hops
  /\ stage = "second" => primary \in Lacking /\ extracted = primary /\ crawls = 0
  /\ stage = "rescue" =>
       (primary = "failed" /\ crawls = 0) \/ (primary \in Lacking /\ crawls = 1)
  /\ stage = "finalize" => extracted \in Quality /\ primary \in Quality \cup {"failed"}

ExtractionInv == ExtractionTypeOK /\ StageSound /\ ExtractionSound

LEMMA ExtractionInvariant == ExtractionSpec => []ExtractionInv
<1>. USE ExtractionAssumption
<1>. USE DEF ExtractionInv, ExtractionTypeOK, StageSound, ExtractionSound,
         RedirectsBounded, RefusalIsFinal, LadderSound, Quality, Codes, Lacking
<1>1. ExtractionInit => ExtractionInv
  BY DEF ExtractionInit
<1>2. ExtractionInv /\ [ExtractionNext]_extraction => ExtractionInv'
  <2>. SUFFICES ASSUME ExtractionInv, [ExtractionNext]_extraction PROVE ExtractionInv'
    OBVIOUS
  <2>1. CASE Begin
    BY <2>1 DEF Begin, End
  <2>2. CASE Pin
    BY <2>2 DEF Pin, Refuse, End
  <2>3. CASE Redirected
    <3>1. CASE Refuse
      BY <2>3, <3>1 DEF Redirected, Refuse, End
    <3>2. CASE Fail
      BY <2>3, <3>2 DEF Redirected, Fail
    <3>3. CASE ~LastHop /\ hops' = hops + 1 /\ stage' = "pin"
               /\ UNCHANGED <<requests, primary, crawls, extracted, outcome>>
      BY <2>3, <3>3 DEF Redirected, LastHop
    <3>q. QED
      BY <2>3, <3>1, <3>2, <3>3 DEF Redirected
  <2>4. CASE Unanswered
    BY <2>4 DEF Unanswered, Fail
  <2>5. ASSUME NEW quality \in Quality, Answered(quality) PROVE ExtractionInv'
    BY <2>5 DEF Answered
  <2>6. CASE SecondOpinion
    <3>1. CASE UNCHANGED extracted
      BY <2>6, <3>1 DEF SecondOpinion
    <3>2. CASE stage' = "finalize" /\ crawls' = crawls + 1 /\ extracted' \in Quality \cup {extracted}
      BY <2>6, <3>2 DEF SecondOpinion
    <3>q. QED
      BY <2>6, <3>1, <3>2 DEF SecondOpinion
  <2>7. CASE Rescue
    BY <2>7 DEF Rescue, End
  <2>8. CASE Finalize
    <3>1. CASE extracted = "untitled"
      BY <2>8, <3>1 DEF Finalize, End
    <3>2. CASE extracted = "short"
      BY <2>8, <3>2 DEF Finalize, End
    <3>3. CASE extracted = "good"
      BY <2>8, <3>3 DEF Finalize, End
    <3>q. QED
      BY <2>8, <3>1, <3>2, <3>3 DEF Finalize
  <2>9. CASE UNCHANGED extraction
    BY <2>9 DEF extraction
  <2>q. QED
    BY <2>1, <2>2, <2>3, <2>4, <2>5, <2>6, <2>7, <2>8, <2>9 DEF ExtractionNext
<1>. HIDE DEF ExtractionInv
<1>q. QED
  BY <1>1, <1>2, PTL DEF ExtractionSpec

\* ExtractionTypeOK
THEOREM ExtractionTypeCorrect == ExtractionSpec => []ExtractionTypeOK
<1>1. ExtractionInv => ExtractionTypeOK
  BY DEF ExtractionInv
<1>q. QED
  BY <1>1, ExtractionInvariant, PTL

\* Redirects are bounded exactly, a refused URL is never fetched by another
\* extractor, and the fallback never costs an article.
THEOREM ExtractionSoundHolds == ExtractionSpec => []ExtractionSound
<1>1. ExtractionInv => ExtractionSound
  BY DEF ExtractionInv
<1>q. QED
  BY <1>1, ExtractionInvariant, PTL
=============================================================================
