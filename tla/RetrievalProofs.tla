---------------------------- MODULE RetrievalProofs ----------------------------
(* What is bound is there, a chat asks the index that the backend fills,   *)
(* and answers are of comparable vectors, for every set of knowledge       *)
(* bases, stores, models and documents; and a hybrid answer leaves out     *)
(* nothing better in both searches: proofs about Retrieval and Ranking.    *)
EXTENDS Retrieval, FiniteSetTheorems, TLAPS

-----------------------------------------------------------------------------
(* Ranks in a finite set.                                                  *)

\* A strict total order.
IsOrder(R, S) ==
  /\ \A i \in S : <<i, i>> \notin R
  /\ \A i, j, k \in S : <<i, j>> \in R /\ <<j, k>> \in R => <<i, k>> \in R
  /\ \A i, j \in S : i = j \/ <<i, j>> \in R \/ <<j, i>> \in R

\* What an order puts first has the fewer members below it.
LEMMA RankRises ==
  ASSUME NEW S, IsFiniteSet(S), NEW R, IsOrder(R, S),
         NEW i \in S, NEW j \in S, <<i, j>> \in R
  PROVE  Cardinality(Below(S, R, i)) < Cardinality(Below(S, R, j))
<1>1. Below(S, R, j) \in SUBSET S /\ Below(S, R, i) \in SUBSET Below(S, R, j)
  BY DEF Below, IsOrder
<1>2. i \in Below(S, R, j) /\ i \notin Below(S, R, i)
  BY DEF Below, IsOrder
<1>3. IsFiniteSet(Below(S, R, j))
  BY <1>1, FS_Subset
<1>4. /\ IsFiniteSet(Below(S, R, i))
      /\ Cardinality(Below(S, R, i)) <= Cardinality(Below(S, R, j))
      /\ Cardinality(Below(S, R, j)) # Cardinality(Below(S, R, i))
  BY <1>1, <1>2, <1>3, FS_Subset
<1>5. /\ Cardinality(Below(S, R, i)) \in Nat
      /\ Cardinality(Below(S, R, j)) \in Nat
  BY <1>3, <1>4, FS_CardinalityType
<1> QED BY <1>4, <1>5

\* Each rank is of one member.
LEMMA EveryRank ==
  ASSUME NEW S, IsFiniteSet(S), NEW R, IsOrder(R, S)
  PROVE  /\ Cardinality(S) \in Nat
         /\ \A j \in S : Cardinality(Below(S, R, j)) \in 0..(Cardinality(S) - 1)
         /\ \A k \in 1..Cardinality(S) :
              \E j \in S : Cardinality(Below(S, R, j)) = k - 1
<1> DEFINE n == Cardinality(S)
           rank == [j \in S |-> Cardinality(Below(S, R, j))]
<1>1. n \in Nat
  BY FS_CardinalityType
<1>2. ASSUME NEW j \in S
      PROVE  Cardinality(Below(S, R, j)) \in 0..(n - 1)
  <2>1. /\ Below(S, R, j) \in SUBSET S /\ j \notin Below(S, R, j)
        /\ Below(S, R, j) # S
    BY DEF Below, IsOrder
  <2>2. /\ IsFiniteSet(Below(S, R, j))
        /\ Cardinality(Below(S, R, j)) <= n /\ n # Cardinality(Below(S, R, j))
    BY <2>1, FS_Subset
  <2>3. Cardinality(Below(S, R, j)) \in Nat
    BY <2>2, FS_CardinalityType
  <2> QED BY <1>1, <2>2, <2>3
<1>3. ASSUME NEW i \in S, NEW j \in S, rank[i] = rank[j]
      PROVE  i = j
  <2>1. /\ Cardinality(Below(S, R, i)) = Cardinality(Below(S, R, j))
        /\ Cardinality(Below(S, R, i)) \in Nat
    BY <1>2, <1>3
  <2>2. <<i, j>> \notin R /\ <<j, i>> \notin R
    BY <2>1, RankRises
  <2> QED BY <2>2 DEF IsOrder
<1>4. rank \in Injection(S, 0..(n - 1))
  BY <1>2, <1>3 DEF Injection, IsInjective
<1>5. IsFiniteSet(0..(n - 1)) /\ Cardinality(0..(n - 1)) = n
  BY <1>1, FS_Interval
<1>6. rank \in Surjection(S, 0..(n - 1))
  BY <1>4, <1>5, FS_Injection
<1>7. ASSUME NEW k \in 1..n
      PROVE  \E j \in S : Cardinality(Below(S, R, j)) = k - 1
  <2>1. k - 1 \in 0..(n - 1)
    BY <1>1
  <2> QED BY <1>6, <2>1 DEF Surjection
<1> QED BY <1>1, <1>2, <1>7

\* The members in order: each once, and none behind a later one.
LEMMA InOrderSorts ==
  ASSUME NEW S, IsFiniteSet(S), NEW R, IsOrder(R, S)
  PROVE  /\ InOrder(S, R) \in [1..Cardinality(S) -> S]
         /\ \A j \in S : \E k \in 1..Cardinality(S) : InOrder(S, R)[k] = j
         /\ \A k, l \in 1..Cardinality(S) :
              <<InOrder(S, R)[k], InOrder(S, R)[l]>> \in R <=> k < l
<1> DEFINE n == Cardinality(S)
           f == InOrder(S, R)
<1>1. ASSUME NEW k \in 1..n
      PROVE  f[k] \in S /\ Cardinality(Below(S, R, f[k])) = k - 1
  <2>1. \E j \in S : Cardinality(Below(S, R, j)) = k - 1
    BY EveryRank
  <2>2. f[k] = CHOOSE j \in S : Cardinality(Below(S, R, j)) = k - 1
    BY DEF InOrder
  <2> QED BY <2>1, <2>2
<1>2. f \in [1..n -> S]
  BY <1>1 DEF InOrder
<1>3. ASSUME NEW i \in S, NEW j \in S,
             Cardinality(Below(S, R, i)) = Cardinality(Below(S, R, j))
      PROVE  i = j
  <2>1. Cardinality(Below(S, R, i)) \in Nat
    BY EveryRank
  <2>2. <<i, j>> \notin R /\ <<j, i>> \notin R
    BY <1>3, <2>1, RankRises
  <2> QED BY <2>2 DEF IsOrder
<1>4. ASSUME NEW j \in S
      PROVE  \E k \in 1..n : f[k] = j
  <2> DEFINE k == Cardinality(Below(S, R, j)) + 1
  <2>1. k \in 1..n /\ Cardinality(Below(S, R, j)) = k - 1
    BY EveryRank
  <2>2. f[k] = j
    BY <1>1, <1>3, <2>1
  <2> QED BY <2>1, <2>2
<1>5. ASSUME NEW k \in 1..n, NEW l \in 1..n
      PROVE  <<f[k], f[l]>> \in R <=> k < l
  <2>1. /\ f[k] \in S /\ f[l] \in S
        /\ Cardinality(Below(S, R, f[k])) = k - 1
        /\ Cardinality(Below(S, R, f[l])) = l - 1
    BY <1>1
  <2>2. <<f[k], f[l]>> \in R => k < l
    BY <2>1, RankRises
  <2>3. <<f[l], f[k]>> \in R => l < k
    BY <2>1, RankRises
  <2>4. f[k] = f[l] => k = l
    BY <2>1
  <2> QED BY <2>1, <2>2, <2>3, <2>4 DEF IsOrder
<1> QED BY <1>2, <1>4, <1>5

\* A finite set of numbers has a least one and a largest one.
LEMMA Extremes ==
  ASSUME NEW S \in SUBSET Int, IsFiniteSet(S), S # {}
  PROVE  /\ Min(S) \in S /\ Max(S) \in S
         /\ \A x \in S : Min(S) <= x /\ x <= Max(S)
<1> DEFINE R == {e \in S \X S : e[1] < e[2]}
           n == Cardinality(S)
           f == InOrder(S, R)
<1>1. \A i, j \in S : <<i, j>> \in R <=> i < j
  OBVIOUS
<1>2. IsOrder(R, S)
  BY <1>1 DEF IsOrder
<1> HIDE DEF R
<1>3. /\ f \in [1..n -> S] /\ \A j \in S : \E k \in 1..n : f[k] = j
      /\ \A k, l \in 1..n : <<f[k], f[l]>> \in R <=> k < l
  BY <1>2, InOrderSorts
<1>4. n \in Nat /\ n # 0
  BY FS_CardinalityType, FS_EmptySet
<1> HIDE DEF f, n
<1>5. ASSUME NEW k \in 1..n, NEW l \in 1..n, k <= l
      PROVE  f[k] <= f[l]
  <2>1. f[k] \in S /\ f[l] \in S /\ k \in Int /\ l \in Int
    BY <1>3, <1>4
  <2>2. f[k] \in Int /\ f[l] \in Int
    BY <2>1
  <2>3. k < l \/ k = l
    BY <1>5, <2>1
  <2>4. CASE k < l
    <3>1. <<f[k], f[l]>> \in R
      BY <1>3, <2>4
    <3>2. f[k] < f[l]
      BY <1>1, <2>1, <3>1
    <3> QED BY <2>2, <3>2
  <2>5. CASE k = l
    BY <2>2, <2>5
  <2> QED BY <2>3, <2>4, <2>5
<1>6. f[1] \in S /\ \A x \in S : f[1] <= x
  BY <1>3, <1>4, <1>5
<1>7. f[n] \in S /\ \A x \in S : x <= f[n]
  BY <1>3, <1>4, <1>5
<1>8. Min(S) \in S /\ \A x \in S : Min(S) <= x
  BY <1>6 DEF Min
<1>9. Max(S) \in S /\ \A x \in S : x <= Max(S)
  BY <1>7 DEF Max
<1> QED BY <1>8, <1>9

-----------------------------------------------------------------------------
(* Rows, sorted and fused.                                                 *)

\* The rows that find a point of a set.
Kinds == {"distance", "similarity", "bm25", "text_match", "hybrid_score"}
RowsOn(P) == [point : P, score : Int, kind : Kinds]

\* The places of a sequence.
LEMMA Places ==
  ASSUME NEW T, NEW s \in Seq(T)
  PROVE  /\ Len(s) \in Nat /\ DOMAIN s = 1..Len(s)
         /\ IsFiniteSet(1..Len(s)) /\ Cardinality(1..Len(s)) = Len(s)
         /\ \A i \in 1..Len(s) : s[i] \in T
<1>1. Len(s) \in Nat /\ DOMAIN s = 1..Len(s) /\ \A i \in 1..Len(s) : s[i] \in T
  OBVIOUS
<1>2. ASSUME NEW n \in Nat
      PROVE  IsFiniteSet(1..n) /\ Cardinality(1..n) = n
  <2>1. /\ IsFiniteSet(1..n)
        /\ Cardinality(1..n) = IF 1 > n THEN 0 ELSE n - 1 + 1
    BY FS_Interval
  <2> QED BY <2>1
<1> QED BY <1>1, <1>2

\* A row comes before another one: by its score, or by its place.
Ahead(rows, i, j) ==
  \/ rows[i].score > rows[j].score
  \/ rows[i].score = rows[j].score /\ i < j

\* Sorting permutes the rows, by falling score and as they came.
LEMMA SortedSorts ==
  ASSUME NEW P, NEW rows \in Seq(RowsOn(P))
  PROVE  \E o \in [1..Len(rows) -> 1..Len(rows)] :
           /\ \A j \in 1..Len(rows) : \E k \in 1..Len(rows) : o[k] = j
           /\ Sorted(rows) = [k \in 1..Len(rows) |-> rows[o[k]]]
           /\ \A k, l \in 1..Len(rows) : k < l <=> Ahead(rows, o[k], o[l])
<1> DEFINE n == Len(rows)
           D == 1..n
           R == {e \in D \X D : \/ rows[e[1]].score > rows[e[2]].score
                                \/ rows[e[1]].score = rows[e[2]].score /\ e[1] < e[2]}
           o == InOrder(D, R)
<1>1. n \in Nat /\ DOMAIN rows = D /\ IsFiniteSet(D) /\ Cardinality(D) = n
  BY Places
<1>2. \A i, j \in D : <<i, j>> \in R <=> Ahead(rows, i, j)
  BY DEF Ahead
<1>3. \A i \in D : rows[i].score \in Int
  <2>1. \A i \in D : rows[i] \in RowsOn(P)
    BY Places
  <2> QED BY <2>1 DEF RowsOn
<1>4. Sorted(rows) = [k \in D |-> rows[o[k]]]
  BY <1>1 DEF Sorted
<1> HIDE DEF R
<1>5. IsOrder(R, D)
  <2>1. \A i \in D : i \in Int
    BY <1>1
  <2> HIDE DEF D
  <2>2. \A i \in D : ~Ahead(rows, i, i)
    BY <1>3, <2>1 DEF Ahead
  <2>3. \A i, j, k \in D :
          Ahead(rows, i, j) /\ Ahead(rows, j, k) => Ahead(rows, i, k)
    BY <1>3, <2>1 DEF Ahead
  <2>4. \A i, j \in D : i = j \/ Ahead(rows, i, j) \/ Ahead(rows, j, i)
    BY <1>3, <2>1 DEF Ahead
  <2> QED BY <1>2, <2>2, <2>3, <2>4 DEF IsOrder
<1>6. /\ o \in [D -> D] /\ \A j \in D : \E k \in D : o[k] = j
      /\ \A k, l \in D : <<o[k], o[l]>> \in R <=> k < l
  BY <1>1, <1>5, InOrderSorts
<1>7. \A k, l \in D : k < l <=> Ahead(rows, o[k], o[l])
  BY <1>2, <1>6
<1> QED BY <1>4, <1>6, <1>7

LEMMA SortedType ==
  ASSUME NEW P, NEW rows \in Seq(RowsOn(P))
  PROVE  Sorted(rows) \in Seq(RowsOn(P)) /\ Len(Sorted(rows)) = Len(rows)
<1>1. PICK o \in [1..Len(rows) -> 1..Len(rows)] :
        Sorted(rows) = [k \in 1..Len(rows) |-> rows[o[k]]]
  BY SortedSorts
<1> QED BY <1>1

\* What the other search adds: the rows that found something new.
New(sem, kw) == {i \in DOMAIN kw : kw[i].point \notin Found(sem)}

LEMMA OthersKept ==
  ASSUME NEW P, NEW sem, NEW kw \in Seq(RowsOn(P))
  PROVE  LET m == Cardinality(New(sem, kw))
         IN  /\ m \in Nat
             /\ \E o \in [1..m -> New(sem, kw)] :
                  /\ \A j \in New(sem, kw) : \E k \in 1..m : o[k] = j
                  /\ Others(sem, kw) = [k \in 1..m |-> kw[o[k]]]
                  /\ \A k, l \in 1..m : k < l <=> o[k] < o[l]
<1> DEFINE N == New(sem, kw)
           m == Cardinality(N)
           R == {e \in N \X N : e[1] < e[2]}
           o == InOrder(N, R)
<1>1. N \in SUBSET (1..Len(kw)) /\ Len(kw) \in Nat
  BY DEF New
<1>2. IsFiniteSet(N) /\ m \in Nat
  <2>1. IsFiniteSet(1..Len(kw))
    BY Places
  <2> QED BY <1>1, <2>1, FS_Subset, FS_CardinalityType
<1>3. Others(sem, kw) = [k \in 1..m |-> kw[o[k]]]
  BY DEF Others, New
<1> HIDE DEF N
<1>4. \A i, j \in N : <<i, j>> \in R <=> i < j
  OBVIOUS
<1>5. IsOrder(R, N)
  BY <1>1, <1>4 DEF IsOrder
<1> HIDE DEF R
<1>6. /\ o \in [1..m -> N] /\ \A j \in N : \E k \in 1..m : o[k] = j
      /\ \A k, l \in 1..m : <<o[k], o[l]>> \in R <=> k < l
  BY <1>2, <1>5, InOrderSorts
<1>7. \A k, l \in 1..m : k < l <=> o[k] < o[l]
  BY <1>4, <1>6
<1> QED BY <1>2, <1>3, <1>6, <1>7 DEF N

LEMMA OthersType ==
  ASSUME NEW P, NEW sem, NEW kw \in Seq(RowsOn(P))
  PROVE  Others(sem, kw) \in Seq(RowsOn(P))
<1>1. New(sem, kw) \subseteq 1..Len(kw)
  BY DEF New
<1> DEFINE m == Cardinality(New(sem, kw))
<1>2. /\ m \in Nat
      /\ \E o \in [1..m -> New(sem, kw)] :
           /\ \A j \in New(sem, kw) : \E k \in 1..m : o[k] = j
           /\ Others(sem, kw) = [k \in 1..m |-> kw[o[k]]]
           /\ \A k, l \in 1..m : k < l <=> o[k] < o[l]
  BY OthersKept
<1> HIDE DEF m
<1>3. PICK o \in [1..m -> New(sem, kw)] :
        Others(sem, kw) = [k \in 1..m |-> kw[o[k]]]
  BY <1>2
<1>4. \A k \in 1..m : kw[o[k]] \in RowsOn(P)
  BY <1>1, <1>3, Places
<1> QED BY <1>2, <1>3, <1>4

\* The scores of a search's rows, and their range.
ScoresOf(rows) == {rows[i].score : i \in DOMAIN rows}

LEMMA ScoresFinite ==
  ASSUME NEW P, NEW rows \in Seq(RowsOn(P))
  PROVE  /\ ScoresOf(rows) \in SUBSET Int /\ IsFiniteSet(ScoresOf(rows))
         /\ ScoresOf(rows) # {} =>
              /\ Min(ScoresOf(rows)) \in Int /\ Max(ScoresOf(rows)) \in Int
              /\ \A x \in ScoresOf(rows) :
                   Min(ScoresOf(rows)) <= x /\ x <= Max(ScoresOf(rows))
<1> DEFINE f == [i \in DOMAIN rows |-> rows[i].score]
           S == ScoresOf(rows)
<1>1. DOMAIN rows = 1..Len(rows) /\ IsFiniteSet(DOMAIN rows)
  BY Places
<1>2. S \in SUBSET Int
  <2>1. \A i \in DOMAIN rows : rows[i] \in RowsOn(P)
    BY Places
  <2>2. \A i \in DOMAIN rows : rows[i].score \in Int
    BY <2>1 DEF RowsOn
  <2> QED BY <2>2 DEF ScoresOf
<1>3. f \in Surjection(DOMAIN rows, S)
  BY DEF Surjection, ScoresOf
<1>4. IsFiniteSet(S)
  BY <1>1, <1>3, FS_Surjection
<1>5. S # {} => /\ Min(S) \in S /\ Max(S) \in S
                /\ \A x \in S : Min(S) <= x /\ x <= Max(S)
  BY <1>2, <1>4, Extremes
<1> QED BY <1>2, <1>4, <1>5

\* The parts of a fused score.
LEMMA ScoreTypes ==
  ASSUME NEW P, NEW rows \in Seq(RowsOn(P)), NEW p
  PROVE  /\ p \in Found(rows) => ScoreOf(rows, p) \in ScoresOf(rows)
         /\ SemanticScore(rows, p) \in Int
         /\ KeywordScore(rows, p) \in Nat /\ KeywordRange(rows) \in Nat \ {0}
<1>1. p \in Found(rows) => ScoreOf(rows, p) \in ScoresOf(rows)
  BY DEF Found, ScoreOf, ScoresOf
<1>2. SemanticScore(rows, p) \in Int
  BY <1>1, ScoresFinite DEF SemanticScore
<1>3. p \in Found(rows) => ScoresOf(rows) # {}
  BY DEF Found, ScoresOf
<1>4. KeywordScore(rows, p) \in Nat
  <2>1. KeywordScore(rows, p) =
          IF p \notin Found(rows) THEN 0
          ELSE IF Cardinality(ScoresOf(rows)) = 1 THEN 1
          ELSE ScoreOf(rows, p) - Min(ScoresOf(rows))
    BY DEF KeywordScore, ScoresOf
  <2>2. p \in Found(rows) => ScoreOf(rows, p) - Min(ScoresOf(rows)) \in Nat
    BY <1>1, <1>3, ScoresFinite
  <2> QED BY <2>1, <2>2
<1>5. KeywordRange(rows) \in Nat \ {0}
  <2>1. KeywordRange(rows) =
          Largest(IF ScoresOf(rows) = {} THEN 0
                  ELSE Max(ScoresOf(rows)) - Min(ScoresOf(rows)), 1)
    BY DEF KeywordRange, ScoresOf
  <2> QED BY <2>1, ScoresFinite DEF Largest
<1> QED BY <1>1, <1>2, <1>4, <1>5

LEMMA FusedType ==
  ASSUME NEW P, NEW sem \in Seq(RowsOn(P)), NEW kw \in Seq(RowsOn(P)),
         NEW alpha \in Int, NEW p
  PROVE  Fused(sem, kw, alpha, p) \in Int
<1>1. /\ SemanticScore(sem, p) \in Int /\ KeywordScore(kw, p) \in Int
      /\ KeywordRange(kw) \in Int
  BY ScoreTypes
<1>2. alpha * SemanticScore(sem, p) * KeywordRange(kw) \in Int
  BY <1>1
<1>3. (Weight - alpha) * One * KeywordScore(kw, p) \in Int
  BY <1>1, RankingAssumption DEF One
<1> QED BY <1>2, <1>3 DEF Fused

\* A fused answer is of the rows of both searches.
LEMMA FuseType ==
  ASSUME NEW P, NEW sem \in Seq(RowsOn(P)), NEW kw \in Seq(RowsOn(P)),
         NEW alpha \in Int, NEW k \in Nat
  PROVE  Fuse(sem, kw, alpha, k) \in Seq(RowsOn(P))
<1> DEFINE all == sem \o Others(sem, kw)
           rows == [i \in DOMAIN all |->
                      Row(all[i].point, Fused(sem, kw, alpha, all[i].point),
                          "hybrid_score")]
<1>1. all \in Seq(RowsOn(P))
  BY OthersType
<1> HIDE DEF all
<1>2. \A p : Fused(sem, kw, alpha, p) \in Int
  BY FusedType
<1>3. \A i \in 1..Len(all) : all[i] \in RowsOn(P)
  BY <1>1, Places
<1>4. ASSUME NEW i \in 1..Len(all)
      PROVE  rows[i] \in RowsOn(P)
  <2>1. rows[i] = Row(all[i].point, Fused(sem, kw, alpha, all[i].point), "hybrid_score")
    BY <1>1, <1>4
  <2>2. all[i].point \in P
    BY <1>3 DEF RowsOn
  <2> QED BY <1>2, <2>1, <2>2 DEF Row, RowsOn, Kinds
<1>5. rows \in Seq(RowsOn(P))
  <2>1. DOMAIN all = 1..Len(all) /\ Len(all) \in Nat
    BY <1>1, Places
  <2>2. rows = [i \in 1..Len(all) |-> rows[i]]
    BY <2>1
  <2> HIDE DEF rows
  <2> QED BY <1>4, <2>1, <2>2
<1> HIDE DEF rows
<1>6. Sorted(rows) \in Seq(RowsOn(P))
  BY <1>5, SortedType
<1>7. Fuse(sem, kw, alpha, k) = SubSeq(Sorted(rows), 1, Least(k, Len(Sorted(rows))))
  BY DEF Fuse, all, rows
<1>8. Least(k, Len(Sorted(rows))) \in 0..Len(Sorted(rows))
  BY <1>6 DEF Least
<1> QED BY <1>6, <1>7, <1>8

\* Rows that are ranked say what they found.
LEMMA RankedType ==
  ASSUME NEW P, NEW rows \in Seq(RowsOn(P)), NEW method
  PROVE  Ranked(rows, method) \in Seq(RowsOn(P))
<1> DEFINE read == [i \in DOMAIN rows |->
                      [rows[i] EXCEPT !.score = Relevance(rows[i], method)]]
<1>1. \A i \in 1..Len(rows) : rows[i] \in RowsOn(P)
  BY Places
<1>2. ASSUME NEW i \in 1..Len(rows)
      PROVE  read[i] \in RowsOn(P)
  <2>1. rows[i] \in RowsOn(P) /\ DOMAIN rows = 1..Len(rows)
    BY <1>1, Places
  <2>2. Relevance(rows[i], method) \in Int
    BY <2>1 DEF RowsOn, Relevance, One
  <2>3. read[i] = [rows[i] EXCEPT !.score = Relevance(rows[i], method)]
    BY <2>1
  <2> QED BY <2>1, <2>2, <2>3 DEF RowsOn
<1>3. read \in Seq(RowsOn(P))
  <2>1. DOMAIN rows = 1..Len(rows) /\ Len(rows) \in Nat
    BY Places
  <2>2. read = [i \in 1..Len(rows) |-> read[i]]
    BY <2>1
  <2> HIDE DEF read
  <2> QED BY <1>2, <2>1, <2>2
<1> HIDE DEF read
<1>4. Sorted(read) \in Seq(RowsOn(P))
  BY <1>3, SortedType
<1> QED BY <1>4 DEF Ranked, read

LEMMA EngineRankedType ==
  ASSUME NEW P, NEW rows \in Seq(RowsOn(P))
  PROVE  EngineRanked(rows) \in Seq(RowsOn(P))
<1> DEFINE read == [i \in DOMAIN rows |->
                      [rows[i] EXCEPT !.score = IF rows[i].kind = "distance"
                                                THEN One - @ ELSE @]]
<1>1. \A i \in 1..Len(rows) : rows[i] \in RowsOn(P)
  BY Places
<1>2. \A i \in 1..Len(rows) : read[i] \in RowsOn(P)
  BY <1>1 DEF RowsOn, One
<1>3. read \in Seq(RowsOn(P))
  <2>1. DOMAIN rows = 1..Len(rows) /\ Len(rows) \in Nat
    BY Places
  <2>2. read = [i \in 1..Len(rows) |-> read[i]]
    BY <2>1
  <2> HIDE DEF read
  <2> QED BY <1>2, <2>1, <2>2
<1> HIDE DEF read
<1>4. Sorted(read) \in Seq(RowsOn(P))
  BY <1>3, SortedType
<1> QED BY <1>4 DEF EngineRanked, read

-----------------------------------------------------------------------------
(* The searches of a store.                                                *)

\* Rows by falling value that leave out none of a set which has a larger
\* value than one of them.
Lists(rows, value, points) ==
  /\ \A i \in 1..Len(rows) : rows[i].score = value[rows[i].point]
  /\ \A i, j \in 1..Len(rows) : i < j => rows[i].score >= rows[j].score
  /\ \A p \in points \ Found(rows) : \A i \in 1..Len(rows) :
       rows[i].score >= value[p]

\* Rows that are ranked list what they found by its value.
LEMMA RankedLists ==
  ASSUME NEW P, NEW rows \in Seq(RowsOn(P)), NEW method, NEW value, NEW Q,
         \A i \in 1..Len(rows) : Relevance(rows[i], method) = value[rows[i].point],
         \A p \in Q \ Found(rows) : \A i \in 1..Len(rows) :
           value[rows[i].point] >= value[p]
  PROVE  Lists(Ranked(rows, method), value, Q)
<1> DEFINE n == Len(rows)
           read == [i \in DOMAIN rows |->
                      [rows[i] EXCEPT !.score = Relevance(rows[i], method)]]
<1>1. n \in Nat /\ DOMAIN rows = 1..n /\ \A i \in 1..n : rows[i] \in RowsOn(P)
  BY Places
<1>2. ASSUME NEW i \in 1..n
      PROVE  /\ read[i] \in RowsOn(P) /\ read[i].point = rows[i].point
             /\ read[i].score = value[rows[i].point] /\ read[i].score \in Int
  <2>1. rows[i] \in RowsOn(P) /\ read[i] = [rows[i] EXCEPT !.score = Relevance(rows[i], method)]
    BY <1>1
  <2>2. Relevance(rows[i], method) \in Int
    BY <2>1 DEF RowsOn, Relevance, One
  <2> QED BY <2>1, <2>2 DEF RowsOn
<1>3. read \in Seq(RowsOn(P)) /\ Len(read) = n
  <2>1. read = [i \in 1..n |-> read[i]]
    BY <1>1
  <2> HIDE DEF read
  <2> QED BY <1>1, <1>2, <2>1
<1> DEFINE sorted == Sorted(read)
<1>4. Ranked(rows, method) = sorted
  BY DEF Ranked
<1> HIDE DEF read
<1>5. PICK o \in [1..n -> 1..n] :
        /\ \A j \in 1..n : \E k \in 1..n : o[k] = j
        /\ sorted = [k \in 1..n |-> read[o[k]]]
        /\ \A k, l \in 1..n : k < l <=> Ahead(read, o[k], o[l])
  <2>1. \E o \in [1..Len(read) -> 1..Len(read)] :
          /\ \A j \in 1..Len(read) : \E k \in 1..Len(read) : o[k] = j
          /\ sorted = [k \in 1..Len(read) |-> read[o[k]]]
          /\ \A k, l \in 1..Len(read) : k < l <=> Ahead(read, o[k], o[l])
    BY <1>3, SortedSorts
  <2> HIDE DEF sorted
  <2>2. Len(read) = n
    BY <1>3
  <2> QED BY ONLY <2>1, <2>2
<1> HIDE DEF sorted
<1>6. Len(sorted) = n /\ DOMAIN sorted = 1..n
  BY <1>1, <1>5
<1>7. \A k \in 1..n : sorted[k].score = value[sorted[k].point]
  BY <1>2, <1>5
<1>8. ASSUME NEW k \in 1..n, NEW l \in 1..n, k < l
      PROVE  sorted[k].score >= sorted[l].score
  <2>1. Ahead(read, o[k], o[l])
    BY <1>5, <1>8
  <2>2. read[o[k]].score \in Int /\ read[o[l]].score \in Int
    BY <1>2, <1>5
  <2>3. sorted[k] = read[o[k]] /\ sorted[l] = read[o[l]]
    BY <1>5
  <2> QED BY <2>1, <2>2, <2>3 DEF Ahead
<1>9. ASSUME NEW p \in Q \ Found(sorted), NEW k \in 1..n
      PROVE  sorted[k].score >= value[p]
  <2>1. \A j \in 1..n : rows[j].point # p
    <3> SUFFICES ASSUME NEW j \in 1..n, rows[j].point = p PROVE FALSE
      OBVIOUS
    <3>1. PICK l \in 1..n : o[l] = j
      BY <1>5
    <3>2. sorted[l].point = p
      BY <1>2, <1>5, <3>1
    <3> QED BY <1>6, <3>2 DEF Found
  <2>2. p \notin Found(rows)
    BY <1>1, <2>1 DEF Found
  <2>3. sorted[k].score = value[rows[o[k]].point]
    BY <1>2, <1>5
  <2> QED BY <1>5, <2>2, <2>3
<1> QED BY <1>4, <1>6, <1>7, <1>8, <1>9 DEF Lists

\* The best of some points: each once, by falling value, and none that is
\* left out has a larger one.
LEMMA BestFacts ==
  ASSUME NEW points, IsFiniteSet(points), NEW value, NEW limit \in Nat,
         NEW best \in Best(points, value, limit)
  PROVE  /\ best \in Seq(points)
         /\ \A i, j \in 1..Len(best) : i # j => best[i] # best[j]
         /\ \A i, j \in 1..Len(best) : i < j => value[best[i]] >= value[best[j]]
         /\ \A i \in 1..Len(best) : \A p \in points :
              (\A j \in 1..Len(best) : best[j] # p) => value[best[i]] >= value[p]
<1> DEFINE n == IF Cardinality(points) < limit THEN Cardinality(points) ELSE limit
<1>1. n \in Nat
  BY FS_CardinalityType
<1>2. /\ best \in [1..n -> points] /\ IsInjective(best)
      /\ \A i, j \in 1..n : i < j => value[best[i]] >= value[best[j]]
      /\ \A i \in 1..n, p \in points \ Range(best) : value[best[i]] >= value[p]
  BY DEF Best
<1> HIDE DEF n
<1>3. best \in Seq(points) /\ Len(best) = n
  BY <1>1, <1>2
<1>4. \A i, j \in 1..n : i # j => best[i] # best[j]
  BY <1>2 DEF IsInjective
<1>5. \A p : (\A j \in 1..n : best[j] # p) => p \notin Range(best)
  BY <1>2 DEF Range
<1> QED BY <1>2, <1>3, <1>4, <1>5

\* The rows made of some points.
LEMMA RowsMade ==
  ASSUME NEW P, NEW best \in Seq(P), NEW score, NEW kind \in Kinds,
         \A i \in 1..Len(best) : score[i] \in Int
  PROVE  LET rows == [i \in DOMAIN best |-> Row(best[i], score[i], kind)]
         IN  rows \in Seq(RowsOn(P)) /\ Len(rows) = Len(best)
<1>1. Len(best) \in Nat /\ DOMAIN best = 1..Len(best)
      /\ \A i \in 1..Len(best) : best[i] \in P
  BY Places
<1>2. \A i \in 1..Len(best) : Row(best[i], score[i], kind) \in RowsOn(P)
  BY <1>1 DEF Row, RowsOn
<1> QED BY <1>1, <1>2

\* What is near lists all points by their similarity.
LEMMA NearLists ==
  ASSUME NEW points, IsFiniteSet(points), NEW sem, NEW limit \in Nat, NEW s,
         \A p \in points : sem[p.doc] \in Int,
         NEW rows \in IF s \in Weaviate THEN WeaviateNear(points, sem, limit)
                       ELSE QdrantNear(points, sem, limit),
         NEW value, \A p \in points : value[p] = sem[p.doc]
  PROVE  rows \in Seq(RowsOn(points)) /\ Lists(Ranked(rows, "semantic"), value, points)
<1> DEFINE by == [p \in points |-> sem[p.doc]]
<1>1. PICK best \in Best(points, by, limit) :
        rows = IF s \in Weaviate
               THEN [i \in DOMAIN best |-> Row(best[i], One - sem[best[i].doc], "distance")]
               ELSE [i \in DOMAIN best |-> Row(best[i], sem[best[i].doc], "similarity")]
  BY DEF WeaviateNear, QdrantNear
<1>2. /\ best \in Seq(points)
      /\ \A i \in 1..Len(best) : \A p \in points :
           (\A j \in 1..Len(best) : best[j] # p) => by[best[i]] >= by[p]
  BY BestFacts
<1>3. Len(best) \in Nat /\ DOMAIN best = 1..Len(best)
      /\ \A i \in 1..Len(best) : best[i] \in points
  BY <1>2, Places
<1>4. ASSUME NEW i \in 1..Len(best)
      PROVE  /\ rows[i] \in RowsOn(points) /\ rows[i].point = best[i]
             /\ Relevance(rows[i], "semantic") = value[best[i]]
  <2>1. sem[best[i].doc] \in Int /\ value[best[i]] = sem[best[i].doc]
    BY <1>3
  <2>2. rows[i] = IF s \in Weaviate THEN Row(best[i], One - sem[best[i].doc], "distance")
                  ELSE Row(best[i], sem[best[i].doc], "similarity")
    BY <1>1, <1>3
  <2> QED BY <1>3, <2>1, <2>2 DEF Row, RowsOn, Kinds, Relevance, One
<1>5. rows \in Seq(RowsOn(points)) /\ Len(rows) = Len(best)
  <2>1. rows = [i \in 1..Len(best) |-> rows[i]]
    BY <1>1, <1>3
  <2> QED BY <1>3, <1>4, <2>1
<1>6. ASSUME NEW p \in points \ Found(rows), NEW i \in 1..Len(rows)
      PROVE  value[rows[i].point] >= value[p]
  <2>1. \A j \in 1..Len(best) : best[j] # p
    BY <1>4, <1>5, <1>6 DEF Found
  <2>2. by[best[i]] >= by[p]
    BY <1>2, <1>5, <2>1
  <2> QED BY <1>3, <1>4, <1>5, <2>2
<1> QED BY <1>4, <1>5, <1>6, RankedLists

\* What matches lists the points that match by what the store says of them.
LEMMA MatchesList ==
  ASSUME NEW points, IsFiniteSet(points), NEW kw, NEW limit \in Nat, NEW s,
         \A p \in points : kw[p.doc] \in Nat,
         NEW rows \in IF s \in Weaviate THEN WeaviateMatches(points, kw, limit)
                       ELSE QdrantMatches(points, kw, limit),
         NEW value,
         \A p \in points : value[p] = IF s \in Weaviate THEN kw[p.doc]
                                     ELSE IF kw[p.doc] > 0 THEN One ELSE 0
  PROVE  /\ rows \in Seq(RowsOn(points))
         /\ Lists(Ranked(rows, "keyword"), value, {p \in points : value[p] > 0})
<1> DEFINE matching == {p \in points : kw[p.doc] > 0}
           by == IF s \in Weaviate THEN [p \in points |-> kw[p.doc]]
                 ELSE [p \in points |-> One]
<1>1. PICK best \in Best(matching, by, limit) :
        rows = IF s \in Weaviate
               THEN [i \in DOMAIN best |-> Row(best[i], kw[best[i].doc], "bm25")]
               ELSE [i \in DOMAIN best |-> Row(best[i], One, "text_match")]
  BY DEF WeaviateMatches, QdrantMatches
<1>2. IsFiniteSet(matching)
  BY FS_Subset
<1>3. /\ \A p \in points : p \in matching <=> value[p] > 0
      /\ \A p \in matching : p \in points /\ value[p] = by[p] /\ by[p] \in Int
  BY DEF One
<1> HIDE DEF matching, by
<1>4. /\ best \in Seq(matching)
      /\ \A i \in 1..Len(best) : \A p \in matching :
           (\A j \in 1..Len(best) : best[j] # p) => by[best[i]] >= by[p]
  BY <1>2, BestFacts
<1>5. Len(best) \in Nat /\ DOMAIN best = 1..Len(best)
      /\ \A i \in 1..Len(best) : best[i] \in matching
  BY <1>4, Places
<1>6. ASSUME NEW i \in 1..Len(best)
      PROVE  /\ rows[i] \in RowsOn(points) /\ rows[i].point = best[i]
             /\ Relevance(rows[i], "keyword") = value[best[i]]
  <2>1. best[i] \in matching
    BY <1>5
  <2>2. /\ best[i] \in points /\ value[best[i]] \in Int
        /\ value[best[i]] = IF s \in Weaviate THEN kw[best[i].doc] ELSE One
    BY <1>3, <2>1 DEF matching
  <2>3. rows[i] = IF s \in Weaviate THEN Row(best[i], kw[best[i].doc], "bm25")
                  ELSE Row(best[i], One, "text_match")
    BY <1>1, <1>5
  <2> QED BY <2>2, <2>3 DEF Row, RowsOn, Kinds, Relevance
<1>7. rows \in Seq(RowsOn(points)) /\ Len(rows) = Len(best)
  <2>1. rows = [i \in 1..Len(best) |-> rows[i]]
    BY <1>1, <1>5
  <2> QED BY <1>5, <1>6, <2>1
<1>8. ASSUME NEW p \in {p \in points : value[p] > 0} \ Found(rows), NEW i \in 1..Len(rows)
      PROVE  value[rows[i].point] >= value[p]
  <2>1. \A j \in 1..Len(best) : best[j] # p
    BY <1>6, <1>7, <1>8 DEF Found
  <2>2. by[best[i]] >= by[p]
    BY <1>3, <1>4, <1>7, <2>1
  <2> QED BY <1>3, <1>5, <1>6, <1>7, <2>2
<1> QED BY <1>6, <1>7, <1>8, RankedLists

-----------------------------------------------------------------------------
(* A fused answer leaves out nothing better in both searches.              *)

LEMMA Scales ==
  ASSUME NEW a \in Int, NEW b \in Int, NEW c \in Nat, a >= b
  PROVE  a * c >= b * c
<1>1. (a - b) * c >= 0
  <2>1. a - b \in Nat
    OBVIOUS
  <2>2. \A m, n \in Nat : m * n >= 0
    OBVIOUS
  <2> QED BY <2>1, <2>2
<1>2. (a - b) * c = a * c - b * c
  OBVIOUS
<1> QED BY <1>1, <1>2

\* Each row that finds q has one before it that finds p.
Precedes(rows, p, q) ==
  \A j \in 1..Len(rows) : rows[j].point = q =>
    \E i \in 1..(j - 1) : rows[i].point = p

Beats(value, p, q) == value[p] \in Int /\ value[q] \in Int /\ value[p] > value[q]

\* Of a listed value, the place and the score.
LEMMA Listed ==
  ASSUME NEW P, NEW rows \in Seq(RowsOn(P)), NEW value, NEW Q,
         Lists(rows, value, Q),
         NEW p \in Q, NEW q \in Found(rows), Beats(value, p, q)
  PROVE  /\ p \in Found(rows)
         /\ Precedes(rows, p, q)
         /\ ScoreOf(rows, p) = value[p] /\ ScoreOf(rows, q) = value[q]
<1>1. Len(rows) \in Nat /\ DOMAIN rows = 1..Len(rows)
  BY Places
<1>2. PICK j \in 1..Len(rows) : rows[j].point = q
  BY <1>1 DEF Found
<1>3. p \in Found(rows)
  <2>1. rows[j].score = value[q]
    BY <1>2 DEF Lists
  <2>2. ~(value[q] >= value[p])
    BY DEF Beats
  <2> QED BY <1>2, <2>1, <2>2 DEF Lists
<1>4. ASSUME NEW x \in Found(rows)
      PROVE  ScoreOf(rows, x) = value[x]
  <2>1. \E i \in DOMAIN rows : rows[i].point = x
    BY DEF Found
  <2> DEFINE i == CHOOSE i \in DOMAIN rows : rows[i].point = x
  <2>2. i \in 1..Len(rows) /\ rows[i].point = x /\ ScoreOf(rows, x) = rows[i].score
    BY <1>1, <2>1 DEF ScoreOf
  <2> QED BY <2>2 DEF Lists
<1>5. ASSUME NEW l \in 1..Len(rows), rows[l].point = q
      PROVE  \E i \in 1..(l - 1) : rows[i].point = p
  <2>1. PICK i \in 1..Len(rows) : rows[i].point = p
    BY <1>1, <1>3 DEF Found
  <2>2. rows[i].score = value[p] /\ rows[l].score = value[q]
    BY <1>5, <2>1 DEF Lists
  <2>3. ~(l < i) /\ l # i
    BY <1>5, <2>1, <2>2 DEF Lists, Beats
  <2> QED BY <1>1, <2>1, <2>3
<1> QED BY <1>3, <1>4, <1>5 DEF Precedes

\* Better in both searches, better in their fusion.
LEMMA FusedRises ==
  ASSUME NEW P, NEW sem \in Seq(RowsOn(P)), NEW kw \in Seq(RowsOn(P)),
         NEW alpha \in 0..Weight, NEW p, NEW q,
         p \in Found(sem) => ScoreOf(sem, p) \in Nat,
         q \in Found(sem) => p \in Found(sem) /\ ScoreOf(sem, p) >= ScoreOf(sem, q),
         q \in Found(kw) => p \in Found(kw) /\ ScoreOf(kw, p) >= ScoreOf(kw, q)
  PROVE  /\ Fused(sem, kw, alpha, p) \in Int /\ Fused(sem, kw, alpha, q) \in Int
         /\ Fused(sem, kw, alpha, p) >= Fused(sem, kw, alpha, q)
<1>1. /\ SemanticScore(sem, p) \in Int /\ SemanticScore(sem, q) \in Int
      /\ KeywordScore(kw, p) \in Nat /\ KeywordScore(kw, q) \in Nat
      /\ KeywordRange(kw) \in Nat
  BY ScoreTypes
<1>2. SemanticScore(sem, p) >= SemanticScore(sem, q)
  <2>1. q \in Found(sem) => ScoreOf(sem, q) \in Int
    BY ScoreTypes, ScoresFinite
  <2> QED BY <2>1 DEF SemanticScore
<1>3. KeywordScore(kw, p) >= KeywordScore(kw, q)
  <2>1. CASE q \notin Found(kw)
    <3>1. KeywordScore(kw, q) = 0
      BY <2>1 DEF KeywordScore
    <3> QED BY <1>1, <3>1
  <2>2. CASE q \in Found(kw)
    <3>1. /\ ScoreOf(kw, p) \in ScoresOf(kw) /\ ScoreOf(kw, q) \in ScoresOf(kw)
          /\ ScoresOf(kw) # {}
      BY <2>2, ScoreTypes
    <3>2. Min(ScoresOf(kw)) \in Int /\ ScoreOf(kw, p) \in Int /\ ScoreOf(kw, q) \in Int
      BY <3>1, ScoresFinite
    <3>3. \A x \in Found(kw) :
            KeywordScore(kw, x) = IF Cardinality(ScoresOf(kw)) = 1 THEN 1
                                  ELSE ScoreOf(kw, x) - Min(ScoresOf(kw))
      BY DEF KeywordScore, ScoresOf
    <3> QED BY <2>2, <3>2, <3>3
  <2> QED BY <2>1, <2>2
<1>4. alpha \in Nat /\ (Weight - alpha) * One \in Nat
  BY RankingAssumption DEF One
<1> DEFINE a == alpha * SemanticScore(sem, p)
           b == alpha * SemanticScore(sem, q)
           c == (Weight - alpha) * One * KeywordScore(kw, p)
           d == (Weight - alpha) * One * KeywordScore(kw, q)
<1>5. a \in Int /\ b \in Int /\ a >= b
  <2>1. SemanticScore(sem, p) * alpha >= SemanticScore(sem, q) * alpha
    BY <1>1, <1>2, <1>4, Scales
  <2>2. \A x \in Int : alpha * x = x * alpha /\ alpha * x \in Int
    BY <1>4
  <2> QED BY <1>1, <2>1, <2>2
<1>6. c \in Int /\ d \in Int /\ c >= d
  <2> DEFINE m == (Weight - alpha) * One
  <2>1. m \in Nat
    BY <1>4
  <2> HIDE DEF m
  <2>2. KeywordScore(kw, p) * m >= KeywordScore(kw, q) * m
    BY <1>1, <1>3, <2>1, Scales
  <2>3. \A x \in Int : m * x = x * m /\ m * x \in Int
    BY <2>1
  <2>4. m * KeywordScore(kw, p) >= m * KeywordScore(kw, q)
        /\ m * KeywordScore(kw, p) \in Int /\ m * KeywordScore(kw, q) \in Int
    BY <1>1, <2>2, <2>3
  <2> QED BY <2>4 DEF m
<1>7. /\ Fused(sem, kw, alpha, p) = a * KeywordRange(kw) + c
      /\ Fused(sem, kw, alpha, q) = b * KeywordRange(kw) + d
  BY DEF Fused
<1> HIDE DEF a, b, c, d
<1>8. /\ a * KeywordRange(kw) \in Int /\ b * KeywordRange(kw) \in Int
      /\ a * KeywordRange(kw) >= b * KeywordRange(kw)
  BY <1>1, <1>5, Scales
<1> QED BY <1>6, <1>7, <1>8

\* What the semantic search found comes first, then what only the other found.
LEMMA PlacesOfBoth ==
  ASSUME NEW P, NEW sem \in Seq(RowsOn(P)), NEW kw \in Seq(RowsOn(P)), NEW p, NEW q,
         q \in Found(sem) => p \in Found(sem),
         q \in Found(kw) => p \in Found(kw),
         Precedes(sem, p, q), Precedes(kw, p, q)
  PROVE  LET all == sem \o Others(sem, kw)
         IN  all \in Seq(RowsOn(P)) /\ Precedes(all, p, q)
<1> DEFINE others == Others(sem, kw)
           all == sem \o others
           N == New(sem, kw)
           m == Cardinality(N)
<1>1. others \in Seq(RowsOn(P))
  BY OthersType
<1>2. /\ m \in Nat
      /\ \E o \in [1..m -> N] :
           /\ \A j \in N : \E k \in 1..m : o[k] = j
           /\ others = [k \in 1..m |-> kw[o[k]]]
           /\ \A k, l \in 1..m : k < l <=> o[k] < o[l]
  <2>1. kw \in Seq(RowsOn(P))
    OBVIOUS
  <2> QED BY ONLY <2>1, OthersKept
<1>3. DOMAIN kw = 1..Len(kw) /\ DOMAIN sem = 1..Len(sem) /\ Len(sem) \in Nat /\ Len(kw) \in Nat
  BY Places
<1>4. N = {i \in 1..Len(kw) : kw[i].point \notin Found(sem)}
  BY <1>3 DEF New
<1> HIDE DEF others, N, m
<1>5. PICK o \in [1..m -> N] :
        /\ \A j \in N : \E k \in 1..m : o[k] = j
        /\ others = [k \in 1..m |-> kw[o[k]]]
        /\ \A k, l \in 1..m : k < l <=> o[k] < o[l]
  BY <1>2
<1>6. Len(others) = m
  BY <1>2, <1>5
<1>7. /\ all \in Seq(RowsOn(P)) /\ Len(all) = Len(sem) + m
      /\ \A j \in 1..Len(sem) : all[j] = sem[j]
      /\ \A k \in 1..m : all[Len(sem) + k] = others[k]
  BY <1>1, <1>2, <1>3, <1>6
<1> HIDE DEF all
<1>8. ASSUME NEW j \in 1..Len(all), all[j].point = q
      PROVE  \E i \in 1..(j - 1) : all[i].point = p
  <2>1. CASE j \in 1..Len(sem)
    <3>1. PICK i \in 1..(j - 1) : sem[i].point = p
      BY <1>7, <1>8, <2>1 DEF Precedes
    <3>2. i \in 1..Len(sem)
      BY <1>3, <2>1
    <3> QED BY <1>7, <3>1, <3>2
  <2>2. CASE j \notin 1..Len(sem)
    <3>1. PICK k \in 1..m : j = Len(sem) + k
      <4>1. j - Len(sem) \in 1..m
        BY <1>2, <1>3, <1>7, <2>2
      <4>2. j = Len(sem) + (j - Len(sem))
        BY <1>2, <1>3, <1>7
      <4> QED BY <4>1, <4>2
    <3>2. kw[o[k]].point = q /\ o[k] \in N
      BY <1>5, <1>7, <1>8, <3>1
    <3>3. CASE p \in Found(sem)
      <4>1. PICK i \in 1..Len(sem) : sem[i].point = p
        BY <1>3, <3>3 DEF Found
      <4>2. i \in 1..(j - 1)
        BY <1>2, <1>3, <3>1, <4>1
      <4> QED BY <1>7, <4>1, <4>2
    <3>4. CASE p \notin Found(sem)
      <4>1. o[k] \in 1..Len(kw)
        BY <1>4, <3>2
      <4>2. PICK i \in 1..(o[k] - 1) : kw[i].point = p
        BY <3>2, <4>1 DEF Precedes
      <4>3. i \in N /\ i < o[k]
        BY <1>3, <1>4, <3>4, <4>1, <4>2
      <4>4. PICK l \in 1..m : o[l] = i
        BY <1>5, <4>3
      <4>5. l < k
        BY <1>5, <4>3, <4>4
      <4>6. all[Len(sem) + l].point = p
        BY <1>5, <1>7, <4>2, <4>4
      <4>7. Len(sem) + l \in 1..(j - 1)
        BY <1>2, <1>3, <3>1, <4>5
      <4> QED BY <4>6, <4>7
    <3> QED BY <3>3, <3>4
  <2> QED BY <2>1, <2>2
<1>9. all \in Seq(RowsOn(P)) /\ Precedes(all, p, q)
  BY <1>7, <1>8 DEF Precedes
<1> QED BY <1>9 DEF all, others

\* What beats another one in both searches comes before it in the answer.
LEMMA FuseRespects ==
  ASSUME NEW P, NEW sem \in Seq(RowsOn(P)), NEW kw \in Seq(RowsOn(P)),
         NEW alpha \in 0..Weight, NEW k \in Nat,
         NEW value, NEW text, NEW seen,
         Lists(sem, value, seen), Lists(kw, text, {p \in seen : text[p] > 0}),
         NEW p \in seen, NEW q \in Found(Fuse(sem, kw, alpha, k)),
         value[p] \in Nat, value[q] \in Int, value[p] > value[q],
         text[p] \in Nat, text[q] \in Nat, text[p] > text[q]
  PROVE  p \in Found(Fuse(sem, kw, alpha, k))
<1> DEFINE all == sem \o Others(sem, kw)
           rows == [i \in DOMAIN all |->
                      Row(all[i].point, Fused(sem, kw, alpha, all[i].point),
                          "hybrid_score")]
           n == Len(all)
           sorted == Sorted(rows)
           last == Least(k, Len(sorted))
           M == {x \in seen : text[x] > 0}
<1>1. q \in Found(sem) =>
        /\ p \in Found(sem) /\ Precedes(sem, p, q)
        /\ ScoreOf(sem, p) = value[p] /\ ScoreOf(sem, q) = value[q]
  <2> SUFFICES ASSUME q \in Found(sem)
               PROVE  /\ p \in Found(sem) /\ Precedes(sem, p, q)
                      /\ ScoreOf(sem, p) = value[p] /\ ScoreOf(sem, q) = value[q]
    OBVIOUS
  <2>1. /\ Beats(value, p, q)
        /\ sem \in Seq(RowsOn(P)) /\ Lists(sem, value, seen)
        /\ p \in seen /\ q \in Found(sem)
    BY DEF Beats
  <2> QED BY <2>1, Listed
<1>2. q \in Found(kw) =>
        /\ p \in Found(kw) /\ Precedes(kw, p, q)
        /\ ScoreOf(kw, p) = text[p] /\ ScoreOf(kw, q) = text[q]
  <2> SUFFICES ASSUME q \in Found(kw)
               PROVE  /\ p \in Found(kw) /\ Precedes(kw, p, q)
                      /\ ScoreOf(kw, p) = text[p] /\ ScoreOf(kw, q) = text[q]
    OBVIOUS
  <2>1. /\ Beats(text, p, q)
        /\ kw \in Seq(RowsOn(P)) /\ Lists(kw, text, M)
        /\ p \in M /\ q \in Found(kw)
    BY DEF Beats
  <2> HIDE DEF M
  <2> QED BY <2>1, Listed
<1>3. Precedes(sem, p, q) /\ Precedes(kw, p, q)
  <2>1. q \notin Found(sem) => \A j \in 1..Len(sem) : sem[j].point # q
    BY Places DEF Found
  <2>2. q \notin Found(kw) => \A j \in 1..Len(kw) : kw[j].point # q
    BY Places DEF Found
  <2> QED BY <1>1, <1>2, <2>1, <2>2 DEF Precedes
<1>4. all \in Seq(RowsOn(P)) /\ Precedes(all, p, q)
  BY <1>1, <1>2, <1>3, PlacesOfBoth
<1>5. p \in Found(sem) => ScoreOf(sem, p) \in Nat
  <2>1. \A i \in 1..Len(sem) : sem[i].score = value[sem[i].point]
    BY DEF Lists
  <2>2. DOMAIN sem = 1..Len(sem)
    BY Places
  <2>3. p \in Found(sem) => \E i \in DOMAIN sem : sem[i].point = p
    BY DEF Found
  <2> QED BY <2>1, <2>2, <2>3 DEF ScoreOf
<1>6. /\ Fused(sem, kw, alpha, p) \in Int /\ Fused(sem, kw, alpha, q) \in Int
      /\ Fused(sem, kw, alpha, p) >= Fused(sem, kw, alpha, q)
  <2>1. \A x, y : (x \in Int /\ y \in Int /\ x > y) => x >= y
    OBVIOUS
  <2> QED BY <1>1, <1>2, <1>5, <2>1, FusedRises
<1> HIDE DEF all
<1>7. ASSUME NEW i \in 1..n
      PROVE  /\ rows[i] \in RowsOn(P) /\ rows[i].point = all[i].point
             /\ rows[i].score = Fused(sem, kw, alpha, all[i].point)
  <2>1. DOMAIN all = 1..n /\ all[i] \in RowsOn(P)
    BY <1>4, Places
  <2>2. rows[i] = Row(all[i].point, Fused(sem, kw, alpha, all[i].point), "hybrid_score")
    BY <2>1
  <2>3. Fused(sem, kw, alpha, all[i].point) \in Int
    <3>1. alpha \in Int
      BY RankingAssumption
    <3> QED BY <3>1, FusedType
  <2> QED BY <2>1, <2>2, <2>3 DEF Row, RowsOn, Kinds
<1>8. n \in Nat /\ rows \in Seq(RowsOn(P)) /\ Len(rows) = n
  <2>1. DOMAIN all = 1..n /\ n \in Nat
    BY <1>4, Places
  <2>2. rows = [i \in 1..n |-> rows[i]]
    BY <2>1
  <2>3. \A i \in 1..n : rows[i] \in RowsOn(P)
    BY <1>7
  <2> HIDE DEF rows
  <2> QED BY ONLY <2>1, <2>2, <2>3
<1>9. Fuse(sem, kw, alpha, k) = SubSeq(sorted, 1, last)
  BY DEF Fuse, all
<1> HIDE DEF rows, sorted
<1>10. PICK o \in [1..n -> 1..n] :
         /\ \A j \in 1..n : \E l \in 1..n : o[l] = j
         /\ sorted = [l \in 1..n |-> rows[o[l]]]
         /\ \A l, j \in 1..n : l < j <=> Ahead(rows, o[l], o[j])
  <2>1. \E o \in [1..Len(rows) -> 1..Len(rows)] :
          /\ \A j \in 1..Len(rows) : \E l \in 1..Len(rows) : o[l] = j
          /\ sorted = [l \in 1..Len(rows) |-> rows[o[l]]]
          /\ \A l, j \in 1..Len(rows) : l < j <=> Ahead(rows, o[l], o[j])
    BY <1>8, SortedSorts DEF sorted
  <2>2. Len(rows) = n
    BY <1>8
  <2> QED BY ONLY <2>1, <2>2
<1> HIDE DEF n
<1>11. /\ Len(sorted) = n /\ last \in 0..n /\ last \in Nat
       /\ sorted \in Seq(RowsOn(P))
  <2>1. n \in Nat
    BY <1>8
  <2>2. sorted \in Seq(RowsOn(P)) /\ Len(sorted) = n
    BY <1>8, SortedType DEF sorted
  <2> HIDE DEF sorted
  <2> QED BY <2>1, <2>2 DEF Least
<1> HIDE DEF last
<1>12. /\ DOMAIN SubSeq(sorted, 1, last) = 1..last
       /\ \A l \in 1..last : SubSeq(sorted, 1, last)[l] = sorted[l]
  BY <1>11
<1>13. PICK kq \in 1..last : sorted[kq].point = q
  BY <1>9, <1>12 DEF Found
<1>14. kq \in 1..n /\ o[kq] \in 1..n /\ sorted[kq] = rows[o[kq]]
  BY <1>8, <1>10, <1>11
<1>15. PICK i \in 1..(o[kq] - 1) : all[i].point = p
  <2>1. all[o[kq]].point = q
    BY <1>7, <1>13, <1>14
  <2> QED BY <1>4, <1>14, <2>1 DEF n, Precedes
<1>16. i \in 1..n /\ i < o[kq]
  BY <1>8, <1>14
<1>17. PICK kp \in 1..n : o[kp] = i
  BY <1>10, <1>16
<1>18. Ahead(rows, i, o[kq])
  <2>1. rows[i].score = Fused(sem, kw, alpha, p)
    BY <1>7, <1>15, <1>16
  <2>2. rows[o[kq]].score = Fused(sem, kw, alpha, q)
    BY <1>7, <1>13, <1>14
  <2> QED BY <1>6, <1>16, <2>1, <2>2 DEF Ahead
<1>19. kp < kq
  BY <1>10, <1>14, <1>17, <1>18
<1>20. kp \in 1..last /\ sorted[kp].point = p
  <2>1. sorted[kp] = rows[i]
    BY <1>10, <1>17
  <2>2. rows[i].point = p
    BY <1>7, <1>15, <1>16
  <2>3. kp \in 1..last
    BY <1>8, <1>11, <1>19
  <2> QED BY <2>1, <2>2, <2>3
<1> QED BY <1>9, <1>12, <1>20 DEF Found

-----------------------------------------------------------------------------
(* The inductive invariant.                                                *)

Methods == {"semantic", "keyword", "hybrid"}
Statuses == {"ready", "syncing", "error"}

\* The steps of each request.
StepsOf(op) ==
  CASE op = "create"  -> {"look", "make", "settle"}
    [] op = "ingest"  -> {"mark", "insert", "look", "make", "embed", "put", "settle"}
    [] op = "rebuild" -> {"mark", "list", "wipe", "each", "look", "make", "embed", "put",
                          "settle"}
    [] op = "drop"    -> {"count", "list", "purge", "remove"}
    [] op = "archive" -> {"count", "archive"}
    [] op = "query"   -> {"provider", "compare", "embed", "near", "match", "answer"}
    [] op = "tool"    -> {"resources", "find", "load", "provider", "compare", "embed",
                          "near", "answer"}
    [] op = "chat"    -> {"model", "row", "resources", "find", "engine_embed",
                          "engine_near", "answer"}
    [] op = "ask"     -> {"embed", "row", "resources", "allow", "near", "answer"}
    [] op = "upload"  -> {"embed", "row", "resources", "allow", "look", "make", "put"}
    [] op = "bind"    -> {"check", "bind"}
    [] OTHER          -> {}
Naming == {"create", "ingest", "rebuild", "drop", "archive", "query", "tool",
           "chat", "ask", "upload"}
StepNames == UNION {StepsOf(op) : op \in Naming \cup {"bind"}}

\* Chunks of a knowledge base are embedded with its model.
Chunks == {p \in [kb : KnowledgeBases \cup {None}, doc : Docs,
                  model : Models \cup {None}] :
             p.kb \in KnowledgeBases => p.model = Target(p.kb)}
ChunkRows == Seq(RowsOn(Chunks))

Tasks == [op : Naming \cup {"none", "bind"}, todo : Seq(StepNames),
          k : KnowledgeBases \cup {None}, d : Docs \cup {None},
          docs : SUBSET (Docs \cup KnowledgeBases), method : Methods,
          top : Nat \ {0}, alpha : 0..Weight, store : Stores \cup {None},
          kbs : SUBSET KnowledgeBases, torn : BOOLEAN,
          model : Models \cup {None}, embedded : Models \cup {None},
          status : Statuses,
          near : ChunkRows, match : ChunkRows, seen : SUBSET Chunks]

SceneOK ==
  \E s \in Scenarios : \E sem \in s.sem, kw \in s.kw :
    scene = [s EXCEPT !.sem = sem, !.kw = kw]

KbOK(table) ==
  table \in [KnowledgeBases ->
               [state : {"absent", "here", "gone"}, active : BOOLEAN,
                status : Statuses, docs : SUBSET Docs]]

IndexOK(ix) ==
  /\ DOMAIN ix = Stores
  /\ \A s \in Stores : \A i \in DOMAIN ix[s] :
       ix[s][i].points \in SUBSET Chunks /\ IsFiniteSet(ix[s][i].points)

\* What is bound is there and in the store that is bound.
ActiveOK(bound, table) ==
  /\ bound \in [store : Stores, kbs : SUBSET KnowledgeBases, model : Models]
  /\ \A k \in bound.kbs : table[k].state = "here" /\ Store(k) = bound.store

\* Each y to do has an x before it, and between an x and a z there is a y.
Has(s, x) == \E i \in 1..Len(s) : s[i] = x
Before(s, x, y) ==
  \A i \in 1..Len(s) : s[i] = y => \E j \in 1..(i - 1) : s[j] = x
Between(s, x, y, z) ==
  \A i, l \in 1..Len(s) :
    s[i] = x /\ s[l] = z => \E j \in (i + 1)..(l - 1) : s[j] = y

\* An index that is looked for is made next.
Paired(s) ==
  \A i \in 1..Len(s) : s[i] = "look" => i < Len(s) /\ s[i + 1] = "make"

\* A request makes its own steps, with the documents they need.
Steps(w) ==
  /\ w.todo \in Seq(StepsOf(w.op)) /\ Paired(w.todo)
  /\ w.op \in Naming => w.k \in KnowledgeBases
  /\ w.op \in {"ingest", "upload"} => w.d \in Docs
  /\ w.op = "rebuild" => w.d \in Docs \/ ~Has(w.todo, "put")

\* What is put and what is answered was embedded with the knowledge base's model.
Embedding(w) ==
  /\ w.op \in {"ingest", "rebuild"} =>
       Before(w.todo, "embed", "put") \/ w.embedded = Target(w.k)
  /\ w.op \in {"query", "tool"} /\ w.method # "keyword" =>
       Before(w.todo, "embed", "answer") \/ w.embedded = Target(w.k)

\* A request of the store that is bound has read which one.
Placing(w) ==
  w.op \in {"chat", "ask", "upload"} =>
    \/ w.store \in Stores
    \/ /\ Before(w.todo, "row", "near") /\ Before(w.todo, "row", "engine_near")
       /\ Before(w.todo, "row", "answer")

\* A chat's knowledge base is among those it read last, which are in the
\* store it read just before, unless a binding was written in between.
Chatting(w) ==
  w.op = "chat" =>
    /\ Between(w.todo, "row", "resources", "answer")
    /\ Between(w.todo, "resources", "find", "answer")
    /\ \/ Before(w.todo, "resources", "answer")
       \/ w.torn
       \/ \A k \in w.kbs : Store(k) = w.store
    /\ Before(w.todo, "find", "answer") \/ w.k \in w.kbs

\* The knowledge bases of a binding that are checked are in its store.
Binding(w) ==
  IF w.op = "bind"
  THEN /\ w.docs \subseteq KnowledgeBases /\ w.store \in Stores
       /\ w.todo = <<"check">> \/ (w.todo = <<"bind">> /\ w.docs = {})
       /\ \A k \in w.kbs \ w.docs : Store(k) = w.store
  ELSE w.docs \subseteq Docs

\* What a search says of each chunk.
Sem == [p \in Chunks |-> scene.sem[p.doc]]
Text(s) == [p \in Chunks |-> IF s \in Weaviate THEN scene.kw[p.doc]
                            ELSE IF scene.kw[p.doc] > 0 THEN One ELSE 0]

\* The branches of a hybrid query list what both saw.
Fusing(w) ==
  w.op = "query" /\ w.method = "hybrid" =>
    /\ Between(w.todo, "near", "match", "answer")
    /\ Before(w.todo, "near", "answer") \/ Lists(w.near, Sem, w.seen)
    /\ \/ Before(w.todo, "match", "answer")
       \/ LET text == Text(Store(w.k))
          IN  Lists(w.match, text, {p \in w.seen : text[p] > 0})

TaskOK(w) ==
  /\ w \in Tasks
  /\ Steps(w) /\ Embedding(w) /\ Placing(w) /\ Chatting(w) /\ Binding(w)
  /\ Fusing(w)

\* The hybrid answer a leaves out nothing better in both searches.
Respects(a) ==
  \A p \in a.seen, q \in Found(a.rows) :
    Sem[p] >= 0 /\ Sem[p] > Sem[q] /\ Text(a.store)[p] > Text(a.store)[q]
      => p \in Found(a.rows)

AnswerOK(a) ==
  /\ a.rows \in ChunkRows
  /\ a.op \in {"query", "tool", "chat"} => a.k \in KnowledgeBases
  /\ a.op \in {"query", "tool"} /\ a.method # "keyword" => a.embedded = Target(a.k)
  /\ a.op = "chat" /\ ~a.torn =>
       a.store = Store(a.k) /\ a.index = IndexOf(Store(a.k), Name(a.k))
  /\ a.op = "query" /\ a.method = "hybrid" => a.seen \subseteq Chunks /\ Respects(a)

IInv ==
  /\ SceneOK /\ KbOK(kb) /\ IndexOK(index) /\ ActiveOK(active, kb)
  /\ DOMAIN thread = Handlers /\ DOMAIN answer = Handlers
  /\ \A h \in Handlers : TaskOK(thread[h]) /\ AnswerOK(answer[h])

-----------------------------------------------------------------------------
(* What is left to do.                                                     *)

\* The head of what is left is done.
LEMMA TailFacts ==
  ASSUME NEW T, NEW s \in Seq(T), s # << >>
  PROVE  /\ Head(s) \in T /\ Tail(s) \in Seq(T)
         /\ \A x : Has(Tail(s), x) => Has(s, x)
         /\ \A x, y : Before(s, x, y) /\ x # Head(s) => Before(Tail(s), x, y)
         /\ \A x : ~Before(s, x, Head(s))
         /\ \A x, y, z : Between(s, x, y, z) => Between(Tail(s), x, y, z)
         /\ \A y, z : Between(s, Head(s), y, z) => Before(Tail(s), y, z)
         /\ Paired(s) => Paired(Tail(s))
         /\ Paired(s) /\ Head(s) = "look" => Tail(s) # << >> /\ Head(Tail(s)) = "make"
<1>1. /\ Head(s) \in T /\ Tail(s) \in Seq(T) /\ Head(s) = s[1]
      /\ Len(s) \in Nat \ {0} /\ Len(Tail(s)) = Len(s) - 1
      /\ \A i \in 1..(Len(s) - 1) : Tail(s)[i] = s[i + 1]
  OBVIOUS
<1>2. \A x : Has(Tail(s), x) => Has(s, x)
  BY <1>1 DEF Has
<1>3. ASSUME NEW x, NEW y, Before(s, x, y), x # Head(s)
      PROVE  Before(Tail(s), x, y)
  BY <1>3 DEF Before
<1>4. \A x : ~Before(s, x, Head(s))
  BY <1>1 DEF Before
<1>5. ASSUME NEW x, NEW y, NEW z, Between(s, x, y, z)
      PROVE  Between(Tail(s), x, y, z)
  BY <1>5 DEF Between
<1>6. ASSUME NEW y, NEW z, Between(s, Head(s), y, z)
      PROVE  Before(Tail(s), y, z)
  BY <1>6 DEF Between, Before
<1>7. Paired(s) => Paired(Tail(s))
  BY <1>1 DEF Paired
<1>8. ASSUME Paired(s), Head(s) = "look"
      PROVE  Tail(s) # << >> /\ Head(Tail(s)) = "make"
  <2>1. 1 < Len(s) /\ s[2] = "make"
    BY <1>1, <1>8 DEF Paired
  <2>2. Len(Tail(s)) # 0 /\ Tail(s)[1] = "make"
    BY <1>1, <2>1
  <2> DEFINE t == Tail(s)
  <2>3. t \in Seq(T) /\ Len(t) # 0 /\ t[1] = "make"
    BY <1>1, <2>2
  <2> HIDE DEF t
  <2>4. t # << >> /\ Head(t) = "make"
    BY <2>3
  <2> QED BY <2>4 DEF t
<1> QED BY <1>1, <1>2, <1>3, <1>4, <1>5, <1>6, <1>7, <1>8

\* One of the steps that are left is behind w, but nothing they rely on has
\* changed.
LEMMA StepsStay ==
  ASSUME NEW w, Steps(w), w.todo # << >>, NEW v, v.todo = Tail(w.todo),
         v.op = w.op, v.k = w.k, v.d = w.d
  PROVE  Steps(v)
<1>1. w.todo \in Seq(StepsOf(w.op)) /\ Paired(w.todo)
  BY DEF Steps
<1>2. /\ Tail(w.todo) \in Seq(StepsOf(w.op)) /\ Paired(Tail(w.todo))
      /\ Has(Tail(w.todo), "put") => Has(w.todo, "put")
  BY <1>1, TailFacts
<1> QED BY <1>2 DEF Steps

LEMMA EmbeddingStays ==
  ASSUME NEW w, Steps(w), w.todo # << >>, NEW v, v.todo = Tail(w.todo),
         Embedding(w), Head(w.todo) # "embed",
         v.op = w.op, v.k = w.k, v.method = w.method, v.embedded = w.embedded
  PROVE  Embedding(v)
  BY TailFacts DEF Embedding, Steps

LEMMA PlacingStays ==
  ASSUME NEW w, Steps(w), w.todo # << >>, NEW v, v.todo = Tail(w.todo),
         Placing(w), Head(w.todo) # "row", v.op = w.op, v.store = w.store
  PROVE  Placing(v)
  BY TailFacts DEF Placing, Steps

LEMMA ChattingStays ==
  ASSUME NEW w, Steps(w), w.todo # << >>, NEW v, v.todo = Tail(w.todo),
         Chatting(w), Head(w.todo) \notin {"row", "resources", "find"},
         v.op = w.op, v.k = w.k, v.kbs = w.kbs, v.store = w.store, v.torn = w.torn
  PROVE  Chatting(v)
  BY TailFacts DEF Chatting, Steps

LEMMA FusingStays ==
  ASSUME NEW w, Steps(w), w.todo # << >>, NEW v, v.todo = Tail(w.todo),
         Fusing(w), Head(w.todo) \notin {"near", "match"},
         v.op = w.op, v.k = w.k, v.method = w.method,
         v.near = w.near, v.match = w.match, v.seen = w.seen
  PROVE  Fusing(v)
  BY TailFacts DEF Fusing, Steps

\* What a request with such a step is about.
LEMMA StepFacts ==
  ASSUME IInv, NEW h \in Handlers, NEW x, At(h, x), x \notin {"check", "bind"}
  PROVE  /\ TaskOK(thread[h]) /\ thread[h] \in Tasks /\ Steps(thread[h])
         /\ thread[h].todo # << >> /\ Head(thread[h].todo) = x
         /\ x \in StepsOf(thread[h].op)
         /\ thread[h].op \in Naming /\ thread[h].k \in KnowledgeBases
         /\ thread[h].docs \subseteq Docs
         /\ Tail(thread[h].todo) \in Seq(StepNames)
<1>1. /\ TaskOK(thread[h]) /\ thread[h] \in Tasks /\ Steps(thread[h])
      /\ thread[h].todo # << >> /\ Head(thread[h].todo) = x /\ Binding(thread[h])
  BY DEF IInv, TaskOK, At, Idle
<1>2. x \in StepsOf(thread[h].op)
  BY <1>1, TailFacts DEF Steps
<1>3. thread[h].op \in Naming
  BY <1>1, <1>2 DEF StepsOf, Naming
<1>4. Tail(thread[h].todo) \in Seq(StepNames)
  BY <1>1, TailFacts DEF Tasks
<1> QED BY <1>1, <1>2, <1>3, <1>4 DEF Steps, Binding, Naming

-----------------------------------------------------------------------------
(* What the steps have in common.                                          *)

LEMMA SceneFixed ==
  ASSUME UNCHANGED scene, NEW w
  PROVE  /\ TaskOK(w) => TaskOK(w)'
         /\ AnswerOK(w) => AnswerOK(w)'
         /\ IndexOK(w) => IndexOK(w)'
  BY DEF TaskOK, AnswerOK, IndexOK, Tasks, Chunks, ChunkRows, Target, Store, Name,
         Embedding, Chatting, Binding, Fusing, Respects, Sem, Text, Steps, Placing

\* A handler moves to w, on tables that may be written meanwhile.
LEMMA TaskMoves ==
  ASSUME IInv, NEW h \in Handlers, NEW w, thread' = [thread EXCEPT ![h] = w],
         TaskOK(w), UNCHANGED scene,
         KbOK(kb'), IndexOK(index'), ActiveOK(active', kb'),
         NEW a, AnswerOK(a), answer' \in {answer, [answer EXCEPT ![h] = a]}
  PROVE  IInv'
<1>1. SceneOK'
  BY DEF IInv, SceneOK
<1>2. KbOK(kb)' /\ ActiveOK(active, kb)'
  BY DEF KbOK, ActiveOK, Store
<1>3. IndexOK(index)'
  BY SceneFixed
<1>4. ASSUME NEW g \in Handlers
      PROVE  TaskOK(thread[g])' /\ AnswerOK(answer[g])'
  <2>1. TaskOK(thread'[g])
    BY DEF IInv
  <2>2. AnswerOK(answer'[g])
    BY DEF IInv
  <2>3. TaskOK(thread[g])'
    BY <2>1, SceneFixed
  <2>4. AnswerOK(answer[g])'
    BY <2>2, SceneFixed
  <2> QED BY <2>3, <2>4
<1> QED BY <1>1, <1>2, <1>3, <1>4 DEF IInv

LEMMA Tables ==
  ASSUME IInv
  PROVE  /\ SceneOK /\ KbOK(kb) /\ IndexOK(index) /\ ActiveOK(active, kb)
         /\ \A g \in Handlers : TaskOK(thread[g]) /\ AnswerOK(answer[g])
  BY DEF IInv

\* What a scenario is made of.
LEMMA SceneFacts ==
  ASSUME SceneOK
  PROVE  /\ \A k \in KnowledgeBases : Store(k) \in Stores /\ Target(k) \in Models \cup {None}
         /\ scene.sem \in [Docs -> Int] /\ scene.kw \in [Docs -> Nat]
         /\ \A o \in Options :
              o.method \in Methods /\ o.top \in Nat \ {0} /\ o.alpha \in 0..Weight
<1>1. PICK s \in Scenarios : \E sem \in s.sem, kw \in s.kw :
              scene = [s EXCEPT !.sem = sem, !.kw = kw]
  BY DEF SceneOK
<1>2. PICK sem \in s.sem, kw \in s.kw : scene = [s EXCEPT !.sem = sem, !.kw = kw]
  BY <1>1
<1>3. /\ s.row \in [KnowledgeBases -> [name : Seq(Seq(DOMAIN Capital)), store : Stores,
                                       target : Models \cup {None}]]
      /\ s.methods \subseteq Methods /\ s.tops \subseteq Nat \ {0} /\ s.alphas \subseteq 0..Weight
      /\ sem \in [Docs -> Int] /\ kw \in [Docs -> Nat]
      /\ s.sem \subseteq [Docs -> Int] /\ s.kw \subseteq [Docs -> Nat]
      /\ scene.row = s.row /\ scene.methods = s.methods /\ scene.tops = s.tops
      /\ scene.alphas = s.alphas /\ scene.sem = sem /\ scene.kw = kw
  BY <1>2, RetrievalAssumption DEF Methods
<1> QED BY <1>3 DEF Store, Target, Options

\* Who has no request, and who was not answered.
LEMMA UnusedOK == TaskOK(Unused) /\ AnswerOK(Unanswered)
<1>1. /\ Unused.op = "none" /\ Unused.todo = << >> /\ Unused.docs = {}
      /\ Unanswered.op = "none" /\ Unanswered.rows = << >>
  BY DEF Unused, Unanswered
<1>2. << >> \in ChunkRows /\ << >> \in Seq(StepNames) /\ << >> \in Seq(StepsOf("none"))
  BY DEF ChunkRows
<1>3. Unused \in Tasks
  BY <1>2, RankingAssumption DEF Unused, Tasks, Methods, Statuses
<1>4. Steps(Unused)
  BY <1>1, <1>2 DEF Steps, Paired, Naming
<1>5. Embedding(Unused) /\ Placing(Unused) /\ Chatting(Unused) /\ Binding(Unused)
      /\ Fusing(Unused)
  BY <1>1 DEF Embedding, Placing, Chatting, Binding, Fusing
<1> QED BY <1>1, <1>2, <1>3, <1>4, <1>5 DEF TaskOK, AnswerOK

\* A step is done that nothing relies on.
LEMMA Behind ==
  ASSUME NEW w, TaskOK(w), w.todo # << >>, w.op \in Naming,
         Head(w.todo) \notin {"embed", "row", "resources", "find", "near", "match"}
  PROVE  TaskOK([w EXCEPT !.todo = Tail(@)])
<1> DEFINE v == [w EXCEPT !.todo = Tail(@)]
<1>1. w \in Tasks /\ Steps(w) /\ w.todo \in Seq(StepNames)
  BY DEF TaskOK, Tasks
<1>2. Tail(w.todo) \in Seq(StepNames)
  BY <1>1, TailFacts
<1>3. /\ v \in Tasks /\ v.todo = Tail(w.todo) /\ v.op = w.op /\ v.k = w.k /\ v.d = w.d
      /\ v.docs = w.docs /\ v.method = w.method /\ v.store = w.store /\ v.kbs = w.kbs
      /\ v.torn = w.torn /\ v.embedded = w.embedded /\ v.near = w.near
      /\ v.match = w.match /\ v.seen = w.seen
  BY <1>1, <1>2 DEF Tasks
<1>4. Binding(v)
  BY <1>3 DEF TaskOK, Binding, Naming
<1> HIDE DEF v
<1>5. Steps(v) /\ Embedding(v) /\ Placing(v) /\ Chatting(v) /\ Fusing(v)
  BY <1>1, <1>3, StepsStay, EmbeddingStays, PlacingStays, ChattingStays, FusingStays
     DEF TaskOK
<1> QED BY <1>3, <1>4, <1>5 DEF TaskOK, v

\* A handler goes on, on tables that stay as they are.
LEMMA Reads ==
  ASSUME IInv, NEW h \in Handlers, NEW w, thread' = [thread EXCEPT ![h] = w],
         TaskOK(w), UNCHANGED <<index, scene, kb, active, answer>>
  PROVE  IInv'
  BY Tables, UnusedOK, TaskMoves

LEMMA Moves ==
  ASSUME IInv, NEW h \in Handlers, NEW w, thread' = [thread EXCEPT ![h] = w],
         TaskOK(w), UNCHANGED <<scene, answer>>,
         KbOK(kb'), IndexOK(index'), ActiveOK(active', kb')
  PROVE  IInv'
  BY UnusedOK, TaskMoves

LEMMA Done1 ==
  ASSUME IInv, NEW h \in Handlers, NEW x, At(h, x),
         x \notin {"check", "bind", "embed", "row", "resources", "find", "near", "match"}
  PROVE  TaskOK([thread[h] EXCEPT !.todo = Tail(@)])
  BY StepFacts, Behind

\* A row is written.
LEMMA SetKbOK ==
  ASSUME IInv, NEW k \in KnowledgeBases, NEW status \in Statuses, NEW docs \in SUBSET Docs,
         SetKb(k, status, docs)
  PROVE  KbOK(kb') /\ ActiveOK(active, kb')
<1>1. KbOK(kb) /\ ActiveOK(active, kb)
  BY Tables
<1>2. KbOK(kb') /\ \A j \in KnowledgeBases : kb'[j].state = kb[j].state
  BY <1>1 DEF SetKb, KbOK
<1> QED BY <1>1, <1>2 DEF ActiveOK

LEMMA FailOK ==
  ASSUME IInv, NEW h \in Handlers, NEW x, At(h, x), x \notin {"check", "bind"}, Fail(h)
  PROVE  /\ thread' = [thread EXCEPT ![h] = Unused]
         /\ KbOK(kb') /\ ActiveOK(active, kb')
<1>1. thread[h].k \in KnowledgeBases
  BY StepFacts
<1>2. kb[thread[h].k].docs \subseteq Docs
  BY <1>1, Tables DEF KbOK
<1>3. CASE UNCHANGED kb
  BY <1>3, Tables DEF Fail, End
<1>4. CASE SetKb(thread[h].k, "error",
                 kb[thread[h].k].docs \ (IF thread[h].op = "ingest" THEN {thread[h].d} ELSE {}))
  <2>1. kb[thread[h].k].docs \ (IF thread[h].op = "ingest" THEN {thread[h].d} ELSE {})
          \in SUBSET Docs
    BY <1>2
  <2>2. "error" \in Statuses
    BY DEF Statuses
  <2> QED BY <1>1, <1>4, <2>1, <2>2, SetKbOK DEF Fail, End
<1> QED BY <1>3, <1>4 DEF Fail

\* A request to a store or a model fails, or what came of it is told.
LEMMA FailKeeps ==
  ASSUME IInv, NEW h \in Handlers, NEW x, At(h, x), x \notin {"check", "bind"}, Fail(h),
         UNCHANGED <<scene, active, answer>>, IndexOK(index')
  PROVE  IInv'
  BY FailOK, UnusedOK, Moves

LEMMA ToldKeeps ==
  ASSUME IInv, NEW h \in Handlers, NEW x, At(h, x),
         x \notin {"check", "bind", "embed", "row", "resources", "find", "near", "match"},
         ToldOrLost(h), UNCHANGED <<scene, active, answer>>, IndexOK(index')
  PROVE  IInv'
<1>1. CASE Fails(h)
  BY <1>1, FailKeeps DEF Fails
<1>2. CASE Told(h)
  BY <1>2, Done1, Tables, Moves DEF Told, Done, Proceed
<1> QED BY <1>1, <1>2 DEF ToldOrLost

LEMMA EndKeeps ==
  ASSUME IInv, NEW h \in Handlers, End(h), UNCHANGED <<index, scene, kb, active, answer>>
  PROVE  IInv'
  BY UnusedOK, Reads DEF End

LEMMA DoneKeeps ==
  ASSUME IInv, NEW h \in Handlers, NEW x, At(h, x),
         x \notin {"check", "bind", "embed", "row", "resources", "find", "near", "match"},
         Done(h), UNCHANGED <<index, scene, kb, active, answer>>
  PROVE  IInv'
  BY Done1, Reads DEF Done, Proceed

-----------------------------------------------------------------------------
(* The start.                                                              *)

\* A document of a knowledge base is one chunk.
LEMMA OwnChunks ==
  ASSUME NEW own \in SUBSET KnowledgeBases, NEW docs \in SUBSET Docs, NEW target
  PROVE  IsFiniteSet({p \in [kb : own, doc : docs, model : Models] : p.model = target[p.kb]})
<1> DEFINE P == {p \in [kb : own, doc : docs, model : Models] : p.model = target[p.kb]}
           f == [e \in own \X docs |-> [kb |-> e[1], doc |-> e[2], model |-> target[e[1]]]]
           I == {f[e] : e \in own \X docs}
<1>1. IsFiniteSet(own \X docs)
  BY RetrievalAssumption, FS_Subset, FS_Product
<1>2. f \in Surjection(own \X docs, I)
  BY DEF Surjection
<1>3. IsFiniteSet(I)
  BY <1>1, <1>2, FS_Surjection
<1>4. P \subseteq I
  <2> SUFFICES ASSUME NEW p \in P PROVE p \in I
    OBVIOUS
  <2>1. <<p.kb, p.doc>> \in own \X docs /\ p = f[<<p.kb, p.doc>>]
    OBVIOUS
  <2> QED BY <2>1
<1> QED BY <1>3, <1>4, FS_Subset

LEMMA InitIInv == Init => IInv
<1> SUFFICES ASSUME Init PROVE IInv
  OBVIOUS
<1>1. PICK s \in Scenarios : \E sem \in s.sem, kw \in s.kw :
        /\ scene = [s EXCEPT !.sem = sem, !.kw = kw]
        /\ kb = [k \in KnowledgeBases |->
                   IF k \in s.here
                   THEN [state |-> "here", active |-> TRUE, status |-> "ready", docs |-> s.docs]
                   ELSE Absent]
        /\ index = [st \in Stores |->
             [i \in {IndexOf(st, s.row[k].name) : k \in {x \in s.here : s.row[x].store = st}} |->
                LET own == {x \in s.here : s.row[x].store = st /\ IndexOf(st, s.row[x].name) = i}
                    points == {p \in [kb : own, doc : s.docs, model : Models] :
                                 p.model = s.row[p.kb].target}
                IN  [size |-> IF points # {} THEN Dimension[(CHOOSE p \in points : TRUE).model]
                              ELSE IF st \in Weaviate THEN 0 ELSE DefaultSize,
                     points |-> points]]]
        /\ active = s.active
        /\ thread = [h \in Handlers |-> Unused]
        /\ answer = [h \in Handlers |-> Unanswered]
  BY DEF Init
<1>2. /\ s.here \subseteq KnowledgeBases /\ s.docs \subseteq Docs
      /\ s.row \in [KnowledgeBases -> [name : Seq(Seq(DOMAIN Capital)), store : Stores,
                                       target : Models \cup {None}]]
      /\ s.active \in [store : Stores, kbs : SUBSET KnowledgeBases, model : Models]
      /\ \A k \in s.active.kbs : k \in s.here /\ s.row[k].store = s.active.store
  BY RetrievalAssumption
<1>3. SceneOK /\ scene.row = s.row
  <2>1. SceneOK
    BY <1>1 DEF SceneOK
  <2>2. s \in Scenarios /\ \E sem \in s.sem, kw \in s.kw : scene = [s EXCEPT !.sem = sem, !.kw = kw]
    BY <1>1
  <2> QED BY <2>1, <2>2, RetrievalAssumption
<1>4. KbOK(kb)
  BY <1>1, <1>2 DEF KbOK, Absent, Statuses
<1>5. ActiveOK(active, kb)
  <2>1. \A k \in active.kbs : kb[k].state = "here"
    BY <1>1, <1>2
  <2> QED BY <1>1, <1>2, <1>3, <2>1 DEF ActiveOK, Store
<1>6. IndexOK(index)
  <2>1. DOMAIN index = Stores
    BY <1>1
  <2>2. ASSUME NEW st \in Stores, NEW i \in DOMAIN index[st]
        PROVE  index[st][i].points \in SUBSET Chunks /\ IsFiniteSet(index[st][i].points)
    <3> DEFINE own == {x \in s.here : s.row[x].store = st /\ IndexOf(st, s.row[x].name) = i}
               target == [k \in KnowledgeBases |-> s.row[k].target]
               points == {p \in [kb : own, doc : s.docs, model : Models] :
                            p.model = s.row[p.kb].target}
               points2 == {p \in [kb : own, doc : s.docs, model : Models] :
                            p.model = target[p.kb]}
    <3>1. index[st][i].points = points
      <4> DEFINE names == {IndexOf(st, s.row[k].name) : k \in {x \in s.here : s.row[x].store = st}}
                 of(j) == {p \in [kb : {x \in s.here : /\ s.row[x].store = st
                                                       /\ IndexOf(st, s.row[x].name) = j},
                                  doc : s.docs, model : Models] :
                             p.model = s.row[p.kb].target}
                 size(j) == IF of(j) # {} THEN Dimension[(CHOOSE p \in of(j) : TRUE).model]
                            ELSE IF st \in Weaviate THEN 0 ELSE DefaultSize
      <4>1. index[st] = [j \in names |-> [size |-> size(j), points |-> of(j)]]
        BY <1>1
      <4>2. points = of(i)
        OBVIOUS
      <4> HIDE DEF names, of, size, points
      <4>3. index[st][i] = [size |-> size(i), points |-> of(i)]
        BY <2>2, <4>1
      <4> QED BY <4>2, <4>3
    <3>2. own \in SUBSET KnowledgeBases /\ s.docs \in SUBSET Docs
      BY <1>2
    <3> HIDE DEF own
    <3>3. points \in SUBSET Chunks
      BY <1>2, <1>3, <3>2 DEF Chunks, Target
    <3>4. points = points2
      BY <3>2
    <3> HIDE DEF target
    <3>5. IsFiniteSet(points2)
      BY <3>2, OwnChunks
    <3> QED BY <3>1, <3>3, <3>4, <3>5
  <2> QED BY <2>1, <2>2 DEF IndexOK
<1>7. /\ DOMAIN thread = Handlers /\ DOMAIN answer = Handlers
      /\ \A h \in Handlers : thread[h] = Unused /\ answer[h] = Unanswered
  BY <1>1
<1> QED BY <1>3, <1>4, <1>5, <1>6, <1>7, UnusedOK DEF IInv

-----------------------------------------------------------------------------
(* Requests.                                                               *)

\* What a request has to say for itself.
Begun(w) ==
  /\ w \in Tasks /\ w.op \in Naming /\ w.k \in KnowledgeBases /\ w.docs = {}
  /\ w.todo \in Seq(StepsOf(w.op)) /\ Paired(w.todo)
  /\ w.op \in {"ingest", "upload"} => w.d \in Docs
  /\ w.op = "rebuild" => ~Has(w.todo, "put")
  /\ w.op = "ingest" => Before(w.todo, "embed", "put")
  /\ w.op \in {"query", "tool"} /\ w.method # "keyword" => Before(w.todo, "embed", "answer")
  /\ w.op \in {"chat", "ask", "upload"} =>
       /\ Before(w.todo, "row", "near") /\ Before(w.todo, "row", "engine_near")
       /\ Before(w.todo, "row", "answer")
  /\ w.op = "chat" =>
       /\ Between(w.todo, "row", "resources", "answer")
       /\ Between(w.todo, "resources", "find", "answer")
       /\ Before(w.todo, "resources", "answer") /\ Before(w.todo, "find", "answer")
  /\ w.op = "query" /\ w.method = "hybrid" =>
       /\ Between(w.todo, "near", "match", "answer")
       /\ Before(w.todo, "near", "answer") /\ Before(w.todo, "match", "answer")

LEMMA RequestOK ==
  ASSUME NEW w, Begun(w)
  PROVE  TaskOK(w)
<1>1. Steps(w)
  BY DEF Begun, Steps
<1>2. Embedding(w)
  <2>1. w.op = "rebuild" => Before(w.todo, "embed", "put")
    BY DEF Begun, Has, Before
  <2> QED BY <2>1 DEF Begun, Embedding
<1>3. Placing(w) /\ Chatting(w) /\ Binding(w) /\ Fusing(w)
  BY DEF Begun, Placing, Chatting, Binding, Fusing, Naming
<1> QED BY <1>1, <1>2, <1>3 DEF Begun, TaskOK

LEMMA RequestFacts ==
  ASSUME NEW op \in Naming, NEW k \in KnowledgeBases, NEW todo \in Seq(StepsOf(op))
  PROVE  LET w == Request(op, k, todo)
         IN  /\ w \in Tasks /\ w.op = op /\ w.k = k /\ w.todo = todo /\ w.docs = {}
             /\ w.method = "semantic"
<1>1. Unused \in Tasks
  BY UnusedOK DEF TaskOK
<1>2. todo \in Seq(StepNames)
  BY DEF StepNames
<1> QED BY <1>1, <1>2 DEF Request, Tasks, Unused

LEMMA TakeKeeps ==
  ASSUME IInv, NEW h \in Handlers, NEW op, NEW w, Take(h, op, w), TaskOK(w),
         UNCHANGED <<index, scene>>, KbOK(kb'), ActiveOK(active', kb')
  PROVE  IInv'
<1>1. /\ thread' = [thread EXCEPT ![h] = w]
      /\ answer' = [answer EXCEPT ![h] = Unanswered]
  BY DEF Take
<1> QED BY <1>1, Tables, UnusedOK, TaskMoves

\* The parts of a sequence one after the other.
LEMMA Concats ==
  ASSUME NEW T, NEW s \in Seq(T), NEW t \in Seq(T), NEW r \in Seq(T),
         Len(r) = Len(s) + Len(t),
         \A i \in 1..Len(s) : r[i] = s[i],
         \A i \in 1..Len(t) : r[Len(s) + i] = t[i]
  PROVE  s \o t = r
  OBVIOUS

\* The literal requests.
LEMMA Programs ==
  /\ <<"look", "make", "settle">> \in Seq(StepsOf("create"))
  /\ <<"mark", "insert", "look", "make", "embed", "look", "make", "put", "settle">>
       \in Seq(StepsOf("ingest"))
  /\ <<"mark", "list", "wipe", "look", "make", "each">> \in Seq(StepsOf("rebuild"))
  /\ <<"look", "make", "embed", "look", "make", "put", "each">> \in Seq(StepsOf("rebuild"))
  /\ <<"count", "list", "purge">> \in Seq(StepsOf("drop"))
  /\ <<"count", "archive">> \in Seq(StepsOf("archive"))
  /\ <<"provider", "compare", "embed", "near", "answer">> \in Seq(StepsOf("query"))
  /\ <<"provider", "match", "answer">> \in Seq(StepsOf("query"))
  /\ <<"provider", "compare", "embed", "near", "match", "answer">> \in Seq(StepsOf("query"))
  /\ <<"resources", "find", "load", "provider", "compare", "embed", "near", "answer">>
       \in Seq(StepsOf("tool"))
  /\ <<"model", "row", "resources", "find", "engine_embed", "engine_near", "answer">>
       \in Seq(StepsOf("chat"))
  /\ <<"embed", "row", "resources", "allow", "near", "answer">> \in Seq(StepsOf("ask"))
  /\ <<"embed", "row", "resources", "allow", "look", "make", "put">> \in Seq(StepsOf("upload"))
  BY DEF StepsOf

\* Those that index look before they make.
LEMMA PairedPrograms ==
  /\ Paired(<<"look", "make", "settle">>)
  /\ Paired(<<"mark", "insert", "look", "make", "embed", "look", "make", "put", "settle">>)
  /\ Paired(<<"mark", "list", "wipe", "look", "make", "each">>)
  /\ Paired(<<"look", "make", "embed", "look", "make", "put", "each">>)
  /\ Paired(<<"embed", "row", "resources", "allow", "look", "make", "put">>)
  BY DEF Paired

\* The others look for no index.
LEMMA Unpaired ==
  ASSUME NEW op \in {"drop", "archive", "query", "tool", "chat", "ask"},
         NEW todo \in Seq(StepsOf(op))
  PROVE  Paired(todo)
<1>1. \A i \in 1..Len(todo) : todo[i] \in StepsOf(op)
  OBVIOUS
<1> QED BY <1>1 DEF Paired, StepsOf

LEMMA CreateKeeps ==
  ASSUME IInv, NEW h \in Handlers, NEW k \in KnowledgeBases, Create(h, k)
  PROVE  IInv'
<1> DEFINE todo == <<"look", "make", "settle">>
<1>1. TaskOK(Request("create", k, todo))
  <2>1. todo \in Seq(StepsOf("create")) /\ Paired(todo)
    BY Programs, PairedPrograms
  <2> HIDE DEF todo
  <2>2. Begun(Request("create", k, todo))
    BY <2>1, RequestFacts DEF Begun, Naming
  <2> QED BY <2>2, RequestOK
<1>2. KbOK(kb') /\ \A j \in KnowledgeBases : kb[j].state = "here" => kb'[j].state = "here"
  BY Tables DEF Create, KbOK, Statuses
<1>3. ActiveOK(active', kb')
  BY <1>2, Tables DEF Create, ActiveOK
<1> QED BY <1>1, <1>2, <1>3, TakeKeeps DEF Create

LEMMA IngestKeeps ==
  ASSUME IInv, NEW h \in Handlers, NEW k \in KnowledgeBases, NEW d \in Docs, Ingest(h, k, d)
  PROVE  IInv'
<1> DEFINE todo == <<"mark", "insert">> \o Indexing \o <<"settle">>
           most == <<"mark", "insert", "look", "make", "embed", "look", "make", "put">>
           full == <<"mark", "insert", "look", "make", "embed", "look", "make", "put", "settle">>
           first == <<"mark", "insert">>
           last == <<"settle">>
           T == StepsOf("ingest")
<1>1. /\ full \in Seq(T) /\ Paired(full)
  BY Programs, PairedPrograms
<1>2. Before(full, "embed", "put")
  BY DEF Before
<1>3. first \in Seq(T) /\ Indexing \in Seq(T) /\ most \in Seq(T) /\ last \in Seq(T)
  BY DEF Indexing, StepsOf
<1>4. first \o Indexing = most
  <2>1. /\ Len(most) = Len(first) + Len(Indexing)
        /\ \A i \in 1..Len(first) : most[i] = first[i]
        /\ \A i \in 1..Len(Indexing) : most[Len(first) + i] = Indexing[i]
    BY DEF Indexing
  <2> HIDE DEF first, most
  <2> QED BY <1>3, <2>1, Concats
<1>5. most \o last = full
  <2>1. /\ Len(full) = Len(most) + Len(last)
        /\ \A i \in 1..Len(most) : full[i] = most[i]
        /\ \A i \in 1..Len(last) : full[Len(most) + i] = last[i]
    OBVIOUS
  <2> HIDE DEF most, last, full
  <2> QED BY <1>1, <1>3, <2>1, Concats
<1>6. todo = full
  <2> HIDE DEF most, full
  <2> QED BY <1>4, <1>5
<1>7. TaskOK([Request("ingest", k, full) EXCEPT !.d = d])
  <2> HIDE DEF full
  <2> DEFINE w == [Request("ingest", k, full) EXCEPT !.d = d]
  <2>1. /\ w \in Tasks /\ w.op = "ingest" /\ w.k = k /\ w.todo = full /\ w.docs = {}
        /\ w.d = d
    BY <1>1, RequestFacts DEF Naming, Tasks
  <2> HIDE DEF w
  <2>2. Begun(w)
    BY <1>1, <1>2, <2>1 DEF Begun, Naming
  <2> QED BY <2>2, RequestOK DEF w
<1>8. TaskOK([Request("ingest", k, todo) EXCEPT !.d = d])
  <2> HIDE DEF todo, full
  <2> QED BY <1>6, <1>7
<1>9. UNCHANGED <<index, scene, kb, active>>
      /\ Take(h, "ingest", [Request("ingest", k, todo) EXCEPT !.d = d])
  BY DEF Ingest
<1> HIDE DEF todo
<1> QED BY <1>8, <1>9, Tables, TakeKeeps

LEMMA RebuildKeeps ==
  ASSUME IInv, NEW h \in Handlers, NEW k \in KnowledgeBases, Rebuild(h, k)
  PROVE  IInv'
<1> DEFINE todo == <<"mark", "list", "wipe", "look", "make", "each">>
<1>1. TaskOK(Request("rebuild", k, todo))
  <2>1. todo \in Seq(StepsOf("rebuild")) /\ Paired(todo)
    BY Programs, PairedPrograms
  <2>2. ~Has(todo, "put")
    BY DEF Has
  <2> HIDE DEF todo
  <2>3. Begun(Request("rebuild", k, todo))
    BY <2>1, <2>2, RequestFacts DEF Begun, Naming
  <2> QED BY <2>3, RequestOK
<1>2. UNCHANGED <<index, scene, kb, active>> /\ Take(h, "rebuild", Request("rebuild", k, todo))
  BY DEF Rebuild
<1> HIDE DEF todo
<1> QED BY <1>1, <1>2, Tables, TakeKeeps

LEMMA DropKeeps ==
  ASSUME IInv, NEW h \in Handlers, NEW k \in KnowledgeBases, Drop(h, k)
  PROVE  IInv'
<1> DEFINE todo == <<"count", "list", "purge">>
<1>1. TaskOK(Request("drop", k, todo))
  <2>1. todo \in Seq(StepsOf("drop")) /\ Paired(todo)
    BY Programs, Unpaired
  <2> HIDE DEF todo
  <2>2. Begun(Request("drop", k, todo))
    BY <2>1, RequestFacts DEF Begun, Naming
  <2> QED BY <2>2, RequestOK
<1>2. UNCHANGED <<index, scene, kb, active>> /\ Take(h, "drop", Request("drop", k, todo))
  BY DEF Drop
<1> HIDE DEF todo
<1> QED BY <1>1, <1>2, Tables, TakeKeeps

LEMMA ArchiveKeeps ==
  ASSUME IInv, NEW h \in Handlers, NEW k \in KnowledgeBases, Archive(h, k)
  PROVE  IInv'
<1> DEFINE todo == <<"count", "archive">>
           status == kb[k].status
<1>1. TaskOK([Request("archive", k, todo) EXCEPT !.status = status])
  <2>1. todo \in Seq(StepsOf("archive")) /\ Paired(todo)
    BY Programs, Unpaired
  <2>2. status \in Statuses
    BY Tables DEF KbOK
  <2> HIDE DEF todo, status
  <2> DEFINE w == [Request("archive", k, todo) EXCEPT !.status = status]
  <2>3. /\ w \in Tasks /\ w.op = "archive" /\ w.k = k /\ w.todo = todo /\ w.docs = {}
    BY <2>1, <2>2, RequestFacts DEF Naming, Tasks
  <2> HIDE DEF w
  <2>4. Begun(w)
    BY <2>1, <2>3 DEF Begun, Naming
  <2> QED BY <2>4, RequestOK DEF w
<1>2. /\ UNCHANGED <<index, scene, kb, active>>
      /\ Take(h, "archive", [Request("archive", k, todo) EXCEPT !.status = status])
  BY DEF Archive
<1> HIDE DEF todo, status
<1> QED BY <1>1, <1>2, Tables, TakeKeeps

LEMMA BindKeeps ==
  ASSUME IInv, NEW h \in Handlers, NEW s \in Stores, NEW kbs \in SUBSET KnowledgeBases,
         Bind(h, s, kbs)
  PROVE  IInv'
<1> DEFINE w == [Unused EXCEPT !.op = "bind", !.store = s, !.kbs = kbs, !.docs = kbs,
                               !.todo = <<"check">>]
<1>1. /\ <<"check">> \in Seq(StepsOf("bind")) /\ <<"check">> \in Seq(StepNames)
      /\ Paired(<<"check">>)
  BY DEF StepsOf, StepNames, Paired
<1>2. Unused \in Tasks /\ Unused.d = None
  BY UnusedOK DEF TaskOK, Unused
<1>3. /\ w \in Tasks /\ w.op = "bind" /\ w.store = s /\ w.kbs = kbs /\ w.docs = kbs
      /\ w.todo = <<"check">>
  BY <1>1, <1>2 DEF Tasks
<1> HIDE DEF w
<1>4. TaskOK(w)
  BY <1>1, <1>3 DEF TaskOK, Steps, Embedding, Placing, Chatting, Binding, Fusing, Naming
<1>5. UNCHANGED <<index, scene, kb, active>> /\ Take(h, "bind", w)
  BY DEF Bind, w
<1> QED BY <1>4, <1>5, Tables, TakeKeeps

LEMMA ChooseModelKeeps ==
  ASSUME IInv, NEW h \in Handlers, NEW m \in Models, ChooseModel(h, m)
  PROVE  IInv'
<1>1. ActiveOK(active', kb')
  BY Tables DEF ChooseModel, ActiveOK
<1> QED BY <1>1, Tables, UnusedOK, TakeKeeps DEF ChooseModel

LEMMA Joins ==
  ASSUME NEW T, NEW a \in Seq(T), NEW b \in Seq(T), NEW c \in Seq(T), NEW r \in Seq(T),
         Len(r) = Len(a) + Len(b) + Len(c),
         \A i \in 1..Len(a) : r[i] = a[i],
         \A i \in 1..Len(b) : r[Len(a) + i] = b[i],
         \A i \in 1..Len(c) : r[Len(a) + Len(b) + i] = c[i]
  PROVE  a \o b \o c = r
<1> DEFINE m == a \o b
<1>1. m \in Seq(T) /\ Len(m) = Len(a) + Len(b)
      /\ Len(a) \in Nat /\ Len(b) \in Nat /\ Len(c) \in Nat
  OBVIOUS
<1>2. \A i \in 1..Len(m) : r[i] = m[i]
  <2> SUFFICES ASSUME NEW i \in 1..Len(m) PROVE r[i] = m[i]
    OBVIOUS
  <2>1. CASE i <= Len(a)
    BY <1>1, <2>1
  <2>2. CASE i > Len(a)
    <3>1. i - Len(a) \in 1..Len(b) /\ i = Len(a) + (i - Len(a))
      BY <1>1, <2>2
    <3>2. r[i] = b[i - Len(a)]
      BY <3>1
    <3>3. m[i] = b[i - Len(a)]
      BY <1>1, <2>2
    <3> QED BY <3>2, <3>3
  <2> QED BY <1>1, <2>1, <2>2
<1> HIDE DEF m
<1>3. Len(r) = Len(m) + Len(c) /\ \A i \in 1..Len(c) : r[Len(m) + i] = c[i]
  BY <1>1
<1>4. m \o c = r
  BY <1>1, <1>2, <1>3, Concats
<1> QED BY <1>4 DEF m

LEMMA SemanticQuery ==
  <<"provider">> \o <<"compare", "embed", "near">> \o <<"answer">>
    = <<"provider", "compare", "embed", "near", "answer">>
<1> DEFINE a == <<"provider">>
           b == <<"compare", "embed", "near">>
           c == <<"answer">>
           r == <<"provider", "compare", "embed", "near", "answer">>
           T == StepsOf("query")
<1>1. a \in Seq(T) /\ b \in Seq(T) /\ c \in Seq(T) /\ r \in Seq(T)
  BY DEF StepsOf
<1>2. Len(r) = Len(a) + Len(b) + Len(c)
  BY DEF StepsOf
<1>3. \A i \in 1..Len(a) : r[i] = a[i]
  OBVIOUS
<1>4. \A i \in 1..Len(b) : r[Len(a) + i] = b[i]
  OBVIOUS
<1>5. \A i \in 1..Len(c) : r[Len(a) + Len(b) + i] = c[i]
  OBVIOUS
<1> HIDE DEF a, b, c, r, T
<1>6. a \o b \o c = r
  BY <1>1, <1>2, <1>3, <1>4, <1>5, Joins
<1> QED BY <1>6 DEF a, b, c, r

LEMMA KeywordQuery ==
  <<"provider">> \o <<"match">> \o <<"answer">>
    = <<"provider", "match", "answer">>
<1> DEFINE a == <<"provider">>
           b == <<"match">>
           c == <<"answer">>
           r == <<"provider", "match", "answer">>
           T == StepsOf("query")
<1>1. a \in Seq(T) /\ b \in Seq(T) /\ c \in Seq(T) /\ r \in Seq(T)
  BY DEF StepsOf
<1>2. Len(r) = Len(a) + Len(b) + Len(c)
  BY DEF StepsOf
<1>3. \A i \in 1..Len(a) : r[i] = a[i]
  OBVIOUS
<1>4. \A i \in 1..Len(b) : r[Len(a) + i] = b[i]
  OBVIOUS
<1>5. \A i \in 1..Len(c) : r[Len(a) + Len(b) + i] = c[i]
  OBVIOUS
<1> HIDE DEF a, b, c, r, T
<1>6. a \o b \o c = r
  BY <1>1, <1>2, <1>3, <1>4, <1>5, Joins
<1> QED BY <1>6 DEF a, b, c, r

LEMMA HybridQuery ==
  <<"provider">> \o <<"compare", "embed", "near", "match">> \o <<"answer">>
    = <<"provider", "compare", "embed", "near", "match", "answer">>
<1> DEFINE a == <<"provider">>
           b == <<"compare", "embed", "near", "match">>
           c == <<"answer">>
           r == <<"provider", "compare", "embed", "near", "match", "answer">>
           T == StepsOf("query")
<1>1. a \in Seq(T) /\ b \in Seq(T) /\ c \in Seq(T) /\ r \in Seq(T)
  BY DEF StepsOf
<1>2. Len(r) = Len(a) + Len(b) + Len(c)
  BY DEF StepsOf
<1>3. \A i \in 1..Len(a) : r[i] = a[i]
  OBVIOUS
<1>4. \A i \in 1..Len(b) : r[Len(a) + i] = b[i]
  OBVIOUS
<1>5. \A i \in 1..Len(c) : r[Len(a) + Len(b) + i] = c[i]
  OBVIOUS
<1> HIDE DEF a, b, c, r, T
<1>6. a \o b \o c = r
  BY <1>1, <1>2, <1>3, <1>4, <1>5, Joins
<1> QED BY <1>6 DEF a, b, c, r

LEMMA ToolQuery ==
  <<"resources", "find", "load", "provider">> \o <<"compare", "embed", "near">> \o <<"answer">>
    = <<"resources", "find", "load", "provider", "compare", "embed", "near", "answer">>
<1> DEFINE a == <<"resources", "find", "load", "provider">>
           b == <<"compare", "embed", "near">>
           c == <<"answer">>
           r == <<"resources", "find", "load", "provider", "compare", "embed", "near", "answer">>
           T == StepsOf("tool")
<1>1. a \in Seq(T) /\ b \in Seq(T) /\ c \in Seq(T) /\ r \in Seq(T)
  BY DEF StepsOf
<1>2. Len(r) = Len(a) + Len(b) + Len(c)
  BY DEF StepsOf
<1>3. \A i \in 1..Len(a) : r[i] = a[i]
  OBVIOUS
<1>4. \A i \in 1..Len(b) : r[Len(a) + i] = b[i]
  OBVIOUS
<1>5. \A i \in 1..Len(c) : r[Len(a) + Len(b) + i] = c[i]
  OBVIOUS
<1> HIDE DEF a, b, c, r, T
<1>6. a \o b \o c = r
  BY <1>1, <1>2, <1>3, <1>4, <1>5, Joins
<1> QED BY <1>6 DEF a, b, c, r

\* The searches of a query embed before they answer, and answer what they found.
LEMMA QueryProgram ==
  ASSUME NEW method \in Methods
  PROVE  LET todo == <<"provider">> \o Searching(method) \o <<"answer">>
         IN  /\ todo \in Seq(StepsOf("query")) /\ Paired(todo)
             /\ method # "keyword" => Before(todo, "embed", "answer")
             /\ method = "hybrid" =>
                  /\ Between(todo, "near", "match", "answer")
                  /\ Before(todo, "near", "answer") /\ Before(todo, "match", "answer")
<1> DEFINE todo == <<"provider">> \o Searching(method) \o <<"answer">>
           semantic == <<"provider", "compare", "embed", "near", "answer">>
           keyword == <<"provider", "match", "answer">>
           hybrid == <<"provider", "compare", "embed", "near", "match", "answer">>
<1>1. CASE method = "semantic"
  <2>1. todo = semantic
    BY <1>1, SemanticQuery DEF Searching
  <2>2. semantic \in Seq(StepsOf("query")) /\ Paired(semantic)
    BY Programs, Unpaired
  <2>3. Before(semantic, "embed", "answer")
    BY DEF Before
  <2> HIDE DEF todo, semantic
  <2>4. /\ todo \in Seq(StepsOf("query")) /\ Paired(todo)
        /\ Before(todo, "embed", "answer")
    BY <2>1, <2>2, <2>3
  <2> QED BY <1>1, <2>4 DEF todo
<1>2. CASE method = "keyword"
  <2>1. todo = keyword
    BY <1>2, KeywordQuery DEF Searching
  <2>2. keyword \in Seq(StepsOf("query")) /\ Paired(keyword)
    BY Programs, Unpaired
  <2> HIDE DEF todo, keyword
  <2>3. todo \in Seq(StepsOf("query")) /\ Paired(todo)
    BY <2>1, <2>2
  <2> QED BY <1>2, <2>3 DEF todo
<1>3. CASE method = "hybrid"
  <2>1. todo = hybrid
    BY <1>3, HybridQuery DEF Searching
  <2>2. hybrid \in Seq(StepsOf("query")) /\ Paired(hybrid)
    BY Programs, Unpaired
  <2>3. Before(hybrid, "embed", "answer") /\ Before(hybrid, "near", "answer")
        /\ Before(hybrid, "match", "answer")
    BY DEF Before
  <2>4. Between(hybrid, "near", "match", "answer")
    <3>1. /\ \A i \in 1..6 : hybrid[i] = "near" => i = 4
          /\ \A i \in 1..6 : hybrid[i] = "answer" => i = 6
          /\ hybrid[5] = "match" /\ Len(hybrid) = 6
      OBVIOUS
    <3> HIDE DEF hybrid
    <3> QED BY <3>1 DEF Between
  <2> HIDE DEF todo, hybrid
  <2>5. /\ todo \in Seq(StepsOf("query")) /\ Paired(todo)
        /\ Before(todo, "embed", "answer") /\ Before(todo, "near", "answer")
        /\ Before(todo, "match", "answer") /\ Between(todo, "near", "match", "answer")
    BY <2>1, <2>2, <2>3, <2>4
  <2> QED BY <2>5 DEF todo
<1> QED BY <1>1, <1>2, <1>3 DEF Methods

LEMMA QueryKeeps ==
  ASSUME IInv, NEW h \in Handlers, NEW k \in KnowledgeBases, NEW options \in Options,
         Query(h, k, options)
  PROVE  IInv'
<1> DEFINE todo == <<"provider">> \o Searching(options.method) \o <<"answer">>
           w == [Request("query", k, todo) EXCEPT !.method = options.method,
                   !.top = options.top, !.alpha = options.alpha]
<1>1. options.method \in Methods /\ options.top \in Nat \ {0} /\ options.alpha \in 0..Weight
  BY Tables, SceneFacts
<1>2. UNCHANGED <<index, scene, kb, active>> /\ Take(h, "query", w)
  BY DEF Query
<1>3. /\ todo \in Seq(StepsOf("query")) /\ Paired(todo)
      /\ options.method # "keyword" => Before(todo, "embed", "answer")
      /\ options.method = "hybrid" =>
           /\ Between(todo, "near", "match", "answer")
           /\ Before(todo, "near", "answer") /\ Before(todo, "match", "answer")
  BY <1>1, QueryProgram
<1> HIDE DEF todo
<1>4. /\ w \in Tasks /\ w.op = "query" /\ w.k = k /\ w.todo = todo /\ w.docs = {}
      /\ w.method = options.method
  <2> DEFINE r == Request("query", k, todo)
  <2>1. r \in Tasks /\ r.op = "query" /\ r.k = k /\ r.todo = todo /\ r.docs = {}
    BY <1>3, RequestFacts DEF Naming
  <2> HIDE DEF r
  <2>2. w = [r EXCEPT !.method = options.method, !.top = options.top, !.alpha = options.alpha]
    BY DEF r
  <2> QED BY <1>1, <2>1, <2>2 DEF Tasks
<1> HIDE DEF w
<1>5. Begun(w)
  BY <1>3, <1>4 DEF Begun, Naming
<1> QED BY <1>2, <1>5, Tables, RequestOK, TakeKeeps

LEMMA UseToolKeeps ==
  ASSUME IInv, NEW h \in Handlers, NEW k \in KnowledgeBases, UseTool(h, k)
  PROVE  IInv'
<1> DEFINE todo == <<"resources", "find", "load", "provider">> \o Searching("semantic")
                     \o <<"answer">>
           full == <<"resources", "find", "load", "provider", "compare", "embed", "near",
                     "answer">>
<1>1. UNCHANGED <<index, scene, kb, active>> /\ Take(h, "tool", Request("tool", k, todo))
  BY DEF UseTool
<1>2. todo = full
  BY ToolQuery DEF Searching
<1>3. full \in Seq(StepsOf("tool")) /\ Paired(full)
  BY Programs, Unpaired
<1>4. Before(full, "embed", "answer")
  BY DEF Before
<1> HIDE DEF todo, full
<1>5. Begun(Request("tool", k, todo))
  BY <1>2, <1>3, <1>4, RequestFacts DEF Begun, Naming
<1> QED BY <1>1, <1>5, Tables, RequestOK, TakeKeeps

LEMMA ChatKeeps ==
  ASSUME IInv, NEW h \in Handlers, NEW k \in KnowledgeBases, Chat(h, k)
  PROVE  IInv'
<1> DEFINE todo == <<"model", "row", "resources", "find", "engine_embed", "engine_near",
                     "answer">>
<1>1. UNCHANGED <<index, scene, kb, active>> /\ Take(h, "chat", Request("chat", k, todo))
  BY DEF Chat
<1>2. todo \in Seq(StepsOf("chat")) /\ Paired(todo)
  BY Programs, Unpaired
<1>3. /\ Before(todo, "row", "near") /\ Before(todo, "row", "engine_near")
      /\ Before(todo, "row", "answer")
      /\ Before(todo, "resources", "answer") /\ Before(todo, "find", "answer")
  BY DEF Before
<1>4. Between(todo, "row", "resources", "answer") /\ Between(todo, "resources", "find", "answer")
  <2>1. /\ \A i \in 1..7 : todo[i] = "row" => i = 2
        /\ \A i \in 1..7 : todo[i] = "resources" => i = 3
        /\ \A i \in 1..7 : todo[i] = "answer" => i = 7
        /\ todo[3] = "resources" /\ todo[4] = "find" /\ Len(todo) = 7
    OBVIOUS
  <2> HIDE DEF todo
  <2> QED BY <2>1 DEF Between
<1> HIDE DEF todo
<1>5. Begun(Request("chat", k, todo))
  BY <1>2, <1>3, <1>4, RequestFacts DEF Begun, Naming
<1> QED BY <1>1, <1>5, Tables, RequestOK, TakeKeeps

LEMMA AskKeeps ==
  ASSUME IInv, NEW h \in Handlers, NEW k \in KnowledgeBases, Ask(h, k)
  PROVE  IInv'
<1> DEFINE todo == <<"embed", "row", "resources", "allow", "near", "answer">>
<1>1. UNCHANGED <<index, scene, kb, active>> /\ Take(h, "ask", Request("ask", k, todo))
  BY DEF Ask
<1>2. todo \in Seq(StepsOf("ask")) /\ Paired(todo)
  BY Programs, Unpaired
<1>3. /\ Before(todo, "row", "near") /\ Before(todo, "row", "engine_near")
      /\ Before(todo, "row", "answer")
  BY DEF Before
<1> HIDE DEF todo
<1>4. Begun(Request("ask", k, todo))
  BY <1>2, <1>3, RequestFacts DEF Begun, Naming
<1> QED BY <1>1, <1>4, Tables, RequestOK, TakeKeeps

LEMMA UploadKeeps ==
  ASSUME IInv, NEW h \in Handlers, NEW k \in KnowledgeBases, NEW d \in Docs, Upload(h, k, d)
  PROVE  IInv'
<1> DEFINE todo == <<"embed", "row", "resources", "allow", "look", "make", "put">>
           w == [Request("upload", k, todo) EXCEPT !.d = d]
<1>1. UNCHANGED <<index, scene, kb, active>> /\ Take(h, "upload", w)
  BY DEF Upload
<1>2. todo \in Seq(StepsOf("upload")) /\ Paired(todo)
  BY Programs, PairedPrograms
<1>3. /\ Before(todo, "row", "near") /\ Before(todo, "row", "engine_near")
      /\ Before(todo, "row", "answer")
  BY DEF Before
<1> HIDE DEF todo
<1>4. /\ w \in Tasks /\ w.op = "upload" /\ w.k = k /\ w.todo = todo /\ w.docs = {}
      /\ w.d = d
  BY <1>2, RequestFacts DEF Naming, Tasks
<1> HIDE DEF w
<1>5. Begun(w)
  BY <1>2, <1>3, <1>4 DEF Begun, Naming
<1> QED BY <1>1, <1>5, Tables, RequestOK, TakeKeeps

-----------------------------------------------------------------------------
(* Steps on rows and indexes.                                              *)

LEMMA IndexSet ==
  ASSUME IndexOK(index), NEW s, NEW i, NEW content, SetIndex(s, i, content),
         content.points \in SUBSET Chunks, IsFiniteSet(content.points)
  PROVE  IndexOK(index')
<1>1. DOMAIN index' = Stores
  BY DEF IndexOK, SetIndex
<1>2. ASSUME NEW g \in Stores, NEW j \in DOMAIN index'[g]
      PROVE  index'[g][j].points \in SUBSET Chunks /\ IsFiniteSet(index'[g][j].points)
  <2>1. CASE g = s
    <3>1. index'[g] = [n \in DOMAIN index[g] \cup {i} |-> IF n = i THEN content ELSE index[g][n]]
      BY <2>1 DEF IndexOK, SetIndex
    <3>2. index'[g][j] = IF j = i THEN content ELSE index[g][j]
      BY <1>2, <3>1
    <3>3. j = i \/ j \in DOMAIN index[g]
      BY <1>2, <3>1
    <3> QED BY <3>2, <3>3 DEF IndexOK
  <2>2. CASE g # s
    <3>1. index'[g] = index[g]
      BY <2>2 DEF IndexOK, SetIndex
    <3> QED BY <1>2, <3>1 DEF IndexOK
  <2> QED BY <2>1, <2>2
<1> QED BY <1>1, <1>2 DEF IndexOK

LEMMA IndexDropped ==
  ASSUME IndexOK(index), NEW s, NEW i, DropIndex(s, i)
  PROVE  IndexOK(index')
<1>1. DOMAIN index' = Stores
  BY DEF IndexOK, DropIndex
<1>2. ASSUME NEW g \in Stores, NEW j \in DOMAIN index'[g]
      PROVE  index'[g][j].points \in SUBSET Chunks /\ IsFiniteSet(index'[g][j].points)
  <2>1. CASE g = s
    <3>1. index'[g] = [n \in DOMAIN index[g] \ {i} |-> index[g][n]]
      BY <2>1 DEF IndexOK, DropIndex
    <3>2. index'[g][j] = index[g][j] /\ j \in DOMAIN index[g]
      BY <1>2, <3>1
    <3> QED BY <3>2 DEF IndexOK
  <2>2. CASE g # s
    <3>1. index'[g] = index[g]
      BY <2>2 DEF IndexOK, DropIndex
    <3> QED BY <1>2, <3>1 DEF IndexOK
  <2> QED BY <2>1, <2>2
<1> QED BY <1>1, <1>2 DEF IndexOK

\* The points of an index of a store.
LEMMA PointsFacts ==
  ASSUME IndexOK(index), NEW s \in Stores, NEW i
  PROVE  Points(s, i) \in SUBSET Chunks /\ IsFiniteSet(Points(s, i))
  BY FS_EmptySet DEF Points, Exists, IndexOK

LEMMA IndexCreated ==
  ASSUME IndexOK(index), NEW s, NEW i, NEW size, CreateIndex(s, i, size)
  PROVE  IndexOK(index')
<1>1. \A n : [size |-> n, points |-> {}].points \in SUBSET Chunks
             /\ IsFiniteSet([size |-> n, points |-> {}].points)
  BY FS_EmptySet
<1>2. CASE UNCHANGED index
  BY <1>2
<1>3. CASE \E n : SetIndex(s, i, [size |-> n, points |-> {}])
  BY <1>1, <1>3, IndexSet
<1> QED BY <1>2, <1>3 DEF CreateIndex, CreateWeaviate, CreateQdrant

LEMMA PointUpserted ==
  ASSUME IndexOK(index), NEW s, NEW i, NEW point \in Chunks, UpsertPoint(s, i, point)
  PROVE  IndexOK(index')
<1> DEFINE rest == {p \in Points(s, i) : <<p.kb, p.doc>> # <<point.kb, point.doc>>}
           content == [size |-> Dimension[point.model], points |-> rest \cup {point}]
<1>1. SetIndex(s, i, content)
  BY DEF UpsertPoint
<1>2. CASE s \in Stores
  <2>1. Points(s, i) \in SUBSET Chunks /\ IsFiniteSet(Points(s, i))
    BY <1>2, PointsFacts
  <2>2. rest \in SUBSET Chunks /\ IsFiniteSet(rest)
    BY <2>1, FS_Subset
  <2> HIDE DEF rest
  <2>3. content.points \in SUBSET Chunks /\ IsFiniteSet(content.points)
    BY <2>2, FS_AddElement
  <2> HIDE DEF content
  <2> QED BY <1>1, <2>3, IndexSet
<1>3. CASE s \notin Stores
  <2> HIDE DEF content
  <2>1. DOMAIN index' = Stores /\ \A g \in Stores : index'[g] = index[g]
    BY <1>1, <1>3 DEF SetIndex, IndexOK
  <2> QED BY <2>1 DEF IndexOK
<1> QED BY <1>2, <1>3

LEMMA PointDeleted ==
  ASSUME IndexOK(index), NEW s \in Stores, NEW i, NEW k, NEW d, DeletePoint(s, i, k, d)
  PROVE  IndexOK(index')
<1> DEFINE rest == {p \in index[s][i].points : <<p.kb, p.doc>> # <<k, d>>}
           content == [index[s][i] EXCEPT !.points = rest]
<1>1. CASE Exists(s, i)
  <2>1. SetIndex(s, i, [index[s][i] EXCEPT !.points = {p \in @ : <<p.kb, p.doc>> # <<k, d>>}])
    BY <1>1 DEF DeletePoint
  <2>2. index[s][i].points \in SUBSET Chunks /\ IsFiniteSet(index[s][i].points)
    BY <1>1 DEF IndexOK, Exists
  <2>3. rest \in SUBSET Chunks /\ IsFiniteSet(rest)
    BY <2>2, FS_Subset
  <2>4. SetIndex(s, i, content)
    BY <2>1
  <2> HIDE DEF rest
  <2>5. content.points = rest \/ content.points = index[s][i].points
    OBVIOUS
  <2>6. content.points \in SUBSET Chunks /\ IsFiniteSet(content.points)
    BY <2>2, <2>3, <2>5
  <2> HIDE DEF content
  <2> QED BY <2>4, <2>6, IndexSet
<1>2. CASE ~Exists(s, i)
  BY <1>2 DEF DeletePoint
<1> QED BY <1>1, <1>2

LEMMA MarkKeeps ==
  ASSUME IInv, NEW h \in Handlers, Mark(h)
  PROVE  IInv'
<1>1. thread[h].k \in KnowledgeBases /\ kb[thread[h].k].docs \in SUBSET Docs
  BY StepFacts, Tables DEF Mark, KbOK
<1>2. KbOK(kb') /\ ActiveOK(active, kb')
  BY <1>1, SetKbOK DEF Mark, Statuses
<1>3. TaskOK([thread[h] EXCEPT !.todo = Tail(@)])
  BY Done1 DEF Mark
<1> QED BY <1>2, <1>3, Tables, Moves DEF Mark, Done, Proceed

LEMMA InsertKeeps ==
  ASSUME IInv, NEW h \in Handlers, Insert(h)
  PROVE  IInv'
<1>1. /\ thread[h].k \in KnowledgeBases /\ "insert" \in StepsOf(thread[h].op)
      /\ Steps(thread[h])
  BY StepFacts DEF Insert
<1>2. thread[h].d \in Docs
  BY <1>1 DEF StepsOf, Steps
<1>3. CASE Here(thread[h].k)
  <2>1. /\ KbOK(kb') /\ \A j \in KnowledgeBases : kb'[j].state = kb[j].state
    BY <1>1, <1>2, <1>3, Tables DEF Insert, KbOK
  <2>2. ActiveOK(active, kb')
    BY <2>1, Tables DEF ActiveOK
  <2>3. TaskOK([thread[h] EXCEPT !.todo = Tail(@)])
    BY Done1 DEF Insert
  <2> QED BY <1>3, <2>1, <2>2, <2>3, Tables, Moves DEF Insert, Done, Proceed
<1>4. CASE ~Here(thread[h].k)
  BY <1>4, EndKeeps DEF Insert
<1> QED BY <1>3, <1>4

\* A request that has read the documents.
LEMMA DocsRead ==
  ASSUME NEW w, TaskOK(w), w.op \in Naming, NEW docs \in SUBSET Docs
  PROVE  TaskOK([w EXCEPT !.docs = docs])
<1> DEFINE v == [w EXCEPT !.docs = docs]
<1>1. w \in Tasks
  BY DEF TaskOK
<1>2. /\ v \in Tasks /\ v.todo = w.todo /\ v.op = w.op /\ v.k = w.k /\ v.d = w.d
      /\ v.docs = docs /\ v.method = w.method /\ v.store = w.store /\ v.kbs = w.kbs
      /\ v.torn = w.torn /\ v.embedded = w.embedded /\ v.near = w.near
      /\ v.match = w.match /\ v.seen = w.seen
  BY <1>1 DEF Tasks
<1> HIDE DEF v
<1>3. Steps(v) /\ Embedding(v) /\ Placing(v) /\ Chatting(v) /\ Fusing(v)
  BY <1>2 DEF TaskOK, Steps, Embedding, Placing, Chatting, Fusing
<1>4. Binding(v)
  BY <1>2 DEF Binding, Naming
<1> QED BY <1>2, <1>3, <1>4 DEF TaskOK, v

LEMMA ListKeeps ==
  ASSUME IInv, NEW h \in Handlers, List(h)
  PROVE  IInv'
<1> DEFINE w == [thread[h] EXCEPT !.todo = Tail(@)]
           docs == kb[thread[h].k].docs
           v == [[thread[h] EXCEPT !.docs = docs] EXCEPT !.todo = Tail(@)]
<1>1. /\ thread[h] \in Tasks /\ thread[h].op \in Naming /\ docs \in SUBSET Docs
      /\ w.op = thread[h].op
  BY StepFacts, Tables DEF List, KbOK, Tasks
<1>2. TaskOK(w)
  BY Done1 DEF List
<1>3. TaskOK([w EXCEPT !.docs = docs])
  <2> HIDE DEF w, docs
  <2> QED BY <1>1, <1>2, DocsRead
<1>4. v = [w EXCEPT !.docs = docs]
  BY <1>1 DEF Tasks
<1>5. thread' = [thread EXCEPT ![h] = v] /\ UNCHANGED <<index, scene, kb, active, answer>>
  BY DEF List, Proceed
<1> HIDE DEF v, w, docs
<1> QED BY <1>3, <1>4, <1>5, Reads

\* A request of the administration goes on with other steps, none of which puts.
LEMMA OtherSteps ==
  ASSUME NEW w, TaskOK(w), w.op \in {"rebuild", "drop"},
         NEW todo \in Seq(StepsOf(w.op)), Paired(todo), ~Has(todo, "put")
  PROVE  TaskOK([w EXCEPT !.todo = todo])
<1> DEFINE v == [w EXCEPT !.todo = todo]
<1>1. w \in Tasks
  BY DEF TaskOK
<1>2. todo \in Seq(StepNames)
  BY DEF StepNames, Naming
<1>3. /\ v \in Tasks /\ v.todo = todo /\ v.op = w.op /\ v.k = w.k /\ v.d = w.d
      /\ v.docs = w.docs
  BY <1>1, <1>2 DEF Tasks
<1> HIDE DEF v
<1>4. Steps(v)
  BY <1>3 DEF TaskOK, Steps, Naming
<1>5. Embedding(v)
  BY <1>3 DEF Embedding, Has, Before
<1>6. Placing(v) /\ Chatting(v) /\ Binding(v) /\ Fusing(v)
  BY <1>3 DEF TaskOK, Placing, Chatting, Binding, Fusing
<1> QED BY <1>3, <1>4, <1>5, <1>6 DEF TaskOK, v

LEMMA IndexingEach ==
  Indexing \o <<"each">> = <<"look", "make", "embed", "look", "make", "put", "each">>
<1> DEFINE r == <<"look", "make", "embed", "look", "make", "put", "each">>
           b == <<"each">>
           T == StepsOf("rebuild")
<1>1. Indexing \in Seq(T) /\ b \in Seq(T) /\ r \in Seq(T)
  BY DEF Indexing, StepsOf
<1>2. /\ Len(r) = Len(Indexing) + Len(b)
      /\ \A i \in 1..Len(Indexing) : r[i] = Indexing[i]
      /\ \A i \in 1..Len(b) : r[Len(Indexing) + i] = b[i]
  BY DEF Indexing
<1> HIDE DEF r, b, T
<1>3. Indexing \o b = r
  BY <1>1, <1>2, Concats
<1> QED BY <1>3 DEF r, b

LEMMA EachKeeps ==
  ASSUME IInv, NEW h \in Handlers, Each(h)
  PROVE  IInv'
<1> DEFINE t == thread[h]
<1>1. /\ TaskOK(t) /\ t \in Tasks /\ t.op = "rebuild" /\ t.k \in KnowledgeBases
      /\ t.docs \subseteq Docs
  <2>1. /\ TaskOK(t) /\ t \in Tasks /\ "each" \in StepsOf(t.op) /\ t.op \in Naming
        /\ t.k \in KnowledgeBases /\ t.docs \subseteq Docs
    BY StepFacts DEF Each
  <2> QED BY <2>1 DEF StepsOf, Naming
<1>2. CASE t.docs = {}
  <2> DEFINE todo == <<"settle">>
  <2>1. todo \in Seq(StepsOf("rebuild")) /\ Paired(todo) /\ ~Has(todo, "put")
    BY DEF StepsOf, Paired, Has
  <2>2. thread' = [thread EXCEPT ![h] = [t EXCEPT !.todo = todo]]
    BY <1>2 DEF Each, GoOn
  <2>3. UNCHANGED <<index, scene, kb, active, answer>>
    BY DEF Each
  <2> HIDE DEF t, todo
  <2>4. TaskOK([t EXCEPT !.todo = todo])
    BY <1>1, <2>1, OtherSteps
  <2> QED BY <2>2, <2>3, <2>4, Reads
<1>3. CASE t.docs # {}
  <2> DEFINE todo == Indexing \o <<"each">>
             next(d) == [t EXCEPT !.d = d, !.docs = @ \ {d}, !.embedded = None, !.todo = todo]
  <2>1. PICK d \in t.docs : thread' = [thread EXCEPT ![h] = next(d)]
    BY <1>3 DEF Each
  <2>2. UNCHANGED <<index, scene, kb, active, answer>>
    BY DEF Each
  <2>3. todo \in Seq(StepsOf("rebuild")) /\ Paired(todo) /\ Before(todo, "embed", "put")
    <3> DEFINE r == <<"look", "make", "embed", "look", "make", "put", "each">>
    <3>1. todo = r
      BY IndexingEach
    <3>2. r \in Seq(StepsOf("rebuild")) /\ Paired(r)
      BY Programs, PairedPrograms
    <3>3. Before(r, "embed", "put")
      BY DEF Before
    <3> HIDE DEF r, todo
    <3> QED BY <3>1, <3>2, <3>3
  <2> HIDE DEF todo
  <2>4. todo \in Seq(StepNames)
    BY <2>3 DEF StepNames, Naming
  <2> DEFINE v == next(d)
  <2>5. /\ v \in Tasks /\ v.todo = todo /\ v.op = "rebuild" /\ v.k = t.k /\ v.d = d
        /\ v.docs \subseteq Docs /\ d \in Docs
    BY <1>1, <2>1, <2>4 DEF Tasks
  <2> HIDE DEF v
  <2>6. TaskOK(v)
    BY <1>1, <2>3, <2>5
       DEF TaskOK, Steps, Embedding, Placing, Chatting, Binding, Fusing, Naming
  <2> QED BY <2>1, <2>2, <2>6, Reads DEF v
<1> QED BY <1>2, <1>3

LEMMA LookKeeps ==
  ASSUME IInv, NEW h \in Handlers, Look(h)
  PROVE  IInv'
<1> DEFINE t == thread[h]
           v == [t EXCEPT !.todo = Tail(@)]
           z == [v EXCEPT !.todo = Tail(@)]
<1>1. /\ t \in Tasks /\ t.op \in Naming /\ Steps(t) /\ t.todo # << >>
      /\ Head(t.todo) = "look"
  BY StepFacts DEF Look
<1>2. /\ v.todo = Tail(t.todo) /\ v.op = t.op
  BY <1>1 DEF Tasks
<1>3. v.todo # << >> /\ Head(v.todo) = "make"
  BY <1>1, <1>2, TailFacts DEF Steps
<1>4. TaskOK(v)
  BY Done1 DEF Look
<1>5. TaskOK(z)
  <2> HIDE DEF v
  <2> QED BY <1>1, <1>2, <1>3, <1>4, Behind
<1>6. UNCHANGED <<index, scene, active, answer>>
  BY DEF Look
<1>7. CASE GoOn(h, Tail(Rest(h))) /\ UNCHANGED kb
  <2>1. thread' = [thread EXCEPT ![h] = [t EXCEPT !.todo = Tail(Tail(t.todo))]]
    BY <1>7 DEF GoOn, Rest
  <2>2. [t EXCEPT !.todo = Tail(Tail(t.todo))] = z
    BY <1>1 DEF Tasks
  <2> HIDE DEF z
  <2> QED BY <1>5, <1>6, <1>7, <2>1, <2>2, Reads
<1>8. CASE Done(h) /\ UNCHANGED kb
  BY <1>6, <1>8, DoneKeeps DEF Look
<1>9. CASE Fails(h)
  BY <1>6, <1>9, Tables, FailKeeps DEF Look, Fails
<1> QED BY <1>7, <1>8, <1>9 DEF Look, Told

LEMMA MakeKeeps ==
  ASSUME IInv, NEW h \in Handlers, Make(h)
  PROVE  IInv'
<1>1. At(h, "make") /\ UNCHANGED <<scene, active, answer>>
  BY DEF Make
<1>2. CASE /\ CreateIndex(StoreOf(thread[h]), IndexNamed(thread[h]), SizeOf(thread[h]))
           /\ ToldOrLost(h)
  <2>1. IndexOK(index')
    BY <1>2, Tables, IndexCreated
  <2> QED BY <1>1, <1>2, <2>1, ToldKeeps
<1>3. CASE Fail(h) /\ UNCHANGED index
  BY <1>1, <1>3, Tables, FailKeeps
<1> QED BY <1>2, <1>3 DEF Make, Fails

LEMMA WipeKeeps ==
  ASSUME IInv, NEW h \in Handlers, Wipe(h)
  PROVE  IInv'
<1>1. At(h, "wipe") /\ UNCHANGED <<scene, active, answer>>
  BY DEF Wipe
<1>2. CASE DropIndex(StoreOf(thread[h]), IndexNamed(thread[h])) /\ ToldOrLost(h)
  <2>1. IndexOK(index')
    BY <1>2, Tables, IndexDropped
  <2> QED BY <1>1, <1>2, <2>1, ToldKeeps
<1>3. CASE Fail(h) /\ UNCHANGED index
  BY <1>1, <1>3, Tables, FailKeeps
<1> QED BY <1>2, <1>3 DEF Wipe, Fails

\* A text is embedded with the model of the knowledge base.
LEMMA EmbedKeeps ==
  ASSUME IInv, NEW h \in Handlers, Embed(h)
  PROVE  IInv'
<1> DEFINE t == thread[h]
           model == EmbeddingModel(t)
           v == [[t EXCEPT !.embedded = model] EXCEPT !.todo = Tail(@)]
<1>1. /\ t \in Tasks /\ t.op \in Naming /\ Steps(t) /\ t.todo # << >> /\ TaskOK(t)
      /\ Head(t.todo) = "embed" /\ t.k \in KnowledgeBases /\ Tail(t.todo) \in Seq(StepNames)
  BY StepFacts DEF Embed
<1>2. UNCHANGED <<index, scene, active, answer>>
  BY DEF Embed
<1>3. CASE thread' = [thread EXCEPT ![h] = v] /\ UNCHANGED kb
  <2>1. model \in Models \cup {None}
    BY <1>1, Tables, SceneFacts DEF EmbeddingModel, ActiveOK
  <2>2. t.op \in {"ingest", "rebuild", "query", "tool"} => model = Target(t.k)
    BY DEF EmbeddingModel
  <2> HIDE DEF model
  <2>3. /\ v \in Tasks /\ v.todo = Tail(t.todo) /\ v.op = t.op /\ v.k = t.k /\ v.d = t.d
        /\ v.docs = t.docs /\ v.method = t.method /\ v.store = t.store /\ v.kbs = t.kbs
        /\ v.torn = t.torn /\ v.embedded = model /\ v.near = t.near
        /\ v.match = t.match /\ v.seen = t.seen
    BY <1>1, <2>1 DEF Tasks
  <2> HIDE DEF v, t
  <2>4. Embedding(v)
    BY <2>2, <2>3 DEF Embedding
  <2>5. Steps(v) /\ Placing(v) /\ Chatting(v) /\ Fusing(v)
    BY <1>1, <2>3, StepsStay, PlacingStays, ChattingStays, FusingStays DEF TaskOK
  <2>6. Binding(v)
    BY <1>1, <2>3 DEF TaskOK, Binding, Naming
  <2>7. TaskOK(v)
    BY <2>3, <2>4, <2>5, <2>6 DEF TaskOK
  <2> QED BY <1>2, <1>3, <2>7, Reads
<1>4. CASE Fails(h)
  BY <1>2, <1>4, Tables, FailKeeps DEF Embed, Fails
<1> QED BY <1>3, <1>4 DEF Embed, Proceed

\* What is put is a chunk embedded with its knowledge base's model.
LEMMA PutKeeps ==
  ASSUME IInv, NEW h \in Handlers, Put(h)
  PROVE  IInv'
<1> DEFINE t == thread[h]
<1>1. At(h, "put") /\ UNCHANGED <<scene, active, answer>>
  BY DEF Put
<1>2. CASE UpsertPoint(StoreOf(t), IndexNamed(t), PointOf(t)) /\ ToldOrLost(h)
  <2>1. /\ t \in Tasks /\ t.op \in {"ingest", "rebuild", "upload"} /\ Steps(t)
        /\ t.todo # << >> /\ TaskOK(t) /\ Head(t.todo) = "put" /\ t.k \in KnowledgeBases
    <3>1. /\ t \in Tasks /\ t.op \in Naming /\ "put" \in StepsOf(t.op) /\ Steps(t)
          /\ t.todo # << >> /\ TaskOK(t) /\ Head(t.todo) = "put" /\ t.k \in KnowledgeBases
      BY <1>1, StepFacts
    <3> QED BY <3>1 DEF StepsOf, Naming
  <2>2. ~Before(t.todo, "embed", "put") /\ Has(t.todo, "put")
    <3>1. t.todo \in Seq(StepsOf(t.op))
      BY <2>1 DEF Steps
    <3> DEFINE todo == t.todo
    <3> HIDE DEF t, todo
    <3>2. Has(todo, "put")
      <4>1. todo \in Seq(StepsOf(t.op)) /\ todo # << >> /\ Head(todo) = "put"
        BY <2>1, <3>1 DEF todo
      <4>2. 1 \in 1..Len(todo) /\ todo[1] = "put"
        BY <4>1
      <4> QED BY <4>2 DEF Has
    <3>3. ~Before(todo, "embed", "put")
      <4> DEFINE T == StepsOf(t.op)
      <4>1. todo \in Seq(T) /\ todo # << >> /\ Head(todo) = "put"
        BY <2>1, <3>1 DEF todo
      <4> HIDE DEF T
      <4>2. \A x : ~Before(todo, x, Head(todo))
        BY <4>1, TailFacts
      <4> QED BY <4>1, <4>2
    <3> QED BY <3>2, <3>3 DEF todo
  <2>3. t.d \in Docs
    BY <2>1, <2>2 DEF Steps
  <2>4. t.op # "upload" => t.embedded = Target(t.k)
    BY <2>1, <2>2 DEF TaskOK, Embedding
  <2>5. t.embedded \in Models \cup {None}
    BY <2>1 DEF Tasks
  <2>6. PointOf(t) \in Chunks
    <3>1. CASE t.op = "upload"
      BY <2>3, <2>5, <3>1, RetrievalAssumption DEF PointOf, Chunks
    <3>2. CASE t.op # "upload"
      BY <2>1, <2>3, <2>4, <2>5, <3>2 DEF PointOf, Chunks
    <3> QED BY <3>1, <3>2
  <2>7. IndexOK(index')
    BY <1>2, <2>6, Tables, PointUpserted
  <2> QED BY <1>1, <1>2, <2>7, ToldKeeps
<1>3. CASE Fail(h) /\ UNCHANGED index
  BY <1>1, <1>3, Tables, FailKeeps
<1> QED BY <1>2, <1>3 DEF Put, Fails

LEMMA SettleKeeps ==
  ASSUME IInv, NEW h \in Handlers, Settle(h)
  PROVE  IInv'
<1>1. thread[h].k \in KnowledgeBases /\ kb[thread[h].k].docs \in SUBSET Docs
  BY StepFacts, Tables DEF Settle, KbOK
<1>2. KbOK(kb') /\ ActiveOK(active, kb')
  BY <1>1, SetKbOK DEF Settle, Statuses
<1> QED BY <1>2, Tables, UnusedOK, Moves DEF Settle, End

LEMMA CountKeeps ==
  ASSUME IInv, NEW h \in Handlers, Count(h)
  PROVE  IInv'
  BY EndKeeps, DoneKeeps DEF Count

LEMMA PurgeKeeps ==
  ASSUME IInv, NEW h \in Handlers, Purge(h)
  PROVE  IInv'
<1> DEFINE t == thread[h]
           i == IndexOf(Store(t.k), Name(t.k))
<1>1. At(h, "purge") /\ UNCHANGED <<scene, active, answer>>
  BY DEF Purge
<1>2. /\ t \in Tasks /\ t.op = "drop" /\ TaskOK(t) /\ t.k \in KnowledgeBases
      /\ t.docs \subseteq Docs /\ Store(t.k) \in Stores
  <2>1. /\ t \in Tasks /\ t.op \in Naming /\ "purge" \in StepsOf(t.op) /\ TaskOK(t)
        /\ t.k \in KnowledgeBases /\ t.docs \subseteq Docs
    BY <1>1, StepFacts
  <2>2. Store(t.k) \in Stores
    BY <2>1, Tables, SceneFacts
  <2> QED BY <2>1, <2>2 DEF StepsOf, Naming
<1>3. CASE GoOn(h, <<"remove">>) /\ UNCHANGED <<index, kb>>
  <2> DEFINE todo == <<"remove">>
  <2>1. todo \in Seq(StepsOf("drop")) /\ Paired(todo) /\ ~Has(todo, "put")
    BY DEF StepsOf, Paired, Has
  <2>2. thread' = [thread EXCEPT ![h] = [t EXCEPT !.todo = todo]]
    BY <1>3 DEF GoOn
  <2> HIDE DEF t, todo
  <2>3. TaskOK([t EXCEPT !.todo = todo])
    BY <1>2, <2>1, OtherSteps
  <2> QED BY <1>1, <1>3, <2>2, <2>3, Reads
<1>4. CASE Fail(h) /\ UNCHANGED index
  BY <1>1, <1>4, Tables, FailKeeps
<1>5. CASE \E d \in t.docs : DeletePoint(Store(t.k), i, t.k, d) /\ Fails(h)
  <2>1. IndexOK(index')
    BY <1>2, <1>5, Tables, PointDeleted
  <2> QED BY <1>1, <1>5, <2>1, FailKeeps DEF Fails
<1>6. CASE \E d \in t.docs : /\ DeletePoint(Store(t.k), i, t.k, d)
                             /\ thread' = [thread EXCEPT ![h].docs = @ \ {d}]
                             /\ UNCHANGED kb
  <2>1. PICK d \in t.docs : /\ DeletePoint(Store(t.k), i, t.k, d)
                            /\ thread' = [thread EXCEPT ![h].docs = @ \ {d}]
                            /\ UNCHANGED kb
    BY <1>6
  <2>2. IndexOK(index')
    BY <1>2, <2>1, Tables, PointDeleted
  <2> DEFINE docs == t.docs \ {d}
  <2>3. thread' = [thread EXCEPT ![h] = [t EXCEPT !.docs = docs]]
    BY <2>1
  <2>4. docs \in SUBSET Docs /\ t.op \in Naming
    BY <1>2 DEF Naming
  <2> HIDE DEF docs, t
  <2>5. TaskOK([t EXCEPT !.docs = docs])
    BY <1>2, <2>4, DocsRead
  <2> QED BY <1>1, <2>1, <2>2, <2>3, <2>5, Tables, Moves
<1> QED BY <1>3, <1>4, <1>5, <1>6 DEF Purge, Fails

\* What the active deployment is bound to stays.
LEMMA RemoveRowKeeps ==
  ASSUME IInv, NEW h \in Handlers, RemoveRow(h)
  PROVE  IInv'
<1>1. UNCHANGED <<index, scene, active, answer>> /\ End(h)
  BY DEF RemoveRow
<1>2. CASE kb' = [kb EXCEPT ![thread[h].k] = [Absent EXCEPT !.state = "gone"]]
            /\ CanRemove(thread[h].k)
  <2>1. thread[h].k \in KnowledgeBases
    BY StepFacts DEF RemoveRow
  <2>2. KbOK(kb') /\ \A k \in KnowledgeBases : k # thread[h].k => kb'[k] = kb[k]
    BY <1>2, <2>1, Tables DEF KbOK, Absent, Statuses
  <2>3. ActiveOK(active, kb')
    BY <1>2, <2>2, Tables DEF ActiveOK, CanRemove
  <2> QED BY <1>1, <2>2, <2>3, Tables, UnusedOK, Moves DEF End
<1>3. CASE UNCHANGED kb
  BY <1>1, <1>3, EndKeeps
<1> QED BY <1>2, <1>3 DEF RemoveRow

LEMMA WriteArchivedKeeps ==
  ASSUME IInv, NEW h \in Handlers, WriteArchived(h)
  PROVE  IInv'
<1>1. UNCHANGED <<index, scene, active, answer>> /\ End(h)
  BY DEF WriteArchived
<1>2. thread[h].k \in KnowledgeBases /\ thread[h].status \in Statuses
  BY StepFacts DEF WriteArchived, Tasks
<1>3. KbOK(kb') /\ \A k \in KnowledgeBases : kb'[k].state = kb[k].state
  BY <1>2, Tables DEF WriteArchived, KbOK
<1>4. ActiveOK(active, kb')
  BY <1>3, Tables DEF ActiveOK
<1> QED BY <1>1, <1>3, <1>4, Tables, UnusedOK, Moves DEF End

\* Each knowledge base of a binding that is checked is in its store.
LEMMA CheckKeeps ==
  ASSUME IInv, NEW h \in Handlers, Check(h)
  PROVE  IInv'
<1> DEFINE t == thread[h]
<1>1. /\ TaskOK(t) /\ t \in Tasks /\ Steps(t) /\ t.todo # << >> /\ Head(t.todo) = "check"
  BY Tables DEF Check, At, Idle, TaskOK
<1>2. t.op = "bind"
  <2>1. "check" \in StepsOf(t.op)
    BY <1>1, TailFacts DEF Steps
  <2>2. t.op \in Naming \cup {"none", "bind"}
    BY <1>1 DEF Tasks
  <2> QED BY <2>1, <2>2 DEF StepsOf, Naming
<1>3. /\ t.docs \subseteq KnowledgeBases /\ t.store \in Stores /\ t.kbs \subseteq KnowledgeBases
      /\ t.todo = <<"check">> /\ \A k \in t.kbs \ t.docs : Store(k) = t.store
  BY <1>1, <1>2 DEF TaskOK, Binding, Tasks
<1>4. UNCHANGED <<index, scene, kb, active, answer>>
  BY DEF Check
<1>5. CASE End(h)
  BY <1>4, <1>5, EndKeeps
<1>6. CASE t.docs = {} /\ GoOn(h, <<"bind">>)
  <2> DEFINE v == [t EXCEPT !.todo = <<"bind">>]
  <2>1. <<"bind">> \in Seq(StepNames) /\ <<"bind">> \in Seq(StepsOf("bind")) /\ Paired(<<"bind">>)
    BY DEF StepNames, StepsOf, Paired
  <2>2. /\ v \in Tasks /\ v.todo = <<"bind">> /\ v.op = "bind" /\ v.docs = {}
        /\ v.store = t.store /\ v.kbs = t.kbs
    BY <1>1, <1>2, <1>6, <2>1 DEF Tasks
  <2>3. thread' = [thread EXCEPT ![h] = v]
    BY <1>6 DEF GoOn
  <2> HIDE DEF v
  <2>4. TaskOK(v)
    BY <1>3, <1>6, <2>1, <2>2
       DEF TaskOK, Steps, Embedding, Placing, Chatting, Binding, Fusing, Naming
  <2> QED BY <1>4, <2>3, <2>4, Reads
<1>7. CASE \E k \in t.docs : Fits(k, t.store) /\ thread' = [thread EXCEPT ![h].docs = @ \ {k}]
  <2>1. PICK k \in t.docs : Fits(k, t.store) /\ thread' = [thread EXCEPT ![h].docs = @ \ {k}]
    BY <1>7
  <2> DEFINE v == [t EXCEPT !.docs = @ \ {k}]
  <2>2. /\ v \in Tasks /\ v.todo = <<"check">> /\ v.op = "bind" /\ v.docs = t.docs \ {k}
        /\ v.store = t.store /\ v.kbs = t.kbs
    BY <1>1, <1>2, <1>3 DEF Tasks
  <2>3. thread' = [thread EXCEPT ![h] = v]
    BY <2>1
  <2>4. <<"check">> \in Seq(StepsOf("bind")) /\ Paired(<<"check">>)
    BY DEF StepsOf, Paired
  <2>5. Store(k) = t.store
    BY <2>1 DEF Fits
  <2> HIDE DEF v
  <2>6. Binding(v)
    BY <1>3, <2>2, <2>5 DEF Binding
  <2>7. TaskOK(v)
    BY <2>2, <2>4, <2>6 DEF TaskOK, Steps, Embedding, Placing, Chatting, Fusing, Naming
  <2> QED BY <1>4, <2>3, <2>7, Reads
<1> QED BY <1>5, <1>6, <1>7 DEF Check

\* A binding is written of knowledge bases of its store that are there.
LEMMA WriteBindingKeeps ==
  ASSUME IInv, NEW h \in Handlers, WriteBinding(h)
  PROVE  IInv'
<1> DEFINE t == thread[h]
<1>1. /\ TaskOK(t) /\ t \in Tasks /\ Steps(t) /\ t.todo # << >> /\ Head(t.todo) = "bind"
  BY Tables DEF WriteBinding, At, Idle, TaskOK
<1>2. t.op = "bind"
  <2>1. "bind" \in StepsOf(t.op)
    BY <1>1, TailFacts DEF Steps
  <2>2. t.op \in Naming \cup {"none", "bind"}
    BY <1>1 DEF Tasks
  <2> QED BY <2>1, <2>2 DEF StepsOf, Naming
<1>3. /\ t.docs = {} /\ t.store \in Stores /\ t.kbs \subseteq KnowledgeBases
      /\ \A k \in t.kbs : Store(k) = t.store
  <2>1. t.todo # <<"check">>
    BY <1>1
  <2> QED BY <1>1, <1>2, <2>1 DEF TaskOK, Binding, Tasks
<1>4. ActiveOK(active', kb)
  BY <1>3, Tables DEF WriteBinding, ActiveOK, Here
<1> QED BY <1>4, Tables, UnusedOK, Moves DEF WriteBinding, End

LEMMA LoadKeeps ==
  ASSUME IInv, NEW h \in Handlers, Load(h)
  PROVE  IInv'
  BY EndKeeps, DoneKeeps DEF Load, Refuse

LEMMA ProviderKeeps ==
  ASSUME IInv, NEW h \in Handlers, Provider(h)
  PROVE  IInv'
  BY EndKeeps, DoneKeeps DEF Provider, Refuse

LEMMA CompareKeeps ==
  ASSUME IInv, NEW h \in Handlers, Compare(h)
  PROVE  IInv'
  BY EndKeeps, DoneKeeps DEF Compare, Refuse

-----------------------------------------------------------------------------
(* Steps of those that read.                                               *)

LEMMA SnapModelKeeps ==
  ASSUME IInv, NEW h \in Handlers, SnapModel(h)
  PROVE  IInv'
<1> DEFINE t == thread[h]
           v == [[t EXCEPT !.model = active.model] EXCEPT !.todo = Tail(@)]
<1>1. /\ t \in Tasks /\ t.op \in Naming /\ Steps(t) /\ t.todo # << >> /\ TaskOK(t)
      /\ Head(t.todo) = "model" /\ Tail(t.todo) \in Seq(StepNames)
  BY StepFacts DEF SnapModel
<1>2. active.model \in Models
  BY Tables DEF ActiveOK
<1>3. UNCHANGED <<index, scene, kb, active, answer>> /\ thread' = [thread EXCEPT ![h] = v]
  BY DEF SnapModel, Proceed
<1>4. /\ v \in Tasks /\ v.todo = Tail(t.todo) /\ v.op = t.op /\ v.k = t.k /\ v.d = t.d
      /\ v.docs = t.docs /\ v.method = t.method /\ v.store = t.store /\ v.kbs = t.kbs
      /\ v.torn = t.torn /\ v.embedded = t.embedded /\ v.near = t.near
      /\ v.match = t.match /\ v.seen = t.seen
  BY <1>1, <1>2 DEF Tasks
<1> HIDE DEF v, t
<1>5. Steps(v) /\ Embedding(v) /\ Placing(v) /\ Chatting(v) /\ Fusing(v)
  BY <1>1, <1>4, StepsStay, EmbeddingStays, PlacingStays, ChattingStays, FusingStays
     DEF TaskOK
<1>6. Binding(v)
  BY <1>1, <1>4 DEF TaskOK, Binding, Naming
<1> QED BY <1>3, <1>4, <1>5, <1>6, Reads DEF TaskOK

\* The row tells the store; the resources are to be read anew.
LEMMA SnapRowKeeps ==
  ASSUME IInv, NEW h \in Handlers, SnapRow(h)
  PROVE  IInv'
<1> DEFINE t == thread[h]
           v == [[t EXCEPT !.store = active.store] EXCEPT !.todo = Tail(@)]
<1>1. /\ t \in Tasks /\ t.op \in Naming /\ Steps(t) /\ t.todo # << >> /\ TaskOK(t)
      /\ Head(t.todo) = "row" /\ Tail(t.todo) \in Seq(StepNames)
  BY StepFacts DEF SnapRow
<1>2. active.store \in Stores
  BY Tables DEF ActiveOK
<1>3. UNCHANGED <<index, scene, kb, active, answer>> /\ thread' = [thread EXCEPT ![h] = v]
  BY DEF SnapRow, Proceed
<1>4. /\ v \in Tasks /\ v.todo = Tail(t.todo) /\ v.op = t.op /\ v.k = t.k /\ v.d = t.d
      /\ v.docs = t.docs /\ v.method = t.method /\ v.store \in Stores /\ v.kbs = t.kbs
      /\ v.torn = t.torn /\ v.embedded = t.embedded /\ v.near = t.near
      /\ v.match = t.match /\ v.seen = t.seen
  BY <1>1, <1>2 DEF Tasks
<1> HIDE DEF v, t
<1>5. Steps(v) /\ Embedding(v) /\ Fusing(v)
  BY <1>1, <1>4, StepsStay, EmbeddingStays, FusingStays DEF TaskOK
<1>6. Binding(v) /\ Placing(v)
  BY <1>1, <1>4 DEF TaskOK, Binding, Naming, Placing
<1>7. Chatting(v)
  <2>1. t.op = "chat" => /\ Between(t.todo, "row", "resources", "answer")
                         /\ Between(t.todo, "resources", "find", "answer")
                         /\ Before(t.todo, "find", "answer") \/ t.k \in t.kbs
    BY <1>1 DEF TaskOK, Chatting
  <2>2. t.op = "chat" => /\ Between(v.todo, "row", "resources", "answer")
                         /\ Between(v.todo, "resources", "find", "answer")
                         /\ Before(v.todo, "resources", "answer")
                         /\ Before(v.todo, "find", "answer") \/ t.k \in t.kbs
    BY <1>1, <1>4, <2>1, TailFacts DEF Steps
  <2> QED BY <1>4, <2>2 DEF Chatting
<1> QED BY <1>3, <1>4, <1>5, <1>6, <1>7, Reads DEF TaskOK

\* The resources are in the store that is bound now.
LEMMA SnapResourcesKeeps ==
  ASSUME IInv, NEW h \in Handlers, SnapResources(h)
  PROVE  IInv'
<1> DEFINE t == thread[h]
           torn == active.store # t.store
           v == [[t EXCEPT !.kbs = active.kbs, !.torn = torn] EXCEPT !.todo = Tail(@)]
<1>1. /\ t \in Tasks /\ t.op \in Naming /\ Steps(t) /\ t.todo # << >> /\ TaskOK(t)
      /\ Head(t.todo) = "resources" /\ Tail(t.todo) \in Seq(StepNames)
  BY StepFacts DEF SnapResources
<1>2. /\ active.kbs \in SUBSET KnowledgeBases
      /\ \A k \in active.kbs : Store(k) = active.store
      /\ torn \in BOOLEAN /\ (~torn => active.store = t.store)
  BY Tables DEF ActiveOK
<1>3. UNCHANGED <<index, scene, kb, active, answer>> /\ thread' = [thread EXCEPT ![h] = v]
  BY DEF SnapResources, Proceed
<1> HIDE DEF torn
<1>4. /\ v \in Tasks /\ v.todo = Tail(t.todo) /\ v.op = t.op /\ v.k = t.k /\ v.d = t.d
      /\ v.docs = t.docs /\ v.method = t.method /\ v.store = t.store
      /\ v.kbs = active.kbs /\ v.torn = torn
      /\ v.embedded = t.embedded /\ v.near = t.near
      /\ v.match = t.match /\ v.seen = t.seen
  BY <1>1, <1>2 DEF Tasks
<1> HIDE DEF v, t
<1>5. Steps(v) /\ Embedding(v) /\ Placing(v) /\ Fusing(v)
  BY <1>1, <1>4, StepsStay, EmbeddingStays, PlacingStays, FusingStays DEF TaskOK
<1>6. Binding(v)
  BY <1>1, <1>4 DEF TaskOK, Binding, Naming
<1>7. Chatting(v)
  <2>1. t.op = "chat" => /\ Between(t.todo, "row", "resources", "answer")
                         /\ Between(t.todo, "resources", "find", "answer")
    BY <1>1 DEF TaskOK, Chatting
  <2>2. t.op = "chat" => /\ Between(v.todo, "row", "resources", "answer")
                         /\ Between(v.todo, "resources", "find", "answer")
                         /\ Before(v.todo, "find", "answer")
    BY <1>1, <1>4, <2>1, TailFacts DEF Steps
  <2>3. v.torn \/ \A k \in v.kbs : Store(k) = v.store
    BY <1>2, <1>4
  <2> QED BY <1>4, <2>2, <2>3 DEF Chatting
<1> QED BY <1>3, <1>4, <1>5, <1>6, <1>7, Reads DEF TaskOK

LEMMA FindKeeps ==
  ASSUME IInv, NEW h \in Handlers, Find(h)
  PROVE  IInv'
<1> DEFINE t == thread[h]
           v == [t EXCEPT !.todo = Tail(@)]
<1>1. /\ t \in Tasks /\ t.op \in Naming /\ Steps(t) /\ t.todo # << >> /\ TaskOK(t)
      /\ Head(t.todo) = "find" /\ Tail(t.todo) \in Seq(StepNames)
  BY StepFacts DEF Find
<1>2. UNCHANGED <<index, scene, kb, active, answer>>
  BY DEF Find
<1>3. CASE End(h)
  BY <1>2, <1>3, EndKeeps
<1>4. CASE t.k \in t.kbs /\ thread' = [thread EXCEPT ![h] = v]
  <2>1. /\ v \in Tasks /\ v.todo = Tail(t.todo) /\ v.op = t.op /\ v.k = t.k /\ v.d = t.d
        /\ v.docs = t.docs /\ v.method = t.method /\ v.store = t.store /\ v.kbs = t.kbs
        /\ v.torn = t.torn /\ v.embedded = t.embedded /\ v.near = t.near
        /\ v.match = t.match /\ v.seen = t.seen
    BY <1>1 DEF Tasks
  <2> HIDE DEF v, t
  <2>2. Steps(v) /\ Embedding(v) /\ Placing(v) /\ Fusing(v)
    BY <1>1, <2>1, StepsStay, EmbeddingStays, PlacingStays, FusingStays DEF TaskOK
  <2>3. Binding(v)
    BY <1>1, <2>1 DEF TaskOK, Binding, Naming
  <2>4. Chatting(v)
    <3>1. t.op = "chat" => /\ Between(t.todo, "row", "resources", "answer")
                           /\ Between(t.todo, "resources", "find", "answer")
                           /\ \/ Before(t.todo, "resources", "answer")
                              \/ t.torn
                              \/ \A k \in t.kbs : Store(k) = t.store
      BY <1>1 DEF TaskOK, Chatting
    <3>2. t.op = "chat" => /\ Between(v.todo, "row", "resources", "answer")
                           /\ Between(v.todo, "resources", "find", "answer")
                           /\ \/ Before(v.todo, "resources", "answer")
                              \/ t.torn
                              \/ \A k \in t.kbs : Store(k) = t.store
      BY <1>1, <2>1, <3>1, TailFacts DEF Steps
    <3> QED BY <1>4, <2>1, <3>2 DEF Chatting
  <2> QED BY <1>2, <1>4, <2>1, <2>2, <2>3, <2>4, Reads DEF TaskOK
<1> QED BY <1>3, <1>4 DEF Find, Done, Proceed, Refuse

LEMMA AllowKeeps ==
  ASSUME IInv, NEW h \in Handlers, Allow(h)
  PROVE  IInv'
  BY EndKeeps, DoneKeeps DEF Allow, Refuse

\* The engine embeds with what it was told.
LEMMA EngineEmbedKeeps ==
  ASSUME IInv, NEW h \in Handlers, EngineEmbed(h)
  PROVE  IInv'
<1> DEFINE t == thread[h]
           v == [[t EXCEPT !.embedded = EngineModel(t)] EXCEPT !.todo = Tail(@)]
<1>1. /\ t \in Tasks /\ t.op = "chat" /\ Steps(t) /\ t.todo # << >> /\ TaskOK(t)
      /\ Head(t.todo) = "engine_embed" /\ Tail(t.todo) \in Seq(StepNames)
      /\ t.docs \subseteq Docs
  <2>1. /\ t \in Tasks /\ t.op \in Naming /\ "engine_embed" \in StepsOf(t.op) /\ Steps(t)
        /\ t.todo # << >> /\ TaskOK(t) /\ t.docs \subseteq Docs
        /\ Head(t.todo) = "engine_embed" /\ Tail(t.todo) \in Seq(StepNames)
    BY StepFacts DEF EngineEmbed
  <2> QED BY <2>1 DEF StepsOf, Naming
<1>2. UNCHANGED <<index, scene, active, answer>>
  BY DEF EngineEmbed
<1>3. CASE thread' = [thread EXCEPT ![h] = v] /\ UNCHANGED kb
  <2>1. /\ v \in Tasks /\ v.todo = Tail(t.todo) /\ v.op = t.op /\ v.k = t.k /\ v.d = t.d
        /\ v.docs = t.docs /\ v.method = t.method /\ v.store = t.store /\ v.kbs = t.kbs
        /\ v.torn = t.torn /\ v.near = t.near
        /\ v.match = t.match /\ v.seen = t.seen
    BY <1>1 DEF Tasks, EngineModel
  <2> HIDE DEF v, t
  <2>2. Steps(v) /\ Placing(v) /\ Chatting(v) /\ Fusing(v)
    BY <1>1, <2>1, StepsStay, PlacingStays, ChattingStays, FusingStays DEF TaskOK
  <2>3. Binding(v) /\ Embedding(v)
    BY <1>1, <2>1 DEF Binding, Embedding
  <2> QED BY <1>2, <1>3, <2>1, <2>2, <2>3, Reads DEF TaskOK
<1>4. CASE Fails(h)
  BY <1>2, <1>4, Tables, FailKeeps DEF EngineEmbed, Fails
<1> QED BY <1>3, <1>4 DEF EngineEmbed, Proceed

\* A search looks for some rows.
LEMMA LimitType ==
  ASSUME NEW t \in Tasks
  PROVE  Limit(t) \in Nat
<1>1. t.top \in Nat /\ OverfetchFactor \in Nat /\ BranchFloor \in Nat /\ BranchCap \in Nat
  BY RankingAssumption DEF Tasks
<1>2. t.top * OverfetchFactor \in Nat
  <2> \A m, n \in Nat : m * n \in Nat
    OBVIOUS
  <2> QED BY <1>1
<1> QED BY <1>1, <1>2 DEF Limit, BranchTopK, Least, Largest

\* What is known of the scores of chunks.
LEMMA ChunkScores ==
  ASSUME IInv, NEW p \in Chunks
  PROVE  /\ p.doc \in Docs /\ scene.sem[p.doc] \in Int /\ scene.kw[p.doc] \in Nat
         /\ Sem[p] = scene.sem[p.doc]
         /\ \A s : /\ Text(s)[p] = IF s \in Weaviate THEN scene.kw[p.doc]
                                   ELSE IF scene.kw[p.doc] > 0 THEN One ELSE 0
                   /\ Text(s)[p] \in Nat
  BY Tables, SceneFacts DEF Chunks, Sem, Text, One

\* The store a search asks.
LEMMA PlaceFacts ==
  ASSUME IInv, NEW h \in Handlers, NEW x \in {"near", "match", "engine_near", "answer"},
         At(h, x)
  PROVE  StoreOf(thread[h]) \in Stores
<1> DEFINE t == thread[h]
<1>1. /\ t \in Tasks /\ Steps(t) /\ t.todo # << >> /\ TaskOK(t) /\ Head(t.todo) = x
      /\ t.op \in Naming /\ t.k \in KnowledgeBases /\ x \in StepsOf(t.op)
  BY StepFacts
<1>2. CASE t.op \in {"chat", "ask", "upload"}
  <2>1. x # "match"
    BY <1>1, <1>2 DEF StepsOf
  <2>2. ~Before(t.todo, "row", x)
    <3> HIDE DEF t
    <3>1. t.todo \in Seq(StepsOf(t.op))
      BY <1>1 DEF Steps
    <3> QED BY <1>1, <3>1, TailFacts
  <2>3. t.store \in Stores
    BY <1>1, <1>2, <2>1, <2>2 DEF TaskOK, Placing
  <2> QED BY <1>2, <2>3 DEF StoreOf
<1>3. CASE t.op \notin {"chat", "ask", "upload"}
  <2>1. Store(t.k) \in Stores
    BY <1>1, Tables, SceneFacts
  <2> QED BY <1>3, <2>1 DEF StoreOf
<1> QED BY <1>2, <1>3

\* Fewer chunks are listed as well.
LEMMA ListsLess ==
  ASSUME NEW rows, NEW value, NEW P, NEW Q \in SUBSET P, Lists(rows, value, P)
  PROVE  Lists(rows, value, Q)
  BY DEF Lists

LEMMA SearchNearKeeps ==
  ASSUME IInv, NEW h \in Handlers, SearchNear(h)
  PROVE  IInv'
<1> DEFINE t == thread[h]
           s == StoreOf(t)
           i == IndexNamed(t)
           points == Points(s, i)
<1>1. /\ t \in Tasks /\ t.op \in Naming /\ Steps(t) /\ t.todo # << >> /\ TaskOK(t)
      /\ Head(t.todo) = "near" /\ Tail(t.todo) \in Seq(StepNames)
  BY StepFacts DEF SearchNear
<1>2. UNCHANGED <<index, scene, active, answer>>
  BY DEF SearchNear
<1>3. s \in Stores /\ points \in SUBSET Chunks /\ IsFiniteSet(points)
  BY PlaceFacts, Tables, PointsFacts DEF SearchNear
<1>4. CASE Fails(h)
  BY <1>2, <1>4, Tables, FailKeeps DEF SearchNear, Fails
<1>5. CASE Refuse(h) /\ UNCHANGED kb
  BY <1>2, <1>5, EndKeeps DEF Refuse
<1>6. CASE /\ \E rows \in Near(s, i, scene.sem, Limit(t)) :
                Proceed(h, [t EXCEPT !.near = Ranked(rows, "semantic"), !.seen = points])
           /\ UNCHANGED kb
  <2>1. PICK rows \in Near(s, i, scene.sem, Limit(t)) :
          Proceed(h, [t EXCEPT !.near = Ranked(rows, "semantic"), !.seen = points])
    BY <1>6
  <2> DEFINE near == Ranked(rows, "semantic")
             v == [[t EXCEPT !.near = near, !.seen = points] EXCEPT !.todo = Tail(@)]
  <2>2. thread' = [thread EXCEPT ![h] = v]
    BY <2>1 DEF Proceed
  <2>3. rows \in IF s \in Weaviate THEN WeaviateNear(points, scene.sem, Limit(t))
                 ELSE QdrantNear(points, scene.sem, Limit(t))
    BY <2>1 DEF Near
  <2> HIDE DEF points, s, t
  <2>4. rows \in Seq(RowsOn(points)) /\ Lists(near, Sem, points)
    <3>1. Limit(t) \in Nat
      BY <1>1, LimitType
    <3>2. \A p \in points : scene.sem[p.doc] \in Int /\ Sem[p] = scene.sem[p.doc]
      BY <1>3, ChunkScores
    <3> QED BY <1>3, <2>3, <3>1, <3>2, NearLists
  <2>5. near \in ChunkRows
    <3>1. near \in Seq(RowsOn(points))
      BY <2>4, RankedType
    <3>2. RowsOn(points) \subseteq RowsOn(Chunks)
      BY <1>3 DEF RowsOn
    <3> HIDE DEF near
    <3> QED BY <3>1, <3>2 DEF ChunkRows
  <2> HIDE DEF near
  <2>6. /\ v \in Tasks /\ v.todo = Tail(t.todo) /\ v.op = t.op /\ v.k = t.k /\ v.d = t.d
        /\ v.docs = t.docs /\ v.method = t.method /\ v.store = t.store /\ v.kbs = t.kbs
        /\ v.torn = t.torn /\ v.embedded = t.embedded /\ v.near = near
        /\ v.match = t.match /\ v.seen = points
    BY <1>1, <1>3, <2>5 DEF Tasks
  <2> HIDE DEF v
  <2>7. Steps(v) /\ Embedding(v) /\ Placing(v) /\ Chatting(v)
    BY <1>1, <2>6, StepsStay, EmbeddingStays, PlacingStays, ChattingStays DEF TaskOK
  <2>8. Binding(v)
    BY <1>1, <2>6 DEF TaskOK, Binding, Naming
  <2>9. Fusing(v)
    <3>1. t.op = "query" /\ t.method = "hybrid" => Between(t.todo, "near", "match", "answer")
      BY <1>1 DEF TaskOK, Fusing
    <3>2. t.op = "query" /\ t.method = "hybrid" =>
            Between(v.todo, "near", "match", "answer") /\ Before(v.todo, "match", "answer")
      BY <1>1, <2>6, <3>1, TailFacts DEF Steps
    <3> QED BY <2>4, <2>6, <3>2 DEF Fusing
  <2> QED BY <1>2, <1>6, <2>2, <2>6, <2>7, <2>8, <2>9, Reads DEF TaskOK
<1> QED BY <1>4, <1>5, <1>6 DEF SearchNear

LEMMA SearchTextKeeps ==
  ASSUME IInv, NEW h \in Handlers, SearchText(h)
  PROVE  IInv'
<1> DEFINE t == thread[h]
           s == StoreOf(t)
           i == IndexNamed(t)
           points == Points(s, i)
<1>1. /\ t \in Tasks /\ t.op = "query" /\ Steps(t) /\ t.todo # << >> /\ TaskOK(t)
      /\ Head(t.todo) = "match" /\ Tail(t.todo) \in Seq(StepNames) /\ t.docs \subseteq Docs
  <2>1. /\ t \in Tasks /\ t.op \in Naming /\ Steps(t) /\ t.todo # << >> /\ TaskOK(t)
        /\ Head(t.todo) = "match" /\ Tail(t.todo) \in Seq(StepNames) /\ t.docs \subseteq Docs
        /\ "match" \in StepsOf(t.op)
    BY StepFacts DEF SearchText
  <2> QED BY <2>1 DEF StepsOf, Naming
<1>2. UNCHANGED <<index, scene, active, answer>>
  BY DEF SearchText
<1>3. s \in Stores /\ points \in SUBSET Chunks /\ IsFiniteSet(points) /\ s = Store(t.k)
  <2>1. s = Store(t.k)
    BY <1>1 DEF StoreOf
  <2> QED BY <2>1, PlaceFacts, Tables, PointsFacts DEF SearchText
<1>4. CASE Fails(h)
  BY <1>2, <1>4, Tables, FailKeeps DEF SearchText, Fails
<1>5. CASE Refuse(h) /\ UNCHANGED kb
  BY <1>2, <1>5, EndKeeps DEF Refuse
<1>6. CASE /\ \E rows \in Matches(s, i, scene.kw, Limit(t)) :
                Proceed(h, [t EXCEPT !.match = Ranked(rows, "keyword"),
                                     !.seen = @ \cap points])
           /\ UNCHANGED kb
  <2>1. PICK rows \in Matches(s, i, scene.kw, Limit(t)) :
          Proceed(h, [t EXCEPT !.match = Ranked(rows, "keyword"), !.seen = @ \cap points])
    BY <1>6
  <2> DEFINE match == Ranked(rows, "keyword")
             seen == t.seen \cap points
             text == Text(s)
             v == [[t EXCEPT !.match = match, !.seen = seen] EXCEPT !.todo = Tail(@)]
  <2>2. thread' = [thread EXCEPT ![h] = v]
    BY <1>1, <2>1 DEF Proceed, Tasks
  <2>3. rows \in IF s \in Weaviate THEN WeaviateMatches(points, scene.kw, Limit(t))
                 ELSE QdrantMatches(points, scene.kw, Limit(t))
    BY <2>1 DEF Matches
  <2> HIDE DEF points, s, t
  <2>4. rows \in Seq(RowsOn(points)) /\ Lists(match, text, {p \in points : text[p] > 0})
    <3>1. Limit(t) \in Nat
      BY <1>1, LimitType
    <3>2. \A p \in points : scene.kw[p.doc] \in Nat
      BY <1>3, ChunkScores
    <3>3. \A p \in points : text[p] = IF s \in Weaviate THEN scene.kw[p.doc]
                                     ELSE IF scene.kw[p.doc] > 0 THEN One ELSE 0
      BY <1>3, ChunkScores
    <3> DEFINE kw == scene.kw
               limit == Limit(t)
    <3>4. /\ rows \in IF s \in Weaviate THEN WeaviateMatches(points, kw, limit)
                      ELSE QdrantMatches(points, kw, limit)
          /\ limit \in Nat /\ \A p \in points : kw[p.doc] \in Nat
          /\ \A p \in points : text[p] = IF s \in Weaviate THEN kw[p.doc]
                                        ELSE IF kw[p.doc] > 0 THEN One ELSE 0
      BY <2>3, <3>1, <3>2, <3>3
    <3> HIDE DEF text, kw, limit
    <3> QED BY <1>3, <3>4, MatchesList
  <2>5. match \in ChunkRows
    <3>1. match \in Seq(RowsOn(points))
      BY <2>4, RankedType
    <3>2. RowsOn(points) \subseteq RowsOn(Chunks)
      BY <1>3 DEF RowsOn
    <3> HIDE DEF match
    <3> QED BY <3>1, <3>2 DEF ChunkRows
  <2> HIDE DEF match, seen
  <2>6. seen \subseteq Chunks /\ seen \subseteq points /\ seen \subseteq t.seen
    BY <1>3 DEF seen
  <2>7. /\ v \in Tasks /\ v.todo = Tail(t.todo) /\ v.op = t.op /\ v.k = t.k /\ v.d = t.d
        /\ v.docs = t.docs /\ v.method = t.method /\ v.store = t.store /\ v.kbs = t.kbs
        /\ v.torn = t.torn /\ v.embedded = t.embedded /\ v.near = t.near
        /\ v.match = match /\ v.seen = seen
    BY <1>1, <2>5, <2>6 DEF Tasks
  <2> HIDE DEF v
  <2>8. Steps(v) /\ Embedding(v) /\ Placing(v) /\ Chatting(v)
    BY <1>1, <2>7, StepsStay, EmbeddingStays, PlacingStays, ChattingStays DEF TaskOK
  <2>9. Binding(v)
    BY <1>1, <2>7 DEF Binding
  <2>10. Fusing(v)
    <3>1. t.method = "hybrid" => /\ Between(t.todo, "near", "match", "answer")
                                 /\ Before(t.todo, "near", "answer") \/ Lists(t.near, Sem, t.seen)
      BY <1>1 DEF TaskOK, Fusing
    <3>2. t.method = "hybrid" => /\ Between(v.todo, "near", "match", "answer")
                                 /\ Before(v.todo, "near", "answer") \/ Lists(t.near, Sem, t.seen)
      BY <1>1, <2>7, <3>1, TailFacts DEF Steps
    <3>3. Lists(t.near, Sem, t.seen) => Lists(t.near, Sem, seen)
      BY <2>6, ListsLess
    <3>4. Lists(match, text, {p \in seen : text[p] > 0})
      <4>1. {p \in seen : text[p] > 0} \in SUBSET {p \in points : text[p] > 0}
        BY <2>6
      <4> HIDE DEF text
      <4> QED BY <2>4, <4>1, ListsLess
    <3> QED BY <1>3, <2>7, <3>2, <3>3, <3>4 DEF Fusing
  <2> QED BY <1>2, <1>6, <2>2, <2>7, <2>8, <2>9, <2>10, Reads DEF TaskOK
<1> QED BY <1>4, <1>5, <1>6 DEF SearchText

LEMMA EngineSearchKeeps ==
  ASSUME IInv, NEW h \in Handlers, EngineSearch(h)
  PROVE  IInv'
<1> DEFINE t == thread[h]
           i == EngineIndexOf(t.store, Name(t.k))
           points == Points(t.store, i)
<1>1. /\ t \in Tasks /\ t.op = "chat" /\ Steps(t) /\ t.todo # << >> /\ TaskOK(t)
      /\ Head(t.todo) = "engine_near" /\ Tail(t.todo) \in Seq(StepNames) /\ t.docs \subseteq Docs
  <2>1. /\ t \in Tasks /\ t.op \in Naming /\ Steps(t) /\ t.todo # << >> /\ TaskOK(t)
        /\ Head(t.todo) = "engine_near" /\ Tail(t.todo) \in Seq(StepNames)
        /\ t.docs \subseteq Docs /\ "engine_near" \in StepsOf(t.op)
    BY StepFacts DEF EngineSearch
  <2> QED BY <2>1 DEF StepsOf, Naming
<1>2. UNCHANGED <<index, scene, active, answer>>
  BY DEF EngineSearch
<1>3. t.store \in Stores /\ points \in SUBSET Chunks /\ IsFiniteSet(points)
  <2>1. t.store = StoreOf(t)
    BY <1>1 DEF StoreOf
  <2> QED BY <2>1, PlaceFacts, Tables, PointsFacts DEF EngineSearch
<1>4. CASE Fails(h)
  BY <1>2, <1>4, Tables, FailKeeps DEF EngineSearch, Fails
<1>5. CASE Refuse(h) /\ UNCHANGED kb
  BY <1>2, <1>5, EndKeeps DEF Refuse
<1>6. CASE /\ \E rows \in EngineNear(t.store, i, scene.sem, t.top) :
                Proceed(h, [t EXCEPT !.near = EngineRanked(rows)])
           /\ UNCHANGED kb
  <2>1. PICK rows \in EngineNear(t.store, i, scene.sem, t.top) :
          Proceed(h, [t EXCEPT !.near = EngineRanked(rows)])
    BY <1>6
  <2> DEFINE near == EngineRanked(rows)
             v == [[t EXCEPT !.near = near] EXCEPT !.todo = Tail(@)]
  <2>2. thread' = [thread EXCEPT ![h] = v]
    BY <2>1 DEF Proceed
  <2>3. rows \in IF t.store \in Weaviate THEN WeaviateNear(points, scene.sem, t.top)
                 ELSE QdrantNear(points, scene.sem, t.top)
    BY <2>1 DEF EngineNear, EngineWeaviateNear, EngineQdrantNear
  <2> HIDE DEF points, t
  <2>4. rows \in Seq(RowsOn(points))
    <3>1. t.top \in Nat
      BY <1>1 DEF Tasks
    <3>2. \A p \in points : scene.sem[p.doc] \in Int /\ Sem[p] = scene.sem[p.doc]
      BY <1>3, ChunkScores
    <3> QED BY <1>3, <2>3, <3>1, <3>2, NearLists
  <2>5. near \in ChunkRows
    <3>1. near \in Seq(RowsOn(points))
      BY <2>4, EngineRankedType
    <3>2. RowsOn(points) \subseteq RowsOn(Chunks)
      BY <1>3 DEF RowsOn
    <3> HIDE DEF near
    <3> QED BY <3>1, <3>2 DEF ChunkRows
  <2> HIDE DEF near
  <2>6. /\ v \in Tasks /\ v.todo = Tail(t.todo) /\ v.op = t.op /\ v.k = t.k /\ v.d = t.d
        /\ v.docs = t.docs /\ v.method = t.method /\ v.store = t.store /\ v.kbs = t.kbs
        /\ v.torn = t.torn /\ v.embedded = t.embedded /\ v.seen = t.seen
    BY <1>1, <2>5 DEF Tasks
  <2> HIDE DEF v
  <2>7. Steps(v) /\ Embedding(v) /\ Placing(v) /\ Chatting(v)
    BY <1>1, <2>6, StepsStay, EmbeddingStays, PlacingStays, ChattingStays DEF TaskOK
  <2>8. Binding(v) /\ Fusing(v)
    BY <1>1, <2>6 DEF Binding, Fusing
  <2> QED BY <1>2, <1>6, <2>2, <2>6, <2>7, <2>8, Reads DEF TaskOK
<1> QED BY <1>4, <1>5, <1>6 DEF EngineSearch

\* An answer is of what was asked, and of rows that compare.
LEMMA AnswerKeeps ==
  ASSUME IInv, NEW h \in Handlers, Answer(h)
  PROVE  IInv'
<1> DEFINE t == thread[h]
           a == [op |-> t.op, k |-> t.k, method |-> t.method, top |-> t.top,
                 store |-> StoreOf(t),
                 index |-> IF t.op = "chat" THEN EngineIndexOf(t.store, Name(t.k))
                                            ELSE IndexNamed(t),
                 torn |-> t.torn,
                 embedded |-> t.embedded, rows |-> RowsOf(t), seen |-> t.seen]
<1>1. /\ t \in Tasks /\ t.op \in Naming /\ Steps(t) /\ t.todo # << >> /\ TaskOK(t)
      /\ Head(t.todo) = "answer" /\ t.k \in KnowledgeBases
  BY StepFacts DEF Answer
<1>2. UNCHANGED <<index, scene, kb, active>> /\ End(h) /\ answer' = [answer EXCEPT ![h] = a]
  BY DEF Answer
<1>3. /\ a.op = t.op /\ a.k = t.k /\ a.method = t.method /\ a.store = StoreOf(t)
      /\ a.torn = t.torn /\ a.embedded = t.embedded /\ a.rows = RowsOf(t) /\ a.seen = t.seen
      /\ t.op = "chat" => a.index = EngineIndexOf(t.store, Name(t.k))
  OBVIOUS
<1> HIDE DEF a, t
<1>4. \A x : ~Before(t.todo, x, "answer")
  <2> DEFINE todo == t.todo
             T == StepsOf(t.op)
  <2>1. todo \in Seq(T) /\ todo # << >> /\ Head(todo) = "answer"
    BY <1>1 DEF Steps
  <2> HIDE DEF todo, T
  <2>2. \A x : ~Before(todo, x, Head(todo))
    BY <2>1, TailFacts
  <2>3. \A x : ~Before(todo, x, "answer")
    BY <2>1, <2>2
  <2> QED BY <2>3 DEF todo
<1>5. /\ t.near \in Seq(RowsOn(Chunks)) /\ t.match \in Seq(RowsOn(Chunks))
      /\ t.alpha \in 0..Weight /\ t.top \in Nat /\ t.seen \subseteq Chunks
  BY <1>1 DEF Tasks, ChunkRows
<1>6. a.rows \in ChunkRows
  <2>1. Fuse(t.near, t.match, t.alpha, t.top) \in Seq(RowsOn(Chunks))
    <3>1. t.alpha \in Int
      BY <1>5, RankingAssumption
    <3> QED BY <1>5, <3>1, FuseType
  <2> QED BY <1>1, <1>3, <1>5, <2>1 DEF RowsOf, ChunkRows, Tasks, Methods
<1>7. a.op \in {"query", "tool"} /\ a.method # "keyword" => a.embedded = Target(a.k)
  BY <1>1, <1>3, <1>4 DEF TaskOK, Embedding
<1>8. ASSUME a.op = "chat", ~a.torn
      PROVE  a.store = Store(a.k) /\ a.index = IndexOf(Store(a.k), Name(a.k))
  <2>1. t.store = Store(t.k)
    BY <1>1, <1>3, <1>4, <1>8 DEF TaskOK, Chatting
  <2>2. StoreOf(t) = t.store
    BY <1>3, <1>8 DEF StoreOf
  <2>3. EngineIndexOf(t.store, Name(t.k)) = IndexOf(t.store, Name(t.k))
    BY DEF EngineIndexOf, IndexOf, EngineClass, WeaviateClass, EngineCollection,
           QdrantCollection
  <2> QED BY <1>3, <1>8, <2>1, <2>2, <2>3
<1>9. ASSUME a.op = "query", a.method = "hybrid"
      PROVE  a.seen \subseteq Chunks /\ Respects(a)
  <2> DEFINE text == Text(Store(t.k))
             fused == Fuse(t.near, t.match, t.alpha, t.top)
  <2>1. Lists(t.near, Sem, t.seen) /\ Lists(t.match, text, {p \in t.seen : text[p] > 0})
    BY <1>1, <1>3, <1>4, <1>9 DEF TaskOK, Fusing
  <2>2. a.rows = fused /\ a.store = Store(t.k)
    BY <1>3, <1>9 DEF RowsOf, StoreOf
  <2>3. ASSUME NEW p \in a.seen, NEW q \in Found(a.rows),
               Sem[p] >= 0, Sem[p] > Sem[q], text[p] > text[q]
        PROVE  p \in Found(a.rows)
    <3>1. p \in Chunks /\ q \in Chunks
      <4> DEFINE rows == a.rows
      <4>1. rows \in Seq(RowsOn(Chunks))
        BY <1>6 DEF ChunkRows
      <4> HIDE DEF rows
      <4>2. \A l \in DOMAIN rows : rows[l] \in RowsOn(Chunks)
        BY <4>1
      <4>3. Found(a.rows) \subseteq Chunks
        BY <4>2 DEF Found, rows, RowsOn
      <4> QED BY <1>3, <1>5, <2>3, <4>3
    <3>2. Sem[p] \in Nat /\ Sem[q] \in Int /\ text[p] \in Nat /\ text[q] \in Nat
      BY <2>3, <3>1, ChunkScores
    <3> HIDE DEF text, fused
    <3>3. p \in t.seen /\ q \in Found(fused)
      BY <1>3, <2>2, <2>3
    <3>4. p \in Found(Fuse(t.near, t.match, t.alpha, t.top))
      BY <1>5, <2>1, <2>3, <3>2, <3>3, FuseRespects DEF fused
    <3> QED BY <2>2, <3>4 DEF fused
  <2> QED BY <1>3, <1>5, <2>2, <2>3 DEF Respects
<1>10. AnswerOK(a)
  BY <1>1, <1>3, <1>6, <1>7, <1>8, <1>9 DEF AnswerOK
<1> QED BY <1>2, <1>10, Tables, UnusedOK, TaskMoves DEF End

-----------------------------------------------------------------------------
(* Every step keeps the invariant.                                         *)

LEMMA StutterKeeps ==
  ASSUME IInv, UNCHANGED vars
  PROVE  IInv'
<1>1. UNCHANGED <<index, scene, kb, active, thread, answer>>
  BY DEF vars
<1>2. SceneOK' /\ KbOK(kb)' /\ IndexOK(index)' /\ ActiveOK(active, kb)'
  BY <1>1, Tables, SceneFixed DEF SceneOK, KbOK, ActiveOK, Store
<1>3. \A g \in Handlers : TaskOK(thread[g])' /\ AnswerOK(answer[g])'
  <2> SUFFICES ASSUME NEW g \in Handlers PROVE TaskOK(thread[g])' /\ AnswerOK(answer[g])'
    OBVIOUS
  <2>1. TaskOK(thread'[g]) /\ AnswerOK(answer'[g])
    BY <1>1, Tables
  <2>2. TaskOK(thread[g])'
    BY <1>1, <2>1, SceneFixed
  <2>3. AnswerOK(answer[g])'
    BY <1>1, <2>1, SceneFixed
  <2> QED BY <2>2, <2>3
<1> QED BY <1>1, <1>2, <1>3 DEF IInv

\* The steps on rows and indexes ...
LEMMA WritersKeep ==
  ASSUME IInv, NEW h \in Handlers,
         \/ Mark(h) \/ Insert(h) \/ List(h) \/ Each(h) \/ Look(h) \/ Make(h) \/ Wipe(h)
         \/ Embed(h) \/ Put(h) \/ Settle(h) \/ Count(h) \/ Purge(h) \/ RemoveRow(h)
         \/ WriteArchived(h) \/ Check(h) \/ WriteBinding(h)
  PROVE  IInv'
<1>1. CASE Mark(h)          BY <1>1, MarkKeeps
<1>2. CASE Insert(h)        BY <1>2, InsertKeeps
<1>3. CASE List(h)          BY <1>3, ListKeeps
<1>4. CASE Each(h)          BY <1>4, EachKeeps
<1>5. CASE Look(h)          BY <1>5, LookKeeps
<1>6. CASE Make(h)          BY <1>6, MakeKeeps
<1>7. CASE Wipe(h)          BY <1>7, WipeKeeps
<1>8. CASE Embed(h)         BY <1>8, EmbedKeeps
<1>9. CASE Put(h)           BY <1>9, PutKeeps
<1>10. CASE Settle(h)       BY <1>10, SettleKeeps
<1>11. CASE Count(h)        BY <1>11, CountKeeps
<1>12. CASE Purge(h)        BY <1>12, PurgeKeeps
<1>13. CASE RemoveRow(h)    BY <1>13, RemoveRowKeeps
<1>14. CASE WriteArchived(h)  BY <1>14, WriteArchivedKeeps
<1>15. CASE Check(h)        BY <1>15, CheckKeeps
<1>16. CASE WriteBinding(h) BY <1>16, WriteBindingKeeps
<1> QED BY <1>1, <1>2, <1>3, <1>4, <1>5, <1>6, <1>7, <1>8, <1>9, <1>10, <1>11, <1>12,
           <1>13, <1>14, <1>15, <1>16

\* ... and those of the readers.
LEMMA ReadersKeep ==
  ASSUME IInv, NEW h \in Handlers,
         \/ Load(h) \/ Provider(h) \/ Compare(h) \/ SnapModel(h) \/ SnapRow(h)
         \/ SnapResources(h) \/ Find(h) \/ Allow(h) \/ SearchNear(h) \/ SearchText(h)
         \/ EngineEmbed(h) \/ EngineSearch(h) \/ Answer(h)
  PROVE  IInv'
<1>1. CASE Load(h)          BY <1>1, LoadKeeps
<1>2. CASE Provider(h)      BY <1>2, ProviderKeeps
<1>3. CASE Compare(h)       BY <1>3, CompareKeeps
<1>4. CASE SnapModel(h)     BY <1>4, SnapModelKeeps
<1>5. CASE SnapRow(h)       BY <1>5, SnapRowKeeps
<1>6. CASE SnapResources(h) BY <1>6, SnapResourcesKeeps
<1>7. CASE Find(h)          BY <1>7, FindKeeps
<1>8. CASE Allow(h)         BY <1>8, AllowKeeps
<1>9. CASE SearchNear(h)    BY <1>9, SearchNearKeeps
<1>10. CASE SearchText(h)   BY <1>10, SearchTextKeeps
<1>11. CASE EngineEmbed(h)  BY <1>11, EngineEmbedKeeps
<1>12. CASE EngineSearch(h) BY <1>12, EngineSearchKeeps
<1>13. CASE Answer(h)       BY <1>13, AnswerKeeps
<1> QED BY <1>1, <1>2, <1>3, <1>4, <1>5, <1>6, <1>7, <1>8, <1>9, <1>10, <1>11, <1>12, <1>13

\* A request is taken.
LEMMA RequestsKeep ==
  ASSUME IInv, NEW h \in Handlers,
         \/ \E k \in KnowledgeBases :
              \/ Create(h, k) \/ Rebuild(h, k) \/ Drop(h, k) \/ Archive(h, k)
              \/ UseTool(h, k) \/ Chat(h, k) \/ Ask(h, k)
              \/ \E d \in Docs : Ingest(h, k, d) \/ Upload(h, k, d)
              \/ \E options \in Options : Query(h, k, options)
         \/ \E s \in Stores, kbs \in SUBSET KnowledgeBases : Bind(h, s, kbs)
         \/ \E m \in Models : ChooseModel(h, m)
  PROVE  IInv'
<1>1. ASSUME NEW k \in KnowledgeBases,
             \/ Create(h, k) \/ Rebuild(h, k) \/ Drop(h, k) \/ Archive(h, k)
             \/ UseTool(h, k) \/ Chat(h, k) \/ Ask(h, k)
      PROVE  IInv'
  BY <1>1, CreateKeeps, RebuildKeeps, DropKeeps, ArchiveKeeps, UseToolKeeps, ChatKeeps,
     AskKeeps
<1>2. ASSUME NEW k \in KnowledgeBases, NEW d \in Docs, Ingest(h, k, d) \/ Upload(h, k, d)
      PROVE  IInv'
  BY <1>2, IngestKeeps, UploadKeeps
<1>3. ASSUME NEW k \in KnowledgeBases, NEW options \in Options, Query(h, k, options)
      PROVE  IInv'
  BY <1>3, QueryKeeps
<1>4. ASSUME NEW s \in Stores, NEW kbs \in SUBSET KnowledgeBases, Bind(h, s, kbs)
      PROVE  IInv'
  BY <1>4, BindKeeps
<1>5. ASSUME NEW m \in Models, ChooseModel(h, m)
      PROVE  IInv'
  BY <1>5, ChooseModelKeeps
<1> QED BY <1>1, <1>2, <1>3, <1>4, <1>5

LEMMA NextKeeps ==
  ASSUME IInv, Next
  PROVE  IInv'
<1>1. PICK h \in Handlers :
        \/ \E k \in KnowledgeBases :
             \/ Create(h, k) \/ Rebuild(h, k) \/ Drop(h, k) \/ Archive(h, k)
             \/ UseTool(h, k) \/ Chat(h, k) \/ Ask(h, k)
             \/ \E d \in Docs : Ingest(h, k, d) \/ Upload(h, k, d)
             \/ \E options \in Options : Query(h, k, options)
        \/ \E s \in Stores, kbs \in SUBSET KnowledgeBases : Bind(h, s, kbs)
        \/ \E m \in Models : ChooseModel(h, m)
        \/ \/ Mark(h) \/ Insert(h) \/ List(h) \/ Each(h) \/ Look(h) \/ Make(h) \/ Wipe(h)
           \/ Embed(h) \/ Put(h) \/ Settle(h) \/ Count(h) \/ Purge(h) \/ RemoveRow(h)
           \/ WriteArchived(h) \/ Check(h) \/ WriteBinding(h)
        \/ \/ Load(h) \/ Provider(h) \/ Compare(h) \/ SnapModel(h) \/ SnapRow(h)
           \/ SnapResources(h) \/ Find(h) \/ Allow(h) \/ SearchNear(h) \/ SearchText(h)
           \/ EngineEmbed(h) \/ EngineSearch(h) \/ Answer(h)
  BY DEF Next
<1> QED BY <1>1, WritersKeep, ReadersKeep, RequestsKeep

\* The inductive invariant holds in every behaviour.
THEOREM Invariant == Spec => []IInv
<1>1. IInv /\ [Next]_vars => IInv'
  BY NextKeeps, StutterKeeps
<1> QED BY <1>1, InitIInv, PTL DEF Spec

-----------------------------------------------------------------------------
(* What it says of the answers.                                            *)

\* The active deployment is bound to knowledge bases that are there: a deletion
\* that counted the bindings before one was written fails at its last statement,
\* and a binding that was checked before a deletion is not written.
THEOREM BoundStaysPresent == Spec => []BoundIsPresent
<1>1. IInv => BoundIsPresent
  BY DEF IInv, ActiveOK, BoundIsPresent, Here
<1> QED BY <1>1, Invariant, PTL

\* A knowledge chat reads the index the backend fills, in the store of the
\* knowledge base, for the names both sides make of it.
THEOREM ChatFindsIndex == Spec => []ChatReadsBackingIndex
<1>1. IInv => ChatReadsBackingIndex
  BY DEF IInv, AnswerOK, ChatReadsBackingIndex, Answers
<1> QED BY <1>1, Invariant, PTL

\* A question and the chunks it is compared with were embedded with one model,
\* whatever becomes the default between the check and the search.
THEOREM AnswersStayComparable == Spec => []AnswersAreComparable
<1>1. IInv => AnswersAreComparable
  <2> SUFFICES ASSUME IInv, NEW h \in Handlers, NEW p \in Answered(answer[h]),
                      answer[h].op \in {"query", "tool"}, answer[h].method # "keyword",
                      p.kb = answer[h].k
               PROVE  p.model = answer[h].embedded
    BY DEF AnswersAreComparable, Answers
  <2> DEFINE a == answer[h]
             rows == a.rows
  <2>1. rows \in Seq(RowsOn(Chunks)) /\ a.k \in KnowledgeBases /\ a.embedded = Target(a.k)
    BY Tables DEF AnswerOK, ChunkRows
  <2>2. p \in {rows[i].point : i \in DOMAIN rows}
    BY DEF Answered
  <2> HIDE DEF rows, a
  <2>3. \A i \in DOMAIN rows : rows[i] \in RowsOn(Chunks)
    BY <2>1
  <2>4. p \in Chunks
    BY <2>2, <2>3 DEF RowsOn
  <2>5. p.model = Target(p.kb)
    BY <2>1, <2>4 DEF Chunks, a
  <2> QED BY <2>1, <2>5 DEF a
<1> QED BY <1>1, Invariant, PTL

\* A chunk that beats another one in both searches of a hybrid query is not left
\* out in its favour, whatever the weights, the limits and the ties.
THEOREM HybridStaysFair == Spec => []HybridRespectsBranches
<1>1. IInv => HybridRespectsBranches
  <2> SUFFICES ASSUME IInv, NEW h \in Handlers,
                      answer[h].op = "query", answer[h].method = "hybrid",
                      NEW p \in answer[h].seen, NEW q \in Answered(answer[h]),
                      scene.sem[p.doc] >= 0, scene.sem[p.doc] > scene.sem[q.doc],
                      (IF answer[h].store \in Weaviate THEN scene.kw[p.doc]
                       ELSE IF scene.kw[p.doc] > 0 THEN One ELSE 0)
                        > (IF answer[h].store \in Weaviate THEN scene.kw[q.doc]
                           ELSE IF scene.kw[q.doc] > 0 THEN One ELSE 0)
               PROVE  p \in Answered(answer[h])
    BY DEF HybridRespectsBranches, Answers
  <2> DEFINE a == answer[h]
             rows == a.rows
             s == a.store
  <2>1. rows \in Seq(RowsOn(Chunks)) /\ a.seen \subseteq Chunks /\ Respects(a)
    BY Tables DEF AnswerOK, ChunkRows
  <2>2. q \in Found(rows) /\ Answered(a) = Found(rows)
    BY DEF Answered, Found
  <2> HIDE DEF rows
  <2>3. \A i \in DOMAIN rows : rows[i] \in RowsOn(Chunks)
    BY <2>1
  <2>4. p \in Chunks /\ q \in Chunks
    BY <2>1, <2>2, <2>3 DEF RowsOn, Found
  <2>5. Sem[p] >= 0 /\ Sem[p] > Sem[q]
    BY <2>4, ChunkScores
  <2>6. Text(s)[p] > Text(s)[q]
    BY <2>4, ChunkScores
  <2>7. p \in Found(rows)
    BY <2>1, <2>2, <2>5, <2>6 DEF Respects, rows
  <2> QED BY <2>2, <2>7
<1> QED BY <1>1, Invariant, PTL
=============================================================================
