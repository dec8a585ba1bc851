------------------------------ MODULE Ranking ------------------------------
(***************************************************************************)
(* How the rows two searches find become one answer                        *)
(* (services/context_management_retrieval_scoring.py; the agent engine has *)
(* a copy in retrieval/scoring.py).  Scores are integers: a similarity in  *)
(* units of 1/One, the weight of the semantic search in units of 1/Weight, *)
(* and a fused score multiplied by One, Weight and the range of the        *)
(* keyword scores, which changes no order.                                 *)
(***************************************************************************)
EXTENDS VectorStores

CONSTANTS
  Weight,           \* the unit of hybrid_alpha
  OverfetchFactor,  \* a hybrid search asks each branch for so many times top_k,
  BranchFloor,      \* at least for these
  BranchCap         \* and at most for these

ASSUME RankingAssumption ==
  /\ Weight \in Nat \ {0}
  /\ {OverfetchFactor, BranchFloor, BranchCap} \subseteq Nat \ {0}

Least(a, b) == IF a < b THEN a ELSE b
Largest(a, b) == IF a < b THEN b ELSE a

\* calculate_hybrid_branch_top_k
BranchTopK(k) == Least(Largest(k * OverfetchFactor, BranchFloor), BranchCap)

\* Mutant: a distance is taken for a similarity.
RelevanceUnread(row, method) == row.score

\* What a row's score says of its relevance.
Relevance(row, method) ==
  IF method = "semantic" /\ row.kind = "distance" THEN One - row.score ELSE row.score

\* The members of a finite set, each behind those a total order puts before it.
Below(S, before, j) == {i \in S : <<i, j>> \in before}
InOrder(S, before) ==
  [k \in 1..Cardinality(S) |->
     CHOOSE j \in S : Cardinality(Below(S, before, j)) = k - 1]

\* Python's sort: by falling score, and as they came among equals.
Sorted(rows) ==
  LET places == DOMAIN rows
      before == {e \in places \X places :
                   \/ rows[e[1]].score > rows[e[2]].score
                   \/ rows[e[1]].score = rows[e[2]].score /\ e[1] < e[2]}
      order == InOrder(places, before)
  IN  [k \in DOMAIN rows |-> rows[order[k]]]

Ranked(rows, method) ==
  Sorted([i \in DOMAIN rows |-> [rows[i] EXCEPT !.score = Relevance(rows[i], method)]])

\* The engine's copy of it.
EngineRanked(rows) ==
  Sorted([i \in DOMAIN rows |->
            [rows[i] EXCEPT !.score = IF rows[i].kind = "distance" THEN One - @ ELSE @]])

Found(rows) == {rows[i].point : i \in DOMAIN rows}
ScoreOf(rows, p) == rows[CHOOSE i \in DOMAIN rows : rows[i].point = p].score

\* The keyword scores lie between their least and their largest; where these are
\* the same each counts for the whole.
KeywordRange(rows) ==
  LET scores == {rows[i].score : i \in DOMAIN rows}
      range == IF scores = {} THEN 0 ELSE Max(scores) - Min(scores)
  IN  Largest(range, 1)
KeywordScore(rows, p) ==
  LET scores == {rows[i].score : i \in DOMAIN rows}
  IN  IF p \notin Found(rows) THEN 0
      ELSE IF Cardinality(scores) = 1 THEN 1 ELSE ScoreOf(rows, p) - Min(scores)

SemanticScore(rows, p) == IF p \in Found(rows) THEN ScoreOf(rows, p) ELSE 0

\* What only one of the searches found has nothing of the other.
Fused(sem, kw, alpha, p) ==
  alpha * SemanticScore(sem, p) * KeywordRange(kw)
    + (Weight - alpha) * One * KeywordScore(kw, p)

\* The rows of what the other search did not find, as they came.
Others(sem, kw) ==
  LET new == {i \in DOMAIN kw : kw[i].point \notin Found(sem)}
      order == InOrder(new, {e \in new \X new : e[1] < e[2]})
  IN  [k \in 1..Cardinality(new) |-> kw[order[k]]]

\* Those of the semantic search come first.
Fuse(sem, kw, alpha, k) ==
  LET all == sem \o Others(sem, kw)
      sorted == Sorted([i \in DOMAIN all |->
                          Row(all[i].point, Fused(sem, kw, alpha, all[i].point),
                              "hybrid_score")])
  IN  SubSeq(sorted, 1, Least(k, Len(sorted)))
=============================================================================
