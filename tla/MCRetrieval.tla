---------------------------- MODULE MCRetrieval ----------------------------
(* Small instances of Retrieval.                                           *)
EXTENDS Retrieval, TLC

CONSTANTS k1, k2, m1, m2, m3, w, q, d1, d2, d3

MCCapital == ("a" :> "A") @@ ("1" :> "1") @@ ("2" :> "2")
\* Vectors of m1 and m2 can be compared, and mean nothing then.
MCDimension == (m1 :> 1) @@ (m2 :> 1) @@ (m3 :> 2)

\* a1_2 and a_12: two names of one Weaviate class.
First == <<<<"a", "1">>, <<"2">>>>
Second == <<<<"a">>, <<"1", "2">>>>

Row1(s) == [name |-> First, store |-> s, target |-> m1]
Row2(name, s, m) == [name |-> name, store |-> s, target |-> m]
Rows(r1, r2) == (k1 :> r1) @@ (k2 :> r2)

\* The order of the documents does not matter to these.
Flat == [sem |-> {(d1 :> 2) @@ (d2 :> 1) @@ (d3 :> 0)},
         kw |-> {(d1 :> 2) @@ (d2 :> 1) @@ (d3 :> 0)},
         methods |-> {"semantic", "keyword"}, tops |-> {1}, alphas |-> {1}, docs |-> {d1}]

Scene(rows, here, bound, ops, requests, failures) ==
  [row |-> rows, here |-> here, active |-> bound, ops |-> ops,
   requests |-> requests, failures |-> failures] @@ Flat

\* One hybrid query, over all scores.
Fusion(s) ==
  [sem |-> [{d1, d2, d3} -> -1..2], kw |-> [{d1, d2, d3} -> 0..2],
   methods |-> {"hybrid"}, tops |-> {1}, alphas |-> 0..2, docs |-> {d1, d2, d3}]
  @@ Scene(Rows(Row1(s), Row2(Second, s, m1)), {k1},
           [store |-> s, kbs |-> {k1}, model |-> m1], {"query"}, 1, 0)

\* Questions while the deployment is edited.
Asked == Scene(Rows(Row1(w), Row2(Second, q, m2)), {k1, k2},
               [store |-> w, kbs |-> {k1}, model |-> m1],
               {"bind", "choose", "query", "tool", "chat"}, 4, 0)
\* Knowledge bases come and go, one of them in the index of the other.
Changed(s, name, model, requests) ==
  Scene(Rows(Row1(s), Row2(name, s, model)), {k1},
        [store |-> s, kbs |-> {}, model |-> m1],
        {"create", "ingest", "rebuild", "drop", "archive", "bind"}, requests, 1)
\* The vector API beside the queries.
Open == Scene(Rows(Row1(w), Row2(Second, w, m2)), {k1, k2},
              [store |-> w, kbs |-> {k1}, model |-> m1],
              {"ask", "upload", "query", "choose", "rebuild"}, 3, 0)

MCScenarios ==
  {Fusion(w), Fusion(q), Asked, Changed(w, Second, m2, 3), Changed(w, First, None, 2),
   Changed(q, First, m3, 3), Open}
=============================================================================
