---------------------------- MODULE VectorStores ----------------------------
(***************************************************************************)
(* The vector stores behind the adapters of the backend                    *)
(* (services/platform_adapters.py) and the clients of the agent engine     *)
(* (runtime_clients/vector_store.py).                                      *)
(*                                                                         *)
(* An index name is a sequence of its alphanumeric parts, a part a         *)
(* sequence of characters.  A point is the chunk of a document with the    *)
(* model that embedded it; payload, filters and wire formats are left out. *)
(* What a store does with a request is external and stated as the adapters *)
(* rely on it.                                                             *)
(***************************************************************************)
EXTENDS Integers, Sequences, FiniteSets, SequencesExt

CONSTANTS
  Stores,       \* provider instances with the capability vector_store
  Weaviate,     \* those of them that are Weaviates; the others are Qdrants
  DefaultSize,  \* default_vector_size of a Qdrant's configuration
  Dimension,    \* of the vectors of each embeddings model
  Capital       \* upper case of each character of a name

VARIABLE index  \* of each store: its indexes by their names there

ASSUME StoresAssumption ==
  /\ Weaviate \subseteq Stores
  /\ DefaultSize \in Nat \ {0}
  /\ \A m \in DOMAIN Dimension : Dimension[m] \in Nat \ {0}

One == 2        \* the similarity of equal vectors, in the unit of the scores

-----------------------------------------------------------------------------
(* Names                                                                   *)

Capitalised(part) == <<Capital[Head(part)]>> \o Tail(part)
Joined(part, i) == IF i = 1 THEN part ELSE <<"_">> \o part

\* _coerce_weaviate_class_name drops what separates the parts ...
WeaviateClass(name) == FlattenSeq([i \in DOMAIN name |-> Capitalised(name[i])])
\* ... and _coerce_qdrant_collection_name keeps it.
QdrantCollection(name) == FlattenSeq([i \in DOMAIN name |-> Joined(name[i], i)])

IndexOf(s, name) == IF s \in Weaviate THEN WeaviateClass(name) ELSE QdrantCollection(name)

\* The engine derives the names by code of its own.
EngineClass(name) == FlattenSeq([i \in DOMAIN name |-> Capitalised(name[i])])
EngineCollection(name) == FlattenSeq([i \in DOMAIN name |-> Joined(name[i], i)])
EngineIndexOf(s, name) == IF s \in Weaviate THEN EngineClass(name) ELSE EngineCollection(name)

-----------------------------------------------------------------------------
(* Indexes                                                                 *)

Exists(s, i) == i \in DOMAIN index[s]
Points(s, i) == IF Exists(s, i) THEN index[s][i].points ELSE {}

SetIndex(s, i, content) ==
  index' = [index EXCEPT ![s] = [n \in DOMAIN @ \cup {i} |-> IF n = i THEN content ELSE @[n]]]

\* The size a Qdrant collection is created with: that of the vectors at hand, or
\* the configured one for a schema, which names none.
QdrantSize(size) == IF size = 0 THEN DefaultSize ELSE size

\* Weaviate says that the class exists, which the adapter takes for a success; to
\* Qdrant it is a conflict.
CanCreate(s, i) == s \in Weaviate \/ ~Exists(s, i)

CreateWeaviate(s, i) ==
  IF Exists(s, i) THEN UNCHANGED index ELSE SetIndex(s, i, [size |-> 0, points |-> {}])
CreateQdrant(s, i, size) ==
  /\ ~Exists(s, i)
  /\ SetIndex(s, i, [size |-> QdrantSize(size), points |-> {}])
CreateIndex(s, i, size) ==
  IF s \in Weaviate THEN CreateWeaviate(s, i) ELSE CreateQdrant(s, i, size)

\* No index is left whether there was one or not.
DropIndex(s, i) ==
  index' = [index EXCEPT ![s] = [n \in DOMAIN @ \ {i} |-> @[n]]]

\* A Weaviate class takes the size of its first vector, a Qdrant collection that
\* of its creation; neither mixes sizes.
Takes(s, i, model) ==
  /\ Exists(s, i)
  /\ index[s][i].size \in {0, Dimension[model]}

\* The ids are derived from document and position: a point replaces its like.
UpsertPoint(s, i, point) ==
  SetIndex(s, i, [size |-> Dimension[point.model],
                  points |-> {p \in Points(s, i) : <<p.kb, p.doc>> # <<point.kb, point.doc>>}
                             \cup {point}])

\* One request per id to a Weaviate, where it may be gone; one for all to a
\* Qdrant, which knows the collection or fails.
CanDelete(s, i) == s \in Weaviate \/ Exists(s, i)
DeletePoint(s, i, k, d) ==
  IF Exists(s, i)
  THEN SetIndex(s, i, [index[s][i] EXCEPT !.points = {p \in @ : <<p.kb, p.doc>> # <<k, d>>}])
  ELSE UNCHANGED index

-----------------------------------------------------------------------------
(* Queries                                                                 *)

\* A row of an answer: what was found, how it was scored, and how the score is
\* to be read.
Row(point, score, kind) == [point |-> point, score |-> score, kind |-> kind]

\* The best of the points in their order; equals come in any.
Best(points, value, limit) ==
  LET n == IF Cardinality(points) < limit THEN Cardinality(points) ELSE limit
  IN  {found \in [1..n -> points] :
         /\ IsInjective(found)
         /\ \A i, j \in 1..n : i < j => value[found[i]] >= value[found[j]]
         /\ \A i \in 1..n, p \in points \ Range(found) : value[found[i]] >= value[p]}

\* nearVector of Weaviate tells distances, search of Qdrant similarities.
WeaviateNear(points, sem, limit) ==
  {[i \in DOMAIN best |-> Row(best[i], One - sem[best[i].doc], "distance")] :
     best \in Best(points, [p \in points |-> sem[p.doc]], limit)}
QdrantNear(points, sem, limit) ==
  {[i \in DOMAIN best |-> Row(best[i], sem[best[i].doc], "similarity")] :
     best \in Best(points, [p \in points |-> sem[p.doc]], limit)}
Near(s, i, sem, limit) ==
  IF s \in Weaviate THEN WeaviateNear(Points(s, i), sem, limit)
                    ELSE QdrantNear(Points(s, i), sem, limit)

\* The clients of the engine ask likewise.
EngineWeaviateNear(points, sem, limit) == WeaviateNear(points, sem, limit)
EngineQdrantNear(points, sem, limit) == QdrantNear(points, sem, limit)
EngineNear(s, i, sem, limit) ==
  IF s \in Weaviate THEN EngineWeaviateNear(Points(s, i), sem, limit)
                    ELSE EngineQdrantNear(Points(s, i), sem, limit)

\* bm25 of Weaviate scores the matches, scroll of Qdrant lists some of them.
WeaviateMatches(points, kw, limit) ==
  {[i \in DOMAIN best |-> Row(best[i], kw[best[i].doc], "bm25")] :
     best \in Best({p \in points : kw[p.doc] > 0}, [p \in points |-> kw[p.doc]], limit)}
QdrantMatches(points, kw, limit) ==
  {[i \in DOMAIN best |-> Row(best[i], One, "text_match")] :
     best \in Best({p \in points : kw[p.doc] > 0}, [p \in points |-> One], limit)}
Matches(s, i, kw, limit) ==
  IF s \in Weaviate THEN WeaviateMatches(Points(s, i), kw, limit)
                    ELSE QdrantMatches(Points(s, i), kw, limit)
=============================================================================
