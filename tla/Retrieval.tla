----------------------------- MODULE Retrieval -----------------------------
(***************************************************************************)
(* What retrieval reads while the platform is reconfigured: knowledge      *)
(* bases are created, filled, rebuilt, archived and deleted                *)
(* (context_management_knowledge_bases, _documents, _shared), the active   *)
(* deployment is bound to a vector store with knowledge bases and to an    *)
(* embeddings model (platform_bindings), and queries, tools, knowledge     *)
(* chats and the vector API read by what they found bound a moment before. *)
(*                                                                         *)
(* A knowledge base's store, index name and embeddings target never        *)
(* change.  Every step is one request to a database, a store or a model;   *)
(* each of those to a store or a model may fail.  A document is one chunk. *)
(***************************************************************************)
EXTENDS Ranking

CONSTANTS
  KnowledgeBases, Docs, Models, Handlers,
  None,      \* Python's None
  Scenarios  \* the knowledge bases, the requests made and their bounds

\* A scenario: the rows, those that are there and the documents in them, the
\* active deployment, the requests with their options, and the scores of the
\* documents.
ASSUME RetrievalAssumption ==
  /\ None \notin KnowledgeBases
  /\ IsFiniteSet(KnowledgeBases) /\ IsFiniteSet(Docs)
  /\ Scenarios \subseteq
       [row : [KnowledgeBases -> [name : Seq(Seq(DOMAIN Capital)), store : Stores,
                                  target : Models \cup {None}]],
        here : SUBSET KnowledgeBases, docs : SUBSET Docs,
        active : [store : Stores, kbs : SUBSET KnowledgeBases, model : Models],
        ops : SUBSET STRING, methods : SUBSET {"semantic", "keyword", "hybrid"},
        tops : SUBSET (Nat \ {0}), alphas : SUBSET (0..Weight),
        sem : SUBSET [Docs -> Int], kw : SUBSET [Docs -> Nat],
        requests : Nat, failures : Nat]
  /\ \A s \in Scenarios : \A k \in s.active.kbs :
       k \in s.here /\ s.row[k].store = s.active.store

VARIABLES
  scene,     \* the scenario, with the similarity and keyword score of each document
  kb,        \* rows of context_knowledge_bases
  active,    \* the active deployment: store, its knowledge bases, model
  thread,    \* the locals of each handler
  answer,    \* what each handler answered last
  left       \* requests and failures left of the scenario's

vars == <<index, scene, kb, active, thread, answer, left>>

Name(k) == scene.row[k].name
Store(k) == scene.row[k].store
Target(k) == scene.row[k].target    \* None: self_provided
Here(k) == kb[k].state = "here"
Eligible(k) == Here(k) /\ kb[k].active /\ kb[k].status = "ready"

Absent == [state |-> "absent", active |-> FALSE, status |-> "ready", docs |-> {}]
Unused == [op |-> "none", todo |-> <<>>, k |-> None, d |-> None, docs |-> {},
           method |-> "semantic", top |-> 1, alpha |-> 0,
           store |-> None, kbs |-> {}, torn |-> FALSE, model |-> None,
           embedded |-> None, status |-> "ready", near |-> <<>>, match |-> <<>>,
           seen |-> {}]
Unanswered == [op |-> "none", k |-> None, method |-> "semantic", store |-> None,
               index |-> <<>>, torn |-> FALSE, embedded |-> None, top |-> 1,
               rows |-> <<>>, seen |-> {}]

Init ==
  \E s \in Scenarios : \E sem \in s.sem, kw \in s.kw :
    /\ scene = [s EXCEPT !.sem = sem, !.kw = kw]
    /\ kb = [k \in KnowledgeBases |->
               IF k \in s.here
               THEN [state |-> "here", active |-> TRUE, status |-> "ready", docs |-> s.docs]
               ELSE Absent]
    /\ index = [st \in Stores |->
                  [i \in {IndexOf(st, s.row[k].name) : k \in {x \in s.here : s.row[x].store = st}} |->
                     LET own == {x \in s.here : s.row[x].store = st /\ IndexOf(st, s.row[x].name) = i}
                         points == {p \in [kb : own, doc : s.docs, model : Models] :
                                      p.model = s.row[p.kb].target}
                     IN  [size |-> IF points # {} THEN Dimension[(CHOOSE p \in points : TRUE).model]
                                   ELSE IF st \in Weaviate THEN 0 ELSE DefaultSize,
                          points |-> points]]]
    /\ active = s.active
    /\ thread = [h \in Handlers |-> Unused]
    /\ answer = [h \in Handlers |-> Unanswered]
    /\ left = [requests |-> s.requests, failures |-> s.failures]

-----------------------------------------------------------------------------
(* Requests.  One that is refused at its first look changes nothing and is *)
(* left out.                                                               *)

Idle(h) == thread[h].todo = <<>>

\* A handler takes a request and has the steps to make.
Take(h, op, request) ==
  /\ Idle(h)
  /\ op \in scene.ops
  /\ left.requests > 0
  /\ left' = [left EXCEPT !.requests = @ - 1]
  /\ thread' = [thread EXCEPT ![h] = request]
  /\ answer' = [answer EXCEPT ![h] = Unanswered]

Request(op, k, todo) == [Unused EXCEPT !.op = op, !.k = k, !.todo = todo]

\* The index name is unique among the rows.
Create(h, k) ==
  /\ kb[k].state = "absent"
  /\ \A other \in KnowledgeBases \ {k} : Here(other) => Name(other) # Name(k)
  /\ Take(h, "create", Request("create", k, <<"look", "make", "settle">>))
  /\ kb' = [kb EXCEPT ![k] = [state |-> "here", active |-> TRUE,
                              status |-> "syncing", docs |-> {}]]
  /\ UNCHANGED <<index, scene, active>>

\* The chunks of a document, in a knowledge base that takes text.
Indexing == <<"look", "make", "embed", "look", "make", "put">>

Ingest(h, k, d) ==
  /\ Here(k) /\ Target(k) # None
  /\ d \notin kb[k].docs
  /\ Take(h, "ingest",
          [Request("ingest", k, <<"mark", "insert">> \o Indexing \o <<"settle">>) EXCEPT !.d = d])
  /\ UNCHANGED <<index, scene, kb, active>>

Rebuild(h, k) ==
  /\ Here(k) /\ Target(k) # None
  /\ Take(h, "rebuild", Request("rebuild", k, <<"mark", "list", "wipe", "look", "make", "each">>))
  /\ UNCHANGED <<index, scene, kb, active>>

Drop(h, k) ==
  /\ Here(k)
  /\ Take(h, "drop", Request("drop", k, <<"count", "list", "purge">>))
  /\ UNCHANGED <<index, scene, kb, active>>

\* The edit writes back the status of the row it read.
Archive(h, k) ==
  /\ Here(k) /\ kb[k].active
  /\ Take(h, "archive",
          [Request("archive", k, <<"count", "archive">>) EXCEPT !.status = kb[k].status])
  /\ UNCHANGED <<index, scene, kb, active>>

\* The knowledge bases of a new binding are checked one by one.
Bind(h, s, kbs) ==
  /\ Take(h, "bind",
          [Unused EXCEPT !.op = "bind", !.store = s, !.kbs = kbs, !.docs = kbs,
                         !.todo = <<"check">>])
  /\ UNCHANGED <<index, scene, kb, active>>

ChooseModel(h, m) ==
  /\ active.model # m
  /\ Take(h, "choose", Unused)
  /\ active' = [active EXCEPT !.model = m]
  /\ UNCHANGED <<index, scene, kb>>

\* What each search of the backend does.
Searching(method) ==
  CASE method = "semantic" -> <<"compare", "embed", "near">>
    [] method = "keyword"  -> <<"match">>
    [] OTHER               -> <<"compare", "embed", "near", "match">>

\* What remains of a request's options once they are checked.
Options == [method : scene.methods, top : scene.tops, alpha : scene.alphas]

Query(h, k, options) ==
  /\ Eligible(k) /\ Target(k) # None
  /\ Take(h, "query",
          [Request("query", k, <<"provider">> \o Searching(options.method) \o <<"answer">>)
             EXCEPT !.method = options.method, !.top = options.top, !.alpha = options.alpha])
  /\ UNCHANGED <<index, scene, kb, active>>

\* A tool looks up that its knowledge base is bound and goes on as a query.
UseTool(h, k) ==
  /\ Take(h, "tool", Request("tool", k, <<"resources", "find", "load", "provider">>
                                        \o Searching("semantic") \o <<"answer">>))
  /\ UNCHANGED <<index, scene, kb, active>>

\* The platform's snapshot, a selection, and the engine's two requests.
Chat(h, k) ==
  /\ Take(h, "chat", Request("chat", k, <<"model", "row", "resources", "find",
                                          "engine_embed", "engine_near", "answer">>))
  /\ UNCHANGED <<index, scene, kb, active>>

\* The vector API embeds before it looks whether the index is bound.
Ask(h, k) ==
  /\ Take(h, "ask", Request("ask", k, <<"embed", "row", "resources", "allow",
                                        "near", "answer">>))
  /\ UNCHANGED <<index, scene, kb, active>>

Upload(h, k, d) ==
  /\ Take(h, "upload",
          [Request("upload", k, <<"embed", "row", "resources", "allow",
                                  "look", "make", "put">>) EXCEPT !.d = d])
  /\ UNCHANGED <<index, scene, kb, active>>

-----------------------------------------------------------------------------
(* Steps.                                                                  *)

At(h, step) == ~Idle(h) /\ Head(thread[h].todo) = step
Rest(h) == Tail(thread[h].todo)

\* The step is done, with these locals.
Proceed(h, locals) == thread' = [thread EXCEPT ![h] = [locals EXCEPT !.todo = Tail(@)]]
Done(h) == Proceed(h, thread[h])
GoOn(h, todo) == thread' = [thread EXCEPT ![h].todo = todo]
End(h) == thread' = [thread EXCEPT ![h] = Unused]

\* Operations on a knowledge base use its own store, the others the bound one.
StoreOf(t) == IF t.op \in {"chat", "ask", "upload"} THEN t.store ELSE Store(t.k)
IndexNamed(t) == IndexOf(StoreOf(t), Name(t.k))

SetKb(k, status, docs) ==
  kb' = IF Here(k) THEN [kb EXCEPT ![k].status = status, ![k].docs = docs] ELSE kb

\* A handler that fails marks its knowledge base; an ingestion takes its row back.
Fail(h) ==
  LET t == thread[h]
  IN  /\ End(h)
      /\ IF t.op \in {"create", "ingest", "rebuild"}
         THEN SetKb(t.k, "error", kb[t.k].docs \ (IF t.op = "ingest" THEN {t.d} ELSE {}))
         ELSE UNCHANGED kb

\* A request to a store or a model that fails, having done nothing.
Fails(h) ==
  /\ left.failures > 0
  /\ left' = [left EXCEPT !.failures = @ - 1]
  /\ Fail(h)

\* It is done: it is told, or the answer is lost.
Told(h) == Done(h) /\ UNCHANGED <<kb, left>>
ToldOrLost(h) == Told(h) \/ Fails(h)

\* _mark_knowledge_base_syncing
Mark(h) ==
  /\ At(h, "mark")
  /\ SetKb(thread[h].k, "syncing", kb[thread[h].k].docs)
  /\ Done(h)
  /\ UNCHANGED <<index, scene, active, answer, left>>

\* The row refers to a knowledge base.
Insert(h) ==
  /\ At(h, "insert")
  /\ IF Here(thread[h].k)
     THEN /\ Done(h)
          /\ kb' = [kb EXCEPT ![thread[h].k].docs = @ \cup {thread[h].d}]
     ELSE End(h) /\ UNCHANGED kb
  /\ UNCHANGED <<index, scene, active, answer, left>>

List(h) ==
  /\ At(h, "list")
  /\ Proceed(h, [thread[h] EXCEPT !.docs = kb[thread[h].k].docs])
  /\ UNCHANGED <<index, scene, kb, active, answer, left>>

Each(h) ==
  LET t == thread[h]
  IN  /\ At(h, "each")
      /\ IF t.docs = {} THEN GoOn(h, <<"settle">>)
         ELSE \E d \in t.docs :
                thread' = [thread EXCEPT ![h] =
                             [t EXCEPT !.d = d, !.docs = @ \ {d}, !.embedded = None,
                                       !.todo = Indexing \o <<"each">>]]
      /\ UNCHANGED <<index, scene, kb, active, answer, left>>

\* ensure_index asks for the index, and makes it when it gets none.
Look(h) ==
  LET t == thread[h]
  IN  /\ At(h, "look")
      /\ \/ /\ Exists(StoreOf(t), IndexNamed(t))
            /\ GoOn(h, Tail(Rest(h)))
            /\ UNCHANGED <<kb, left>>
         \/ ~Exists(StoreOf(t), IndexNamed(t)) /\ Told(h)
         \/ Fails(h)
         \/ /\ left.failures > 0
            /\ left' = [left EXCEPT !.failures = @ - 1]
            /\ Done(h)
            /\ UNCHANGED kb
      /\ UNCHANGED <<index, scene, active, answer>>

\* The size of the vectors at hand; a schema names none.
SizeOf(t) == IF t.embedded = None THEN 0 ELSE Dimension[t.embedded]

Make(h) ==
  LET t == thread[h]
  IN  /\ At(h, "make")
      /\ IF CanCreate(StoreOf(t), IndexNamed(t))
         THEN \/ CreateIndex(StoreOf(t), IndexNamed(t), SizeOf(t)) /\ ToldOrLost(h)
              \/ Fails(h) /\ UNCHANGED index
         ELSE Fail(h) /\ UNCHANGED <<index, left>>
      /\ UNCHANGED <<scene, active, answer>>

Wipe(h) ==
  LET t == thread[h]
  IN  /\ At(h, "wipe")
      /\ \/ DropIndex(StoreOf(t), IndexNamed(t)) /\ ToldOrLost(h)
         \/ Fails(h) /\ UNCHANGED index
      /\ UNCHANGED <<scene, active, answer>>

\* Mutant: a query embeds with what is the default by now.
EmbeddingModelActive(t) ==
  IF t.op \in {"ask", "upload", "query"} THEN active.model ELSE Target(t.k)

\* The model a handler's texts are embedded with.
EmbeddingModel(t) ==
  IF t.op \in {"ask", "upload"} THEN active.model ELSE Target(t.k)

Embed(h) ==
  /\ At(h, "embed")
  /\ \/ /\ Proceed(h, [thread[h] EXCEPT !.embedded = EmbeddingModel(thread[h])])
        /\ UNCHANGED <<kb, left>>
     \/ Fails(h)
  /\ UNCHANGED <<index, scene, active, answer>>

\* The vector API's documents are nobody's.
PointOf(t) == [kb |-> IF t.op = "upload" THEN None ELSE t.k, doc |-> t.d, model |-> t.embedded]

Put(h) ==
  LET t == thread[h]
  IN  /\ At(h, "put")
      /\ IF Takes(StoreOf(t), IndexNamed(t), t.embedded)
         THEN \/ UpsertPoint(StoreOf(t), IndexNamed(t), PointOf(t)) /\ ToldOrLost(h)
              \/ Fails(h) /\ UNCHANGED index
         ELSE Fail(h) /\ UNCHANGED <<index, left>>
      /\ UNCHANGED <<scene, active, answer>>

\* _mark_knowledge_base_sync_ready
Settle(h) ==
  /\ At(h, "settle")
  /\ SetKb(thread[h].k, "ready", kb[thread[h].k].docs)
  /\ End(h)
  /\ UNCHANGED <<index, scene, active, answer, left>>

\* No deployment may use what is deleted or archived.
Count(h) ==
  /\ At(h, "count")
  /\ IF thread[h].k \in active.kbs THEN End(h) ELSE Done(h)
  /\ UNCHANGED <<index, scene, kb, active, answer, left>>

Purge(h) ==
  LET t == thread[h]
      s == Store(t.k)
      i == IndexOf(s, Name(t.k))
  IN  /\ At(h, "purge")
      /\ IF t.docs = {} THEN GoOn(h, <<"remove">>) /\ UNCHANGED <<index, kb, left>>
         ELSE IF ~CanDelete(s, i) THEN Fail(h) /\ UNCHANGED <<index, left>>
         ELSE \E d \in t.docs :
                \/ /\ DeletePoint(s, i, t.k, d)
                   /\ \/ /\ thread' = [thread EXCEPT ![h].docs = @ \ {d}]
                         /\ UNCHANGED <<kb, left>>
                      \/ Fails(h)
                \/ Fails(h) /\ UNCHANGED index
      /\ UNCHANGED <<scene, active, answer>>

\* Mutant: the reference does not hold it.
CanRemoveAny(k) == TRUE

\* The resources of a binding refer to it: ON DELETE RESTRICT.
CanRemove(k) == k \notin active.kbs

\* The index stays.
RemoveRow(h) ==
  LET k == thread[h].k
  IN  /\ At(h, "remove")
      /\ End(h)
      /\ IF CanRemove(k) /\ Here(k)
         THEN kb' = [kb EXCEPT ![k] = [Absent EXCEPT !.state = "gone"]]
         ELSE UNCHANGED kb
      /\ UNCHANGED <<index, scene, active, answer, left>>

WriteArchived(h) ==
  LET k == thread[h].k
  IN  /\ At(h, "archive")
      /\ End(h)
      /\ kb' = IF Here(k) THEN [kb EXCEPT ![k].active = FALSE, ![k].status = thread[h].status]
                          ELSE kb
      /\ UNCHANGED <<index, scene, active, answer, left>>

\* Mutant: the provider is not compared.
FitsAny(k, s) == Eligible(k)

\* _validate_vector_binding_resource
Fits(k, s) == Eligible(k) /\ Store(k) = s

Check(h) ==
  LET t == thread[h]
  IN  /\ At(h, "check")
      /\ IF t.docs = {} THEN GoOn(h, <<"bind">>)
         ELSE \E k \in t.docs :
                IF Fits(k, t.store) THEN thread' = [thread EXCEPT ![h].docs = @ \ {k}]
                                    ELSE End(h)
      /\ UNCHANGED <<index, scene, kb, active, answer, left>>

\* The binding and its resources are one transaction, which fails when one of
\* those refers to nothing.
WriteBinding(h) ==
  LET t == thread[h]
  IN  /\ At(h, "bind")
      /\ End(h)
      /\ active' = IF \A k \in t.kbs : Here(k)
                   THEN [active EXCEPT !.store = t.store, !.kbs = t.kbs] ELSE active
      /\ UNCHANGED <<index, scene, kb, answer, left>>

-----------------------------------------------------------------------------
(* Steps of those that read.                                               *)

Refuse(h) == End(h)

Load(h) ==
  /\ At(h, "load")
  /\ IF Eligible(thread[h].k) /\ Target(thread[h].k) # None THEN Done(h) ELSE Refuse(h)
  /\ UNCHANGED <<index, scene, kb, active, answer, left>>

\* The active vector store has to be the knowledge base's.
Provider(h) ==
  /\ At(h, "provider")
  /\ IF active.store = Store(thread[h].k) THEN Done(h) ELSE Refuse(h)
  /\ UNCHANGED <<index, scene, kb, active, answer, left>>

\* validate_runtime_vectorization_compatibility
Compare(h) ==
  /\ At(h, "compare")
  /\ IF active.model = Target(thread[h].k) THEN Done(h) ELSE Refuse(h)
  /\ UNCHANGED <<index, scene, kb, active, answer, left>>

SnapModel(h) ==
  /\ At(h, "model")
  /\ Proceed(h, [thread[h] EXCEPT !.model = active.model])
  /\ UNCHANGED <<index, scene, kb, active, answer, left>>

\* A binding's row and its resources are read by two statements.
SnapRow(h) ==
  /\ At(h, "row")
  /\ Proceed(h, [thread[h] EXCEPT !.store = active.store])
  /\ UNCHANGED <<index, scene, kb, active, answer, left>>

SnapResources(h) ==
  /\ At(h, "resources")
  /\ Proceed(h, [thread[h] EXCEPT !.kbs = active.kbs, !.torn = (active.store # thread[h].store)])
  /\ UNCHANGED <<index, scene, kb, active, answer, left>>

\* The knowledge base is among the bound ones that are active and ready.
Find(h) ==
  /\ At(h, "find")
  /\ IF thread[h].k \in thread[h].kbs /\ Eligible(thread[h].k) THEN Done(h) ELSE Refuse(h)
  /\ UNCHANGED <<index, scene, kb, active, answer, left>>

\* _validate_bound_vector_resource knows names.
Allow(h) ==
  /\ At(h, "allow")
  /\ IF \E k \in thread[h].kbs : Name(k) = Name(thread[h].k) THEN Done(h) ELSE Refuse(h)
  /\ UNCHANGED <<index, scene, kb, active, answer, left>>

\* The rows a search of this request asks for.
Limit(t) == IF t.method = "hybrid" THEN BranchTopK(t.top) ELSE t.top

SearchNear(h) ==
  LET t == thread[h]
      s == StoreOf(t)
      i == IndexNamed(t)
  IN  /\ At(h, "near")
      /\ IF Takes(s, i, t.embedded)
         THEN \/ /\ \E rows \in Near(s, i, scene.sem, Limit(t)) :
                      Proceed(h, [t EXCEPT !.near = Ranked(rows, "semantic"), !.seen = Points(s, i)])
                 /\ UNCHANGED <<kb, left>>
              \/ Fails(h)
         ELSE Refuse(h) /\ UNCHANGED <<kb, left>>
      /\ UNCHANGED <<index, scene, active, answer>>

SearchText(h) ==
  LET t == thread[h]
      s == StoreOf(t)
      i == IndexNamed(t)
  IN  /\ At(h, "match")
      /\ IF Exists(s, i)
         THEN \/ /\ \E rows \in Matches(s, i, scene.kw, Limit(t)) :
                      Proceed(h, [t EXCEPT !.match = Ranked(rows, "keyword"),
                                           !.seen = @ \cap Points(s, i)])
                 /\ UNCHANGED <<kb, left>>
              \/ Fails(h)
         ELSE Refuse(h) /\ UNCHANGED <<kb, left>>
      /\ UNCHANGED <<index, scene, active, answer>>

\* The engine embeds with the default of the snapshot it was sent ...
EngineModel(t) == t.model

EngineEmbed(h) ==
  /\ At(h, "engine_embed")
  /\ \/ /\ Proceed(h, [thread[h] EXCEPT !.embedded = EngineModel(thread[h])])
        /\ UNCHANGED <<kb, left>>
     \/ Fails(h)
  /\ UNCHANGED <<index, scene, active, answer>>

\* ... and asks the store of the snapshot, by a name of its own making.
EngineSearch(h) ==
  LET t == thread[h]
      i == EngineIndexOf(t.store, Name(t.k))
  IN  /\ At(h, "engine_near")
      /\ IF Takes(t.store, i, t.embedded)
         THEN \/ /\ \E rows \in EngineNear(t.store, i, scene.sem, t.top) :
                      Proceed(h, [t EXCEPT !.near = EngineRanked(rows)])
                 /\ UNCHANGED <<kb, left>>
              \/ Fails(h)
         ELSE Refuse(h) /\ UNCHANGED <<kb, left>>
      /\ UNCHANGED <<index, scene, active, answer>>

RowsOf(t) ==
  CASE t.method = "semantic" -> t.near
    [] t.method = "keyword"  -> t.match
    [] OTHER                 -> Fuse(t.near, t.match, t.alpha, t.top)

Answer(h) ==
  LET t == thread[h]
  IN  /\ At(h, "answer")
      /\ answer' = [answer EXCEPT ![h] =
                      [op |-> t.op, k |-> t.k, method |-> t.method, top |-> t.top,
                       store |-> StoreOf(t),
                       index |-> IF t.op = "chat" THEN EngineIndexOf(t.store, Name(t.k))
                                                  ELSE IndexNamed(t),
                       torn |-> t.torn,
                       embedded |-> t.embedded, rows |-> RowsOf(t), seen |-> t.seen]]
      /\ End(h)
      /\ UNCHANGED <<index, scene, kb, active, left>>

-----------------------------------------------------------------------------

Next ==
  \E h \in Handlers :
    \/ \E k \in KnowledgeBases :
         \/ Create(h, k) \/ Rebuild(h, k) \/ Drop(h, k) \/ Archive(h, k)
         \/ UseTool(h, k) \/ Chat(h, k) \/ Ask(h, k)
         \/ \E d \in Docs : Ingest(h, k, d) \/ Upload(h, k, d)
         \/ \E options \in Options : Query(h, k, options)
    \/ \E s \in Stores, kbs \in SUBSET KnowledgeBases : Bind(h, s, kbs)
    \/ \E m \in Models : ChooseModel(h, m)
    \/ Mark(h) \/ Insert(h) \/ List(h) \/ Each(h) \/ Look(h) \/ Make(h) \/ Wipe(h)
    \/ Embed(h) \/ Put(h) \/ Settle(h) \/ Count(h) \/ Purge(h) \/ RemoveRow(h)
    \/ WriteArchived(h) \/ Check(h) \/ WriteBinding(h)
    \/ Load(h) \/ Provider(h) \/ Compare(h) \/ SnapModel(h) \/ SnapRow(h)
    \/ SnapResources(h) \/ Find(h) \/ Allow(h) \/ SearchNear(h) \/ SearchText(h)
    \/ EngineEmbed(h) \/ EngineSearch(h)
    \/ Answer(h)

Spec == Init /\ [][Next]_vars

-----------------------------------------------------------------------------
(* Properties.                                                             *)

Answers == {answer[h] : h \in Handlers}
Answered(a) == {a.rows[i].point : i \in DOMAIN a.rows}

\* What a query or a tool says of the chunks of its knowledge base compares like
\* with like: they were embedded with the model that embedded the question, also
\* when the default model changed between the check and the embedding.
AnswersAreComparable ==
  \A a \in Answers : \A p \in Answered(a) :
    a.op \in {"query", "tool"} /\ a.method # "keyword" /\ p.kb = a.k
      => p.model = a.embedded

\* A knowledge chat reads the index the backend fills, by names the engine derives
\* on its own and a binding that others edit - unless the binding's row and its
\* resources were read on both sides of such an edit.
ChatReadsBackingIndex ==
  \A a \in Answers :
    a.op = "chat" /\ ~a.torn
      => a.store = Store(a.k) /\ a.index = IndexOf(Store(a.k), Name(a.k))

\* A chunk that both searches of a hybrid query could find, and that beats another
\* one in both, is not left out in its favour: neither by the reading of scores, nor by the limits of the
\* branches, nor by an absent score that counts as zero.  (A similarity below zero
\* counts less than none at all.)
HybridRespectsBranches ==
  \A a \in Answers :
    a.op = "query" /\ a.method = "hybrid" =>
      LET Text(p) == IF a.store \in Weaviate THEN scene.kw[p.doc]
                     ELSE IF scene.kw[p.doc] > 0 THEN One ELSE 0
      IN  \A p \in a.seen, q \in Answered(a) :
            /\ scene.sem[p.doc] >= 0
            /\ scene.sem[p.doc] > scene.sem[q.doc]
            /\ Text(p) > Text(q)
            => p \in Answered(a)

\* The active deployment is bound to knowledge bases that are there, however a
\* binding that is checked overlaps a deletion that counts the bindings.
BoundIsPresent == \A k \in active.kbs : Here(k)

\* "Runtime retrieval and ingestion paths still reject incomplete or mismatched
\* configurations" (docs/services/backend.md): a chat's question was embedded with
\* the model of the knowledge base.
EngineRejectsMismatch ==
  \A a \in Answers : a.op = "chat" => a.embedded = Target(a.k)
=============================================================================
