--------------------------- MODULE KnowledgeBase ---------------------------
(***************************************************************************)
(* One managed knowledge base of the backend: its documents (rows of       *)
(* Postgres), the chunks of their texts in a vector index, the directory   *)
(* source that feeds some of them, and the sync runs that two kinds of     *)
(* threads create and perform: request handlers and sync workers.          *)
(*                                                                         *)
(* Each call of a repository is one transaction, each call of the index    *)
(* adapter one request, and threads interleave between any two of them.    *)
(* So an operation is a plan: the sequence of the calls it still makes.    *)
(* A call may put further calls in front, and a failure replaces the rest  *)
(* of the plan by the operation's except clause.  Database calls do not    *)
(* fail, but the process may crash between any two of them.                *)
(***************************************************************************)
EXTENDS Naturals, Sequences, FiniteSets

CONSTANTS
  Handlers,     \* threads that serve requests
  Workers,      \* threads of sync_worker_loop
  ManualDocs,   \* documents created over the API, each with an id of its own
  Files,        \* files of the source; each is one document, of a fixed id
  Texts,        \* contents of documents and files
  ChunksOf,     \* how many batches of chunks a text is split into
  MaxChunks,    \* bound on these
  None,         \* no text
  Nobody,       \* no worker
  MaxRuns,      \* bound on the sync runs requested
  Scenarios     \* what may happen, each with bounds of its own

Threads == Handlers \cup Workers
Docs == ManualDocs \cup Files
Runs == 1..MaxRuns
NoRun == 0
\* Bounds on the requests served, the changes of the source and of its files,
\* the crashes of the process and the sync runs, and the workers and texts in
\* use.
Scenario == [requests : Nat, changes : Nat, crashes : Nat, runs : 0..MaxRuns,
             workers : SUBSET Workers, texts : SUBSET Texts]
Ordinals == 0..(MaxChunks - 1)

ASSUME KnowledgeAssumption ==
  /\ Handlers \cap Workers = {} /\ IsFiniteSet(Threads)
  /\ ManualDocs \cap Files = {} /\ IsFiniteSet(Docs)
  /\ Texts # {} /\ IsFiniteSet(Texts) /\ None \notin Texts \cup Docs
  /\ MaxChunks \in Nat /\ ChunksOf \in [Texts -> 1..MaxChunks]
  /\ Nobody \notin Threads
  /\ MaxRuns \in Nat /\ Scenarios \subseteq Scenario

VARIABLES
  kb,       \* sync_status and document_count of the knowledge base
  rows,     \* context_documents
  index,    \* the text each batch of chunks of a document was made from
  source,   \* the local_directory source
  files,    \* the texts in its directory
  runs,     \* context_knowledge_sync_runs, in the order of their start
  minted,   \* documents whose uuid4 was drawn
  thread,   \* what each thread still has to do
  room,     \* what is left of the bounds of the scenario
  alone,    \* history: the operation that nothing has overlapped, if any
  mixed     \* history: documents that two operations worked on at once

database == <<rows, runs, minted>>
history == <<room, alone, mixed>>
vars == <<kb, index, source, files, thread, database, history>>

Absent == [text |-> None, chunks |-> 0, linked |-> FALSE]
Row(text, linked) ==
  [text |-> text, chunks |-> ChunksOf[text], linked |-> linked]
NoRows == [d \in Docs |-> Absent]
EmptyIndex == [d \in Docs |-> [c \in Ordinals |-> None]]

Stored(d) == rows[d].text # None
StoredDocs == {d \in Docs : Stored(d)}
\* list_source_documents: source_id is NULL once the source was deleted.
Linked == {d \in Files : Stored(d) /\ rows[d].linked}
Present == {f \in Files : files[f] # None}

-----------------------------------------------------------------------------
(* The calls each operation makes.                                         *)

DocumentDone == <<"list", "count", "result">>
DeletePlan == <<"mark", "unindex", "remove">> \o DocumentDone

SyncSource == <<"mark_source", "scan", "prune", "list", "count">>

\* Deviation: the row is updated before the old chunks are deleted.
UpdateRowFirst == <<"mark", "chunk", "update", "upsert", "unindex">> \o DocumentDone

UpdatePlan ==
  <<"mark", "chunk", "unindex", "update", "upsert">> \o DocumentDone

\* Deviation: a resync writes over the index it finds.
ResyncInPlace ==
  <<"mark", "reconcile", "snapshot", "each_stored",
    "list", "count", "result", "finish">>

ResyncPlan ==
  <<"mark", "reconcile", "snapshot", "wipe", "each_stored",
    "list", "count", "result", "finish">>

Program ==
  [create |-> <<"mark", "chunk", "insert", "upsert">> \o DocumentDone,
   update |-> UpdatePlan,
   delete |-> DeletePlan,
   drop |-> <<"mark", "each_pruned", "drop_source">> \o DocumentDone,
   edit |-> <<"result">>,
   request_sync |-> <<"mark", "mark_source">>,
   request_resync |-> <<"mark">>,
   sync |-> <<"resolve", "mark">> \o SyncSource
              \o <<"finish", "source_result", "result">>,
   resync |-> ResyncPlan]

Ops == DOMAIN Program \cup {"none"}
Calls == {"mark", "chunk", "insert", "upsert", "unindex", "update", "remove",
          "each_pruned", "drop_source", "resolve", "reconcile",
          "mark_source", "scan", "each_file", "prune", "snapshot", "wipe",
          "each_stored", "recount", "list", "count", "finish",
          "source_result", "result"}

Among(call, plan) == \E i \in 1..Len(plan) : plan[i] = call

\* The except clause that an exception in the middle of L's plan enters.
Rescue(L) ==
  CASE L.op = "create" -> <<"remove">> \o DocumentDone
    [] L.op = "sync" -> <<"finish", "source_result", "result">>
    [] L.op = "resync" /\ Among("source_result", L.plan)
                       /\ ~Among("mark_source", L.plan)
         -> <<"source_result", "finish", "result">>
    [] L.op = "resync" /\ ~(Among("source_result", L.plan)
                            /\ ~Among("mark_source", L.plan))
         -> <<"finish", "result">>
    [] OTHER -> <<"result">>

Local(op, doc, text) ==
  [op |-> op, plan |-> IF op = "none" THEN <<>> ELSE Program[op],
   result |-> "ready", doc |-> doc, text |-> text, n |-> 0,
   todo |-> {}, seen |-> {}, snap |-> NoRows, run |-> NoRun]

Idling == Local("none", None, None)
Idle(t) == thread[t].plan = <<>>

\* Types of the variables.
TypeOK ==
  /\ kb \in [status : {"ready", "syncing", "error"}, count : 0..Cardinality(Docs)]
  /\ rows \in [Docs -> [text : Texts \cup {None}, chunks : 0..MaxChunks,
                        linked : BOOLEAN]]
  /\ index \in [Docs -> [Ordinals -> Texts \cup {None}]]
  /\ source \in [exists : BOOLEAN, active : BOOLEAN,
                 status : {"ready", "syncing", "error"}]
  /\ files \in [Files -> Texts \cup {None}]
  /\ runs \in [Runs -> [op : {"sync", "resync"},
                        status : {"new", "queued", "running", "ready", "error",
                                  "deleted"}]]
  /\ minted \subseteq ManualDocs
  /\ \A t \in Threads :
       /\ thread[t].op \in Ops
       /\ thread[t].plan \in Seq(Calls)
       /\ thread[t].result \in {"ready", "syncing", "error"}
       /\ thread[t].doc \in Docs \cup {None}
       /\ thread[t].text \in Texts \cup {None}
       /\ thread[t].n \in Nat
       /\ thread[t].todo \subseteq Docs /\ thread[t].seen \subseteq Files
       /\ thread[t].run \in Runs \cup {NoRun}
       /\ thread[t].op \in {"sync", "resync"} <=> thread[t].run # NoRun
  /\ room \in Scenario
  /\ alone \subseteq Threads
  /\ mixed \subseteq Docs

Init ==
  /\ kb = [status |-> "ready", count |-> 0]
  /\ rows = NoRows
  /\ index = EmptyIndex
  /\ source = [exists |-> TRUE, active |-> TRUE, status |-> "ready"]
  /\ room \in Scenarios
  /\ files \in [Files -> room.texts \cup {None}]
  /\ runs = [r \in Runs |-> [op |-> "sync", status |-> "new"]]
  /\ minted = {}
  /\ thread = [t \in Threads |-> Idling]
  /\ alone = {}
  /\ mixed = {}

-----------------------------------------------------------------------------
(* Threads.                                                                *)

At(t, call) == ~Idle(t) /\ Head(thread[t].plan) = call

\* What L does next is the rest of its plan; at its end the thread is idle.
Become(t, L) ==
  thread' = [thread EXCEPT ![t] = IF L.plan = <<>> THEN Idling ELSE L]
Continue(t, L) == Become(t, [L EXCEPT !.plan = Tail(@), !.n = 0])
Proceed(t) == Continue(t, thread[t])
CallFirst(t, L, calls) == Become(t, [L EXCEPT !.plan = calls \o @, !.n = 0])
\* An exception outside the try statement: the operation just ends.
Escape(t) == thread' = [thread EXCEPT ![t] = Idling]
Fail(t) ==
  Become(t, [thread[t] EXCEPT !.plan = Rescue(thread[t]), !.result = "error", !.n = 0,
                              !.todo = {}, !.seen = {}, !.snap = NoRows])

Touched(L) ==
  CASE L.op \in {"create", "update", "delete"} -> {L.doc}
    [] L.op \in {"sync", "drop"} -> Files
    [] L.op = "resync" -> Docs
    [] OTHER -> {}

Start(t, L) ==
  LET others == {u \in Threads \ {t} : ~Idle(u)}
  IN  /\ Idle(t)
      /\ thread' = [thread EXCEPT ![t] = L]
      /\ alone' = IF others = {} THEN {t} ELSE {}
      /\ mixed' = mixed \cup (Touched(L) \cap
                              UNION {Touched(thread[u]) : u \in others})

-----------------------------------------------------------------------------
(* Requests.                                                               *)

Create(t, d, x) ==
  /\ d \notin minted
  /\ minted' = minted \cup {d}
  /\ Start(t, Local("create", d, x))
  /\ UNCHANGED <<kb, rows, index, source, files, runs>>

\* update_knowledge_base_document and delete_knowledge_base_document read
\* the row first; its chunk_count is what they delete from the index.
Existing(op, d, x) == [Local(op, d, x) EXCEPT !.snap[d] = rows[d]]

Update(t, d, x) ==
  /\ Stored(d)
  /\ Start(t, Existing("update", d, x))
  /\ UNCHANGED <<kb, index, source, files, database>>

Delete(t, d) ==
  /\ Stored(d)
  /\ Start(t, Existing("delete", d, None))
  /\ UNCHANGED <<kb, index, source, files, database>>

DropSource(t) ==
  /\ source.exists
  /\ Start(t, [Local("drop", None, None) EXCEPT !.todo = Linked, !.snap = rows])
  /\ UNCHANGED <<kb, index, source, files, database>>

\* update_knowledge_base writes back the sync_status it read.
EditKnowledgeBase(t) ==
  /\ Start(t, [Local("edit", None, None) EXCEPT !.result = kb.status])
  /\ UNCHANGED <<kb, index, source, files, database>>

Submit(op) ==
  \E r \in 1..room.runs :
    /\ runs[r].status = "new"
    /\ \A q \in 1..(r - 1) : runs[q].status # "new"
    /\ runs' = [runs EXCEPT ![r] = [op |-> op, status |-> "queued"]]

\* The run is queued before the knowledge base is marked.
RequestSync(t) ==
  /\ source.exists /\ source.active
  /\ Submit("sync")
  /\ Start(t, Local("request_sync", None, None))
  /\ UNCHANGED <<kb, index, source, files, rows, minted>>

RequestResync(t) ==
  /\ Submit("resync")
  /\ Start(t, Local("request_resync", None, None))
  /\ UNCHANGED <<kb, index, source, files, rows, minted>>

\* Somebody else changes what a sync reads.
Disturbed ==
  /\ room.changes > 0
  /\ room' = [room EXCEPT !.changes = @ - 1]
  /\ alone' = {}

\* update_knowledge_source archives the source or activates it again.
UpdateSource ==
  /\ source.exists
  /\ source' = [source EXCEPT !.active = ~@]
  /\ Disturbed
  /\ UNCHANGED <<kb, index, files, thread, database, mixed>>

Request(t) ==
  /\ room.requests > 0
  /\ room' = [room EXCEPT !.requests = @ - 1]
  /\ \/ \E d \in ManualDocs, x \in room.texts : Create(t, d, x) \/ Update(t, d, x)
     \/ \E d \in ManualDocs : Delete(t, d)
     \/ DropSource(t)
     \/ EditKnowledgeBase(t)
     \/ RequestSync(t)
     \/ RequestResync(t)

-----------------------------------------------------------------------------
(* Calls to the database.                                                  *)

Mark(t) ==
  /\ At(t, "mark")
  /\ kb' = [kb EXCEPT !.status = "syncing"]
  /\ Proceed(t)
  /\ UNCHANGED <<index, source, files, database, history>>

Result(t) ==
  /\ At(t, "result")
  /\ kb' = [kb EXCEPT !.status = thread[t].result]
  /\ Proceed(t)
  /\ UNCHANGED <<index, source, files, database, history>>

\* _refresh_document_count lists the documents and then writes their number.
List(t) ==
  /\ At(t, "list")
  /\ Become(t, [thread[t] EXCEPT !.plan = Tail(@), !.n = Cardinality(StoredDocs)])
  /\ UNCHANGED <<kb, index, source, files, database, history>>

Count(t) ==
  /\ At(t, "count")
  /\ kb' = [kb EXCEPT !.count = thread[t].n]
  /\ Proceed(t)
  /\ UNCHANGED <<index, source, files, database, history>>

MarkSource(t) ==
  /\ At(t, "mark_source")
  /\ source' = IF source.exists THEN [source EXCEPT !.status = "syncing"]
                                ELSE source
  /\ Proceed(t)
  /\ UNCHANGED <<kb, index, files, database, history>>

SourceResult(t) ==
  /\ At(t, "source_result")
  /\ source' = IF source.exists THEN [source EXCEPT !.status = thread[t].result]
                                ELSE source
  /\ Proceed(t)
  /\ UNCHANGED <<kb, index, files, database, history>>

Insert(t) ==
  LET L == thread[t]
  IN  /\ At(t, "insert")
      /\ IF L.doc \in Files /\ (Stored(L.doc) \/ ~source.exists)
         THEN Fail(t) /\ UNCHANGED rows  \* primary or foreign key violated
         ELSE /\ rows' = [rows EXCEPT ![L.doc] = Row(L.text, L.doc \in Files)]
              /\ Proceed(t)
      /\ UNCHANGED <<kb, index, source, files, runs, minted, history>>

UpdateRow(t) ==
  LET L == thread[t]
  IN  /\ At(t, "update")
      /\ IF ~Stored(L.doc) \/ (L.doc \in Files /\ ~source.exists)
         THEN Fail(t) /\ UNCHANGED rows
         ELSE /\ rows' = [rows EXCEPT ![L.doc] = Row(L.text, L.doc \in Files)]
              /\ Proceed(t)
      /\ UNCHANGED <<kb, index, source, files, runs, minted, history>>

Remove(t) ==
  LET L == thread[t]
  IN  /\ At(t, "remove")
      /\ rows' = [rows EXCEPT ![L.doc] = Absent]
      /\ IF L.op = "delete" /\ ~Stored(L.doc) THEN Fail(t) ELSE Proceed(t)
      /\ UNCHANGED <<kb, index, source, files, runs, minted, history>>

\* set_document_chunk_count.
Recount(t) ==
  LET L == thread[t]
  IN  /\ At(t, "recount")
      /\ rows' = IF Stored(L.doc)
                 THEN [rows EXCEPT ![L.doc].chunks = ChunksOf[L.text]]
                 ELSE rows
      /\ Proceed(t)
      /\ UNCHANGED <<kb, index, source, files, runs, minted, history>>

\* The source's documents survive without a source, its runs do not.
DeleteSourceRow(t) ==
  /\ At(t, "drop_source")
  /\ IF source.exists
     THEN /\ source' = [source EXCEPT !.exists = FALSE]
          /\ rows' = [d \in Docs |-> [rows[d] EXCEPT !.linked = FALSE]]
          /\ runs' = [r \in Runs |->
                        IF runs[r].op = "sync" /\ runs[r].status # "new"
                        THEN [runs[r] EXCEPT !.status = "deleted"] ELSE runs[r]]
          /\ Proceed(t)
     ELSE Fail(t) /\ UNCHANGED <<source, rows, runs>>
  /\ UNCHANGED <<kb, index, files, minted, history>>

-----------------------------------------------------------------------------
(* Calls to the index and the embedding provider, which may fail.          *)

\* Chunking runs before the try statement of a create or an update.
Chunk(t) ==
  /\ At(t, "chunk")
  /\ Proceed(t) \/ Escape(t)
  /\ UNCHANGED <<kb, index, source, files, database, history>>

\* _delete_document_chunks: the ids 0..chunk_count-1 of the row read before.
Unindex(t) ==
  LET L == thread[t]
  IN  /\ At(t, "unindex")
      /\ IF L.n = L.snap[L.doc].chunks
         THEN Proceed(t) /\ UNCHANGED index
         ELSE \/ /\ index' = [index EXCEPT ![L.doc][L.n] = None]
                 /\ Become(t, [L EXCEPT !.n = @ + 1])
              \/ Fail(t) /\ UNCHANGED index
      /\ UNCHANGED <<kb, source, files, database, history>>

\* _upsert_document_chunks: one request per batch of chunks.
Upsert(t) ==
  LET L == thread[t]
  IN  /\ At(t, "upsert")
      /\ IF L.n = ChunksOf[L.text]
         THEN Continue(t, [L EXCEPT !.text = None]) /\ UNCHANGED index
         ELSE \/ /\ index' = [index EXCEPT ![L.doc][L.n] = L.text]
                 /\ Become(t, [L EXCEPT !.n = @ + 1])
              \/ Fail(t) /\ UNCHANGED index
      /\ UNCHANGED <<kb, source, files, database, history>>

\* delete_index and ensure_index: either may fail.
Wipe(t) ==
  /\ At(t, "wipe")
  /\ \/ index' = EmptyIndex /\ Proceed(t)
     \/ index' \in {index, EmptyIndex} /\ Fail(t)
  /\ UNCHANGED <<kb, source, files, database, history>>

-----------------------------------------------------------------------------
(* _sync_knowledge_source_documents.                                       *)

Scan(t) ==
  LET L == thread[t]
  IN  /\ At(t, "scan")
      /\ Become(t, [L EXCEPT !.plan = <<"each_file">> \o Tail(@),
                             !.todo = Present, !.seen = Present])
      /\ UNCHANGED <<kb, index, source, files, database, history>>

\* One file: it may be unreadable by now; its document is new, unchanged or
\* changed.
IndexFile(t, f) ==
  LET x == files[f]
      L == [thread[t] EXCEPT !.todo = @ \ {f}, !.doc = f, !.text = x,
                             !.snap = [NoRows EXCEPT ![f] = rows[f]]]
  IN  IF x = None THEN Fail(t)
      ELSE IF f \notin Linked THEN CallFirst(t, L, <<"insert", "upsert">>)
      ELSE IF rows[f] = Row(x, TRUE) THEN CallFirst(t, L, <<>>)
      ELSE CallFirst(t, L, <<"unindex", "update", "upsert">>)

EachFile(t) ==
  /\ At(t, "each_file")
  /\ IF thread[t].todo = {}
     THEN Continue(t, [thread[t] EXCEPT !.doc = None, !.snap = NoRows])
     ELSE \/ \E f \in thread[t].todo : IndexFile(t, f)
          \/ Fail(t)
  /\ UNCHANGED <<kb, index, source, files, database, history>>

Prune(t) ==
  LET L == thread[t]
  IN  /\ At(t, "prune")
      /\ Become(t, [L EXCEPT !.plan = <<"each_pruned">> \o Tail(@), !.snap = rows,
                             !.todo = Linked \ L.seen, !.seen = {}])
      /\ UNCHANGED <<kb, index, source, files, database, history>>

EachPruned(t) ==
  LET L == thread[t]
  IN  /\ At(t, "each_pruned")
      /\ IF L.todo = {}
         THEN Continue(t, [L EXCEPT !.doc = None, !.snap = NoRows])
         ELSE \E d \in L.todo :
                CallFirst(t, [L EXCEPT !.todo = @ \ {d}, !.doc = d],
                          <<"unindex", "remove">>)
      /\ UNCHANGED <<kb, index, source, files, database, history>>

-----------------------------------------------------------------------------
(* perform_knowledge_base_resync_run.                                      *)

Reconcile(t) ==
  LET L == thread[t]
  IN  /\ At(t, "reconcile")
      /\ \/ /\ source.exists /\ source.active
            /\ \/ Become(t, [L EXCEPT !.plan = SyncSource \o <<"source_result">>
                                                 \o Tail(@)])
               \/ Fail(t)     \* the directory is gone
         \/ ~(source.exists /\ source.active) /\ Proceed(t)
      /\ UNCHANGED <<kb, index, source, files, database, history>>

Snapshot(t) ==
  /\ At(t, "snapshot")
  /\ Continue(t, [thread[t] EXCEPT !.todo = StoredDocs, !.snap = rows])
  /\ UNCHANGED <<kb, index, source, files, database, history>>

\* _chunk_document_for_resync reads the file of a source's document again.
\* It remembers the source once read, which with one file is no difference.
TextToIndex(row, d) ==
  IF d \in Files /\ row.linked /\ source.exists /\ source.active
  THEN files[d] ELSE row.text

EachStored(t) ==
  LET L == thread[t]
      Rebuild(d, x) ==
        CallFirst(t, [L EXCEPT !.todo = @ \ {d}, !.doc = d, !.text = x],
                  IF L.snap[d].chunks = ChunksOf[x] THEN <<"upsert">>
                  ELSE <<"recount", "upsert">>)
  IN  /\ At(t, "each_stored")
      /\ IF L.todo = {}
         THEN Continue(t, [L EXCEPT !.doc = None, !.snap = NoRows])
         ELSE \/ \E d \in L.todo :
                   /\ TextToIndex(L.snap[d], d) # None
                   /\ Rebuild(d, TextToIndex(L.snap[d], d))
              \/ Fail(t)
      /\ UNCHANGED <<kb, index, source, files, database, history>>

-----------------------------------------------------------------------------
(* Sync runs.                                                              *)

Oldest(r) ==
  /\ runs[r].status = "queued"
  /\ \A q \in 1..(r - 1) : runs[q].status # "queued"

\* Deviation: the run that is claimed stays "queued".
ClaimUnmarked(w) ==
  \E r \in Runs :
    /\ Oldest(r)
    /\ Start(w, [Local(runs[r].op, None, None) EXCEPT !.run = r])
    /\ UNCHANGED <<kb, index, source, files, database, room>>

\* Deviation: a run is claimed only while no other one is running.
ClaimAlone(w) ==
  \E r \in Runs :
    /\ Oldest(r)
    /\ \A q \in Runs : runs[q].status # "running"
    /\ runs' = [runs EXCEPT ![r].status = "running"]
    /\ Start(w, [Local(runs[r].op, None, None) EXCEPT !.run = r])
    /\ UNCHANGED <<kb, index, source, files, rows, minted, room>>

Claim(w) ==
  \E r \in Runs :
    /\ Oldest(r)
    /\ runs' = [runs EXCEPT ![r].status = "running"]
    /\ Start(w, [Local(runs[r].op, None, None) EXCEPT !.run = r])
    /\ UNCHANGED <<kb, index, source, files, rows, minted, room>>

\* perform_knowledge_source_sync_run looks for the source and its directory
\* before its try statement: the run stays "running".
Resolve(t) ==
  /\ At(t, "resolve")
  /\ (source.exists /\ Proceed(t)) \/ Escape(t)
  /\ UNCHANGED <<kb, index, source, files, database, history>>

FinishRun(t) ==
  /\ At(t, "finish")
  /\ runs' = IF runs[thread[t].run].status = "deleted" THEN runs
             ELSE [runs EXCEPT ![thread[t].run].status = thread[t].result]
  /\ Proceed(t)
  /\ UNCHANGED <<kb, index, source, files, rows, minted, history>>

-----------------------------------------------------------------------------

Work(t) ==
  \/ Mark(t) \/ Result(t) \/ List(t) \/ Count(t)
  \/ MarkSource(t) \/ SourceResult(t)
  \/ Insert(t) \/ UpdateRow(t) \/ Remove(t) \/ Recount(t) \/ DeleteSourceRow(t)
  \/ Chunk(t) \/ Unindex(t) \/ Upsert(t) \/ Wipe(t)
  \/ Scan(t) \/ EachFile(t) \/ Prune(t) \/ EachPruned(t)
  \/ Reconcile(t) \/ Snapshot(t) \/ EachStored(t)
  \/ Resolve(t) \/ FinishRun(t)

\* The directory belongs to others.
FileChanges ==
  /\ \E f \in Files : \E x \in room.texts \cup {None} :
       x # files[f] /\ files' = [files EXCEPT ![f] = x]
  /\ Disturbed
  /\ UNCHANGED <<kb, index, source, thread, database, mixed>>

\* Every thread is gone; ensure_knowledge_sync_worker_started fails the runs
\* that were claimed long enough ago, once, before it starts its workers.
CrashAndRestart ==
  /\ room.crashes > 0
  /\ room' = [room EXCEPT !.crashes = @ - 1]
  /\ thread' = [t \in Threads |-> Idling]
  /\ alone' = {}
  /\ \E stale \in 0..MaxRuns :
       runs' = [r \in Runs |-> IF runs[r].status = "running" /\ r <= stale
                               THEN [runs[r] EXCEPT !.status = "error"]
                               ELSE runs[r]]
  /\ UNCHANGED <<kb, rows, index, source, files, minted, mixed>>

\* Nothing was asked that is not done.
Quiet ==
  /\ \A t \in Threads : Idle(t)
  /\ \A r \in Runs : runs[r].status # "queued"
  /\ UNCHANGED vars

Next ==
  \/ \E h \in Handlers : Request(h)
  \/ \E w \in room.workers : Claim(w)
  \/ \E t \in Threads : Work(t)
  \/ UpdateSource
  \/ FileChanges
  \/ CrashAndRestart
  \/ Quiet

Spec == Init /\ [][Next]_vars

\* The operating system keeps the worker threads running, and they keep polling.
FairSpec == Spec /\ \A w \in Workers : WF_vars(Work(w) \/ (w \in room.workers /\ Claim(w)))

-----------------------------------------------------------------------------
(* Properties.                                                             *)

Indexed(d, x) ==
  index[d] = [c \in Ordinals |->
                IF x # None /\ c < ChunksOf[x] THEN x ELSE None]

\* Whatever fails or crashes half-way, the chunks in the index of a document
\* that no two operations worked on at once are covered by the chunk_count
\* of its row, which is all that a later delete removes, and those of a
\* document created over the API are chunks of its present text.
ChunksHaveRows ==
  \A d \in StoredDocs \ mixed : \A c \in Ordinals :
    index[d][c] # None =>
      /\ c < rows[d].chunks
      /\ d \in ManualDocs => index[d][c] = rows[d].text

\* An operation that removes a document's row, other than a create that
\* failed, has removed all its chunks from the index.
RemovalLeavesNoChunk ==
  \A t \in Threads :
    /\ At(t, "remove") /\ thread[t].op # "create"
    /\ thread[t].doc \notin mixed
    => Indexed(thread[t].doc, None)

\* No chunk outlives what it was made from, except that of a create that
\* failed and of documents that operations overlapped on: the index holds no
\* chunk of a stored document that its row does not account for, and a row
\* that is removed leaves none behind.
NoStaleChunk == TypeOK /\ ChunksHaveRows /\ RemovalLeavesNoChunk

\* A resync that nothing overlapped and that reports success leaves the
\* index exactly the chunks of the stored documents, whatever earlier
\* failures, crashes and overlaps left in it.
ResyncRebuilds ==
  \A t \in alone :
    At(t, "finish") /\ thread[t].op = "resync" /\ thread[t].result = "ready"
      => \A d \in Docs : Indexed(d, rows[d].text)

\* A source sync that nothing overlapped and that reports success has left
\* one document per file, with the text of the file.
SyncMirrorsFiles ==
  \A t \in alone :
    At(t, "finish") /\ thread[t].op = "sync" /\ thread[t].result = "ready"
      => Linked = Present /\ \A f \in Linked : rows[f] = Row(files[f], TRUE)

\* An operation that nothing overlapped marks the knowledge base "ready"
\* with the number of its documents.
ReadyCountIsExact ==
  \A t \in alone :
    At(t, "result") /\ thread[t].op # "edit" /\ thread[t].result = "ready"
      => kb.count = Cardinality(StoredDocs)

\* Success means what it says, of an operation that nothing overlapped.
\* (That a sync has put the documents in the index as well, as
\* docs/services/backend.md:155 has it, is not true, see the README.)
SuccessIsTrue == ReadyCountIsExact /\ SyncMirrorsFiles /\ ResyncRebuilds

\* The sync runs are a job queue whose jobs are held by the thread that will
\* still finish them.
RunHolder(r) ==
  LET holders == {t \in Threads : thread[t].run = r
                                    /\ Among("finish", thread[t].plan)}
  IN  IF runs[r].status = "running" /\ holders # {}
      THEN CHOOSE t \in holders : TRUE ELSE Nobody

RunStatus(r) ==
  CASE runs[r].status = "ready" -> "done"
    [] runs[r].status = "error" -> "failed"
    [] OTHER -> runs[r].status

Queue == INSTANCE JobQueue WITH
           MaxJobs <- MaxRuns,
           status <- [r \in Runs |-> RunStatus(r)],
           holder <- [r \in Runs |-> RunHolder(r)]

\* A sync run is claimed once, in order, by one worker, and is final once it
\* is finished: not run again, and not finished twice.
RunsAreQueued == Queue!QueueSpec

\* A queued run is eventually claimed, whatever becomes of the runs before.
QueuedRunsAreServed ==
  \A r \in Runs : runs[r].status = "queued" ~> runs[r].status # "queued"
=============================================================================
