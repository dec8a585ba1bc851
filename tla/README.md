# VANESSA: models, checks and proofs

VANESSA is a platform for local and cloud language models: a Flask backend with
Postgres, a FastAPI agent engine, a local model runtime that supervises one vLLM
child, an LLM gateway, an MCP gateway, a sandbox, vector stores, and a number of
small services in front of models. This directory keeps TLA+ models of the parts
whose state is written by several threads, requests or restarts; the TLC
configurations that check them on small instances; and the theorems that TLAPS
proves for every instance.

Everything is translated from the code. A definition's place in the code is in
`PROJECT.json` under `map`; the hazards it is checked against, with their lines,
are there under `hazards`.

- [What the system consists of](#what-the-system-consists-of)
- [The modules](#the-modules)
- [The runs](#the-runs)
- [The proofs](#the-proofs)
- [Where the code and its documents disagree](#where-the-code-and-its-documents-disagree)
- [What is not modelled](#what-is-not-modelled)
- [The plan](#the-plan)

To repeat the checks, in this directory:

    tlc -workers 2 -config RuntimeController.cfg MCRuntimeController.tla
    tlapm ServicesProofs.tla

## What the system consists of

### Components with a state machine of their own

| Component | State | Operations | What is hard about it |
|---|---|---|---|
| **Local model runtime** (`llm_runtime/runtime_app`) | the reported `RuntimeState`, the vLLM child, one waiter thread per load | load, unload, start-up, shutdown; the waiter polls, probes, reports, times out | waiters of replaced loads are never joined; probes run without the lock; all children share one port; the child exits, hangs in kill or never starts |
| **Local slots of providers** (`platform_local_slots`, `platform_bootstrap`, `embeddings_service`) | the slot keys in a provider's `config_json`, and the runtime's slot | bootstrap and reconcile (every request), assign, clear, edit the provider, recover | the row is written from what was read before; no lock spans the row and the runtime; a call that is late is sent twice; the runtime restarts with another model |
| **Knowledge bases** (`context_management_*`, `knowledge_sync_worker`) | rows of documents and of the knowledge base, chunks in a vector index, directory sources, sync runs | create, update, delete a document; create, edit, sync, delete a source; resync; worker threads that perform runs | rows and index are separate stores with no common transaction; every batch may fail; several operations overlap; the process may crash between any two calls |
| **Retrieval** (`context_management_retrieval*`, `platform_adapters`, `agent_engine/app/retrieval`) | indexes and their points in Weaviate or Qdrant, the rows of knowledge bases, the active deployment | query, knowledge tool, knowledge chat, the vector API; create, fill, rebuild, archive, delete a knowledge base; change the deployment | an answer uses rows, bindings and a default model read at different moments; names of indexes are converted; hybrid ranking joins two limited searches |
| **Managed models** (`modelops_*`, `model_download_worker`) | `model_registry`, validations, test runs, credentials, download jobs | create, register, test, validate, activate, deactivate, unregister, delete, change or revoke a credential, download | every request reads a row, checks it, and writes in a later transaction without comparing |
| **Deployment profiles and runtime profile** (`platform_deployments`, `platform_bootstrap`, `platform_runtime`) | profiles and their bindings, the active profile, online/offline | create, clone, update, rename, bind, unbind, delete, activate, switch the runtime profile, resolve for an execution | each request first runs a bootstrap that writes `local-default` anew, one binding per transaction |
| **Bindings and their judges** (`platform_bindings`, `platform_serialization`, `platform_service`, `platform_providers`) | the resources, default and policy of each binding, the models, knowledge bases, credentials and providers they name | save, activate, edit what is bound; judge: validators, configuration status, preflight, validation of a provider, listing | five pieces of code judge one binding, each by rules of its own and at a moment of its own |
| **Agent projects, catalog, registry** (`agent_projects_*`, `catalog_service`, `repositories/registry`) | entities, versions, projects with their history | create, update, enable, delete; create, edit, publish, delete a project | each is several transactions; a version number is computed from rows read before |
| **Tools and MCP servers** (`catalog_service`, `mcp_gateway`, `sandbox`, `services/*_tools`) | tools, servers, validations, the invocation log, the sandbox's queue and files | edit, validate, delete, over the catalog or the registry below it; bootstrap; call by an agent, test, execute | a call passes four processes, each with a time-out and retries of its own; what it checked is edited meanwhile |
| **Agent engine** (`agent_engine/app`) | executions and their records, the conversation's workflow state, the connection pool | execute, stream, look up | gate reads rows while they change; streams outlive their client; one server thread, shared connections, retries, crashes |
| **Answers** (`llm/app`, `platform_adapters`, `runtime_clients/llm`, `playgrounds_service`) | the stream of one answer at each of four hops, and the message that keeps it | read, pass on, fall back to another model, time out, save | each hop reads while the one before may break, stall or be restarted |
| **Conversations and workflow sessions** (`playground*`) | messages, the action of a message with its lease, `agent_workflow_runs` | create with the greeting of the first cycle, turn, start the next cycle, delete | a turn reads the run, calls the engine for minutes, and upserts; messages and run are different transactions; claims run out |
| **Accounts** (`auth_handlers`, `auth_lifecycle`, `auth_request_context`) | users with role and activity, flags of the initialisation | initialise, register, log in, activate, change roles | counts and checks are read before the write; the first requests initialise at once |

### Components without one

The keyword and image services hold loaded models and decide nothing over time.
Sharing, quotes, logs and traffic are single-row edits. The frontend and the
infrastructure files hold no state others rely on. Each is listed under
`components` in `PROJECT.json` with its reason.

### How they interact

- The backend calls the runtime controller over HTTP (`/v1/admin/*`), and keeps
  what it asked for in the provider's `config_json`. Every request of the platform
  compares the two and asks for a load when they differ.
- The agent engine reads agents, servers, rules and shares from the tables that
  the backend's handlers write, each in a transaction of its own. It calls the
  sandbox and the image services directly, and other tools over the MCP gateway,
  which calls the backend.
- A turn of a conversation is one execution of the engine; the workflow's state
  travels in the answer and back with the next turn. The answer itself may stream
  from the model over the LLM gateway, the engine and the backend to the page.
- A deployment profile binds capabilities (`llm_inference`, `vector_store`, ...)
  to providers, and resources (managed models, knowledge bases) to the bindings.
  An execution resolves the active profile into a snapshot and hands it to the
  agent engine, which never reads the tables itself. A knowledge chat therefore
  searches the store of the snapshot, a query of the backend that of the row.
- Deleting a model or a knowledge base counts the bindings that use it; the
  count and the deletion are different transactions.
- The runtime profile (online or offline) is read by the lifecycle of models, by
  activation of deployments and by every outgoing call.
- Sync runs and downloads are rows of a table that the worker threads of the
  backend poll. Restart of the process reconciles rows left `running`, if they
  are old enough.

### What makes each correct

- **Runtime**: no child outlives the slot; what is reported is what is held; what
  is advertised is served; an emptied slot stays empty; a load does not stay
  `loading`.
- **Slots**: the row says what the operator chose last; the backend loads nothing
  else; a runtime that lost the chosen model is made to load it again.
- **Knowledge bases**: no chunk that the rows cannot account for; what an operation
  that reports success says is so, whatever failures came before; each run is
  performed once and eventually.
- **Retrieval**: what is bound exists; an answer compares vectors of one model; a
  chat reads the index the backend fills; hybrid ranking keeps what both searches
  prefer.
- **Models**: a model that is served was tested and validated in just the
  configuration it has; each download is run once. Image models that the bootstrap
  takes from a provider's inventory are outside of this: it marks them validated and
  activates them without a test ([below](#what-is-not-modelled)).
- **Deployments**: the active profile exists and is complete; a snapshot is of
  one profile; offline, nothing of the cloud is resolved.
- **Bindings**: what was accepted can be activated, what was activated can be used,
  as long as nothing it names has changed.
- **Registry and projects**: a current version is unique and the latest; the
  history of a project is exact; a publication delivers what it read.
- **Tools**: a result was computed by the attempt that is waited for; nothing runs
  twice but after a loss; nothing runs that no server allowed since the call came;
  what the catalog puts behind a server was found valid, or vouched for at start; an
  update of a server replaces the version that it read.
- **Engine**: what runs was allowed while it was in the gate; no answer is another
  request's; what a caller was told is what is looked up later; a completed
  workflow has everything it asked for; an execution ends.
- **Answers**: the page shows the text of one attempt; an answer said to be complete
  is whole, shown and kept; a stream that ends with an error kept nothing, a request
  without a stream that does kept no part of an answer; a request ends whatever
  breaks.
- **Conversations**: messages come in pairs and in order; an action starts its
  cycle once per lease and is given back when that fails; the run stands where the
  messages stand and never goes back.
- **Accounts**: a superadmin remains unless two demotions overlap; an initialisation
  that may succeed does.

## The modules

    RuntimeSlot (abstract) <- RuntimeController    (KeepsTheSlot)      <- ServicesProofs
                           <- LocalSlots           (composition)       <- LocalSlotsProofs
    JobQueue (abstract)    <- KnowledgeBase        (RunsAreQueued)     <- KnowledgeBaseProofs
                           <- ModelLifecycle       (DownloadsAreQueued) <- ModelLifecycleProofs
    Deployments, BindingContents                                       <- DeploymentsProofs
      both in MCDeployments, as scenes of one run
    VectorStores <- Ranking <- Retrieval                               <- RetrievalProofs
    HttpPool, AgentCatalog  <- AgentEngine         (composition)       <- AgentEngineProofs
    ToolCatalog <- ToolCalls                                           <- ServicesProofs
    WorkflowChat                                                       <- RequestsProofs
    Accounts                                                           <- RequestsProofs
    AnswerStream                                                       <- RequestsProofs

Each component that is run has an `MC...` module with its small instances. A comment
above each definition says what it stands for where its name does not.

### RuntimeController

`llm_runtime/runtime_app/controller.py`, with `main.py` for start-up and shutdown.

| Model | Code |
|---|---|
| `state`, `process` | `self._state`, `self._process` |
| `phase` | the FastAPI application starting, up, down |
| `child[n]`, `waiter[n]` | the child and the `_await_runtime_ready` thread of the n-th load; the waiter's locals |
| `Start`, `Load`, `LoadWithoutChild` | `load_model`, and `load_model` whose `Popen` raises after `loading` was published |
| `UnloadModel`, `AdminRequestFails` | `unload_model`; a request whose `_stop_process_locked` raises because the child survives SIGKILL for longer than the wait |
| `StartupEmpty`, `StartupLoads`, `StartupRefused`, `Shutdown` | `startup`, `shutdown` |
| `WaiterChecks`, `WaiterRunsOut`, `WaiterPolls`, `SleepAndRetry`, `WaiterProbes`, `WaiterHears`, `WaiterReportsExit`, `WaiterReportsReady`, `WaiterTimesOut` | the loop of `_await_runtime_ready` between its acquisitions of the lock |
| `ChildServes`, `ChildExits` | the vLLM child (external) |

A section under `self._lock` is one step. Between two sections a waiter asks
`process.poll()` and the shared HTTP port, so those are steps of their own, and
the answer it gets is that of whatever child listens then. The deadline
passes after any round, and after `MaxPolls` at the latest. A probe that fails with
a `URLError` is tried again; one whose child goes away before it answers raises an
exception nobody catches, which ends the thread (`died`). Requests refused with `ValueError` change nothing and are left
out, except at start-up, where the refusal is recorded in the state.

### RuntimeSlot

What the controller promises to the rest of the platform: one slot that a load
names, an unload empties, and only the outcome of that load changes in between; a
report never changes which model the slot names, and an empty slot stays empty.
`RuntimeController` implements it with `slot` mapped to `self._state`
(`KeepsTheSlot`, checked and proved). An abstract report may also repeat itself,
which stands for the waiters of one id that overtake each other.

### LocalSlots

The slot as the backend sees it, composed with `RuntimeSlot` in place of the
controller.

| Model | Code |
|---|---|
| `row` | `loaded_managed_model_id`, `loaded_runtime_model_id`/`loaded_local_path`, `load_state` in the provider's `config_json` |
| `phase`, `runtime`, `label` | the runtime's application, `RuntimeState`, and the managed model named with the last load |
| `handler[h]` | the locals of a request thread: the row it read (`mine`), what it resolved |
| `Begin`, `Ensure`, `Ask`, `Reload`, `Store` | the bootstrap before every request: read the provider, write its row anew, ask for the runtime's state, ask for a load, write what was learned (`reconcile_provider_local_slot`) |
| `WriteAssigned`/`CallLoad`/`Report`, `WriteCleared`/`CallUnload`/`Report`, `WriteUpdated` | `assign_provider_loaded_model`, `clear_provider_loaded_model`, `update_provider` |
| `Reread`, `Inspect` | `recover_provider_local_slot_runtime`, called when an embedding fails |
| `Resent`, `Unanswered`, `Escape` | a call that was carried out but is sent again after its timeout (`platform_adapters.py:99-130`), one that fails whether carried out or not, a request cut short |
| `RuntimeRuns`, `RuntimeStops`, `RuntimeRestarts` | start-up, reports, shutdown, a new container |

A model stands for its runtime id and its path, which are written together. Names,
source ids, error texts and providers without a `runtime_admin_base_url` are left
out, as is the slot that is only displayed. A stored "reconciling" does not occur.

Two histories mark what can be promised. `wish` is what the operator asked for
last, by a request that no other one overlapped; it is `Unknown` after an edit of
the provider (which forgets the slot), after a clear that was not carried out (the
runtime's label then brings the model back), and after an assign or clear that
another request overlapped (whose bootstrap writes the old slot back). `mixed`
marks that a load failed while the runtime held another model: the row then names
the chosen managed model with the other model's id, and from the next request on
the two count as aligned, so that the chosen model is shown as loaded and is never
asked for again (`platform_local_slots.py:471-475`, `:187-225`).

### KnowledgeBase

One knowledge base, its directory source, and the threads that serve requests
(`Handlers`) and perform runs (`Workers`).

An operation of the code is a sequence of calls to three stores: a transaction
per repository call, a request per batch of the index. The model takes that
literally: `thread[t].plan` is the sequence of calls the thread still makes, one
action is one call, and threads interleave between any two. A call may put
further calls in front (`EachFile`, `EachPruned`, `EachStored`: the loops over
files and rows), and a failure replaces the rest of the plan by the operation's
`except` clause (`Rescue`). `Program` gives the plan of each operation, so the
order of the calls, which most hazards are about, can be read off one definition.

| Model | Code |
|---|---|
| `UpdatePlan`, `DeletePlan`, `Program` | `create_`, `update_`, `delete_knowledge_base_document` |
| `SyncSource` with `Scan`, `EachFile`, `IndexFile`, `Prune`, `EachPruned` | `perform_knowledge_source_sync_run`, `_sync_knowledge_source_documents` |
| `ResyncPlan` with `Wipe`, `Snapshot`, `EachStored`, `Reconcile`, `Recount` | `perform_knowledge_base_resync_run` |
| `Create`, `Update`, `Delete`, `DropSource`, `UpdateSource`, `EditKnowledgeBase`, `RequestSync`, `RequestResync` | the requests |
| `Claim`, `Resolve`, `FinishRun`, `Escape` | `sync_worker_loop` and the run's row |
| `Upsert`, `Unindex`, `Fail` | batches of the index, and a batch that fails |
| `FileChanges` | files under the source root (external) |
| `CrashAndRestart` | end of the process and `reconcile_stale_sync_runs` at the next start |

Database calls do not fail in the model; the process may crash instead, between
any two. Failures of the index may happen after part of the batches were written.
A text is a model value; `ChunksOf` says how many batches it is split into.

The code has no lock and no row version, so it promises nothing about a document
that two operations work on at once. Two history variables express the promises
it does make: `mixed` collects documents on which two operations overlapped,
and `alone` holds the operation that nothing has overlapped since it began. They
record only; no guard reads them.

### ModelLifecycle

`model_registry` and what decides over its rows. A request reads (`Begin...`),
checks, and writes in a later transaction (`Create`, `SetLife`, `Delete`,
`ChangeCredential`, `Validate`, `MarkRevoked`, ...); each write is an
unconditional `UPDATE`, as in `repositories/modelops.py`. `FindSecret`, `Reread`
and `FindTestRun` are the reads that happen in between and are used later. A row
keeps the configuration (`config`), the fingerprint stored with it (`print`), and
the fingerprint of the last validation (`tested`): the fingerprint is a function
of the configuration, so it is represented by the configuration it was computed
from. `is_validation_current` and `last_validation_status` are only ever written
together and are one flag, `validated`.

Downloads are the second source of rows: `QueueDownload` after the row was
written by the request, then `ClaimDownload`, `Fetch`, `Store`, `Report` by
`download_worker_loop`, with `Escape` for its outer `except` and
`CrashAndRestart` for the end of the process and `reconcile_stale_running_jobs`.

`disturbed` is a history of the models on which operations overlapped, or one was
cut by an exception or a crash.

### JobQueue

What both tables of jobs promise, and nothing of what a job does: claimed in the
order submitted, held by one worker, final once finished; a worker may let go of
a job without finishing it; a restart fails the jobs that ran for too long.
`KnowledgeBase` and `ModelLifecycle` map their runs and jobs to it with `INSTANCE
... WITH`; the mapping takes the status from the row and the holder from the
thread that is at it.

### Deployments

| Model | Code |
|---|---|
| `profiles` | `platform_deployment_profiles` with the bindings |
| `active`, `runtime` | `platform_active_deployment`, the runtime profile |
| `Seed`, `List`, `SeedBinding`, `Elect`, `ActivateFirst` | `ensure_platform_bootstrap_state`, which runs before the request itself |
| `Create`, `FindSource`/`Clone`, `Update`, `FindIdentity`/`Identify`, `Upsert`, `FindInactive`/`Removable`/`Unbind`, `FindDeletable`/`Delete` | the edits in `platform_deployments` |
| `FindBindings`, `Preflight`, `Current`, `Activate` | activation, from the checks to the upsert |
| `FindActive`, `CheckOffline`, `SwitchOffline`, `SwitchOnline` | the switch of the runtime profile |
| `ReadBinding`, `Permit`, `Resolved` | resolution of the active bindings for an execution |
| `Escape` | a refusal, or an exception, wherever a request is |

Each action is one transaction; a transaction that uses what an earlier statement
of its own read, while others may commit between the two, is two actions
(`FindInactive` and `Unbind`: the statement that takes the row lock decides from
its snapshot whether the profile is active). Ids of profiles are never reused,
as UUIDs are not: a deleted profile keeps its id as a tombstone. A client names a
profile that exists when its request begins. Providers are fixed and healthy, and
the resources of a binding are left out. The audit table gets the same pair of
profiles as the active row, in the same transaction, and is left out. A capability
is bound only to a provider of that capability, which
`_resolve_deployment_bindings` enforces.

The bootstrap reads the bindings of `local-default` first and preserves their
providers, except that of `sandbox_execution`, which it always rebinds to its
default (the constant `Unread`).

### BindingContents

What the bindings of one profile carry, and the five pieces of code that judge
them. `Deployments` takes the contents for granted; this module takes the profile's
life for granted. `MCDeployments` runs both, each in scenes of its own.

| Model | Code |
|---|---|
| `bound`, `Content` | the bindings of the profile with resources, default, mode and policy |
| `models`, `bases`, `instances` | what the judges read of `model_registry`, `context_knowledge_bases` and `platform_provider_instances`, and what answers at a provider's URL |
| `Save`, `Drop` with `IsValid` | `upsert_`, `delete_deployment_profile_binding` with the validators of `platform_bindings` |
| `IsReady`, `ProfileIsReady` | `_binding_configuration_status`, `compute_deployment_configuration_status` |
| `PassesPreflight`, `ActivateBound`, `Retire` | `_validate_deployment_profile_bindings` with `platform_preflight`, and another profile's activation |
| `ProviderIsValid` | `validate_provider` |
| `Resolves`, `ListingWorks` | `resolve_*_adapter`, `get_active_capability_statuses` |
| `TurnModel`, `TurnBase`, `Enable`, `Revoke`, `DeleteInstance`, `Turn` | whatever else changes under a binding: models, knowledge bases, providers, credentials, the service itself (external) |

The rules are kept as they are, with what they overlook: a default named by an id
that is not the model's is accepted and stored as no default
(`platform_bindings.py:517` against `_replace_binding_resources`); an image binding
that does not say `task_defaults` is accepted and reported ready; the preflight
does not ask for an embeddings default, `validate_provider` does; status and
preflight look at neither the lifecycle nor the validation of a model; one disabled
optional provider fails the whole listing. The premises of the parts of
`JudgesAgree` name these gaps, and nothing else.

### Retrieval

`VectorStores` has the two stores as their adapters use them, `Ranking` the scores,
`Retrieval` the requests.

| Model | Code |
|---|---|
| `index`, `WeaviateClass`, `QdrantCollection`, `CreateIndex`, `DropIndex`, `UpsertPoint`, `DeletePoint`, `Near`, `Matches` | `WeaviateVectorStoreAdapter`, `QdrantVectorStoreAdapter`; the engine's clients have conversions and queries of their own (`Engine...`) |
| `Ranking` | `context_management_retrieval_scoring`: relevance of a branch, fusion, order, cut |
| `kb`, `active` | rows of `context_knowledge_bases`, the deployment's binding with its default model |
| `Create`, `Ingest`, `Rebuild`, `Drop`, `Archive`, `Bind`, `ChooseModel` | the edits, with `Mark`, `Insert`, `List`, `Each`, `Look`, `Make`, `Wipe`, `Embed`, `Put`, `Settle`, `Count`, `Purge`, `RemoveRow`, `WriteArchived`, `Check`, `WriteBinding` as their transactions and requests |
| `Query`, `UseTool`, `Chat`, `Ask`, `Upload` | the readers: the test query and the tool of the backend, a knowledge chat over the engine, the vector API; `Load`, `Provider`, `Compare`, `SnapModel`, `SnapRow`, `SnapResources`, `Find`, `Allow`, `SearchNear`, `SearchText`, `EngineEmbed`, `EngineSearch`, `Answer` |

A point is the chunk of a document together with the model that embedded it, so
that a comparison of vectors of two models shows. Scores are integers: a relevance
of 1 is `One`, the weight of the branches is counted in steps of `1/Weight`. The
semantic branch is not cut by the backend, as in the code. Names of indexes are
sequences of parts, since what a conversion drops is what lies between the parts;
`a1_2` and `a_12` become one Weaviate class, which the model keeps.

Deleting a knowledge base leaves its index, so that one created later under the
same name reads leftovers; a collection that Qdrant creates from a schema has the
default size and refuses real chunks; a Qdrant whose collection is missing fails a
deletion. These are in the model because they are in the code.

### HttpPool

`_PooledHttpClient` and `http_json_request` of the engine, for one origin: `pool`
are the idle connections, `unread` says whose answer comes next on a connection,
`call[t]` is where a thread is between `Acquire`, `Send`, `AwaitHead`, `Read`,
`Return`, with `Retry` (once, on a new connection) and `ReadFails` (`discard`).
The calls of the language model use a pool of their own and are outcomes here.

### AgentCatalog

Registry and one agent project. A request is a `plan` of transactions
(`BeginCreate`, `BeginUpdate`, `BeginDelete`, `BeginPublish`, ...), each an action
(`Insert`, `Snapshot`/`Supersede`/`Commit` of `create_registry_version`, `Status`,
`Remove`, `Find`, `Link`, ...), and `Cut` drops the rest, as an exception does.
`overlapped` and `undisturbed` are histories. Publication validates nothing in the
code, so neither does it here; explicit version numbers of the registry's own
routes, discovery of remote tools and what a specification holds are left out.

### AgentEngine

`EXTENDS` both: an execution passes the gate (`ResolveAgent`, `ReadPolicy`,
`ReadShares`, `ResolveTools`, one transaction each) while `Administer` and
`ChangeAccess` change what it reads, then works (`Plan`, `Input`, `Tool`, `Judge`,
`Output` of a workflow, `Round` of a "react" agent), calls tools over `HttpPool`,
and is recorded (`Save`, `Lookup`, with memory and database, of which the latter
may lose a write and the former is lost in `EngineCrash`). The server has one
thread (`serving`); a stream whose client left goes on beside it (`Leave`).
A superadmin (constant `Superadmins`) bypasses rules and shares. A tool or model
that is not there blocks an execution at any time (`Block`). Rules and shares are
added and never revoked beside an execution, shares go with their entity, and an
agent created anew is somebody else's until it is shared. `seen`, `basis` and
`called` are histories.

### ToolCatalog and ToolCalls

`ToolCatalog` edits tools and servers (`tools`, `verdict`, `passed`, `servers`;
`EditBegins`, `EditStep`), each edit a lookup, a check and a write in transactions
of their own. Three parts of the backend write these rows:

| Model | Code |
|---|---|
| `UpdateTool`, `ValidateTool`, `CreateServer`, `UpdateServer`, `SwitchServer`, `DeleteServer`, then `FindTool`, `WriteTool`, `JudgeTool`, `LoadServer`, `FindServer`, `CheckSlug`, `ReadTool`, `ReadVerdict`, `CreateEntity`, `WriteServer`, `DropServer` | the catalog (`catalog_service.py`), which checks the slug, and the tool behind a server |
| `EnterTool`, `RegisterServer`, `EnterServer`, `WriteEntry` | the registry's own routes (`registry_service.py`), which check nothing of both and let the caller name the version |
| `Seed`, `ListToolVersions`, `LatestTool`, `VouchForTool`, `FindSeeded`, `ListServerVersions` | the bootstrap of a process (`ensure_builtin_tools`), which marks the version it finds current as validated without a check, and puts its server back as it should be |

`seen` in a server is the version of the tool that the catalog checked before it
wrote the server, 0 when somebody else wrote it. `passed` are the versions that were
found valid or vouched for, `steady` the servers that neither the registry nor a
deletion has touched since their first version: histories. `ToolCalls` calls them:

| Model | Code |
|---|---|
| `call`, `request` | the caller (an agent of the engine, a test or an execution by a superadmin) and its request over a pool, which is sent once more when it is lost before the response has begun |
| `gateway` | `mcp_gateway/app/main.py`, with its eight seconds |
| `inv`, `allowed`, `log` | `invoke_catalog_mcp_server` in the backend and `mcp_invocations` |
| `sandbox` | `sandbox/app/main.py`: one request at a time, its result files; an exception of `subprocess.run` other than its time-out ends the connection and leaves the file (`SandboxRaises`) |
| `images` | the gateways of the image services, one call per worker |
| `reply`, `ran` | responses nobody has read, attempts that ran the tool to its end |

Each call has two attempts, since a request may be served twice. The engine calls
sandbox and image tools directly; only knowledge and web tools pass the gateway, the
check of the backend and the log. A slug is unique by a check in Python alone, and a
server goes on running whatever version of its tool is current, validated or not
(`catalog_service.py:1561` looks when the server is written); a tool or a server
entered over the registry needs no check. The properties are stated around these.

### AnswerStream

One answer on its way: `model`, `wire`, `gateway`, `line`, `caller`, `queue`,
`relay`, `page`. A hop is a small machine that reads what the one before sent
(`GatewayStep`, `CallerStep`, `RelayStep`); the model refuses, breaks, stalls and
goes on as it likes (`ModelRefuses`, `ModelBreaks`, `ModelStalls`, `ModelGoesOn`;
external). `EngineDies` and `Leave` (a browser that stops) are the other mishaps.
The routes are a plain chat (the adapter of the backend calls the model), an agent
and a knowledge chat (the engine does, and the relay reads the engine). What fails
while an answer is kept breaks a stream off; without a stream the handler catches it
and returns an error (`Raised`, `playgrounds.py:172`), though the pair of messages may
be committed. Tokens name
the attempt they belong to; `whole` are the texts that a model declared finished.
Statuses are reduced to that of the model call.

### WorkflowChat

One conversation with a published workflow agent.

| Model | Code |
|---|---|
| `conversation`, `lock`, `messages` | `chat_conversations` with its row lock, `chat_messages` with the action in a message's metadata |
| `run` | the row of `agent_workflow_runs` |
| `CreateSession`, `SendMessage`, `StartCycle`, `DeleteSession` | the requests, plain or streamed |
| `LoadCreate`, `LoadTurn`, `EngineAnswers`, `LockConversation`, `InsertMessages`, `RereadRun`, `UpsertRun` | their transactions around the engine's call |
| `CheckStart`, `Claim`, `Consume`, `Restore`, `LeaseRunsOut` | the action that starts the next cycle, and its lease |
| `LoseSettings`, `Fail`, `Crash` | settings that cannot be read (any exception is taken for "no workflow"), exceptions, a lost process |

The mode (loop or one-time) is that of the published agent and fixed. An expired
claim is taken over by a compare-and-set that compares only the state, so two
takers may both succeed; the properties speak of one lease (`late`). Titles, the
change of the assistant, attachments, knowledge and temporary playgrounds are left
out.

### Accounts

The rows of users (`account`), who logged in (`token`), the flags of the
initialisation (`auth`), the environment (`env`) and the threads (`task`). A
request is `Arrive`, then `EnsureInitialized` with `CountUsers`,
`CreateSuperadmin`, `FinishInitialization` where it is the first, `Authenticate`,
and the transactions of its handler: `Register`, `Login`, `LookUpPending` and
`Activate`, `LookUpTarget`, `CountSuperadmins` and `UpdateRole`. `clash` marks that
a demotion was written while another had counted and not yet written: the one way
in which no superadmin remains (`auth_handlers.py:222`).

## The runs

| Run | Module and `.cfg` | Properties | What it shows |
|---|---|---|---|
| `runtime_slot` | `RuntimeController` | `ChildIsAccounted`, `KeepsTheSlot`, `TimeoutKillsItsModel`, `LoadingResolves` | three overlapping loads, with children that exit, hang in kill or never start: one child at most runs and it is the one reported, late waiters change nothing they should not, the controller implements `RuntimeSlot`, and a load that holds a child ends as loaded, failed or replaced unless its waiter died |
| `slots` | `LocalSlots` | `SlotFollowsOperator`, `LoadsFollowOperator`, `SlotHeals` | the operator's requests, one after the other or overlapping with others, failed and repeated calls, a request cut short, a restart of the runtime: the row and the loads follow the operator, and the runtime is brought back |
| `knowledge` | `KnowledgeBase` | `NoStaleChunk`, `SuccessIsTrue`, `RunsAreQueued`, `QueuedRunsAreServed` | requests, a changing directory, runs of one or two workers and a crash: rows account for the index, what reports success is so, the runs implement the job queue and are claimed |
| `models` | `ModelLifecycle` | `ServedWasTested`, `DownloadsAreQueued` | five requests, two downloads, one cut or crash: a model that is active, or counts as validated, was tested as it is; the downloads implement the job queue |
| `deployments` | `Deployments` | `ActiveIsComplete`, `SnapshotIsSound`, `JudgesAgree` | three requests by two threads over three profiles, from a fresh or a booted platform; in scenes of their own, three changes to or around the bindings of a profile |
| `engine` | `AgentEngine` | `AnswerIsOwn`, `RegistryIsInLine`, `ProjectHistoryIsExact`, `AnswerIsKept`, `AdmittedWasAllowed`, `OutputHasInputs`, `ExecutionsEnd` | executions, connections and registry together, in nine scenarios that each stress one part |
| `chat` | `WorkflowChat` | `MessagesInPairs`, `ActionsAreUsedOnce`, `RunFollowsMessages`, `RunAdvances` | four requests on a conversation with failures, lost settings, crashes or a deletion |
| `accounts` | `Accounts` | `AccountsInvariant`, `AccountsComeUp` | a superadmin remains unless two demotions overlap; threads that initialise at once do not shut each other out |
| `stream` | `AnswerStream` | `OneAttemptShown`, `AnswerIsKeptWhole`, `StreamEnds` | one answer over each route, with up to two mishaps: the page shows one attempt, a complete answer is what was shown and kept, an error keeps no part of one, and the request ends |
| `tools` | `ToolCalls` | `RunsFollowCalls`, `RunWasAllowed`, `EditsAreSafe`, `CallsEnd` | every backend and caller with two mishaps, two calls that share the sandbox, a server edited under a call, two editors of catalog, registry and bootstrap: results come from the run that is waited for, what runs was allowed, what the catalog wrote was checked, updates replace what they read |
| `retrieval` | `Retrieval` | `AnswersAreComparable`, `ChatReadsBackingIndex`, `HybridRespectsBranches`, `BoundIsPresent` | readers overlap edits of knowledge bases and deployment; one hybrid query over all scores of three documents |
| `mismatch` | `Retrieval`, `RetrievalMismatch` | `EngineRejectsMismatch`, violated | see [below](#where-the-code-and-its-documents-disagree) |

The module is that with `MC` before its name. Type invariants are proved, or left
to the runs' properties, which would fail on a value out of its type; no run
repeats them.

### Bounds, and why they suffice

- **Runtime**: two ids, three loads, one further round of a waiter,
  child 2 unkillable. The hazards need two waiters of the same
  id and a third load that replaces both; an id is only compared, so two of them
  give "same" and "other". The proofs lift these bounds for every safety property.
- **Slots**: two models, one of which the runtime starts with or not. One after the
  other: two requests of the operator, two failures, a restart; overlapping: two
  requests, or one with a failure or a restart, beside any number of reads. Two
  requests are what it takes to change one's mind. The proofs lift these bounds for
  the two safety properties.
- **Knowledge bases**: one document of the API and one file, each with a text of
  one batch and one of two, so that an update may shrink and grow a document and
  fail half-way. `Documents` has three requests: enough for create, update and
  delete of a document one after the other, or overlapping. `Syncs` has two runs,
  since what a failed sync leaves shows in the next; `CrashedDocuments` and
  `CrashedSyncs` add the crash; `Polls` has two workers and one text, since nothing
  about contents is asked.
- **Retrieval**: `Fusion` ranks three documents by every similarity of -1 to 2 and
  every keyword score of 0 to 2, which three weights order in all ways, once per
  store; overfetching is scaled down (factor 2, at least 1, at most 2, against 3, 10
  and 50) so that the limits cut. `Asked` has four readers or changes of the
  deployment, `Changed` the edits of two knowledge bases over each store and with
  colliding names, `Open` the vector API. The proofs lift these bounds.
- **Models**: one model, since rows of different models meet only in a credential
  and in the queue; two credentials, one setting of a cloud model, and the three
  of a local one; five requests, which is one more than the shortest way to an
  active model (create, test, validate, activate); two handlers, two workers, two
  jobs, one crash or cut. The proofs lift them.
- **Deployments**: two required capabilities and, bound by the bootstrap between
  the two, an optional one that it binds without regard to what there is; a local
  and a cloud provider for one, a second local one for another; three profiles: the
  seeded one, one that is active, one that is activated. Three requests in two
  threads let two overlap and a third prepare their state. **Bindings**: every kind
  of capability, a model of each kind, a default by another id, a knowledge base
  with vectors of its own; three changes to a binding or activations, one of them
  around it, which reach each pair of judges. The proofs lift the bounds of both.
- **Engine**: `Registry` (two handlers, four requests that overlap) and `Failures`
  (one handler, two tasks cut short) are about the registry; `Admission` has an
  execution in the gate, four kinds of access, a request and a change beside it;
  `Bypass` the same for a superadmin; `Turns` two turns of a workflow with a tool,
  overlapping or one after the other, the second of which may reuse the first one's
  connection; `Losses` a crash and a lost write; `Republished` another
  specification between two turns; `Empty` a workflow without actions; `Rounds` two
  executions of an agent that calls its tool up to its bound. Each scenario has
  what its hazard takes; everything at once would not fit a run. The proofs cover
  all scenarios at once, for the safety properties.
- **Conversations**: four requests: a session, a turn that completes a cycle, and
  two that start the next one. Two of them overlap with one failure or crash, three
  overlap with none, or they come one after the other with two failures and a
  crash; three requests for lost settings and for a deletion.
- **Accounts**: the superadmin of the environment and one more, which two demotions
  need; five requests are a login, two demotions and what they need; the database
  fails once during the first two requests.
- **Answers**: two tokens are a text that can be cut in the middle; one model or
  two; two mishaps are a failure and one while recovering from it.
- **Tools**: one call with two mishaps for every backend and caller; two calls only
  where they share something, the sandbox; one editor beside a tested server; two
  editors without a call, with two servers, slugs and tools. The versions that a
  registry request names are the first, the one after it, one that leaves a gap, and
  a name without a number (`MCNamed`). Two editors are what it takes to check in one
  and write in the other, and the bootstrap's server and tool are there at the start.

Bounds on counters stand in the guards of the actions that raise them
(`MaxLoads`, `MaxPolls`, `MaxRuns`, `MaxRequests`, `MaxCrashes`, `MaxJobs`,
`MaxChanges`, `MaxTurns`, and the fields of the records in `Scenarios`, `Rooms`,
`Scenes`, `Setups` and `AccountBounds`). The runs `runtime_slot`, `slots`,
`knowledge`, `models` and `deployments` look for deadlocks: the only states that may
stay for ever are explicit there, where nothing was asked that is not done (`Quiet`,
`Settled`) or the container is gone (`Exited`). The others rest when the bounded
number of requests has been made, so they do not look for deadlocks;
`ExecutionsEnd`, `AccountsComeUp`, `StreamEnds` and `CallsEnd` say that nothing
hangs.

### Fairness

- `RuntimeController!FairSpec`: weak fairness of each waiter thread. The operating
  system schedules daemon threads, and everything a waiter does has a timeout: the
  HTTP call, the sleep, the wait for a killed child. Nothing is assumed of the
  children and nothing of the clients. A waiter killed by an unexpected exception
  of its probe is excluded in the property, as the code never replaces it.
- `LocalSlots!FairSpec`: weak fairness of the steps of each request thread: its
  calls have timeouts, and nobody holds a lock its statements wait for. Whether
  requests come at all is the operator's business: `SlotHeals` has it as a premise
  (`[]<><<Look>>_vars`). The runtime is not assumed to report anything.
- `KnowledgeBase!FairSpec`: weak fairness of each worker, at its next call or at
  claiming. Threads keep running, each call returns or raises, and the worker loop
  polls for ever. No fairness of requests, file changes or crashes.
- `AgentEngine!FairSpec`: weak fairness of each execution's thread: a model answers
  or times out, and so does a tool. Rounds and iterations are bounded by the code.
- `Accounts!AccountsFairness`: weak fairness of the steps of each thread.
- `AnswerStream!StreamFairness`: weak fairness of the model's sending, the gateway,
  the caller and the relay. A model that stalls sends nothing; it is the time-out
  of whoever reads that goes on.
- `ToolCalls!CallsFairness`: weak fairness of the processes that serve calls taken
  together, less than fairness of each; every wait of theirs has a time-out.

All other runs check safety and assume none.

## The proofs

Each theorem holds for every value of the constants. The only assumptions are those
the modules declare, which TLC evaluates in every run: values that stand for
"nothing" are none of the things, sets that share a universe are disjoint, bounds
are numbers, tables and texts are finite (`ConstantsAssumption`, `LifecycleAssumption`, `DeploymentsAssumption`,
`ContentsAssumption`, `NoBindingAssumption`, `PoolAssumption`, `CatalogAssumption`,
`EngineAssumption`, `KnowledgeAssumption`, `StoresAssumption`, `RankingAssumption`,
`RetrievalAssumption`, `ToolsAssumption`, `ScenesAssumption`, `AccountAssumption`, `StreamAssumption`, `ChatAssumption`, `NoRunAssumption`).

| Module | Theorem | Statement | Checked in |
|---|---|---|---|
| `ServicesProofs` | `Invariance` | `Spec => []ControllerInv`, of `RuntimeController` | |
| | `TypeCorrect`, `NoOrphan`, `ReportsHeldChild`, `SoleLoaded` | the types and the three parts of the next one | |
| | `ChildAccounted` | `Spec => []ChildIsAccounted` | `runtime_slot` |
| | `TimeoutIsLocal` | `Spec => TimeoutKillsItsModel` | `runtime_slot` |
| | `SlotIsKept` | `Spec => KeepsTheSlot`, the refinement of `RuntimeSlot` | `runtime_slot` |
| | `RunsAreAccountedFor` | `CallsSpec => []RunsFollowCalls` | `tools` |
| | `RunsAreAllowed` | `CallsSpec => []RunWasAllowed` | `tools` |
| | `EditsStaySafe` | `CallsSpec => EditsAreSafe` | `tools` |
| `LocalSlotsProofs` | `Invariance`, `TypesAreKept` | `Spec => []IInv`, `Spec => []TypeOK` | |
| | `OperatorIsFollowed` | `Spec => []SlotFollowsOperator` | `slots` |
| | `LoadsAreChosen` | `Spec => LoadsFollowOperator` | `slots` |
| `ModelLifecycleProofs` | `LifecycleInvariant` | `Spec => [](TypeInv /\ FitInv)` | |
| | `ServedModelsWereTested` | `Spec => []ServedWasTested` | `models` |
| | `DownloadsImplementQueue` | `Spec => DownloadsAreQueued`, the refinement of `JobQueue` | `models` |
| `DeploymentsProofs` | `ActiveStaysComplete` | `Spec => []ActiveIsComplete` | `deployments` |
| | `SnapshotsAreSound` | `Spec => []SnapshotIsSound` | `deployments` |
| | `JudgesStayInAgreement` | `ContentSpec => []JudgesAgree` | `deployments` |
| `KnowledgeBaseProofs` | `TypeCorrect` | `Spec => []TypeOK` | |
| | `RunsImplementQueue` | `Spec => RunsAreQueued`, the refinement of `JobQueue` | `knowledge` |
| | `ChunksStayAccounted` | `Spec => []NoStaleChunk` | `knowledge` |
| | `SuccessStaysTrue` | `Spec => []SuccessIsTrue` | `knowledge` |
| `RequestsProofs` | `SuperadminIsLeft` | `AccountsSpec => []AccountsInvariant` | `accounts` |
| | `ConversationIsPaired` | `Spec => []MessagesInPairs`, of `WorkflowChat` | `chat` |
| | `ActionsAreSettled` | `Spec => []ActionsAreUsedOnce` | `chat` |
| | `RunIsMovedForward` | `Spec => RunAdvances` | `chat` |
| | `RunStandsWithMessages` | `Spec => []RunFollowsMessages` | `chat` |
| | `OneAttemptIsShown` | `StreamSpec => []OneAttemptShown` | `stream` |
| | `AnswersStayWhole` | `StreamSpec => []AnswerIsKeptWhole` | `stream` |
| `RetrievalProofs` | `BoundStaysPresent` | `Spec => []BoundIsPresent` | `retrieval` |
| | `ChatFindsIndex` | `Spec => []ChatReadsBackingIndex` | `retrieval` |
| | `AnswersStayComparable` | `Spec => []AnswersAreComparable` | `retrieval` |
| | `HybridStaysFair` | `Spec => []HybridRespectsBranches` | `retrieval` |
| `AgentEngineProofs` | `PoolIsSafe` | types, exclusive connections and `AnswerIsOwn` of the client alone | `engine` |
| | `CatalogIsSafe`, `CatalogStaysInLine` | types, `ProjectHistoryIsExact` and `RegistryIsInLine` of the registry alone | `engine` |
| | `EngineInvariant`, `EngineTypeCorrect` | the inductive invariant and the types of the composition | |
| | `PooledConnectionExclusive` | one request per connection | |
| | `PooledAnswerIsOwn` | `Spec => []AnswerIsOwn` | `engine` |
| | `HistoryStaysExact` | `Spec => []ProjectHistoryIsExact` | `engine` |
| | `RegistryStaysInLine` | `Spec => []RegistryIsInLine` | `engine` |
| | `AnswersAreKept` | `Spec => []AnswerIsKept` | `engine` |
| | `AdmissionWasAllowed` | `Spec => []AdmittedWasAllowed` | `engine` |
| | `OutputHasItsInputs` | `Spec => []OutputHasInputs`, for workflows of any length | `engine` |

### RuntimeController

**The invariant.** None of the properties is inductive alone. `SoleLoadedHasChild`
speaks of the moment a waiter publishes `loaded`, but the waiter drew that
conclusion two steps earlier, outside the lock, from a port it shares with other
children. `ControllerInv` therefore adds

- `RepliesAreServed`: a reply a waiter holds, or concluded "ready" from, came from
  a child that did serve, and for the same id;
- `NoLateWaiter`: when no child is held and the reported id was loaded once, no
  thread of that id is left that could publish;
- `Fresh`, `Starting`, `EmptyIsNobodys`, `RoundsLeft`: attempts beyond the counter
  have not happened, nothing is loaded during start-up, an empty slot carries no
  id, and a waiter in its loop has a round left.

`TimeoutIsLocal` rests on `HeldChildIsReported`: a waiter that runs out of time
compares its id with the one reported, and it is the held child that it stops.
`SlotIsKept` rests on `EmptyIsNobodys` (an empty slot has no id a waiter could find
its own in) and on what start-up and the waiters' steps leave: each step of the
controller is a load, an unload, a report, a start or a shutdown of `RuntimeSlot`,
or a stutter.

**The argument.** Lemmas state the step by groups of actions that do the same to
the state: `StoppedChildren` (what `_stop_process_locked` leaves), `StartStep` (a
load, with or without child), `LetGoStep` (unload, shutdown, and a stop that
raises), `QuietWaiterStep` (a waiter that moves without writing), `ReportStep` (a
waiter that publishes), `WaiterStep`, and `NextStep`, which puts them together.

### LocalSlots

`SlotFollowsOperator` alone is not inductive: between the operator's write and the
next one, other requests hold slots they read earlier and will write, and a load
they decided on. `IInv` says of every thread, once the choice is known, that the
slot it has yet to use agrees with the choice (`Holds`), that a load is asked for
only where a model is intended (`Sound`), and that after a clear the runtime's
label is gone too, since a slot without a managed model adopts it. `Alone` (while a
request is alone, every other thread is idle) is why the choice may become known
when an assignment writes, and `ClearsRow` why a clear still finds the empty row it
wrote when its unload returns. `ThreadMoves` states once what a step of one thread
has to satisfy; each step's lemma shows that, and `BeginKeeps` and `RuntimeKeeps`
do the two kinds of steps that are no thread's. `LoadsAreChosen` then needs only
that `Reload` and `CallLoad` are the steps that make the runtime load.

### ModelLifecycle

`ServedWasTested` speaks of a row, which is written from what a request read two
transactions earlier. `FitInv` therefore says of each request on an undisturbed
model what it knows: that the row still is as it read it, that the test run it found is in
`passed`, that the secret it looked up was usable. The one fact that carries this is
that two operations on one model are known to overlap (`disturbed`), so a write by
another thread cannot go unnoticed. Of the rows it says that the fingerprint is that
of the configuration, that a validation that counts rests on a test of it, and that
an active model is validated and ready, or its revocation is still at work. For the
refinement each job at work is `running` and held by one worker; `QueueDownload` is a
`Submit`, `ClaimDownload` a `Claim`, `Report` a `Finish`, the `Escape` of a worker an
`Abandon`, `CrashAndRestart` a `Restart`, and everything else stutters.

### Deployments

A profile may be incomplete for a while: the bootstrap creates `local-default` and
binds it one transaction at a time. The invariant is that nothing else is: only a
profile of that slug may lack a required binding, only while the bootstrap that
would bind it is still at work or was cut, and nobody past a bootstrap of his own
works on a profile that is incomplete, so that it can only be complete or gone by
the time it is activated. For snapshots: what was resolved so far is of one
profile, or the final check refuses it; and a request that never saw the platform
online has resolved no provider of the cloud (`online`).

### BindingContents

What the validators establish speaks of the binding and of constants only
(`Sound`): the resources of a text capability are models of the provider's origin
with the default among them, the models of an image capability fit its tasks and
its origin, a dynamic namespace has its prefix. So it outlasts every change around
the binding. The rest is that a bound provider is there, because a deletion refuses
it, and that all providers of an active profile nobody disturbed are usable,
because its activation found them so. Each part of `JudgesAgree` then follows in one
state, from `Sound` and the judges' definitions.

### Retrieval

`BoundIsPresent` rests on the order in which a binding and a deletion check, and on
the foreign key that decides when both have. For `ChatReadsBackingIndex` and
`AnswersAreComparable` the invariant tracks each request along its remaining steps
(`Before`, `Between`): what it read of the rows and the deployment, and which of it
may have changed; the chunks of a knowledge base in its index are embedded with its
model, by whomever they are written. `HybridStaysFair` is a theorem about lists of
any length: a branch lists what both branches saw, in order of its score; fusion is
monotone in both scores, ties are broken by place, and the cut keeps a prefix. Its
proof found that the order of the alternatives in `KeywordScore` mattered where two
of them applied.

### The engine

`EngineInv` is the conjunction of the pool's invariant, the registry's, and one
predicate per execution (`ExecutionOK`): `GateHas` (at each stage of the gate,
what was seen to hold at some moment since it was entered), `KeptHas` (where the
status is kept while it is answered and after), and `WorkOK`, whose `SoundState`
says of any workflow state that is passed on that every action before its index has
been gathered. That a conversation's state is sound (`held`) carries the argument
from one turn to the next, whichever turns overlap. The pool and the registry keep
their own invariants in the composition because every step of the engine is one of
theirs or leaves them alone, so `PoolInvKept` and its counterpart are cited and not
proved again.

The registry's `LineInv` says that plans are chained (an entity is inserted, found
or removed first, a version is superseded and appended right after its snapshot, the
project is linked last), that two tasks on one entity are known to overlap, that the
number of a task that is alone on its entity lies behind all versions and its
snapshot still is all of them, and what such a task has done so far.

### KnowledgeBase

An operation is a plan, the calls it has yet to make, and the loops of a sync put
calls in front of it, so even the types rest on what a plan may be. `PlanOK` says
it: which calls an operation makes at all (`Makes`), which follow which (`Follows`),
that a snapshot is taken before the index it is for is rebuilt and a run reported
before only statuses are left to write (`Once`), and that the plan of a run reports
it or has done so. `Args` says what each call finds in the locals it uses. `TailPlan`
and `FrontPlan` carry `PlanOK` over a call made and over calls put in front,
`RescuePlan` over the except clauses, `Programs` to the start of an operation.

For the refinement, `RunsHeld` says that a thread whose plan reports a run holds it:
the run is `running`, and no other thread holds the same. `Submit` and a request for a
run is the queue's `Submit`, `Claim` its `Claim`, the call `finish` its `Finish`, an
exception nobody catches an `Abandon`, `Restart` its `Restart`; every other call
stutters, because it leaves the runs and who holds them as they are.

For the index, `IndexInv` adds what each document is like that no two operations
worked on at once (`DocFine`: its row covers its chunks; without a row it has none,
unless a create failed on it, and an id is not drawn twice), and what each operation
knows of such a document. `KnowsDoc` says it of the document in hand, call by call:
that an `unindex` deletes by the count the row still has and has deleted the first
`n` batches, that an `update` or `remove` finds the index empty, that an `upsert`
writes what the row accounts for. `KnowsTodo` says it of the documents a loop has yet
to come to, for the loops that use a copy of the rows taken before (`Pruning`,
`Rebuilding`). Which loop is yet to come is read off the plan, so plans must also be
`Ordered`: nothing that writes rows by files follows the pruning, and nothing but the
rebuild follows the wipe. The frame is `Apart`: two operations that touch the same
document have put it in `mixed` when the second began, so a step of one leaves what
the other knows alone (`Within`: an operation writes only what it touches). The
theorem is about every failure and crash because a failure only drops knowledge:
`Fail` clears the locals, and what `DocsFine` says holds after every single request to
the index.

For success, `SuccessInv` says of an operation that nothing has come between (`alone`)
and that has not failed what it has done by the call it is about to make. `Counted`
is the number of documents, from the call that counts them to the statuses that are
written with it. `Stage` goes through a sync and a resync: the files the scan found
and that are not left to do have documents with their texts (`Scanning`); then every
file has one and the documents without a file are left to prune (`PrunesRest`); then
the documents mirror the files (`MirrorsAll`). A resync goes on from there: the
documents left to do are as in its snapshot and have no chunks since the wipe, those
behind it have exactly the chunks of their texts (`Refills`), and in the end all have
(`Rebuilt`). The same calls occur in several stages, so the proof needs to know from
the plan which loop a call belongs to (`FileNext`, `PruneNext`, `EarlyNext`), and that
is what `Ordered` and `Once` are for. The texts rebuilt are the files' texts only
because a resync reconciles its source before its snapshot (`TextsAreFiles`). A
failure sets the result to `error` and success is no longer claimed.

### Accounts

`update_role` counts the superadmins in one transaction and writes in another. The
invariant says what the count is still worth when the row is written: as long as no
two demotions have overlapped, whoever is about to demote leaves another superadmin
(`DemotionsLeaveOne`). It holds of a demotion that counted, and of one that did not
because its target was no superadmin when it was looked up. Every other step leaves
the superadmins there are. For the first superadmin it says that nothing is served
before the accounts are set up and the table has only superadmins until then
(`NothingServed`), so that the thread that declares them set up has seen one
(`SetUpHasSuperadmin`), although several may run the initialisation at once.

### WorkflowChat

The proof is in `RequestsProofs`. Twelve steps of a request differ in what they read;
what they write is one of four things. So each is first shown to have one of four
forms: `Quiet` (only the request itself changes), `Acts` (the compare-and-set on an
action), `Upserts` (the run) and `Inserts` (the messages), each saying what the
request knows before and after. The invariants are proved of these forms, and of the
steps that are no request's: a begin, a lease that runs out, a deletion, a crash.

`PairInv` has the types, which places a kind of request can be at (`KindsFit`), that
whoever is about to insert has counted all messages and the conversation is there
(`LockCounts`, true because the row lock is held from the count to the commit), and
that a deletion leaves no start with an action to settle (`Aims`).

`ActionInv` is about who may settle an action. A start that has claimed it and is at
work, or that greeted and ended well, is its `Claimant`, and until the lease runs out
there is one at most (`OneClaimant`): the claim compares, and nothing but the claimant
takes the action out of `executing`. A second greeting needs a second claimant, hence
`StartedOncePerLease`. For `ConsumedWasStarted` every cycle anybody knows was begun
with a greeting that is still there (`CyclesReached`), since a start that reconciles a
stale action goes by the run's cycle and not by messages.

`RunInv` is about requests that are alone: nobody else is at work, and the run is as
they read it (`AloneInv`), so what they write is not older than what they find. The
last message says what its writer is about to put into the run, and after that what is
in it (`LastInv`), and while no requests ever overlapped the boundary leaves out
earlier cycles (`BoundaryInv`). `RunIsMovedForward` needs only the first.

### AnswerStream

Neither invariant is inductive: what the page shows next is in the queue, what comes
after that on the line, on the wire, or not yet sent. `StreamInv` therefore relates,
hop by hop, what the reader has got, what is on its way to it, and the text that the
hop before has: `Link`. As long as that hop is open, the first two make up the third
token by token; a `done` or `complete` stands only where nothing is missing, and has
only parts of the answer before it. `LinkGrows`, `LinkPasses`, `LinkReads` and
`LinkAfter` say this once of a token that is sent, a header that is passed on, a token
that is read and an event that ends the stream; `LinkFirst` says what a reader may
conclude from the first event. So what is shown begins what the caller got, that
begins what the gateway got, and all of it is of the attempt under way
(`Attempted`): the model is never asked again while somebody has a part of an answer.
The gateway asks the next candidate only without parts; the pool of the caller sends
again only before the head of a response (`StartInv`: who has parts has the head); and
the adapter falls back only when the first event said that the model is not there
(the clauses on `absent` in `WireInv` and `LineInv`).

For `AnswerIsKeptWhole`, a `done` on the wire is behind a text in `whole`, and so is a
`complete` in the queue unless a gateway decided it. `DoneInv` says that the engine
has set the status before its answer is read, and `KeptInv` follows the accepted text
from the request to the conversation and the page. The steps of the caller that end
its request have one form (`CallerOverKeeps`), and so do the six ways a request reads
its answer (`ReadsOne`): it shows a part, accepts the answer, or ends.

The proof needs nothing of the length of an answer, the number of candidates or the
number of faults. `StreamAssumption` only gives the fields of a setup their types.

### ToolCalls and ToolCatalog

`ToolCallsInv` has three parts.

`CatalogInv` is about the editors, who never hold a lock from their check to their
write. `PlacedRow` says which operation stands where and what it knows there,
`SoundServer` that a server has a specification from its first version on. A verdict
is only kept of a version that was found valid or vouched for (`VerdictsArePassed`).
An editor reads the tool first and the verdict after, so what it compares is one
version although both may change in between; it reaches its write over a version in
`passed` (`WritesArePassed`), and so does every server that the catalog wrote
(`ServersRestOnChecks`).

That an update replaces what it read is a matter of numbers. The versions of a steady
server are `1..current`, and whoever is about to update it read a number among those
(`Numbered`, `Follows`): the next number is free only if the one that was read is
still current. The bootstrap counts from the largest of the versions it listed and
may be one ahead (`Follows`). A version that the registry named may leave a gap, and
a server that is deleted and made again starts over, hence `steady`. What an editor
saw of other servers is still so at its write only if no other overlapped it
(`AloneSeesRight`, `SeesRight`): nobody else has the slug, and the specification a
switch writes back is the server's own.

`CallsInv` ties the places of one attempt in different processes. From the end of the
chain to its begin: what ran was asked for by an attempt that was sent
(`UnsentIsUnknown`, `PartsOfScene`); a result in a reply, in an invocation or in the
answer of a request stands for a run (`RepliesFollowRuns`, `InvocationsFollowRuns`,
`RequestsFollowRuns`); the log and the caller tell of those (`LogsFollowInvocations`,
`OutcomesFollowAnswers`). A file of the sandbox is that of the request it works on, or
its caller never got a response (`FilesAreRunning`). `RequestsCounted` makes a second attempt the price of a lost
response, which is all that `RunAgainOnlyIfLost` needs. The thirty steps take one of
seven forms (`Sends`, `RequestEnds`, `CallMoves`, `InvocationBegins`,
`InvocationMoves`, `GatewayMoves`, `RuntimeMoves`), and the invariant is proved of
the forms.

`RunIsNoted` and `AdmittedIsNoted` relate both: the specification an invocation goes
by was among those admitted when it was looked up, and what is admitted is in the
history of that call.

The proof corrected the model twice. A server that has no version gets `v2` when it is
updated (`_next_version`, `catalog_service.py:1638`), so the number of versions is not
the number of the current one; and a switch that overlaps a change undone meanwhile
can meet a version of its number and writes nothing.

### Only model-checked

Liveness under fairness is out of the prover's reach: `LoadingResolves`, `SlotHeals`,
`QueuedRunsAreServed`, `ExecutionsEnd`, `AccountsComeUp`, `StreamEnds`, `CallsEnd`. Every
invariant and every action property of a passing run is stated by a theorem.

## Where the code and its documents disagree

One has a run of its own, which checks only this property and finds it violated:

- **A knowledge chat searches with the wrong model** (`mismatch`,
  `EngineRejectsMismatch`). `docs/services/backend.md:172-173` says that retrieval
  rejects mismatched configurations and requires a knowledge base to match the
  deployment's embeddings provider and model. The backend's queries and tools do; a
  knowledge chat compares neither (`playground_execution.py:373-400`), so the engine
  embeds the question with the deployment's default and searches chunks of another
  model, or vectors that a client made itself.

The others are in the models, and the properties are stated around them:

- *A model is advertised that nobody serves.* `docs/services/modelops.md:86` and
  `:100` say that what `/v1/models` advertises is being served. A waiter re-checks
  only the model id (`controller.py:214`), so the waiter of an earlier load publishes
  `loaded` for a later load of the same id, whose own child has not answered. For an
  id loaded only once the statement holds and is proved (`SoleLoaded`).
- *A sync skips documents it never indexed.* A source sync writes the row, then the
  chunks, and does not undo the row when the chunks fail
  (`context_management_sources.py:540`). The next sync finds the row unchanged and
  reports success. `docs/services/backend.md:155` promises synchronous indexing. A
  resync repairs it.
- *A validation outlives the configuration it tested.* `docs/services/modelops.md:64`
  says a change of configuration resets the validation; `append_validation`
  (`repositories/modelops.py:780`) sets it without comparing fingerprints. Without an
  overlap the statement holds and is proved.
- *A workflow completes without its tool.* `runner.py:955-959` passes the arguments
  as a dict; `invoke_tool_call` (`dispatch.py:118-120`) parses `str(arguments)` as
  JSON, which fails for every dict but the empty one, and returns the error as the
  result (`WorkflowCallsTool`, defined and not run).
- *A binding that can never be activated.* An image binding without a selection mode
  is accepted and reported ready, and the preflight refuses it for ever, against
  `docs/services/backend.md:224`.
- *A tool is validated that nobody checked.* `ensure_builtin_tools` reads which
  version is current and writes a success for it (`tool_registry_bootstrap.py:463`),
  be it one that an administrator wrote in between; the registry backs a server with
  any tool (`registry_service.py:87`). `ServersRestOnChecks` therefore speaks of
  servers that the catalog wrote, and counts what the bootstrap vouched for.
- *A server that cannot be updated.* One that is updated before it has a first version
  gets `v2`, the first version then takes its place, and every later update asks for
  `v2` again (`catalog_service.py:1638`).
- *An error that kept the answer.* Without streaming, a failure after the messages are
  committed is answered with an error (`playgrounds.py:172`,
  `playgrounds_service.py:305-318`), so that a user who sends again has the pair twice.
- *No superadmin remains* when two demotions count before either writes
  (`auth_handlers.py:222`).
- *A fallback is announced and not made.* The adapter tells its caller that it falls
  back to the local alias before it knows whether it will
  (`platform_adapters.py:925-931` against `:959`; `AnnouncedFallbackIsMade`, defined
  and not run). Over the gateway a stream that ends early is taken for a whole answer
  (`openai_compat.py:253-270`; `KeptIsWholeOverGateway`, likewise).
- *A POST is executed twice* by both pools when its response is late, and a knowledge
  base whose name differs from another's only in where its parts are divided shares
  its Weaviate class, which a rebuild of either wipes.
- A bootstrap that overlaps an edit writes back the binding or the slot it read
  before (`platform_bootstrap.py:823`, `:611`); editing a provider forgets its slot;
  a one-time workflow that completes with its first greeting leaves its session
  active; a download cut by a crash leaves its model `downloading`
  (`modelops_local.py:183`); two operations on one document promise nothing
  (`context_management_documents.py:166`).

## What is not modelled

Inside the modelled components:

- Runtime: proxying of inference requests. It keeps no state; the 409 check that
  precedes it may be stale.
- Slots: the display of a slot, other providers than one local one.
- Knowledge bases: creating a source (the model starts with one), uploads, which
  repeat a create, schema profiles, and the fallback of a resync to the stored text
  when the file of a row cannot be parsed or no longer holds the document
  (`context_management_source_reparse.py:57-58`, `:65-66`). Creating and deleting the knowledge base is in
  `Retrieval`.
- Retrieval: the bootstrap, which writes the vector binding of the default profile
  back on every request (`platform_bootstrap.py:351-411`, `:823-826`): its provider
  and its resources are read by two statements, so that a pair no one wrote may
  become the row (`BoundIsPresent` and `ChatReadsBackingIndex` are about edits
  without it); filters, preprocessing, citations, selection by dynamic namespace, the
  hybrid searches of the engine, and the retry of an embedding after a slot's
  recovery.
- Models: the deployment bindings that forbid a deletion; the image models of the
  bootstrap, which it enters from the inventory of their provider, marks with a
  validation it did not make, and activates (`platform_bootstrap.py:168-212`,
  `:271-314`), so that `ServedWasTested` says nothing of them; and the checks of role, ownership and runtime profile, which refuse
  more and change nothing.
- Deployments: the optional profiles for llama.cpp and Qdrant, a forced runtime
  profile, the audit table, which gets the same pair of profiles as the active row.
  In `Deployments` providers are fixed and healthy; `BindingContents` has them
  change, but not being created, nor a credential that is tried before it is stored.
- Tools: creation of a tool, the validation of a server, which nothing reads; an
  empty slug, or a tool that does not exist, in an entry of the registry. Each call of
  `repositories/registry.py` is one step: two versions of different names that are
  written at the same moment may both stay current (`registry.py:123`).
- Engine: retrieval and references, prompts, the calls of the language model as
  connections, explicit versions and discovery in the registry.
- Accounts: a table that has users but no superadmin before the first request.
- Answers: tool calls within an answer, embeddings, traces and traffic events.
- Conversations: titles, the change of the assistant, attachments, knowledge and
  temporary playgrounds.

Components without a module are listed under `components` in `PROJECT.json`, with
the reason. Hazards for which the code promises nothing (in most, two requests
overlap on one row and the last writer wins) are in the models all the same, and the
histories `mixed`, `alone`, `disturbed`, `overlapped` and `clash` mark where the
promises end.

## The plan

Modelled and checked: everything above. Proved: every invariant and action property
of a passing run, and the refinements of `RuntimeSlot` and `JobQueue`. What is left,
in this order:

1. **The chunker** as a pure operator: every token is in a chunk or starts no window
   that fits. It is a loop over data, so TLC would check it over bounded texts; the
   installed provers cannot do the induction.
2. **Slots under deployments**: `LocalSlots` has one provider, its slot and its edits;
   `BindingContents` has the providers of a deployment, without slots. A composition
   would say what an edit does to both.
