---------------------------- MODULE AgentCatalog ----------------------------
(***************************************************************************)
(* The registry of the backend and one agent project that is published to  *)
(* it: entities (an agent and MCP servers) with their versions             *)
(* (repositories/registry.py, services/catalog_service.py), the project    *)
(* with the history of its specifications (repositories/agent_projects.py) *)
(* and the operations of request handlers on them                          *)
(* (application/agent_projects_service.py).                                *)
(*                                                                         *)
(* Every call of a repository is one transaction, READ COMMITTED, and the  *)
(* handlers interleave between any two of them.  A task is the sequence of *)
(* transactions a handler still makes; an exception drops the rest.        *)
(***************************************************************************)
EXTENDS Naturals, Sequences, FiniteSets

CONSTANTS
  Handlers,
  Agent,       \* the entity id that the project is published under
  Servers,     \* MCP servers
  AgentSpecs,
  NoSpec

Entities == {Agent} \cup Servers
\* Of a server's specification only "enabled" matters here.
ServerSpecs == {"enabled", "disabled"}
SpecsOf(e) == IF e = Agent THEN AgentSpecs ELSE ServerSpecs

ASSUME CatalogAssumption ==
  /\ Agent \notin Servers
  /\ AgentSpecs # {}
  /\ NoSpec \notin AgentSpecs \cup ServerSpecs

VARIABLES
  entities,    \* registry_entities
  versions,    \* registry_versions of each entity
  project,     \* agent_projects and agent_project_versions
  task,        \* what each handler still has to do
  overlapped,  \* history: entities that two tasks worked on at once
  undisturbed  \* history: handlers whose task no other one overlapped

registry == <<entities, versions>>
catalogVars == <<entities, versions, project, task, overlapped, undisturbed>>

NoProject == [version |-> 0, spec |-> NoSpec, linked |-> FALSE, past |-> {}]

Task(op, e, s, plan) ==
  [op |-> op, entity |-> e, spec |-> s, plan |-> plan, number |-> 1, seen |-> {}]
Resting == Task("none", Agent, NoSpec, <<>>)
Rests(h) == task[h].plan = <<>>

Ops == {"none", "create", "update", "delete", "publish",
        "create_project", "edit_project", "delete_project"}
Steps == {"insert", "snapshot", "supersede", "append", "status", "remove",
          "find", "link", "insert_project", "write_project", "drop_project"}

CatalogTypeOK ==
  /\ entities \subseteq Entities
  /\ \A e \in Entities : \A v \in versions[e] :
       v.number \in Nat \ {0} /\ v.spec \in SpecsOf(e) /\ v.current \in BOOLEAN
  /\ project.version \in Nat /\ project.spec \in AgentSpecs \cup {NoSpec}
  /\ project.linked \in BOOLEAN
  /\ project.past \subseteq (Nat \ {0}) \X AgentSpecs
  /\ \A h \in Handlers :
       /\ task[h].op \in Ops
       /\ task[h].plan \in Seq(Steps)
       /\ task[h].entity \in Entities
       /\ task[h].spec \in SpecsOf(task[h].entity) \cup {NoSpec}
       /\ task[h].number \in Nat \ {0}
       /\ task[h].seen \subseteq Nat
  /\ overlapped \subseteq Entities
  /\ undisturbed \subseteq Handlers

Numbers(e) == {v.number : v \in versions[e]}
CurrentVersions(e) == {v \in versions[e] : v.current}

\* What find_registry_entity may return as the current version's number: its
\* LEFT JOIN yields one row per current version, or one without a version.
CurrentNumbers(e) ==
  IF CurrentVersions(e) = {} THEN {1} ELSE {v.number : v \in CurrentVersions(e)}

-----------------------------------------------------------------------------
(* The tasks.                                                              *)

Version == <<"snapshot", "supersede", "append">>
CreatePlan == <<"insert">> \o Version
UpdatePlan == Version \o <<"status">>

Touches(T) == IF T.op \in {"create_project", "edit_project"} THEN {} ELSE {T.entity}

Begin(h, T) ==
  LET others == {g \in Handlers \ {h} : ~Rests(g)}
  IN  /\ Rests(h)
      /\ task' = [task EXCEPT ![h] = T]
      /\ undisturbed' = IF others = {} THEN {h} ELSE {}
      /\ overlapped' = overlapped \cup
                       (Touches(T) \cap UNION {Touches(task[g]) : g \in others})

\* create_catalog_agent and create_catalog_mcp_server.
BeginCreate(h, e, s) ==
  /\ e \notin entities
  /\ Begin(h, Task("create", e, s, CreatePlan))

\* update_catalog_agent, update_catalog_mcp_server and, through the latter,
\* set_catalog_mcp_server_enabled: "v2" follows an entity without a version.
BeginUpdate(h, e, s) ==
  /\ e \in entities
  /\ \E n \in CurrentNumbers(e) :
       Begin(h, [Task("update", e, s, UpdatePlan) EXCEPT !.number = n + 1])

BeginDelete(h, e) ==
  /\ e \in entities
  /\ Begin(h, Task("delete", e, NoSpec, <<"remove">>))

BeginCreateProject(h, s) ==
  /\ project.version = 0
  /\ Begin(h, Task("create_project", Agent, s, <<"insert_project">>))

BeginEditProject(h, s) ==
  /\ project.version # 0
  /\ Begin(h, [Task("edit_project", Agent, s, <<"write_project">>)
                 EXCEPT !.number = project.version + 1])

\* publish_agent_project: what is published is the project as read here.
BeginPublish(h) ==
  /\ project.version # 0
  /\ Begin(h, Task("publish", Agent, project.spec, <<"find">>))

\* Deviation: the project is deleted before its agent.
DropFirst(h) ==
  /\ project.version # 0
  /\ Begin(h, Task("delete_project", Agent, NoSpec,
                   IF project.linked THEN <<"drop_project", "remove">>
                                     ELSE <<"drop_project">>))

\* delete_agent_project: the agent it is linked to goes first.
BeginDeleteProject(h) ==
  /\ project.version # 0
  /\ Begin(h, Task("delete_project", Agent, NoSpec,
                   IF project.linked THEN <<"remove", "drop_project">>
                                     ELSE <<"drop_project">>))

\* A request, for an agent or project with one of the given specifications.
CatalogRequest(h, specs) ==
  /\ \/ \E e \in Entities : \E s \in IF e = Agent THEN specs ELSE ServerSpecs :
          BeginCreate(h, e, s) \/ BeginUpdate(h, e, s)
     \/ \E e \in Entities : BeginDelete(h, e)
     \/ \E s \in specs : BeginCreateProject(h, s) \/ BeginEditProject(h, s)
     \/ BeginPublish(h)
     \/ BeginDeleteProject(h)
  /\ UNCHANGED <<registry, project>>

-----------------------------------------------------------------------------
(* The transactions.                                                       *)

Due(h, step) == ~Rests(h) /\ Head(task[h].plan) = step
Keep(h, T) ==
  task' = [task EXCEPT ![h] = IF T.plan = <<>> THEN Resting ELSE T]
Advance(h) == Keep(h, [task[h] EXCEPT !.plan = Tail(@)])
Abort(h) == task' = [task EXCEPT ![h] = Resting]

\* create_registry_entity.
Insert(h) ==
  LET e == task[h].entity
  IN  /\ Due(h, "insert")
      /\ IF e \in entities THEN Abort(h) /\ UNCHANGED entities
         ELSE entities' = entities \cup {e} /\ Advance(h)
      /\ UNCHANGED <<versions, project>>

\* create_registry_version, first statement: the rows that its UPDATE will
\* turn off are those that are committed when it starts ...
Snapshot(h) ==
  /\ Due(h, "snapshot")
  /\ Keep(h, [task[h] EXCEPT !.plan = Tail(@), !.seen = Numbers(task[h].entity)])
  /\ UNCHANGED <<registry, project>>

\* ... and it waits for another transaction that has locked such a row.
Supersede(h) ==
  /\ Due(h, "supersede")
  /\ \A g \in Handlers \ {h} :
       ~(Due(g, "append") /\ task[g].seen \cap task[h].seen # {})
  /\ Advance(h)
  /\ UNCHANGED <<registry, project>>

\* create_registry_version, second statement and COMMIT: UNIQUE (entity_id,
\* version) and the foreign key of the entity.
Commit(h) ==
  LET T == task[h]
  IN  /\ Due(h, "append")
      /\ IF T.entity \notin entities \/ T.number \in Numbers(T.entity)
         THEN Abort(h) /\ UNCHANGED versions
         ELSE /\ versions' = [versions EXCEPT ![T.entity] =
                   {[v EXCEPT !.current = @ /\ v.number \notin T.seen] : v \in @}
                   \cup {[number |-> T.number, spec |-> T.spec, current |-> TRUE]}]
              /\ Advance(h)
      /\ UNCHANGED <<entities, project>>

\* update_registry_entity: LookupError when the entity is gone.
Status(h) ==
  /\ Due(h, "status")
  /\ IF task[h].entity \in entities THEN Advance(h) ELSE Abort(h)
  /\ UNCHANGED <<registry, project>>

\* delete_registry_entity cascades to the versions: nobody supersedes them.
\* Deleting a project passes over an agent that is gone.
Remove(h) ==
  LET e == task[h].entity
  IN  /\ Due(h, "remove")
      /\ entities' = entities \ {e}
      /\ versions' = [versions EXCEPT ![e] = {}]
      /\ task' = [g \in Handlers |->
                    IF g = h
                    THEN IF Tail(task[h].plan) = <<>> THEN Resting
                         ELSE [task[h] EXCEPT !.plan = Tail(@)]
                    ELSE IF task[g].entity = e THEN [task[g] EXCEPT !.seen = {}]
                    ELSE task[g]]
      /\ UNCHANGED project

\* publish_agent_project looks for the agent to create or to update it.
Find(h) ==
  /\ Due(h, "find")
  /\ IF Agent \in entities
     THEN \E n \in CurrentNumbers(Agent) :
            Keep(h, [task[h] EXCEPT !.plan = UpdatePlan \o <<"link">>, !.number = n + 1])
     ELSE Keep(h, [task[h] EXCEPT !.plan = CreatePlan \o <<"link">>])
  /\ UNCHANGED <<registry, project>>

\* set_published_agent_id: no row, no link.
Link(h) ==
  /\ Due(h, "link")
  /\ project' = [project EXCEPT !.linked = project.version # 0]
  /\ Advance(h)
  /\ UNCHANGED registry

InsertProject(h) ==
  LET s == task[h].spec
  IN  /\ Due(h, "insert_project")
      /\ project' = IF project.version # 0 THEN project
                    ELSE [version |-> 1, spec |-> s, linked |-> FALSE,
                          past |-> {<<1, s>>}]
      /\ Advance(h)
      /\ UNCHANGED registry

\* Deviation: a version that exists is passed over (ON CONFLICT DO NOTHING).
WriteOver(h) ==
  LET T == task[h]
  IN  /\ Due(h, "write_project")
      /\ project' = IF project.version = 0 THEN project
                    ELSE [project EXCEPT !.version = T.number, !.spec = T.spec,
                            !.past = IF \E p \in @ : p[1] = T.number THEN @
                                     ELSE @ \cup {<<T.number, T.spec>>}]
      /\ Advance(h)
      /\ UNCHANGED registry

\* update_agent_project: the row and its version in one transaction, which
\* PRIMARY KEY (project_id, version) and the foreign key may refuse.
WriteProject(h) ==
  LET T == task[h]
  IN  /\ Due(h, "write_project")
      /\ project' = IF project.version = 0 \/ \E p \in project.past : p[1] = T.number
                    THEN project
                    ELSE [project EXCEPT !.version = T.number, !.spec = T.spec,
                                         !.past = @ \cup {<<T.number, T.spec>>}]
      /\ Advance(h)
      /\ UNCHANGED registry

DropProject(h) ==
  /\ Due(h, "drop_project")
  /\ project' = NoProject
  /\ Advance(h)
  /\ UNCHANGED registry

CatalogStep(h) ==
  /\ \/ Insert(h) \/ Snapshot(h) \/ Supersede(h) \/ Commit(h)
     \/ Status(h) \/ Remove(h) \/ Find(h) \/ Link(h)
     \/ InsertProject(h) \/ WriteProject(h) \/ DropProject(h)
  /\ UNCHANGED <<overlapped, undisturbed>>

\* The request ends early: an exception, or the process is gone.
Cut(h) ==
  /\ ~Rests(h)
  /\ Abort(h)
  /\ UNCHANGED <<registry, project, overlapped, undisturbed>>

CatalogInit ==
  /\ entities = {}
  /\ versions = [e \in Entities |-> {}]
  /\ project = NoProject
  /\ task = [h \in Handlers |-> Resting]
  /\ overlapped = {}
  /\ undisturbed = {}

CatalogNext == \E h \in Handlers : CatalogRequest(h, AgentSpecs) \/ CatalogStep(h) \/ Cut(h)

CatalogSpec == CatalogInit /\ [][CatalogNext]_catalogVars

-----------------------------------------------------------------------------
(* Properties.                                                             *)

\* As long as no two tasks worked on an entity at once, the version that
\* readers of the registry take for its current one is unique and has the
\* highest number, also after tasks that were cut short (_next_version).
VersionsInLine ==
  \A e \in Entities \ overlapped : versions[e] # {} =>
    \E v \in versions[e] :
      /\ CurrentVersions(e) = {v}
      /\ \A w \in versions[e] : w.number <= v.number

\* Whatever overlaps: the project's row is an entry of its history, which
\* holds one specification per version (update_agent_project).
ProjectHistoryIsExact ==
  project.version # 0 =>
    /\ <<project.version, project.spec>> \in project.past
    /\ \A p, q \in project.past : p[1] = q[1] => p = q

\* A publication that nothing overlapped has made the project's specification
\* the agent's current one, whatever overlaps and failures left in the registry;
\* a deletion that nothing overlapped drops a linked project after its agent.
AloneDelivers ==
  \A h \in undisturbed :
    /\ Due(h, "link") =>
         /\ {v.spec : v \in CurrentVersions(Agent)} = {project.spec}
         /\ Agent \in entities
    /\ Due(h, "drop_project") /\ project.linked => Agent \notin entities

\* What one task leaves in the registry is what the next one may rely on.
RegistryIsInLine == VersionsInLine /\ AloneDelivers
=============================================================================
