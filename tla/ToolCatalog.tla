---------------------------- MODULE ToolCatalog ----------------------------
(***************************************************************************)
(* The catalog of tools and of the MCP servers that expose them            *)
(* (services/catalog_service.py over repositories/registry.py).            *)
(*                                                                         *)
(* An editor is a request to the catalog, a request to the registry below  *)
(* it (services/registry_service.py), which checks nothing but the form,   *)
(* or the bootstrap of a process (services/tool_registry_bootstrap.py),    *)
(* which writes the built-in tools and servers.  What an editor looks up,  *)
(* checks and writes are transactions of their own; two editors are kept   *)
(* apart by the primary key of the entities and by UNIQUE (entity_id,      *)
(* version), not by the slug, which is part of the specification.          *)
(***************************************************************************)
EXTENDS Integers, FiniteSets, Sequences

CONSTANTS
  Servers,   \* ids of MCP servers
  Slugs,     \* names they are called by
  Tools,     \* ids of tools; a tool cannot be deleted
  Editors,   \* requests that edit at a time
  Named,     \* versions that a request names: n for vn, -1 for a name without a number
  Scenes     \* values of [backend, origins, edits, faults], see ToolCalls

ASSUME ToolsAssumption ==
  /\ Servers # {} /\ Slugs # {} /\ Tools # {} /\ "" \notin Slugs
  /\ Named \subseteq (Nat \ {0}) \cup {-1}

VARIABLES
  tools,     \* versions of each tool, the current one, whether it is published
  verdict,   \* its last validation, and of which version
  passed,    \* versions that were found valid, or that the bootstrap vouched for
  servers,   \* versions and current specification of each server
  steady,    \* servers that only updates and the bootstrap have written since
             \* their first version
  edit,      \* what each editor does
  budget     \* requests and mishaps left

catalogVars == <<tools, verdict, passed, servers, steady, edit>>

NoSpec == [slug |-> "", tool |-> "", enabled |-> FALSE, open |-> FALSE]

\* seen: the version of the tool that the catalog checked, 0 if nobody did.
NoServer == [exists |-> FALSE, versions |-> {}, current |-> 0, spec |-> NoSpec, seen |-> 0]

\* open: the authorization policy lets the agent and its user in.
Specs == [slug : Slugs, tool : Tools, enabled : BOOLEAN, open : BOOLEAN]

NoEdit == [op |-> "none", at |-> "idle", server |-> "", tool |-> "", spec |-> NoSpec,
           version |-> 0, seen |-> 0, published |-> FALSE, alone |-> TRUE]

CatalogTypeOK ==
  /\ tools \in [Tools -> [versions : SUBSET Int, current : Int, published : BOOLEAN]]
  /\ verdict \in [Tools -> [version : Int, ok : BOOLEAN]]
  /\ passed \in [Tools -> SUBSET Int]
  /\ \A s \in Servers :
       /\ servers[s].spec \in Specs \cup {NoSpec}
       /\ (servers[s].spec = NoSpec) = (servers[s].current = 0)
       /\ servers[s].versions \subseteq Int \ {0}
       /\ servers[s].current \in servers[s].versions \cup {0}
       /\ ~servers[s].exists => servers[s] = NoServer
  /\ steady \subseteq Servers
  /\ \A e \in Editors :
       edit[e].at \in {"idle", "load", "find", "list", "slug", "tool", "verdict", "create",
                       "write", "check", "latest", "vouch"}

\* What the bootstrap writes.
Seeded == CHOOSE s \in Servers : TRUE
SeededSpec == CHOOSE spec \in Specs : spec.enabled /\ spec.open

\* The bootstrap has made one server and the tool behind it, for which it vouched.
CatalogInit ==
  /\ servers = [s \in Servers |->
       IF s = Seeded
       THEN [exists |-> TRUE, versions |-> {1}, current |-> 1, spec |-> SeededSpec, seen |-> 0]
       ELSE NoServer]
  /\ steady = {Seeded}
  /\ tools = [t \in Tools |-> [versions |-> {1}, current |-> 1, published |-> TRUE]]
  /\ verdict = [t \in Tools |-> [version |-> 1, ok |-> t = SeededSpec.tool]]
  /\ passed = [t \in Tools |-> IF t = SeededSpec.tool THEN {1} ELSE {}]
  /\ edit = [e \in Editors |-> NoEdit]

Go(e, place) == edit' = [edit EXCEPT ![e].at = place]
Finish(e) == edit' = [edit EXCEPT ![e] = NoEdit]
At(e, place) == edit[e].at = place

\* An editor is alone as long as no other is at work.
Begin(e, request) ==
  /\ budget' = [budget EXCEPT !.edits = @ - 1]
  /\ edit' = [o \in Editors |->
       IF o = e
       THEN [request EXCEPT !.alone = \A other \in Editors : At(other, "idle")]
       ELSE [edit[o] EXCEPT !.alone = @ /\ At(o, "idle")]]
  /\ UNCHANGED <<tools, verdict, passed, servers, steady>>

-----------------------------------------------------------------------------
(* Tools                                                                   *)

\* update_catalog_tool
UpdateTool(e) ==
  \E t \in Tools, published \in BOOLEAN :
    Begin(e, [NoEdit EXCEPT !.op = "tool", !.at = "find", !.tool = t, !.published = published])

\* validate_catalog_tool
ValidateTool(e) ==
  \E t \in Tools : Begin(e, [NoEdit EXCEPT !.op = "check", !.at = "find", !.tool = t])

\* create_entity_version, for a tool
EnterTool(e) ==
  \E t \in Tools : Begin(e, [NoEdit EXCEPT !.op = "revise", !.at = "find", !.tool = t])

\* ensure_builtin_tools begins with the tool.
Seed(e) == Begin(e, [NoEdit EXCEPT !.op = "seed", !.at = "find", !.tool = SeededSpec.tool,
                                   !.published = TRUE])

\* The bootstrap holds the definition of the tool, which is left out here, against
\* its own.
FindTool(e) ==
  /\ At(e, "find") /\ edit[e].op \in {"tool", "check", "revise", "seed"}
  /\ \E place \in CASE edit[e].op = "check" -> {"check"}
                     [] edit[e].op = "seed"  -> {"list", "latest"}
                     [] OTHER                -> {"write"} :
       edit' = [edit EXCEPT ![e].version = tools[edit[e].tool].current, ![e].at = place]
  /\ UNCHANGED <<tools, verdict, passed, servers, steady, budget>>

\* _next_version: a server without a version gets its second one when it is updated.
NextVersion(op, current) ==
  IF op = "create" THEN 1 ELSE IF current < 1 THEN 2 ELSE current + 1

\* _next_builtin_version: the one number after the largest.
NextBuiltin(versions, current) ==
  LET taken == versions \cup {1, current}
  IN  {v + 1 : v \in {largest \in taken : \A o \in taken : o <= largest}}

ListToolVersions(e) ==
  /\ At(e, "list") /\ edit[e].op = "seed"
  /\ \E version \in NextBuiltin(tools[edit[e].tool].versions, edit[e].version) :
       edit' = [edit EXCEPT ![e].at = "write", ![e].version = version]
  /\ UNCHANGED <<tools, verdict, passed, servers, steady, budget>>

\* create_registry_version; the version may exist by now.
AddToolVersion(e, version, published) ==
  LET t == edit[e].tool
  IN  IF version \notin tools[t].versions
      THEN /\ tools' = [tools EXCEPT ![t].versions = @ \cup {version},
                          ![t].current = version, ![t].published = published]
           /\ IF edit[e].op = "seed" THEN Go(e, "latest") ELSE Finish(e)
      ELSE Finish(e) /\ UNCHANGED tools

WriteTool(e) ==
  /\ At(e, "write")
  /\ \/ /\ edit[e].op = "tool"
        /\ AddToolVersion(e, NextVersion("tool", edit[e].version), edit[e].published)
     \/ edit[e].op = "seed" /\ AddToolVersion(e, edit[e].version, TRUE)
     \/ /\ edit[e].op = "revise"
        /\ \E version \in Named, published \in BOOLEAN : AddToolVersion(e, version, published)
  /\ UNCHANGED <<verdict, passed, servers, steady, budget>>

Judged(t, version, ok) ==
  verdict' = [verdict EXCEPT ![t] = [version |-> version, ok |-> ok]]

\* The definition and its backend are checked, and the verdict is written for the
\* version that was read, or lost when it cannot be written.
JudgeTool(e) ==
  LET t == edit[e].tool
  IN  /\ At(e, "check")
      /\ \E ok \in BOOLEAN :
           /\ Judged(t, edit[e].version, ok) \/ UNCHANGED verdict
           /\ passed' = IF ok THEN [passed EXCEPT ![t] = @ \cup {edit[e].version}] ELSE passed
      /\ Finish(e)
      /\ UNCHANGED <<tools, servers, steady, budget>>

\* The bootstrap reads again which version is current ...
LatestTool(e) ==
  /\ At(e, "latest")
  /\ edit' = [edit EXCEPT ![e].at = "vouch", ![e].version = tools[edit[e].tool].current]
  /\ UNCHANGED <<tools, verdict, passed, servers, steady, budget>>

\* ... writes a success for it without a check, and turns to the server.
VouchForTool(e) ==
  LET t == edit[e].tool
  IN  /\ At(e, "vouch")
      /\ Judged(t, edit[e].version, TRUE)
      /\ passed' = [passed EXCEPT ![t] = @ \cup {edit[e].version}]
      /\ edit' = [edit EXCEPT ![e].op = "expose", ![e].at = "find", ![e].server = Seeded,
                              ![e].spec = SeededSpec, ![e].version = 0]
      /\ UNCHANGED <<tools, servers, steady, budget>>

-----------------------------------------------------------------------------
(* Servers                                                                 *)

\* create_catalog_mcp_server
CreateServer(e) ==
  \E s \in Servers, spec \in Specs :
    Begin(e, [NoEdit EXCEPT !.op = "create", !.at = "find", !.server = s, !.spec = spec])

\* update_catalog_mcp_server
UpdateServer(e) ==
  \E s \in Servers, spec \in Specs :
    Begin(e, [NoEdit EXCEPT !.op = "update", !.at = "find", !.server = s, !.spec = spec])

\* set_catalog_mcp_server_enabled
SwitchServer(e) ==
  \E s \in Servers, enabled \in BOOLEAN :
    Begin(e, [NoEdit EXCEPT !.op = "switch", !.at = "load", !.server = s,
                            !.spec.enabled = enabled])

\* delete_catalog_mcp_server
DeleteServer(e) ==
  \E s \in Servers :
    Begin(e, [NoEdit EXCEPT !.op = "delete", !.at = "find", !.server = s])

\* create_entity_with_version
RegisterServer(e) ==
  \E s \in Servers :
    Begin(e, [NoEdit EXCEPT !.op = "register", !.at = "create", !.server = s])

\* create_entity_version, for a server
EnterServer(e) ==
  \E s \in Servers :
    Begin(e, [NoEdit EXCEPT !.op = "enter", !.at = "find", !.server = s])

\* It takes over the specification as it is.
LoadServer(e) ==
  LET row == servers[edit[e].server]
  IN  /\ At(e, "load")
      /\ IF row.spec # NoSpec
         THEN edit' = [edit EXCEPT ![e].at = "find",
                                   ![e].spec = [row.spec EXCEPT !.enabled = edit[e].spec.enabled]]
         ELSE Finish(e)
      /\ UNCHANGED <<tools, verdict, passed, servers, steady, budget>>

FindServer(e) ==
  LET row == servers[edit[e].server]
  IN  /\ At(e, "find") /\ edit[e].op \in {"create", "update", "switch", "delete", "enter"}
      /\ IF row.exists = (edit[e].op = "create")
         THEN Finish(e)
         ELSE edit' = [edit EXCEPT
                ![e].at = IF edit[e].op \in {"delete", "enter"} THEN "write" ELSE "slug",
                ![e].version = row.current]
      /\ UNCHANGED <<tools, verdict, passed, servers, steady, budget>>

\* The bootstrap makes a server that is not there, gives it its first version, or
\* a further one if it is not as it should be.
FindSeeded(e) ==
  LET row == servers[edit[e].server]
  IN  /\ At(e, "find") /\ edit[e].op = "expose"
      /\ IF row.exists /\ row.current # 0 /\ row.spec = SeededSpec
         THEN Finish(e)
         ELSE edit' = [edit EXCEPT
                ![e].at = IF ~row.exists THEN "create"
                          ELSE IF row.current = 0 THEN "write" ELSE "list",
                ![e].version = IF row.current = 0 THEN 1 ELSE row.current]
      /\ UNCHANGED <<tools, verdict, passed, servers, steady, budget>>

ListServerVersions(e) ==
  /\ At(e, "list") /\ edit[e].op = "expose"
  /\ \E version \in NextBuiltin(servers[edit[e].server].versions, edit[e].version) :
       edit' = [edit EXCEPT ![e].at = "write", ![e].version = version]
  /\ UNCHANGED <<tools, verdict, passed, servers, steady, budget>>

\* Mutant: a server that is switched off does not count.
SwitchedOnByName(slug) ==
  {s \in Servers : servers[s].spec.slug = slug /\ servers[s].spec.enabled}

ByName(slug) == {s \in Servers : servers[s].spec.slug = slug}

\* _ensure_unique_mcp_slug: of several servers the one that was written last is found.
CheckSlug(e) ==
  LET found == ByName(edit[e].spec.slug)
  IN  /\ At(e, "slug")
      /\ \/ found = {} /\ Go(e, "tool")
         \/ \E s \in found :
              IF s = edit[e].server /\ edit[e].op # "create" THEN Go(e, "tool") ELSE Finish(e)
      /\ UNCHANGED <<tools, verdict, passed, servers, steady, budget>>

\* _ensure_tool_eligible_for_mcp reads the tool ...
ReadTool(e) ==
  LET tool == tools[edit[e].spec.tool]
  IN  /\ At(e, "tool")
      /\ edit' = [edit EXCEPT ![e].at = "verdict", ![e].published = tool.published,
                              ![e].seen = tool.current]
      /\ UNCHANGED <<tools, verdict, passed, servers, steady, budget>>

\* Mutant: a success counts for every version.
EligibleOnce(published, version, judged) == published /\ judged.ok /\ version # 0

Eligible(published, version, judged) == published /\ judged.ok /\ judged.version = version

\* ... and what its last validation said.
ReadVerdict(e) ==
  /\ At(e, "verdict")
  /\ IF Eligible(edit[e].published, edit[e].seen, verdict[edit[e].spec.tool])
     THEN Go(e, IF edit[e].op = "create" THEN "create" ELSE "write")
     ELSE Finish(e)
  /\ UNCHANGED <<tools, verdict, passed, servers, steady, budget>>

\* create_registry_entity; another editor may have been faster.
CreateEntity(e) ==
  LET s == edit[e].server
  IN  /\ At(e, "create")
      /\ IF servers[s].exists
         THEN Finish(e) /\ UNCHANGED servers
         ELSE /\ servers' = [servers EXCEPT ![s].exists = TRUE]
              /\ Go(e, "write")
      /\ UNCHANGED <<tools, verdict, passed, steady, budget>>

\* Mutant: a version that exists is written over.
AddableAnyway(s, version) == servers[s].exists /\ version # 0

\* The entity may be gone, the version may exist.
Addable(s, version) == servers[s].exists /\ version \notin servers[s].versions

\* create_registry_version
AddServerVersion(e, version, spec, seen) ==
  LET s == edit[e].server
  IN  servers' = IF Addable(s, version)
                 THEN [servers EXCEPT ![s].versions = @ \cup {version},
                         ![s].current = version, ![s].spec = spec, ![s].seen = seen]
                 ELSE servers

\* Nobody else has looked at the server before it has a version.
FirstOfItsKind(e) ==
  /\ servers[edit[e].server].versions = {}
  /\ \A o \in Editors \ {e} : edit[o].server # edit[e].server

\* By the catalog or the bootstrap.
WriteServer(e) ==
  /\ At(e, "write")
  /\ \/ /\ edit[e].op \in {"create", "update", "switch"}
        /\ AddServerVersion(e, NextVersion(edit[e].op, edit[e].version), edit[e].spec,
                            edit[e].seen)
     \/ /\ edit[e].op = "expose"
        /\ AddServerVersion(e, edit[e].version, SeededSpec, 0)
  /\ steady' = IF servers'[edit[e].server].current = 1 /\ FirstOfItsKind(e)
               THEN steady \cup {edit[e].server} ELSE steady
  /\ Finish(e)
  /\ UNCHANGED <<tools, verdict, passed, budget>>

\* By the registry.
WriteEntry(e) ==
  /\ At(e, "write") /\ edit[e].op \in {"register", "enter"}
  /\ \E version \in Named, spec \in Specs : AddServerVersion(e, version, spec, 0)
  /\ steady' = steady \ {edit[e].server}
  /\ Finish(e)
  /\ UNCHANGED <<tools, verdict, passed, budget>>

\* delete_registry_entity takes the versions along.
DropServer(e) ==
  /\ At(e, "write") /\ edit[e].op = "delete"
  /\ servers' = [servers EXCEPT ![edit[e].server] = NoServer]
  /\ steady' = steady \ {edit[e].server}
  /\ Finish(e)
  /\ UNCHANGED <<tools, verdict, passed, budget>>

EditBegins(e) ==
  /\ At(e, "idle") /\ budget.edits > 0
  /\ UpdateTool(e) \/ ValidateTool(e) \/ CreateServer(e) \/ UpdateServer(e)
     \/ SwitchServer(e) \/ DeleteServer(e)
     \/ EnterTool(e) \/ RegisterServer(e) \/ EnterServer(e) \/ Seed(e)

EditStep(e) ==
  FindTool(e) \/ ListToolVersions(e) \/ WriteTool(e) \/ JudgeTool(e) \/ LatestTool(e)
  \/ VouchForTool(e) \/ LoadServer(e) \/ FindServer(e) \/ FindSeeded(e)
  \/ ListServerVersions(e) \/ CheckSlug(e) \/ ReadTool(e) \/ ReadVerdict(e)
  \/ CreateEntity(e) \/ WriteServer(e) \/ WriteEntry(e) \/ DropServer(e)

CatalogNext == \E e \in Editors : EditBegins(e) \/ EditStep(e)

-----------------------------------------------------------------------------
SlugsAreUnique ==
  \A s, o \in Servers :
    s # o /\ servers[s].spec # NoSpec => servers[s].spec.slug # servers[o].spec.slug

\* A server that the catalog wrote rests on a version of its tool that was found
\* valid, or that the bootstrap vouched for, although the tool and the verdict are
\* read one after the other while both may change.
ServersRestOnChecks ==
  \A s \in Servers : servers[s].seen # 0 => servers[s].seen \in passed[servers[s].spec.tool]

\* An update of a server that the catalog writes replaces the version that it read,
\* never one that was written since, however editors overlap: the number of the
\* version says which one it follows.  So it is unless the registry named a version
\* of the server, or it was deleted and made again.  An editor of the catalog that
\* no other overlapped leaves slugs unique, and one that switches a server changes
\* nothing but the switch, although it writes the whole specification.
EditsAreSafe ==
  [][\A e \in Editors :
       edit[e].at = "write" /\ edit'[e].at = "idle"
       /\ edit[e].op \in {"create", "update", "switch", "delete"} =>
         LET s == edit[e].server
         IN  /\ s \in steady /\ edit[e].op \in {"update", "switch"} /\ servers' # servers =>
                  servers[s].current = edit[e].version
             /\ edit[e].alone /\ SlugsAreUnique => SlugsAreUnique'
             /\ edit[e].alone /\ edit[e].op = "switch" =>
                  servers'[s].spec =
                    IF NextVersion("switch", edit[e].version) \in servers[s].versions
                    THEN servers[s].spec
                    ELSE [servers[s].spec EXCEPT !.enabled = edit[e].spec.enabled]
    ]_<<servers, edit>>
=============================================================================
