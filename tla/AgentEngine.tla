---------------------------- MODULE AgentEngine ----------------------------
(***************************************************************************)
(* The agent engine on top of the registry (AgentCatalog) it reads its     *)
(* agents from and of the pooled HTTP client (HttpPool) it reaches tools   *)
(* with: the gate an execution passes (services/policy_runtime_gate.py),   *)
(* the workflow interpreter and the bounded rounds of a "react" agent      *)
(* (execution_pipeline/runner.py), the calls of tools                      *)
(* (tool_runtime/dispatch.py) and the record of each execution             *)
(* (repositories/executions.py).                                           *)
(*                                                                         *)
(* The HTTP server has one thread (main.py).  A streamed execution runs in *)
(* a thread of its own, which goes on when the client has left, while the  *)
(* server takes the next request.  Callers are the executions.             *)
(***************************************************************************)
EXTENDS HttpPool, AgentCatalog

CONSTANTS
  NoRun,
  Superadmins,    \* executions requested by a superadmin
  Workflows,      \* the agent specifications of type "workflow"
  ActionsOf,      \* their actions, in order
  ServerOf,       \* the MCP server a specification refers to, if any
  NoServer,
  MaxRounds,      \* _MAX_TOOL_CALL_ROUNDS
  MaxIterations,  \* _MAX_WORKFLOW_ACTION_ITERATIONS
  Scenarios

Runs == Callers
Kinds == {"input", "tool", "output"}
Accesses == [rules : SUBSET {"allow", "deny"}, shared : BOOLEAN]

\* What may happen: the agent installed at first, those installed later, the
\* access to it, the executions, the handlers, and bounds on requests to them,
\* tasks cut short, changes of access, crashes of the engine and writes lost by
\* its database.
Scenario == [spec : AgentSpecs \cup {NoSpec}, specs : SUBSET AgentSpecs,
             access : SUBSET Accesses, runs : SUBSET Runs,
             handlers : SUBSET Handlers, requests : Nat, cuts : Nat,
             changes : Nat, crashes : Nat, losses : Nat]

ASSUME EngineAssumption ==
  /\ NoRun \notin Runs /\ NoServer \notin Servers
  /\ Superadmins \subseteq Runs /\ Workflows \subseteq AgentSpecs
  /\ ActionsOf \in [Workflows -> Seq(Kinds)]
  /\ ServerOf \in [AgentSpecs \cup {NoSpec} -> Servers \cup {NoServer}]
  /\ ServerOf[NoSpec] = NoServer
  /\ MaxRounds \in Nat \ {0} /\ MaxIterations \in Nat \ {0}
  /\ Scenarios \subseteq Scenario

VARIABLES
  run,      \* each execution
  serving,  \* the execution the server's thread is busy with
  held,     \* the workflow state of the conversation's last answer
  record,   \* each execution in memory and in agent_executions
  told,     \* the status its caller was told
  access,   \* policy_rules and entity_shares of the caller and the agent
  seen,     \* history: what held at some moment while a run was in the gate
  room      \* what is left of the bounds of the scenario

engineVars == <<run, serving, held, record, told>>
vars == <<poolVars, catalogVars, engineVars, access, seen, room>>

\* A workflow's state; basis, a history, is the specification all of it was
\* made under, and called are the actions a tool has really answered.
NoState == [basis |-> NoSpec, index |-> 1, bound |-> {}, outputs |-> {},
            called |-> {}, status |-> "completed"]
NoExecution == [at |-> "none", stream |-> FALSE, heard |-> TRUE, spec |-> NoSpec,
                allow |-> FALSE, tries |-> 1, status |-> "none", state |-> NoState]

Gate == {"resolve", "policy", "shares", "validate", "tools"}
Working == {"work", "calling", "judge"}
Active == Gate \cup Working \cup {"answer"}
Final == {"succeeded", "failed", "blocked"}
Statuses == Final \cup {"none", "queued", "running"}

LongestPlan == {Len(ActionsOf[s]) : s \in Workflows} \cup {0}
Indices == UNION {1..(n + 1) : n \in LongestPlan}
States == [basis : AgentSpecs \cup {NoSpec}, index : Indices \cup {1},
           bound : SUBSET Indices, outputs : SUBSET Indices, called : SUBSET Indices,
           status : {"running", "awaiting", "completed"}]

TypeOK ==
  /\ PoolTypeOK
  /\ CatalogTypeOK
  /\ run \in [Runs -> [at : Active \cup {"none", "done", "gone"}, stream : BOOLEAN,
                       heard : BOOLEAN, spec : AgentSpecs \cup {NoSpec},
                       allow : BOOLEAN, tries : 1..(MaxRounds + MaxIterations),
                       status : Final \cup {"none"}, state : States]]
  /\ serving \in Runs \cup {NoRun}
  /\ held \in States
  /\ record \in [Runs -> [memory : Statuses, database : Statuses, kept : BOOLEAN]]
  /\ told \in [Runs -> Final \cup {"none"}]
  /\ access \in Accesses
  /\ seen \in [Runs -> SUBSET ({"undenied", "entitled"} \cup Servers)]
  /\ room \in Scenario

Installed(e) ==
  {[number |-> 1, spec |-> IF e = Agent THEN room.spec ELSE "enabled",
    current |-> TRUE]}

Init ==
  /\ PoolInit
  /\ room \in Scenarios
  /\ entities = IF room.spec = NoSpec THEN {} ELSE Entities
  /\ versions = [e \in Entities |-> IF room.spec = NoSpec THEN {} ELSE Installed(e)]
  /\ project = NoProject
  /\ task = [h \in Handlers |-> Resting]
  /\ overlapped = {} /\ undisturbed = {}
  /\ run = [x \in Runs |-> NoExecution]
  /\ serving = NoRun
  /\ held = NoState
  /\ record = [x \in Runs |-> [memory |-> "none", database |-> "none", kept |-> TRUE]]
  /\ told = [x \in Runs |-> "none"]
  /\ access \in room.access
  /\ seen = [x \in Runs |-> {}]

-----------------------------------------------------------------------------
(* Records of executions.                                                  *)

\* Deviation: INSERT ... ON CONFLICT DO NOTHING.
SaveOnce(x, status) ==
  /\ record' = [record EXCEPT ![x].memory = status,
                              ![x].database = IF @ = "none" THEN status ELSE @]
  /\ UNCHANGED room

\* save_execution: in memory, and in the database unless that fails.
Save(x, status) ==
  \/ /\ record' = [record EXCEPT ![x] = [memory |-> status, database |-> status,
                                         kept |-> TRUE]]
     /\ UNCHANGED room
  \/ /\ room.losses > 0
     /\ room' = [room EXCEPT !.losses = @ - 1]
     /\ record' = [record EXCEPT ![x].memory = status, ![x].kept = FALSE]

\* get_execution.
Lookup(x) ==
  IF record[x].memory # "none" THEN record[x].memory ELSE record[x].database

At(x, pc) == run[x].at = pc
\* The execution goes on.
Go(x, R) ==
  /\ run' = [run EXCEPT ![x] = R]
  /\ UNCHANGED <<record, room>>
\* It ends with a result or, as "blocked" or "failed", with an exception.
End(x, status, state) ==
  /\ run' = [run EXCEPT ![x].at = "answer", ![x].status = status, ![x].state = state]
  /\ Save(x, status)
Block(x) == End(x, "blocked", NoState)
Fail(x) == End(x, "failed", NoState)

-----------------------------------------------------------------------------
(* create_execution up to the status "running".                            *)

\* A request is accepted when the server's thread is free.
Execute(x) ==
  /\ At(x, "none") /\ x \in room.runs /\ serving = NoRun
  /\ \E stream \in BOOLEAN :
       run' = [run EXCEPT ![x] = [NoExecution EXCEPT !.at = "resolve",
                                    !.stream = stream, !.state = held]]
  /\ serving' = x
  /\ Save(x, "queued")
  /\ UNCHANGED <<held, told>>

\* _get_entity: the specification of a current version, if there is one.
CurrentSpecs(e) ==
  IF CurrentVersions(e) = {} THEN {NoSpec} ELSE {v.spec : v \in CurrentVersions(e)}

ResolveAgent(x) ==
  /\ At(x, "resolve")
  /\ \/ /\ Agent \in entities
        /\ \E s \in CurrentSpecs(Agent) :
             Go(x, [run[x] EXCEPT !.spec = s, !.at = IF x \in Superadmins
                                                     THEN "validate" ELSE "policy"])
     \/ Agent \notin entities /\ Fail(x)

\* Deviation: a rule that allows outweighs one that denies.
AllowFirst(x) ==
  /\ At(x, "policy")
  /\ IF access.rules = {"deny"} THEN Block(x)
     ELSE Go(x, [run[x] EXCEPT !.at = "shares", !.allow = "allow" \in access.rules])

\* _evaluate_policy.
ReadPolicy(x) ==
  /\ At(x, "policy")
  /\ IF "deny" \in access.rules THEN Block(x)
     ELSE Go(x, [run[x] EXCEPT !.at = "shares", !.allow = "allow" \in access.rules])

\* _list_permissions_for_user, which is empty when the agent is gone.
ReadShares(x) ==
  /\ At(x, "shares")
  /\ IF run[x].allow \/ (access.shared /\ Agent \in entities)
     THEN Go(x, [run[x] EXCEPT !.at = "validate"])
     ELSE Block(x)

Enabled(server) ==
  server \in entities /\ "enabled" \in CurrentSpecs(server)

\* The workflow state goes on where it stopped, unless it was completed.
Resumed(x) ==
  LET s == run[x].spec
      st == run[x].state
  IN  IF st.status = "completed"
      THEN [NoState EXCEPT !.basis = s, !.status = "running"]
      ELSE [st EXCEPT !.basis = IF @ = s THEN @ ELSE NoSpec]

\* resolve_agent_tools, once to validate and once for its result.  The agent's
\* model, runtime profile or tool may rule the execution out, too.
ResolveTools(x) ==
  LET server == ServerOf[run[x].spec]
  IN  /\ run[x].at \in {"validate", "tools"}
      /\ \/ Block(x)
         \/ /\ server = NoServer \/ Enabled(server)
            /\ At(x, "validate")
            /\ Go(x, [run[x] EXCEPT !.at = "tools"])
         \/ /\ server = NoServer \/ Enabled(server)
            /\ At(x, "tools")
            /\ run' = [run EXCEPT ![x].at = "work", ![x].state = Resumed(x)]
            /\ Save(x, "running")

-----------------------------------------------------------------------------
(* _execute_workflow_agent.                                                *)

IsWorkflow(x) == run[x].spec \in Workflows
Plan(x) == ActionsOf[run[x].spec]
\* action_index is clamped to the actions there are.
Position(x) ==
  IF run[x].state.index > Len(Plan(x)) THEN Len(Plan(x)) + 1 ELSE run[x].state.index
AtAction(x, kind) ==
  /\ At(x, "work") /\ IsWorkflow(x)
  /\ Position(x) <= Len(Plan(x)) /\ Plan(x)[Position(x)] = kind

\* Deviation: the workflow goes on without the variables it asked for.
InputUnasked(x) ==
  LET i == Position(x)
      st == run[x].state
  IN  /\ AtAction(x, "input")
      /\ \E filled \in {st.bound, st.bound \cup {i}} :
           Go(x, [run[x] EXCEPT !.state.bound = filled, !.state.index = i + 1])

\* get_user_input: the model extracts the variables from the conversation,
\* or the execution ends with a question.  A failing model extracts nothing.
Input(x) ==
  LET i == Position(x)
      st == run[x].state
  IN  /\ AtAction(x, "input")
      /\ \/ Go(x, [run[x] EXCEPT !.state.bound = @ \cup {i}, !.state.index = i + 1])
         \/ /\ i \notin st.bound
            /\ End(x, "succeeded", [st EXCEPT !.index = i, !.status = "awaiting"])
         \/ i \notin st.bound /\ Fail(x)

\* mcp_tool: the arguments become a Python dict in the tool call, of which
\* invoke_tool_call takes str(...) for JSON: only {} passes.  Any other is
\* answered with an error without a request to the tool's runtime.
Tool(x) ==
  LET i == Position(x)
  IN  /\ AtAction(x, "tool")
      /\ \/ /\ Go(x, [run[x] EXCEPT !.at = "judge", !.state.outputs = @ \cup {i}])
            /\ UNCHANGED poolVars
         \/ Go(x, [run[x] EXCEPT !.at = "calling"]) /\ Request(x)
         \/ Fail(x) /\ UNCHANGED poolVars

\* The model judges the result; "complete" is the default.
Judge(x) ==
  LET i == Position(x)
  IN  /\ At(x, "judge")
      /\ \/ Go(x, [run[x] EXCEPT !.at = "work", !.tries = 1, !.state.index = i + 1])
         \/ /\ run[x].tries < MaxIterations
            /\ Go(x, [run[x] EXCEPT !.at = "work", !.tries = @ + 1])
         \/ Fail(x)

\* send_output, or the end of the actions.
Output(x) ==
  /\ \/ AtAction(x, "output")
     \/ At(x, "work") /\ IsWorkflow(x) /\ Plan(x) # <<>> /\ Position(x) > Len(Plan(x))
  /\ \/ End(x, "succeeded", [run[x].state EXCEPT !.index = Len(Plan(x)),
                                                 !.status = "completed"])
     \/ Fail(x)

\* A workflow without actions.
NoActions(x) ==
  /\ At(x, "work") /\ IsWorkflow(x) /\ Plan(x) = <<>>
  /\ Fail(x)

-----------------------------------------------------------------------------
(* _execute_model_call.                                                    *)

\* Deviation: nothing counts the rounds.
RoundUncounted(x) ==
  /\ At(x, "work") /\ ~IsWorkflow(x)
  /\ \/ End(x, "succeeded", NoState) /\ UNCHANGED poolVars
     \/ Go(x, [run[x] EXCEPT !.at = "calling"]) /\ Request(x)

\* One round: the model answers, or calls a tool: one it was not given, with
\* arguments that are no JSON, or really.  After MaxRounds calls it is over.
\* Several calls in one round are taken for one.
Round(x) ==
  /\ At(x, "work") /\ ~IsWorkflow(x)
  /\ \/ /\ \/ run[x].tries <= MaxRounds /\ End(x, "succeeded", NoState)
           \/ run[x].tries <= MaxRounds /\ Block(x)
           \/ Fail(x)
           \/ /\ run[x].tries <= MaxRounds /\ ServerOf[run[x].spec] # NoServer
              /\ Go(x, [run[x] EXCEPT !.tries = @ + 1])
        /\ UNCHANGED poolVars
     \/ /\ run[x].tries <= MaxRounds /\ ServerOf[run[x].spec] # NoServer
        /\ Go(x, [run[x] EXCEPT !.at = "calling", !.tries = @ + 1])
        /\ Request(x)

\* invoke_tool_call returns or raises.
ToolReturns(x) ==
  /\ At(x, "calling") /\ call[x].at = "back"
  /\ Return(x)
  /\ \/ call[x].reply = "answer" /\ IsWorkflow(x)
        /\ Go(x, [run[x] EXCEPT !.at = "judge",
                                !.state.outputs = @ \cup {Position(x)},
                                !.state.called = @ \cup {Position(x)}])
     \/ call[x].reply = "answer" /\ ~IsWorkflow(x) /\ Go(x, [run[x] EXCEPT !.at = "work"])
     \/ Fail(x)   \* 502, 504, an exception, or an error status of the tool

-----------------------------------------------------------------------------

\* The server sends the answer to the caller, if that is still there.
Answer(x) ==
  LET R == run[x]
  IN  /\ At(x, "answer")
      /\ run' = [run EXCEPT ![x] = [NoExecution EXCEPT !.at = "done"]]
      /\ serving' = IF serving = x THEN NoRun ELSE serving
      /\ told' = IF R.heard THEN [told EXCEPT ![x] = R.status] ELSE told
      /\ held' = IF R.heard /\ R.status = "succeeded" /\ R.spec \in Workflows
                 THEN R.state ELSE held
      /\ UNCHANGED <<record, room>>

\* The client hangs up.  Writing the next event of a stream then fails, and
\* the server's thread is free.
Leave(x) ==
  /\ run[x].at \in Active /\ run[x].heard
  /\ run' = [run EXCEPT ![x].heard = FALSE]
  /\ serving' = IF run[x].stream THEN NoRun ELSE serving
  /\ UNCHANGED <<poolVars, registry, held, record, told, room>>

Thread(x) ==
  \/ /\ \/ /\ \/ ResolveAgent(x) \/ ReadPolicy(x) \/ ReadShares(x) \/ ResolveTools(x)
              \/ Input(x) \/ Judge(x) \/ Output(x) \/ NoActions(x)
           /\ UNCHANGED poolVars
        \/ Tool(x) \/ Round(x) \/ ToolReturns(x)
     /\ UNCHANGED <<serving, held, told>>
  \/ Answer(x) /\ UNCHANGED poolVars
  \/ Exchange(x) /\ UNCHANGED <<run, serving, held, record, told, room>>

\* The process and all it had in memory are gone.
EngineCrash ==
  /\ room.crashes > 0
  /\ room' = [room EXCEPT !.crashes = @ - 1]
  /\ pool' = {} /\ sock' = {}
  /\ unread' = [c \in Connections |-> NoCaller]
  /\ call' = [x \in Runs |-> NoCall]
  /\ run' = [x \in Runs |-> IF run[x].at \in Active
                            THEN [NoExecution EXCEPT !.at = "gone"] ELSE run[x]]
  /\ record' = [x \in Runs |-> [record[x] EXCEPT !.memory = "none"]]
  /\ serving' = NoRun
  /\ UNCHANGED <<registry, held, told>>

AdminStep ==
  \/ /\ room.requests > 0
     /\ \E h \in room.handlers : CatalogRequest(h, room.specs)
     /\ room' = [room EXCEPT !.requests = @ - 1]
  \/ /\ \E h \in Handlers : CatalogStep(h)
     /\ UNCHANGED room
  \/ /\ room.cuts > 0
     /\ \E h \in Handlers : Cut(h)
     /\ room' = [room EXCEPT !.cuts = @ - 1]

\* A request to the backend, or the next step of one.  The shares of an agent
\* go with it, and a new agent is somebody else's.
Administer ==
  /\ AdminStep
  /\ access' = [access EXCEPT !.shared = @ /\ (Agent \in entities => Agent \in entities')]

\* create_policy_rule and create_share_grant; neither is ever taken back.
ChangeAccess ==
  /\ room.changes > 0
  /\ room' = [room EXCEPT !.changes = @ - 1]
  /\ \/ \E rule \in {"allow", "deny"} \ access.rules :
          access' = [access EXCEPT !.rules = @ \cup {rule}]
     \/ /\ Agent \in entities /\ ~access.shared
        /\ access' = [access EXCEPT !.shared = TRUE]

\* What the gate of an execution asks for.
Facts ==
  {f \in {"undenied"} : "deny" \notin access.rules}
  \cup {f \in {"entitled"} : \/ "allow" \in access.rules
                             \/ access.shared /\ Agent \in entities}
  \cup {server \in Servers : Enabled(server)}

Watch ==
  seen' = [x \in Runs |-> IF run'[x].at \in Gate THEN seen[x] \cup Facts'
                          ELSE IF run'[x].at \in Working THEN seen[x] ELSE {}]

Engine ==
  \/ \E x \in Runs : Execute(x) /\ UNCHANGED poolVars
  \/ \E x \in Runs : Thread(x)
  \/ \E x \in Runs : Leave(x)
  \/ EngineCrash

Next ==
  /\ \/ Engine /\ UNCHANGED <<catalogVars, access>>
     \/ Administer /\ UNCHANGED <<poolVars, engineVars>>
     \/ /\ ChangeAccess
        /\ UNCHANGED <<poolVars, catalogVars, engineVars>>
  /\ Watch

Spec == Init /\ [][Next]_vars

\* The operating system runs every thread of the engine, a model answers or
\* times out, and so does a tool.
FairSpec ==
  Spec /\ \A x \in Runs : WF_vars(Thread(x) /\ UNCHANGED <<catalogVars, access>> /\ Watch)

-----------------------------------------------------------------------------
(* Properties.                                                             *)

\* The status a caller was told is what get_execution answers ever after,
\* also after the engine restarted, unless the database lost the last write.
AnswerIsKept ==
  \A x \in Runs : told[x] # "none" /\ record[x].kept => Lookup(x) = told[x]

\* An execution ends, however the model and the tools behave, or is lost with
\* the process: rounds, iterations and retries are bounded.
ExecutionsEnd == \A x \in Runs : run[x].at \in Active ~> run[x].at \in {"done", "gone"}

\* An execution that runs was, at some moment of its way through the gate,
\* not denied, at some moment entitled, and its server was enabled at some.
AdmittedWasAllowed ==
  \A x \in Runs : run[x].at \in Working =>
    /\ x \notin Superadmins => {"undenied", "entitled"} \subseteq seen[x]
    /\ ServerOf[run[x].spec] # NoServer => ServerOf[run[x].spec] \in seen[x]

\* The actions of a workflow before its output.
BeforeOutput(s) ==
  {i \in 1..Len(ActionsOf[s]) : \A j \in 1..i : ActionsOf[s][j] # "output"}

\* A workflow that was completed, over any number of turns under the same
\* specification, has all variables it asked for and the results of its tools.
OutputHasInputs ==
  \A x \in Runs :
    LET R == run[x]
    IN  R.at = "answer" /\ R.state.status = "completed"
          /\ R.status = "succeeded" /\ R.spec \in Workflows /\ R.state.basis = R.spec
        => \A i \in BeforeOutput(R.spec) :
             i \in IF ActionsOf[R.spec][i] = "input" THEN R.state.bound
                                                      ELSE R.state.outputs

\* The tool of a workflow was called before it is completed: "Dispatch tool
\* calls through the active `mcp_runtime`, `web_search`, or
\* `sandbox_execution` provider" (docs/services/agent-engine.md).
WorkflowCallsTool ==
  \A x \in Runs :
    LET R == run[x]
    IN  R.at = "answer" /\ R.state.status = "completed"
          /\ R.status = "succeeded" /\ R.spec \in Workflows /\ R.state.basis = R.spec
        => \A i \in BeforeOutput(R.spec) :
             ActionsOf[R.spec][i] = "tool" => i \in R.state.called
=============================================================================
