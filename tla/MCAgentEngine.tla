--------------------------- MODULE MCAgentEngine ---------------------------
(* Small instances of AgentEngine.                                         *)
EXTENDS AgentEngine, TLC

CONSTANTS x1, x2, h1, flow, form, long, empty, react, mcp

\* Workflows with and without a tool, and an agent with the same tool.
MCActionsOf == flow :> <<"input", "tool", "output">>
               @@ form :> <<"input", "output">> @@ long :> <<"input", "input", "output">>
               @@ empty :> <<>>
MCServerOf == [s \in AgentSpecs \cup {NoSpec} |->
                 IF s \in {flow, react} THEN mcp ELSE NoServer]

Shared == [rules |-> {}, shared |-> TRUE]
Allowed == [rules |-> {"allow"}, shared |-> FALSE]
Denied == [rules |-> {"allow", "deny"}, shared |-> TRUE]
Private == [rules |-> {}, shared |-> FALSE]
Nothing == [spec |-> NoSpec, specs |-> {flow, form}, access |-> {Shared},
            runs |-> {}, handlers |-> {h1}, requests |-> 0, cuts |-> 0, changes |-> 0,
            crashes |-> 0, losses |-> 0]

\* Handlers at work on the registry and the project.
Registry == [Nothing EXCEPT !.access = {Private}, !.handlers = Handlers, !.requests = 4]
\* One handler, of which any task may be cut short.
Failures == [Nothing EXCEPT !.access = {Private}, !.requests = 4, !.cuts = 2]
\* The gate, while access and registry change.
Admission == [Nothing EXCEPT !.spec = react, !.specs = {react}, !.runs = {x1},
                             !.access = {Private, Shared, Allowed, Denied},
                             !.requests = 1, !.changes = 1]
\* A superadmin's turn, while the server and the agent change.
Bypass == [Nothing EXCEPT !.spec = react, !.specs = {react}, !.runs = {x2},
                          !.requests = 1]
\* Turns of a workflow, overlapping or one after the other.
Turns == [Nothing EXCEPT !.spec = flow, !.runs = {x1, x2}]
\* A crash of the engine, and a write that its database loses.
Losses == [Nothing EXCEPT !.spec = flow, !.runs = {x1}, !.crashes = 1, !.losses = 1]
\* The workflow's specification changes between its turns.
Republished == [Nothing EXCEPT !.spec = form, !.specs = {long}, !.runs = {x1, x2},
                               !.requests = 1]
\* A workflow without actions.
Empty == [Nothing EXCEPT !.spec = empty, !.runs = {x1}]
\* Rounds of an agent that calls its tool.
Rounds == [Nothing EXCEPT !.spec = react, !.specs = {react}, !.runs = {x1, x2}]

MCScenarios ==
  {Registry, Failures, Admission, Bypass, Turns, Losses, Republished,
   Empty, Rounds}
MCTurns == {Turns}
=============================================================================
