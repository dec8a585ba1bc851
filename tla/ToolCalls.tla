----------------------------- MODULE ToolCalls -----------------------------
(***************************************************************************)
(* A tool that is called.                                                  *)
(*                                                                         *)
(*   engine --request--> gateway --> backend --request--> runtime          *)
(*   engine --request-------------------------------------> runtime        *)
(*                                                                         *)
(* An agent reaches tools that run in the sandbox or on images directly    *)
(* (tool_runtime/dispatch.py), the others over the MCP gateway             *)
(* (mcp_gateway/app/main.py) and the backend (catalog_service.py), which   *)
(* looks the server up again, checks it, runs the tool and logs the call.  *)
(* A superadmin tests a server or executes a tool within the backend.      *)
(*                                                                         *)
(* A request is sent by a pool of connections, which sends it once more    *)
(* when it is lost before the response has begun, so that each call may be *)
(* served twice at a time: it has two attempts.                            *)
(***************************************************************************)
EXTENDS ToolCatalog

CONSTANT Calls

VARIABLES
  scene,    \* what the tools run on, who calls them, the calls that are made
  call,     \* where each call is and how it ended
  request,  \* its request over the pool: the attempt that is waited for
  reply,    \* responses that were not read, by attempt
  gateway,  \* the gateway's part in an attempt
  inv,      \* the backend's part
  allowed,  \* tools that it was allowed to run since it began
  log,      \* what it logged
  sandbox,  \* its queue, the files it keeps
  images,   \* workers that are still to be called for an attempt
  ran       \* attempts that ran the tool to its end

callVars == <<scene, call, request, reply, gateway, inv, allowed, log, sandbox, images, ran>>
allVars == <<catalogVars, budget, callVars>>

Attempts == Calls \X {1, 2}
Backends == {"sandbox", "images", "knowledge", "web"}
Origins == {"agent", "test", "execute"}

\* result: 2xx.  refused: any status from which a tool can still answer the
\* model.  down: 502 and more.  lost: no response.
Answers == {"none", "result", "warned", "refused", "down", "lost"}

Remote == scene.backend \in {"sandbox", "images"}
OverGateway == scene.origin = "agent" /\ ~Remote

ASSUME ScenesAssumption ==
  Scenes \subseteq [backend : Backends, origin : Origins, calls : SUBSET Calls,
                    edits : Nat, faults : Nat]

NoInvocation == [at |-> "idle", slug |-> "", server |-> "", spec |-> NoSpec, version |-> 0,
                 answer |-> "none"]
NoImages == [at |-> "idle", left |-> 0, warned |-> FALSE]

CallsTypeOK ==
  /\ CatalogTypeOK
  /\ scene.backend \in Backends /\ scene.origin \in Origins
  /\ \A c \in Calls :
       /\ call[c].at \in {"idle", "resolved", "over"}
       /\ call[c].outcome \in {"none", "result", "error", "failed"}
       /\ request[c].at \in {"idle", "waiting", "over"} /\ request[c].try \in 0..2
       /\ request[c].answer \in Answers
  /\ \A a \in Attempts :
       /\ reply[a] \in Answers
       /\ gateway[a] \in {"idle", "waiting", "over"}
       /\ inv[a].at \in {"idle", "find", "tool", "providers", "run", "judge", "log", "over"}
       /\ log[a] \in {"none", "success", "failed", "unwritten"}
       /\ images[a].at \in {"idle", "asked", "working", "over"}

CallsInit ==
  /\ CatalogInit
  /\ scene \in Scenes
  /\ budget = [edits |-> scene.edits, faults |-> scene.faults]
  /\ call = [c \in Calls |-> [at |-> "idle", slug |-> "", outcome |-> "none"]]
  /\ request = [c \in Calls |-> [at |-> "idle", try |-> 0, answer |-> "none", lost |-> 0]]
  /\ reply = [a \in Attempts |-> "none"]
  /\ gateway = [a \in Attempts |-> "idle"]
  /\ inv = [a \in Attempts |-> NoInvocation]
  /\ allowed = [a \in Attempts |-> {}]
  /\ log = [a \in Attempts |-> "none"]
  /\ sandbox = [queue |-> <<>>, files |-> {}]
  /\ images = [a \in Attempts |-> NoImages]
  /\ ran = {}

Mishap == budget.faults > 0 /\ budget' = [budget EXCEPT !.faults = @ - 1]

-----------------------------------------------------------------------------
(* A request over the pool                                                 *)

\* The request is at the other end: at the gateway, which passes it on, at the
\* sandbox, which has one thread, or at the gateway of the image workers.
Serve(a) ==
  /\ IF OverGateway
     THEN /\ gateway' = [gateway EXCEPT ![a] = "waiting"]
          /\ inv' = [inv EXCEPT ![a].at = "find", ![a].slug = call[a[1]].slug]
     ELSE UNCHANGED <<gateway, inv>>
  /\ sandbox' = IF scene.backend = "sandbox"
                THEN [sandbox EXCEPT !.queue = Append(@, a)] ELSE sandbox
  /\ images' = IF scene.backend = "images"
               THEN [images EXCEPT ![a].at = "asked"] ELSE images

\* It may be lost on the way.
SendRequest(c) ==
  \/ Serve(<<c, request[c].try + 1>>) /\ UNCHANGED budget
  \/ UNCHANGED <<gateway, inv, sandbox, images>> /\ Mishap

BeginRequest(c) ==
  /\ request[c].at = "idle"
  /\ request' = [request EXCEPT ![c].at = "waiting", ![c].try = 1]
  /\ SendRequest(c)
  /\ UNCHANGED <<scene, call, reply, log, ran>>

Waiting(c) == request[c].at = "waiting"
Latest(c) == <<c, request[c].try>>

\* The socket timed out, or the connection ended without a response.
Missing(c) == reply[Latest(c)] \in {"none", "lost"}

\* Mutant: a request is sent again also when a runtime turned it down.
MaySendAgainOnError(c) == request[c].try = 1 /\ reply[Latest(c)] # "result"

MaySendAgain(c) == request[c].try = 1 /\ Missing(c)

RequestSentAgain(c) ==
  /\ Waiting(c) /\ MaySendAgain(c)
  /\ request' = [request EXCEPT ![c].try = 2, ![c].lost = IF Missing(c) THEN 1 ELSE 0]
  /\ SendRequest(c)
  /\ UNCHANGED <<scene, call, reply, log, ran>>

\* Mutant: it is waited for without an end.
RequestLasts(c) == FALSE /\ c \in Calls /\ UNCHANGED allVars

RequestFails(c) ==
  /\ Waiting(c) /\ request[c].try = 2 /\ Missing(c)
  /\ request' = [request EXCEPT ![c].at = "over", ![c].answer = "down"]
  /\ UNCHANGED <<budget, scene, call, reply, gateway, inv, log, sandbox, images, ran>>

\* Mutant: a connection that was given up is read from again.
RequestReadAny(c) ==
  /\ Waiting(c)
  /\ \E i \in 1..request[c].try :
       /\ reply[<<c, i>>] \notin {"none", "lost"}
       /\ request' = [request EXCEPT ![c].at = "over", ![c].answer = reply[<<c, i>>]]
  /\ UNCHANGED <<budget, scene, call, reply, gateway, inv, log, sandbox, images, ran>>

\* The response may break off; a connection that was given up is not read.
RequestRead(c) ==
  /\ Waiting(c) /\ ~Missing(c)
  /\ \/ /\ request' = [request EXCEPT ![c].at = "over", ![c].answer = reply[Latest(c)]]
        /\ UNCHANGED budget
     \/ /\ request' = [request EXCEPT ![c].at = "over", ![c].answer = "down"]
        /\ Mishap
  /\ UNCHANGED <<scene, call, reply, gateway, inv, log, sandbox, images, ran>>

-----------------------------------------------------------------------------
(* The agent engine                                                        *)

\* The engine resolved the server before it asked the model, which may name
\* arguments that are none.
InvokeToolCall(c) ==
  /\ scene.origin = "agent" /\ call[c].at = "idle" /\ c \in scene.calls
  /\ \E s \in Servers :
       /\ servers[s].spec.enabled /\ servers[s].spec.open
       /\ \/ call' = [call EXCEPT ![c].at = "resolved", ![c].slug = servers[s].spec.slug]
          \/ call' = [call EXCEPT ![c].at = "over", ![c].outcome = "error"]
  /\ UNCHANGED <<budget, scene, request, reply, gateway, inv, log, sandbox, images, ran>>

EngineAsks(c) ==
  scene.origin = "agent" /\ call[c].at = "resolved" /\ BeginRequest(c)

\* What a tool of the sandbox reports is told to the model; any other status than
\* 2xx fails the execution.
Told(answer) ==
  CASE answer \in {"result", "warned"}                       -> "result"
    [] answer = "refused" /\ scene.backend = "sandbox"       -> "error"
    [] OTHER                                                 -> "failed"

EngineReceives(c) ==
  /\ scene.origin = "agent" /\ call[c].at = "resolved" /\ request[c].at = "over"
  /\ call' = [call EXCEPT ![c].at = "over", ![c].outcome = Told(request[c].answer)]
  /\ UNCHANGED <<budget, scene, request, reply, gateway, inv, log, sandbox, images, ran>>

-----------------------------------------------------------------------------
(* The MCP gateway                                                         *)

GatewayAnswers(a) ==
  /\ gateway[a] = "waiting" /\ inv[a].at = "over"
  /\ gateway' = [gateway EXCEPT ![a] = "over"]
  /\ reply' = [reply EXCEPT ![a] = inv[a].answer]
  /\ UNCHANGED <<budget, scene, call, request, inv, log, sandbox, images, ran>>

\* The backend goes on with what it was asked for.
GatewayTimesOut(a) ==
  /\ gateway[a] = "waiting" /\ inv[a].at # "over"
  /\ gateway' = [gateway EXCEPT ![a] = "over"]
  /\ reply' = [reply EXCEPT ![a] = "down"]
  /\ UNCHANGED <<budget, scene, call, request, inv, log, sandbox, images, ran>>

GatewayDies ==
  /\ \E a \in Attempts : gateway[a] = "waiting"
  /\ Mishap
  /\ gateway' = [a \in Attempts |-> IF gateway[a] = "waiting" THEN "over" ELSE gateway[a]]
  /\ reply' = [a \in Attempts |-> IF gateway[a] = "waiting" THEN "lost" ELSE reply[a]]
  /\ UNCHANGED <<scene, call, request, inv, log, sandbox, images, ran>>

-----------------------------------------------------------------------------
(* The backend                                                             *)

Invoking(a, place) == inv[a].at = place
Proceed(a, place) == inv' = [inv EXCEPT ![a].at = place]
Refuse(a) == inv' = [inv EXCEPT ![a].at = "log", ![a].answer = "refused"]
OfBackend == <<call, request, reply, gateway, sandbox, images>>

\* test_catalog_mcp_server
TestServer(c) ==
  /\ scene.origin = "test" /\ call[c].at = "idle" /\ c \in scene.calls
  /\ \E s \in Servers :
       /\ servers[s].spec # NoSpec
       /\ call' = [call EXCEPT ![c].at = "resolved", ![c].slug = servers[s].spec.slug]
       /\ inv' = [inv EXCEPT ![<<c, 1>>].at = "find", ![<<c, 1>>].slug = servers[s].spec.slug]
  /\ UNCHANGED <<budget, scene, request, reply, gateway, log, sandbox, images, ran>>

\* execute_catalog_tool
ExecuteTool(c) ==
  /\ scene.origin = "execute" /\ call[c].at = "idle" /\ c \in scene.calls
  /\ call' = [call EXCEPT ![c].at = "resolved"]
  /\ \E t \in Tools :
       inv' = [inv EXCEPT ![<<c, 1>>].at = "tool", ![<<c, 1>>].spec.tool = t]
  /\ UNCHANGED <<budget, scene, request, reply, gateway, log, sandbox, images, ran>>

\* Mutant: the server's switch is not looked at.
FitForAny(spec) == spec.open

FitFor(spec) == spec.enabled /\ spec.open

\* invoke_catalog_mcp_server: the server is looked up by its slug, its switch and
\* its policy are checked, and the arguments.
FindServerBySlug(a) ==
  /\ Invoking(a, "find")
  /\ \/ /\ \A s \in Servers : servers[s].spec.slug # inv[a].slug
        /\ Refuse(a)
     \/ \E s \in Servers :
          /\ servers[s].spec.slug = inv[a].slug
          /\ \/ inv' = [inv EXCEPT ![a].at = "log", ![a].server = s, ![a].answer = "refused"]
             \/ /\ FitFor(servers[s].spec)
                /\ inv' = [inv EXCEPT ![a].at = "tool", ![a].server = s,
                                      ![a].spec = servers[s].spec]
  /\ UNCHANGED <<budget, scene, OfBackend, log, ran>>

GetTool(a) ==
  /\ Invoking(a, "tool")
  /\ inv' = [inv EXCEPT ![a].at = IF scene.origin = "execute" THEN "run" ELSE "providers",
                        ![a].version = tools[inv[a].spec.tool].current]
  /\ UNCHANGED <<budget, scene, OfBackend, log, ran>>

\* _tool_visible_for_runtime
SeeProviders(a) ==
  /\ Invoking(a, "providers")
  /\ Refuse(a) \/ Proceed(a, "run")
  /\ UNCHANGED <<budget, scene, OfBackend, log, ran>>

\* _execute_internal_tool: its input, what it is bound to, tasks without a default.
RefuseInput(a) ==
  /\ Invoking(a, "run") /\ ~(Remote /\ request[a[1]].at # "idle")
  /\ Refuse(a)
  /\ UNCHANGED <<budget, scene, OfBackend, log, ran>>

BackendAsks(a) ==
  Remote /\ Invoking(a, "run") /\ BeginRequest(a[1])

BackendReceives(a) ==
  /\ Remote /\ Invoking(a, "run") /\ request[a[1]].at = "over"
  /\ inv' = [inv EXCEPT ![a].at = "judge", ![a].answer = request[a[1]].answer]
  /\ UNCHANGED <<budget, scene, OfBackend, log, ran>>

\* The knowledge base is queried or the web searched.
RunTool(a) ==
  /\ ~Remote /\ Invoking(a, "run")
  /\ \E answer \in {"result", "refused", "down"} :
       inv' = [inv EXCEPT ![a].at = "judge", ![a].answer = answer]
  /\ ran' = ran \cup {a}
  /\ UNCHANGED <<budget, scene, OfBackend, log>>

\* The schema of the tool and that of the server are held against a result.
Judge(a) ==
  /\ Invoking(a, "judge")
  /\ \/ Proceed(a, "log")
     \/ /\ inv[a].answer \in {"result", "warned"}
        /\ inv' = [inv EXCEPT ![a].at = "log", ![a].answer = "down"]
  /\ UNCHANGED <<budget, scene, OfBackend, log, ran>>

\* An exception that is none of the catalog's.  Where the server is looked up
\* nobody logs it.
Crash(a) ==
  /\ inv[a].at \in {"find", "tool", "providers", "judge"}
  /\ Mishap
  /\ inv' = [inv EXCEPT ![a].at = IF inv[a].at = "find" THEN "over" ELSE "log",
                        ![a].answer = "down"]
  /\ UNCHANGED <<scene, OfBackend, log, ran>>

\* Mutant: the status is taken for a success as soon as the tool has answered.
VerdictOfRun(answer) == IF answer = "down" THEN "failed" ELSE "success"

Verdict(answer) == IF answer \in {"result", "warned"} THEN "success" ELSE "failed"

\* The row of the log refers to the server.
ServerGone(a) == inv[a].server \in Servers /\ ~servers[inv[a].server].exists

\* log_mcp_invocation, whose failure is passed over; execute_catalog_tool does
\* not log.
Log(a) ==
  /\ Invoking(a, "log")
  /\ Proceed(a, "over")
  /\ IF scene.origin = "execute"
     THEN UNCHANGED <<log, budget>>
     ELSE \/ /\ log' = [log EXCEPT ![a] = IF ServerGone(a) THEN "unwritten"
                                           ELSE Verdict(inv[a].answer)]
             /\ UNCHANGED budget
          \/ log' = [log EXCEPT ![a] = "unwritten"] /\ Mishap
  /\ UNCHANGED <<scene, OfBackend, ran>>

\* The superadmin is answered.
Respond(c) ==
  /\ scene.origin # "agent" /\ call[c].at = "resolved" /\ inv[<<c, 1>>].at = "over"
  /\ call' = [call EXCEPT ![c].at = "over",
       ![c].outcome = IF inv[<<c, 1>>].answer \in {"result", "warned"} THEN "result" ELSE "failed"]
  /\ UNCHANGED <<budget, scene, request, reply, gateway, inv, log, sandbox, images, ran>>

-----------------------------------------------------------------------------
(* The sandbox                                                             *)

Running == Head(sandbox.queue)
SandboxReplies(answer) ==
  /\ reply' = [reply EXCEPT ![Running] = answer]
  /\ UNCHANGED <<scene, call, request, gateway, inv, log, images>>

\* The request is turned down, or its result file made.
SandboxTakes ==
  /\ sandbox.queue # <<>> /\ Running \notin sandbox.files
  /\ \/ sandbox' = [sandbox EXCEPT !.queue = Tail(@)] /\ SandboxReplies("refused")
     \/ /\ sandbox' = [sandbox EXCEPT !.files = @ \cup {Running}]
        /\ UNCHANGED <<scene, call, request, reply, gateway, inv, log, images>>
  /\ UNCHANGED <<budget, ran>>

\* Mutant: code that was stopped leaves its file behind.
FilesAfterTimeout(answer) ==
  IF answer = "down" THEN sandbox.files ELSE sandbox.files \ {Running}

FilesAfter(answer) == sandbox.files \ {Running}

\* The code ended well or with an error, was stopped, or left a file that cannot
\* be read, which ends the connection.
SandboxEnds ==
  /\ sandbox.queue # <<>> /\ Running \in sandbox.files
  /\ \E answer \in {"result", "refused", "down", "lost"} :
       /\ sandbox' = [sandbox EXCEPT !.queue = Tail(@), !.files = FilesAfter(answer)]
       /\ SandboxReplies(answer)
  /\ ran' = ran \cup {Running}
  /\ UNCHANGED budget

\* subprocess.run raised something other than the time-out, which nobody catches:
\* the code could not be started, or what it wrote was no text.  The file stays.
SandboxRaises ==
  /\ sandbox.queue # <<>> /\ Running \in sandbox.files
  /\ sandbox' = [sandbox EXCEPT !.queue = Tail(@)]
  /\ SandboxReplies("lost")
  /\ ran' = ran \/ ran' = ran \cup {Running}
  /\ UNCHANGED budget

SandboxDies ==
  /\ sandbox.queue # <<>>
  /\ Mishap
  /\ reply' = [a \in Attempts |->
       IF \E i \in DOMAIN sandbox.queue : sandbox.queue[i] = a THEN "lost" ELSE reply[a]]
  /\ sandbox' = [sandbox EXCEPT !.queue = <<>>]
  /\ UNCHANGED <<scene, call, request, gateway, inv, log, images, ran>>

-----------------------------------------------------------------------------
(* The gateway of the image workers                                        *)

\* The image or the tasks are wrong, or a task is disabled; the tasks are grouped
\* by worker.
ImagesBegin(a) ==
  /\ images[a].at = "asked"
  /\ \/ /\ images' = [images EXCEPT ![a].at = "over"]
        /\ reply' = [reply EXCEPT ![a] = "refused"]
     \/ /\ \E workers \in 1..2 : images' = [images EXCEPT ![a].at = "working", ![a].left = workers]
        /\ UNCHANGED reply
  /\ UNCHANGED <<budget, scene, call, request, gateway, inv, log, sandbox, ran>>

\* A worker that fails leaves a warning.
CallWorker(a) ==
  /\ images[a].at = "working" /\ images[a].left > 0
  /\ \/ images' = [images EXCEPT ![a].left = @ - 1]
     \/ images' = [images EXCEPT ![a].left = @ - 1, ![a].warned = TRUE]
  /\ UNCHANGED <<budget, scene, call, request, reply, gateway, inv, log, sandbox, ran>>

ImagesAnswer(a) ==
  /\ images[a].at = "working" /\ images[a].left = 0
  /\ images' = [images EXCEPT ![a].at = "over"]
  /\ reply' = [reply EXCEPT ![a] = IF images[a].warned THEN "warned" ELSE "result"]
  /\ ran' = ran \cup {a}
  /\ UNCHANGED <<budget, scene, call, request, gateway, inv, log, sandbox>>

-----------------------------------------------------------------------------
CallBegins(c) == InvokeToolCall(c) \/ TestServer(c) \/ ExecuteTool(c)
CallStep(c) == EngineAsks(c) \/ EngineReceives(c) \/ RequestSentAgain(c)
               \/ RequestFails(c) \/ RequestRead(c) \/ Respond(c)
ServeStep(a) == GatewayAnswers(a) \/ GatewayTimesOut(a) \/ FindServerBySlug(a)
                \/ GetTool(a) \/ SeeProviders(a) \/ RefuseInput(a) \/ BackendAsks(a)
                \/ BackendReceives(a) \/ RunTool(a) \/ Judge(a) \/ Log(a)
                \/ ImagesBegin(a) \/ CallWorker(a) \/ ImagesAnswer(a)
SandboxStep == SandboxTakes \/ SandboxEnds \/ SandboxRaises
Fault == GatewayDies \/ SandboxDies \/ \E a \in Attempts : Crash(a)

\* The tools that a server by that name lets the caller run.
Admitted(rows, slug) ==
  {rows[s].spec.tool : s \in {o \in Servers : rows[o].spec.slug = slug /\ rows[o].spec.enabled
                                              /\ rows[o].spec.open}}

\* A history of them, for as long as the invocation looks for its tool.
Watch ==
  allowed' = [a \in Attempts |->
    IF inv'[a].at = "find" THEN allowed[a] \cup Admitted(servers', inv'[a].slug) ELSE allowed[a]]

Serving ==
  (\E c \in Calls : CallStep(c)) \/ (\E a \in Attempts : ServeStep(a)) \/ SandboxStep

CallsNext ==
  \/ (Serving \/ Fault \/ \E c \in Calls : CallBegins(c)) /\ UNCHANGED catalogVars /\ Watch
  \/ /\ CatalogNext
     /\ UNCHANGED <<scene, call, request, reply, gateway, inv, log, sandbox, images, ran>>
     /\ Watch

\* The services go on with what they began and sockets time out; who calls, edits
\* or breaks something need not.
CallsFairness == WF_allVars(Serving /\ UNCHANGED catalogVars /\ Watch)

CallsSpec == CallsInit /\ [][CallsNext]_allVars /\ CallsFairness

-----------------------------------------------------------------------------
\* The attempt that answered a call: the backend's own invocation is the first.
Answering(c) == IF scene.origin = "agent" \/ Remote THEN Latest(c) ELSE <<c, 1>>
Invocation(c) == IF scene.origin = "agent" THEN Latest(c) ELSE <<c, 1>>

\* A caller who is given a result is given that of the attempt it waited for, which
\* ran to its end; where the catalog logs, the log tells of a success, or of
\* nothing when it could not be written.  A success in the log was a result.
\* Whoever has a response of the sandbox, of whatever kind, has left no file there.
ResultHasRun ==
  /\ CallsTypeOK
  /\ \A a \in sandbox.files : (sandbox.queue # <<>> /\ a = Running) \/ reply[a] = "lost"
  /\ \A c \in Calls : call[c].outcome = "result" =>
       /\ Answering(c) \in ran
       /\ OverGateway \/ scene.origin = "test" => log[Invocation(c)] \in {"success", "unwritten"}
  /\ \A a \in Attempts : log[a] = "success" =>
       inv[a].answer \in {"result", "warned"} /\ \E other \in ran : other[1] = a[1]

\* A tool is run twice for one call only if no response to the first request came.
RunAgainOnlyIfLost ==
  \A c \in Calls : Cardinality({a \in ran : a[1] = c}) <= 1 + request[c].lost

\* A call has its result from a run, its log tells of the run, and there is a second
\* run only to make up for a lost response.
RunsFollowCalls == ResultHasRun /\ RunAgainOnlyIfLost

\* What runs over a server was backed by one of that name, switched on and open to
\* the caller, at some time after the call arrived, however the catalog was edited
\* since the caller found it; and what the catalog put behind a server was checked.
RunWasAllowed ==
  /\ \A a \in Attempts : inv[a].spec # NoSpec /\ scene.origin # "execute" =>
       inv[a].spec.tool \in allowed[a]
  /\ ServersRestOnChecks

\* Every call ends, and the sandbox gets through with its queue, although time-outs
\* leave work behind that nobody waits for.
CallsEnd ==
  /\ \A c \in Calls : call[c].at = "resolved" ~> call[c].at = "over"
  /\ sandbox.queue # <<>> ~> sandbox.queue = <<>>
=============================================================================
