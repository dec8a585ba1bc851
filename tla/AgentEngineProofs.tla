------------------------- MODULE AgentEngineProofs -------------------------
(***************************************************************************)
(* Theorems of the agent engine and of the two components it is composed   *)
(* with, in this order.                                                    *)
(*                                                                         *)
(* HttpPool, for any number of callers and connections: one connection is  *)
(* never used by two requests, and a request never reads the answer to     *)
(* another.                                                                *)
(*                                                                         *)
(* AgentCatalog, for any number of handlers, servers and specifications,   *)
(* whatever overlaps and whatever is cut short.                            *)
(*                                                                         *)
(* AgentEngine, for any number of executions, connections, handlers,       *)
(* servers and specifications, workflows of any length and any scenario.   *)
(***************************************************************************)
EXTENDS AgentEngine, SequenceTheorems, TLAPS

-----------------------------------------------------------------------------
(* The pool of connections.                                                *)

\* A caller has a connection exactly while it exchanges with the runtime.
ConnectionWhileUsed ==
  \A t \in Callers :
    call[t].at \in {"send", "await", "read"} <=> call[t].conn # NoConnection

\* What is pending in the stream of a connection: nothing without a socket,
\* nothing when it is idle, nothing before the request is sent.
NothingLeftBehind ==
  /\ \A c \in Connections : c \notin sock => unread[c] = NoCaller
  /\ \A c \in pool : unread[c] = NoCaller
  /\ \A t \in Callers : call[t].at = "send" => unread[call[t].conn] = NoCaller

PoolInv ==
  /\ PoolTypeOK
  /\ ConnectionWhileUsed
  /\ ExclusiveConnection
  /\ NothingLeftBehind
  /\ AnswerIsOwn

\* The initial state of the client satisfies the invariant.
LEMMA PoolInvInit == ASSUME PoolInit PROVE PoolInv
  BY PoolAssumption DEF PoolInit, PoolInv, PoolTypeOK, Calls, NoCall,
     ConnectionWhileUsed, ExclusiveConnection, NothingLeftBehind, AnswerIsOwn

USE DEF NoCall, Calls

\* A call without a connection.
LEMMA NoCallIsCall ==
  ASSUME NEW at \in {"acquire", "back"}, NEW attempt \in 1..2,
         NEW reply \in {"none", "answer", "unreachable", "timeout", "broken"}
  PROVE  [at |-> at, conn |-> NoConnection, attempt |-> attempt, reply |-> reply] \in Calls
  OBVIOUS

\* Every step of every caller preserves the invariant.
LEMMA PoolInvStep == ASSUME PoolInv, PoolNext PROVE PoolInv'
<1> USE PoolAssumption DEF PoolInv, PoolTypeOK
<1>1. PICK t \in Callers : Request(t) \/ Exchange(t) \/ Return(t)
  BY DEF PoolNext
<1>2. CASE Request(t)
  BY <1>2 DEF Request, ConnectionWhileUsed, ExclusiveConnection, NothingLeftBehind, AnswerIsOwn
<1>3. CASE Return(t)
  BY <1>3 DEF Return, ConnectionWhileUsed, ExclusiveConnection, NothingLeftBehind, AnswerIsOwn
<1>4. CASE Acquire(t)
  BY <1>4 DEF Acquire, InUse, ConnectionWhileUsed, ExclusiveConnection, NothingLeftBehind, AnswerIsOwn
<1>5. CASE Send(t)
  <2> DEFINE c == call[t].conn
  <2>1. /\ call[t].at = "send" /\ UNCHANGED pool
        /\ c \in Connections
        /\ call' = [call EXCEPT ![t].at = "await"]
        /\ unread[c] = NoCaller
        /\ unread' = [unread EXCEPT ![c] = t]
        /\ sock' = sock \cup {c}
    BY <1>5 DEF Send, ConnectionWhileUsed, NothingLeftBehind
  <2>2. \A u \in Callers \ {t} : call'[u] = call[u] /\ call[u].conn # c
    BY <2>1 DEF ExclusiveConnection
  <2>3. PoolTypeOK' /\ ConnectionWhileUsed'
    BY <2>1, <2>2 DEF ConnectionWhileUsed
  <2>4. ExclusiveConnection'
    BY <2>1, <2>2 DEF ExclusiveConnection
  <2>5. NothingLeftBehind'
    BY <2>1, <2>2 DEF NothingLeftBehind, ExclusiveConnection
  <2>6. AnswerIsOwn'
    BY <2>1, <2>2 DEF AnswerIsOwn
  <2> QED
    BY <2>3, <2>4, <2>5, <2>6
<1>6. CASE AwaitHead(t)
  BY <1>6 DEF AwaitHead, ConnectionWhileUsed, ExclusiveConnection, NothingLeftBehind, AnswerIsOwn
<1>7. CASE Retry(t)
  <2> DEFINE c == call[t].conn
  <2>1. /\ c \in Connections
        /\ c \notin pool
    BY <1>7 DEF Retry, ConnectionWhileUsed, ExclusiveConnection
  <2>2. \A u \in Callers \ {t} : call'[u] = call[u] /\ call[u].conn # c
    BY <1>7, <2>1 DEF Retry, ExclusiveConnection
  <2>3. /\ call' \in [Callers -> Calls]
        /\ call'[t].conn = NoConnection
        /\ call'[t].at \in {"acquire", "back"}
    <3>1. PICK k : call' = [call EXCEPT ![t] = k]
      BY <1>7 DEF Retry
    <3>2. call'[t] \in {[at |-> "acquire", conn |-> NoConnection, attempt |-> 2, reply |-> "none"],
                        [at |-> "back", conn |-> NoConnection, attempt |-> 1, reply |-> "unreachable"]}
      BY <1>7 DEF Retry
    <3>3. call'[t].conn = NoConnection /\ call'[t].at \in {"acquire", "back"}
      BY <1>7 DEF Retry
    <3> QED
      BY <3>1, <3>2, <3>3, NoCallIsCall
  <2>4. /\ unread' = [unread EXCEPT ![c] = NoCaller]
        /\ pool' = pool /\ sock' = sock \ {c}
    BY <1>7 DEF Retry, Discard
  <2>5. PoolTypeOK' /\ ConnectionWhileUsed'
    BY <2>1, <2>2, <2>3, <2>4 DEF ConnectionWhileUsed
  <2>6. ExclusiveConnection'
    BY <2>1, <2>2, <2>3, <2>4 DEF ExclusiveConnection
  <2>7. NothingLeftBehind'
    BY <2>1, <2>2, <2>3, <2>4 DEF NothingLeftBehind, ConnectionWhileUsed
  <2>8. AnswerIsOwn'
    BY <2>1, <2>2, <2>3, <2>4 DEF AnswerIsOwn
  <2> QED
    BY <2>5, <2>6, <2>7, <2>8
<1>8. CASE Read(t)
  <2> DEFINE c == call[t].conn
  <2>1. /\ c \in Connections
        /\ c \notin pool
    BY <1>8 DEF Read, ConnectionWhileUsed, ExclusiveConnection
  <2>2. \A u \in Callers \ {t} : call'[u] = call[u] /\ call[u].conn # c
    BY <1>8, <2>1 DEF Read, ExclusiveConnection
  <2>3. /\ call' \in [Callers -> Calls]
        /\ call'[t].conn = NoConnection
        /\ call'[t].at \in {"acquire", "back"}
    <3>1. PICK k : call' = [call EXCEPT ![t] = k]
      BY <1>8 DEF Read
    <3>2. call'[t] = [at |-> "back", conn |-> NoConnection, attempt |-> 1, reply |-> "answer"]
      BY <1>8 DEF Read
    <3>3. call'[t].conn = NoConnection /\ call'[t].at \in {"acquire", "back"}
      BY <1>8 DEF Read
    <3> QED
      BY <3>1, <3>2, <3>3, NoCallIsCall
  <2>4. /\ unread' = [unread EXCEPT ![c] = NoCaller]
        /\ \/ pool' = pool \cup {c} /\ sock' = sock
           \/ pool' = pool /\ sock' = sock \ {c}
    BY <1>8 DEF Read, Discard
  <2>5. PoolTypeOK' /\ ConnectionWhileUsed'
    BY <2>1, <2>2, <2>3, <2>4 DEF ConnectionWhileUsed
  <2>6. ExclusiveConnection'
    BY <2>1, <2>2, <2>3, <2>4 DEF ExclusiveConnection
  <2>7. NothingLeftBehind'
    BY <2>1, <2>2, <2>3, <2>4 DEF NothingLeftBehind, ConnectionWhileUsed
  <2>8. AnswerIsOwn'
    BY <2>1, <2>2, <2>3, <2>4 DEF AnswerIsOwn
  <2> QED
    BY <2>5, <2>6, <2>7, <2>8
<1>9. CASE ReadFails(t)
  <2> DEFINE c == call[t].conn
  <2>1. /\ c \in Connections
        /\ c \notin pool
    BY <1>9 DEF ReadFails, ConnectionWhileUsed, ExclusiveConnection
  <2>2. \A u \in Callers \ {t} : call'[u] = call[u] /\ call[u].conn # c
    BY <1>9, <2>1 DEF ReadFails, ExclusiveConnection
  <2>3. /\ call' \in [Callers -> Calls]
        /\ call'[t].conn = NoConnection
        /\ call'[t].at \in {"acquire", "back"}
    <3>1. PICK k : call' = [call EXCEPT ![t] = k]
      BY <1>9 DEF ReadFails
    <3>2. \E r \in {"timeout", "broken"} :
             call'[t] = [at |-> "back", conn |-> NoConnection, attempt |-> 1, reply |-> r]
      BY <1>9 DEF ReadFails
    <3>3. call'[t].conn = NoConnection /\ call'[t].at \in {"acquire", "back"}
      BY <1>9 DEF ReadFails
    <3> QED
      BY <3>1, <3>2, <3>3, NoCallIsCall
  <2>4. /\ unread' = [unread EXCEPT ![c] = NoCaller]
        /\ pool' = pool /\ sock' = sock \ {c}
    BY <1>9 DEF ReadFails, Discard
  <2>5. PoolTypeOK' /\ ConnectionWhileUsed'
    BY <2>1, <2>2, <2>3, <2>4 DEF ConnectionWhileUsed
  <2>6. ExclusiveConnection'
    BY <2>1, <2>2, <2>3, <2>4 DEF ExclusiveConnection
  <2>7. NothingLeftBehind'
    BY <2>1, <2>2, <2>3, <2>4 DEF NothingLeftBehind, ConnectionWhileUsed
  <2>8. AnswerIsOwn'
    BY <2>1, <2>2, <2>3, <2>4 DEF AnswerIsOwn
  <2> QED
    BY <2>5, <2>6, <2>7, <2>8
<1> QED
  BY <1>1, <1>2, <1>3, <1>4, <1>5, <1>6, <1>7, <1>8, <1>9 DEF Exchange

\* A client keeps its invariant in every step it takes or leaves to others.
LEMMA PoolInvKept == ASSUME PoolInv, PoolNext \/ UNCHANGED poolVars PROVE PoolInv'
<1>1. CASE UNCHANGED poolVars
  BY <1>1 DEF poolVars, PoolInv, PoolTypeOK, ConnectionWhileUsed, ExclusiveConnection,
     NothingLeftBehind, AnswerIsOwn
<1> QED
  BY <1>1, PoolInvStep

\* The invariant of the client alone.
THEOREM PoolInvariant == PoolSpec => []PoolInv
<1>1. PoolInit => PoolInv
  BY PoolInvInit
<1>2. PoolInv /\ [PoolNext]_poolVars => PoolInv'
  BY PoolInvKept
<1> QED
  BY <1>1, <1>2, PTL DEF PoolSpec

\* In the client alone, the state of the pool has its type, no connection is
\* used by two requests, and no request reads the answer to another
\* (_PooledHttpClient and _PooledHttpResponse of transport.py).
THEOREM PoolIsSafe == PoolSpec => [](PoolTypeOK /\ ExclusiveConnection /\ AnswerIsOwn)
<1>1. PoolInv => PoolTypeOK /\ ExclusiveConnection /\ AnswerIsOwn
  BY DEF PoolInv
<1> QED
  BY <1>1, PoolInvariant, PTL

-----------------------------------------------------------------------------
(* The catalog of agents.                                                  *)

\* The steps of a task by its operation.
RegistrySteps == {"insert", "snapshot", "supersede", "append", "status", "find", "link"}
ProjectSteps == {"insert_project", "write_project"}
RemovalSteps == {"remove", "drop_project"}
StepsOf(op) == IF op \in {"create", "update", "publish"} THEN RegistrySteps
               ELSE IF op \in {"create_project", "edit_project"} THEN ProjectSteps
               ELSE RemovalSteps

Specs == AgentSpecs \cup ServerSpecs \cup {NoSpec}
Tasks == [op : Ops, entity : Entities, spec : Specs, plan : Seq(Steps),
          number : Nat \ {0}, seen : SUBSET Nat]
Rows == [number : Nat \ {0}, spec : Specs, current : BOOLEAN]
Projects == [version : Nat, spec : AgentSpecs \cup {NoSpec}, linked : BOOLEAN,
             past : SUBSET ((Nat \ {0}) \X AgentSpecs)]

\* Only a removal has no specification, and it writes none.
TaskOK(T) ==
  /\ T.spec \in SpecsOf(T.entity) \cup {NoSpec}
  /\ T.plan \in Seq(StepsOf(T.op))
  /\ StepsOf(T.op) # RemovalSteps => T.spec # NoSpec
  /\ StepsOf(T.op) = ProjectSteps => T.entity = Agent

CatalogShape ==
  /\ entities \subseteq Entities
  /\ versions \in [Entities -> SUBSET Rows]
  /\ project \in Projects
  /\ task \in [Handlers -> Tasks]
  /\ overlapped \subseteq Entities
  /\ undisturbed \subseteq Handlers

CatalogInv ==
  /\ CatalogShape
  /\ \A e \in Entities : \A v \in versions[e] : v.spec \in SpecsOf(e)
  /\ \A h \in Handlers : TaskOK(task[h])
  /\ ProjectHistoryIsExact

-----------------------------------------------------------------------------
(* Tasks.                                                                  *)

\* A record is a sound task if its parts are.
LEMMA SomeTask ==
  ASSUME NEW op \in Ops, NEW e \in Entities, NEW s \in SpecsOf(e) \cup {NoSpec},
         NEW plan \in Seq(StepsOf(op)), NEW n \in Nat \ {0}, NEW S \in SUBSET Nat,
         StepsOf(op) # RemovalSteps => s # NoSpec,
         StepsOf(op) = ProjectSteps => e = Agent,
         NEW T, T = [op |-> op, entity |-> e, spec |-> s, plan |-> plan, number |-> n,
                     seen |-> S]
  PROVE  T \in Tasks /\ TaskOK(T)
<1>1. StepsOf(op) \subseteq Steps
  BY DEF StepsOf, Steps, RegistrySteps, ProjectSteps, RemovalSteps
<1>2. plan \in Seq(Steps)
  BY <1>1
<1>3. s \in Specs
  BY DEF SpecsOf, Specs
<1> QED
  BY <1>2, <1>3 DEF Tasks, TaskOK

\* A handler at rest.
LEMMA RestingTask == Resting \in Tasks /\ TaskOK(Resting)
<1>1. <<>> \in Seq(StepsOf("none"))
  OBVIOUS
<1>2. StepsOf("none") = RemovalSteps /\ RemovalSteps # ProjectSteps
  BY DEF StepsOf, ProjectSteps, RemovalSteps
<1>3. Agent \in Entities /\ "none" \in Ops
  BY DEF Entities, Ops
<1>4. Resting = [op |-> "none", entity |-> Agent, spec |-> NoSpec, plan |-> <<>>,
                 number |-> 1, seen |-> {}]
  BY DEF Resting, Task
<1>5. <<>> \in Seq(Steps) /\ {} \in SUBSET Nat /\ NoSpec \in Specs
  BY DEF Specs
<1> QED
  BY <1>1, <1>2, <1>3, <1>4, <1>5 DEF Tasks, TaskOK

\* What is left of a sound task is sound.
LEMMA RestOfTask ==
  ASSUME NEW T \in Tasks, TaskOK(T), T.plan # <<>>,
         NEW S \in SUBSET Nat
  PROVE  /\ [T EXCEPT !.plan = Tail(@), !.seen = S] \in Tasks
         /\ TaskOK([T EXCEPT !.plan = Tail(@), !.seen = S])
         /\ Head(T.plan) \in StepsOf(T.op)
<1>1. T.plan \in Seq(StepsOf(T.op)) /\ T.plan \in Seq(Steps)
  BY DEF TaskOK, Tasks
<1>2. Tail(T.plan) \in Seq(StepsOf(T.op)) /\ Tail(T.plan) \in Seq(Steps)
  BY <1>1, HeadTailProperties, Zenon
<1>3. Head(T.plan) \in StepsOf(T.op)
  BY <1>1, HeadTailProperties, Zenon
<1> QED
  BY <1>2, <1>3 DEF Tasks, TaskOK

\* The plans of the registry.
LEMMA PlansOfRegistry ==
  /\ CreatePlan \in Seq(RegistrySteps) /\ CreatePlan \o <<"link">> \in Seq(RegistrySteps)
  /\ UpdatePlan \in Seq(RegistrySteps) /\ UpdatePlan \o <<"link">> \in Seq(RegistrySteps)
<1>1. /\ <<"link">> \in Seq(RegistrySteps) /\ <<"insert">> \in Seq(RegistrySteps)
      /\ <<"status">> \in Seq(RegistrySteps) /\ Version \in Seq(RegistrySteps)
  BY DEF RegistrySteps, Version
<1>2. \A p, q \in Seq(RegistrySteps) : p \o q \in Seq(RegistrySteps)
  OBVIOUS
<1> QED
  BY <1>1, <1>2 DEF CreatePlan, UpdatePlan

\* The numbers a reader may take for the current one.
LEMMA CurrentNumbersAreNumbers ==
  ASSUME CatalogShape, NEW e \in Entities, NEW n \in CurrentNumbers(e)
  PROVE  n + 1 \in Nat \ {0}
  BY DEF CatalogShape, CurrentNumbers, CurrentVersions, Rows

-----------------------------------------------------------------------------
(* Steps.                                                                  *)

\* Keeping a sound task, or none, keeps all tasks sound.
LEMMA KeepTask ==
  ASSUME CatalogInv, NEW h \in Handlers, NEW T \in Tasks, TaskOK(T), Keep(h, T)
  PROVE  task' \in [Handlers -> Tasks] /\ \A g \in Handlers : TaskOK(task'[g])
  BY RestingTask DEF CatalogInv, CatalogShape, Keep

\* A task goes on to its next transaction.
LEMMA AdvanceTask ==
  ASSUME CatalogInv, NEW h \in Handlers, ~Rests(h), Advance(h)
  PROVE  task' \in [Handlers -> Tasks] /\ \A g \in Handlers : TaskOK(task'[g])
<1>1. /\ task[h] \in Tasks /\ TaskOK(task[h]) /\ task[h].plan # <<>>
      /\ task[h].seen \in SUBSET Nat
  BY DEF CatalogInv, CatalogShape, Rests, Tasks
<1>2. [task[h] EXCEPT !.plan = Tail(@)]
        = [task[h] EXCEPT !.plan = Tail(@), !.seen = task[h].seen]
  BY <1>1 DEF Tasks
<1> QED
  BY <1>1, <1>2, RestOfTask, KeepTask DEF Advance

\* A task is dropped.
LEMMA AbortTask ==
  ASSUME CatalogInv, NEW h \in Handlers, Abort(h)
  PROVE  task' \in [Handlers -> Tasks] /\ \A g \in Handlers : TaskOK(task'[g])
  BY RestingTask DEF CatalogInv, CatalogShape, Abort

\* A handler at rest begins a sound task, which only it and the histories notice.
LEMMA BeginTask ==
  ASSUME CatalogInv, NEW h \in Handlers, NEW T \in Tasks, TaskOK(T), Begin(h, T),
         UNCHANGED <<registry, project>>
  PROVE  CatalogInv'
<1>1. Touches(T) \subseteq Entities
  BY DEF Touches, Tasks
<1> QED
  BY <1>1 DEF CatalogInv, CatalogShape, Begin, registry, ProjectHistoryIsExact

\* A request begins a sound task.
LEMMA RequestKeeps ==
  ASSUME CatalogInv, NEW h \in Handlers, NEW specs \in SUBSET AgentSpecs,
         CatalogRequest(h, specs)
  PROVE  CatalogInv'
<1>1. UNCHANGED <<registry, project>>
  BY DEF CatalogRequest
<1>2. /\ CreatePlan \in Seq(RegistrySteps) /\ UpdatePlan \in Seq(RegistrySteps)
      /\ <<"find">> \in Seq(RegistrySteps)
      /\ <<"remove">> \in Seq(RemovalSteps) /\ <<"drop_project">> \in Seq(RemovalSteps)
      /\ <<"remove", "drop_project">> \in Seq(RemovalSteps)
      /\ <<"insert_project">> \in Seq(ProjectSteps)
      /\ <<"write_project">> \in Seq(ProjectSteps)
  BY PlansOfRegistry DEF RegistrySteps, RemovalSteps, ProjectSteps
<1>3. /\ StepsOf("create") = RegistrySteps /\ StepsOf("update") = RegistrySteps
      /\ StepsOf("publish") = RegistrySteps
      /\ StepsOf("delete") = RemovalSteps /\ StepsOf("delete_project") = RemovalSteps
      /\ StepsOf("create_project") = ProjectSteps /\ StepsOf("edit_project") = ProjectSteps
      /\ RegistrySteps # ProjectSteps /\ RegistrySteps # RemovalSteps
      /\ ProjectSteps # RemovalSteps
  BY DEF StepsOf, RegistrySteps, RemovalSteps, ProjectSteps
<1>4. /\ "create" \in Ops /\ "update" \in Ops /\ "delete" \in Ops /\ "publish" \in Ops
      /\ "create_project" \in Ops /\ "edit_project" \in Ops /\ "delete_project" \in Ops
      /\ {} \in SUBSET Nat /\ Agent \in Entities /\ 1 \in Nat \ {0}
      /\ SpecsOf(Agent) = AgentSpecs /\ NoSpec \notin AgentSpecs \cup ServerSpecs
  BY CatalogAssumption DEF Ops, Entities, SpecsOf
<1>5. \A e \in Entities : NoSpec \notin SpecsOf(e) /\ (e # Agent => SpecsOf(e) = ServerSpecs)
  BY CatalogAssumption DEF SpecsOf
<1>6. /\ project \in Projects
      /\ project.version # 0 => project.spec \in AgentSpecs
  BY DEF CatalogInv, CatalogShape, Projects, ProjectHistoryIsExact
<1>7. ASSUME NEW e \in Entities, NEW s \in IF e = Agent THEN specs ELSE ServerSpecs,
             BeginCreate(h, e, s) \/ BeginUpdate(h, e, s)
      PROVE  CatalogInv'
  <2>1. s \in SpecsOf(e)
    BY DEF SpecsOf
  <2>2. CASE BeginCreate(h, e, s)
    <3> DEFINE T == Task("create", e, s, CreatePlan)
    <3>1. T = [op |-> "create", entity |-> e, spec |-> s, plan |-> CreatePlan,
               number |-> 1, seen |-> {}]
      BY DEF Task
    <3>2. T \in Tasks /\ TaskOK(T)
      <4> HIDE DEF T
      <4> QED
        BY <1>2, <1>3, <1>4, <1>5, <2>1, <3>1, SomeTask
    <3> QED
      BY <1>1, <2>2, <3>2, BeginTask DEF BeginCreate
  <2>3. CASE BeginUpdate(h, e, s)
    <3>1. PICK n \in CurrentNumbers(e) :
            Begin(h, [Task("update", e, s, UpdatePlan) EXCEPT !.number = n + 1])
      BY <2>3 DEF BeginUpdate
    <3> DEFINE T == [Task("update", e, s, UpdatePlan) EXCEPT !.number = n + 1]
    <3>2. T = [op |-> "update", entity |-> e, spec |-> s, plan |-> UpdatePlan,
               number |-> n + 1, seen |-> {}]
      BY DEF Task
    <3>3. n + 1 \in Nat \ {0}
      BY CurrentNumbersAreNumbers DEF CatalogInv
    <3>4. T \in Tasks /\ TaskOK(T)
      <4> HIDE DEF T
      <4> QED
        BY <1>2, <1>3, <1>4, <1>5, <2>1, <3>2, <3>3, SomeTask
    <3> QED
      BY <1>1, <3>1, <3>4, BeginTask
  <2> QED
    BY <1>7, <2>2, <2>3
<1>8. ASSUME NEW e \in Entities, BeginDelete(h, e) PROVE CatalogInv'
  <2> DEFINE T == Task("delete", e, NoSpec, <<"remove">>)
  <2>1. T = [op |-> "delete", entity |-> e, spec |-> NoSpec, plan |-> <<"remove">>,
             number |-> 1, seen |-> {}]
    BY DEF Task
  <2>2. T \in Tasks /\ TaskOK(T)
    <3> HIDE DEF T
    <3> QED
      BY <1>2, <1>3, <1>4, <2>1, SomeTask
  <2> QED
    BY <1>1, <1>8, <2>2, BeginTask DEF BeginDelete
<1>9. ASSUME NEW s \in specs, BeginCreateProject(h, s) \/ BeginEditProject(h, s)
      PROVE  CatalogInv'
  <2> DEFINE T == Task("create_project", Agent, s, <<"insert_project">>)
  <2> DEFINE U == [Task("edit_project", Agent, s, <<"write_project">>)
                     EXCEPT !.number = project.version + 1]
  <2>1. /\ T = [op |-> "create_project", entity |-> Agent, spec |-> s,
                plan |-> <<"insert_project">>, number |-> 1, seen |-> {}]
        /\ U = [op |-> "edit_project", entity |-> Agent, spec |-> s,
                plan |-> <<"write_project">>, number |-> project.version + 1, seen |-> {}]
    BY DEF Task
  <2>2. project.version + 1 \in Nat \ {0}
    BY <1>6 DEF Projects
  <2>3. T \in Tasks /\ TaskOK(T) /\ U \in Tasks /\ TaskOK(U)
    <3> HIDE DEF T, U
    <3> QED
      BY <1>2, <1>3, <1>4, <2>1, <2>2, SomeTask
  <2> QED
    BY <1>1, <1>9, <2>3, BeginTask DEF BeginCreateProject, BeginEditProject
<1>10. CASE BeginPublish(h)
  <2> DEFINE T == Task("publish", Agent, project.spec, <<"find">>)
  <2>1. T = [op |-> "publish", entity |-> Agent, spec |-> project.spec,
             plan |-> <<"find">>, number |-> 1, seen |-> {}]
    BY DEF Task
  <2>2. project.version # 0
    BY <1>10 DEF BeginPublish
  <2>3. T \in Tasks /\ TaskOK(T)
    <3> HIDE DEF T
    <3> QED
      BY <1>2, <1>3, <1>4, <1>6, <2>1, <2>2, SomeTask
  <2> QED
    BY <1>1, <1>10, <2>3, BeginTask DEF BeginPublish
<1>11. CASE BeginDeleteProject(h)
  <2> DEFINE plan == IF project.linked THEN <<"remove", "drop_project">>
                                       ELSE <<"drop_project">>
  <2> DEFINE T == Task("delete_project", Agent, NoSpec, plan)
  <2>1. T = [op |-> "delete_project", entity |-> Agent, spec |-> NoSpec, plan |-> plan,
             number |-> 1, seen |-> {}]
    BY DEF Task
  <2>2. plan \in Seq(RemovalSteps)
    BY <1>2
  <2>3. T \in Tasks /\ TaskOK(T)
    <3> HIDE DEF T, plan
    <3> QED
      BY <1>3, <1>4, <2>1, <2>2, SomeTask
  <2> QED
    BY <1>1, <1>11, <2>3, BeginTask DEF BeginDeleteProject
<1> QED
  BY <1>7, <1>8, <1>9, <1>10, <1>11 DEF CatalogRequest

\* Where nothing but tasks changes.
LEMMA TasksOnly ==
  ASSUME CatalogInv, task' \in [Handlers -> Tasks], \A g \in Handlers : TaskOK(task'[g]),
         UNCHANGED <<registry, project, overlapped, undisturbed>>
  PROVE  CatalogInv'
  BY DEF CatalogInv, CatalogShape, registry, ProjectHistoryIsExact

\* Every transaction of a task keeps the invariant.
LEMMA StepKeeps ==
  ASSUME CatalogInv, NEW h \in Handlers, CatalogStep(h)
  PROVE  CatalogInv'
<1>1. /\ UNCHANGED <<overlapped, undisturbed>>
      /\ task[h] \in Tasks /\ TaskOK(task[h])
  BY DEF CatalogStep, CatalogInv, CatalogShape
<1>2. ASSUME NEW step, Due(h, step)
      PROVE  ~Rests(h) /\ task[h].plan # <<>> /\ step \in StepsOf(task[h].op)
  <2>1. ~Rests(h) /\ task[h].plan # <<>> /\ step = Head(task[h].plan)
    BY <1>2 DEF Due, Rests
  <2> QED
    BY <1>1, <2>1, HeadTailProperties DEF TaskOK
<1>3. /\ StepsOf(task[h].op) \in {RegistrySteps, ProjectSteps, RemovalSteps}
      /\ "append" \notin ProjectSteps \cup RemovalSteps
      /\ "insert_project" \notin RegistrySteps \cup RemovalSteps
      /\ "write_project" \notin RegistrySteps \cup RemovalSteps
      /\ "find" \notin ProjectSteps \cup RemovalSteps
      /\ RegistrySteps # RemovalSteps /\ ProjectSteps # RemovalSteps
  BY DEF StepsOf, RegistrySteps, ProjectSteps, RemovalSteps
<1>4. CASE Insert(h)
  <2>1. task' \in [Handlers -> Tasks] /\ \A g \in Handlers : TaskOK(task'[g])
    BY <1>2, <1>4, AdvanceTask, AbortTask DEF Insert
  <2>2. entities' \subseteq Entities
    BY <1>1, <1>4 DEF Insert, Tasks, CatalogInv, CatalogShape
  <2> QED
    BY <1>1, <1>4, <2>1, <2>2 DEF Insert, CatalogInv, CatalogShape, ProjectHistoryIsExact
<1>5. CASE Snapshot(h)
  <2> DEFINE S == Numbers(task[h].entity)
  <2>1. S \in SUBSET Nat
    BY <1>1 DEF Numbers, Tasks, CatalogInv, CatalogShape, Rows
  <2>2. task[h].plan # <<>>
    BY <1>2, <1>5 DEF Snapshot
  <2>3. Keep(h, [task[h] EXCEPT !.plan = Tail(@), !.seen = S])
    BY <1>5 DEF Snapshot
  <2>4. task' \in [Handlers -> Tasks] /\ \A g \in Handlers : TaskOK(task'[g])
    <3> HIDE DEF S
    <3> QED
      BY <1>1, <2>1, <2>2, <2>3, RestOfTask, KeepTask
  <2> QED
    BY <1>1, <1>5, <2>4, TasksOnly DEF Snapshot
<1>6. CASE Supersede(h)
  BY <1>1, <1>2, <1>6, AdvanceTask, TasksOnly DEF Supersede
<1>7. CASE Commit(h)
  <2> DEFINE T == task[h]
  <2> DEFINE row == [number |-> T.number, spec |-> T.spec, current |-> TRUE]
  <2>1. task' \in [Handlers -> Tasks] /\ \A g \in Handlers : TaskOK(task'[g])
    BY <1>2, <1>7, AdvanceTask, AbortTask DEF Commit
  <2>2. T.entity \in Entities /\ row \in Rows /\ row.spec \in SpecsOf(T.entity)
    BY <1>1, <1>2, <1>3, <1>7 DEF Commit, TaskOK, Tasks, Rows
  <2>3. CASE UNCHANGED versions
    BY <1>1, <1>7, <2>1, <2>3 DEF Commit, CatalogInv, CatalogShape, ProjectHistoryIsExact
  <2>4. CASE versions' = [versions EXCEPT ![T.entity] =
                   {[v EXCEPT !.current = @ /\ v.number \notin T.seen] : v \in @} \cup {row}]
    <3> DEFINE old == {[v EXCEPT !.current = @ /\ v.number \notin T.seen] : v \in versions[T.entity]}
    <3>1. \A w \in old : w \in Rows /\ w.spec \in SpecsOf(T.entity)
      <4>1. \A v \in versions[T.entity] : v \in Rows /\ v.spec \in SpecsOf(T.entity)
        BY <2>2 DEF CatalogInv, CatalogShape
      <4>2. ASSUME NEW v \in versions[T.entity], NEW b \in BOOLEAN
            PROVE  LET w == [v EXCEPT !.current = b]
                   IN  w \in Rows /\ w.spec \in SpecsOf(T.entity)
        BY <4>1 DEF Rows
      <4>3. ASSUME NEW w \in old PROVE w \in Rows /\ w.spec \in SpecsOf(T.entity)
        <5>1. PICK v \in versions[T.entity] :
                w = [v EXCEPT !.current = v.current /\ v.number \notin T.seen]
          OBVIOUS
        <5>2. (v.current /\ v.number \notin T.seen) \in BOOLEAN
          OBVIOUS
        <5> QED
          BY <4>2, <5>1, <5>2
      <4> QED
        BY <4>3
    <3>2. versions'[T.entity] = old \cup {row}
      BY <2>2, <2>4 DEF CatalogInv, CatalogShape
    <3>3. \A e \in Entities : e # T.entity => versions'[e] = versions[e]
      BY <2>2, <2>4 DEF CatalogInv, CatalogShape
    <3>4. versions' \in [Entities -> SUBSET Rows]
      <4>1. versions' = [e \in Entities |-> versions'[e]]
        BY <2>4 DEF CatalogInv, CatalogShape
      <4> HIDE DEF old, row
      <4>2. \A e \in Entities : versions'[e] \in SUBSET Rows
        BY <2>2, <3>1, <3>2, <3>3 DEF CatalogInv, CatalogShape
      <4> QED
        BY <4>1, <4>2
    <3>5. \A e \in Entities : \A v \in versions'[e] : v.spec \in SpecsOf(e)
      <4> HIDE DEF old, row
      <4> QED
        BY <2>2, <3>1, <3>2, <3>3 DEF CatalogInv
    <3> QED
      BY <1>1, <1>7, <2>1, <3>4, <3>5 DEF Commit, CatalogInv, CatalogShape, ProjectHistoryIsExact
  <2> QED
    BY <1>7, <2>3, <2>4 DEF Commit
<1>8. CASE Status(h)
  BY <1>1, <1>2, <1>8, AdvanceTask, AbortTask, TasksOnly DEF Status
<1>9. CASE Remove(h)
  <2> DEFINE e == task[h].entity
  <2>1. e \in Entities /\ task[h].plan # <<>>
    BY <1>1, <1>2, <1>9 DEF Remove, Tasks
  <2>2. \A g \in Handlers : task'[g] \in Tasks /\ TaskOK(task'[g])
    <3> SUFFICES ASSUME NEW g \in Handlers PROVE task'[g] \in Tasks /\ TaskOK(task'[g])
      OBVIOUS
    <3>1. task[g] \in Tasks /\ TaskOK(task[g])
      BY DEF CatalogInv, CatalogShape
    <3>2. [task[h] EXCEPT !.plan = Tail(@)] \in Tasks /\ TaskOK([task[h] EXCEPT !.plan = Tail(@)])
      <4>1. /\ [task[h] EXCEPT !.plan = Tail(@)]
                  = [task[h] EXCEPT !.plan = Tail(@), !.seen = task[h].seen]
            /\ task[h].seen \in SUBSET Nat
        BY <1>1 DEF Tasks
      <4> QED
        BY <1>1, <2>1, <4>1, RestOfTask
    <3>3. [task[g] EXCEPT !.seen = {}] \in Tasks /\ TaskOK([task[g] EXCEPT !.seen = {}])
      BY <3>1 DEF Tasks, TaskOK
    <3> QED
      BY <1>9, <3>1, <3>2, <3>3, RestingTask DEF Remove
  <2>3. task' \in [Handlers -> Tasks]
    <3>1. task' = [g \in Handlers |-> task'[g]]
      BY <1>9 DEF Remove
    <3> QED
      BY <2>2, <3>1
  <2>4. versions' \in [Entities -> SUBSET Rows] /\ entities' \subseteq Entities
    BY <1>9, <2>1 DEF Remove, CatalogInv, CatalogShape
  <2>5. \A d \in Entities : \A v \in versions'[d] : v.spec \in SpecsOf(d)
    BY <1>9, <2>1 DEF Remove, CatalogInv, CatalogShape
  <2> QED
    BY <1>1, <1>9, <2>2, <2>3, <2>4, <2>5 DEF Remove, CatalogInv, CatalogShape, ProjectHistoryIsExact
<1>10. CASE Find(h)
  <2>1. StepsOf(task[h].op) = RegistrySteps
    BY <1>2, <1>3, <1>10 DEF Find
  <2>2. ASSUME NEW plan \in Seq(RegistrySteps), NEW n \in Nat \ {0}
        PROVE  LET T == [task[h] EXCEPT !.plan = plan, !.number = n]
               IN  T \in Tasks /\ TaskOK(T)
    <3>1. RegistrySteps \subseteq Steps
      BY DEF RegistrySteps, Steps
    <3>2. plan \in Seq(Steps)
      BY <3>1
    <3> QED
      BY <1>1, <2>1, <3>2 DEF Tasks, TaskOK
  <2>3. ASSUME NEW plan \in Seq(RegistrySteps)
        PROVE  LET T == [task[h] EXCEPT !.plan = plan]
               IN  T \in Tasks /\ TaskOK(T)
    <3>1. RegistrySteps \subseteq Steps
      BY DEF RegistrySteps, Steps
    <3>2. plan \in Seq(Steps)
      BY <3>1
    <3> QED
      BY <1>1, <2>1, <3>2 DEF Tasks, TaskOK
  <2>4. \A n \in CurrentNumbers(Agent) : n + 1 \in Nat \ {0}
    BY CurrentNumbersAreNumbers DEF CatalogInv, Entities
  <2>5. task' \in [Handlers -> Tasks] /\ \A g \in Handlers : TaskOK(task'[g])
    BY <1>10, <2>2, <2>3, <2>4, KeepTask, PlansOfRegistry DEF Find
  <2> QED
    BY <1>1, <1>10, <2>5, TasksOnly DEF Find
<1>11. CASE Link(h)
  <2>1. task' \in [Handlers -> Tasks] /\ \A g \in Handlers : TaskOK(task'[g])
    BY <1>2, <1>11, AdvanceTask DEF Link
  <2> QED
    BY <1>1, <1>11, <2>1 DEF Link, CatalogInv, CatalogShape, Projects, registry, ProjectHistoryIsExact
<1>12. CASE InsertProject(h)
  <2>1. task' \in [Handlers -> Tasks] /\ \A g \in Handlers : TaskOK(task'[g])
    BY <1>2, <1>12, AdvanceTask DEF InsertProject
  <2>2. task[h].spec \in AgentSpecs
    BY <1>1, <1>2, <1>3, <1>12 DEF InsertProject, TaskOK, SpecsOf
  <2>3. project' \in Projects /\ ProjectHistoryIsExact'
    BY <1>12, <2>2 DEF InsertProject, CatalogInv, CatalogShape, Projects, ProjectHistoryIsExact
  <2> QED
    BY <1>1, <1>12, <2>1, <2>3 DEF InsertProject, CatalogInv, CatalogShape, registry
<1>13. CASE WriteProject(h)
  <2>1. task' \in [Handlers -> Tasks] /\ \A g \in Handlers : TaskOK(task'[g])
    BY <1>2, <1>13, AdvanceTask DEF WriteProject
  <2>2. task[h].spec \in AgentSpecs /\ task[h].number \in Nat \ {0}
    BY <1>1, <1>2, <1>3, <1>13 DEF WriteProject, TaskOK, SpecsOf, Tasks
  <2>3. project' \in Projects /\ ProjectHistoryIsExact'
    <3>1. CASE project' = project
      BY <3>1 DEF CatalogInv, CatalogShape, ProjectHistoryIsExact
    <3>2. CASE /\ project.version # 0 /\ \A p \in project.past : p[1] # task[h].number
               /\ project' = [project EXCEPT !.version = task[h].number, !.spec = task[h].spec,
                                 !.past = @ \cup {<<task[h].number, task[h].spec>>}]
      <4> DEFINE new == <<task[h].number, task[h].spec>>
      <4>1. new \in (Nat \ {0}) \X AgentSpecs /\ new[1] = task[h].number
        BY <2>2
      <4>2. /\ project'.version = task[h].number /\ project'.spec = task[h].spec
            /\ project'.past = project.past \cup {new} /\ project'.linked = project.linked
        BY <3>2 DEF CatalogInv, CatalogShape, Projects
      <4>3. project' \in Projects
        BY <2>2, <3>2, <4>1, <4>2 DEF CatalogInv, CatalogShape, Projects
      <4>4. ASSUME NEW p \in project'.past, NEW q \in project'.past, p[1] = q[1]
            PROVE  p = q
        BY <3>2, <4>1, <4>2, <4>4 DEF CatalogInv, ProjectHistoryIsExact
      <4> QED
        BY <4>2, <4>3, <4>4 DEF ProjectHistoryIsExact
    <3> QED
      BY <1>13, <3>1, <3>2 DEF WriteProject
  <2> QED
    BY <1>1, <1>13, <2>1, <2>3 DEF WriteProject, CatalogInv, CatalogShape, registry
<1>14. CASE DropProject(h)
  <2>1. task' \in [Handlers -> Tasks] /\ \A g \in Handlers : TaskOK(task'[g])
    BY <1>2, <1>14, AdvanceTask DEF DropProject
  <2>2. project' \in Projects /\ ProjectHistoryIsExact'
    BY <1>14 DEF DropProject, NoProject, Projects, ProjectHistoryIsExact
  <2> QED
    BY <1>1, <1>14, <2>1, <2>2 DEF DropProject, CatalogInv, CatalogShape, registry
<1> QED
  BY <1>4, <1>5, <1>6, <1>7, <1>8, <1>9, <1>10, <1>11, <1>12, <1>13, <1>14 DEF CatalogStep

\* A task that is cut short leaves nothing behind.
LEMMA CutKeeps ==
  ASSUME CatalogInv, NEW h \in Handlers, Cut(h)
  PROVE  CatalogInv'
  BY AbortTask, TasksOnly DEF Cut

\* Nothing happens.
LEMMA CatalogStutter == ASSUME CatalogInv, UNCHANGED catalogVars PROVE CatalogInv'
  BY DEF CatalogInv, CatalogShape, catalogVars, registry, ProjectHistoryIsExact

\* The empty registry.
LEMMA CatalogInitInv == ASSUME CatalogInit PROVE CatalogInv
<1>1. NoProject \in Projects
  BY DEF NoProject, Projects
<1> QED
  BY <1>1, RestingTask DEF CatalogInit, CatalogInv, CatalogShape, ProjectHistoryIsExact, NoProject

\* The invariant has the type of the state in it.
LEMMA CatalogInvType == ASSUME CatalogInv PROVE CatalogTypeOK
  BY DEF CatalogInv, CatalogShape, CatalogTypeOK, Rows, Projects, Tasks, TaskOK

\* The registry and the project alone.
THEOREM CatalogInvariant == CatalogSpec => []CatalogInv
<1>1. CatalogInit => CatalogInv
  BY CatalogInitInv
<1>2. CatalogInv /\ [CatalogNext]_catalogVars => CatalogInv'
  <2> SUFFICES ASSUME CatalogInv, [CatalogNext]_catalogVars PROVE CatalogInv'
    OBVIOUS
  <2>1. CASE CatalogNext
    BY <2>1, RequestKeeps, StepKeeps, CutKeeps DEF CatalogNext
  <2> QED
    BY <2>1, CatalogStutter
<1> QED
  BY <1>1, <1>2, PTL DEF CatalogSpec

\* Whatever handlers overlap and wherever they are cut short, the state of the
\* registry has its type and the project's row is an entry of its history,
\* which holds one specification per version (update_agent_project).
THEOREM CatalogIsSafe == CatalogSpec => [](CatalogTypeOK /\ ProjectHistoryIsExact)
<1>1. CatalogInv => CatalogTypeOK /\ ProjectHistoryIsExact
  BY CatalogInvType DEF CatalogInv
<1> QED
  BY <1>1, CatalogInvariant, PTL

-----------------------------------------------------------------------------
(* The registry is in line.                                                *)

Holds(s, x) == \E i \in 1..Len(s) : s[i] = x

\* A plan repeats nothing, begins by what it looks for, inserts or removes, supersedes
\* and appends right after the snapshot, and links at the end.
Chained(s) ==
  /\ \A i, j \in 1..Len(s) : s[i] = s[j] => i = j
  /\ \A i \in 1..Len(s) : s[i] \in {"insert", "find", "remove"} => i = 1
  /\ \A i \in 1..Len(s) : s[i] = "link" => i = Len(s)
  /\ \A i \in 2..Len(s) : /\ s[i] = "supersede" => s[i - 1] = "snapshot"
                          /\ s[i] = "append" => s[i - 1] = "supersede"

PlanOK(T) ==
  /\ Chained(T.plan)
  /\ Holds(T.plan, "find") \/ Holds(T.plan, "link") => T.op = "publish"
  /\ Holds(T.plan, "drop_project") => T.op = "delete_project"
  /\ T.op \in {"publish", "delete_project"} => T.entity = Agent

\* Nobody else works on the entity, or on anything.
Sole(h) == task[h].entity \notin overlapped \/ h \in undisturbed

\* The number is behind those that are there ...
Numbered(h) ==
  /\ task[h].entity \notin overlapped
  /\ Holds(task[h].plan, "append")
  /\ ~Holds(task[h].plan, "insert")
  => \A v \in versions[task[h].entity] : v.number < task[h].number

\* ... and all of them are about to be superseded.
Locked(h) ==
  Sole(h) /\ (Due(h, "supersede") \/ Due(h, "append"))
    => task[h].seen = Numbers(task[h].entity)

\* What a task has done so far that no other one overlaps.
Alone(h) ==
  LET T == task[h]
  IN  h \in undisturbed =>
        /\ T.op = "publish" /\ ~Rests(h) =>
             /\ T.spec = project.spec
             /\ Holds(T.plan, "link") /\ ~Holds(T.plan, "append") =>
                  {v.spec : v \in CurrentVersions(Agent)} = {T.spec}
        /\ T.op = "delete_project" /\ Holds(T.plan, "drop_project") =>
             Holds(T.plan, "remove") \/ ~project.linked \/ Agent \notin entities

\* Two tasks at work on an entity are known to overlap.
OverlapsAreKnown ==
  \A g, h \in Handlers : g # h /\ ~Rests(g) /\ ~Rests(h) =>
    /\ Touches(task[g]) \cap Touches(task[h]) \subseteq overlapped
    /\ g \notin undisturbed

LineInv ==
  /\ \A e \in Entities : versions[e] # {} => e \in entities
  /\ VersionsInLine
  /\ OverlapsAreKnown
  /\ \A h \in Handlers : PlanOK(task[h]) /\ Numbered(h) /\ Locked(h) /\ Alone(h)

\* What is left of a plan.
LEMMA ChainTail ==
  ASSUME NEW S, NEW s \in Seq(S), s # << >>, Chained(s)
  PROVE  /\ Chained(Tail(s)) /\ Holds(s, Head(s))
         /\ \A x : Holds(Tail(s), x) <=> Holds(s, x) /\ x # Head(s)
         /\ Head(s) = "append" => ~Holds(s, "insert")
         /\ Tail(s) # << >> /\ Head(Tail(s)) = "supersede" => Head(s) = "snapshot"
         /\ Tail(s) # << >> /\ Head(Tail(s)) = "append" => Head(s) = "supersede"
<1> DEFINE t == Tail(s)
<1>1. /\ t \in Seq(S) /\ Head(s) = s[1] /\ Len(s) \in Nat \ {0} /\ Len(t) = Len(s) - 1
      /\ \A i \in 1..(Len(s) - 1) : t[i] = s[i + 1]
      /\ t # << >> => Head(t) = s[2] /\ 2 \in 2..Len(s)
  OBVIOUS
<1> HIDE DEF t
<1>2. Chained(t)
  <2>1. \A i \in 1..Len(t) : i + 1 \in 1..Len(s) /\ i + 1 # 1 /\ t[i] = s[i + 1]
    BY <1>1
  <2>2. \A i \in 1..Len(t) : t[i] = "link" => i = Len(t)
    BY <1>1, <2>1 DEF Chained
  <2>3. \A i, j \in 1..Len(t) : t[i] = t[j] => i = j
    BY <2>1 DEF Chained
  <2>4. \A i \in 1..Len(t) : t[i] \notin {"insert", "find", "remove"}
    BY <2>1 DEF Chained
  <2>5. \A i \in 2..Len(t) : /\ t[i] = "supersede" => t[i - 1] = "snapshot"
                             /\ t[i] = "append" => t[i - 1] = "supersede"
    <3> SUFFICES ASSUME NEW i \in 2..Len(t)
                 PROVE  /\ t[i] = "supersede" => t[i - 1] = "snapshot"
                        /\ t[i] = "append" => t[i - 1] = "supersede"
      OBVIOUS
    <3>1. i \in 1..Len(t) /\ i - 1 \in 1..Len(t) /\ i + 1 \in 2..Len(s)
      BY <1>1
    <3>2. t[i] = s[i + 1] /\ t[i - 1] = s[(i + 1) - 1]
      BY <1>1, <3>1
    <3>3. /\ s[i + 1] = "supersede" => s[(i + 1) - 1] = "snapshot"
          /\ s[i + 1] = "append" => s[(i + 1) - 1] = "supersede"
      BY <3>1 DEF Chained
    <3> QED BY <3>2, <3>3
  <2> QED BY <2>2, <2>3, <2>4, <2>5 DEF Chained
<1>3. Holds(s, Head(s))
  BY <1>1 DEF Holds
<1>4. ASSUME NEW x, Holds(t, x) PROVE Holds(s, x) /\ x # Head(s)
  BY <1>1, <1>4 DEF Holds, Chained
<1>5. ASSUME NEW x, Holds(s, x), x # Head(s) PROVE Holds(t, x)
  <2>1. PICK i \in 1..Len(s) : s[i] = x
    BY <1>5 DEF Holds
  <2>2. i - 1 \in 1..Len(t) /\ t[i - 1] = x
    BY <1>1, <1>5, <2>1
  <2> QED BY <2>2 DEF Holds
<1>6. Head(s) = "append" => ~Holds(s, "insert")
  BY <1>1 DEF Holds, Chained
<1>7. /\ t # << >> /\ Head(t) = "supersede" => Head(s) = "snapshot"
      /\ t # << >> /\ Head(t) = "append" => Head(s) = "supersede"
  BY <1>1 DEF Chained
<1> QED BY <1>2, <1>3, <1>4, <1>5, <1>6, <1>7 DEF t

\* A task that goes on.
LEMMA NextPlan ==
  ASSUME NEW T \in Tasks, PlanOK(T), T.plan # << >>,
         NEW U, U.plan = Tail(T.plan), U.op = T.op, U.entity = T.entity
  PROVE  PlanOK(U)
<1>1. T.plan \in Seq(Steps) /\ Chained(T.plan)
  BY DEF Tasks, PlanOK
<1>2. Chained(U.plan) /\ \A x : Holds(U.plan, x) => Holds(T.plan, x)
  BY <1>1, ChainTail
<1> QED BY <1>2 DEF PlanOK

LEMMA NoPlan == PlanOK(Resting) /\ Resting.plan = << >> /\ Resting.op = "none"
<1>1. Resting.plan = << >> /\ Resting.op = "none"
  BY DEF Resting, Task
<1>2. Chained(<< >>) /\ \A x : ~Holds(<< >>, x)
  BY DEF Chained, Holds
<1> QED BY <1>1, <1>2 DEF PlanOK

\* What the others have when only h works, and on its entity.
OnlyBy(h) ==
  /\ \A g \in Handlers \ {h} :
       \/ task'[g] = task[g]
       \/ /\ task'[g] = [task[g] EXCEPT !.seen = {}]
          /\ task[g].entity = task[h].entity /\ Touches(task[h]) # {}
  /\ \A e \in Entities :
       versions'[e] = versions[e] \/ (e = task[h].entity /\ Touches(task[h]) # {})

LEMMA OthersStay ==
  ASSUME CatalogInv, LineInv, NEW h \in Handlers, ~Rests(h),
         UNCHANGED <<overlapped, undisturbed>>, OnlyBy(h), NEW g \in Handlers \ {h}
  PROVE  /\ PlanOK(task'[g]) /\ Numbered(g)' /\ Locked(g)' /\ Alone(g)'
         /\ task'[g].op = task[g].op /\ task'[g].entity = task[g].entity
         /\ task'[g].plan = task[g].plan
<1>1. /\ task[g] \in Tasks /\ TaskOK(task[g]) /\ PlanOK(task[g])
      /\ Numbered(g) /\ Locked(g) /\ Alone(g)
  BY DEF CatalogInv, CatalogShape, LineInv
<1>2. /\ task'[g].op = task[g].op /\ task'[g].entity = task[g].entity
      /\ task'[g].plan = task[g].plan /\ task'[g].number = task[g].number
  BY <1>1 DEF OnlyBy, Tasks
<1>3. PlanOK(task'[g])
  BY <1>1, <1>2 DEF PlanOK
<1>4. CASE Rests(g)
  <2>1. task'[g].plan = << >> /\ \A x : ~Holds(<< >>, x)
    BY <1>2, <1>4 DEF Rests, Holds
  <2> QED BY <1>2, <1>3, <2>1 DEF Numbered, Locked, Alone, Rests, Due
<1>5. CASE ~Rests(g)
  <2>1. g \notin undisturbed /\ Touches(task[g]) \cap Touches(task[h]) \subseteq overlapped
    BY <1>5 DEF LineInv, OverlapsAreKnown
  <2>2. Alone(g)'
    BY <2>1 DEF Alone
  <2>3. CASE task[g].op \in {"create_project", "edit_project"}
    <3>1. task[g].plan \in Seq(ProjectSteps)
      BY <1>1, <2>3 DEF TaskOK, StepsOf
    <3>2. ~Holds(task[g].plan, "append") /\ \A x \in {"supersede", "append"} : Head(task[g].plan) # x
      <4>1. \A i \in 1..Len(task[g].plan) : task[g].plan[i] \in ProjectSteps
        BY <3>1
      <4>2. Head(task[g].plan) \in ProjectSteps
        BY <1>5, <3>1, HeadTailProperties DEF Rests
      <4> QED BY <4>1, <4>2 DEF Holds, ProjectSteps
    <3> QED BY <1>2, <1>3, <2>2, <3>2 DEF Numbered, Locked, Due
  <2>4. CASE task[g].op \notin {"create_project", "edit_project"}
    <3>1. Touches(task[g]) = {task[g].entity}
      BY <2>4 DEF Touches
    <3>2. CASE task[g].entity \in overlapped
      BY <1>2, <1>3, <2>1, <2>2, <3>2 DEF Numbered, Locked, Sole
    <3>3. CASE task[g].entity \notin overlapped
      <4>1. task[g].entity # task[h].entity \/ Touches(task[h]) = {}
        BY <2>1, <3>1, <3>3 DEF Touches
      <4>2. task'[g] = task[g] /\ versions'[task[g].entity] = versions[task[g].entity]
        BY <1>1, <4>1 DEF OnlyBy, Tasks
      <4> QED BY <1>1, <1>3, <2>2, <4>2 DEF Numbered, Locked, Sole, Due, Rests, Numbers
    <3> QED BY <3>2, <3>3
  <2> QED BY <1>2, <1>3, <2>3, <2>4
<1> QED BY <1>4, <1>5

\* A step of h keeps the registry in line if what is h's stays.
LEMMA StepInLine ==
  ASSUME CatalogInv, LineInv, NEW h \in Handlers, ~Rests(h),
         UNCHANGED <<overlapped, undisturbed>>, OnlyBy(h),
         \A e \in Entities : versions'[e] # {} => e \in entities',
         VersionsInLine',
         \/ task'[h].plan = << >>
         \/ task'[h].op = task[h].op /\ task'[h].entity = task[h].entity,
         PlanOK(task'[h]), Numbered(h)', Locked(h)', Alone(h)'
  PROVE  LineInv'
<1>1. \A g \in Handlers : PlanOK(task'[g]) /\ Numbered(g)' /\ Locked(g)' /\ Alone(g)'
  BY OthersStay
<1>2. OverlapsAreKnown'
  <2> SUFFICES ASSUME NEW g \in Handlers, NEW j \in Handlers, g # j,
                      task'[g].plan # << >>, task'[j].plan # << >>
               PROVE  /\ Touches(task'[g]) \cap Touches(task'[j]) \subseteq overlapped
                      /\ g \notin undisturbed
    BY DEF OverlapsAreKnown, Rests
  <2>1. ASSUME NEW f \in Handlers, task'[f].plan # << >>
        PROVE  Touches(task'[f]) = Touches(task[f]) /\ ~Rests(f)
    <3>1. CASE f = h
      BY <2>1, <3>1 DEF Touches
    <3>2. CASE f # h
      BY <2>1, <3>2, OthersStay DEF Touches, Rests
    <3> QED BY <3>1, <3>2
  <2> QED BY <2>1 DEF LineInv, OverlapsAreKnown
<1> QED BY <1>1, <1>2 DEF LineInv, PlanOK

\* A handler at rest leaves nothing to keep.
LEMMA Rested ==
  ASSUME NEW h \in Handlers, task'[h].plan = << >>, task'[h].op = "none"
  PROVE  PlanOK(task'[h]) /\ Numbered(h)' /\ Locked(h)' /\ Alone(h)'
<1>1. Chained(<< >>) /\ \A x : ~Holds(<< >>, x)
  BY DEF Chained, Holds
<1> QED BY <1>1 DEF PlanOK, Numbered, Locked, Alone, Due, Rests

\* What h has when it drops its task.
LEMMA Aborted ==
  ASSUME CatalogInv, NEW h \in Handlers, Abort(h), UNCHANGED versions
  PROVE  /\ OnlyBy(h) /\ task'[h].plan = << >>
         /\ PlanOK(task'[h]) /\ Numbered(h)' /\ Locked(h)' /\ Alone(h)'
<1>1. /\ task'[h] = Resting /\ \A g \in Handlers \ {h} : task'[g] = task[g]
  BY DEF CatalogInv, CatalogShape, Abort
<1> QED BY <1>1, NoPlan, Rested DEF OnlyBy

\* What h has when it has made a transaction.
LEMMA Advances ==
  ASSUME CatalogInv, LineInv, NEW h \in Handlers, ~Rests(h), Advance(h),
         UNCHANGED <<versions, overlapped, undisturbed>>,
         Head(task[h].plan) # "snapshot",
         Head(task[h].plan) = "insert" => versions[task[h].entity] = {}
  PROVE  /\ OnlyBy(h)
         /\ PlanOK(task'[h]) /\ Numbered(h)' /\ Locked(h)'
         /\ \/ Tail(task[h].plan) = << >> /\ task'[h].plan = << >> /\ task'[h].op = "none"
            \/ /\ Tail(task[h].plan) # << >>
               /\ task'[h].plan = Tail(task[h].plan) /\ task'[h].op = task[h].op
               /\ task'[h].entity = task[h].entity /\ task'[h].spec = task[h].spec
<1> DEFINE T == task[h]
<1> DEFINE U == [T EXCEPT !.plan = Tail(@)]
<1>1. /\ T \in Tasks /\ T.plan \in Seq(Steps) /\ T.plan # << >>
      /\ PlanOK(T) /\ Numbered(h) /\ Locked(h)
  BY DEF CatalogInv, CatalogShape, LineInv, Tasks, Rests
<1>2. /\ \A g \in Handlers \ {h} : task'[g] = task[g]
      /\ task'[h] = IF Tail(T.plan) = << >> THEN Resting ELSE U
  BY <1>1 DEF CatalogInv, CatalogShape, Advance, Keep, Tasks
<1>3. /\ U.plan = Tail(T.plan) /\ U.op = T.op /\ U.entity = T.entity /\ U.spec = T.spec
      /\ U.number = T.number /\ U.seen = T.seen
  BY <1>1 DEF Tasks
<1>4. OnlyBy(h)
  BY <1>2 DEF OnlyBy
<1> HIDE DEF U
<1>5. CASE Tail(T.plan) = << >>
  BY <1>2, <1>4, <1>5, NoPlan, Rested
<1>6. CASE Tail(T.plan) # << >>
  <2>1. /\ task'[h] = U /\ PlanOK(U)
    BY <1>1, <1>2, <1>3, <1>6, NextPlan
  <2>2. /\ \A x : Holds(U.plan, x) <=> Holds(T.plan, x) /\ x # Head(T.plan)
        /\ Head(T.plan) = "append" => ~Holds(T.plan, "insert")
        /\ Head(U.plan) = "supersede" => Head(T.plan) = "snapshot"
        /\ Head(U.plan) = "append" => Head(T.plan) = "supersede"
    BY <1>1, <1>3, <1>6, ChainTail DEF PlanOK
  <2>3. Numbered(h)'
    BY <1>1, <1>3, <2>1, <2>2 DEF Numbered
  <2>4. Locked(h)'
    BY <1>1, <1>3, <2>1, <2>2 DEF Locked, Sole, Due, Rests, Numbers
  <2> QED BY <1>3, <1>4, <1>6, <2>1, <2>3, <2>4
<1> QED BY <1>5, <1>6

\* A transaction of h that touches neither versions nor the project's row.
LEMMA QuietStep ==
  ASSUME CatalogInv, LineInv, NEW h \in Handlers, ~Rests(h),
         UNCHANGED <<versions, overlapped, undisturbed>>,
         \/ Abort(h)
         \/ /\ Advance(h)
            /\ Head(task[h].plan) \notin {"snapshot", "append", "remove"}
            /\ Head(task[h].plan) = "insert" => versions[task[h].entity] = {},
         entities \subseteq entities',
         \/ project' = project /\ entities' = entities
         \/ project'.spec = project.spec /\ task[h].op # "delete_project"
         \/ task[h].op \notin {"publish", "delete_project"}
         \/ task[h].op = "delete_project" /\ Head(task[h].plan) = "drop_project"
  PROVE  LineInv'
<1>1. /\ \A e \in Entities : versions'[e] # {} => e \in entities'
      /\ VersionsInLine'
  BY DEF LineInv, VersionsInLine, CurrentVersions
<1>2. CASE Abort(h)
  BY <1>1, <1>2, Aborted, StepInLine
<1>3. CASE /\ Advance(h)
           /\ Head(task[h].plan) \notin {"snapshot", "append", "remove"}
           /\ Head(task[h].plan) = "insert" => versions[task[h].entity] = {}
  <2>1. /\ OnlyBy(h)
        /\ PlanOK(task'[h]) /\ Numbered(h)' /\ Locked(h)'
        /\ \/ Tail(task[h].plan) = << >> /\ task'[h].plan = << >> /\ task'[h].op = "none"
           \/ /\ Tail(task[h].plan) # << >>
              /\ task'[h].plan = Tail(task[h].plan) /\ task'[h].op = task[h].op
              /\ task'[h].entity = task[h].entity /\ task'[h].spec = task[h].spec
    BY <1>3, Advances
  <2>2. CASE task'[h].plan = << >> /\ task'[h].op = "none"
    BY <1>1, <2>1, <2>2, Rested, StepInLine
  <2>3. CASE /\ Tail(task[h].plan) # << >>
             /\ task'[h].plan = Tail(task[h].plan) /\ task'[h].op = task[h].op
             /\ task'[h].entity = task[h].entity /\ task'[h].spec = task[h].spec
    <3>1. /\ task[h].plan \in Seq(Steps) /\ task[h].plan # << >>
          /\ PlanOK(task[h]) /\ Alone(h)
      BY DEF CatalogInv, CatalogShape, LineInv, Tasks, Rests
    <3>2. \A x : Holds(task'[h].plan, x) <=> Holds(task[h].plan, x) /\ x # Head(task[h].plan)
      BY <2>3, <3>1, ChainTail DEF PlanOK
    <3>3. Alone(h)'
      BY <1>3, <2>3, <3>1, <3>2 DEF Alone, Rests, CurrentVersions
    <3> QED BY <1>1, <2>1, <2>3, <3>3, StepInLine
  <2> QED BY <2>1, <2>2, <2>3
<1> QED BY <1>2, <1>3

\* The next step of a task.
LEMMA DueStep ==
  ASSUME CatalogInv, NEW h \in Handlers, NEW step, Due(h, step)
  PROVE  /\ ~Rests(h) /\ step = Head(task[h].plan) /\ step \in StepsOf(task[h].op)
         /\ task[h].plan # << >> /\ task[h].plan \in Seq(Steps)
         /\ task[h] \in Tasks /\ TaskOK(task[h]) /\ task[h].op \in Ops
         /\ task[h].entity \in Entities
         /\ Holds(task[h].plan, step)
<1>1. ~Rests(h) /\ task[h].plan # <<>> /\ step = Head(task[h].plan)
  BY DEF Due, Rests
<1>2. task[h] \in Tasks /\ TaskOK(task[h])
  BY DEF CatalogInv, CatalogShape
<1>3. /\ task[h].op \in Ops /\ task[h].plan \in Seq(StepsOf(task[h].op))
      /\ task[h].plan \in Seq(Steps) /\ task[h].entity \in Entities
  BY <1>2 DEF Tasks, TaskOK
<1>4. step \in StepsOf(task[h].op)
  BY <1>1, <1>3, HeadTailProperties
<1>5. Holds(task[h].plan, step)
  <2>1. 1 \in 1..Len(task[h].plan) /\ task[h].plan[1] = step
    BY <1>1, <1>3
  <2> QED BY <2>1 DEF Holds
<1> QED BY <1>1, <1>2, <1>3, <1>4, <1>5

\* Transactions that leave the versions alone.
LEMMA QuietInLine ==
  ASSUME CatalogInv, LineInv, NEW h \in Handlers, UNCHANGED <<overlapped, undisturbed>>,
         \/ Insert(h) \/ Supersede(h) \/ Status(h) \/ Link(h)
         \/ InsertProject(h) \/ WriteProject(h) \/ DropProject(h) \/ Cut(h)
  PROVE  LineInv'
<1>1. CASE Insert(h)
  <2>1. /\ ~Rests(h) /\ "insert" = Head(task[h].plan) /\ "insert" \in StepsOf(task[h].op)
        /\ task[h].entity \in Entities
    BY <1>1, DueStep DEF Insert
  <2>2. task[h].op # "delete_project"
    BY <2>1 DEF StepsOf, RegistrySteps, ProjectSteps, RemovalSteps
  <2>3. task[h].entity \notin entities => versions[task[h].entity] = {}
    BY <2>1 DEF LineInv
  <2>4. /\ entities \subseteq entities' /\ project' = project /\ versions' = versions
        /\ \/ Abort(h)
           \/ Advance(h) /\ task[h].entity \notin entities
    BY <1>1 DEF Insert
  <2> QED BY <2>1, <2>2, <2>3, <2>4, QuietStep
<1>2. CASE Supersede(h)
  <2>1. ~Rests(h) /\ "supersede" = Head(task[h].plan)
    BY <1>2, DueStep DEF Supersede
  <2> QED BY <1>2, <2>1, QuietStep DEF Supersede, registry
<1>3. CASE Status(h)
  <2>1. ~Rests(h) /\ "status" = Head(task[h].plan)
    BY <1>3, DueStep DEF Status
  <2> QED BY <1>3, <2>1, QuietStep DEF Status, registry
<1>4. CASE Link(h)
  <2>1. /\ ~Rests(h) /\ "link" = Head(task[h].plan) /\ "link" \in StepsOf(task[h].op)
    BY <1>4, DueStep DEF Link
  <2>2. task[h].op # "delete_project"
    BY <2>1 DEF StepsOf, RegistrySteps, ProjectSteps, RemovalSteps
  <2>3. project'.spec = project.spec
    BY <1>4 DEF Link, CatalogInv, CatalogShape, Projects
  <2> QED BY <1>4, <2>1, <2>2, <2>3, QuietStep DEF Link, registry
<1>5. CASE InsertProject(h)
  <2>1. /\ ~Rests(h) /\ "insert_project" = Head(task[h].plan)
        /\ "insert_project" \in StepsOf(task[h].op)
    BY <1>5, DueStep DEF InsertProject
  <2>2. task[h].op \notin {"publish", "delete_project"}
    BY <2>1 DEF StepsOf, RegistrySteps, ProjectSteps, RemovalSteps
  <2> QED BY <1>5, <2>1, <2>2, QuietStep DEF InsertProject, registry
<1>6. CASE WriteProject(h)
  <2>1. /\ ~Rests(h) /\ "write_project" = Head(task[h].plan)
        /\ "write_project" \in StepsOf(task[h].op)
    BY <1>6, DueStep DEF WriteProject
  <2>2. task[h].op \notin {"publish", "delete_project"}
    BY <2>1 DEF StepsOf, RegistrySteps, ProjectSteps, RemovalSteps
  <2> QED BY <1>6, <2>1, <2>2, QuietStep DEF WriteProject, registry
<1>7. CASE DropProject(h)
  <2>1. /\ ~Rests(h) /\ "drop_project" = Head(task[h].plan)
        /\ Holds(task[h].plan, "drop_project")
    BY <1>7, DueStep DEF DropProject
  <2>2. task[h].op = "delete_project"
    BY <2>1 DEF LineInv, PlanOK
  <2> QED BY <1>7, <2>1, <2>2, QuietStep DEF DropProject, registry
<1>8. CASE Cut(h)
  BY <1>8, QuietStep DEF Cut, registry
<1> QED BY <1>1, <1>2, <1>3, <1>4, <1>5, <1>6, <1>7, <1>8

\* The rows to supersede are read.
LEMMA SnapshotInLine ==
  ASSUME CatalogInv, LineInv, NEW h \in Handlers, UNCHANGED <<overlapped, undisturbed>>,
         Snapshot(h)
  PROVE  LineInv'
<1> DEFINE T == task[h]
<1> DEFINE S == Numbers(T.entity)
<1> DEFINE U == [T EXCEPT !.plan = Tail(@), !.seen = S]
<1>1. /\ ~Rests(h) /\ "snapshot" = Head(T.plan) /\ T.plan # << >> /\ T.plan \in Seq(Steps)
      /\ T \in Tasks
  BY DueStep DEF Snapshot
<1>2. PlanOK(T) /\ Numbered(h) /\ Locked(h) /\ Alone(h)
  BY DEF LineInv
<1>3. /\ \A g \in Handlers \ {h} : task'[g] = task[g]
      /\ task'[h] = IF Tail(T.plan) = << >> THEN Resting ELSE U
      /\ UNCHANGED <<entities, versions, project>>
  BY <1>1 DEF CatalogInv, CatalogShape, Snapshot, Keep, Tasks, registry
<1>4. /\ U.plan = Tail(T.plan) /\ U.op = T.op /\ U.entity = T.entity /\ U.spec = T.spec
      /\ U.number = T.number /\ U.seen = S
  BY <1>1 DEF Tasks
<1>5. OnlyBy(h)
  BY <1>3 DEF OnlyBy
<1>6. /\ \A e \in Entities : versions'[e] # {} => e \in entities'
      /\ VersionsInLine'
  BY <1>3 DEF LineInv, VersionsInLine, CurrentVersions
<1> HIDE DEF U
<1>7. CASE Tail(T.plan) = << >>
  BY <1>1, <1>3, <1>5, <1>6, <1>7, NoPlan, Rested, StepInLine
<1>8. CASE Tail(T.plan) # << >>
  <2>1. /\ task'[h] = U /\ PlanOK(U)
    BY <1>1, <1>2, <1>3, <1>4, <1>8, NextPlan
  <2>2. /\ \A x : Holds(U.plan, x) <=> Holds(T.plan, x) /\ x # Head(T.plan)
    BY <1>1, <1>2, <1>4, ChainTail DEF PlanOK
  <2>3. Numbered(h)'
    BY <1>1, <1>2, <1>3, <1>4, <2>1, <2>2 DEF Numbered
  <2>4. Locked(h)'
    BY <1>3, <1>4, <2>1 DEF Locked, Numbers
  <2>5. Alone(h)'
    BY <1>1, <1>2, <1>3, <1>4, <1>8, <2>1, <2>2 DEF Alone, Rests, CurrentVersions
  <2> QED BY <1>1, <1>4, <1>5, <1>6, <2>1, <2>3, <2>4, <2>5, StepInLine
<1> QED BY <1>7, <1>8

\* A version is appended.
LEMMA CommitInLine ==
  ASSUME CatalogInv, LineInv, NEW h \in Handlers, UNCHANGED <<overlapped, undisturbed>>,
         Commit(h)
  PROVE  LineInv'
<1> DEFINE T == task[h]
<1> DEFINE e == T.entity
<1> DEFINE row == [number |-> T.number, spec |-> T.spec, current |-> TRUE]
<1> DEFINE new == {[v EXCEPT !.current = @ /\ v.number \notin T.seen] : v \in versions[e]}
                  \cup {row}
<1> DEFINE U == [T EXCEPT !.plan = Tail(@)]
<1>1. /\ ~Rests(h) /\ "append" = Head(T.plan) /\ "append" \in StepsOf(T.op)
      /\ T.plan # << >> /\ T.plan \in Seq(Steps)
      /\ T \in Tasks /\ TaskOK(T) /\ e \in Entities /\ Holds(T.plan, "append")
      /\ Due(h, "append")
  BY DueStep DEF Commit
<1>2. PlanOK(T) /\ Numbered(h) /\ Locked(h) /\ Alone(h)
  BY DEF LineInv
<1>3. /\ T.op \notin {"create_project", "edit_project", "delete_project"}
      /\ Touches(T) # {}
  BY <1>1 DEF Touches, StepsOf, RegistrySteps, ProjectSteps, RemovalSteps
<1>4. CASE Abort(h) /\ UNCHANGED versions
  BY <1>1, <1>4, QuietStep DEF Commit
<1>5. CASE /\ e \in entities /\ T.number \notin Numbers(e)
           /\ versions' = [versions EXCEPT ![e] = new] /\ Advance(h)
  <2>1. /\ \A g \in Handlers \ {h} : task'[g] = task[g]
        /\ task'[h] = IF Tail(T.plan) = << >> THEN Resting ELSE U
        /\ entities' = entities /\ project' = project
    BY <1>1, <1>5 DEF CatalogInv, CatalogShape, Advance, Keep, Tasks, Commit
  <2>2. /\ versions'[e] = new
        /\ \A f \in Entities : f # e => versions'[f] = versions[f]
    BY <1>1, <1>5 DEF CatalogInv, CatalogShape
  <2>3. /\ row \in Rows /\ row.current /\ row.number = T.number /\ row.spec = T.spec
        /\ versions[e] \in SUBSET Rows
    BY <1>1 DEF CatalogInv, CatalogShape, Rows, Tasks
  <2>4. /\ U.plan = Tail(T.plan) /\ U.op = T.op /\ U.entity = T.entity /\ U.spec = T.spec
        /\ U.number = T.number /\ U.seen = T.seen
    BY <1>1 DEF Tasks
  <2>5. Sole(h) => /\ {v \in new : v.current} = {row}
                   /\ \A w \in new : w = row \/ \E v \in versions[e] : w.number = v.number
    <3> SUFFICES ASSUME Sole(h)
                 PROVE  /\ {v \in new : v.current} = {row}
                        /\ \A w \in new : w = row \/ \E v \in versions[e] : w.number = v.number
      OBVIOUS
    <3>1. T.seen = {v.number : v \in versions[e]}
      BY <1>1, <1>2 DEF Locked, Numbers
    <3>2. ASSUME NEW w \in new, w # row
          PROVE  w.current = FALSE /\ \E v \in versions[e] : w.number = v.number
      <4>1. PICK v \in versions[e] : w = [v EXCEPT !.current = v.current /\ v.number \notin T.seen]
        BY <3>2
      <4>2. v \in Rows /\ v.number \in T.seen
        BY <2>3, <3>1
      <4> QED BY <4>1, <4>2 DEF Rows
    <3>3. row \in new
      OBVIOUS
    <3> HIDE DEF new, row
    <3> QED BY <2>3, <3>2, <3>3
  <2> HIDE DEF new, row, U
  <2>6. OnlyBy(h)
    BY <1>3, <2>1, <2>2 DEF OnlyBy
  <2>7. \A f \in Entities : versions'[f] # {} => f \in entities'
    BY <1>5, <2>1, <2>2 DEF LineInv
  <2>8. ~Holds(T.plan, "insert")
    BY <1>1, <1>2, ChainTail DEF PlanOK
  <2>9. VersionsInLine'
    <3> SUFFICES ASSUME NEW f \in Entities, f \notin overlapped, versions'[f] # {}
                 PROVE  \E v \in versions'[f] :
                          /\ {w \in versions'[f] : w.current} = {v}
                          /\ \A w \in versions'[f] : w.number <= v.number
      BY DEF VersionsInLine, CurrentVersions, CatalogStep
    <3>1. CASE f # e
      BY <2>2, <3>1 DEF LineInv, VersionsInLine, CurrentVersions
    <3>2. CASE f = e
      <4>1. /\ {v \in new : v.current} = {row}
            /\ \A w \in new : w = row \/ \E v \in versions[e] : w.number = v.number
        BY <2>5, <3>2 DEF Sole
      <4>2. \A v \in versions[e] : v.number < T.number /\ v.number \in Nat
        BY <1>1, <1>2, <2>3, <2>8, <3>2 DEF Numbered, Rows
      <4>3. \A w \in new : w.number <= row.number
        BY <2>3, <4>1, <4>2, <1>1 DEF Tasks
      <4> QED BY <2>2, <3>2, <4>1, <4>3
    <3> QED BY <3>1, <3>2
  <2>10. CASE Tail(T.plan) = << >>
    BY <1>1, <2>1, <2>6, <2>7, <2>9, <2>10, NoPlan, Rested, StepInLine
  <2>11. CASE Tail(T.plan) # << >>
    <3>1. /\ task'[h] = U /\ PlanOK(U)
      BY <1>1, <1>2, <2>1, <2>4, <2>11, NextPlan
    <3>2. /\ \A x : Holds(U.plan, x) <=> Holds(T.plan, x) /\ x # Head(T.plan)
          /\ Head(U.plan) = "supersede" => Head(T.plan) = "snapshot"
          /\ Head(U.plan) = "append" => Head(T.plan) = "supersede"
      BY <1>1, <1>2, <2>4, <2>11, ChainTail DEF PlanOK
    <3>3. Numbered(h)'
      BY <1>1, <3>1, <3>2 DEF Numbered
    <3>4. Locked(h)'
      BY <1>1, <3>1, <3>2 DEF Locked, Due
    <3>5. Alone(h)'
      <4> SUFFICES ASSUME h \in undisturbed PROVE Alone(h)'
        BY DEF Alone
      <4>1. {v \in new : v.current} = {row}
        BY <2>5 DEF Sole
      <4>2. T.op = "publish" =>
              {v.spec : v \in {w \in versions'[Agent] : w.current}} = {T.spec}
        <5>1. T.op = "publish" => e = Agent
          BY <1>2 DEF PlanOK
        <5> QED BY <2>2, <2>3, <4>1, <5>1
      <4>3. T.op = "publish" => T.spec = project.spec
        BY <1>1, <1>2 DEF Alone
      <4> QED BY <1>3, <2>1, <2>4, <3>1, <4>2, <4>3 DEF Alone, CurrentVersions
    <3> QED BY <1>1, <2>4, <2>6, <2>7, <2>9, <3>1, <3>3, <3>4, <3>5, StepInLine
  <2> QED BY <2>10, <2>11
<1> QED BY <1>4, <1>5 DEF Commit

\* An entity is removed with its versions.
LEMMA RemoveInLine ==
  ASSUME CatalogInv, LineInv, NEW h \in Handlers, UNCHANGED <<overlapped, undisturbed>>,
         Remove(h)
  PROVE  LineInv'
<1> DEFINE T == task[h]
<1> DEFINE e == T.entity
<1> DEFINE U == [T EXCEPT !.plan = Tail(@)]
<1>1. /\ ~Rests(h) /\ "remove" = Head(T.plan) /\ "remove" \in StepsOf(T.op)
      /\ T.plan # << >> /\ T.plan \in Seq(Steps)
      /\ T \in Tasks /\ T.op \in Ops /\ e \in Entities
  BY DueStep DEF Remove
<1>2. PlanOK(T)
  BY DEF LineInv
<1>3. T.op \notin {"create_project", "edit_project", "publish"} /\ Touches(T) # {}
  BY <1>1 DEF Touches, StepsOf, RegistrySteps, ProjectSteps, RemovalSteps
<1>4. /\ \A g \in Handlers \ {h} :
           task'[g] = IF task[g].entity = e THEN [task[g] EXCEPT !.seen = {}] ELSE task[g]
      /\ task'[h] = IF Tail(T.plan) = << >> THEN Resting ELSE U
      /\ entities' = entities \ {e} /\ project' = project
  BY DEF Remove
<1>5. /\ versions'[e] = {}
      /\ \A f \in Entities : f # e => versions'[f] = versions[f]
  BY <1>1 DEF Remove, CatalogInv, CatalogShape
<1>6. /\ U.plan = Tail(T.plan) /\ U.op = T.op /\ U.entity = T.entity
  BY <1>1 DEF Tasks
<1> HIDE DEF U
<1>7. OnlyBy(h)
  BY <1>3, <1>4, <1>5 DEF OnlyBy
<1>8. \A f \in Entities : versions'[f] # {} => f \in entities'
  BY <1>4, <1>5 DEF LineInv
<1>9. VersionsInLine'
  BY <1>5 DEF LineInv, VersionsInLine, CurrentVersions
<1>10. CASE Tail(T.plan) = << >>
  BY <1>1, <1>4, <1>7, <1>8, <1>9, <1>10, NoPlan, Rested, StepInLine
<1>11. CASE Tail(T.plan) # << >>
  <2>1. /\ task'[h] = U /\ PlanOK(U)
    BY <1>1, <1>2, <1>4, <1>6, <1>11, NextPlan
  <2>2. /\ Head(U.plan) = "supersede" => Head(T.plan) = "snapshot"
        /\ Head(U.plan) = "append" => Head(T.plan) = "supersede"
    BY <1>1, <1>2, <1>6, <1>11, ChainTail DEF PlanOK
  <2>3. Numbered(h)'
    BY <1>5, <1>6, <2>1 DEF Numbered
  <2>4. Locked(h)'
    BY <1>1, <2>1, <2>2 DEF Locked, Due
  <2>5. Alone(h)'
    <3>1. T.op = "delete_project" => e = Agent
      BY <1>2 DEF PlanOK
    <3> QED BY <1>3, <1>4, <1>6, <2>1, <3>1 DEF Alone
  <2> QED BY <1>1, <1>6, <1>7, <1>8, <1>9, <2>1, <2>3, <2>4, <2>5, StepInLine
<1> QED BY <1>10, <1>11

\* The plans that append a version, place by place.
LEMMA PlanPlaces ==
  /\ /\ Len(CreatePlan) = 4
     /\ CreatePlan[1] = "insert" /\ CreatePlan[2] = "snapshot"
     /\ CreatePlan[3] = "supersede" /\ CreatePlan[4] = "append"
  /\ /\ Len(UpdatePlan) = 4
     /\ UpdatePlan[1] = "snapshot" /\ UpdatePlan[2] = "supersede"
     /\ UpdatePlan[3] = "append" /\ UpdatePlan[4] = "status"
<1>1. /\ Version \in Seq(Steps) /\ Len(Version) = 3
      /\ Version[1] = "snapshot" /\ Version[2] = "supersede" /\ Version[3] = "append"
  BY DEF Version, Steps
<1>2. /\ <<"insert">> \in Seq(Steps) /\ <<"status">> \in Seq(Steps)
      /\ Len(<<"insert">>) = 1 /\ Len(<<"status">>) = 1
      /\ <<"insert">>[1] = "insert" /\ <<"status">>[1] = "status"
  BY DEF Steps
<1>3. \A s, t \in Seq(Steps) :
        /\ Len(s \o t) = Len(s) + Len(t)
        /\ \A i \in 1..Len(s) : (s \o t)[i] = s[i]
        /\ \A i \in 1..Len(t) : (s \o t)[Len(s) + i] = t[i]
  OBVIOUS
<1> DEFINE a == <<"insert">>
<1> DEFINE b == <<"status">>
<1>4. CreatePlan = a \o Version /\ UpdatePlan = Version \o b
  BY DEF CreatePlan, UpdatePlan
<1> HIDE DEF a, b
<1>5. Len(a) = 1 /\ Len(b) = 1 /\ a \in Seq(Steps) /\ b \in Seq(Steps)
      /\ a[1] = "insert" /\ b[1] = "status"
  BY <1>2 DEF a, b
<1>6. /\ Len(a \o Version) = 4 /\ (a \o Version)[1] = a[1]
      /\ \A i \in 1..3 : (a \o Version)[1 + i] = Version[i]
  <2>1. /\ Len(a \o Version) = Len(a) + Len(Version)
        /\ \A i \in 1..Len(a) : (a \o Version)[i] = a[i]
        /\ \A i \in 1..Len(Version) : (a \o Version)[Len(a) + i] = Version[i]
    BY <1>1, <1>3, <1>5
  <2> QED BY <1>1, <1>5, <2>1
<1>7. /\ Len(Version \o b) = 4 /\ (Version \o b)[4] = b[1]
      /\ \A i \in 1..3 : (Version \o b)[i] = Version[i]
  <2>1. /\ Len(Version \o b) = Len(Version) + Len(b)
        /\ \A i \in 1..Len(Version) : (Version \o b)[i] = Version[i]
        /\ \A i \in 1..Len(b) : (Version \o b)[Len(Version) + i] = b[i]
    BY <1>1, <1>3, <1>5
  <2> QED BY <1>1, <1>5, <2>1
<1>8. /\ (a \o Version)[1 + 1] = Version[1] /\ (a \o Version)[1 + 2] = Version[2]
      /\ (a \o Version)[1 + 3] = Version[3]
  BY <1>6
<1> QED BY <1>1, <1>4, <1>5, <1>6, <1>7, <1>8

LEMMA OneMore ==
  ASSUME NEW q \in Seq(Steps), Len(q) = 4, NEW l \in Seq(Steps), Len(l) = 1
  PROVE  /\ Len(q \o l) = 5 /\ (q \o l)[5] = l[1] /\ q \o l \in Seq(Steps)
         /\ (q \o l)[1] = q[1] /\ (q \o l)[2] = q[2]
         /\ (q \o l)[3] = q[3] /\ (q \o l)[4] = q[4]
<1>1. \A s, t \in Seq(Steps) :
        /\ Len(s \o t) = Len(s) + Len(t) /\ s \o t \in Seq(Steps)
        /\ \A i \in 1..Len(s) : (s \o t)[i] = s[i]
        /\ \A i \in 1..Len(t) : (s \o t)[Len(s) + i] = t[i]
  OBVIOUS
<1> DEFINE c == q \o l
<1>2. /\ Len(c) = Len(q) + Len(l) /\ c \in Seq(Steps)
      /\ \A i \in 1..Len(q) : c[i] = q[i]
      /\ \A i \in 1..Len(l) : c[Len(q) + i] = l[i]
  BY <1>1
<1> HIDE DEF c
<1>3. /\ Len(c) = 5 /\ \A i \in 1..4 : c[i] = q[i]
      /\ \A i \in 1..1 : c[4 + i] = l[i]
  BY <1>2
<1>4. c[4 + 1] = l[1]
  BY <1>3
<1> QED BY <1>2, <1>3, <1>4 DEF c

\* Four places, or five with a link.
LEMMA FivePlaces ==
  ASSUME NEW p, Len(p) \in {4, 5}, Len(p) = 5 => p[5] = "link",
         \/ /\ p[1] = "insert" /\ p[2] = "snapshot" /\ p[3] = "supersede" /\ p[4] = "append"
         \/ /\ p[1] = "snapshot" /\ p[2] = "supersede" /\ p[3] = "append" /\ p[4] = "status"
  PROVE  /\ Chained(p) /\ Holds(p, "append")
         /\ p[1] = "insert" => Holds(p, "insert")
         /\ \A x \in {"find", "remove", "drop_project"} : ~Holds(p, x)
         /\ Len(p) = 4 => ~Holds(p, "link")
<1>1. \A i \in 1..Len(p) : i \in {1, 2, 3, 4, 5} /\ (i = 5 => p[i] = "link")
  <2>1. CASE Len(p) = 4
    <3>1. \A i \in 1..4 : i \in {1, 2, 3, 4}
      OBVIOUS
    <3> QED BY <2>1, <3>1
  <2>2. CASE Len(p) = 5
    <3>1. \A i \in 1..5 : i \in {1, 2, 3, 4, 5}
      OBVIOUS
    <3> QED BY <2>2, <3>1
  <2> QED BY <2>1, <2>2
<1>2. \A i \in 2..Len(p) : i \in 1..Len(p) /\ i # 1
  OBVIOUS
<1>3. 1 \in 1..Len(p) /\ 3 \in 1..Len(p) /\ 4 \in 1..Len(p)
  OBVIOUS
<1>4. \A i \in 1..Len(p) : p[i] \notin {"find", "remove", "drop_project"}
  BY <1>1
<1>5. Len(p) = 4 => \A i \in 1..Len(p) : p[i] # "link"
  OBVIOUS
<1>6. Chained(p)
  <2>1. \A i \in 1..Len(p) : p[i] = "link" => i = Len(p)
    BY <1>1
  <2>2. \A i, j \in 1..Len(p) : p[i] = p[j] => i = j
    BY <1>1
  <2> QED BY <1>1, <1>2, <2>1, <2>2 DEF Chained
<1> QED BY <1>3, <1>4, <1>5, <1>6 DEF Holds

\* The plans of a publication.
LEMMA LinkedPlaces ==
  ASSUME NEW q \in {CreatePlan, UpdatePlan}
  PROVE  LET p == q \o <<"link">>
         IN  /\ p \in Seq(Steps) /\ Len(p) = 5 /\ p[5] = "link"
             /\ p[1] = q[1] /\ p[2] = q[2] /\ p[3] = q[3] /\ p[4] = q[4]
<1> DEFINE l == <<"link">>
<1>1. /\ q \in Seq(Steps) /\ Len(q) = 4
      /\ l \in Seq(Steps) /\ Len(l) = 1 /\ l[1] = "link"
  <2>1. RegistrySteps \subseteq Steps /\ l \in Seq(Steps)
    BY DEF RegistrySteps, Steps
  <2>2. CreatePlan \in Seq(Steps) /\ UpdatePlan \in Seq(Steps)
    BY <2>1, PlansOfRegistry
  <2>3. Len(q) = 4
    BY PlanPlaces
  <2> QED BY <2>1, <2>2, <2>3
<1> HIDE DEF l
<1>2. /\ Len(q \o l) = 5 /\ (q \o l)[5] = l[1] /\ q \o l \in Seq(Steps)
      /\ (q \o l)[1] = q[1] /\ (q \o l)[2] = q[2]
      /\ (q \o l)[3] = q[3] /\ (q \o l)[4] = q[4]
  BY <1>1, OneMore
<1> QED BY <1>1, <1>2 DEF l

\* What they hold, with a link behind them or without.
LEMMA PlansChained ==
  \A p \in {CreatePlan, UpdatePlan, CreatePlan \o <<"link">>, UpdatePlan \o <<"link">>} :
    /\ Chained(p) /\ p # << >> /\ Head(p) \in {"insert", "snapshot"}
    /\ Holds(p, "append")
    /\ \A x \in {"find", "remove", "drop_project"} : ~Holds(p, x)
    /\ p \in {CreatePlan, CreatePlan \o <<"link">>} => Holds(p, "insert")
    /\ p \in {CreatePlan, UpdatePlan} => ~Holds(p, "link")
<1> DEFINE c == CreatePlan
<1> DEFINE u == UpdatePlan
<1> DEFINE cl == CreatePlan \o <<"link">>
<1> DEFINE ul == UpdatePlan \o <<"link">>
<1>1. /\ c \in Seq(Steps) /\ Len(c) = 4
      /\ c[1] = "insert" /\ c[2] = "snapshot" /\ c[3] = "supersede" /\ c[4] = "append"
      /\ u \in Seq(Steps) /\ Len(u) = 4
      /\ u[1] = "snapshot" /\ u[2] = "supersede" /\ u[3] = "append" /\ u[4] = "status"
  <2>1. RegistrySteps \subseteq Steps
    BY DEF RegistrySteps, Steps
  <2> QED BY <2>1, PlansOfRegistry, PlanPlaces
<1>2. /\ cl \in Seq(Steps) /\ Len(cl) = 5 /\ cl[5] = "link"
      /\ cl[1] = c[1] /\ cl[2] = c[2] /\ cl[3] = c[3] /\ cl[4] = c[4]
  BY LinkedPlaces
<1>3. /\ ul \in Seq(Steps) /\ Len(ul) = 5 /\ ul[5] = "link"
      /\ ul[1] = u[1] /\ ul[2] = u[2] /\ ul[3] = u[3] /\ ul[4] = u[4]
  BY LinkedPlaces
<1> HIDE DEF c, u, cl, ul
<1>4. ASSUME NEW p \in Seq(Steps), Len(p) \in {4, 5}, Len(p) = 5 => p[5] = "link",
             \/ /\ p[1] = "insert" /\ p[2] = "snapshot" /\ p[3] = "supersede" /\ p[4] = "append"
             \/ /\ p[1] = "snapshot" /\ p[2] = "supersede" /\ p[3] = "append" /\ p[4] = "status"
      PROVE  /\ Chained(p) /\ p # << >> /\ Head(p) \in {"insert", "snapshot"}
             /\ Holds(p, "append") /\ (p[1] = "insert" => Holds(p, "insert"))
             /\ \A x \in {"find", "remove", "drop_project"} : ~Holds(p, x)
             /\ Len(p) = 4 => ~Holds(p, "link")
  <2>1. p # << >> /\ Head(p) = p[1]
    BY <1>4
  <2>2. Head(p) \in {"insert", "snapshot"}
    BY <1>4, <2>1
  <2> QED BY <1>4, <2>1, <2>2, FivePlaces
<1>5. /\ Chained(c) /\ c # << >> /\ Head(c) \in {"insert", "snapshot"}
      /\ Holds(c, "append") /\ Holds(c, "insert") /\ ~Holds(c, "link")
      /\ \A x \in {"find", "remove", "drop_project"} : ~Holds(c, x)
  BY <1>1, <1>4
<1>6. /\ Chained(u) /\ u # << >> /\ Head(u) \in {"insert", "snapshot"}
      /\ Holds(u, "append") /\ ~Holds(u, "link") /\ u # c /\ u # cl
      /\ \A x \in {"find", "remove", "drop_project"} : ~Holds(u, x)
  BY <1>1, <1>2, <1>4
<1>7. /\ Chained(cl) /\ cl # << >> /\ Head(cl) \in {"insert", "snapshot"}
      /\ Holds(cl, "append") /\ Holds(cl, "insert") /\ cl # c /\ cl # u
      /\ \A x \in {"find", "remove", "drop_project"} : ~Holds(cl, x)
  BY <1>1, <1>2, <1>4
<1>8. /\ Chained(ul) /\ ul # << >> /\ Head(ul) \in {"insert", "snapshot"}
      /\ Holds(ul, "append") /\ ul # c /\ ul # u /\ ul # cl
      /\ \A x \in {"find", "remove", "drop_project"} : ~Holds(ul, x)
  BY <1>1, <1>2, <1>3, <1>4
<1>9. \A p \in {c, u, cl, ul} :
        /\ Chained(p) /\ p # << >> /\ Head(p) \in {"insert", "snapshot"}
        /\ Holds(p, "append")
        /\ \A x \in {"find", "remove", "drop_project"} : ~Holds(p, x)
        /\ p \in {c, cl} => Holds(p, "insert")
        /\ p \in {c, u} => ~Holds(p, "link")
  BY <1>5, <1>6, <1>7, <1>8, Zenon
<1> QED BY <1>9 DEF c, u, cl, ul

\* A number that follows the current one is behind all that are there.
LEMMA NextIsBehind ==
  ASSUME CatalogInv, LineInv, NEW e \in Entities, e \notin overlapped,
         NEW n \in CurrentNumbers(e), NEW v \in versions[e]
  PROVE  v.number < n + 1
<1>1. PICK c \in versions[e] : CurrentVersions(e) = {c} /\ \A w \in versions[e] : w.number <= c.number
  BY DEF LineInv, VersionsInLine
<1>2. n = c.number
  BY <1>1 DEF CurrentNumbers
<1> QED BY <1>1, <1>2 DEF CatalogInv, CatalogShape, Rows

\* A publication looks for its agent.
LEMMA FindInLine ==
  ASSUME CatalogInv, LineInv, NEW h \in Handlers, UNCHANGED <<overlapped, undisturbed>>,
         Find(h)
  PROVE  LineInv'
<1> DEFINE T == task[h]
<1>1. /\ ~Rests(h) /\ T \in Tasks /\ T.op \in Ops /\ T.entity \in Entities
      /\ Holds(T.plan, "find")
  BY DueStep DEF Find
<1>2. PlanOK(T) /\ Alone(h)
  BY DEF LineInv
<1>3. T.op = "publish" /\ T.entity = Agent
  BY <1>1, <1>2 DEF PlanOK
<1>4. UNCHANGED <<entities, versions, project>>
  BY DEF Find, registry
<1>5. /\ \A e \in Entities : versions'[e] # {} => e \in entities'
      /\ VersionsInLine'
  BY <1>4 DEF LineInv, VersionsInLine, CurrentVersions
<1>6. ASSUME NEW p \in {CreatePlan \o <<"link">>, UpdatePlan \o <<"link">>}, NEW U,
             U.plan = p, U.op = T.op, U.entity = T.entity, U.spec = T.spec,
             p = UpdatePlan \o <<"link">> => \E n \in CurrentNumbers(Agent) : U.number = n + 1,
             Keep(h, U)
      PROVE  LineInv'
  <2>1. /\ Chained(p) /\ p # << >> /\ Head(p) \in {"insert", "snapshot"} /\ Holds(p, "append")
        /\ \A x \in {"find", "remove", "drop_project"} : ~Holds(p, x)
        /\ p = CreatePlan \o <<"link">> => Holds(p, "insert")
    BY PlansChained
  <2>2. /\ \A g \in Handlers \ {h} : task'[g] = task[g]
        /\ task'[h] = U
    BY <1>6, <2>1 DEF Keep, CatalogInv, CatalogShape
  <2>3. OnlyBy(h)
    BY <1>4, <2>2 DEF OnlyBy
  <2>4. PlanOK(U)
    BY <1>3, <1>6, <2>1 DEF PlanOK
  <2>5. Numbered(h)'
    <3>1. CASE p = CreatePlan \o <<"link">>
      BY <1>6, <2>1, <2>2, <3>1 DEF Numbered
    <3>2. CASE p = UpdatePlan \o <<"link">>
      BY <1>1, <1>3, <1>4, <1>6, <2>2, <3>2, NextIsBehind DEF Numbered
    <3> QED BY <1>6, <3>1, <3>2
  <2>6. Locked(h)'
    BY <1>6, <2>1, <2>2 DEF Locked, Due
  <2>7. Alone(h)'
    BY <1>1, <1>2, <1>3, <1>4, <1>6, <2>1, <2>2 DEF Alone
  <2> QED BY <1>1, <1>5, <1>6, <2>2, <2>3, <2>4, <2>5, <2>6, <2>7, StepInLine
<1>7. CASE Agent \in entities
  <2>1. PICK n \in CurrentNumbers(Agent) :
          Keep(h, [T EXCEPT !.plan = UpdatePlan \o <<"link">>, !.number = n + 1])
    BY <1>7 DEF Find
  <2> DEFINE p == UpdatePlan \o <<"link">>
  <2> DEFINE U == [T EXCEPT !.plan = p, !.number = n + 1]
  <2>2. /\ U.plan = p /\ U.op = T.op /\ U.entity = T.entity /\ U.spec = T.spec
        /\ U.number = n + 1
    BY <1>1 DEF Tasks
  <2> HIDE DEF U
  <2> QED BY <1>6, <2>1, <2>2 DEF U
<1>8. CASE Agent \notin entities
  <2> DEFINE p == CreatePlan \o <<"link">>
  <2> DEFINE U == [T EXCEPT !.plan = p]
  <2>1. /\ U.plan = p /\ U.op = T.op /\ U.entity = T.entity /\ U.spec = T.spec
    BY <1>1 DEF Tasks
  <2>2. Keep(h, U)
    BY <1>8 DEF Find
  <2>3. p # UpdatePlan \o <<"link">>
    <3>1. p[1] = "insert" /\ (UpdatePlan \o <<"link">>)[1] = "snapshot"
      <4>1. RegistrySteps \subseteq Steps /\ <<"link">> \in Seq(Steps)
        BY DEF RegistrySteps, Steps
      <4> QED BY <4>1, PlansOfRegistry, PlanPlaces
    <3> QED BY <3>1
  <2> HIDE DEF U
  <2> QED BY <1>6, <2>1, <2>2, <2>3
<1> QED BY <1>7, <1>8

\* A handler begins a task.
LEMMA BeginInLine ==
  ASSUME CatalogInv, LineInv, NEW h \in Handlers, NEW T, Begin(h, T),
         UNCHANGED <<registry, project>>,
         PlanOK(T), T.plan # << >>, T.entity \in Entities,
         Head(T.plan) \notin {"supersede", "append"},
         Holds(T.plan, "append") /\ ~Holds(T.plan, "insert") =>
           \E n \in CurrentNumbers(T.entity) : T.number = n + 1,
         T.op = "publish" => T.spec = project.spec /\ ~Holds(T.plan, "link"),
         T.op = "delete_project" => Holds(T.plan, "remove") \/ ~project.linked
  PROVE  LineInv'
<1> DEFINE others == {g \in Handlers \ {h} : ~Rests(g)}
<1>1. /\ task'[h] = T /\ \A g \in Handlers \ {h} : task'[g] = task[g]
      /\ undisturbed' = IF others = {} THEN {h} ELSE {}
      /\ overlapped' = overlapped \cup
                       (Touches(T) \cap UNION {Touches(task[g]) : g \in others})
      /\ UNCHANGED <<entities, versions, project>>
  BY DEF Begin, CatalogInv, CatalogShape, registry
<1>2. overlapped \subseteq overlapped'
  BY <1>1
<1>3. ASSUME NEW g \in Handlers \ {h}
      PROVE  PlanOK(task'[g]) /\ Numbered(g)' /\ Locked(g)' /\ Alone(g)'
  <2>1. /\ PlanOK(task[g]) /\ Numbered(g) /\ Locked(g) /\ task'[g] = task[g]
        /\ g \notin undisturbed'
    BY <1>1 DEF LineInv
  <2>2. Numbered(g)'
    BY <1>1, <1>2, <2>1 DEF Numbered
  <2>3. Locked(g)'
    BY <1>1, <1>2, <2>1 DEF Locked, Sole, Due, Rests, Numbers
  <2>4. Alone(g)'
    BY <2>1 DEF Alone
  <2> QED BY <2>1, <2>2, <2>3, <2>4
<1>4. PlanOK(task'[h]) /\ Numbered(h)' /\ Locked(h)' /\ Alone(h)'
  <2>1. Numbered(h)'
    <3> SUFFICES ASSUME T.entity \notin overlapped', Holds(T.plan, "append"),
                        ~Holds(T.plan, "insert"), NEW v \in versions[T.entity]
                 PROVE  v.number < T.number
      BY <1>1 DEF Numbered
    <3>1. PICK n \in CurrentNumbers(T.entity) : T.number = n + 1
      OBVIOUS
    <3> QED BY <1>2, <3>1, NextIsBehind
  <2>2. Locked(h)'
    BY <1>1 DEF Locked, Due
  <2>3. Alone(h)'
    BY <1>1 DEF Alone
  <2> QED BY <1>1, <2>1, <2>2, <2>3
<1>5. OverlapsAreKnown'
  <2> SUFFICES ASSUME NEW g \in Handlers, NEW j \in Handlers, g # j,
                      task'[g].plan # << >>, task'[j].plan # << >>
               PROVE  /\ Touches(task'[g]) \cap Touches(task'[j]) \subseteq overlapped'
                      /\ g \notin undisturbed'
    BY DEF OverlapsAreKnown, Rests
  <2>1. ASSUME NEW f \in Handlers \ {h}, task'[f].plan # << >>
        PROVE  /\ f \in others /\ task'[f] = task[f] /\ undisturbed' = {}
               /\ Touches(T) \cap Touches(task[f]) \subseteq overlapped'
    BY <1>1, <2>1 DEF Rests
  <2>2. CASE g = h
    BY <1>1, <2>1, <2>2
  <2>3. CASE j = h
    BY <1>1, <2>1, <2>3
  <2>4. CASE g # h /\ j # h
    <3>1. Touches(task[g]) \cap Touches(task[j]) \subseteq overlapped
      BY <2>1, <2>4 DEF LineInv, OverlapsAreKnown
    <3> QED BY <1>2, <2>1, <2>4, <3>1
  <2> QED BY <2>2, <2>3, <2>4
<1>6. /\ \A e \in Entities : versions'[e] # {} => e \in entities'
      /\ VersionsInLine'
  BY <1>1, <1>2 DEF LineInv, VersionsInLine, CurrentVersions
<1>7. \A g \in Handlers : PlanOK(task'[g]) /\ Numbered(g)' /\ Locked(g)' /\ Alone(g)'
  BY <1>3, <1>4
<1> QED BY <1>5, <1>6, <1>7 DEF LineInv, PlanOK

\* The plans that append nothing.
LEMMA ShortPlans ==
  /\ \A x \in {"remove", "find", "drop_project", "insert_project", "write_project"} :
       /\ Chained(<<x>>) /\ <<x>> # << >> /\ Head(<<x>>) = x
       /\ \A y : Holds(<<x>>, y) <=> y = x
  /\ Chained(<<"remove", "drop_project">>) /\ <<"remove", "drop_project">> # << >>
  /\ Head(<<"remove", "drop_project">>) = "remove"
  /\ \A y : Holds(<<"remove", "drop_project">>, y) <=> y \in {"remove", "drop_project"}
<1>1. ASSUME NEW x \in {"remove", "find", "drop_project", "insert_project", "write_project"}
      PROVE  /\ Chained(<<x>>) /\ <<x>> # << >> /\ Head(<<x>>) = x
             /\ \A y : Holds(<<x>>, y) <=> y = x
  <2>1. Len(<<x>>) = 1 /\ <<x>>[1] = x /\ <<x>> # << >> /\ Head(<<x>>) = x
    OBVIOUS
  <2> DEFINE p == <<x>>
  <2> HIDE DEF p
  <2>2. Len(p) = 1 /\ p[1] = x
    BY <2>1 DEF p
  <2>3. Chained(p) /\ \A y : Holds(p, y) <=> y = x
    BY <2>2 DEF Chained, Holds
  <2> QED BY <2>1, <2>3 DEF p
<1>2. /\ Chained(<<"remove", "drop_project">>) /\ <<"remove", "drop_project">> # << >>
      /\ Head(<<"remove", "drop_project">>) = "remove"
      /\ \A y : Holds(<<"remove", "drop_project">>, y) <=> y \in {"remove", "drop_project"}
  <2> DEFINE p == <<"remove", "drop_project">>
  <2>1. Len(p) = 2 /\ p[1] = "remove" /\ p[2] = "drop_project" /\ p # << >> /\ Head(p) = "remove"
    OBVIOUS
  <2> HIDE DEF p
  <2>2. Chained(p)
    BY <2>1 DEF Chained
  <2>3. \A y : Holds(p, y) <=> y \in {"remove", "drop_project"}
    BY <2>1 DEF Holds
  <2> QED BY <2>1, <2>2, <2>3 DEF p
<1> QED BY <1>1, <1>2

\* A request keeps the registry in line.
LEMMA RequestInLine ==
  ASSUME CatalogInv, LineInv, NEW h \in Handlers, NEW specs \in SUBSET AgentSpecs,
         CatalogRequest(h, specs)
  PROVE  LineInv'
<1>1. UNCHANGED <<registry, project>> /\ Agent \in Entities
  BY DEF CatalogRequest, Entities
<1>2. ASSUME NEW e \in Entities, NEW s, BeginCreate(h, e, s) PROVE LineInv'
  <2> DEFINE T == Task("create", e, s, CreatePlan)
  <2>1. T.plan = CreatePlan /\ T.op = "create" /\ T.entity = e
    BY DEF Task
  <2>2. Begin(h, T)
    BY <1>2 DEF BeginCreate
  <2>3. /\ Chained(CreatePlan) /\ CreatePlan # << >> /\ Head(CreatePlan) \in {"insert", "snapshot"}
        /\ \A x \in {"find", "remove", "drop_project", "link"} : ~Holds(CreatePlan, x)
        /\ Holds(CreatePlan, "insert")
    BY PlansChained
  <2> HIDE DEF T
  <2>4. PlanOK(T)
    BY <2>1, <2>3 DEF PlanOK
  <2> QED BY <1>1, <2>1, <2>2, <2>3, <2>4, BeginInLine
<1>3. ASSUME NEW e \in Entities, NEW s, BeginUpdate(h, e, s) PROVE LineInv'
  <2>1. PICK n \in CurrentNumbers(e) :
          Begin(h, [Task("update", e, s, UpdatePlan) EXCEPT !.number = n + 1])
    BY <1>3 DEF BeginUpdate
  <2> DEFINE T == [Task("update", e, s, UpdatePlan) EXCEPT !.number = n + 1]
  <2>2. T.plan = UpdatePlan /\ T.op = "update" /\ T.entity = e /\ T.number = n + 1
    BY DEF Task
  <2>3. /\ Chained(UpdatePlan) /\ UpdatePlan # << >> /\ Head(UpdatePlan) \in {"insert", "snapshot"}
        /\ \A x \in {"find", "remove", "drop_project", "link"} : ~Holds(UpdatePlan, x)
    BY PlansChained
  <2> HIDE DEF T
  <2>4. PlanOK(T)
    BY <2>2, <2>3 DEF PlanOK
  <2> QED BY <1>1, <2>1, <2>2, <2>3, <2>4, BeginInLine DEF T
<1>4. ASSUME NEW e \in Entities, BeginDelete(h, e) PROVE LineInv'
  <2> DEFINE T == Task("delete", e, NoSpec, <<"remove">>)
  <2>1. T.plan = <<"remove">> /\ T.op = "delete" /\ T.entity = e
    BY DEF Task
  <2>2. Begin(h, T)
    BY <1>4 DEF BeginDelete
  <2> HIDE DEF T
  <2>3. PlanOK(T) /\ T.plan # << >> /\ Head(T.plan) = "remove" /\ ~Holds(T.plan, "append")
    BY <2>1, ShortPlans DEF PlanOK
  <2> QED BY <1>1, <2>1, <2>2, <2>3, BeginInLine
<1>5. ASSUME NEW s, BeginCreateProject(h, s) PROVE LineInv'
  <2> DEFINE T == Task("create_project", Agent, s, <<"insert_project">>)
  <2>1. T.plan = <<"insert_project">> /\ T.op = "create_project" /\ T.entity = Agent
    BY DEF Task
  <2>2. Begin(h, T)
    BY <1>5 DEF BeginCreateProject
  <2> HIDE DEF T
  <2>3. PlanOK(T) /\ T.plan # << >> /\ Head(T.plan) = "insert_project" /\ ~Holds(T.plan, "append")
    BY <2>1, ShortPlans DEF PlanOK
  <2> QED BY <1>1, <2>1, <2>2, <2>3, BeginInLine
<1>6. ASSUME NEW s, BeginEditProject(h, s) PROVE LineInv'
  <2> DEFINE T == [Task("edit_project", Agent, s, <<"write_project">>)
                     EXCEPT !.number = project.version + 1]
  <2>1. T.plan = <<"write_project">> /\ T.op = "edit_project" /\ T.entity = Agent
    BY DEF Task
  <2>2. Begin(h, T)
    BY <1>6 DEF BeginEditProject
  <2> HIDE DEF T
  <2>3. PlanOK(T) /\ T.plan # << >> /\ Head(T.plan) = "write_project" /\ ~Holds(T.plan, "append")
    BY <2>1, ShortPlans DEF PlanOK
  <2> QED BY <1>1, <2>1, <2>2, <2>3, BeginInLine
<1>7. CASE BeginPublish(h)
  <2> DEFINE T == Task("publish", Agent, project.spec, <<"find">>)
  <2>1. T.plan = <<"find">> /\ T.op = "publish" /\ T.entity = Agent /\ T.spec = project.spec
    BY DEF Task
  <2>2. Begin(h, T)
    BY <1>7 DEF BeginPublish
  <2> HIDE DEF T
  <2>3. PlanOK(T) /\ T.plan # << >> /\ Head(T.plan) = "find" /\ ~Holds(T.plan, "append")
        /\ ~Holds(T.plan, "link")
    BY <2>1, ShortPlans DEF PlanOK
  <2> QED BY <1>1, <2>1, <2>2, <2>3, BeginInLine
<1>8. CASE BeginDeleteProject(h)
  <2> DEFINE plan == IF project.linked THEN <<"remove", "drop_project">>
                                       ELSE <<"drop_project">>
  <2> DEFINE T == Task("delete_project", Agent, NoSpec, plan)
  <2>1. T.plan = plan /\ T.op = "delete_project" /\ T.entity = Agent
    BY DEF Task
  <2>2. Begin(h, T)
    BY <1>8 DEF BeginDeleteProject
  <2>3. /\ Chained(plan) /\ plan # << >> /\ Head(plan) \in {"remove", "drop_project"}
        /\ \A y \in {"append", "find", "link"} : ~Holds(plan, y)
        /\ Holds(plan, "remove") \/ ~project.linked
    BY ShortPlans
  <2> HIDE DEF T, plan
  <2>4. PlanOK(T)
    BY <2>1, <2>3 DEF PlanOK
  <2> QED BY <1>1, <2>1, <2>2, <2>3, <2>4, BeginInLine
<1> QED BY <1>2, <1>3, <1>4, <1>5, <1>6, <1>7, <1>8 DEF CatalogRequest

\* Every transaction of a task keeps the registry in line, and so does its end.
LEMMA TransactionInLine ==
  ASSUME CatalogInv, LineInv, NEW h \in Handlers, CatalogStep(h) \/ Cut(h)
  PROVE  LineInv'
<1>1. UNCHANGED <<overlapped, undisturbed>>
  BY DEF CatalogStep, Cut
<1> QED BY <1>1, QuietInLine, SnapshotInLine, CommitInLine, RemoveInLine, FindInLine
        DEF CatalogStep

LEMMA LineStutter == ASSUME LineInv, UNCHANGED catalogVars PROVE LineInv'
<1>1. UNCHANGED <<entities, versions, project, task, overlapped, undisturbed>>
  BY DEF catalogVars
<1>2. \A h \in Handlers : PlanOK(task'[h]) /\ Numbered(h)' /\ Locked(h)' /\ Alone(h)'
  BY <1>1 DEF LineInv, Numbered, Locked, Alone, Sole, Due, Rests, Numbers, CurrentVersions
<1>3. OverlapsAreKnown' /\ VersionsInLine'
  BY <1>1 DEF LineInv, OverlapsAreKnown, VersionsInLine, CurrentVersions, Rests, Touches
<1> QED BY <1>1, <1>2, <1>3 DEF LineInv, PlanOK

\* All handlers at rest, nobody overlaps.
LEMMA AtRestInLine ==
  ASSUME \A h \in Handlers : task[h] = Resting, undisturbed = {}, VersionsInLine,
         \A e \in Entities : versions[e] # {} => e \in entities
  PROVE  LineInv
<1>1. \A h \in Handlers : PlanOK(task[h]) /\ Rests(h) /\ task[h].plan = << >>
  BY NoPlan DEF Rests
<1>2. \A x : ~Holds(<< >>, x)
  BY DEF Holds
<1>3. \A h \in Handlers : Numbered(h) /\ Locked(h) /\ Alone(h)
  BY <1>1, <1>2 DEF Numbered, Locked, Alone, Due
<1>4. OverlapsAreKnown
  BY <1>1 DEF OverlapsAreKnown
<1> QED BY <1>1, <1>3, <1>4 DEF LineInv

\* What follows for readers of the registry.
LEMMA InLine == ASSUME CatalogInv, LineInv PROVE RegistryIsInLine
<1>1. ASSUME NEW h \in undisturbed, Due(h, "link")
      PROVE  {v.spec : v \in CurrentVersions(Agent)} = {project.spec} /\ Agent \in entities
  <2>1. h \in Handlers
    BY DEF CatalogInv, CatalogShape
  <2>2. /\ ~Rests(h) /\ task[h].plan # << >> /\ task[h].plan \in Seq(Steps)
        /\ Head(task[h].plan) = "link" /\ Holds(task[h].plan, "link")
    BY <1>1, <2>1, DueStep
  <2>3. PlanOK(task[h]) /\ Alone(h)
    BY <2>1 DEF LineInv
  <2>4. ~Holds(task[h].plan, "append")
    <3>1. task[h].plan[1] = "link" /\ 1 \in 1..Len(task[h].plan)
      BY <2>2
    <3>2. Len(task[h].plan) = 1
      BY <2>3, <3>1 DEF PlanOK, Chained
    <3> QED BY <3>1, <3>2 DEF Holds
  <2>5. {v.spec : v \in CurrentVersions(Agent)} = {project.spec}
    BY <2>2, <2>3, <2>4 DEF Alone, PlanOK
  <2>6. CurrentVersions(Agent) # {}
    BY <2>5
  <2>7. versions[Agent] # {} /\ Agent \in Entities
    BY <2>6 DEF CurrentVersions, Entities
  <2> QED BY <2>5, <2>7 DEF LineInv
<1>2. ASSUME NEW h \in undisturbed, Due(h, "drop_project"), project.linked
      PROVE  Agent \notin entities
  <2>1. h \in Handlers
    BY DEF CatalogInv, CatalogShape
  <2>2. /\ task[h].plan # << >> /\ task[h].plan \in Seq(Steps)
        /\ Head(task[h].plan) = "drop_project" /\ Holds(task[h].plan, "drop_project")
    BY <1>2, <2>1, DueStep
  <2>3. PlanOK(task[h]) /\ Alone(h)
    BY <2>1 DEF LineInv
  <2>4. ~Holds(task[h].plan, "remove")
    <3>1. task[h].plan[1] = "drop_project"
      BY <2>2
    <3> QED BY <2>3, <3>1 DEF PlanOK, Chained, Holds
  <2> QED BY <1>2, <2>2, <2>3, <2>4 DEF Alone, PlanOK
<1> QED BY <1>1, <1>2 DEF LineInv, RegistryIsInLine, AloneDelivers

\* The registry and the project alone: as long as no two tasks worked on an
\* entity at once, its current version is unique and has the highest number; and a
\* publication or a deletion that nothing overlapped does what it is for, whatever
\* earlier overlaps and failures left behind (create_registry_version,
\* publish_agent_project, delete_agent_project).
THEOREM CatalogStaysInLine == CatalogSpec => []RegistryIsInLine
<1>1. CatalogInit => CatalogInv /\ LineInv
  <2> SUFFICES ASSUME CatalogInit PROVE CatalogInv /\ LineInv
    OBVIOUS
  <2>1. /\ \A h \in Handlers : task[h] = Resting
        /\ undisturbed = {} /\ VersionsInLine /\ \A e \in Entities : versions[e] = {}
    BY DEF CatalogInit, VersionsInLine
  <2> QED BY <2>1, AtRestInLine, CatalogInitInv
<1>2. CatalogInv /\ LineInv /\ [CatalogNext]_catalogVars => (CatalogInv /\ LineInv)'
  <2> SUFFICES ASSUME CatalogInv, LineInv, [CatalogNext]_catalogVars
               PROVE  CatalogInv' /\ LineInv'
    OBVIOUS
  <2>1. CASE CatalogNext
    BY <2>1, RequestKeeps, StepKeeps, CutKeeps, RequestInLine, TransactionInLine
       DEF CatalogNext
  <2> QED BY <2>1, CatalogStutter, LineStutter
<1>3. CatalogInv /\ LineInv => RegistryIsInLine
  BY InLine
<1> QED BY <1>1, <1>2, <1>3, PTL DEF CatalogSpec

-----------------------------------------------------------------------------
(* The engine.                                                             *)

Executions == [at : Active \cup {"none", "done", "gone"}, stream : BOOLEAN,
               heard : BOOLEAN, spec : AgentSpecs \cup {NoSpec},
               allow : BOOLEAN, tries : 1..(MaxRounds + MaxIterations),
               status : Final \cup {"none"}, state : States]
Records == [memory : Statuses, database : Statuses, kept : BOOLEAN]

-----------------------------------------------------------------------------
(* The invariant: what holds of an execution R of x with its record r, the *)
(* status t its caller was told and what its gate has seen.                *)

\* What the gate has established so far.
GateHas(x, R, S) ==
  LET server == ServerOf[R.spec]
  IN  /\ x \notin Superadmins =>
           /\ R.at \in {"shares", "validate", "tools"} \cup Working => "undenied" \in S
           /\ R.at = "shares" /\ R.allow => "entitled" \in S
           /\ R.at \in {"validate", "tools"} \cup Working => "entitled" \in S
      /\ R.at \in {"tools"} \cup Working => server = NoServer \/ server \in S

\* Where the status is kept.
KeptHas(R, r, t) ==
  /\ t # "none" => R.at = "done"
  /\ r.kept =>
       /\ r.memory \in {"none", r.database}
       /\ R.at = "answer" => r.memory = R.status /\ r.database = R.status
       /\ t # "none" => r.database = t

\* What a workflow must have gathered by the time it has passed action i.
Gathered(s, i, st) ==
  i \in IF ActionsOf[s][i] = "input" THEN st.bound ELSE st.outputs
SoundState(st) ==
  st.basis \in Workflows =>
    \A i \in BeforeOutput(st.basis) : i < st.index => Gathered(st.basis, i, st)

Pos(R) ==
  IF R.state.index > Len(ActionsOf[R.spec]) THEN Len(ActionsOf[R.spec]) + 1
                                            ELSE R.state.index
AtTool(R) ==
  /\ R.spec \in Workflows
  /\ Pos(R) \in 1..Len(ActionsOf[R.spec])
  /\ ActionsOf[R.spec][Pos(R)] = "tool"

WorkOK(R) ==
  /\ SoundState(R.state)
  /\ R.at \in Working => R.state.basis \in {R.spec, NoSpec}
  /\ R.at = "calling" /\ R.spec \in Workflows => AtTool(R)
  /\ R.at = "judge" => AtTool(R) /\ Pos(R) \in R.state.outputs
  /\ /\ R.at = "answer" /\ R.state.status = "completed" /\ R.status = "succeeded"
     /\ R.spec \in Workflows /\ R.state.basis = R.spec
     => \A i \in BeforeOutput(R.spec) : Gathered(R.spec, i, R.state)

ExecutionOK(x, R, r, t, S) ==
  /\ R \in Executions /\ r \in Records /\ t \in Final \cup {"none"}
  /\ GateHas(x, R, S) /\ KeptHas(R, r, t) /\ WorkOK(R)

EngineInv ==
  /\ PoolInv
  /\ CatalogInv
  /\ run \in [Runs -> Executions] /\ record \in [Runs -> Records]
  /\ told \in [Runs -> Final \cup {"none"}]
  /\ seen \in [Runs -> SUBSET ({"undenied", "entitled"} \cup Servers)]
  /\ serving \in Runs \cup {NoRun}
  /\ held \in States /\ SoundState(held)
  /\ access \in Accesses /\ room \in Scenario
  /\ \A x \in Runs :
       /\ ExecutionOK(x, run[x], record[x], told[x], seen[x])
       /\ run[x].at \in Gate => Facts \subseteq seen[x]

-----------------------------------------------------------------------------
(* Workflow states.                                                        *)

\* Every action of a workflow, and the place behind the last, has an index.
LEMMA LengthOfPlan ==
  ASSUME NEW s \in Workflows
  PROVE  /\ Len(ActionsOf[s]) \in Nat
         /\ \A i \in 1..(Len(ActionsOf[s]) + 1) : i \in Indices
<1>1. Len(ActionsOf[s]) \in Nat
  BY EngineAssumption
<1>2. Len(ActionsOf[s]) \in LongestPlan
  BY DEF LongestPlan
<1> QED
  BY <1>1, <1>2 DEF Indices

\* Indices are numbers.
LEMMA IndicesArePositive == \A i \in Indices \cup {1} : i \in Nat /\ i >= 1
<1>1. \A n \in LongestPlan : n \in Nat
  BY EngineAssumption DEF LongestPlan
<1> QED
  BY <1>1 DEF Indices

\* The state a workflow begins in.
LEMMA NoStateIsSound == NoState \in States /\ SoundState(NoState)
  BY EngineAssumption, CatalogAssumption DEF NoState, States, SoundState

\* An execution that was not requested, or is over.
LEMMA NoExecutionIsSound == NoExecution \in Executions /\ WorkOK(NoExecution)
<1>1. 1 \in 1..(MaxRounds + MaxIterations)
  BY EngineAssumption
<1>2. NoExecution \in Executions
  BY <1>1, NoStateIsSound DEF NoExecution, Executions
<1>3. WorkOK(NoExecution)
  BY NoStateIsSound DEF NoExecution, WorkOK, Working
<1> QED
  BY <1>2, <1>3

\* Where a workflow stands.
LEMMA PositionFacts ==
  ASSUME NEW R \in Executions, R.spec \in Workflows
  PROVE  /\ Pos(R) \in 1..(Len(ActionsOf[R.spec]) + 1)
         /\ Pos(R) <= Len(ActionsOf[R.spec]) => R.state.index = Pos(R)
         /\ Pos(R) <= R.state.index
         /\ R.state.index \in Nat
<1>1. R.state.index \in Nat /\ R.state.index >= 1
  BY IndicesArePositive DEF Executions, States
<1>2. Len(ActionsOf[R.spec]) \in Nat
  BY LengthOfPlan
<1> QED
  BY <1>1, <1>2 DEF Pos

-----------------------------------------------------------------------------
(* Steps of one execution.                                                 *)

\* What a step of x that is not an answer leads to.
Moved(x) ==
  /\ run' = [run EXCEPT ![x] = run'[x]]
  /\ record' = [record EXCEPT ![x] = record'[x]]
  /\ ExecutionOK(x, run'[x], record'[x], told[x], seen[x])
  /\ room' \in Scenario

\* Saving a status leaves the record consistent.
LEMMA SaveFacts ==
  ASSUME EngineInv, NEW x \in Runs, NEW status \in Statuses, Save(x, status)
  PROVE  /\ record' = [record EXCEPT ![x] = record'[x]]
         /\ record'[x] \in Records
         /\ record'[x].memory = status
         /\ record'[x].kept => record'[x].database = status
         /\ room' \in Scenario
<1>0. record \in [Runs -> Records] /\ record[x] \in Records /\ room \in Scenario
  BY DEF EngineInv
<1>1. CASE /\ record' = [record EXCEPT ![x] = [memory |-> status, database |-> status,
                                              kept |-> TRUE]]
           /\ UNCHANGED room
  BY <1>0, <1>1 DEF Records
<1>2. CASE /\ room.losses > 0
           /\ room' = [room EXCEPT !.losses = @ - 1]
           /\ record' = [record EXCEPT ![x].memory = status, ![x].kept = FALSE]
  <2>1. room' \in Scenario
    BY <1>0, <1>2 DEF Scenario
  <2>2. record'[x] = [record[x] EXCEPT !.memory = status, !.kept = FALSE]
    BY <1>0, <1>2
  <2> QED
    BY <2>1, <2>2, <1>0, <1>2 DEF Records
<1> QED
  BY <1>1, <1>2 DEF Save

\* An execution that is going on has told its caller nothing.
LEMMA ActiveUntold ==
  ASSUME EngineInv, NEW x \in Runs, run[x].at # "done"
  PROVE  /\ told[x] = "none" /\ run[x] \in Executions /\ record[x] \in Records
         /\ record[x].kept => record[x].memory \in {"none", record[x].database}
         /\ WorkOK(run[x]) /\ GateHas(x, run[x], seen[x])
  BY DEF EngineInv, ExecutionOK, KeptHas

\* An execution that goes on.
LEMMA GoFacts ==
  ASSUME EngineInv, NEW x \in Runs, run[x].at # "done",
         NEW R \in Executions, R.at # "answer", Go(x, R),
         GateHas(x, R, seen[x]), WorkOK(R)
  PROVE  Moved(x)
<1>1. run' = [run EXCEPT ![x] = R] /\ run'[x] = R /\ UNCHANGED <<record, room>>
  BY DEF Go, EngineInv
<1>2. record' = [record EXCEPT ![x] = record'[x]] /\ room' \in Scenario
  BY <1>1 DEF EngineInv
<1>3. ExecutionOK(x, R, record[x], told[x], seen[x])
  BY ActiveUntold DEF ExecutionOK, KeptHas
<1> QED
  BY <1>1, <1>2, <1>3 DEF Moved

\* An execution that goes on, and saves a status.
LEMMA SavingFacts ==
  ASSUME EngineInv, NEW x \in Runs, run[x].at # "done",
         NEW R \in Executions, R.at # "answer", run' = [run EXCEPT ![x] = R],
         NEW status \in Statuses, Save(x, status),
         GateHas(x, R, seen[x]), WorkOK(R)
  PROVE  Moved(x)
<1>1. run' = [run EXCEPT ![x] = run'[x]] /\ run'[x] = R
  BY DEF EngineInv
<1>2. ExecutionOK(x, R, record'[x], told[x], seen[x])
  BY ActiveUntold, SaveFacts DEF ExecutionOK, KeptHas
<1> QED
  BY <1>1, <1>2, SaveFacts DEF Moved

\* An execution that ends.
LEMMA EndFacts ==
  ASSUME EngineInv, NEW x \in Runs, run[x].at # "done",
         NEW status \in Final, NEW st \in States, End(x, status, st), SoundState(st),
         status = "succeeded" /\ run[x].spec \in Workflows /\ st.basis = run[x].spec
           /\ st.status = "completed"
           => \A i \in BeforeOutput(run[x].spec) : Gathered(run[x].spec, i, st)
  PROVE  Moved(x)
<1> DEFINE R == [run[x] EXCEPT !.at = "answer", !.status = status, !.state = st]
<1>0. run \in [Runs -> Executions] /\ run[x] \in Executions
  BY DEF EngineInv
<1>1. run' = [run EXCEPT ![x] = R] /\ Save(x, status)
  BY <1>0 DEF End
<1>2. R \in Executions /\ R.at = "answer" /\ R.status = status /\ R.state = st
      /\ R.spec = run[x].spec
  BY <1>0 DEF Executions, Active
<1>3. GateHas(x, R, seen[x])
  BY <1>2 DEF GateHas, Working
<1>4. WorkOK(R)
  BY <1>2 DEF WorkOK, Working
<1> HIDE DEF R
<1>5. run' = [run EXCEPT ![x] = run'[x]] /\ run'[x] = R
  BY <1>0, <1>1
<1>6. status \in Statuses
  BY DEF Statuses
<1>7. ExecutionOK(x, R, record'[x], told[x], seen[x])
  BY <1>1, <1>2, <1>3, <1>4, <1>6, ActiveUntold, SaveFacts DEF ExecutionOK, KeptHas
<1> QED
  BY <1>1, <1>5, <1>6, <1>7, SaveFacts DEF Moved

\* An execution that is blocked or fails.
LEMMA StopFacts ==
  ASSUME EngineInv, NEW x \in Runs, run[x].at # "done", Block(x) \/ Fail(x)
  PROVE  Moved(x)
<1>1. PICK status \in {"blocked", "failed"} : End(x, status, NoState)
  BY DEF Block, Fail
<1> QED
  BY <1>1, NoStateIsSound, EndFacts DEF Final

-----------------------------------------------------------------------------
(* The gate.                                                               *)

\* Registry rows of the agent hold specifications of agents.
LEMMA SpecsOfAgent ==
  ASSUME CatalogInv
  PROVE  CurrentSpecs(Agent) \subseteq AgentSpecs \cup {NoSpec}
<1>1. Agent \in Entities /\ SpecsOf(Agent) = AgentSpecs
  BY DEF Entities, SpecsOf
<1>2. \A v \in versions[Agent] : v.spec \in AgentSpecs
  BY <1>1 DEF CatalogInv
<1> QED
  BY <1>2 DEF CurrentSpecs, CurrentVersions

\* What holds while an execution is in the gate.
LEMMA InTheGate ==
  ASSUME EngineInv, NEW x \in Runs, run[x].at \in Gate
  PROVE  /\ run[x].at # "done" /\ run[x] \in Executions /\ run[x].at \in Active
         /\ Facts \subseteq seen[x] /\ SoundState(run[x].state)
         /\ run[x].state \in States /\ GateHas(x, run[x], seen[x])
<1>1. /\ run[x] \in Executions /\ Facts \subseteq seen[x]
      /\ WorkOK(run[x]) /\ GateHas(x, run[x], seen[x])
  BY DEF EngineInv, ExecutionOK
<1> QED
  BY <1>1 DEF Gate, Active, Executions, WorkOK

\* The agent is looked up.
LEMMA ResolveAgentStep ==
  ASSUME EngineInv, NEW x \in Runs, ResolveAgent(x)
  PROVE  Moved(x)
<1>1. run[x].at \in Gate /\ run[x].at = "resolve"
  BY DEF ResolveAgent, At, Gate
<1>2. CASE Fail(x)
  BY <1>1, <1>2, InTheGate, StopFacts
<1>3. ASSUME NEW s \in CurrentSpecs(Agent),
             Go(x, [run[x] EXCEPT !.spec = s, !.at = IF x \in Superadmins
                                                     THEN "validate" ELSE "policy"])
      PROVE  Moved(x)
  <2> DEFINE R == [run[x] EXCEPT !.spec = s, !.at = IF x \in Superadmins
                                                    THEN "validate" ELSE "policy"]
  <2>1. s \in AgentSpecs \cup {NoSpec}
    BY SpecsOfAgent DEF EngineInv
  <2>2. R \in Executions /\ R.state = run[x].state
        /\ R.at = IF x \in Superadmins THEN "validate" ELSE "policy"
    BY <1>1, <2>1, InTheGate DEF Executions, Active, Gate
  <2>3. GateHas(x, R, seen[x])
    BY <2>2 DEF GateHas, Working
  <2>4. WorkOK(R)
    BY <1>1, <2>2, InTheGate DEF WorkOK, Working
  <2>5. R.at # "answer" /\ Go(x, R)
    BY <1>3, <2>2
  <2> HIDE DEF R
  <2> QED
    BY <1>1, <2>2, <2>3, <2>4, <2>5, InTheGate, GoFacts
<1> QED
  BY <1>2, <1>3 DEF ResolveAgent

\* Rules are read: nothing denies the agent to the caller.
LEMMA ReadPolicyStep ==
  ASSUME EngineInv, NEW x \in Runs, ReadPolicy(x)
  PROVE  Moved(x)
<1> DEFINE allowed == "allow" \in access.rules
<1> DEFINE R == [run[x] EXCEPT !.at = "shares", !.allow = allowed]
<1>1. run[x].at \in Gate
  BY DEF ReadPolicy, At, Gate
<1>2. CASE Block(x)
  BY <1>1, <1>2, InTheGate, StopFacts
<1>3. CASE "deny" \notin access.rules /\ Go(x, R)
  <2>1. R \in Executions /\ R.state = run[x].state /\ R.at = "shares" /\ R.allow = allowed
    <3>1. allowed \in BOOLEAN
      OBVIOUS
    <3> HIDE DEF allowed
    <3> QED
      BY <1>1, <3>1, InTheGate DEF Executions, Active, Gate
  <2>2. "undenied" \in seen[x] /\ (allowed => "entitled" \in seen[x])
    BY <1>1, <1>3, InTheGate DEF Facts
  <2>3. GateHas(x, R, seen[x]) /\ WorkOK(R)
    BY <1>1, <2>1, <2>2, InTheGate DEF GateHas, WorkOK, Working
  <2> HIDE DEF R
  <2> QED
    BY <1>1, <1>3, <2>1, <2>3, InTheGate, GoFacts
<1> QED
  BY <1>2, <1>3 DEF ReadPolicy

\* Shares are read: a rule or a share entitles the caller.
LEMMA ReadSharesStep ==
  ASSUME EngineInv, NEW x \in Runs, ReadShares(x)
  PROVE  Moved(x)
<1> DEFINE R == [run[x] EXCEPT !.at = "validate"]
<1>1. run[x].at \in Gate /\ run[x].at = "shares"
  BY DEF ReadShares, At, Gate
<1>2. CASE Block(x)
  BY <1>1, <1>2, InTheGate, StopFacts
<1>3. CASE (run[x].allow \/ (access.shared /\ Agent \in entities)) /\ Go(x, R)
  <2>1. R \in Executions /\ R.state = run[x].state /\ R.at = "validate"
    BY <1>1, InTheGate DEF Executions, Active, Gate
  <2>2. x \notin Superadmins => {"undenied", "entitled"} \subseteq seen[x]
    BY <1>1, <1>3, InTheGate DEF Facts, GateHas
  <2>3. GateHas(x, R, seen[x]) /\ WorkOK(R)
    BY <1>1, <2>1, <2>2, InTheGate DEF GateHas, WorkOK, Working
  <2> HIDE DEF R
  <2> QED
    BY <1>1, <1>3, <2>1, <2>3, InTheGate, GoFacts
<1> QED
  BY <1>2, <1>3 DEF ReadShares

\* A workflow goes on from a sound state.
LEMMA ResumedIsSound ==
  ASSUME NEW x, run[x] \in Executions, SoundState(run[x].state)
  PROVE  /\ Resumed(x) \in States /\ SoundState(Resumed(x))
         /\ Resumed(x).basis \in {run[x].spec, NoSpec}
<1>1. run[x].state \in States /\ run[x].spec \in AgentSpecs \cup {NoSpec}
  BY DEF Executions
<1>2. CASE run[x].state.status = "completed"
  <2> DEFINE T == [NoState EXCEPT !.basis = run[x].spec, !.status = "running"]
  <2>1. Resumed(x) = T
    BY <1>2 DEF Resumed
  <2>2. T \in States /\ T.basis = run[x].spec /\ T.index = 1
    BY <1>1, NoStateIsSound DEF NoState, States
  <2>3. SoundState(T)
    <3>1. \A i \in BeforeOutput(T.basis) : ~(i < 1)
      BY DEF BeforeOutput
    <3> QED
      BY <2>2, <3>1 DEF SoundState
  <2> QED
    BY <2>1, <2>2, <2>3
<1>3. CASE run[x].state.status # "completed"
  <2> DEFINE T == [run[x].state EXCEPT !.basis = IF @ = run[x].spec THEN @ ELSE NoSpec]
  <2>1. Resumed(x) = T
    BY <1>3 DEF Resumed
  <2>2. /\ T \in States /\ T.basis \in {run[x].spec, NoSpec}
        /\ T.basis \in Workflows => T = run[x].state
    BY <1>1, EngineAssumption, CatalogAssumption DEF States
  <2>3. SoundState(T)
    BY <2>2 DEF SoundState
  <2> QED
    BY <2>1, <2>2, <2>3
<1> QED
  BY <1>2, <1>3

\* The server is enabled when its tools are resolved.
LEMMA ResolveToolsStep ==
  ASSUME EngineInv, NEW x \in Runs, ResolveTools(x)
  PROVE  Moved(x)
<1> DEFINE server == ServerOf[run[x].spec]
<1>1. run[x].at \in Gate /\ run[x].at \in {"validate", "tools"}
  BY DEF ResolveTools, Gate
<1>2. /\ x \notin Superadmins => {"undenied", "entitled"} \subseteq seen[x]
      /\ run[x].spec \in AgentSpecs \cup {NoSpec}
      /\ server \in Servers \cup {NoServer}
  BY <1>1, InTheGate, EngineAssumption DEF GateHas, Executions
<1>3. server = NoServer \/ Enabled(server) => server = NoServer \/ server \in seen[x]
  BY <1>1, <1>2, InTheGate DEF Facts
<1>4. CASE Block(x)
  BY <1>1, <1>4, InTheGate, StopFacts
<1>5. CASE (server = NoServer \/ Enabled(server)) /\ Go(x, [run[x] EXCEPT !.at = "tools"])
  <2> DEFINE R == [run[x] EXCEPT !.at = "tools"]
  <2>1. R \in Executions /\ R.state = run[x].state /\ R.at = "tools" /\ R.spec = run[x].spec
    BY <1>1, InTheGate DEF Executions, Active, Gate
  <2>2. GateHas(x, R, seen[x]) /\ WorkOK(R)
    BY <1>1, <1>2, <1>3, <1>5, <2>1, InTheGate DEF GateHas, WorkOK, Working
  <2> HIDE DEF R
  <2>3. Go(x, R)
    BY <1>5 DEF R
  <2> QED
    BY <1>1, <2>1, <2>2, <2>3, InTheGate, GoFacts
<1>6. CASE /\ server = NoServer \/ Enabled(server)
           /\ run' = [run EXCEPT ![x].at = "work", ![x].state = Resumed(x)]
           /\ Save(x, "running")
  <2> DEFINE R == [run[x] EXCEPT !.at = "work", !.state = Resumed(x)]
  <2>1. Resumed(x) \in States /\ SoundState(Resumed(x))
        /\ Resumed(x).basis \in {run[x].spec, NoSpec}
    BY <1>1, InTheGate, ResumedIsSound
  <2>2. /\ R \in Executions /\ R.state = Resumed(x) /\ R.at = "work"
        /\ R.spec = run[x].spec
    BY <1>1, <2>1, InTheGate DEF Executions, Active, Working
  <2>3. GateHas(x, R, seen[x]) /\ WorkOK(R)
    BY <1>2, <1>3, <1>6, <2>1, <2>2 DEF GateHas, WorkOK, Working
  <2>4. run' = [run EXCEPT ![x] = R] /\ Save(x, "running") /\ "running" \in Statuses
    BY <1>6 DEF EngineInv, Statuses
  <2> HIDE DEF R
  <2> QED
    BY <1>1, <2>2, <2>3, <2>4, InTheGate, SavingFacts
<1> QED
  BY <1>4, <1>5, <1>6 DEF ResolveTools

-----------------------------------------------------------------------------
(* Workflows and rounds.                                                   *)

\* What holds while an execution works.
LEMMA InWork ==
  ASSUME EngineInv, NEW x \in Runs, run[x].at \in Working
  PROVE  /\ run[x].at # "done" /\ run[x] \in Executions /\ run[x].state \in States
         /\ run[x].at \in Active
         /\ SoundState(run[x].state) /\ GateHas(x, run[x], seen[x])
         /\ run[x].state.basis \in {run[x].spec, NoSpec}
         /\ WorkOK(run[x])
  BY DEF EngineInv, ExecutionOK, WorkOK, Working, Executions, Active

\* An execution that works on.
LEMMA WorkOn ==
  ASSUME EngineInv, NEW x \in Runs, run[x].at \in Working,
         NEW R \in Executions, R.at \in Working, R.spec = run[x].spec,
         Go(x, R), WorkOK(R)
  PROVE  Moved(x)
<1>1. R.at # "answer" /\ R.at \notin Gate
  BY DEF Working, Gate
<1>2. GateHas(x, R, seen[x])
  BY <1>1, InWork DEF GateHas, Gate
<1> QED
  BY <1>1, <1>2, InWork, GoFacts

\* No specification is none.
LEMMA NoSpecIsNoWorkflow == NoSpec \notin Workflows
  BY EngineAssumption, CatalogAssumption

\* A workflow passes an action when it has what the action is for.
LEMMA PassAction ==
  ASSUME NEW s \in Workflows, NEW st, NEW i \in 1..Len(ActionsOf[s]),
         st.basis \in {s, NoSpec}, SoundState(st), st.index = i,
         NEW T, T.basis = st.basis, T.index = i + 1,
         st.bound \subseteq T.bound, st.outputs \subseteq T.outputs, Gathered(s, i, T)
  PROVE  SoundState(T)
<1> SUFFICES ASSUME T.basis \in Workflows,
                    NEW j \in BeforeOutput(T.basis), j < T.index
             PROVE  Gathered(T.basis, j, T)
  BY DEF SoundState
<1>1. T.basis = s /\ st.basis = s
  BY NoSpecIsNoWorkflow
<1>2. j \in Nat /\ i \in Nat /\ (j < i \/ j = i)
  BY LengthOfPlan, <1>1 DEF BeforeOutput
<1>3. CASE j = i
  BY <1>1, <1>3
<1>4. CASE j < i
  <2>1. Gathered(s, j, st)
    BY <1>1, <1>4 DEF SoundState
  <2> QED
    BY <1>1, <2>1 DEF Gathered
<1> QED
  BY <1>2, <1>3, <1>4

\* Where a workflow is that has come to an action.
LEMMA AtActionFacts ==
  ASSUME EngineInv, NEW x \in Runs, NEW kind \in Kinds, AtAction(x, kind)
  PROVE  /\ run[x].at = "work" /\ run[x].at \in Working /\ run[x].spec \in Workflows
         /\ Position(x) = Pos(run[x]) /\ Plan(x) = ActionsOf[run[x].spec]
         /\ Position(x) \in 1..Len(ActionsOf[run[x].spec])
         /\ ActionsOf[run[x].spec][Position(x)] = kind
         /\ run[x].state.index = Position(x)
         /\ Position(x) \in Indices /\ Position(x) + 1 \in Indices
         /\ Position(x) \in Nat
<1>1. run[x].at = "work" /\ run[x].at \in Working /\ run[x].spec \in Workflows
  BY DEF AtAction, At, Working, IsWorkflow
<1>2. Position(x) = Pos(run[x]) /\ Plan(x) = ActionsOf[run[x].spec]
  BY DEF Position, Pos, Plan
<1>3. Position(x) <= Len(ActionsOf[run[x].spec]) /\ ActionsOf[run[x].spec][Position(x)] = kind
  BY <1>2 DEF AtAction
<1>4. Len(ActionsOf[run[x].spec]) \in Nat
  BY <1>1, LengthOfPlan
<1>5. /\ Pos(run[x]) \in 1..(Len(ActionsOf[run[x].spec]) + 1)
      /\ Pos(run[x]) <= Len(ActionsOf[run[x].spec]) => run[x].state.index = Pos(run[x])
  BY <1>1, InWork, PositionFacts
<1>6. Position(x) \in 1..Len(ActionsOf[run[x].spec]) /\ run[x].state.index = Position(x)
  BY <1>2, <1>3, <1>4, <1>5
<1>7. Position(x) \in Indices /\ Position(x) + 1 \in Indices
  BY <1>1, <1>4, <1>6, LengthOfPlan
<1> QED
  BY <1>1, <1>2, <1>3, <1>4, <1>6, <1>7

\* A question is asked, or its variables are there.
LEMMA InputStep ==
  ASSUME EngineInv, NEW x \in Runs, Input(x)
  PROVE  Moved(x)
<1> DEFINE i == Position(x)
           st == run[x].state
           R == [run[x] EXCEPT !.state.bound = @ \cup {i}, !.state.index = i + 1]
           W == [st EXCEPT !.index = i, !.status = "awaiting"]
<1>1. /\ AtAction(x, "input")
      /\ \/ Go(x, R)
         \/ End(x, "succeeded", W)
         \/ Fail(x)
  BY DEF Input
<1>2. /\ run[x].at = "work" /\ run[x].at \in Working /\ run[x].spec \in Workflows
      /\ i = Pos(run[x])
      /\ i \in 1..Len(ActionsOf[run[x].spec])
      /\ ActionsOf[run[x].spec][i] = "input"
      /\ st.index = i /\ i \in Indices /\ i + 1 \in Indices
  BY <1>1, AtActionFacts DEF Kinds
<1>3. /\ run[x].at # "done" /\ run[x] \in Executions /\ st \in States
      /\ SoundState(st) /\ st.basis \in {run[x].spec, NoSpec}
  BY <1>2, InWork
<1>4. CASE Fail(x)
  BY <1>3, <1>4, StopFacts
<1>5. CASE End(x, "succeeded", W)
  <2>1. W \in States /\ W.status = "awaiting" /\ SoundState(W)
    <3> HIDE DEF i
    <3>1. W = [st EXCEPT !.status = "awaiting"]
      BY <1>2, <1>3 DEF States
    <3> QED
      BY <1>3, <3>1 DEF States, SoundState, Gathered
  <2> HIDE DEF W
  <2> QED
    BY <1>3, <1>5, <2>1, EndFacts DEF Final
<1>6. CASE Go(x, R)
  <2> HIDE DEF i
  <2>1. R \in Executions /\ R.at = "work" /\ R.spec = run[x].spec
        /\ R.state = [st EXCEPT !.bound = @ \cup {i}, !.index = i + 1]
    BY <1>2, <1>3 DEF Executions, States
  <2> HIDE DEF R
  <2>2. SoundState(R.state) /\ R.state.basis = st.basis
    <3> HIDE DEF st
    <3>1. /\ R.state.basis = st.basis /\ R.state.index = i + 1
          /\ st.bound \subseteq R.state.bound /\ st.outputs \subseteq R.state.outputs
          /\ i \in R.state.bound
      BY <1>3, <2>1 DEF States
    <3>2. Gathered(run[x].spec, i, R.state)
      BY <1>2, <3>1 DEF Gathered
    <3> QED
      BY <1>2, <1>3, <3>1, <3>2, PassAction
  <2>3. WorkOK(R)
    BY <1>3, <2>1, <2>2 DEF WorkOK
  <2> QED
    BY <1>2, <1>6, <2>1, <2>3, WorkOn DEF Working
<1> QED
  BY <1>1, <1>4, <1>5, <1>6

\* A tool is called, or refuses its arguments.
LEMMA ToolStep ==
  ASSUME EngineInv, NEW x \in Runs, Tool(x)
  PROVE  Moved(x)
<1> DEFINE i == Position(x)
           J == [run[x] EXCEPT !.at = "judge", !.state.outputs = @ \cup {i}]
           C == [run[x] EXCEPT !.at = "calling"]
<1>1. AtAction(x, "tool") /\ (Go(x, J) \/ Go(x, C) \/ Fail(x))
  BY DEF Tool
<1>2. /\ run[x].at \in Working /\ run[x].spec \in Workflows
      /\ i = Pos(run[x])
      /\ i \in 1..Len(ActionsOf[run[x].spec])
      /\ ActionsOf[run[x].spec][i] = "tool" /\ i \in Indices
  BY <1>1, AtActionFacts DEF Kinds
<1>3. /\ run[x].at # "done" /\ run[x] \in Executions /\ run[x].state \in States
      /\ SoundState(run[x].state) /\ run[x].state.basis \in {run[x].spec, NoSpec}
  BY <1>2, InWork
<1>4. CASE Fail(x)
  BY <1>3, <1>4, StopFacts
<1>5. CASE Go(x, C)
  <2>1. C \in Executions /\ C.at = "calling" /\ C.spec = run[x].spec /\ C.state = run[x].state
    BY <1>3 DEF Executions, Active, Working
  <2>2. WorkOK(C)
    BY <1>2, <1>3, <2>1 DEF WorkOK, AtTool, Pos
  <2> HIDE DEF C
  <2> QED
    BY <1>2, <1>5, <2>1, <2>2, WorkOn DEF Working
<1>6. CASE Go(x, J)
  <2> HIDE DEF i
  <2>1. /\ J \in Executions /\ J.at = "judge" /\ J.spec = run[x].spec
        /\ J.state = [run[x].state EXCEPT !.outputs = @ \cup {i}]
    BY <1>2, <1>3 DEF Executions, States, Active, Working
  <2> HIDE DEF J
  <2>2. /\ J.state.basis = run[x].state.basis /\ J.state.index = run[x].state.index
        /\ J.state.bound = run[x].state.bound
        /\ J.state.outputs = run[x].state.outputs \cup {i}
    BY <1>3, <2>1 DEF States
  <2>3. SoundState(J.state)
    BY <1>3, <2>2 DEF SoundState, Gathered
  <2>4. AtTool(J) /\ Pos(J) = i
    BY <1>2, <2>1, <2>2 DEF AtTool, Pos
  <2>5. WorkOK(J)
    BY <1>3, <2>1, <2>2, <2>3, <2>4 DEF WorkOK
  <2> QED
    BY <1>2, <1>6, <2>1, <2>5, WorkOn DEF Working
<1> QED
  BY <1>1, <1>4, <1>5, <1>6

\* The result of a tool is there when its action is passed.
LEMMA JudgeStep ==
  ASSUME EngineInv, NEW x \in Runs, Judge(x)
  PROVE  Moved(x)
<1> DEFINE i == Position(x)
           N == [run[x] EXCEPT !.at = "work", !.tries = 1, !.state.index = i + 1]
           A == [run[x] EXCEPT !.at = "work", !.tries = @ + 1]
<1>1. /\ run[x].at = "judge" /\ run[x].at \in Working
      /\ Go(x, N) \/ (run[x].tries < MaxIterations /\ Go(x, A)) \/ Fail(x)
  BY DEF Judge, At, Working
<1>2. /\ run[x].at # "done" /\ run[x] \in Executions /\ run[x].state \in States
      /\ SoundState(run[x].state) /\ run[x].state.basis \in {run[x].spec, NoSpec}
      /\ AtTool(run[x]) /\ Pos(run[x]) \in run[x].state.outputs
  BY <1>1, InWork DEF WorkOK
<1>3. i = Pos(run[x])
  BY DEF Position, Pos, Plan
<1>4. /\ run[x].spec \in Workflows /\ Len(ActionsOf[run[x].spec]) \in Nat
      /\ i \in 1..Len(ActionsOf[run[x].spec]) /\ ActionsOf[run[x].spec][i] = "tool"
      /\ i \in run[x].state.outputs
  BY <1>2, <1>3, LengthOfPlan DEF AtTool
<1>5. run[x].state.index = i /\ i + 1 \in Indices
  BY <1>2, <1>3, <1>4, PositionFacts, LengthOfPlan
<1>6. CASE Fail(x)
  BY <1>2, <1>6, StopFacts
<1>7. CASE run[x].tries < MaxIterations /\ Go(x, A)
  <2>1. run[x].tries + 1 \in 1..(MaxRounds + MaxIterations)
    BY <1>2, <1>7, EngineAssumption DEF Executions
  <2>2. A \in Executions /\ A.at = "work" /\ A.spec = run[x].spec /\ A.state = run[x].state
    BY <1>2, <2>1 DEF Executions, Active, Working
  <2>3. WorkOK(A)
    BY <1>2, <2>2 DEF WorkOK
  <2> HIDE DEF A
  <2> QED
    BY <1>1, <1>7, <2>2, <2>3, WorkOn DEF Working
<1>8. CASE Go(x, N)
  <2> HIDE DEF i
  <2>0. 1 \in 1..(MaxRounds + MaxIterations)
    BY EngineAssumption
  <2>1. /\ N \in Executions /\ N.at = "work" /\ N.spec = run[x].spec
        /\ N.state = [run[x].state EXCEPT !.index = i + 1]
    BY <1>2, <1>5, <2>0 DEF Executions, States, Active, Working
  <2> HIDE DEF N
  <2>2. /\ N.state.basis = run[x].state.basis /\ N.state.index = i + 1
        /\ N.state.bound = run[x].state.bound /\ N.state.outputs = run[x].state.outputs
    BY <1>2, <2>1 DEF States
  <2>3. Gathered(run[x].spec, i, N.state)
    BY <1>4, <2>2 DEF Gathered
  <2>4. SoundState(N.state)
    BY <1>2, <1>4, <1>5, <2>2, <2>3, PassAction
  <2>5. WorkOK(N)
    BY <1>2, <2>1, <2>2, <2>4 DEF WorkOK
  <2> QED
    BY <1>1, <1>8, <2>1, <2>5, WorkOn DEF Working
<1> QED
  BY <1>1, <1>6, <1>7, <1>8

\* A workflow is completed when it has passed all actions before its output.
LEMMA OutputStep ==
  ASSUME EngineInv, NEW x \in Runs, Output(x)
  PROVE  Moved(x)
<1> DEFINE st == run[x].state
           s == run[x].spec
           n == Len(ActionsOf[s])
           W == [st EXCEPT !.index = n, !.status = "completed"]
<1>1. Plan(x) = ActionsOf[s] /\ Position(x) = Pos(run[x])
  BY DEF Plan, Position, Pos
<1>2. run[x].at \in Working /\ s \in Workflows /\ n \in Nat
  BY LengthOfPlan DEF Output, AtAction, At, IsWorkflow, Working
<1>3. /\ run[x].at # "done" /\ run[x] \in Executions /\ st \in States
      /\ SoundState(st) /\ st.basis \in {s, NoSpec}
  BY <1>2, InWork
<1>4. /\ Pos(run[x]) \in 1..(n + 1)
      /\ Pos(run[x]) <= n => st.index = Pos(run[x])
      /\ Pos(run[x]) <= st.index /\ st.index \in Nat
  BY <1>2, <1>3, PositionFacts
<1>5. AtAction(x, "output") \/ (Plan(x) # <<>> /\ Position(x) > Len(Plan(x)))
  BY DEF Output
<1>6. n # 0 /\ \A j \in BeforeOutput(s) : j < st.index
  <2> HIDE DEF st, s, n
  <2>1. CASE AtAction(x, "output")
    <3>1. Pos(run[x]) <= n /\ ActionsOf[s][Pos(run[x])] = "output"
      BY <1>1, <2>1 DEF AtAction, n
    <3>2. n # 0 /\ st.index = Pos(run[x])
      BY <1>2, <1>4, <3>1
    <3>3. ASSUME NEW j \in BeforeOutput(s) PROVE j < Pos(run[x])
      <4>1. j \in 1..n /\ Pos(run[x]) \notin 1..j
        BY <3>1 DEF BeforeOutput, n
      <4> QED
        BY <1>2, <1>4, <4>1
    <3> QED
      BY <3>2, <3>3
  <2>2. CASE Plan(x) # <<>> /\ Position(x) > Len(Plan(x))
    <3>1. ActionsOf[s] \in Seq(Kinds)
      BY <1>2, EngineAssumption
    <3>2. n # 0
      BY <1>1, <2>2, <3>1 DEF n
    <3>3. Pos(run[x]) > n
      BY <1>1, <2>2 DEF n
    <3>4. \A j \in BeforeOutput(s) : j \in 1..n
      BY DEF BeforeOutput, n
    <3> QED
      BY <1>2, <1>4, <3>2, <3>3, <3>4
  <2> QED
    BY <2>1, <2>2, <1>5 DEF Output
<1>7. CASE Fail(x)
  BY <1>3, <1>7, StopFacts
<1>8. CASE End(x, "succeeded", W)
  <2>1. n \in Indices
    BY <1>2, <1>6, LengthOfPlan
  <2> HIDE DEF n
  <2>2. /\ W \in States /\ W.index = n /\ W.basis = st.basis /\ W.bound = st.bound
        /\ W.outputs = st.outputs
    BY <1>3, <2>1 DEF States
  <2> HIDE DEF W
  <2>3. st.basis \in Workflows => st.basis = s
    BY <1>3, NoSpecIsNoWorkflow
  <2>4. st.basis = s => \A j \in BeforeOutput(s) : Gathered(s, j, W)
    BY <1>2, <1>3, <1>6, <2>2 DEF SoundState, Gathered
  <2>5. SoundState(W)
    BY <2>2, <2>3, <2>4 DEF SoundState
  <2> QED
    BY <1>3, <1>8, <2>2, <2>4, <2>5, EndFacts DEF Final
<1> QED
  BY <1>1, <1>7, <1>8 DEF Output

\* A workflow without actions fails.
LEMMA NoActionsStep == ASSUME EngineInv, NEW x \in Runs, NoActions(x) PROVE Moved(x)
  BY StopFacts DEF NoActions, At

\* Rounds are counted.
LEMMA RoundStep ==
  ASSUME EngineInv, NEW x \in Runs, Round(x)
  PROVE  Moved(x)
<1> DEFINE W == [run[x] EXCEPT !.tries = @ + 1]
           C == [run[x] EXCEPT !.at = "calling", !.tries = @ + 1]
<1>1. /\ run[x].at = "work" /\ run[x].at \in Working /\ run[x].spec \notin Workflows
      /\ \/ End(x, "succeeded", NoState)
         \/ Block(x) \/ Fail(x)
         \/ run[x].tries <= MaxRounds /\ (Go(x, W) \/ Go(x, C))
  BY DEF Round, At, Working, IsWorkflow
<1>2. /\ run[x].at # "done" /\ run[x] \in Executions
      /\ SoundState(run[x].state) /\ run[x].state.basis \in {run[x].spec, NoSpec}
  BY <1>1, InWork
<1>3. CASE End(x, "succeeded", NoState)
  BY <1>1, <1>2, <1>3, NoStateIsSound, EndFacts DEF Final
<1>4. CASE Block(x) \/ Fail(x)
  BY <1>2, <1>4, StopFacts
<1>5. ASSUME run[x].tries <= MaxRounds PROVE run[x].tries + 1 \in 1..(MaxRounds + MaxIterations)
  BY <1>2, <1>5, EngineAssumption DEF Executions
<1>6. CASE run[x].tries <= MaxRounds /\ Go(x, W)
  <2>1. W \in Executions /\ W.at = "work" /\ W.spec = run[x].spec /\ W.state = run[x].state
    BY <1>1, <1>2, <1>5, <1>6 DEF Executions
  <2>2. WorkOK(W)
    BY <1>2, <2>1 DEF WorkOK
  <2> HIDE DEF W
  <2> QED
    BY <1>1, <1>6, <2>1, <2>2, WorkOn
<1>7. CASE run[x].tries <= MaxRounds /\ Go(x, C)
  <2>1. C \in Executions /\ C.at = "calling" /\ C.spec = run[x].spec /\ C.state = run[x].state
    BY <1>1, <1>2, <1>5, <1>7 DEF Executions, Active, Working
  <2>2. WorkOK(C)
    BY <1>1, <1>2, <2>1 DEF WorkOK
  <2> HIDE DEF C
  <2> QED
    BY <1>1, <1>7, <2>1, <2>2, WorkOn DEF Working
<1> QED
  BY <1>1, <1>3, <1>4, <1>6, <1>7

\* A tool answers, or raises.
LEMMA ToolReturnsStep ==
  ASSUME EngineInv, NEW x \in Runs, ToolReturns(x)
  PROVE  Moved(x)
<1> DEFINE i == Position(x)
           J == [run[x] EXCEPT !.at = "judge", !.state.outputs = @ \cup {i},
                               !.state.called = @ \cup {i}]
           W == [run[x] EXCEPT !.at = "work"]
<1>1. /\ run[x].at = "calling" /\ run[x].at \in Working
      /\ \/ run[x].spec \in Workflows /\ Go(x, J)
         \/ run[x].spec \notin Workflows /\ Go(x, W)
         \/ Fail(x)
  BY DEF ToolReturns, At, Working, IsWorkflow
<1>2. /\ run[x].at # "done" /\ run[x] \in Executions /\ run[x].state \in States
      /\ SoundState(run[x].state) /\ run[x].state.basis \in {run[x].spec, NoSpec}
      /\ run[x].spec \in Workflows => AtTool(run[x])
  BY <1>1, InWork DEF WorkOK
<1>3. CASE Fail(x)
  BY <1>2, <1>3, StopFacts
<1>4. CASE Go(x, W)
  <2>1. W \in Executions /\ W.at = "work" /\ W.spec = run[x].spec /\ W.state = run[x].state
    BY <1>2 DEF Executions, Active, Working
  <2>2. WorkOK(W)
    BY <1>2, <2>1 DEF WorkOK
  <2> HIDE DEF W
  <2> QED
    BY <1>1, <1>4, <2>1, <2>2, WorkOn DEF Working
<1>5. CASE run[x].spec \in Workflows /\ Go(x, J)
  <2>1. i = Pos(run[x]) /\ AtTool(run[x])
    BY <1>2, <1>5 DEF Position, Pos, Plan
  <2>2. i \in Indices
    BY <1>5, <2>1, LengthOfPlan DEF AtTool
  <2> HIDE DEF i
  <2>3. /\ J \in Executions /\ J.at = "judge" /\ J.spec = run[x].spec
        /\ J.state = [run[x].state EXCEPT !.outputs = @ \cup {i}, !.called = @ \cup {i}]
    BY <1>2, <2>2 DEF Executions, States, Active, Working
  <2> HIDE DEF J
  <2>4. /\ J.state.basis = run[x].state.basis /\ J.state.index = run[x].state.index
        /\ J.state.bound = run[x].state.bound
        /\ J.state.outputs = run[x].state.outputs \cup {i}
    BY <1>2, <2>3 DEF States
  <2>5. SoundState(J.state)
    BY <1>2, <2>4 DEF SoundState, Gathered
  <2>6. AtTool(J) /\ Pos(J) = i
    BY <2>1, <2>3, <2>4 DEF AtTool, Pos
  <2>7. WorkOK(J)
    BY <1>2, <2>3, <2>4, <2>5, <2>6 DEF WorkOK
  <2> QED
    BY <1>1, <1>5, <2>3, <2>7, WorkOn DEF Working
<1> QED
  BY <1>1, <1>3, <1>4, <1>5

-----------------------------------------------------------------------------
(* Requests and answers.                                                   *)

\* A request is accepted.
LEMMA ExecuteStep ==
  ASSUME EngineInv, NEW x \in Runs, Execute(x)
  PROVE  Moved(x)
<1>1. PICK stream \in BOOLEAN :
        run' = [run EXCEPT ![x] = [NoExecution EXCEPT !.at = "resolve", !.stream = stream,
                                                      !.state = held]]
  BY DEF Execute
<1> DEFINE R == [NoExecution EXCEPT !.at = "resolve", !.stream = stream, !.state = held]
<1>2. run[x].at # "done" /\ Save(x, "queued") /\ "queued" \in Statuses
  BY DEF Execute, At, Statuses
<1>3. held \in States /\ SoundState(held)
  BY DEF EngineInv
<1>4. R \in Executions /\ R.at = "resolve" /\ R.state = held
  BY <1>3, NoExecutionIsSound DEF NoExecution, Executions, Active, Gate
<1>5. GateHas(x, R, seen[x]) /\ WorkOK(R)
  BY <1>3, <1>4 DEF GateHas, WorkOK, Working
<1> HIDE DEF R
<1>6. run' = [run EXCEPT ![x] = R]
  BY <1>1 DEF R
<1> QED
  BY <1>2, <1>4, <1>5, <1>6, SavingFacts

\* The client leaves.
LEMMA LeaveStep ==
  ASSUME EngineInv, NEW x \in Runs, Leave(x)
  PROVE  Moved(x)
<1> DEFINE R == [run[x] EXCEPT !.heard = FALSE]
<1>1. run[x].at \in Active /\ run[x].at # "done" /\ run[x] \in Executions
  BY DEF Leave, EngineInv, Active, Gate, Working
<1>2. /\ R \in Executions /\ R.at = run[x].at /\ R.spec = run[x].spec
      /\ R.allow = run[x].allow /\ R.status = run[x].status /\ R.state = run[x].state
  BY <1>1 DEF Executions
<1>3. run' = [run EXCEPT ![x] = R] /\ UNCHANGED <<record, told, room>>
  BY DEF Leave, EngineInv
<1> HIDE DEF R
<1>4. ExecutionOK(x, run[x], record[x], told[x], seen[x])
  BY DEF EngineInv
<1>5. ExecutionOK(x, R, record[x], told[x], seen[x])
  BY <1>2, <1>4 DEF ExecutionOK, GateHas, KeptHas, WorkOK, AtTool, Pos
<1> QED
  BY <1>3, <1>5 DEF Moved, EngineInv

\* The status that is sent is the one that was saved.
LEMMA AnswerStep ==
  ASSUME EngineInv, NEW x \in Runs, Answer(x)
  PROVE  /\ run' = [run EXCEPT ![x] = run'[x]]
         /\ told' = [told EXCEPT ![x] = told'[x]]
         /\ ExecutionOK(x, run'[x], record[x], told'[x], seen[x])
         /\ held' \in States /\ SoundState(held')
         /\ serving' \in Runs \cup {NoRun}
<1> DEFINE R == [NoExecution EXCEPT !.at = "done"]
<1>1. /\ run[x].at = "answer" /\ run[x] \in Executions /\ record[x] \in Records
      /\ WorkOK(run[x]) /\ KeptHas(run[x], record[x], told[x])
      /\ told[x] = "none" /\ run[x].status \in Final \cup {"none"}
  BY DEF EngineInv, ExecutionOK, KeptHas, Answer, At, Executions
<1>2. R \in Executions /\ R.at = "done" /\ R.state = NoState
  BY NoExecutionIsSound DEF NoExecution, Executions
<1>3. run' = [run EXCEPT ![x] = R]
  BY DEF Answer
<1> HIDE DEF R
<1>4. GateHas(x, R, seen[x]) /\ WorkOK(R)
  BY <1>2, NoStateIsSound DEF GateHas, WorkOK, Working
<1>5. /\ told' = [told EXCEPT ![x] = told'[x]]
      /\ told'[x] = IF run[x].heard THEN run[x].status ELSE "none"
  BY <1>1 DEF Answer, EngineInv
<1>6. KeptHas(R, record[x], told'[x])
  BY <1>1, <1>2, <1>5 DEF KeptHas
<1>7. ExecutionOK(x, R, record[x], told'[x], seen[x])
  BY <1>1, <1>2, <1>4, <1>5, <1>6 DEF ExecutionOK
<1>8. held' \in States /\ SoundState(held') /\ serving' \in Runs \cup {NoRun}
  BY <1>1 DEF Answer, EngineInv, WorkOK, Executions
<1>9. run' = [run EXCEPT ![x] = run'[x]] /\ run'[x] = R
  BY <1>3 DEF EngineInv
<1> QED
  BY <1>5, <1>7, <1>8, <1>9

-----------------------------------------------------------------------------
(* The invariant is kept.                                                  *)

\* The process and its memory are gone.
LEMMA CrashStep ==
  ASSUME EngineInv, EngineCrash
  PROVE  /\ run' \in [Runs -> Executions] /\ record' \in [Runs -> Records]
         /\ \A x \in Runs : ExecutionOK(x, run'[x], record'[x], told[x], seen[x])
         /\ room' \in Scenario /\ serving' \in Runs \cup {NoRun}
         /\ PoolInv'
<1>1. room' \in Scenario /\ serving' \in Runs \cup {NoRun}
  <2>1. /\ room \in Scenario /\ room.crashes > 0 /\ serving' = NoRun
        /\ room' = [room EXCEPT !.crashes = @ - 1]
    BY DEF EngineCrash, EngineInv
  <2> QED
    BY <2>1 DEF Scenario
<1>2. PoolInv'
  <2>1. /\ pool' = {} /\ sock' = {} /\ unread' = [c \in Connections |-> NoCaller]
        /\ call' = [t \in Callers |-> NoCall]
    BY DEF EngineCrash, Runs
  <2>2. PoolTypeOK'
    BY <2>1 DEF PoolTypeOK, NoCall, Calls
  <2>3. ConnectionWhileUsed' /\ ExclusiveConnection' /\ NothingLeftBehind' /\ AnswerIsOwn'
    BY <2>1 DEF ConnectionWhileUsed, ExclusiveConnection, NothingLeftBehind,
       AnswerIsOwn, NoCall
  <2> QED
    BY <2>2, <2>3 DEF PoolInv
<1>3. ASSUME NEW x \in Runs
      PROVE  ExecutionOK(x, run'[x], record'[x], told[x], seen[x])
  <2>1. ExecutionOK(x, run[x], record[x], told[x], seen[x])
    BY DEF EngineInv
  <2>2. /\ record'[x] \in Records /\ record'[x].memory = "none"
        /\ record'[x].kept = record[x].kept /\ record'[x].database = record[x].database
    BY <2>1 DEF EngineCrash, ExecutionOK, Records, Statuses
  <2>3. CASE run[x].at \in Active
    <3> DEFINE R == [NoExecution EXCEPT !.at = "gone"]
    <3>1. run'[x] = R
      BY <2>3 DEF EngineCrash
    <3>2. R \in Executions /\ R.at = "gone" /\ R.state = NoState
      BY NoExecutionIsSound DEF NoExecution, Executions
    <3> HIDE DEF R
    <3>3. GateHas(x, R, seen[x]) /\ WorkOK(R)
      BY <3>2, NoStateIsSound DEF GateHas, WorkOK, Working
    <3>4. told[x] = "none"
      BY <2>1, <2>3 DEF ExecutionOK, KeptHas, Active, Gate, Working
    <3> QED
      BY <3>1, <3>2, <3>3, <3>4, <2>1, <2>2 DEF ExecutionOK, KeptHas
  <2>4. CASE run[x].at \notin Active
    <3>1. run'[x] = run[x] /\ run[x].at # "answer"
      BY <2>4 DEF EngineCrash, Active
    <3> QED
      BY <3>1, <2>1, <2>2 DEF ExecutionOK, KeptHas
  <2> QED
    BY <2>3, <2>4
<1>4. run' \in [Runs -> Executions] /\ record' \in [Runs -> Records]
  BY <1>3 DEF EngineCrash, ExecutionOK
<1> QED
  BY <1>1, <1>2, <1>3, <1>4

\* What an execution in the gate has seen only grows.
LEMMA WatchFacts ==
  ASSUME EngineInv, Watch
  PROVE  /\ seen' \in [Runs -> SUBSET ({"undenied", "entitled"} \cup Servers)]
         /\ \A x \in Runs :
              /\ run'[x].at \in Gate => Facts' \subseteq seen'[x]
              /\ run'[x].at \in Gate \cup Working => seen[x] \subseteq seen'[x]
<1>1. Facts' \subseteq {"undenied", "entitled"} \cup Servers
  BY DEF Facts
<1> QED
  BY <1>1 DEF Watch, EngineInv

\* What the gate has established stays established.
LEMMA ExecutionsKeep ==
  ASSUME EngineInv, Watch,
         \A x \in Runs : ExecutionOK(x, run'[x], record'[x], told'[x], seen[x])
  PROVE  \A x \in Runs : /\ ExecutionOK(x, run'[x], record'[x], told'[x], seen'[x])
                         /\ run'[x].at \in Gate => Facts' \subseteq seen'[x]
<1> SUFFICES ASSUME NEW x \in Runs
             PROVE  GateHas(x, run'[x], seen'[x])
  BY WatchFacts DEF ExecutionOK
<1>1. GateHas(x, run'[x], seen[x])
  BY DEF ExecutionOK
<1>2. run'[x].at \in Gate \cup Working => seen[x] \subseteq seen'[x]
  BY WatchFacts
<1> QED
  BY <1>1, <1>2 DEF GateHas, Gate, Working

\* The whole invariant, from its parts.
LEMMA PartsKeep ==
  ASSUME EngineInv, Watch, PoolInv', CatalogInv',
         run' \in [Runs -> Executions], record' \in [Runs -> Records],
         told' \in [Runs -> Final \cup {"none"}],
         serving' \in Runs \cup {NoRun}, held' \in States, SoundState(held'),
         access' \in Accesses, room' \in Scenario,
         \A x \in Runs : ExecutionOK(x, run'[x], record'[x], told'[x], seen[x])
  PROVE  EngineInv'
<1>1. /\ seen' \in [Runs -> SUBSET ({"undenied", "entitled"} \cup Servers)]
      /\ \A x \in Runs : /\ ExecutionOK(x, run'[x], record'[x], told'[x], seen'[x])
                         /\ run'[x].at \in Gate => Facts' \subseteq seen'[x]
  BY WatchFacts, ExecutionsKeep
<1> QED
  BY <1>1 DEF EngineInv

\* One execution moves.
LEMMA MovedKeeps ==
  ASSUME EngineInv, NEW x \in Runs, Moved(x), Watch, PoolNext \/ UNCHANGED poolVars,
         serving' \in Runs \cup {NoRun}, UNCHANGED <<catalogVars, access, held, told>>
  PROVE  EngineInv'
<1>1. PoolInv' /\ CatalogInv'
  BY PoolInvKept, CatalogStutter DEF EngineInv
<1>2. /\ run' = [run EXCEPT ![x] = run'[x]] /\ run'[x] \in Executions
      /\ record' = [record EXCEPT ![x] = record'[x]] /\ record'[x] \in Records
      /\ ExecutionOK(x, run'[x], record'[x], told[x], seen[x]) /\ room' \in Scenario
  BY DEF Moved, ExecutionOK
<1>3. /\ run' \in [Runs -> Executions] /\ record' \in [Runs -> Records]
      /\ \A y \in Runs : ExecutionOK(y, run'[y], record'[y], told'[y], seen[y])
  BY <1>2 DEF EngineInv
<1> QED
  BY <1>1, <1>2, <1>3, PartsKeep DEF EngineInv

\* Every step of the engine.
LEMMA EngineKeeps ==
  ASSUME EngineInv, Engine, Watch, UNCHANGED <<catalogVars, access>>
  PROVE  EngineInv'
<1>1. ASSUME NEW x \in Runs, Execute(x), UNCHANGED poolVars PROVE EngineInv'
  BY <1>1, ExecuteStep, MovedKeeps DEF Execute
<1>2. ASSUME NEW x \in Runs, Thread(x) PROVE EngineInv'
  <2>1. CASE /\ \/ ResolveAgent(x) \/ ReadPolicy(x) \/ ReadShares(x) \/ ResolveTools(x)
                \/ Input(x) \/ Judge(x) \/ Output(x) \/ NoActions(x)
             /\ UNCHANGED poolVars /\ UNCHANGED <<serving, held, told>>
    <3>1. Moved(x)
      BY <2>1, ResolveAgentStep, ReadPolicyStep, ReadSharesStep, ResolveToolsStep,
         InputStep, JudgeStep, OutputStep, NoActionsStep
    <3> QED
      BY <3>1, <2>1, MovedKeeps DEF EngineInv
  <2>2. CASE (Tool(x) \/ Round(x) \/ ToolReturns(x)) /\ UNCHANGED <<serving, held, told>>
    <3>1. Moved(x)
      BY <2>2, ToolStep, RoundStep, ToolReturnsStep
    <3>2. PoolNext \/ UNCHANGED poolVars
      BY <2>2 DEF Tool, Round, ToolReturns, PoolNext, Runs
    <3> QED
      BY <3>1, <3>2, <2>2, MovedKeeps DEF EngineInv
  <2>3. CASE Answer(x) /\ UNCHANGED poolVars
    <3>1. UNCHANGED <<record, room>>
      BY <2>3 DEF Answer
    <3>2. PoolInv' /\ CatalogInv'
      BY <2>3, PoolInvKept, CatalogStutter DEF EngineInv
    <3>3. /\ run' = [run EXCEPT ![x] = run'[x]] /\ told' = [told EXCEPT ![x] = told'[x]]
          /\ ExecutionOK(x, run'[x], record[x], told'[x], seen[x])
          /\ held' \in States /\ SoundState(held') /\ serving' \in Runs \cup {NoRun}
      BY <2>3, AnswerStep
    <3>4. run'[x] \in Executions /\ told'[x] \in Final \cup {"none"}
      BY <3>3 DEF ExecutionOK
    <3>5. /\ run' \in [Runs -> Executions] /\ told' \in [Runs -> Final \cup {"none"}]
          /\ \A y \in Runs : ExecutionOK(y, run'[y], record'[y], told'[y], seen[y])
      BY <3>1, <3>3, <3>4 DEF EngineInv
    <3> QED
      BY <3>1, <3>2, <3>3, <3>5, PartsKeep DEF EngineInv
  <2>4. CASE Exchange(x) /\ UNCHANGED <<run, serving, held, record, told, room>>
    <3>1. PoolInv' /\ CatalogInv'
      BY <2>4, PoolInvKept, CatalogStutter DEF EngineInv, PoolNext, Runs
    <3> QED
      BY <2>4, <3>1, PartsKeep DEF EngineInv
  <2> QED
    BY <1>2, <2>1, <2>2, <2>3, <2>4 DEF Thread
<1>3. ASSUME NEW x \in Runs, Leave(x) PROVE EngineInv'
  BY <1>3, LeaveStep, MovedKeeps DEF Leave, EngineInv
<1>4. CASE EngineCrash
  <2>1. CatalogInv' /\ UNCHANGED <<held, told>>
    BY <1>4, CatalogStutter DEF EngineInv, EngineCrash
  <2> QED
    BY <1>4, <2>1, CrashStep, PartsKeep DEF EngineInv
<1> QED
  BY <1>1, <1>2, <1>3, <1>4 DEF Engine

\* Every step of the backend.
LEMMA BackendKeeps ==
  ASSUME EngineInv, Watch, UNCHANGED <<poolVars, engineVars>>,
         Administer \/ (ChangeAccess /\ UNCHANGED catalogVars)
  PROVE  EngineInv'
<1>1. PoolInv' /\ UNCHANGED <<run, serving, held, record, told>>
  BY PoolInvKept DEF EngineInv, engineVars
<1>2. \A x \in Runs : ExecutionOK(x, run'[x], record'[x], told'[x], seen[x])
  BY <1>1 DEF EngineInv
<1>3. room \in Scenario /\ access \in Accesses
  BY DEF EngineInv
<1>4. ASSUME Administer PROVE CatalogInv' /\ access' \in Accesses /\ room' \in Scenario
  <2>1. CatalogInv' /\ room' \in Scenario
    <3>1. CASE /\ room.requests > 0
               /\ \E h \in room.handlers : CatalogRequest(h, room.specs)
               /\ room' = [room EXCEPT !.requests = @ - 1]
      <4>1. room' \in Scenario /\ room.specs \in SUBSET AgentSpecs /\ room.handlers \subseteq Handlers
        BY <1>3, <3>1 DEF Scenario
      <4> QED
        BY <3>1, <4>1, RequestKeeps DEF EngineInv
    <3>2. CASE (\E h \in Handlers : CatalogStep(h)) /\ UNCHANGED room
      BY <1>3, <3>2, StepKeeps DEF EngineInv
    <3>3. CASE /\ room.cuts > 0 /\ \E h \in Handlers : Cut(h)
               /\ room' = [room EXCEPT !.cuts = @ - 1]
      <4>1. room' \in Scenario
        BY <1>3, <3>3 DEF Scenario
      <4> QED
        BY <3>3, <4>1, CutKeeps DEF EngineInv
    <3> QED
      BY <1>4, <3>1, <3>2, <3>3 DEF Administer, AdminStep
  <2>2. access' \in Accesses
    <3> DEFINE s == access.shared /\ (Agent \in entities => Agent \in entities')
    <3>1. access' = [access EXCEPT !.shared = s]
      BY <1>3, <1>4 DEF Administer, Accesses
    <3>2. s \in BOOLEAN
      OBVIOUS
    <3> HIDE DEF s
    <3> QED
      BY <1>3, <3>1, <3>2 DEF Accesses
  <2> QED
    BY <2>1, <2>2
<1>5. ASSUME ChangeAccess, UNCHANGED catalogVars
      PROVE  CatalogInv' /\ access' \in Accesses /\ room' \in Scenario
  <2>1. CatalogInv'
    BY <1>5, CatalogStutter DEF EngineInv
  <2>2. room' \in Scenario
    BY <1>3, <1>5 DEF ChangeAccess, Scenario
  <2>3. ASSUME NEW rule \in {"allow", "deny"}, access' = [access EXCEPT !.rules = @ \cup {rule}]
        PROVE  access' \in Accesses
    BY <1>3, <2>3 DEF Accesses
  <2>4. ASSUME access' = [access EXCEPT !.shared = TRUE] PROVE access' \in Accesses
    BY <1>3, <2>4 DEF Accesses
  <2>5. access' \in Accesses
    BY <1>5, <2>3, <2>4 DEF ChangeAccess
  <2> QED
    BY <2>1, <2>2, <2>5
<1> QED
  BY <1>1, <1>2, <1>4, <1>5, PartsKeep DEF EngineInv

\* An initial state has a current version of every entity, or none of any.
LEMMA EngineInvInit == ASSUME Init PROVE EngineInv
<1>1. room \in Scenario /\ access \in Accesses
  BY EngineAssumption DEF Init, Scenario
<1>2. PoolInv
  BY PoolInvInit DEF Init
<1>3. CatalogInv
  <2>1. entities \subseteq Entities /\ overlapped = {} /\ undisturbed = {}
    BY DEF Init
  <2>2. ASSUME NEW e \in Entities, room.spec # NoSpec
        PROVE  Installed(e) \in SUBSET Rows /\ \A v \in Installed(e) : v.spec \in SpecsOf(e)
    <3>1. room.spec \in AgentSpecs
      BY <1>1, <2>2 DEF Scenario
    <3>2. /\ e = Agent => SpecsOf(e) = AgentSpecs
          /\ e # Agent => SpecsOf(e) = ServerSpecs
      BY DEF SpecsOf
    <3> QED
      BY <3>1, <3>2 DEF Installed, Rows, Specs, ServerSpecs
  <2>3. /\ versions \in [Entities -> SUBSET Rows]
        /\ \A e \in Entities : \A v \in versions[e] : v.spec \in SpecsOf(e)
    BY <2>2 DEF Init
  <2>4. project \in Projects /\ ProjectHistoryIsExact
    BY DEF Init, NoProject, Projects, ProjectHistoryIsExact
  <2>5. task \in [Handlers -> Tasks] /\ \A h \in Handlers : TaskOK(task[h])
    BY RestingTask DEF Init
  <2> QED
    BY <2>1, <2>3, <2>4, <2>5 DEF CatalogInv, CatalogShape
<1>4. ASSUME NEW x \in Runs
      PROVE  ExecutionOK(x, run[x], record[x], told[x], seen[x]) /\ run[x].at = "none"
  <2>1. /\ run[x] = NoExecution /\ told[x] = "none"
        /\ record[x] = [memory |-> "none", database |-> "none", kept |-> TRUE]
    BY DEF Init
  <2>2. NoExecution.at = "none"
    BY DEF NoExecution
  <2>3. GateHas(x, NoExecution, seen[x])
    BY <2>2 DEF GateHas, Working
  <2>4. record[x] \in Records /\ KeptHas(NoExecution, record[x], "none")
    BY <2>1, <2>2 DEF Records, Statuses, KeptHas
  <2> QED
    BY <2>1, <2>2, <2>3, <2>4, NoExecutionIsSound DEF ExecutionOK
<1>5. /\ run \in [Runs -> Executions] /\ record \in [Runs -> Records]
      /\ told \in [Runs -> Final \cup {"none"}]
      /\ seen \in [Runs -> SUBSET ({"undenied", "entitled"} \cup Servers)]
      /\ serving \in Runs \cup {NoRun} /\ held \in States /\ SoundState(held)
  BY NoExecutionIsSound, NoStateIsSound DEF Init, Records, Statuses
<1> QED
  BY <1>1, <1>2, <1>3, <1>4, <1>5 DEF EngineInv, Gate

\* Nothing happens.
LEMMA EngineStutter == ASSUME EngineInv, UNCHANGED vars PROVE EngineInv'
<1>1. PoolInv' /\ CatalogInv'
  BY PoolInvKept, CatalogStutter DEF EngineInv, vars
<1>2. Facts' = Facts
  BY DEF vars, catalogVars, Facts, Enabled, CurrentSpecs, CurrentVersions
<1> QED
  BY <1>1, <1>2 DEF EngineInv, vars, engineVars

-----------------------------------------------------------------------------
(* Theorems.                                                               *)

\* The invariant of the engine.
THEOREM EngineInvariant == Spec => []EngineInv
<1>1. Init => EngineInv
  BY EngineInvInit
<1>2. EngineInv /\ [Next]_vars => EngineInv'
  <2> SUFFICES ASSUME EngineInv, [Next]_vars PROVE EngineInv'
    OBVIOUS
  <2>1. CASE UNCHANGED vars
    BY <2>1, EngineStutter
  <2>2. CASE Next
    BY <2>2, EngineKeeps, BackendKeeps DEF Next
  <2> QED
    BY <2>1, <2>2
<1> QED
  BY <1>1, <1>2, PTL DEF Spec

\* What is known of one execution at work or at its end.
LEMMA ExecutionSafety ==
  ASSUME EngineInv
  PROVE  TypeOK /\ AnswerIsKept /\ AdmittedWasAllowed /\ OutputHasInputs
<1>1. \A x \in Runs : ExecutionOK(x, run[x], record[x], told[x], seen[x])
  BY DEF EngineInv
<1>2. TypeOK
  BY CatalogInvType DEF EngineInv, PoolInv, TypeOK, Executions, Records
<1>3. AnswerIsKept
  BY <1>1 DEF AnswerIsKept, ExecutionOK, KeptHas, Lookup
<1>4. AdmittedWasAllowed
  BY <1>1 DEF AdmittedWasAllowed, ExecutionOK, GateHas
<1>5. OutputHasInputs
  BY <1>1 DEF OutputHasInputs, ExecutionOK, WorkOK, Gathered
<1> QED
  BY <1>2, <1>3, <1>4, <1>5

\* The state of the engine, its pool and the registry has its type.
THEOREM EngineTypeCorrect == Spec => []TypeOK
<1>1. EngineInv => TypeOK
  BY ExecutionSafety
<1> QED
  BY <1>1, EngineInvariant, PTL

\* Under the engine, crashes included, no pooled connection serves two requests
\* at once or is idle while it is used.
THEOREM PooledConnectionExclusive == Spec => []ExclusiveConnection
<1>1. EngineInv => ExclusiveConnection
  BY DEF EngineInv, PoolInv
<1> QED
  BY <1>1, EngineInvariant, PTL

\* Under the engine no execution reads the answer to another request.
THEOREM PooledAnswerIsOwn == Spec => []AnswerIsOwn
<1>1. EngineInv => AnswerIsOwn
  BY DEF EngineInv, PoolInv
<1> QED
  BY <1>1, EngineInvariant, PTL

\* Under any requests of the backend, cut short or not, the history of a project
\* is exact.
THEOREM HistoryStaysExact == Spec => []ProjectHistoryIsExact
<1>1. EngineInv => ProjectHistoryIsExact
  BY DEF EngineInv, CatalogInv
<1> QED
  BY <1>1, EngineInvariant, PTL

\* The status a caller was told stays the one that is looked up.
THEOREM AnswersAreKept == Spec => []AnswerIsKept
<1>1. EngineInv => AnswerIsKept
  BY ExecutionSafety
<1> QED
  BY <1>1, EngineInvariant, PTL

\* Nothing runs that was not allowed at some moment of its way through the gate,
\* however access, registry and other executions change meanwhile.
THEOREM AdmissionWasAllowed == Spec => []AdmittedWasAllowed
<1>1. EngineInv => AdmittedWasAllowed
  BY ExecutionSafety
<1> QED
  BY <1>1, EngineInvariant, PTL

\* A workflow of any length that is completed has its variables and results.
THEOREM OutputHasItsInputs == Spec => []OutputHasInputs
<1>1. EngineInv => OutputHasInputs
  BY ExecutionSafety
<1> QED
  BY <1>1, EngineInvariant, PTL

\* Steps of the backend under the engine.
LEMMA LineKept ==
  ASSUME EngineInv, LineInv, [Next]_vars
  PROVE  LineInv'
<1>1. CatalogInv /\ room \in Scenario
  BY DEF EngineInv
<1>2. CASE UNCHANGED catalogVars
  BY <1>2, LineStutter
<1>3. CASE Administer
  <2>1. CASE /\ room.requests > 0
             /\ \E h \in room.handlers : CatalogRequest(h, room.specs)
             /\ room' = [room EXCEPT !.requests = @ - 1]
    <3>1. room.specs \in SUBSET AgentSpecs /\ room.handlers \subseteq Handlers
      BY <1>1 DEF Scenario
    <3> QED
      BY <1>1, <2>1, <3>1, RequestInLine
  <2>2. CASE \E h \in Handlers : CatalogStep(h) \/ Cut(h)
    BY <1>1, <2>2, TransactionInLine
  <2> QED
    BY <1>3, <2>1, <2>2 DEF Administer, AdminStep
<1> QED
  BY <1>2, <1>3 DEF Next, vars

\* An initial registry is empty or holds one version of each entity.
LEMMA LineInit == ASSUME Init PROVE LineInv
<1>1. /\ \A h \in Handlers : task[h] = Resting
      /\ undisturbed = {}
  BY DEF Init
<1>2. CASE room.spec = NoSpec
  <2>1. \A e \in Entities : versions[e] = {}
    BY <1>2 DEF Init
  <2> QED
    BY <1>1, <2>1, AtRestInLine DEF VersionsInLine
<1>3. CASE room.spec # NoSpec
  <2>1. entities = Entities /\ \A e \in Entities : versions[e] = Installed(e)
    BY <1>3 DEF Init
  <2>2. ASSUME NEW e \in Entities
        PROVE  \E v \in versions[e] :
                 /\ CurrentVersions(e) = {v}
                 /\ \A w \in versions[e] : w.number <= v.number
    <3> DEFINE v == [number |-> 1, spec |-> IF e = Agent THEN room.spec ELSE "enabled",
                     current |-> TRUE]
    <3>1. versions[e] = {v}
      BY <2>1 DEF Installed
    <3>2. v.current /\ v.number = 1
      OBVIOUS
    <3> HIDE DEF v
    <3>3. CurrentVersions(e) = {v} /\ \A w \in versions[e] : w.number <= v.number
      BY <3>1, <3>2 DEF CurrentVersions
    <3> QED
      BY <3>1, <3>3
  <2> QED
    BY <1>1, <2>1, <2>2, AtRestInLine DEF VersionsInLine
<1> QED
  BY <1>2, <1>3

\* Whatever runs in the engine meanwhile: as long as no two tasks worked on an
\* entity at once, its current version is unique and has the highest number
\* (create_registry_version), and a publication or a deletion of a project that
\* nothing overlapped does what it is for, whatever earlier requests left behind
\* (publish_agent_project, delete_agent_project).
THEOREM RegistryStaysInLine == Spec => []RegistryIsInLine
<1>1. Init => LineInv
  BY LineInit
<1>2. EngineInv /\ LineInv /\ [Next]_vars => LineInv'
  BY LineKept
<1>3. EngineInv /\ LineInv => RegistryIsInLine
  BY InLine DEF EngineInv
<1> QED
  BY <1>1, <1>2, <1>3, EngineInvariant, PTL DEF Spec
=============================================================================
