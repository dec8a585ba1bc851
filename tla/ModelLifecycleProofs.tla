------------------------ MODULE ModelLifecycleProofs ------------------------
(***************************************************************************)
(* Theorems of ModelLifecycle for any models, settings, credentials,       *)
(* handlers, workers and bounds.                                           *)
(***************************************************************************)
EXTENDS ModelLifecycle, TLAPS

\* The requests that begin with a read of the model's row.
Reading == {"register", "activate", "deactivate", "unregister", "delete",
            "credential", "test", "validate"}

\* What a task has with it.
Carries(T) ==
  /\ T.op \notin {"none", "revoke"} => T.on \in Models
  /\ T.op \in Reading => T.seen \in Rows
  /\ \/ T.op \in {"create", "credential"}
     \/ T.op = "download" /\ T.step \in {"store", "report"}
     => T.config \in Configs
  /\ T.step = "secret" => T.op \in {"credential", "test"}

\* A worker runs a job that is running, and nobody else runs it.
JobsAreHeld ==
  /\ \A j \in Jobs : jobs[j].status # "new" => jobs[j].model \in Models
  /\ \A w \in Workers :
       \/ Idle(w)
       \/ /\ work[w].op = "download" /\ work[w].step \in {"fetch", "store", "report"}
          /\ work[w].job \in Jobs
          /\ jobs[work[w].job].status = "running"
          /\ \A v \in Workers : work[v].job = work[w].job => v = w

\* Two operations at work on a model are known to overlap.
OverlapsAreKnown ==
  \A t, u \in Threads : t # u => Touched(work[t]) \cap Touched(work[u]) \subseteq disturbed

\* The row of a model that nothing has disturbed.
RowFits(m) ==
  /\ registry[m].print = registry[m].config
  /\ registry[m].validated =>
       registry[m].tested = registry[m].print /\ registry[m].print \in passed[m]
  /\ registry[m].life = "active" =>
       /\ registry[m].validated
       /\ \/ IsReady(registry[m].config)
          \/ \E t \in Threads :
               /\ work[t].op = "revoke"
               /\ work[t].config.credential = registry[m].config.credential

\* What a request has read of such a row still holds when it writes.
TaskFits(t) ==
  LET T == work[t]
  IN  T.op \in Reading /\ T.on \notin disturbed =>
        /\ T.seen = registry[T.on]
        /\ T.op = "activate" => T.seen.validated /\ IsReady(T.seen.config)
        /\ T.op = "validate" /\ T.step = "write" => T.seen.print \in passed[T.on]
        /\ T.op = "credential" /\ T.step = "write" =>
             T.config.setting = T.seen.config.setting

TypeInv == TypeOK /\ JobsAreHeld /\ \A t \in Threads : Carries(work[t])

FitInv ==
  /\ OverlapsAreKnown
  /\ \A m \in Models \ disturbed : RowFits(m)
  /\ \A t \in Threads : TaskFits(t)

-----------------------------------------------------------------------------
(* Rows and tasks.                                                         *)

Contents == [setting : Settings \cup {"none"}, credential : Credentials \cup {NoCredential}]

LEMMA Configurations ==
  /\ NoConfig \in Contents /\ Configs \subseteq Contents
  /\ NoConfig.setting = "none" /\ NoConfig.credential = NoCredential
  /\ \A s, k : Config(s, k).setting = s /\ Config(s, k).credential = k
  /\ \A s \in Settings, k \in Credentials \cup {NoCredential} : Config(s, k) \in Configs
  /\ \A c \in Configs, k \in Credentials \cup {NoCredential} :
       /\ [c EXCEPT !.credential = k] \in Configs
       /\ [c EXCEPT !.credential = k].setting = c.setting
       /\ [c EXCEPT !.credential = k].credential = k
  /\ \A c, d \in Contents : c.setting = d.setting /\ c.credential = d.credential => c = d
  BY DEF NoConfig, Config, Configs, Contents

LEMMA RowForm ==
  ASSUME NEW life, NEW c
  PROVE  /\ Row(life, c).life = life /\ Row(life, c).config = c /\ Row(life, c).print = c
         /\ Row(life, c).validated = FALSE /\ Row(life, c).tested = NoConfig
         /\ life \in Life /\ c \in Configs => Row(life, c) \in Rows
  BY DEF Row, Rows

LEMMA NoRowForm ==
  /\ NoRow.life = "none" /\ NoRow.config = NoConfig /\ NoRow.print = NoConfig
  /\ NoRow.validated = FALSE /\ NoRow \notin Rows
<1>1. /\ NoRow.life = "none" /\ NoRow.config = NoConfig /\ NoRow.print = NoConfig
      /\ NoRow.validated = FALSE
  BY DEF NoRow, Row
<1>2. \A r \in Rows : r.life # "none"
  BY DEF Rows, Life
<1> QED BY <1>1, <1>2

LEMMA TaskForm ==
  ASSUME NEW op, NEW step, NEW m, NEW c
  PROVE  LET T == Task(op, step, m, c)
         IN  /\ T.op = op /\ T.step = step /\ T.on = m /\ T.config = c
             /\ T.seen = NoRow /\ T.job = NoJob
             /\ op \in Ops /\ step \in Steps /\ m \in Models \cup {NoModel} /\ c \in Contents
                => T \in Tasks
  BY DEF Task, Tasks, Contents, NoJob

LEMMA NoTaskForm ==
  /\ NoTask.op = "none" /\ NoTask.step = "none" /\ NoTask.job = NoJob
  /\ Touched(NoTask) = {} /\ Carries(NoTask) /\ NoTask \notin Tasks
<1>1. NoTask.op = "none" /\ NoTask.step = "none" /\ NoTask.job = NoJob
  BY TaskForm DEF NoTask
<1>2. \A T \in Tasks : T.op # "none"
  BY DEF Tasks, Ops
<1> QED BY <1>1, <1>2 DEF Touched, Carries, Reading

\* A record is a task if its parts are.
LEMMA TaskParts ==
  ASSUME NEW T \in Tasks
  PROVE  /\ T.op \in Ops /\ T.step \in Steps /\ T.on \in Models \cup {NoModel}
         /\ T.seen \in Rows \cup {NoRow} /\ T.job \in Jobs \cup {NoJob} /\ T.config \in Contents
         /\ T.op # "none" /\ T # NoTask
         /\ \A s \in Steps : /\ [T EXCEPT !.step = s] \in Tasks
                             /\ [T EXCEPT !.step = s].op = T.op
                             /\ [T EXCEPT !.step = s].step = s
                             /\ [T EXCEPT !.step = s].on = T.on
                             /\ [T EXCEPT !.step = s].seen = T.seen
                             /\ [T EXCEPT !.step = s].job = T.job
                             /\ [T EXCEPT !.step = s].config = T.config
<1>1. /\ T.op \in Ops /\ T.step \in Steps /\ T.on \in Models \cup {NoModel}
      /\ T.seen \in Rows \cup {NoRow} /\ T.job \in Jobs \cup {NoJob} /\ T.config \in Contents
  BY DEF Tasks, Contents
<1>2. T.op # "none"
  BY <1>1 DEF Ops
<1>3. ASSUME NEW s \in Steps
      PROVE  /\ [T EXCEPT !.step = s] \in Tasks
             /\ [T EXCEPT !.step = s].op = T.op
             /\ [T EXCEPT !.step = s].step = s
             /\ [T EXCEPT !.step = s].on = T.on
             /\ [T EXCEPT !.step = s].seen = T.seen
             /\ [T EXCEPT !.step = s].job = T.job
             /\ [T EXCEPT !.step = s].config = T.config
  BY DEF Tasks
<1> QED BY <1>1, <1>2, <1>3, NoTaskForm

LEMMA Typing ==
  ASSUME TypeInv
  PROVE  /\ registry \in [Models -> Rows \cup {NoRow}] /\ passed \in [Models -> SUBSET Configs]
         /\ usable \subseteq Credentials /\ work \in [Threads -> Tasks \cup {NoTask}]
         /\ disturbed \subseteq Models
  BY DEF TypeInv, TypeOK

-----------------------------------------------------------------------------
(* Steps of one thread.                                                    *)

Others(t) == /\ \A u \in Threads \ {t} : work'[u] = work[u]
             /\ work' = [u \in Threads |-> work'[u]]

\* The types after a step of t.
LEMMA TypedStep ==
  ASSUME TypeInv, NEW t \in Threads, Others(t),
         work'[t] \in Tasks \cup {NoTask}, Carries(work'[t]),
         registry' \in [Models -> Rows \cup {NoRow}],
         usable' \subseteq Credentials, passed' \in [Models -> SUBSET Configs],
         jobs' \in [Jobs -> [status : {"new", "queued", "running", "succeeded", "failed"},
                             model : Models \cup {NoModel}]],
         spent' \in [requests : 0..MaxRequests, crashes : 0..MaxCrashes],
         disturbed' \subseteq Models, JobsAreHeld'
  PROVE  TypeInv'
<1>1. \A u \in Threads : work'[u] \in Tasks \cup {NoTask} /\ Carries(work'[u])
  BY DEF TypeInv, TypeOK, Others
<1>2. work' \in [Threads -> Tasks \cup {NoTask}]
  BY <1>1 DEF Others
<1> QED BY <1>1, <1>2 DEF TypeInv, TypeOK, Carries

\* A handler leaves the jobs of the workers alone.
LEMMA HandlerLeavesJobs ==
  ASSUME TypeInv, NEW t \in Handlers, Others(t), UNCHANGED jobs
  PROVE  JobsAreHeld'
<1>1. \A w \in Workers : work'[w] = work[w]
  BY LifecycleAssumption DEF Others, Threads
<1> QED BY <1>1 DEF TypeInv, JobsAreHeld, Idle

\* What nothing has disturbed still fits after a step of t that goes on or ends.
LEMMA FitStep ==
  ASSUME TypeInv, FitInv, NEW t \in Threads, Others(t),
         UNCHANGED <<usable, disturbed>>,
         Touched(work'[t]) \subseteq Touched(work[t]),
         \A m \in Models \ Touched(work[t]) : registry'[m] = registry[m] /\ passed'[m] = passed[m],
         \A m \in (Models \cap Touched(work[t])) \ disturbed : RowFits(m)',
         TaskFits(t)'
  PROVE  FitInv'
<1>1. OverlapsAreKnown'
  BY DEF FitInv, OverlapsAreKnown, Others
<1>2. ASSUME NEW m \in Models \ disturbed, m \notin Touched(work[t]) PROVE RowFits(m)'
  <2>1. RowFits(m) /\ registry'[m] = registry[m] /\ passed'[m] = passed[m]
    BY <1>2 DEF FitInv
  <2>2. work[t].op # "revoke"
    BY <1>2 DEF Touched
  <2>3. \A u \in Threads : work[u].op = "revoke" => work'[u] = work[u]
    BY <2>2 DEF Others
  <2> QED BY <2>1, <2>3 DEF RowFits, IsReady
<1>3. ASSUME NEW u \in Threads \ {t} PROVE TaskFits(u)'
  <2>1. TaskFits(u) /\ work'[u] = work[u] /\ Carries(work[u])
    BY DEF FitInv, Others, TypeInv
  <2>2. CASE work[u].op \in Reading /\ work[u].on \notin disturbed
    <3>1. work[u].on \in Models /\ work[u].on \in Touched(work[u])
      BY <2>1, <2>2 DEF Carries, Touched, Reading
    <3>2. work[u].on \notin Touched(work[t])
      BY <2>2, <3>1 DEF FitInv, OverlapsAreKnown
    <3> QED BY <2>1, <3>1, <3>2 DEF TaskFits, IsReady
  <2> QED BY <2>1, <2>2 DEF TaskFits
<1> QED BY <1>1, <1>2, <1>3 DEF FitInv, TaskFits

\* And after t has begun a task.
LEMMA FitBegin ==
  ASSUME TypeInv, FitInv, NEW t \in Threads, NEW T, Begin(t, T),
         T.op # "revoke" => UNCHANGED usable,
         \A m \in Models \ Touched(T) : registry'[m] = registry[m] /\ passed'[m] = passed[m],
         \A m \in (Models \cap Touched(T)) \ disturbed' : RowFits(m)',
         TaskFits(t)'
  PROVE  FitInv' /\ Others(t) /\ work'[t] = T
<1>1. /\ Others(t) /\ work'[t] = T /\ Idle(t)
      /\ disturbed' = disturbed \cup
           (Touched(T) \cap UNION {Touched(work[u]) : u \in Threads \ {t}})
  BY DEF Begin, Others, TypeInv, TypeOK
<1>2. \A u \in Threads \ {t} : Touched(T) \cap Touched(work[u]) \subseteq disturbed'
  BY <1>1
<1>3. disturbed \subseteq disturbed'
  BY <1>1
<1>4. OverlapsAreKnown'
  BY <1>1, <1>2, <1>3 DEF FitInv, OverlapsAreKnown, Others
<1>5. ASSUME NEW m \in Models \ disturbed', m \notin Touched(T) PROVE RowFits(m)'
  <2>1. RowFits(m) /\ registry'[m] = registry[m] /\ passed'[m] = passed[m] /\ usable' = usable
    BY <1>3, <1>5 DEF FitInv, Touched
  <2>2. \A u \in Threads : work[u].op = "revoke" => work'[u] = work[u]
    BY <1>1, NoTaskForm DEF Others, Idle
  <2> QED BY <2>1, <2>2 DEF RowFits, IsReady
<1>6. ASSUME NEW u \in Threads \ {t} PROVE TaskFits(u)'
  <2>1. TaskFits(u) /\ work'[u] = work[u] /\ Carries(work[u])
    BY <1>1 DEF FitInv, Others, TypeInv
  <2>2. CASE work[u].op \in Reading /\ work[u].on \notin disturbed'
    <3>1. work[u].on \in Models /\ work[u].on \in Touched(work[u])
      BY <2>1, <2>2 DEF Carries, Touched, Reading
    <3>2. work[u].on \notin Touched(T) /\ work[u].on \notin disturbed
      BY <1>2, <1>3, <2>2, <3>1
    <3>3. usable' = usable
      BY <3>1, <3>2 DEF Touched
    <3> QED BY <2>1, <2>2, <3>1, <3>2, <3>3 DEF TaskFits, IsReady
  <2> QED BY <2>1, <2>2 DEF TaskFits
<1> QED BY <1>1, <1>4, <1>5, <1>6 DEF FitInv, TaskFits

-----------------------------------------------------------------------------
(* Requests: how they begin.                                               *)

SpentOK == spent \in [requests : 0..MaxRequests, crashes : 0..MaxCrashes]

\* The types after a task has begun.
LEMMA TypedBegin ==
  ASSUME TypeInv, NEW t \in Threads, NEW T \in Tasks, Begin(t, T), Carries(T),
         Touched(T) \subseteq Models,
         registry' \in [Models -> Rows \cup {NoRow}],
         usable' \subseteq Credentials, UNCHANGED passed,
         jobs' \in [Jobs -> [status : {"new", "queued", "running", "succeeded", "failed"},
                             model : Models \cup {NoModel}]],
         SpentOK', JobsAreHeld'
  PROVE  TypeInv'
<1>1. Others(t) /\ work'[t] = T /\ disturbed' \subseteq Models
  BY DEF Begin, Others, TypeInv, TypeOK
<1> QED BY <1>1, TypedStep DEF TypeInv, TypeOK, SpentOK

\* A row is read.
LEMMA ReadKeeps ==
  ASSUME TypeInv, FitInv, NEW t \in Handlers, NEW m \in Models,
         NEW op \in Reading, NEW step \in Steps, NEW c \in Contents,
         op = "credential" => c \in Configs /\ step = "secret",
         op = "validate" => step = "find",
         step = "secret" => op \in {"credential", "test"},
         op = "activate" => registry[m].validated /\ IsReady(registry[m].config),
         Read(t, op, step, m, c),
         UNCHANGED <<registry, usable, passed, jobs>>, SpentOK'
  PROVE  TypeInv' /\ FitInv'
<1> DEFINE T == [Task(op, step, m, c) EXCEPT !.seen = registry[m]]
<1>1. /\ Exists(m) /\ Begin(t, T) /\ t \in Threads /\ op \in Ops
      /\ registry[m] \in Rows
  BY DEF Read, Threads, Exists, TypeInv, TypeOK, Reading, Ops
<1>2. /\ T.op = op /\ T.step = step /\ T.on = m /\ T.config = c /\ T.seen = registry[m]
      /\ T.job = NoJob /\ T \in Tasks
  <2>1. Task(op, step, m, c) \in Tasks
    BY <1>1, TaskForm
  <2> QED BY <1>1, <2>1, TaskForm DEF Tasks
<1> HIDE DEF T
<1>3. Touched(T) = {m} /\ Carries(T)
  BY <1>1, <1>2 DEF Touched, Carries, Reading
<1>4. /\ Others(t) /\ work'[t] = T /\ Idle(t)
  BY <1>1 DEF Begin, Others, TypeInv, TypeOK
<1>5. JobsAreHeld'
  BY <1>4, HandlerLeavesJobs
<1>6. TypeInv'
  BY <1>1, <1>2, <1>3, <1>5, TypedBegin DEF TypeInv, TypeOK
<1>7. m \notin disturbed' => RowFits(m)'
  <2> SUFFICES ASSUME m \notin disturbed' PROVE RowFits(m)'
    OBVIOUS
  <2>1. RowFits(m)
    BY <1>1 DEF FitInv, Begin
  <2>2. \A u \in Threads : work[u].op = "revoke" => work'[u] = work[u]
    BY <1>4, NoTaskForm DEF Others, Idle
  <2> QED BY <2>1, <2>2 DEF RowFits, IsReady
<1>8. TaskFits(t)'
  BY <1>2, <1>4 DEF TaskFits, IsReady
<1> QED BY <1>1, <1>3, <1>6, <1>7, <1>8, FitBegin

\* A model is about to be written anew.
LEMMA CreateBegins ==
  ASSUME TypeInv, FitInv, NEW t \in Handlers, NEW m \in Models, NEW c \in Configs,
         BeginCreate(t, m, c), UNCHANGED <<registry, usable, passed, jobs>>, SpentOK'
  PROVE  TypeInv' /\ FitInv'
<1> DEFINE T == Task("create", "write", m, c)
<1>1. Begin(t, T) /\ t \in Threads /\ c \in Contents
  BY Configurations DEF BeginCreate, Threads
<1>2. T.op = "create" /\ T.step = "write" /\ T.on = m /\ T.config = c /\ T \in Tasks
  <2>1. "create" \in Ops /\ "write" \in Steps
    BY DEF Ops, Steps
  <2> QED BY <1>1, <2>1, TaskForm
<1> HIDE DEF T
<1>3. Touched(T) = {m} /\ Carries(T)
  BY <1>2 DEF Touched, Carries, Reading
<1>4. /\ Others(t) /\ work'[t] = T /\ Idle(t)
  BY <1>1 DEF Begin, Others, TypeInv, TypeOK
<1>5. TypeInv'
  BY <1>1, <1>2, <1>3, <1>4, TypedBegin, HandlerLeavesJobs DEF TypeInv, TypeOK
<1>6. m \notin disturbed' => RowFits(m)'
  <2> SUFFICES ASSUME m \notin disturbed' PROVE RowFits(m)'
    OBVIOUS
  <2>1. RowFits(m)
    BY <1>1 DEF FitInv, Begin
  <2>2. \A u \in Threads : work[u].op = "revoke" => work'[u] = work[u]
    BY <1>4, NoTaskForm DEF Others, Idle
  <2> QED BY <2>1, <2>2 DEF RowFits, IsReady
<1>7. TaskFits(t)'
  BY <1>2, <1>4 DEF TaskFits, Reading
<1> QED BY <1>1, <1>2, <1>3, <1>5, <1>6, <1>7, FitBegin

\* A credential is revoked, and its models are still to follow.
LEMMA RevokeBegins ==
  ASSUME TypeInv, FitInv, NEW t \in Handlers, NEW k \in Credentials,
         BeginRevoke(t, k), UNCHANGED <<registry, passed, jobs>>, SpentOK'
  PROVE  TypeInv' /\ FitInv'
<1> DEFINE T == Task("revoke", "write", NoModel, Config("none", k))
<1>1. Begin(t, T) /\ t \in Threads /\ usable' = usable \ {k}
  BY DEF BeginRevoke, Threads
<1>2. T.op = "revoke" /\ T.step = "write" /\ T.config.credential = k /\ T \in Tasks
  <2>1. "revoke" \in Ops /\ "write" \in Steps
    BY DEF Ops, Steps
  <2>2. Config("none", k) \in Contents
    BY DEF Config, Contents
  <2> QED BY <2>1, <2>2, TaskForm, Configurations
<1> HIDE DEF T
<1>3. Touched(T) = Models /\ Carries(T)
  BY <1>2 DEF Touched, Carries, Reading
<1>4. /\ Others(t) /\ work'[t] = T /\ Idle(t)
      /\ disturbed' = disturbed \cup
           (Touched(T) \cap UNION {Touched(work[u]) : u \in Threads \ {t}})
  BY <1>1 DEF Begin, Others, TypeInv, TypeOK
<1>5. TypeInv'
  BY <1>1, <1>2, <1>3, <1>4, TypedBegin, HandlerLeavesJobs DEF TypeInv, TypeOK
<1>6. ASSUME NEW m \in Models \ disturbed' PROVE RowFits(m)'
  <2>1. RowFits(m)
    BY <1>4 DEF FitInv
  <2>2. \A u \in Threads : work[u].op # "revoke"
    <3> SUFFICES ASSUME NEW u \in Threads, work[u].op = "revoke" PROVE FALSE
      OBVIOUS
    <3>1. u # t
      BY <1>4, NoTaskForm DEF Idle
    <3>2. Touched(work[u]) = Models
      BY DEF Touched
    <3> QED BY <1>3, <1>4, <3>1, <3>2
  <2>3. registry[m].life = "active" =>
          IsReady(registry[m].config)' \/ registry[m].config.credential = k
    BY <1>1, <2>1, <2>2 DEF RowFits, IsReady
  <2> QED BY <1>1, <1>2, <1>4, <2>1, <2>3 DEF RowFits, IsReady
<1>7. TaskFits(t)'
  BY <1>2, <1>4 DEF TaskFits, Reading
<1> QED BY <1>1, <1>2, <1>3, <1>5, <1>6, <1>7, FitBegin

\* A row that was just written anew fits.
LEMMA NewRowFits ==
  ASSUME NEW m \in Models, NEW life, NEW c, life # "active",
         registry'[m] = Row(life, c)
  PROVE  RowFits(m)'
<1> DEFINE row == Row(life, c)
<1>1. row.life = life /\ row.print = row.config /\ row.validated = FALSE
  BY DEF Row
<1> HIDE DEF row
<1>2. registry'[m] = row
  BY DEF row
<1> QED BY <1>1, <1>2 DEF RowFits

LEMMA Upserted ==
  ASSUME TypeInv, NEW m \in Models, NEW life \in Life, NEW c \in Configs, Upsert(m, life, c)
  PROVE  /\ registry' \in [Models -> Rows \cup {NoRow}]
         /\ registry'[m] = Row(life, c)
         /\ \A n \in Models : n # m => registry'[n] = registry[n]
<1>1. Row(life, c) \in Rows
  BY RowForm
<1> QED BY <1>1 DEF Upsert, TypeInv, TypeOK

\* A download writes the model anew, and then the job.
LEMMA DownloadBegins ==
  ASSUME TypeInv, FitInv, NEW t \in Handlers, NEW m \in Models,
         BeginDownload(t, m), UNCHANGED <<usable, passed, jobs>>, SpentOK'
  PROVE  TypeInv' /\ FitInv'
<1> DEFINE T == Task("download", "write", m, NoConfig)
<1> DEFINE c == Config("downloading", NoCredential)
<1>1. Begin(t, T) /\ t \in Threads /\ Upsert(m, "created", c)
  BY DEF BeginDownload, Threads
<1>2. /\ T.op = "download" /\ T.step = "write" /\ T.on = m /\ T \in Tasks
      /\ c \in Configs
  <2>1. /\ "download" \in Ops /\ "write" \in Steps /\ "downloading" \in Settings
    BY DEF Ops, Steps, Settings, LocalSettings
  <2> QED BY <2>1, TaskForm, Configurations
<1> HIDE DEF T, c
<1>3. /\ registry' \in [Models -> Rows \cup {NoRow}]
      /\ registry'[m] = Row("created", c)
      /\ \A n \in Models : n # m => registry'[n] = registry[n]
  <2>1. "created" \in Life
    BY DEF Life
  <2> QED BY <1>1, <1>2, <2>1, Upserted
<1>4. Touched(T) = {m} /\ Carries(T)
  BY <1>2 DEF Touched, Carries, Reading
<1>5. /\ Others(t) /\ work'[t] = T
  BY <1>1 DEF Begin, Others, TypeInv, TypeOK
<1>6. TypeInv'
  BY <1>1, <1>2, <1>3, <1>4, <1>5, TypedBegin, HandlerLeavesJobs DEF TypeInv, TypeOK
<1>7. RowFits(m)'
  BY <1>3, NewRowFits
<1>8. TaskFits(t)'
  BY <1>2, <1>5 DEF TaskFits, Reading
<1> QED BY <1>1, <1>2, <1>3, <1>4, <1>6, <1>7, <1>8, FitBegin

\* Every request.
LEMMA RequestKeeps ==
  ASSUME TypeInv, FitInv, NEW t \in Handlers, Request(t)
  PROVE  TypeInv' /\ FitInv'
<1>1. SpentOK' /\ UNCHANGED <<passed, jobs>>
  <2>1. /\ spent \in [requests : 0..MaxRequests, crashes : 0..MaxCrashes]
        /\ spent' = [spent EXCEPT !.requests = @ + 1] /\ spent.requests < MaxRequests
        /\ MaxRequests \in Nat /\ UNCHANGED <<passed, jobs>>
    BY LifecycleAssumption DEF Request, TypeInv, TypeOK
  <2>2. spent.requests + 1 \in 0..MaxRequests
    BY <2>1
  <2> QED BY <2>1, <2>2 DEF SpentOK
<1>2. NoConfig \in Contents
  BY Configurations
<1>3. "write" \in Steps /\ "find" \in Steps /\ "secret" \in Steps
  BY DEF Steps
<1>4. ASSUME NEW m \in Models, UNCHANGED <<registry, usable>>,
             \/ \E c \in Configs : BeginCreate(t, m, c)
             \/ \E k \in Credentials : BeginCredential(t, m, k)
             \/ BeginRegister(t, m) \/ BeginActivate(t, m)
             \/ BeginDeactivate(t, m) \/ BeginUnregister(t, m)
             \/ BeginDelete(t, m) \/ BeginTest(t, m) \/ BeginValidate(t, m)
      PROVE  TypeInv' /\ FitInv'
  <2>1. CASE \E c \in Configs : BeginCreate(t, m, c)
    BY <1>1, <1>4, <2>1, CreateBegins
  <2>2. CASE \E k \in Credentials : BeginCredential(t, m, k)
    <3>1. PICK k \in Credentials : BeginCredential(t, m, k)
      BY <2>2
    <3> DEFINE c == [registry[m].config EXCEPT !.credential = k]
    <3>2. Read(t, "credential", "secret", m, c)
      BY <3>1 DEF BeginCredential
    <3>3. registry[m] \in Rows
      BY <3>2 DEF Read, Exists, TypeInv, TypeOK
    <3>4. c \in Configs
      BY <3>3, Configurations DEF Rows
    <3>5. c \in Contents /\ "credential" \in Reading
      BY <3>4, Configurations DEF Reading
    <3> HIDE DEF c
    <3> QED BY <1>1, <1>3, <1>4, <3>2, <3>4, <3>5, ReadKeeps
  <2>3. CASE BeginRegister(t, m)
    <3>1. Read(t, "register", "write", m, NoConfig) /\ "register" \in Reading
      BY <2>3 DEF BeginRegister, Reading
    <3> QED BY <1>1, <1>2, <1>3, <1>4, <3>1, ReadKeeps
  <2>4. CASE BeginActivate(t, m)
    <3>1. Read(t, "activate", "write", m, NoConfig) /\ "activate" \in Reading
          /\ registry[m].validated /\ IsReady(registry[m].config)
      BY <2>4 DEF BeginActivate, Reading
    <3> QED BY <1>1, <1>2, <1>3, <1>4, <3>1, ReadKeeps
  <2>5. CASE BeginDeactivate(t, m)
    <3>1. Read(t, "deactivate", "write", m, NoConfig) /\ "deactivate" \in Reading
      BY <2>5 DEF BeginDeactivate, Reading
    <3> QED BY <1>1, <1>2, <1>3, <1>4, <3>1, ReadKeeps
  <2>6. CASE BeginUnregister(t, m)
    <3>1. Read(t, "unregister", "write", m, NoConfig) /\ "unregister" \in Reading
      BY <2>6 DEF BeginUnregister, Reading
    <3> QED BY <1>1, <1>2, <1>3, <1>4, <3>1, ReadKeeps
  <2>7. CASE BeginDelete(t, m)
    <3>1. Read(t, "delete", "write", m, NoConfig) /\ "delete" \in Reading
      BY <2>7 DEF BeginDelete, Reading
    <3> QED BY <1>1, <1>2, <1>3, <1>4, <3>1, ReadKeeps
  <2>8. CASE BeginTest(t, m)
    <3>1. PICK step \in {"secret", "write"} : Read(t, "test", step, m, NoConfig)
      BY <2>8 DEF BeginTest
    <3>2. "test" \in Reading /\ step \in Steps
      BY <1>3 DEF Reading
    <3> QED BY <1>1, <1>2, <1>4, <3>1, <3>2, ReadKeeps
  <2>9. CASE BeginValidate(t, m)
    <3>1. Read(t, "validate", "find", m, NoConfig) /\ "validate" \in Reading
      BY <2>9 DEF BeginValidate, Reading
    <3> QED BY <1>1, <1>2, <1>3, <1>4, <3>1, ReadKeeps
  <2> QED BY <1>4, <2>1, <2>2, <2>3, <2>4, <2>5, <2>6, <2>7, <2>8, <2>9
<1>5. CASE (\E k \in Credentials : BeginRevoke(t, k)) /\ UNCHANGED registry
  BY <1>1, <1>5, RevokeBegins
<1>6. CASE (\E m \in Models : BeginDownload(t, m)) /\ UNCHANGED usable
  BY <1>1, <1>6, DownloadBegins
<1> QED BY <1>4, <1>5, <1>6 DEF Request

-----------------------------------------------------------------------------
(* Requests: how they go on.                                               *)

\* A task at work.
LEMMA AtWork ==
  ASSUME TypeInv, NEW t \in Threads, NEW op, NEW step, At(t, op, step), op # "none"
  PROVE  /\ work[t] \in Tasks /\ work[t].op = op /\ work[t].step = step /\ Carries(work[t])
         /\ op # "revoke" => work[t].on \in Models /\ Touched(work[t]) = {work[t].on}
         /\ op \in Reading => work[t].seen \in Rows
         /\ work[t].config \in Contents
<1>1. work[t] \in Tasks /\ work[t].op = op /\ work[t].step = step /\ Carries(work[t])
  BY NoTaskForm DEF At, TypeInv, TypeOK
<1>2. work[t].config \in Contents
  BY <1>1, TaskParts
<1> QED BY <1>1, <1>2 DEF Carries, Touched

\* A thread ends.
LEMMA EndOf ==
  ASSUME TypeInv, FitInv, NEW t \in Threads, End(t),
         registry' \in [Models -> Rows \cup {NoRow}], passed' \in [Models -> SUBSET Configs],
         UNCHANGED <<usable, spent>>,
         jobs' \in [Jobs -> [status : {"new", "queued", "running", "succeeded", "failed"},
                             model : Models \cup {NoModel}]],
         JobsAreHeld',
         \A m \in Models \ Touched(work[t]) : registry'[m] = registry[m] /\ passed'[m] = passed[m],
         \A m \in (Models \cap Touched(work[t])) \ disturbed : RowFits(m)'
  PROVE  TypeInv' /\ FitInv'
<1>1. /\ Others(t) /\ work'[t] = NoTask /\ t \in Threads /\ UNCHANGED disturbed
  BY DEF End, Others, TypeInv, TypeOK, Threads
<1>2. TypeInv'
  BY <1>1, NoTaskForm, TypedStep DEF TypeInv, TypeOK
<1>3. TaskFits(t)' /\ Touched(work'[t]) = {}
  BY <1>1, NoTaskForm DEF TaskFits, Reading
<1> QED BY <1>1, <1>2, <1>3, FitStep

LEMMA EndKeeps ==
  ASSUME TypeInv, FitInv, NEW t \in Handlers, End(t),
         registry' \in [Models -> Rows \cup {NoRow}], passed' \in [Models -> SUBSET Configs],
         UNCHANGED <<usable, jobs, spent>>,
         \A m \in Models \ Touched(work[t]) : registry'[m] = registry[m] /\ passed'[m] = passed[m],
         \A m \in (Models \cap Touched(work[t])) \ disturbed : RowFits(m)'
  PROVE  TypeInv' /\ FitInv'
<1>1. Others(t) /\ t \in Threads
  BY DEF End, Others, TypeInv, TypeOK, Threads
<1>2. JobsAreHeld'
  BY <1>1, HandlerLeavesJobs
<1>3. jobs' \in [Jobs -> [status : {"new", "queued", "running", "succeeded", "failed"},
                          model : Models \cup {NoModel}]]
  BY DEF TypeInv, TypeOK
<1> QED BY <1>1, <1>2, <1>3, EndOf

\* A row that stays still fits when h has ended, unless h was a revocation.
LEMMA RowStays ==
  ASSUME TypeInv, FitInv, NEW t \in Threads, Others(t), NEW m \in Models \ disturbed,
         work[t].op # "revoke", UNCHANGED usable,
         registry'[m] = registry[m], passed[m] \subseteq passed'[m]
  PROVE  RowFits(m)'
<1>1. RowFits(m)
  BY DEF FitInv
<1>2. \A u \in Threads : work[u].op = "revoke" => work'[u] = work[u]
  BY DEF Others
<1> QED BY <1>1, <1>2 DEF RowFits, IsReady

LEMMA CreateKeeps ==
  ASSUME TypeInv, FitInv, NEW t \in Handlers, Create(t)
  PROVE  TypeInv' /\ FitInv'
<1>1. PICK m \in Models, c \in Configs :
        m = work[t].on /\ Touched(work[t]) = {m} /\ c = work[t].config
  BY AtWork DEF Create, Threads, Carries
<1>2. /\ Upsert(m, "registered", c) /\ End(t) /\ UNCHANGED <<usable, passed, jobs, spent>>
      /\ "registered" \in Life
  BY <1>1 DEF Create, Life
<1>3. /\ registry' \in [Models -> Rows \cup {NoRow}]
      /\ registry'[m] = Row("registered", c)
      /\ \A n \in Models : n # m => registry'[n] = registry[n]
  BY <1>1, <1>2, Upserted
<1>4. RowFits(m)'
  BY <1>1, <1>3, NewRowFits
<1>5. passed' \in [Models -> SUBSET Configs]
  BY <1>2, Typing
<1> QED BY <1>1, <1>2, <1>3, <1>4, <1>5, EndKeeps

\* A row is written.
LEMMA Written ==
  ASSUME TypeInv, NEW m \in Models, NEW row,
         registry[m] \in Rows => row \in Rows, Write(m, row)
  PROVE  /\ registry' \in [Models -> Rows \cup {NoRow}]
         /\ registry'[m] = IF Exists(m) THEN row ELSE registry[m]
         /\ \A n \in Models : n # m => registry'[n] = registry[n]
  BY DEF Write, Exists, TypeInv, TypeOK

\* A row by its parts.
LEMMA RowFitsBy ==
  ASSUME NEW m, NEW row, registry'[m] = row,
         row.print = row.config,
         row.validated => row.tested = row.print /\ row.print \in passed'[m],
         row.life = "active" =>
           /\ row.validated
           /\ IsCloud(row.config) /\ row.config.credential # NoCredential
                => row.config.credential \in usable'
  PROVE  RowFits(m)'
  BY DEF RowFits, IsReady

LEMMA SetLifeKeeps ==
  ASSUME TypeInv, FitInv, NEW t \in Handlers, SetLife(t)
  PROVE  TypeInv' /\ FitInv'
<1>1. PICK op \in {"register", "activate", "deactivate", "unregister"}, life \in Life :
        /\ At(t, op, "write") /\ (life = "active" => op = "activate")
        /\ Write(work[t].on, [registry[work[t].on] EXCEPT !.life = life])
  <2>1. PICK op \in DOMAIN TargetLife :
          /\ At(t, op, "write")
          /\ Write(work[t].on, [registry[work[t].on] EXCEPT !.life = TargetLife[op]])
    BY DEF SetLife
  <2> DEFINE life == TargetLife[op]
  <2>2. op \in {"register", "activate", "deactivate", "unregister"}
    BY DEF TargetLife
  <2>3. life \in Life /\ (life = "active" => op = "activate")
    BY <2>2 DEF TargetLife, Life
  <2>4. Write(work[t].on, [registry[work[t].on] EXCEPT !.life = life])
    BY <2>1
  <2> HIDE DEF life
  <2> QED BY <2>1, <2>2, <2>3, <2>4
<1>2. op \in Reading /\ op # "none" /\ op # "revoke" /\ t \in Threads
  BY <1>1 DEF Reading, Threads
<1>3. PICK m \in Models :
        m = work[t].on /\ work[t].op = op /\ Touched(work[t]) = {m} /\ work[t].seen \in Rows
  BY <1>1, <1>2, AtWork
<1>4. End(t) /\ UNCHANGED <<usable, passed, jobs, spent>>
  BY DEF SetLife
<1>5. PICK row : row = [registry[m] EXCEPT !.life = life]
  OBVIOUS
<1>6. registry[m] \in Rows =>
        /\ row \in Rows /\ row.life = life /\ row.config = registry[m].config
        /\ row.print = registry[m].print /\ row.validated = registry[m].validated
        /\ row.tested = registry[m].tested
  BY <1>5 DEF Rows
<1>7. /\ registry' \in [Models -> Rows \cup {NoRow}]
      /\ registry'[m] = IF Exists(m) THEN row ELSE registry[m]
      /\ \A n \in Models : n # m => registry'[n] = registry[n]
  BY <1>1, <1>3, <1>5, <1>6, Written
<1>8. m \notin disturbed => RowFits(m)'
  <2> SUFFICES ASSUME m \notin disturbed PROVE RowFits(m)'
    OBVIOUS
  <2>1. RowFits(m) /\ TaskFits(t)
    BY <1>2, <1>3 DEF FitInv
  <2>2. /\ registry[m] = work[t].seen
        /\ op = "activate" => registry[m].validated /\ IsReady(registry[m].config)
    BY <1>2, <1>3, <2>1 DEF TaskFits
  <2>3. /\ registry'[m] = row /\ registry[m] \in Rows
    BY <1>3, <1>7, <2>2, NoRowForm DEF Exists
  <2>4. /\ row.print = row.config
        /\ row.validated => row.tested = row.print /\ row.print \in passed'[m]
    BY <1>4, <1>6, <2>1, <2>3 DEF RowFits
  <2>5. row.life = "active" =>
          /\ row.validated
          /\ IsCloud(row.config) /\ row.config.credential # NoCredential
               => row.config.credential \in usable'
    BY <1>1, <1>4, <1>6, <2>2, <2>3 DEF IsReady
  <2> QED BY <2>3, <2>4, <2>5, RowFitsBy
<1>9. passed' \in [Models -> SUBSET Configs] /\ UNCHANGED passed
  BY <1>4, Typing
<1> QED BY <1>3, <1>4, <1>7, <1>8, <1>9, EndKeeps

LEMMA DeleteKeeps ==
  ASSUME TypeInv, FitInv, NEW t \in Handlers, Delete(t)
  PROVE  TypeInv' /\ FitInv'
<1>1. PICK m \in Models : m = work[t].on /\ Touched(work[t]) = {m}
  BY AtWork DEF Delete, Threads, Reading
<1>2. /\ registry' = [registry EXCEPT ![m] = NoRow] /\ passed' = [passed EXCEPT ![m] = {}]
      /\ End(t) /\ UNCHANGED <<usable, jobs, spent>>
  BY <1>1 DEF Delete
<1>3. registry \in [Models -> Rows \cup {NoRow}] /\ passed \in [Models -> SUBSET Configs]
  BY Typing
<1>4. /\ registry'[m] = NoRow
      /\ \A n \in Models : n # m => registry'[n] = registry[n] /\ passed'[n] = passed[n]
      /\ registry' \in [Models -> Rows \cup {NoRow}]
      /\ passed' \in [Models -> SUBSET Configs]
  BY <1>1, <1>2, <1>3
<1>5. RowFits(m)'
  BY <1>4, NoRowForm DEF RowFits
<1> QED BY <1>1, <1>2, <1>4, <1>5, EndKeeps

\* A handler ends and has changed nothing.
LEMMA EndUnchanged ==
  ASSUME TypeInv, FitInv, NEW t \in Handlers, End(t), work[t].op # "revoke",
         UNCHANGED <<registry, usable, passed, jobs, spent>>
  PROVE  TypeInv' /\ FitInv'
<1>1. Others(t) /\ t \in Threads
  BY DEF End, Others, TypeInv, TypeOK, Threads
<1>2. \A m \in Models \ disturbed : RowFits(m)'
  BY <1>1, RowStays
<1>3. registry' \in [Models -> Rows \cup {NoRow}] /\ passed' \in [Models -> SUBSET Configs]
  BY Typing
<1> QED BY <1>2, <1>3, EndKeeps

\* A request goes on with what it has read.
LEMMA GoOn ==
  ASSUME TypeInv, FitInv, NEW t \in Handlers, work[t].op \in Reading,
         UNCHANGED <<registry, usable, passed, jobs, spent, disturbed>>, Others(t),
         NEW T \in Tasks, work'[t] = T, T.op = work[t].op, T.on = work[t].on, Carries(T),
         TaskFits(t)'
  PROVE  TypeInv' /\ FitInv'
<1>1. t \in Threads /\ work[t].op # "revoke" /\ Touched(T) = Touched(work[t])
  BY DEF Threads, Reading, Touched
<1>2. TypeInv'
  BY <1>1, TypedStep, HandlerLeavesJobs DEF TypeInv, TypeOK
<1>3. \A m \in Models \ disturbed : RowFits(m)'
  BY <1>1, RowStays
<1> QED BY <1>1, <1>2, <1>3, FitStep

LEMMA NextStep ==
  ASSUME TypeInv, FitInv, NEW t \in Handlers, work[t].op \in Reading, NEW s \in Steps \ {"secret"},
         Step(t, s), UNCHANGED <<registry, usable, passed, jobs, spent>>,
         work[t].op = "validate" /\ s = "write" => work[t].seen.print \in passed[work[t].on],
         work[t].op = "credential" => s # "write"
  PROVE  TypeInv' /\ FitInv'
<1>1. t \in Threads /\ work[t] \in Tasks /\ Carries(work[t])
  BY NoTaskForm DEF Threads, TypeInv, TypeOK, Reading
<1>2. PICK T : T = [work[t] EXCEPT !.step = s]
  OBVIOUS
<1>3. /\ T \in Tasks /\ T.op = work[t].op /\ T.step = s /\ T.on = work[t].on
      /\ T.seen = work[t].seen /\ T.config = work[t].config
  BY <1>1, <1>2, TaskParts
<1>4. Others(t) /\ work'[t] = T /\ UNCHANGED disturbed
  BY <1>1, <1>2 DEF Step, Others, TypeInv, TypeOK
<1>5. Carries(T)
  BY <1>1, <1>3 DEF Carries, Reading
<1>6. TaskFits(t)
  BY <1>1 DEF FitInv
<1>7. TaskFits(t)'
  BY <1>3, <1>4, <1>6 DEF TaskFits, IsReady
<1> QED BY <1>3, <1>4, <1>5, <1>7, GoOn

LEMMA FindSecretKeeps ==
  ASSUME TypeInv, FitInv, NEW t \in Handlers, FindSecret(t)
  PROVE  TypeInv' /\ FitInv'
<1>1. work[t].op \in {"credential", "test"}
  BY DEF FindSecret, TypeInv, Carries, Threads
<1>2. work[t].op \in Reading /\ work[t].op # "revoke"
  BY <1>1 DEF Reading
<1>3. /\ End(t) \/ Step(t, IF work[t].op = "credential" THEN "reread" ELSE "write")
      /\ UNCHANGED <<registry, usable, passed, jobs, spent>>
  BY DEF FindSecret
<1>4. "reread" \in Steps \ {"secret"} /\ "write" \in Steps \ {"secret"}
  BY DEF Steps
<1>5. CASE End(t)
  BY <1>2, <1>3, <1>5, EndUnchanged
<1>6. CASE Step(t, IF work[t].op = "credential" THEN "reread" ELSE "write")
  <2>1. PICK s \in Steps \ {"secret"} :
          Step(t, s) /\ s = IF work[t].op = "credential" THEN "reread" ELSE "write"
    BY <1>4, <1>6
  <2> QED BY <1>1, <1>2, <1>3, <2>1, NextStep
<1> QED BY <1>3, <1>5, <1>6

LEMMA FindTestRunKeeps ==
  ASSUME TypeInv, FitInv, NEW t \in Handlers, FindTestRun(t)
  PROVE  TypeInv' /\ FitInv'
<1>1. work[t].op = "validate"
  BY DEF FindTestRun, At
<1>2. work[t].op \in Reading /\ work[t].op # "revoke" /\ "write" \in Steps \ {"secret"}
  BY <1>1 DEF Reading, Steps
<1>3. /\ End(t) \/ (Step(t, "write") /\ work[t].seen.print \in passed[work[t].on])
      /\ UNCHANGED <<registry, usable, passed, jobs, spent>>
  BY DEF FindTestRun
<1> QED BY <1>1, <1>2, <1>3, EndUnchanged, NextStep

LEMMA RereadKeeps ==
  ASSUME TypeInv, FitInv, NEW t \in Handlers, Reread(t)
  PROVE  TypeInv' /\ FitInv'
<1>1. /\ work[t] \in Tasks /\ work[t].op = "credential" /\ Carries(work[t]) /\ t \in Threads
      /\ work[t].on \in Models /\ UNCHANGED <<registry, usable, passed, jobs, spent>>
  BY AtWork DEF Reread, Threads
<1>2. work[t].op \in Reading /\ work[t].op # "revoke"
  BY <1>1 DEF Reading
<1>3. CASE End(t)
  BY <1>1, <1>2, <1>3, EndUnchanged
<1>4. CASE ~End(t)
  <2>1. PICK row \in Rows : row = registry[work[t].on]
    BY <1>1, <1>4, Typing DEF Reread
  <2>2. PICK c : c = Config(row.config.setting, work[t].config.credential)
    OBVIOUS
  <2>3. c \in Configs /\ c \in Contents /\ c.setting = row.config.setting
    <3>1. row.config.setting \in Settings /\ work[t].config.credential \in Credentials \cup {NoCredential}
      BY <1>1 DEF Rows, Configs, Carries
    <3> QED BY <2>2, <3>1, Configurations
  <2>4. PICK T : T = [work[t] EXCEPT !.step = "write", !.seen = row, !.config = c]
    OBVIOUS
  <2>5. /\ T \in Tasks /\ T.op = work[t].op /\ T.step = "write" /\ T.on = work[t].on
        /\ T.seen = row /\ T.config = c
    BY <1>1, <2>3, <2>4 DEF Tasks, Contents, Steps
  <2>6. /\ work' = [work EXCEPT ![t].step = "write", ![t].seen = row,
                      ![t].config = Config(row.config.setting, @.credential)]
        /\ UNCHANGED disturbed
    BY <1>4, <2>1 DEF Reread
  <2>7. work'[t] = T /\ Others(t)
    <3>1. work \in [Threads -> Tasks \cup {NoTask}]
      BY Typing
    <3>2. work'[t] = [work[t] EXCEPT !.step = "write", !.seen = row,
                        !.config = Config(row.config.setting, work[t].config.credential)]
      BY <1>1, <2>6, <3>1
    <3> QED BY <1>1, <2>2, <2>4, <2>6, <3>1, <3>2 DEF Others
  <2>8. Carries(T)
    BY <1>1, <2>3, <2>5 DEF Carries
  <2>9. TaskFits(t)'
    BY <1>1, <2>1, <2>3, <2>5, <2>7 DEF TaskFits
  <2> QED BY <1>1, <1>2, <2>5, <2>6, <2>7, <2>8, <2>9, GoOn
<1> QED BY <1>3, <1>4

LEMMA InvalidatedForm ==
  ASSUME NEW row \in Rows
  PROVE  /\ Invalidated(row) \in Rows
         /\ Invalidated(row).config = row.config /\ Invalidated(row).print = row.print
         /\ Invalidated(row).validated = FALSE /\ Invalidated(row).life # "active"
<1>1. NoConfig \in Configs \cup {NoConfig} /\ FALSE \in BOOLEAN
  OBVIOUS
<1>2. "inactive" \in Life /\ "inactive" # "active"
  BY DEF Life
<1> QED BY <1>1, <1>2 DEF Invalidated, Rows

LEMMA ChangeCredentialKeeps ==
  ASSUME TypeInv, FitInv, NEW t \in Handlers, ChangeCredential(t)
  PROVE  TypeInv' /\ FitInv'
<1>1. PICK m \in Models, c \in Configs :
        /\ m = work[t].on /\ Touched(work[t]) = {m} /\ c = work[t].config
        /\ At(t, "credential", "write")
  BY AtWork DEF ChangeCredential, Threads, Carries
<1>2. PICK old : old = registry[m]
  OBVIOUS
<1>3. PICK row : row = [Invalidated(old) EXCEPT !.config.credential = c.credential, !.print = c]
  OBVIOUS
<1>4. /\ Write(m, row) /\ End(t) /\ UNCHANGED <<usable, passed, jobs, spent>>
  BY <1>1, <1>2, <1>3 DEF ChangeCredential
<1>5. old \in Rows =>
        /\ row \in Rows /\ row.print = c /\ row.validated = FALSE /\ row.life # "active"
        /\ row.config = [old.config EXCEPT !.credential = c.credential]
  <2> SUFFICES ASSUME old \in Rows
               PROVE  /\ row \in Rows /\ row.print = c /\ row.validated = FALSE /\ row.life # "active"
                      /\ row.config = [old.config EXCEPT !.credential = c.credential]
    OBVIOUS
  <2>1. PICK r \in Rows : /\ r = Invalidated(old) /\ r.config = old.config
                          /\ r.validated = FALSE /\ r.life # "active"
    BY InvalidatedForm
  <2>2. PICK d \in Configs : d = [r.config EXCEPT !.credential = c.credential]
    <3>1. r.config \in Configs /\ c.credential \in Credentials \cup {NoCredential}
      BY DEF Rows, Configs
    <3> QED BY <3>1, Configurations
  <2>3. row = [r EXCEPT !.config = d, !.print = c]
    BY <1>3, <2>1, <2>2 DEF Rows
  <2> QED BY <2>1, <2>2, <2>3 DEF Rows
<1>6. /\ registry' \in [Models -> Rows \cup {NoRow}]
      /\ registry'[m] = IF Exists(m) THEN row ELSE registry[m]
      /\ \A n \in Models : n # m => registry'[n] = registry[n]
  BY <1>2, <1>4, <1>5, Written
<1>7. m \notin disturbed => RowFits(m)'
  <2> SUFFICES ASSUME m \notin disturbed PROVE RowFits(m)'
    OBVIOUS
  <2>1. /\ old = work[t].seen /\ old \in Rows /\ c.setting = old.config.setting
    <3>1. TaskFits(t) /\ work[t].op = "credential" /\ work[t].step = "write"
          /\ work[t].op \in Reading /\ Carries(work[t])
      BY <1>1 DEF FitInv, TypeInv, Threads, At, Reading
    <3> QED BY <1>1, <1>2, <3>1 DEF TaskFits, Carries
  <2>2. row.config = c
    <3>1. old.config \in Configs /\ c.credential \in Credentials \cup {NoCredential}
      BY <2>1 DEF Rows, Configs
    <3>2. PICK o \in Configs : o = old.config
      BY <3>1
    <3>3. PICK d : d = [o EXCEPT !.credential = c.credential]
      OBVIOUS
    <3>4. d \in Configs /\ d.setting = o.setting /\ d.credential = c.credential
      BY <3>1, <3>3 DEF Configs
    <3>5. row.config = d /\ d.setting = c.setting
      BY <1>5, <2>1, <3>2, <3>3, <3>4
    <3> QED BY <3>4, <3>5, Configurations
  <2>3. registry'[m] = row
    BY <1>2, <1>6, <2>1, NoRowForm DEF Exists
  <2> QED BY <1>5, <2>1, <2>2, <2>3, RowFitsBy
<1>8. passed' \in [Models -> SUBSET Configs] /\ UNCHANGED passed
  BY <1>4, Typing
<1> QED BY <1>1, <1>4, <1>6, <1>7, <1>8, EndKeeps

LEMMA TestKeeps ==
  ASSUME TypeInv, FitInv, NEW t \in Handlers, Test(t)
  PROVE  TypeInv' /\ FitInv'
<1>1. PICK m \in Models :
        m = work[t].on /\ Touched(work[t]) = {m} /\ At(t, "test", "write")
        /\ work[t].seen \in Rows
  BY AtWork DEF Test, Threads, Reading
<1>2. PICK c \in Configs : c = work[t].seen.print
  BY <1>1 DEF Rows
<1>3. /\ passed' = passed \/ passed' = [passed EXCEPT ![m] = @ \cup {c}]
      /\ End(t) /\ UNCHANGED <<registry, usable, jobs, spent>>
  BY <1>1, <1>2 DEF Test
<1>4. /\ passed' \in [Models -> SUBSET Configs]
      /\ \A n \in Models : passed[n] \subseteq passed'[n]
      /\ \A n \in Models \ {m} : passed'[n] = passed[n]
  BY <1>3, Typing
<1>5. Others(t) /\ t \in Threads /\ work[t].op # "revoke"
  BY <1>1, <1>3 DEF End, Others, TypeInv, TypeOK, Threads, At
<1>6. \A n \in Models \ disturbed : RowFits(n)'
  BY <1>3, <1>4, <1>5, RowStays
<1>7. registry' \in [Models -> Rows \cup {NoRow}]
  BY <1>3, Typing
<1> QED BY <1>1, <1>3, <1>4, <1>6, <1>7, EndKeeps

LEMMA ValidateKeeps ==
  ASSUME TypeInv, FitInv, NEW t \in Handlers, Validate(t)
  PROVE  TypeInv' /\ FitInv'
<1>1. PICK m \in Models :
        m = work[t].on /\ Touched(work[t]) = {m} /\ At(t, "validate", "write")
        /\ work[t].seen \in Rows
  BY AtWork DEF Validate, Threads, Reading
<1>2. PICK c \in Configs : c = work[t].seen.print
  BY <1>1 DEF Rows
<1>3. PICK old : old = registry[m]
  OBVIOUS
<1>4. PICK row : row = [old EXCEPT !.validated = TRUE, !.tested = c,
                                   !.life = IF @ = "active" THEN @ ELSE "validated"]
  OBVIOUS
<1>5. /\ Write(m, row) /\ End(t) /\ UNCHANGED <<usable, passed, jobs, spent>>
  BY <1>1, <1>2, <1>3, <1>4 DEF Validate
<1>6. old \in Rows =>
        /\ row \in Rows /\ row.config = old.config /\ row.print = old.print
        /\ row.validated = TRUE /\ row.tested = c /\ (row.life = "active" => old.life = "active")
  BY <1>4 DEF Rows, Life
<1>7. /\ registry' \in [Models -> Rows \cup {NoRow}]
      /\ registry'[m] = IF Exists(m) THEN row ELSE registry[m]
      /\ \A n \in Models : n # m => registry'[n] = registry[n]
  BY <1>3, <1>5, <1>6, Written
<1>8. m \notin disturbed => RowFits(m)'
  <2> SUFFICES ASSUME m \notin disturbed PROVE RowFits(m)'
    OBVIOUS
  <2>1. RowFits(m) /\ TaskFits(t) /\ work[t].op = "validate" /\ work[t].step = "write"
        /\ work[t].op \in Reading
    BY <1>1 DEF FitInv, Threads, At, Reading
  <2>2. old = work[t].seen /\ old \in Rows /\ c = old.print /\ c \in passed[m]
    BY <1>1, <1>2, <1>3, <2>1 DEF TaskFits
  <2>3. registry'[m] = row
    BY <1>3, <1>7, <2>2, NoRowForm DEF Exists
  <2>4. \A u \in Threads : work[u].op = "revoke" => work'[u] = work[u]
    BY <1>5, <2>1 DEF End, TypeInv, TypeOK, Threads
  <2>5. RowFits(m) /\ registry[m] = old /\ usable' = usable /\ passed' = passed
    BY <1>3, <1>5, <2>1
  <2> QED BY <1>6, <2>2, <2>3, <2>4, <2>5 DEF RowFits, IsReady
<1>9. passed' \in [Models -> SUBSET Configs] /\ UNCHANGED passed
  BY <1>5, Typing
<1> QED BY <1>1, <1>5, <1>7, <1>8, <1>9, EndKeeps

\* The revocation is written to the models of its credential.
LEMMA MarkRevokedKeeps ==
  ASSUME TypeInv, FitInv, NEW t \in Handlers, MarkRevoked(t)
  PROVE  TypeInv' /\ FitInv'
<1>1. work[t].op = "revoke" /\ Touched(work[t]) = Models
  BY DEF MarkRevoked, At, Touched
<1>2. PICK k : k = work[t].config.credential
  OBVIOUS
<1>3. /\ End(t) /\ UNCHANGED <<usable, passed, jobs, spent>>
      /\ registry' = [m \in Models |->
           IF Exists(m) /\ IsCloud(registry[m].config) /\ registry[m].config.credential = k
           THEN Invalidated(registry[m]) ELSE registry[m]]
  BY <1>2 DEF MarkRevoked
<1>4. registry \in [Models -> Rows \cup {NoRow}] /\ passed \in [Models -> SUBSET Configs]
  BY Typing
<1>5. ASSUME NEW m \in Models
      PROVE  \/ registry'[m] = registry[m]
                /\ (Exists(m) /\ IsCloud(registry[m].config) => registry[m].config.credential # k)
             \/ /\ registry[m] \in Rows
                /\ registry'[m] = Invalidated(registry[m])
  BY <1>3, <1>4 DEF Exists
<1>6. ASSUME NEW m \in Models PROVE registry'[m] \in Rows \cup {NoRow}
  BY <1>4, <1>5, InvalidatedForm
<1>7. registry' \in [Models -> Rows \cup {NoRow}]
  BY <1>3, <1>6
<1>8. \A u \in Threads : u # t => work'[u] = work[u]
  BY <1>3 DEF End, TypeInv, TypeOK
<1>9. ASSUME NEW m \in Models \ disturbed PROVE RowFits(m)'
  <2>1. RowFits(m) /\ m \in Models /\ usable' = usable /\ passed' = passed
    BY <1>3 DEF FitInv
  <2>2. CASE /\ registry'[m] = registry[m]
             /\ (Exists(m) /\ IsCloud(registry[m].config) => registry[m].config.credential # k)
    <3>1. registry[m].life = "active" => Exists(m)
      BY NoRowForm DEF Exists
    <3>2. registry[m].life = "active" =>
            \/ IsReady(registry[m].config)
            \/ \E u \in Threads : /\ work'[u].op = "revoke"
                                  /\ work'[u].config.credential = registry[m].config.credential
      BY <1>2, <1>8, <2>1, <2>2, <3>1 DEF RowFits, IsReady
    <3> QED BY <2>1, <2>2, <3>2 DEF RowFits, IsReady
  <2>3. CASE registry[m] \in Rows /\ registry'[m] = Invalidated(registry[m])
    <3>1. PICK row : /\ row = Invalidated(registry[m]) /\ row.config = registry[m].config
                     /\ row.print = registry[m].print /\ row.validated = FALSE /\ row.life # "active"
      BY <2>3, InvalidatedForm
    <3>2. row.print = row.config
      BY <2>1, <3>1 DEF RowFits
    <3> QED BY <2>3, <3>1, <3>2, RowFitsBy
  <2> QED BY <1>5, <2>1, <2>2, <2>3
<1>10. passed' \in [Models -> SUBSET Configs]
  BY <1>3, <1>4
<1> QED BY <1>1, <1>3, <1>7, <1>9, <1>10, EndKeeps

LEMMA QueueDownloadKeeps ==
  ASSUME TypeInv, FitInv, NEW t \in Handlers, QueueDownload(t)
  PROVE  TypeInv' /\ FitInv'
<1>1. PICK m \in Models :
        m = work[t].on /\ Touched(work[t]) = {m} /\ work[t].op = "download"
  BY AtWork DEF QueueDownload, Threads, At
<1>2. PICK j \in Jobs :
        /\ jobs[j].status = "new"
        /\ jobs' = [jobs EXCEPT ![j] = [status |-> "queued", model |-> m]]
  BY <1>1 DEF QueueDownload
<1>3. End(t) /\ UNCHANGED <<registry, usable, passed, spent>>
  BY DEF QueueDownload
<1>4. jobs \in [Jobs -> [status : {"new", "queued", "running", "succeeded", "failed"},
                         model : Models \cup {NoModel}]]
  BY DEF TypeInv, TypeOK
<1>5. /\ jobs' \in [Jobs -> [status : {"new", "queued", "running", "succeeded", "failed"},
                             model : Models \cup {NoModel}]]
      /\ jobs'[j].model = m /\ \A i \in Jobs : i # j => jobs'[i] = jobs[i]
  BY <1>2, <1>4
<1>6. Others(t) /\ t \in Threads /\ work[t].op # "revoke"
  BY <1>1, <1>3 DEF End, Others, TypeInv, TypeOK, Threads
<1>7. \A w \in Workers : work'[w] = work[w]
  BY <1>6, LifecycleAssumption DEF Others, Threads
<1>8. JobsAreHeld'
  <2>1. \A i \in Jobs : jobs'[i].status # "new" => jobs'[i].model \in Models
    BY <1>5 DEF TypeInv, JobsAreHeld
  <2>2. ASSUME NEW w \in Workers, ~Idle(w)' PROVE jobs'[work'[w].job].status = "running"
    <3>1. work[w].job \in Jobs /\ jobs[work[w].job].status = "running" /\ work'[w] = work[w]
      BY <1>7, <2>2 DEF TypeInv, JobsAreHeld, Idle
    <3> QED BY <1>2, <1>5, <3>1
  <2> QED BY <1>7, <2>1, <2>2 DEF TypeInv, JobsAreHeld, Idle
<1>9. \A n \in Models \ disturbed : RowFits(n)'
  BY <1>3, <1>6, RowStays
<1>10. registry' \in [Models -> Rows \cup {NoRow}] /\ passed' \in [Models -> SUBSET Configs]
  BY <1>3, Typing
<1> QED BY <1>1, <1>3, <1>5, <1>6, <1>8, <1>9, <1>10, EndOf

LEMMA HandleKeeps ==
  ASSUME TypeInv, FitInv, NEW t \in Handlers, Handle(t)
  PROVE  TypeInv' /\ FitInv'
BY RequestKeeps, CreateKeeps, SetLifeKeeps, DeleteKeeps, FindSecretKeeps, RereadKeeps,
   ChangeCredentialKeeps, TestKeeps, FindTestRunKeeps, ValidateKeeps, MarkRevokedKeeps,
   QueueDownloadKeeps DEF Handle

-----------------------------------------------------------------------------
(* The download workers.                                                   *)

JobRows == [Jobs -> [status : {"new", "queued", "running", "succeeded", "failed"},
                     model : Models \cup {NoModel}]]

LEMMA WorkerAtWork ==
  ASSUME TypeInv, NEW w \in Workers, ~Idle(w)
  PROVE  /\ work[w] \in Tasks /\ work[w].op = "download" /\ Carries(work[w]) /\ w \in Threads
         /\ work[w].job \in Jobs /\ jobs[work[w].job].status = "running"
         /\ work[w].on \in Models /\ Touched(work[w]) = {work[w].on}
<1>1. w \in Threads
  BY DEF Threads
<1>2. work[w] \in Tasks /\ Carries(work[w])
  BY <1>1, Typing DEF Idle, TypeInv
<1>3. work[w].op = "download" /\ work[w].job \in Jobs /\ jobs[work[w].job].status = "running"
  BY DEF TypeInv, JobsAreHeld
<1> QED BY <1>1, <1>2, <1>3 DEF Carries, Touched

\* A worker goes on with its job.
LEMMA WorkerGoesOn ==
  ASSUME TypeInv, FitInv, NEW w \in Workers, ~Idle(w), Others(w),
         NEW T \in Tasks, work'[w] = T, T.op = "download", T.on = work[w].on,
         T.job = work[w].job, T.step \in {"fetch", "store", "report"}, Carries(T),
         UNCHANGED <<usable, passed, jobs, spent, disturbed>>,
         registry' \in [Models -> Rows \cup {NoRow}],
         \A m \in Models : m # work[w].on => registry'[m] = registry[m],
         \A m \in Models : m = work[w].on /\ m \notin disturbed => RowFits(m)'
  PROVE  TypeInv' /\ FitInv'
<1>1. w \in Threads /\ Touched(T) = Touched(work[w]) /\ Touched(work[w]) = {work[w].on}
  BY WorkerAtWork DEF Touched
<1>2. \A v \in Workers : v # w => work'[v] = work[v]
  BY DEF Others, Threads
<1>3. JobsAreHeld'
  <2>1. \A v \in Workers : work'[v].job = work[v].job
    BY <1>2
  <2>2. ~Idle(w)'
    BY NoTaskForm DEF Idle
  <2> QED BY <1>2, <2>1, <2>2 DEF TypeInv, JobsAreHeld, Idle
<1>4. TypeInv'
  BY <1>1, <1>3, TypedStep DEF TypeInv, TypeOK
<1>5. TaskFits(w)'
  BY DEF TaskFits, Reading
<1> QED BY <1>1, <1>4, <1>5, FitStep

LEMMA FetchKeeps ==
  ASSUME TypeInv, FitInv, NEW w \in Workers, Fetch(w)
  PROVE  TypeInv' /\ FitInv'
<1>1. At(w, "download", "fetch") /\ UNCHANGED <<registry, usable, passed, jobs, spent, disturbed>>
  BY DEF Fetch
<1>2. ~Idle(w)
  BY <1>1, NoTaskForm DEF At, Idle
<1>3. PICK outcome \in {"downloaded", "failed"} :
        work' = [work EXCEPT ![w].step = "store", ![w].config = Config(outcome, NoCredential)]
  BY DEF Fetch
<1>4. PICK c \in Configs : c = Config(outcome, NoCredential)
  BY Configurations DEF Settings, LocalSettings
<1>5. PICK T : T = [work[w] EXCEPT !.step = "store", !.config = c]
  OBVIOUS
<1>6. /\ work[w] \in Tasks /\ work[w].op = "download" /\ Carries(work[w]) /\ w \in Threads
      /\ work[w].on \in Models
  BY <1>2, WorkerAtWork
<1>7. c \in Contents
  BY Configurations
<1>8. /\ T \in Tasks /\ T.op = "download" /\ T.step = "store" /\ T.on = work[w].on
      /\ T.job = work[w].job /\ T.config = c
  BY <1>5, <1>6, <1>7 DEF Tasks, Contents, Steps
<1>9. work'[w] = T /\ Others(w)
  <2>1. work \in [Threads -> Tasks \cup {NoTask}]
    BY Typing
  <2> QED BY <1>3, <1>4, <1>5, <1>6, <2>1 DEF Others
<1>10. Carries(T)
  BY <1>6, <1>8 DEF Carries, Reading
<1>11. \A m \in Models \ disturbed : RowFits(m)'
  BY <1>1, <1>6, <1>9, RowStays
<1>12. registry' \in [Models -> Rows \cup {NoRow}]
  BY <1>1, Typing
<1> QED BY <1>1, <1>2, <1>6, <1>8, <1>9, <1>10, <1>11, <1>12, WorkerGoesOn

LEMMA StoreKeeps ==
  ASSUME TypeInv, FitInv, NEW w \in Workers, Store(w)
  PROVE  TypeInv' /\ FitInv'
<1>1. /\ At(w, "download", "store") /\ Step(w, "report")
      /\ UNCHANGED <<usable, passed, jobs, spent>>
  BY DEF Store
<1>2. ~Idle(w)
  BY <1>1, NoTaskForm DEF At, Idle
<1>3. PICK m \in Models, c \in Configs :
        /\ m = work[w].on /\ c = work[w].config /\ work[w] \in Tasks /\ Carries(work[w])
        /\ work[w].op = "download" /\ w \in Threads
  BY <1>1, <1>2, WorkerAtWork DEF Carries, At
<1>4. PICK life \in {"created", "registered"} : Upsert(m, life, c)
  BY <1>3 DEF Store
<1>5. life \in Life /\ life # "active"
  BY DEF Life
<1>6. /\ registry' \in [Models -> Rows \cup {NoRow}] /\ registry'[m] = Row(life, c)
      /\ \A n \in Models : n # m => registry'[n] = registry[n]
  BY <1>4, <1>5, Upserted
<1>7. RowFits(m)'
  BY <1>5, <1>6, NewRowFits
<1>8. PICK T : T = [work[w] EXCEPT !.step = "report"]
  OBVIOUS
<1>9. /\ T \in Tasks /\ T.op = "download" /\ T.step = "report" /\ T.on = work[w].on
      /\ T.job = work[w].job /\ T.config = work[w].config
  <2>1. "report" \in Steps
    BY DEF Steps
  <2> QED BY <1>3, <1>8, <2>1, TaskParts
<1>10. work'[w] = T /\ Others(w) /\ UNCHANGED disturbed
  BY <1>1, <1>3, <1>8, Typing DEF Step, Others
<1>11. Carries(T)
  BY <1>3, <1>9 DEF Carries, Reading
<1>12. \A n \in Models : n = work[w].on => RowFits(n)'
  BY <1>3, <1>7
<1> QED BY <1>1, <1>2, <1>3, <1>6, <1>9, <1>10, <1>11, <1>12, WorkerGoesOn

LEMMA ClaimKeeps ==
  ASSUME TypeInv, FitInv, NEW w \in Workers, ClaimDownload(w)
  PROVE  TypeInv' /\ FitInv'
<1>1. PICK j \in Jobs :
        /\ jobs[j].status = "queued" /\ jobs' = [jobs EXCEPT ![j].status = "running"]
        /\ Begin(w, [Task("download", "fetch", jobs[j].model, NoConfig) EXCEPT !.job = j])
  BY DEF ClaimDownload
<1>2. UNCHANGED <<registry, usable, passed, spent>> /\ w \in Threads
  BY DEF ClaimDownload, Threads
<1>3. PICK m \in Models : m = jobs[j].model
  BY <1>1 DEF TypeInv, JobsAreHeld
<1>4. PICK T : T = [Task("download", "fetch", m, NoConfig) EXCEPT !.job = j]
  OBVIOUS
<1>5. /\ T.op = "download" /\ T.step = "fetch" /\ T.on = m /\ T.job = j /\ T \in Tasks
  <2>1. "download" \in Ops /\ "fetch" \in Steps
    BY DEF Ops, Steps
  <2>2. Task("download", "fetch", m, NoConfig) \in Tasks
    BY <2>1, TaskForm, Configurations
  <2> QED BY <1>4, <2>2, TaskForm DEF Tasks
<1>6. Begin(w, T)
  BY <1>1, <1>3, <1>4
<1>7. Touched(T) = {m} /\ Carries(T)
  BY <1>5 DEF Touched, Carries, Reading
<1>8. Others(w) /\ work'[w] = T /\ Idle(w) /\ disturbed \subseteq disturbed'
  BY <1>2, <1>6, Typing DEF Begin, Others
<1>9. jobs \in JobRows
  BY DEF JobRows, TypeInv, TypeOK
<1>10. /\ jobs' \in JobRows /\ jobs'[j].status = "running" /\ jobs'[j].model = m
       /\ \A i \in Jobs : i # j => jobs'[i] = jobs[i]
  BY <1>1, <1>3, <1>9 DEF JobRows
<1>11. JobsAreHeld'
  <2>1. \A i \in Jobs : jobs'[i].status # "new" => jobs'[i].model \in Models
    BY <1>10 DEF TypeInv, JobsAreHeld
  <2>2. ASSUME NEW v \in Workers \ {w}
        PROVE  /\ work'[v] = work[v] /\ work[v].job # j
               /\ ~Idle(v) => work[v].job \in Jobs /\ jobs[work[v].job].status = "running"
    <3>1. j # NoJob
      BY DEF Jobs, NoJob
    <3>2. work'[v] = work[v]
      BY <1>8 DEF Others, Threads
    <3>3. ~Idle(v) => work[v].job \in Jobs /\ jobs[work[v].job].status = "running"
      BY DEF TypeInv, JobsAreHeld
    <3> QED BY <1>1, <3>1, <3>2, <3>3, NoTaskForm DEF Idle
  <2>3. ASSUME NEW v \in Workers, ~Idle(v)'
        PROVE  /\ work'[v].op = "download" /\ work'[v].step \in {"fetch", "store", "report"}
               /\ work'[v].job \in Jobs
               /\ jobs'[work'[v].job].status = "running"
               /\ \A u \in Workers : work'[u].job = work'[v].job => u = v
    <3>1. CASE v = w
      BY <1>5, <1>8, <1>10, <2>2, <3>1
    <3>2. CASE v # w
      <4>1. /\ work'[v] = work[v] /\ work[v].job # j /\ ~Idle(v)
            /\ work[v].job \in Jobs /\ jobs[work[v].job].status = "running"
        BY <2>2, <2>3, <3>2 DEF Idle
      <4>2. /\ work[v].op = "download" /\ work[v].step \in {"fetch", "store", "report"}
            /\ \A u \in Workers : work[u].job = work[v].job => u = v
        BY <4>1 DEF TypeInv, JobsAreHeld
      <4>3. jobs'[work[v].job].status = "running"
        BY <1>10, <4>1
      <4>4. ASSUME NEW u \in Workers, work'[u].job = work'[v].job PROVE u = v
        BY <1>5, <1>8, <2>2, <4>1, <4>2, <4>4
      <4> QED BY <4>1, <4>2, <4>3, <4>4
    <3> QED BY <3>1, <3>2
  <2> QED BY <2>1, <2>3 DEF JobsAreHeld, Idle
<1>12. TypeInv'
  BY <1>2, <1>5, <1>6, <1>7, <1>10, <1>11, TypedBegin, Typing
     DEF JobRows, SpentOK, TypeInv, TypeOK
<1>13. m \notin disturbed' => RowFits(m)'
  <2> SUFFICES ASSUME m \notin disturbed' PROVE RowFits(m)'
    OBVIOUS
  <2>1. RowFits(m)
    BY <1>8 DEF FitInv
  <2>2. \A u \in Threads : work[u].op = "revoke" => work'[u] = work[u]
    BY <1>8, NoTaskForm DEF Others, Idle
  <2> QED BY <1>2, <2>1, <2>2 DEF RowFits, IsReady
<1>14. TaskFits(w)'
  BY <1>5, <1>8 DEF TaskFits, Reading
<1> QED BY <1>2, <1>6, <1>7, <1>12, <1>13, <1>14, FitBegin

LEMMA ReportKeeps ==
  ASSUME TypeInv, FitInv, NEW w \in Workers, Report(w)
  PROVE  TypeInv' /\ FitInv'
<1>1. /\ At(w, "download", "report") /\ End(w)
      /\ UNCHANGED <<registry, usable, passed, spent>>
  BY DEF Report
<1>2. ~Idle(w)
  BY <1>1, NoTaskForm DEF At, Idle
<1>3. PICK j \in Jobs :
        /\ j = work[w].job /\ w \in Threads /\ jobs[j].status = "running"
        /\ work[w].op = "download"
  BY <1>2, WorkerAtWork
<1>4. PICK s \in {"failed", "succeeded"} : jobs' = [jobs EXCEPT ![j].status = s]
  BY <1>3 DEF Report
<1>5. jobs \in JobRows
  BY DEF JobRows, TypeInv, TypeOK
<1>6. /\ jobs' \in JobRows /\ jobs'[j].model = jobs[j].model
      /\ \A i \in Jobs : i # j => jobs'[i] = jobs[i]
  BY <1>4, <1>5 DEF JobRows
<1>7. Others(w) /\ work'[w] = NoTask
  BY <1>1, <1>3, Typing DEF End, Others
<1>8. JobsAreHeld'
  <2>1. \A i \in Jobs : jobs'[i].status # "new" => jobs'[i].model \in Models
    BY <1>3, <1>6 DEF TypeInv, JobsAreHeld
  <2>2. \A v \in Workers \ {w} : work'[v] = work[v]
    BY <1>7 DEF Others, Threads
  <2>3. Idle(w)'
    BY <1>7 DEF Idle
  <2>4. ASSUME NEW v \in Workers \ {w}, ~Idle(v)'
        PROVE  /\ work'[v].op = "download" /\ work'[v].step \in {"fetch", "store", "report"}
               /\ work'[v].job \in Jobs
               /\ jobs'[work'[v].job].status = "running"
               /\ \A u \in Workers : work'[u].job = work'[v].job => u = v
    <3>1. /\ work'[v] = work[v] /\ ~Idle(v)
      BY <2>2, <2>4 DEF Idle
    <3>2. /\ work[v].op = "download" /\ work[v].step \in {"fetch", "store", "report"}
          /\ work[v].job \in Jobs /\ jobs[work[v].job].status = "running"
          /\ \A u \in Workers : work[u].job = work[v].job => u = v
      BY <3>1 DEF TypeInv, JobsAreHeld
    <3>3. work[v].job # j
      BY <1>3, <3>2
    <3>4. work'[w].job # work[v].job
      BY <1>7, <3>2, NoTaskForm DEF Jobs, NoJob
    <3>5. ASSUME NEW u \in Workers, work'[u].job = work'[v].job PROVE u = v
      BY <2>2, <3>1, <3>2, <3>4, <3>5
    <3> QED BY <1>6, <3>1, <3>2, <3>3, <3>5
  <2> QED BY <2>1, <2>3, <2>4 DEF JobsAreHeld, Idle
<1>9. \A n \in Models \ disturbed : RowFits(n)'
  BY <1>1, <1>3, <1>7, RowStays
<1>10. registry' \in [Models -> Rows \cup {NoRow}] /\ passed' \in [Models -> SUBSET Configs]
  BY <1>1, Typing
<1> QED BY <1>1, <1>3, <1>6, <1>8, <1>9, <1>10, EndOf DEF JobRows

LEMMA DownloadKeeps ==
  ASSUME TypeInv, FitInv, NEW w \in Workers, Download(w)
  PROVE  TypeInv' /\ FitInv'
BY ClaimKeeps, FetchKeeps, StoreKeeps, ReportKeeps DEF Download

-----------------------------------------------------------------------------
(* Exceptions and crashes.                                                 *)

\* Threads let go of their tasks, and the models they were at are disturbed.
LEMMA FitWithout ==
  ASSUME TypeInv, FitInv, UNCHANGED <<registry, usable, passed>>,
         disturbed \subseteq disturbed',
         \A u \in Threads :
           \/ work'[u] = work[u]
           \/ work'[u] = NoTask /\ Touched(work[u]) \subseteq disturbed'
  PROVE  FitInv'
<1>1. OverlapsAreKnown'
  <2> SUFFICES ASSUME NEW t \in Threads, NEW u \in Threads, t # u
               PROVE  Touched(work'[t]) \cap Touched(work'[u]) \subseteq disturbed'
    BY DEF OverlapsAreKnown, Touched
  <2>1. Touched(work[t]) \cap Touched(work[u]) \subseteq disturbed
    BY DEF FitInv, OverlapsAreKnown
  <2> QED BY <2>1, NoTaskForm
<1>2. ASSUME NEW m \in Models \ disturbed' PROVE RowFits(m)'
  <2>1. RowFits(m)
    BY DEF FitInv
  <2>2. ASSUME NEW u \in Threads, work[u].op = "revoke" PROVE work'[u] = work[u]
    <3>1. Touched(work[u]) = Models
      BY <2>2 DEF Touched
    <3> QED BY <3>1
  <2> QED BY <2>1, <2>2 DEF RowFits, IsReady
<1>3. ASSUME NEW u \in Threads PROVE TaskFits(u)'
  <2>1. CASE work'[u] = NoTask
    BY <2>1, NoTaskForm DEF TaskFits, Reading
  <2>2. CASE work'[u] = work[u]
    <3>1. TaskFits(u)
      BY DEF FitInv
    <3> QED BY <2>2, <3>1 DEF TaskFits, IsReady
  <2> QED BY <2>1, <2>2
<1> QED BY <1>1, <1>2, <1>3 DEF FitInv

LEMMA EscapeKeeps ==
  ASSUME TypeInv, FitInv, NEW t \in Threads, Escape(t)
  PROVE  TypeInv' /\ FitInv'
<1>1. /\ ~Idle(t) /\ work' = [work EXCEPT ![t] = NoTask]
      /\ disturbed' = disturbed \cup Touched(work[t])
      /\ UNCHANGED <<registry, usable, passed, jobs>>
  BY DEF Escape
<1>2. Others(t) /\ work'[t] = NoTask
  BY <1>1, Typing DEF Others
<1>3. work[t] \in Tasks /\ Carries(work[t])
  BY <1>1, Typing DEF Idle, TypeInv
<1>4. disturbed' \subseteq Models
  <2>1. Touched(work[t]) \subseteq Models
    BY <1>3 DEF Carries, Touched
  <2> QED BY <1>1, <2>1, Typing
<1>5. JobsAreHeld'
  <2>1. \A v \in Workers : work'[v] = work[v] \/ work'[v] = NoTask
    BY <1>2 DEF Others, Threads
  <2>2. ASSUME NEW v \in Workers, ~Idle(v)'
        PROVE  /\ work'[v].op = "download" /\ work'[v].step \in {"fetch", "store", "report"}
               /\ work'[v].job \in Jobs
               /\ jobs'[work'[v].job].status = "running"
               /\ \A u \in Workers : work'[u].job = work'[v].job => u = v
    <3>1. /\ work'[v] = work[v] /\ ~Idle(v)
      BY <2>1, <2>2 DEF Idle
    <3>2. /\ work[v].op = "download" /\ work[v].step \in {"fetch", "store", "report"}
          /\ work[v].job \in Jobs /\ jobs[work[v].job].status = "running"
          /\ \A u \in Workers : work[u].job = work[v].job => u = v
      BY <3>1 DEF TypeInv, JobsAreHeld
    <3>3. work[v].job # NoTask.job
      BY <3>2, NoTaskForm DEF Jobs, NoJob
    <3> QED BY <1>1, <2>1, <3>1, <3>2, <3>3
  <2> QED BY <1>1, <2>2 DEF TypeInv, JobsAreHeld, Idle
<1>6. SpentOK'
  <2>1. spent.crashes \in 0..MaxCrashes /\ spent.crashes < MaxCrashes /\ SpentOK
        /\ spent' = [spent EXCEPT !.crashes = @ + 1]
    BY DEF TypeInv, TypeOK, SpentOK, Escape
  <2>2. spent.crashes + 1 \in 0..MaxCrashes
    BY <2>1, LifecycleAssumption
  <2> QED BY <2>1, <2>2 DEF SpentOK
<1>7. TypeInv'
  BY <1>1, <1>2, <1>4, <1>5, <1>6, NoTaskForm, TypedStep DEF SpentOK, TypeInv, TypeOK
<1>8. disturbed \subseteq disturbed'
      /\ \A u \in Threads : \/ work'[u] = work[u]
                            \/ work'[u] = NoTask /\ Touched(work[u]) \subseteq disturbed'
  BY <1>1, <1>2 DEF Others
<1>9. UNCHANGED <<registry, usable, passed>>
  BY <1>1
<1> QED BY <1>7, <1>8, <1>9, FitWithout

LEMMA CrashKeeps ==
  ASSUME TypeInv, FitInv, CrashAndRestart
  PROVE  TypeInv' /\ FitInv'
<1>1. /\ work' = [t \in Threads |-> NoTask]
      /\ disturbed' = disturbed \cup UNION {Touched(work[t]) : t \in Threads}
      /\ UNCHANGED <<registry, usable, passed>>
  BY DEF CrashAndRestart
<1>2. PICK stale \in 0..MaxJobs :
        jobs' = [j \in Jobs |-> IF jobs[j].status = "running" /\ j <= stale
                                THEN [jobs[j] EXCEPT !.status = "failed"] ELSE jobs[j]]
  BY DEF CrashAndRestart
<1>3. jobs \in JobRows
  BY DEF JobRows, TypeInv, TypeOK
<1>4. ASSUME NEW j \in Jobs
      PROVE  /\ jobs'[j] \in [status : {"new", "queued", "running", "succeeded", "failed"},
                              model : Models \cup {NoModel}]
             /\ jobs'[j].model = jobs[j].model
             /\ jobs'[j].status = "new" <=> jobs[j].status = "new"
  BY <1>2, <1>3 DEF JobRows
<1>5. jobs' \in JobRows
  BY <1>2, <1>4 DEF JobRows
<1>6. ASSUME NEW t \in Threads PROVE Touched(work[t]) \subseteq Models
  BY Typing, NoTaskForm DEF TypeInv, Carries, Touched
<1>7. disturbed' \subseteq Models
  BY <1>1, <1>6, Typing
<1>8. JobsAreHeld'
  <2>1. \A w \in Workers : Idle(w)'
    BY <1>1 DEF Idle, Threads
  <2> QED BY <1>4, <2>1 DEF TypeInv, JobsAreHeld, Idle
<1>9. SpentOK'
  <2>1. spent.crashes \in 0..MaxCrashes /\ spent.crashes < MaxCrashes /\ SpentOK
        /\ spent' = [spent EXCEPT !.crashes = @ + 1]
    BY DEF TypeInv, TypeOK, SpentOK, CrashAndRestart
  <2>2. spent.crashes + 1 \in 0..MaxCrashes
    BY <2>1, LifecycleAssumption
  <2> QED BY <2>1, <2>2 DEF SpentOK
<1>10. work' \in [Threads -> Tasks \cup {NoTask}] /\ \A t \in Threads : Carries(work'[t])
  BY <1>1, NoTaskForm
<1>11. registry' \in [Models -> Rows \cup {NoRow}] /\ passed' \in [Models -> SUBSET Configs]
       /\ usable' \subseteq Credentials
  BY <1>1, Typing
<1>12. TypeInv'
  BY <1>5, <1>7, <1>8, <1>9, <1>10, <1>11 DEF TypeInv, TypeOK, JobRows, SpentOK, Carries
<1>13. disturbed \subseteq disturbed'
       /\ \A u \in Threads : work'[u] = NoTask /\ Touched(work[u]) \subseteq disturbed'
  BY <1>1
<1> QED BY <1>1, <1>12, <1>13, FitWithout

-----------------------------------------------------------------------------
(* Theorems.                                                               *)

LEMMA InitFits == Init => TypeInv /\ FitInv
<1> SUFFICES ASSUME Init PROVE TypeInv /\ FitInv
  OBVIOUS
<1>1. /\ registry = [m \in Models |-> NoRow] /\ usable = Credentials
      /\ passed = [m \in Models |-> {}] /\ work = [t \in Threads |-> NoTask]
      /\ jobs = [j \in Jobs |-> [status |-> "new", model |-> NoModel]]
      /\ spent = [requests |-> 0, crashes |-> 0] /\ disturbed = {}
  BY DEF Init
<1>2. 0 \in 0..MaxRequests /\ 0 \in 0..MaxCrashes
  BY LifecycleAssumption
<1>3. TypeOK
  BY <1>1, <1>2 DEF TypeOK
<1>4. JobsAreHeld /\ \A t \in Threads : Carries(work[t])
  BY <1>1, NoTaskForm DEF JobsAreHeld, Idle, Threads
<1>5. OverlapsAreKnown
  BY <1>1, NoTaskForm DEF OverlapsAreKnown
<1>6. \A m \in Models : RowFits(m)
  BY <1>1, NoRowForm DEF RowFits
<1>7. \A t \in Threads : TaskFits(t)
  BY <1>1, NoTaskForm DEF TaskFits, Reading
<1> QED BY <1>3, <1>4, <1>5, <1>6, <1>7 DEF TypeInv, FitInv

LEMMA NothingKeeps ==
  ASSUME TypeInv, FitInv, UNCHANGED vars
  PROVE  TypeInv' /\ FitInv'
<1>1. UNCHANGED <<registry, usable, passed, jobs, work, spent, disturbed>>
  BY DEF vars
<1>2. TypeInv'
  BY <1>1 DEF TypeInv, TypeOK, JobsAreHeld, Idle, Carries
<1> QED BY <1>1, <1>2, FitWithout

\* Every reachable state has its parts of the right types, with the jobs at
\* work held by one worker each, and every model that no overlap and no crash
\* has disturbed fits, as does what the requests have read of it.
THEOREM LifecycleInvariant == Spec => [](TypeInv /\ FitInv)
<1>1. Init => TypeInv /\ FitInv
  BY InitFits
<1>2. ASSUME TypeInv /\ FitInv, [Next]_vars PROVE (TypeInv /\ FitInv)'
  <2>1. CASE \E t \in Handlers : Handle(t)
    BY <1>2, <2>1, HandleKeeps
  <2>2. CASE \E w \in Workers : Download(w)
    BY <1>2, <2>2, DownloadKeeps
  <2>3. CASE \E t \in Threads : Escape(t)
    BY <1>2, <2>3, EscapeKeeps
  <2>4. CASE CrashAndRestart
    BY <1>2, <2>4, CrashKeeps
  <2>5. CASE Quiet \/ UNCHANGED vars
    BY <1>2, <2>5, NothingKeeps DEF Quiet
  <2> QED BY <1>2, <2>1, <2>2, <2>3, <2>4, <2>5 DEF Next
<1> QED BY <1>1, <1>2, PTL DEF Spec

\* What is active, and what counts as validated, was tested in just the
\* configuration it has, unless operations on the model overlapped.
THEOREM ServedModelsWereTested == Spec => []ServedWasTested
<1>1. ASSUME TypeInv, FitInv PROVE ServedWasTested
  <2>1. ASSUME NEW m \in Models \ disturbed PROVE registry[m].validated => ValidatedAsIs(m)
    <3>1. RowFits(m)
      BY <1>1 DEF FitInv
    <3> QED BY <3>1 DEF RowFits, ValidatedAsIs
  <2>2. ASSUME NEW m \in Models \ disturbed, registry[m].life = "active"
        PROVE  /\ ValidatedAsIs(m)
               /\ (\A t \in Threads : work[t].op # "revoke") => IsReady(registry[m].config)
    <3>1. RowFits(m)
      BY <1>1 DEF FitInv
    <3> QED BY <2>1, <2>2, <3>1 DEF RowFits
  <2> QED BY <1>1, <2>1, <2>2 DEF ServedWasTested, ActiveIsFit, ValidationIsOfConfig, TypeInv
<1> QED BY <1>1, LifecycleInvariant, PTL

-----------------------------------------------------------------------------
(* Downloads are a queue of jobs.                                          *)

HolderOf(J, W, j) ==
  IF J[j].status = "running" /\ \E w \in Workers : W[w].job = j
  THEN CHOOSE w \in Workers : W[w].job = j ELSE Nobody

Held(J, W) ==
  \A w \in Workers :
    W[w].job \in Jobs =>
      /\ J[W[w].job].status = "running"
      /\ \A v \in Workers : W[v].job = W[w].job => v = w

LEMMA Holders ==
  ASSUME NEW J, NEW W, Held(J, W), NEW j \in Jobs
  PROVE  \/ \E w \in Workers : W[w].job = j /\ HolderOf(J, W, j) = w
         \/ HolderOf(J, W, j) = Nobody /\ \A w \in Workers : W[w].job # j
<1>1. CASE \A w \in Workers : W[w].job # j
  BY <1>1 DEF HolderOf
<1>2. CASE \E w \in Workers : W[w].job = j
  <2>1. PICK w \in Workers : W[w].job = j
    BY <1>2
  <2>2. J[j].status = "running" /\ \A v \in Workers : W[v].job = j => v = w
    BY <2>1 DEF Held
  <2>3. (CHOOSE v \in Workers : W[v].job = j) = w
    BY <2>1, <2>2
  <2> QED BY <2>1, <2>2, <2>3 DEF HolderOf
<1> QED BY <1>1, <1>2

LEMMA SameHolder ==
  ASSUME NEW J, NEW W, NEW J2, NEW W2, Held(J, W), Held(J2, W2), NEW j \in Jobs,
         \A w \in Workers : W[w].job = j <=> W2[w].job = j
  PROVE  HolderOf(J, W, j) = HolderOf(J2, W2, j)
<1>1. CASE \A w \in Workers : W[w].job # j
  BY <1>1, Holders
<1>2. CASE \E w \in Workers : W[w].job = j
  <2>1. PICK w \in Workers : W[w].job = j /\ HolderOf(J, W, j) = w
    BY <1>2, Holders
  <2>2. PICK v \in Workers : W2[v].job = j /\ HolderOf(J2, W2, j) = v
    BY <2>1, Holders
  <2>3. \A u \in Workers : W[u].job = W[w].job => u = w
    BY <2>1 DEF Held
  <2> QED BY <2>1, <2>2, <2>3
<1> QED BY <1>1, <1>2

LEMMA HeldJobs ==
  /\ TypeInv => Held(jobs, work)
  /\ TypeInv' => Held(jobs', work')
<1>1. NoTask.job \notin Jobs
  BY NoTaskForm DEF Jobs, NoJob
<1>2. TypeInv => Held(jobs, work)
  BY <1>1 DEF TypeInv, JobsAreHeld, Idle, Held
<1>3. TypeInv' => Held(jobs', work')
  BY <1>1 DEF TypeInv, JobsAreHeld, Idle, Held
<1> QED BY <1>2, <1>3

\* A job's status and holder before and after a step.
LEMMA Mapped ==
  ASSUME TypeInv, TypeInv', NEW j \in Jobs
  PROVE  /\ JobHolder(j) = HolderOf(jobs, work, j)
         /\ JobHolder(j)' = HolderOf(jobs', work', j)
         /\ Held(jobs, work) /\ Held(jobs', work')
         /\ jobs'[j].status = jobs[j].status => JobStatus(j)' = JobStatus(j)
         /\ (\A w \in Workers : work[w].job = j <=> work'[w].job = j)
              => JobHolder(j)' = JobHolder(j)
<1>1. /\ JobHolder(j) = HolderOf(jobs, work, j)
      /\ JobHolder(j)' = HolderOf(jobs', work', j)
  BY DEF JobHolder, HolderOf
<1>2. Held(jobs, work) /\ Held(jobs', work')
  BY HeldJobs
<1>3. (\A w \in Workers : work[w].job = j <=> work'[w].job = j)
        => JobHolder(j)' = JobHolder(j)
  <2> SUFFICES ASSUME \A w \in Workers : work[w].job = j <=> work'[w].job = j
               PROVE  HolderOf(jobs, work, j) = HolderOf(jobs', work', j)
    BY <1>1
  <2> QED BY <1>2, SameHolder
<1>4. jobs'[j].status = jobs[j].status => JobStatus(j)' = JobStatus(j)
  BY DEF JobStatus
<1> QED BY <1>1, <1>2, <1>3, <1>4

\* A step at which the queue stands still.
LEMMA QueueStutters ==
  ASSUME TypeInv, TypeInv', UNCHANGED jobs, \A w \in Workers : work'[w].job = work[w].job
  PROVE  UNCHANGED Queue!queue
<1>1. \A j \in Jobs : JobStatus(j)' = JobStatus(j) /\ JobHolder(j)' = JobHolder(j)
  BY Mapped
<1>2. [j \in Jobs |-> JobStatus(j)]' = [j \in Jobs |-> JobStatus(j)]
  BY <1>1
<1>3. [j \in Jobs |-> JobHolder(j)]' = [j \in Jobs |-> JobHolder(j)]
  BY <1>1
<1> QED BY <1>2, <1>3 DEF Queue!queue

LEMMA HandlersLeaveWorkers ==
  ASSUME TypeInv, NEW t \in Handlers, Handle(t)
  PROVE  /\ \A w \in Workers : work'[w] = work[w]
         /\ QueueDownload(t) \/ UNCHANGED jobs
<1>1. \A w \in Workers : w # t /\ w \in Threads
  BY LifecycleAssumption DEF Threads
<1>2. work \in [Threads -> Tasks \cup {NoTask}]
  BY Typing
<1>3. ASSUME NEW T, Begin(t, T) PROVE \A w \in Workers : work'[w] = work[w]
  BY <1>1, <1>2, <1>3 DEF Begin
<1>4. ASSUME NEW s, Step(t, s) PROVE \A w \in Workers : work'[w] = work[w]
  BY <1>1, <1>2, <1>4 DEF Step
<1>5. ASSUME End(t) PROVE \A w \in Workers : work'[w] = work[w]
  BY <1>1, <1>2, <1>5 DEF End
<1>6. CASE Request(t)
  <2>1. \E T : Begin(t, T)
    BY <1>6 DEF Request, BeginCreate, BeginCredential, BeginRegister, BeginActivate, BeginDeactivate,
                BeginUnregister, BeginDelete, BeginTest, BeginValidate, BeginRevoke, BeginDownload, Read
  <2> QED BY <1>3, <1>6, <2>1 DEF Request
<1>7. CASE Create(t) \/ SetLife(t) \/ Delete(t) \/ ChangeCredential(t) \/ Test(t) \/ Validate(t)
           \/ MarkRevoked(t)
  BY <1>5, <1>7 DEF Create, SetLife, Delete, ChangeCredential, Test, Validate, MarkRevoked
<1>8. CASE FindSecret(t) \/ FindTestRun(t)
  BY <1>4, <1>5, <1>8 DEF FindSecret, FindTestRun
<1>9. CASE Reread(t)
  <2>1. CASE End(t)
    BY <1>5, <1>9, <2>1 DEF Reread
  <2>2. CASE ~End(t)
    <3>1. /\ work' = [work EXCEPT ![t].step = "write", ![t].seen = registry[work[t].on],
                ![t].config = Config(registry[work[t].on].config.setting, @.credential)]
          /\ UNCHANGED jobs
      BY <1>9, <2>2 DEF Reread
    <3> QED BY <1>1, <1>2, <3>1
  <2> QED BY <2>1, <2>2
<1>10. CASE QueueDownload(t)
  BY <1>5, <1>10 DEF QueueDownload
<1> QED BY <1>6, <1>7, <1>8, <1>9, <1>10 DEF Handle

LEMMA QueueingSubmits ==
  ASSUME TypeInv, TypeInv', NEW t \in Handlers, QueueDownload(t)
  PROVE  Queue!QueueNext
<1>1. PICK j \in Jobs :
        /\ jobs[j].status = "new" /\ \A i \in 1..(j - 1) : jobs[i].status # "new"
        /\ jobs' = [jobs EXCEPT ![j] = [status |-> "queued", model |-> work[t].on]]
  BY DEF QueueDownload
<1>2. jobs \in JobRows
  BY DEF JobRows, TypeInv, TypeOK
<1>3. jobs'[j].status = "queued" /\ \A i \in Jobs : i # j => jobs'[i] = jobs[i]
  BY <1>1, <1>2 DEF JobRows
<1>4. \A w \in Workers : work'[w] = work[w]
  BY HandlersLeaveWorkers DEF Handle
<1>5. \A i \in Jobs : JobHolder(i)' = JobHolder(i)
  BY <1>4, Mapped
<1>6. \A i \in Jobs : JobStatus(i)' = IF i = j THEN "queued" ELSE JobStatus(i)
  BY <1>3 DEF JobStatus
<1>7. JobStatus(j) = "new" /\ \A i \in 1..(j - 1) : i \in Jobs /\ JobStatus(i) # "new"
  BY <1>1, LifecycleAssumption DEF JobStatus, Jobs
<1>8. Queue!Submit(j)
  BY <1>5, <1>6, <1>7 DEF Queue!Submit
<1> QED BY <1>8 DEF Queue!QueueNext, Queue!Jobs, Jobs

LEMMA ClaimingClaims ==
  ASSUME TypeInv, TypeInv', NEW w \in Workers, ClaimDownload(w)
  PROVE  Queue!QueueNext
<1>1. PICK j \in Jobs :
        /\ jobs[j].status = "queued" /\ \A i \in 1..(j - 1) : jobs[i].status # "queued"
        /\ jobs' = [jobs EXCEPT ![j].status = "running"]
        /\ Begin(w, [Task("download", "fetch", jobs[j].model, NoConfig) EXCEPT !.job = j])
  BY DEF ClaimDownload
<1>2. PICK T : T = [Task("download", "fetch", jobs[j].model, NoConfig) EXCEPT !.job = j]
  OBVIOUS
<1>3. T.job = j
  BY <1>2 DEF Task
<1>4. w \in Threads /\ Idle(w) /\ work' = [work EXCEPT ![w] = T]
  BY <1>1, <1>2 DEF Begin, Threads
<1>5. work'[w] = T /\ \A v \in Workers : v # w => work'[v] = work[v]
  BY <1>4, Typing DEF Threads
<1>6. jobs \in JobRows
  BY DEF JobRows, TypeInv, TypeOK
<1>7. jobs'[j].status = "running" /\ \A i \in Jobs : i # j => jobs'[i] = jobs[i]
  BY <1>1, <1>6 DEF JobRows
<1>8. \A i \in Jobs : work[w].job # i
  BY <1>4, NoTaskForm DEF Idle, Jobs, NoJob
<1>9. \A i \in Jobs : JobHolder(i) # w
  <2> SUFFICES ASSUME NEW i \in Jobs, JobHolder(i) = w PROVE FALSE
    OBVIOUS
  <2>1. w # Nobody
    BY <1>4, LifecycleAssumption
  <2> QED BY <1>8, <2>1, Mapped, Holders
<1>10. ASSUME NEW i \in Jobs PROVE JobHolder(i)' = IF i = j THEN w ELSE JobHolder(i)
  <2>1. CASE i = j
    <3>1. HolderOf(jobs', work', j) = w
      <4>1. Held(jobs', work')
        BY Mapped
      <4>2. \A v \in Workers : work'[v].job = j => v = w
        BY <1>3, <1>5, <4>1 DEF Held
      <4> QED BY <1>3, <1>5, <4>1, <4>2, Holders
    <3> QED BY <2>1, <3>1, Mapped
  <2>2. CASE i # j
    <3>1. \A v \in Workers : work[v].job = i <=> work'[v].job = i
      BY <1>3, <1>5, <1>8, <2>2
    <3> QED BY <2>2, <3>1, Mapped
  <2> QED BY <2>1, <2>2
<1>11. \A i \in Jobs : JobStatus(i)' = IF i = j THEN "running" ELSE JobStatus(i)
  BY <1>7 DEF JobStatus
<1>12. JobStatus(j) = "queued" /\ \A i \in 1..(j - 1) : i \in Jobs /\ JobStatus(i) # "queued"
  BY <1>1, LifecycleAssumption DEF JobStatus, Jobs
<1>13. Queue!Claim(w, j)
  <2>1. Queue!Jobs = Jobs
    BY DEF Queue!Jobs, Jobs
  <2> QED BY <1>9, <1>10, <1>11, <1>12, <2>1 DEF Queue!Claim
<1> QED BY <1>13 DEF Queue!QueueNext, Queue!Jobs, Jobs

LEMMA ReportingFinishes ==
  ASSUME TypeInv, TypeInv', NEW w \in Workers, Report(w)
  PROVE  Queue!QueueNext
<1>1. ~Idle(w) /\ End(w)
  BY NoTaskForm DEF Report, At, Idle
<1>2. PICK j \in Jobs : j = work[w].job /\ w \in Threads /\ jobs[j].status = "running"
  BY <1>1, WorkerAtWork
<1>3. PICK s \in {"failed", "succeeded"} : jobs' = [jobs EXCEPT ![j].status = s]
  BY <1>2 DEF Report
<1>4. jobs \in JobRows
  BY DEF JobRows, TypeInv, TypeOK
<1>5. jobs'[j].status = s /\ \A i \in Jobs : i # j => jobs'[i] = jobs[i]
  BY <1>3, <1>4 DEF JobRows
<1>6. work'[w] = NoTask /\ \A v \in Workers : v # w => work'[v] = work[v]
  BY <1>1, <1>2, Typing DEF End, Threads
<1>7. \A i \in Jobs : work'[w].job # i
  BY <1>6, NoTaskForm DEF Jobs, NoJob
<1>8. \A v \in Workers : work[v].job = j => v = w
  BY <1>2, HeldJobs DEF Held
<1>9. JobHolder(j) = w
  BY <1>2, <1>8, Mapped, Holders
<1>10. w # Nobody
  BY <1>2, LifecycleAssumption
<1>11. ASSUME NEW i \in Jobs PROVE JobHolder(i)' = IF i = j THEN Nobody ELSE JobHolder(i)
  <2>1. CASE i = j
    <3>1. \A v \in Workers : work'[v].job # j
      BY <1>6, <1>7, <1>8
    <3>2. HolderOf(jobs', work', j) = Nobody
      BY <3>1, HeldJobs, Holders
    <3> QED BY <2>1, <3>2, Mapped
  <2>2. CASE i # j
    <3>1. \A v \in Workers : work[v].job = i <=> work'[v].job = i
      BY <1>2, <1>6, <1>7, <2>2
    <3> QED BY <2>2, <3>1, Mapped
  <2> QED BY <2>1, <2>2
<1>12. PICK q \in {"done", "failed"} : q = IF s = "succeeded" THEN "done" ELSE s
  OBVIOUS
<1>13. \A i \in Jobs : JobStatus(i)' = IF i = j THEN q ELSE JobStatus(i)
  BY <1>5, <1>12 DEF JobStatus
<1>14. Queue!Finish(j)
  BY <1>9, <1>10, <1>11, <1>13 DEF Queue!Finish
<1> QED BY <1>14 DEF Queue!QueueNext, Queue!Jobs, Jobs

LEMMA EscapingAbandons ==
  ASSUME TypeInv, TypeInv', NEW t \in Threads, Escape(t)
  PROVE  [Queue!QueueNext]_(Queue!queue)
<1>1. ~Idle(t) /\ work' = [work EXCEPT ![t] = NoTask] /\ UNCHANGED jobs
  BY DEF Escape
<1>2. work'[t] = NoTask /\ \A v \in Threads : v # t => work'[v] = work[v]
  BY <1>1, Typing
<1>3. CASE t \notin Workers
  <2>1. \A w \in Workers : work'[w].job = work[w].job
    BY <1>2, <1>3 DEF Threads
  <2> QED BY <1>1, <2>1, QueueStutters
<1>4. CASE t \in Workers
  <2>1. PICK j \in Jobs : j = work[t].job /\ jobs[j].status = "running"
    BY <1>1, <1>4, WorkerAtWork
  <2>2. \A i \in Jobs : work'[t].job # i
    BY <1>2, NoTaskForm DEF Jobs, NoJob
  <2>3. \A v \in Workers : work[v].job = j => v = t
    BY <1>4, <2>1, HeldJobs DEF Held
  <2>4. JobHolder(j) = t /\ t # Nobody
    BY <1>4, <2>1, <2>3, Mapped, Holders, LifecycleAssumption
  <2>5. \A v \in Workers : v # t => work'[v] = work[v]
    BY <1>2 DEF Threads
  <2>6. ASSUME NEW i \in Jobs PROVE JobHolder(i)' = IF i = j THEN Nobody ELSE JobHolder(i)
    <3>1. CASE i = j
      <4>1. \A v \in Workers : work'[v].job # j
        BY <2>2, <2>3, <2>5
      <4>2. HolderOf(jobs', work', j) = Nobody
        BY <4>1, HeldJobs, Holders
      <4> QED BY <3>1, <4>2, Mapped
    <3>2. CASE i # j
      <4>1. \A v \in Workers : work[v].job = i <=> work'[v].job = i
        BY <2>1, <2>2, <2>5, <3>2
      <4> QED BY <3>2, <4>1, Mapped
    <3> QED BY <3>1, <3>2
  <2>7. \A i \in Jobs : JobStatus(i)' = JobStatus(i)
    BY <1>1 DEF JobStatus
  <2>8. Queue!Abandon(j)
    BY <2>4, <2>6, <2>7 DEF Queue!Abandon
  <2> QED BY <2>8 DEF Queue!QueueNext, Queue!Jobs, Jobs
<1> QED BY <1>3, <1>4

LEMMA CrashingRestarts ==
  ASSUME TypeInv, TypeInv', CrashAndRestart
  PROVE  Queue!QueueNext
<1>1. PICK stale \in 0..MaxJobs :
        jobs' = [j \in Jobs |-> IF jobs[j].status = "running" /\ j <= stale
                                THEN [jobs[j] EXCEPT !.status = "failed"] ELSE jobs[j]]
  BY DEF CrashAndRestart
<1>2. jobs \in JobRows
  BY DEF JobRows, TypeInv, TypeOK
<1>3. \A w \in Workers : work'[w].job = NoJob
  BY NoTaskForm DEF CrashAndRestart, Threads
<1>4. ASSUME NEW j \in Jobs
      PROVE  /\ JobHolder(j)' = Nobody
             /\ JobStatus(j)' = IF JobStatus(j) = "running" /\ j <= stale
                                THEN "failed" ELSE JobStatus(j)
  <2>1. \A w \in Workers : work'[w].job # j
    BY <1>3 DEF Jobs, NoJob
  <2>2. HolderOf(jobs', work', j) = Nobody
    BY <2>1, HeldJobs, Holders
  <2>3. jobs'[j].status = IF jobs[j].status = "running" /\ j <= stale
                          THEN "failed" ELSE jobs[j].status
    BY <1>1, <1>2 DEF JobRows
  <2> QED BY <2>2, <2>3, Mapped DEF JobStatus
<1>5. Queue!Restart(stale)
  <2>1. Queue!Jobs = Jobs
    BY DEF Queue!Jobs, Jobs
  <2>2. [j \in Jobs |-> JobHolder(j)]' = [j \in Jobs |-> Nobody]
    BY <1>4
  <2>3. [j \in Jobs |-> JobStatus(j)]' =
          [j \in Jobs |-> IF JobStatus(j) = "running" /\ j <= stale THEN "failed" ELSE JobStatus(j)]
    BY <1>4
  <2> QED BY <2>1, <2>2, <2>3 DEF Queue!Restart
<1> QED BY <1>5 DEF Queue!QueueNext

\* A download is claimed once, in order and by one worker, and is final once
\* it is finished: the jobs implement the queue.
THEOREM DownloadsImplementQueue == Spec => DownloadsAreQueued
<1>1. Init => Queue!QueueInit
  <2> SUFFICES ASSUME Init PROVE Queue!QueueInit
    OBVIOUS
  <2>1. ASSUME NEW j \in Jobs PROVE JobStatus(j) = "new" /\ JobHolder(j) = Nobody
    BY DEF Init, JobStatus, JobHolder
  <2> QED BY <2>1 DEF Queue!QueueInit, Queue!Jobs, Jobs
<1>2. ASSUME TypeInv, TypeInv', [Next]_vars
      PROVE  [Queue!QueueNext]_(Queue!queue)
  <2>1. ASSUME NEW t \in Handlers, Handle(t)
        PROVE  [Queue!QueueNext]_(Queue!queue)
    <3>1. CASE QueueDownload(t)
      BY <1>2, <3>1, QueueingSubmits
    <3>2. CASE UNCHANGED jobs
      <4>1. \A w \in Workers : work'[w].job = work[w].job
        BY <1>2, <2>1, HandlersLeaveWorkers
      <4> QED BY <1>2, <3>2, <4>1, QueueStutters
    <3> QED BY <1>2, <2>1, <3>1, <3>2, HandlersLeaveWorkers
  <2>2. ASSUME NEW w \in Workers, Download(w)
        PROVE  [Queue!QueueNext]_(Queue!queue)
    <3>1. CASE ClaimDownload(w)
      BY <1>2, <3>1, ClaimingClaims
    <3>2. CASE Fetch(w) \/ Store(w)
      <4>1. w \in Threads /\ work[w] \in Tasks /\ UNCHANGED jobs
        BY <1>2, <3>2, NoTaskForm, WorkerAtWork DEF Fetch, Store, At, Idle
      <4>2. \A v \in Workers : work'[v].job = work[v].job
        <5>1. CASE Fetch(w)
          <6>1. PICK outcome \in {"downloaded", "failed"} :
                  work' = [work EXCEPT ![w].step = "store",
                                       ![w].config = Config(outcome, NoCredential)]
            BY <5>1 DEF Fetch
          <6>2. work'[w].job = work[w].job /\ \A v \in Threads : v # w => work'[v] = work[v]
            BY <1>2, <4>1, <6>1, Typing DEF Tasks
          <6> QED BY <6>2 DEF Threads
        <5>2. CASE Store(w)
          <6>1. work' = [work EXCEPT ![w].step = "report"]
            BY <5>2 DEF Store, Step
          <6>2. work'[w].job = work[w].job /\ \A v \in Threads : v # w => work'[v] = work[v]
            BY <1>2, <4>1, <6>1, Typing DEF Tasks
          <6> QED BY <6>2 DEF Threads
        <5> QED BY <3>2, <5>1, <5>2
      <4> QED BY <1>2, <4>1, <4>2, QueueStutters
    <3>3. CASE Report(w)
      BY <1>2, <3>3, ReportingFinishes
    <3> QED BY <2>2, <3>1, <3>2, <3>3 DEF Download
  <2>3. ASSUME NEW t \in Threads, Escape(t)
        PROVE  [Queue!QueueNext]_(Queue!queue)
    BY <1>2, <2>3, EscapingAbandons
  <2>4. CASE CrashAndRestart
    BY <1>2, <2>4, CrashingRestarts
  <2>5. CASE Quiet \/ UNCHANGED vars
    <3>1. UNCHANGED jobs /\ \A w \in Workers : work'[w].job = work[w].job
      BY <2>5 DEF Quiet, vars
    <3> QED BY <1>2, <3>1, QueueStutters
  <2> QED BY <1>2, <2>1, <2>2, <2>3, <2>4, <2>5 DEF Next
<1> QED BY <1>1, <1>2, LifecycleInvariant, PTL DEF Spec, DownloadsAreQueued, Queue!QueueSpec
=============================================================================
