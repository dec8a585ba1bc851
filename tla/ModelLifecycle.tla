--------------------------- MODULE ModelLifecycle ---------------------------
(***************************************************************************)
(* The managed models of ModelOps: the rows of model_registry with their   *)
(* lifecycle and the summary of their last validation, the test runs,      *)
(* the credentials of cloud models, and the download jobs that create      *)
(* local models.                                                           *)
(*                                                                         *)
(* A request reads a model's row, checks it, and writes later, in another  *)
(* transaction; between the two anybody may write.  Every write is an      *)
(* UPDATE without a condition on what was read.  Each action below is one  *)
(* transaction.  A request that its checks refuse changes nothing and is   *)
(* left out, and so are the checks of role, ownership and runtime profile, *)
(* which refuse more.                                                      *)
(***************************************************************************)
EXTENDS Naturals, FiniteSets

CONSTANTS
  Models,         \* ids of models
  CloudSettings,  \* what the fingerprint of a cloud model covers, but for
                  \* its credential
  Credentials,    \* saved provider credentials
  NoCredential,
  Handlers,       \* threads that serve requests
  Workers,        \* threads of download_worker_loop
  NoModel,
  Nobody,         \* no worker
  MaxJobs,        \* bound on the downloads requested
  MaxRequests,    \* bound on the requests served
  MaxCrashes      \* bound on the crashes of the backend process, and on the
                  \* requests and jobs that an exception cuts

LocalSettings == {"downloading", "downloaded", "failed"}
Settings == CloudSettings \cup LocalSettings
Threads == Handlers \cup Workers
Jobs == 1..MaxJobs
NoJob == 0

ASSUME LifecycleAssumption ==
  /\ CloudSettings \cap (LocalSettings \cup {"none"}) = {}
  /\ NoCredential \notin Credentials /\ NoModel \notin Models
  /\ Handlers \cap Workers = {} /\ Nobody \notin Threads
  /\ {MaxJobs, MaxRequests, MaxCrashes} \subseteq Nat

VARIABLES
  registry,    \* model_registry
  usable,      \* the credentials that are active
  passed,      \* the configurations of each model's successful test runs
  jobs,        \* model_download_jobs, in the order they were created
  work,        \* the request or job each thread is at
  spent,       \* what was used of each bound
  disturbed    \* history: models on which two operations overlapped, or one
               \* was cut by a crash

vars == <<registry, usable, passed, jobs, work, spent, disturbed>>

\* What compute_config_fingerprint hashes.
Configs == [setting : Settings, credential : Credentials \cup {NoCredential}]
Config(setting, k) == [setting |-> setting, credential |-> k]
NoConfig == Config("none", NoCredential)

IsCloud(c) == c.setting \in CloudSettings
\* cloud_credential_is_ready: platform models may do without a credential.
IsReady(c) == IsCloud(c) /\ c.credential # NoCredential => c.credential \in usable

\* A row: `print` is current_config_fingerprint, `tested` the fingerprint of
\* the last validation; `validated` is is_validation_current with the status
\* "success", which are only ever written together.
Life == {"created", "registered", "validated", "active", "inactive",
         "unregistered"}
Row(life, c) == [life |-> life, config |-> c, print |-> c,
                 validated |-> FALSE, tested |-> NoConfig]
NoRow == Row("none", NoConfig)
Rows == [life : Life, config : Configs, print : Configs, validated : BOOLEAN,
         tested : Configs \cup {NoConfig}]

Exists(m) == registry[m] # NoRow

Steps == {"find", "secret", "reread", "write", "fetch", "store", "report"}
Ops == {"create", "register", "activate", "deactivate", "unregister",
        "delete", "credential", "test", "validate", "revoke", "download"}
Task(op, step, m, c) == [op |-> op, step |-> step, on |-> m, seen |-> NoRow,
                         config |-> c, job |-> NoJob]
NoTask == Task("none", "none", NoModel, NoConfig)
Tasks == [op : Ops, step : Steps, on : Models \cup {NoModel},
          seen : Rows \cup {NoRow}, job : Jobs \cup {NoJob},
          config : [setting : Settings \cup {"none"},
                    credential : Credentials \cup {NoCredential}]]

\* Types of the variables.
TypeOK ==
  /\ registry \in [Models -> Rows \cup {NoRow}]
  /\ usable \subseteq Credentials
  /\ passed \in [Models -> SUBSET Configs]
  /\ jobs \in [Jobs -> [status : {"new", "queued", "running", "succeeded", "failed"},
                        model : Models \cup {NoModel}]]
  /\ work \in [Threads -> Tasks \cup {NoTask}]
  /\ spent \in [requests : 0..MaxRequests, crashes : 0..MaxCrashes]
  /\ disturbed \subseteq Models

Init ==
  /\ registry = [m \in Models |-> NoRow]
  /\ usable = Credentials
  /\ passed = [m \in Models |-> {}]
  /\ jobs = [j \in Jobs |-> [status |-> "new", model |-> NoModel]]
  /\ work = [t \in Threads |-> NoTask]
  /\ spent = [requests |-> 0, crashes |-> 0]
  /\ disturbed = {}

-----------------------------------------------------------------------------
(* Threads.                                                                *)

Idle(t) == work[t] = NoTask
At(t, op, step) == work[t].op = op /\ work[t].step = step
Touched(task) == CASE task.op = "none" -> {}
                   [] task.op = "revoke" -> Models
                   [] OTHER -> {task.on}

Begin(t, task) ==
  /\ Idle(t)
  /\ work' = [work EXCEPT ![t] = task]
  /\ disturbed' = disturbed \cup
       (Touched(task) \cap UNION {Touched(work[u]) : u \in Threads \ {t}})
Step(t, step) ==
  work' = [work EXCEPT ![t].step = step] /\ UNCHANGED disturbed
End(t) == work' = [work EXCEPT ![t] = NoTask] /\ UNCHANGED disturbed

\* The read with which most requests begin.
Read(t, op, step, m, c) ==
  /\ Exists(m)
  /\ Begin(t, [Task(op, step, m, c) EXCEPT !.seen = registry[m]])

\* UPDATE model_registry ... WHERE model_id = m.
Write(m, row) ==
  registry' = [registry EXCEPT ![m] = IF Exists(m) THEN row ELSE @]
Upsert(m, life, c) == registry' = [registry EXCEPT ![m] = Row(life, c)]

\* What a change of the credential does to a row.
Invalidated(row) ==
  [row EXCEPT !.validated = FALSE, !.tested = NoConfig,
              !.life = IF @ = "active" THEN "inactive" ELSE @]

-----------------------------------------------------------------------------
(* Requests: how they begin.                                               *)

\* create_model looks for the credential first; the catalog route does not
\* need one.
BeginCreate(t, m, c) ==
  /\ c.setting \in CloudSettings \cup {"downloaded"}
  /\ ~IsCloud(c) => c.credential = NoCredential
  /\ IsReady(c)
  /\ Begin(t, Task("create", "write", m, c))

BeginRegister(t, m) ==
  /\ registry[m].life \in {"created", "unregistered"}
  /\ Read(t, "register", "write", m, NoConfig)

BeginActivate(t, m) ==
  /\ IsReady(registry[m].config)
  /\ registry[m].validated
  /\ Read(t, "activate", "write", m, NoConfig)

BeginDeactivate(t, m) == Read(t, "deactivate", "write", m, NoConfig)

BeginUnregister(t, m) ==
  /\ registry[m].life # "active"
  /\ Read(t, "unregister", "write", m, NoConfig)

BeginDelete(t, m) ==
  /\ registry[m].life = "unregistered"
  /\ Read(t, "delete", "write", m, NoConfig)

BeginCredential(t, m, k) ==
  /\ IsCloud(registry[m].config)
  /\ Read(t, "credential", "secret", m, [registry[m].config EXCEPT !.credential = k])

Testable == {"registered", "validated", "inactive", "active"}

BeginTest(t, m) ==
  /\ registry[m].life \in Testable
  /\ Read(t, "test", IF IsCloud(registry[m].config) THEN "secret" ELSE "write",
          m, NoConfig)

BeginValidate(t, m) ==
  /\ registry[m].life \in Testable
  /\ ~registry[m].validated
  /\ Read(t, "validate", "find", m, NoConfig)

\* The credential is revoked in a transaction of its own; its models follow.
BeginRevoke(t, k) ==
  /\ k \in usable
  /\ usable' = usable \ {k}
  /\ Begin(t, Task("revoke", "write", NoModel, Config("none", k)))

\* The route of a download writes the model's row and then the job.
BeginDownload(t, m) ==
  /\ Cardinality({h \in Handlers : work[h].op = "download"})
       < Cardinality({j \in Jobs : jobs[j].status = "new"})
  /\ Upsert(m, "created", Config("downloading", NoCredential))
  /\ Begin(t, Task("download", "write", m, NoConfig))

Request(t) ==
  /\ spent.requests < MaxRequests
  /\ spent' = [spent EXCEPT !.requests = @ + 1]
  /\ UNCHANGED <<passed, jobs>>
  /\ \/ /\ \E m \in Models :
             \/ \E c \in Configs : BeginCreate(t, m, c)
             \/ \E k \in Credentials : BeginCredential(t, m, k)
             \/ BeginRegister(t, m) \/ BeginActivate(t, m)
             \/ BeginDeactivate(t, m) \/ BeginUnregister(t, m)
             \/ BeginDelete(t, m) \/ BeginTest(t, m) \/ BeginValidate(t, m)
        /\ UNCHANGED <<registry, usable>>
     \/ (\E k \in Credentials : BeginRevoke(t, k)) /\ UNCHANGED registry
     \/ (\E m \in Models : BeginDownload(t, m)) /\ UNCHANGED usable

-----------------------------------------------------------------------------
(* Requests: how they go on.                                               *)

Create(t) ==
  /\ At(t, "create", "write")
  /\ Upsert(work[t].on, "registered", work[t].config)
  /\ End(t)
  /\ UNCHANGED <<usable, passed, jobs, spent>>

\* set_lifecycle_state, activate_model and deactivate_model.
TargetLife == [register |-> "registered", activate |-> "active",
               deactivate |-> "inactive", unregister |-> "unregistered"]

SetLife(t) ==
  /\ \E op \in DOMAIN TargetLife :
       /\ At(t, op, "write")
       /\ Write(work[t].on, [registry[work[t].on] EXCEPT !.life = TargetLife[op]])
  /\ End(t)
  /\ UNCHANGED <<usable, passed, jobs, spent>>

Delete(t) ==
  /\ At(t, "delete", "write")
  /\ registry' = [registry EXCEPT ![work[t].on] = NoRow]
  /\ passed' = [passed EXCEPT ![work[t].on] = {}]
  /\ End(t)
  /\ UNCHANGED <<usable, jobs, spent>>

\* get_active_credential_secret: the new credential, or the one to test.
FindSecret(t) ==
  /\ work[t].step = "secret"
  /\ LET change == work[t].op = "credential"
         c == IF change THEN work[t].config ELSE work[t].seen.config
     IN  IF c.credential \in usable
         THEN Step(t, IF change THEN "reread" ELSE "write")
         ELSE End(t)
  /\ UNCHANGED <<registry, usable, passed, jobs, spent>>

\* The repository reads the row again for the new fingerprint.
Reread(t) ==
  /\ At(t, "credential", "reread")
  /\ LET row == registry[work[t].on]
     IN  IF row = NoRow THEN End(t)
         ELSE /\ work' = [work EXCEPT
                   ![t].step = "write", ![t].seen = row,
                   ![t].config = Config(row.config.setting, @.credential)]
              /\ UNCHANGED disturbed
  /\ UNCHANGED <<registry, usable, passed, jobs, spent>>

ChangeCredential(t) ==
  /\ At(t, "credential", "write")
  /\ LET row == Invalidated(registry[work[t].on])
     IN  Write(work[t].on, [row EXCEPT !.config.credential = work[t].config.credential,
                                       !.print = work[t].config])
  /\ End(t)
  /\ UNCHANGED <<usable, passed, jobs, spent>>

\* The test ran with the configuration read before; its run cannot be
\* recorded for a model that is gone.
Test(t) ==
  /\ At(t, "test", "write")
  /\ \E success \in BOOLEAN :
       passed' = IF success /\ Exists(work[t].on)
                 THEN [passed EXCEPT ![work[t].on] = @ \cup {work[t].seen.print}]
                 ELSE passed
  /\ End(t)
  /\ UNCHANGED <<registry, usable, jobs, spent>>

\* The test run that the request names must be of the fingerprint read.
FindTestRun(t) ==
  /\ At(t, "validate", "find")
  /\ IF work[t].seen.print \in passed[work[t].on] THEN Step(t, "write") ELSE End(t)
  /\ UNCHANGED <<registry, usable, passed, jobs, spent>>

\* append_validation.
Validate(t) ==
  /\ At(t, "validate", "write")
  /\ Write(work[t].on, [registry[work[t].on] EXCEPT
                          !.validated = TRUE, !.tested = work[t].seen.print,
                          !.life = IF @ = "active" THEN @ ELSE "validated"])
  /\ End(t)
  /\ UNCHANGED <<usable, passed, jobs, spent>>

\* Deviation: the models are validated no more, but the active ones stay so.
MarkRevokedSoftly(t) ==
  /\ At(t, "revoke", "write")
  /\ registry' = [m \in Models |->
       IF Exists(m) /\ IsCloud(registry[m].config)
            /\ registry[m].config.credential = work[t].config.credential
       THEN [Invalidated(registry[m]) EXCEPT !.life = registry[m].life] ELSE registry[m]]
  /\ End(t)
  /\ UNCHANGED <<usable, passed, jobs, spent>>

\* mark_models_for_revoked_credential.
MarkRevoked(t) ==
  /\ At(t, "revoke", "write")
  /\ registry' = [m \in Models |->
       IF Exists(m) /\ IsCloud(registry[m].config)
            /\ registry[m].config.credential = work[t].config.credential
       THEN Invalidated(registry[m]) ELSE registry[m]]
  /\ End(t)
  /\ UNCHANGED <<usable, passed, jobs, spent>>

QueueDownload(t) ==
  /\ t \in Handlers /\ At(t, "download", "write")
  /\ \E j \in Jobs :
       /\ jobs[j].status = "new"
       /\ \A i \in 1..(j - 1) : jobs[i].status # "new"
       /\ jobs' = [jobs EXCEPT ![j] = [status |-> "queued", model |-> work[t].on]]
  /\ End(t)
  /\ UNCHANGED <<registry, usable, passed, spent>>

-----------------------------------------------------------------------------
(* The download workers.                                                   *)

\* Deviation: the newest job is claimed first.
ClaimNewest(w) ==
  /\ \E j \in Jobs :
       /\ jobs[j].status = "queued"
       /\ \A i \in (j + 1)..MaxJobs : jobs[i].status # "queued"
       /\ jobs' = [jobs EXCEPT ![j].status = "running"]
       /\ Begin(w, [Task("download", "fetch", jobs[j].model, NoConfig) EXCEPT !.job = j])
  /\ UNCHANGED <<registry, usable, passed, spent>>

ClaimDownload(w) ==
  /\ \E j \in Jobs :
       /\ jobs[j].status = "queued"
       /\ \A i \in 1..(j - 1) : jobs[i].status # "queued"
       /\ jobs' = [jobs EXCEPT ![j].status = "running"]
       /\ Begin(w, [Task("download", "fetch", jobs[j].model, NoConfig) EXCEPT !.job = j])
  /\ UNCHANGED <<registry, usable, passed, spent>>

\* The provider delivers the files, or fails.
Fetch(w) ==
  /\ At(w, "download", "fetch")
  /\ \E outcome \in {"downloaded", "failed"} :
       work' = [work EXCEPT ![w].step = "store",
                            ![w].config = Config(outcome, NoCredential)]
  /\ UNCHANGED <<registry, usable, passed, jobs, spent, disturbed>>

\* The row is written anew, whatever has become of the model meanwhile.
Store(w) ==
  /\ At(w, "download", "store")
  /\ Upsert(work[w].on,
            IF work[w].config.setting = "failed" THEN "created" ELSE "registered",
            work[w].config)
  /\ Step(w, "report")
  /\ UNCHANGED <<usable, passed, jobs, spent>>

\* mark_job_succeeded or mark_job_failed.
Report(w) ==
  /\ At(w, "download", "report")
  /\ jobs' = [jobs EXCEPT ![work[w].job].status =
                IF work[w].config.setting = "failed" THEN "failed" ELSE "succeeded"]
  /\ End(w)
  /\ UNCHANGED <<registry, usable, passed, spent>>

\* Every thread is gone; ensure_download_worker_started fails the jobs that
\* were started long enough ago.
CrashAndRestart ==
  /\ spent.crashes < MaxCrashes
  /\ spent' = [spent EXCEPT !.crashes = @ + 1]
  /\ work' = [t \in Threads |-> NoTask]
  /\ disturbed' = disturbed \cup UNION {Touched(work[t]) : t \in Threads}
  /\ \E stale \in 0..MaxJobs :
       jobs' = [j \in Jobs |-> IF jobs[j].status = "running" /\ j <= stale
                               THEN [jobs[j] EXCEPT !.status = "failed"] ELSE jobs[j]]
  /\ UNCHANGED <<registry, usable, passed>>

\* An exception, say of the database, ends a request or a job in the middle.
\* The loop of the worker goes on; the job stays "running".
Escape(t) ==
  /\ ~Idle(t)
  /\ spent.crashes < MaxCrashes
  /\ spent' = [spent EXCEPT !.crashes = @ + 1]
  /\ work' = [work EXCEPT ![t] = NoTask]
  /\ disturbed' = disturbed \cup Touched(work[t])
  /\ UNCHANGED <<registry, usable, passed, jobs>>

\* Nothing was asked that is not done.
Quiet ==
  /\ \A t \in Threads : Idle(t)
  /\ \A j \in Jobs : jobs[j].status # "queued"
  /\ UNCHANGED vars

Handle(t) ==
  \/ Request(t) \/ Create(t) \/ SetLife(t) \/ Delete(t)
  \/ FindSecret(t) \/ Reread(t) \/ ChangeCredential(t)
  \/ Test(t) \/ FindTestRun(t) \/ Validate(t) \/ MarkRevoked(t)
  \/ QueueDownload(t)

Download(w) == ClaimDownload(w) \/ Fetch(w) \/ Store(w) \/ Report(w)

Next ==
  \/ \E t \in Handlers : Handle(t)
  \/ \E w \in Workers : Download(w)
  \/ \E t \in Threads : Escape(t)
  \/ CrashAndRestart
  \/ Quiet

Spec == Init /\ [][Next]_vars

-----------------------------------------------------------------------------
(* Properties.                                                             *)

ValidatedAsIs(m) ==
  /\ registry[m].validated
  /\ registry[m].tested = registry[m].print /\ registry[m].print = registry[m].config
  /\ registry[m].config \in passed[m]

\* Unless operations on it overlapped or a crash cut one, a model that is
\* active was tested successfully and validated in just the configuration it
\* has, and its credential is not revoked but by a revocation still at work.
ActiveIsFit ==
  \A m \in Models \ disturbed :
    registry[m].life = "active" =>
      /\ ValidatedAsIs(m)
      /\ (\A t \in Threads : work[t].op # "revoke") => IsReady(registry[m].config)

\* Unless operations on it overlapped, the validation of a model that counts
\* as current is of the model's configuration and rests on a test of it.
\* (docs/services/modelops.md:64 has it of all models; a validation that
\* overlaps a change of the configuration is written over the reset.)
ValidationIsOfConfig ==
  /\ TypeOK
  /\ \A m \in Models \ disturbed : registry[m].validated => ValidatedAsIs(m)

\* What counts as validated or runs as active was tested as it is.
ServedWasTested == ActiveIsFit /\ ValidationIsOfConfig

JobStatus(j) == IF jobs[j].status = "succeeded" THEN "done" ELSE jobs[j].status
JobHolder(j) ==
  IF jobs[j].status = "running" /\ \E w \in Workers : work[w].job = j
  THEN CHOOSE w \in Workers : work[w].job = j ELSE Nobody

Queue == INSTANCE JobQueue WITH
           status <- [j \in Jobs |-> JobStatus(j)],
           holder <- [j \in Jobs |-> JobHolder(j)]

\* A download is claimed once, in order, by one worker, and is final once it
\* is finished.
DownloadsAreQueued == Queue!QueueSpec
=============================================================================
