------------------------- MODULE RuntimeController -------------------------
(***************************************************************************)
(* The local model runtime (llm_runtime/runtime_app): one controller that  *)
(* owns at most one vLLM child process, and one daemon thread per load     *)
(* that waits for the child to serve the model it was started for.         *)
(*                                                                         *)
(* A section run under self._lock is one step.  Between two such sections  *)
(* a waiter polls the child and asks the child's HTTP port, which every    *)
(* child of the controller shares, so these are steps of their own.        *)
(*                                                                         *)
(* The n-th load attempt, its child and its waiter thread share the        *)
(* number n.  Requests that load_model refuses with ValueError change      *)
(* nothing and are left out, except at start-up, where they are recorded.  *)
(***************************************************************************)
EXTENDS Naturals

CONSTANTS
  Ids,         \* runtime model ids
  Paths,       \* local paths under the model root that exist
  None,        \* Python's None
  MaxLoads,    \* bound on the load attempts of one controller process
  MaxPolls,    \* bound on the rounds of a waiter before its deadline passes
  Unkillable   \* the children whose wait() times out even after SIGKILL

ASSUME ConstantsAssumption ==
  /\ None \notin Ids
  /\ None \notin Paths
  /\ MaxLoads \in Nat \ {0}
  /\ MaxPolls \in Nat \ {0}

Loads == 1..MaxLoads
NoProcess == 0

VARIABLES
  phase,     \* "starting", "up" or "down": the FastAPI application
  state,     \* self._state
  process,   \* self._process, the number of a child or NoProcess
  loads,     \* number of load attempts so far
  child,     \* what the operating system knows of each child
  waiter     \* the locals of each _await_runtime_ready thread

vars == <<phase, state, process, loads, child, waiter>>

RuntimeState(load_state, id, path, error) ==
  [load_state |-> load_state, runtime_model_id |-> id, local_path |-> path,
   last_error |-> error]

EmptyState == RuntimeState("empty", None, None, "none")

LoadStates == {"empty", "loading", "loaded", "error"}
Errors == {"none", "invalid", "runtime_exited", "runtime_load_timeout"}
ChildStatus == {"unborn", "starting", "serving", "exited", "stuck"}
Unstarted == {"unborn", "unspawned"}  \* no such attempt, or its Popen failed
Ended == {"done", "died"}             \* returned, or killed by an exception
Working == {"check", "poll", "exited", "probe", "reply", "ready", "timeout"}

Threads ==
  [pc : Unstarted \cup Ended \cup Working,
   runtime_model_id : Ids \cup {None}, local_path : Paths \cup {None},
   process : Loads \cup {NoProcess}, polls : 0..MaxPolls]

\* Types of the variables.
TypeOK ==
  /\ phase \in {"starting", "up", "down"}
  /\ state \in [load_state : LoadStates, runtime_model_id : Ids \cup {None},
                local_path : Paths \cup {None}, last_error : Errors]
  /\ process \in Loads \cup {NoProcess}
  /\ loads \in 0..MaxLoads
  /\ child \in [Loads -> ChildStatus]
  /\ waiter \in [Loads -> Threads]

NoWaiter == [pc |-> "unborn", runtime_model_id |-> None, local_path |-> None,
             process |-> NoProcess, polls |-> 0]

Init ==
  /\ phase = "starting"
  /\ state = EmptyState
  /\ process = NoProcess
  /\ loads = 0
  /\ child = [c \in Loads |-> "unborn"]
  /\ waiter = [w \in Loads |-> NoWaiter]

-----------------------------------------------------------------------------
(* Stopping the child.  terminate, wait, kill and the second wait happen   *)
(* under the lock; nobody sees the child between them.                     *)

Alive(c) == child[c] \in {"starting", "serving"}

ChildrenAfterStop ==
  IF process # NoProcess /\ Alive(process)
  THEN [child EXCEPT ![process] = "exited"]
  ELSE child

\* The wait() that follows kill() times out and its exception leaves the
\* caller, after self._process was cleared.
StopGetsStuck ==
  /\ process # NoProcess
  /\ Alive(process)
  /\ process \in Unkillable
  /\ process' = NoProcess
  /\ child' = [child EXCEPT ![process] = "stuck"]

Start(id, path, pc, status) ==
  LET n == loads + 1
  IN  /\ loads < MaxLoads
      /\ loads' = n
      /\ state' = RuntimeState("loading", id, path, "none")
      /\ process' = IF status = "starting" THEN n ELSE NoProcess
      /\ child' = [ChildrenAfterStop EXCEPT ![n] = status]
      /\ waiter' = [waiter EXCEPT ![n] =
                      [pc |-> pc, runtime_model_id |-> id, local_path |-> path,
                       process |-> NoProcess, polls |-> 0]]

\* load_model: stop the old child, publish "loading", start the new child
\* and its waiter.
Load(id, path) == Start(id, path, "check", "starting")

\* load_model when Popen raises OSError: "loading" is already published and
\* no waiter is started.
LoadWithoutChild(id, path) == Start(id, path, "unspawned", "unborn")

-----------------------------------------------------------------------------
(* The application and its administrative requests.                        *)

StartupEmpty ==
  /\ phase = "starting"
  /\ phase' = "up"
  /\ UNCHANGED <<state, process, loads, child, waiter>>

StartupLoads(id, path) ==
  /\ phase = "starting"
  /\ \/ Load(id, path) /\ phase' = "up"
     \/ LoadWithoutChild(id, path) /\ phase' = "down"

StartupRefused(id, path) ==
  /\ phase = "starting"
  /\ phase' = "up"
  /\ state' = RuntimeState("error", id, path, "invalid")
  /\ UNCHANGED <<process, loads, child, waiter>>

LoadModel(id, path) ==
  /\ phase = "up"
  /\ Load(id, path) \/ LoadWithoutChild(id, path)
  /\ UNCHANGED phase

\* Deviation: unload resets the state and leaves the child running.
UnloadKeepsChild ==
  /\ phase = "up"
  /\ state' = EmptyState
  /\ UNCHANGED <<phase, process, loads, child, waiter>>

UnloadModel ==
  /\ phase = "up"
  /\ process' = NoProcess
  /\ child' = ChildrenAfterStop
  /\ state' = EmptyState
  /\ UNCHANGED <<phase, loads, waiter>>

\* load_model or unload_model raises out of _stop_process_locked: the
\* request fails and the published state stays what it was.
AdminRequestFails ==
  /\ phase = "up"
  /\ StopGetsStuck
  /\ UNCHANGED <<phase, state, loads, waiter>>

Shutdown ==
  /\ phase = "up"
  /\ phase' = "down"
  /\ \/ process' = NoProcess /\ child' = ChildrenAfterStop
     \/ StopGetsStuck
  /\ UNCHANGED <<state, loads, waiter>>

-----------------------------------------------------------------------------
(* The child, as the operating system runs it.                             *)

ChildServes(c) ==
  /\ child[c] = "starting"
  /\ child' = [child EXCEPT ![c] = "serving"]
  /\ UNCHANGED <<phase, state, process, loads, waiter>>

ChildExits(c) ==
  /\ Alive(c)
  /\ child' = [child EXCEPT ![c] = "exited"]
  /\ UNCHANGED <<phase, state, process, loads, waiter>>

-----------------------------------------------------------------------------
(* _await_runtime_ready(runtime_model_id, local_path), thread w.           *)

Goto(w, pc) == waiter' = [waiter EXCEPT ![w].pc = pc]

\* Deviation: a waiter writes without looking at the state again.
StateIsAnyones(w) == TRUE

\* self._state.runtime_model_id == runtime_model_id, read again under the
\* lock before every write.
StateIsFor(w) == state.runtime_model_id = waiter[w].runtime_model_id

Publish(load_state, error) ==
  state' = [state EXCEPT !.load_state = load_state, !.last_error = error]

\* One turn of the loop: read the process and the state under the lock.
WaiterChecks(w) ==
  /\ waiter[w].pc = "check"
  /\ waiter[w].polls < MaxPolls
  /\ IF process # NoProcess /\ StateIsFor(w)
          /\ state.local_path = waiter[w].local_path
     THEN waiter' = [waiter EXCEPT ![w] =
                      [@ EXCEPT !.pc = "poll", !.process = process]]
     ELSE Goto(w, "done")
  /\ UNCHANGED <<phase, state, process, loads, child>>

\* The deadline passes; the bound on polls makes it pass eventually.
WaiterRunsOut(w) ==
  /\ waiter[w].pc = "check"
  /\ waiter[w].polls > 0
  /\ Goto(w, "timeout")
  /\ UNCHANGED <<phase, state, process, loads, child>>

WaiterPolls(w) ==
  /\ waiter[w].pc = "poll"
  /\ Goto(w, IF child[waiter[w].process] = "exited" THEN "exited" ELSE "probe")
  /\ UNCHANGED <<phase, state, process, loads, child>>

SleepAndRetry(w) ==
  waiter' = [waiter EXCEPT ![w] =
               [@ EXCEPT !.pc = "check", !.polls = waiter[w].polls + 1]]

\* The HTTP request goes to the port, that is to whichever child serves it.
WaiterProbes(w) ==
  /\ waiter[w].pc = "probe"
  /\ \/ \E c \in Loads :
          /\ child[c] = "serving"
          /\ waiter' = [waiter EXCEPT ![w] =
                         [@ EXCEPT !.pc = "reply", !.process = c]]
     \/ SleepAndRetry(w)
  /\ UNCHANGED <<phase, state, process, loads, child>>

\* The reply lists the model the answering child was started for.
WaiterHears(w) ==
  /\ waiter[w].pc = "reply"
  /\ \/ /\ waiter[waiter[w].process].runtime_model_id
             = waiter[w].runtime_model_id
        /\ Goto(w, "ready")
     \/ SleepAndRetry(w)   \* another id, an error status, or 504
     \/ \* The child went away before it answered: urlopen raises
        \* RemoteDisconnected, which _http_json_request does not catch.
        /\ ~Alive(waiter[w].process)
        /\ Goto(w, "died")
  /\ UNCHANGED <<phase, state, process, loads, child>>

WaiterReportsExit(w) ==
  /\ waiter[w].pc = "exited"
  /\ IF StateIsFor(w) THEN Publish("error", "runtime_exited")
                      ELSE UNCHANGED state
  /\ Goto(w, "done")
  /\ UNCHANGED <<phase, process, loads, child>>

WaiterReportsReady(w) ==
  /\ waiter[w].pc = "ready"
  /\ IF StateIsFor(w) THEN Publish("loaded", "none") ELSE UNCHANGED state
  /\ Goto(w, "done")
  /\ UNCHANGED <<phase, process, loads, child>>

\* Deviation: a waiter that ran out of time stops whatever child runs.
WaiterStopsAny(w) ==
  /\ waiter[w].pc = "timeout"
  /\ IF StateIsFor(w) THEN Publish("error", "runtime_load_timeout")
                      ELSE UNCHANGED state
  /\ process' = NoProcess
  /\ child' = ChildrenAfterStop
  /\ Goto(w, "done")
  /\ UNCHANGED <<phase, loads>>

\* Deviation: a waiter that ran out of time just ends.
WaiterGivesUp(w) ==
  /\ waiter[w].pc = "timeout"
  /\ Goto(w, "done")
  /\ UNCHANGED <<phase, state, process, loads, child>>

\* The deadline passed: publish the error and stop the child, whichever
\* load of this runtime model id started it.
WaiterTimesOut(w) ==
  /\ waiter[w].pc = "timeout"
  /\ IF StateIsFor(w)
     THEN /\ Publish("error", "runtime_load_timeout")
          /\ \/ process' = NoProcess /\ child' = ChildrenAfterStop
             \/ StopGetsStuck
     ELSE UNCHANGED <<state, process, child>>
  /\ Goto(w, "done")
  /\ UNCHANGED <<phase, loads>>

Waiter(w) ==
  \/ WaiterChecks(w)
  \/ WaiterRunsOut(w)
  \/ WaiterPolls(w)
  \/ WaiterProbes(w)
  \/ WaiterHears(w)
  \/ WaiterReportsExit(w)
  \/ WaiterReportsReady(w)
  \/ WaiterTimesOut(w)

\* The container is gone once the application is down and no thread runs.
Exited ==
  /\ phase = "down"
  /\ \A w \in Loads : waiter[w].pc \notin Working
  /\ UNCHANGED vars

-----------------------------------------------------------------------------

Next ==
  \/ StartupEmpty
  \/ \E id \in Ids, path \in Paths :
       StartupLoads(id, path) \/ StartupRefused(id, path) \/ LoadModel(id, path)
  \/ UnloadModel
  \/ AdminRequestFails
  \/ Shutdown
  \/ \E c \in Loads : ChildServes(c) \/ ChildExits(c)
  \/ \E w \in Loads : Waiter(w)
  \/ Exited

Spec == Init /\ [][Next]_vars

\* Each waiter is a thread the operating system keeps scheduling; its HTTP
\* calls and sleeps have timeouts.  Nothing is assumed of the children.
FairSpec == Spec /\ \A w \in Loads : WF_vars(Waiter(w))

-----------------------------------------------------------------------------
(* Properties.                                                             *)

\* The one attempt, so far, to load this runtime model id; Sole(None) holds.
Sole(id) ==
  \A v, w \in 1..loads :
    waiter[v].runtime_model_id = id /\ waiter[w].runtime_model_id = id => v = w

NobodyStuck == \A c \in Loads : child[c] # "stuck"

\* No vLLM child outlives its slot: a child that still runs is the one the
\* controller holds, so it can be stopped, and there is at most one
\* (load_model and unload_model stop the child before they drop it).
NoOrphanChild == \A c \in Loads : Alive(c) => process = c

\* get_state describes the child the controller holds: it is the child of
\* the latest load and was started with the reported id and path, whatever
\* the waiters of earlier loads wrote in between.
HeldChildIsReported ==
  process # NoProcess =>
    /\ process = loads
    /\ state.load_state # "empty"
    /\ state.runtime_model_id = waiter[process].runtime_model_id
    /\ state.local_path = waiter[process].local_path

\* What list_models advertises of an id loaded once is served by a child
\* the controller holds and that has answered for it, while the controller
\* is up and no kill has got stuck, which would leave a slot that reports
\* what is gone.  A second load of the same id breaks this: the waiters
\* compare the id only.
SoleLoadedHasChild ==
  phase = "up" /\ state.load_state = "loaded" /\ Sole(state.runtime_model_id)
    /\ NobodyStuck
  => process # NoProcess /\ child[process] # "starting"

\* A child that runs can be stopped and is the one reported, and what is
\* advertised is served.
ChildIsAccounted == NoOrphanChild /\ HeldChildIsReported /\ SoleLoadedHasChild

\* The controller, its threads and its children keep the promise of
\* RuntimeSlot: whatever late probes, exits and deadlines do, only a load
\* names a model, only an unload empties the slot, and an empty slot stays
\* empty until the next load.
Published == INSTANCE RuntimeSlot WITH
  slot <- [load_state |-> state.load_state,
           runtime_model_id |-> state.runtime_model_id,
           local_path |-> state.local_path]

KeepsTheSlot == Published!Spec

\* A waiter that runs out of time never stops the child of another model.
TimeoutKillsItsModel ==
  [][\A w, c \in Loads :
       waiter[w].pc = "timeout" /\ waiter'[w].pc = "done" /\ child'[c] # child[c]
         => waiter[w].runtime_model_id = waiter[c].runtime_model_id]_vars

\* A load does not stay "loading": it is loaded, failed, or replaced, unless
\* its waiter was killed by an exception of the probe.
LoadingResolves ==
  \A n \in Loads :
    (process = n /\ state.load_state = "loading")
      ~> (process # n \/ state.load_state # "loading" \/ waiter[n].pc = "died")
=============================================================================
