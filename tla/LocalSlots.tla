----------------------------- MODULE LocalSlots -----------------------------
(***************************************************************************)
(* The loaded-model slot of a local provider (backend/app/services/        *)
(* platform_local_slots.py): which managed model the operator wants in the *)
(* local runtime, kept in the provider's row, and what the backend does to *)
(* make the runtime hold it.                                               *)
(*                                                                         *)
(* Every request of the platform, reads included, first bootstraps: it     *)
(* reads the slot, writes the row anew with what it read, asks the runtime *)
(* for its state, asks for a load when the two differ, and writes what it  *)
(* learned.  No lock spans these steps.  The runtime is RuntimeSlot, the   *)
(* specification RuntimeController implements, here in a container that    *)
(* may be restarted.                                                       *)
(*                                                                         *)
(* A model stands for its runtime model id and for its local path, which   *)
(* are always written together.                                            *)
(***************************************************************************)
EXTENDS Naturals, FiniteSets

CONSTANTS
  Models,       \* local managed models, of the provider's task
  None,         \* Python's None
  Unknown,      \* no single request says what the operator wants
  Handlers,     \* request threads of the backend
  Scenarios     \* the model of the runtime's environment, and the bounds:
                \* requests other than reads, failed calls and requests cut
                \* short, stops and restarts of the runtime, requests at once

ASSUME ConstantsAssumption ==
  /\ None \notin Models
  /\ Unknown \notin Models \cup {None}
  /\ Scenarios \subseteq
       [startup : Models \cup {None},
        requests : Nat, failures : Nat, restarts : Nat, overlap : Nat]

VARIABLES
  phase,     \* of the runtime's application
  runtime,   \* the runtime's slot
  label,     \* managed_model_id of the runtime's state
  row,       \* the slot keys of the provider's config_json
  handler,   \* the locals of each request thread
  wish,      \* what the operator asked for last: a model, None or Unknown
  mixed,     \* since then a load failed while the runtime held another model
  left       \* the scenario, and what is left of its bounds

slotVars == <<phase, runtime, label>>
history == <<wish, mixed>>
vars == <<phase, runtime, label, row, handler, wish, mixed, left>>

Runtime == INSTANCE RuntimeSlot WITH
  Ids <- Models, Paths <- Models, slot <- runtime

Slot(managed, target, state) ==
  [managed |-> managed, target |-> target, state |-> state]

NoSlot == Slot(None, None, "absent")    \* a config without slot keys
Cleared == Slot(None, None, "empty")

LoadStates == {"empty", "loading", "loaded", "error"}
Slots == [managed : Models \cup {None}, target : Models \cup {None},
          state : LoadStates \cup {"absent"}]

Operations == {"look", "recover", "assign", "clear", "update"}
Steps == {"idle", "ensure", "ask", "reload", "store",
          "reread", "inspect", "write", "call", "report"}

Idle == [op |-> "look", model |-> None, step |-> "idle", mine |-> NoSlot,
         resolved |-> NoSlot, alone |-> FALSE]

Threads ==
  [op : Operations, model : Models \cup {None}, step : Steps,
   mine : Slots, resolved : Slots, alone : BOOLEAN]

\* Types of the variables.
TypeOK ==
  /\ phase \in {"starting", "up", "down"}
  /\ runtime \in [load_state : LoadStates, runtime_model_id : Models \cup {None},
                  local_path : Models \cup {None}]
  /\ label \in Models \cup {None}
  /\ row \in Slots
  /\ handler \in [Handlers -> Threads]
  /\ wish \in Models \cup {None, Unknown}
  /\ mixed \in BOOLEAN
  /\ left \in [startup : Models \cup {None},
               requests : Nat, failures : Nat, restarts : Nat, overlap : Nat]

Init ==
  /\ Runtime!Init
  /\ label = None
  /\ row = NoSlot
  /\ handler = [h \in Handlers |-> Idle]
  /\ wish = Unknown
  /\ mixed = FALSE
  /\ left \in Scenarios

-----------------------------------------------------------------------------
(* Slots as the code computes with them.                                   *)

\* _local_slot_payload_from_config: without a managed model only an error
\* is kept of the state.
Payload(config) ==
  IF config.managed # None \/ config.state = "error" THEN config
  ELSE [config EXCEPT !.state = "empty"]

\* What GET /v1/admin/runtime-state answers.
Answer == Slot(label, runtime.runtime_model_id, runtime.load_state)

\* Deviation: the runtime's managed model replaces the one of the slot.
RuntimeWins(slot, answer) ==
  [managed |-> IF answer.managed # None THEN answer.managed ELSE slot.managed,
   target |-> IF answer.target # None THEN answer.target ELSE slot.target,
   state |-> answer.state]

\* _local_slot_with_runtime_state: the slot keeps its managed model, or
\* adopts the runtime's when it has none, and takes the rest from the answer.
WithRuntime(slot, answer) ==
  [managed |-> IF slot.managed # None THEN slot.managed ELSE answer.managed,
   target |-> IF answer.target # None THEN answer.target ELSE slot.target,
   state |-> answer.state]

\* The same without an answer.
Unavailable(slot) ==
  IF slot.managed # None THEN [slot EXCEPT !.state = "error"] ELSE slot

Intended(slot) == slot.managed # None /\ slot.target # None

\* Deviation: any model the runtime holds is good enough.
HoldsSomething(slot, answer) == answer.state \in {"loading", "loaded"}

\* runtime_aligned
Aligned(slot, answer) ==
  answer.target = slot.target /\ answer.state \in {"loading", "loaded"}

-----------------------------------------------------------------------------
(* Requests.                                                               *)

Goto(h, step) == handler' = [handler EXCEPT ![h].step = step]

Finish(h) == handler' = [handler EXCEPT ![h] = Idle]

\* The bootstrap's locals are gone.
Continue(h, step) ==
  handler' = [handler EXCEPT
    ![h] = [@ EXCEPT !.step = step, !.mine = NoSlot, !.resolved = NoSlot]]

\* One of the bounded events happens.
Spend(bound) ==
  left[bound] > 0 /\ left' = [left EXCEPT ![bound] = left[bound] - 1]

Edits == {"assign", "clear", "update"}
Active == {h \in Handlers : handler[h].step # "idle"}

\* A call of the runtime is not answered: the application is not there, or
\* the call fails, times out or is refused.
Unanswered == IF phase = "up" THEN Spend("failures") ELSE UNCHANGED left

\* A call was carried out but its answer is late or lost: the HTTP client
\* sends it once more.
Resent(effect) ==
  phase = "up" /\ Spend("failures") /\ effect /\ UNCHANGED handler

\* A request arrives and reads the slot of the provider's row.
Begin(h, op, model) ==
  /\ handler[h].step = "idle"
  /\ Cardinality(Active) < left.overlap
  /\ IF op = "look" THEN UNCHANGED left ELSE Spend("requests")
  /\ handler' = [g \in Handlers |->
       IF g = h
       THEN [Idle EXCEPT !.op = op, !.model = model, !.step = "ensure",
                         !.mine = row, !.alone = op \in Edits /\ Active = {}]
       ELSE [handler[g] EXCEPT !.alone = FALSE]]
  /\ UNCHANGED <<slotVars, row, history>>

\* ensure_provider_instance writes the whole row, with the slot read before.
Ensure(h) ==
  /\ handler[h].step = "ensure"
  /\ row' = handler[h].mine
  /\ Goto(h, "ask")
  /\ UNCHANGED <<slotVars, history, left>>

Learns(h, resolved, reload) ==
  handler' = [handler EXCEPT
    ![h].resolved = resolved,
    ![h].step = IF reload THEN "reload" ELSE "store"]

\* reconcile_provider_local_slot asks for the runtime's state.  An error with
\* a body is taken for a state that tells nothing.
Ask(h) ==
  LET slot == Payload(handler[h].mine)
  IN  /\ handler[h].step = "ask"
      /\ \/ /\ phase = "up"
            /\ Learns(h, WithRuntime(slot, Answer),
                      Intended(slot) /\ ~Aligned(slot, Answer))
            /\ UNCHANGED left
         \/ /\ Unanswered
            /\ \E resolved \in {Unavailable(slot), slot} :
                 Learns(h, resolved, Intended(slot))
      /\ UNCHANGED <<slotVars, row, history>>

\* load-model reaches the runtime and is carried out.
Loads(managed, target) == Runtime!Load(target, target) /\ label' = managed

\* It asks for a load.  A load that failed may have been carried out all the
\* same; the slot it then stores names what the runtime held before.
Reload(h) ==
  LET slot == Payload(handler[h].mine)
      resolved == handler[h].resolved
  IN  /\ handler[h].step = "reload"
      /\ \/ /\ Loads(slot.managed, slot.target)
            /\ Learns(h, WithRuntime(slot, Slot(slot.managed, slot.target, "loading")),
                      FALSE)
            /\ UNCHANGED <<mixed, left>>
         \/ Resent(Loads(slot.managed, slot.target)) /\ UNCHANGED mixed
         \/ /\ Unanswered
            /\ Loads(slot.managed, slot.target) \/ UNCHANGED slotVars
            /\ Learns(h, [resolved EXCEPT !.state = "error"], FALSE)
            /\ mixed' = (mixed \/ resolved.target # slot.target)
      /\ UNCHANGED <<row, wish>>

\* It writes the slot if that differs from the row it holds (of an error the
\* text counts too), and the request goes on to what it came for.
Store(h) ==
  LET resolved == handler[h].resolved
      same == resolved = handler[h].mine
  IN  /\ handler[h].step = "store"
      /\ \/ same /\ UNCHANGED row
         \/ (same => resolved.state = "error") /\ row' = resolved
      /\ CASE handler[h].op = "look" -> Finish(h)
           [] handler[h].op = "recover" -> Continue(h, "reread")
           [] OTHER -> Continue(h, "write")
      /\ UNCHANGED <<slotVars, history, left>>

\* embed_text_inputs_with_target reads the provider again after its call.
Reread(h) ==
  /\ handler[h].step = "reread"
  /\ handler' = [handler EXCEPT ![h].step = "inspect", ![h].mine = row]
  /\ UNCHANGED <<slotVars, row, history, left>>

\* recover_provider_local_slot_runtime: the intended model is not served, as
\* far as the runtime tells; without its answer the slot is left alone, unless
\* the call before had named the model as not found.
Inspect(h) ==
  LET slot == Payload(handler[h].mine)
      drifted == ~(runtime.load_state = "loaded"
                     /\ runtime.runtime_model_id = slot.target)
  IN  /\ handler[h].step = "inspect"
      /\ \/ /\ phase = "up"
            /\ IF Intended(slot) /\ drifted
               THEN handler' = [handler EXCEPT ![h].step = "ask", ![h].op = "look"]
               ELSE Finish(h)
            /\ UNCHANGED left
         \/ /\ Unanswered
            /\ \/ Finish(h)
               \/ /\ Intended(slot)
                  /\ handler' = [handler EXCEPT ![h].step = "ask",
                                                ![h].op = "look"]
      /\ UNCHANGED <<slotVars, row, history>>

\* What the operator chose is clear if no other request overlaps this one.
Chosen(h, model) == IF handler[h].alone THEN model ELSE Unknown

\* The operator's request writes the slot before it calls the runtime.
WriteAssigned(h) ==
  /\ handler[h].step = "write" /\ handler[h].op = "assign"
  /\ row' = Slot(handler[h].model, handler[h].model, "loading")
  /\ wish' = Chosen(h, handler[h].model)
  /\ mixed' = FALSE
  /\ Goto(h, "call")
  /\ UNCHANGED <<slotVars, left>>

WriteCleared(h) ==
  /\ handler[h].step = "write" /\ handler[h].op = "clear"
  /\ row' = Cleared
  /\ wish' = Unknown
  /\ Goto(h, "call")
  /\ UNCHANGED <<slotVars, mixed, left>>

\* update_provider_instance: the config of the request, or the serialized one
\* of the row, replaces the old; neither has the slot keys.
WriteUpdated(h) ==
  /\ handler[h].step = "write" /\ handler[h].op = "update"
  /\ row' = NoSlot
  /\ wish' = Unknown
  /\ Finish(h)
  /\ UNCHANGED <<slotVars, mixed, left>>

CallLoad(h) ==
  LET model == handler[h].model
      learned(state) == handler' = [handler EXCEPT
        ![h].step = "report", ![h].resolved = Slot(model, model, state)]
  IN  /\ handler[h].step = "call" /\ handler[h].op = "assign"
      /\ \/ Loads(model, model) /\ learned("loading") /\ UNCHANGED left
         \/ Resent(Loads(model, model))
         \/ /\ Unanswered
            /\ Loads(model, model) \/ UNCHANGED slotVars
            /\ learned("error")
      /\ UNCHANGED <<row, history>>

\* Deviation: the runtime forgets the model but not whose it was.
UnloadsHalf == Runtime!Unload /\ UNCHANGED label

Unloads == Runtime!Unload /\ label' = None

\* What the operator wants is known when the unload was carried out.
CallUnload(h) ==
  LET unloaded == Unloads /\ wish' = Chosen(h, None)
      untouched == UNCHANGED slotVars /\ wish' = Unknown
  IN  /\ handler[h].step = "call" /\ handler[h].op = "clear"
      /\ \/ unloaded /\ Finish(h) /\ UNCHANGED left
         \/ Resent(Unloads) /\ UNCHANGED wish
         \/ /\ Unanswered
            /\ unloaded \/ untouched
            /\ handler' = [handler EXCEPT
                 ![h].step = "report", ![h].resolved = Slot(None, None, "error")]
      /\ UNCHANGED <<row, mixed>>

\* The outcome of the call is written to the row.
Report(h) ==
  /\ handler[h].step = "report"
  /\ row' = handler[h].resolved
  /\ Finish(h)
  /\ UNCHANGED <<slotVars, history, left>>

\* A request ends before it is done: an exception of the database or of the
\* transport, or a crash of the backend.
Escape(h) ==
  /\ handler[h].step # "idle"
  /\ Spend("failures")
  /\ Finish(h)
  /\ UNCHANGED <<slotVars, row, history>>

Step(h) ==
  \/ Ensure(h) \/ Ask(h) \/ Reload(h) \/ Store(h)
  \/ Reread(h) \/ Inspect(h)
  \/ WriteAssigned(h) \/ CallLoad(h)
  \/ WriteCleared(h) \/ CallUnload(h)
  \/ WriteUpdated(h)
  \/ Report(h)

-----------------------------------------------------------------------------
(* The runtime.                                                            *)

\* It starts, with the model of its environment or without one, and reports
\* how its load went.  At start-up nobody names a managed model.
RuntimeRuns ==
  /\ \/ left.startup = None /\ Runtime!StartEmpty
     \/ /\ left.startup # None
        /\ \/ Runtime!StartWith(left.startup, left.startup)
           \/ Runtime!StartRefused(left.startup, left.startup)
     \/ Runtime!Report
  /\ UNCHANGED <<label, row, handler, history, left>>

RuntimeStops ==
  /\ Spend("restarts")
  /\ Runtime!Shutdown
  /\ UNCHANGED <<label, row, handler, history>>

\* A new process: whatever the old one held is forgotten.
RuntimeRestarts ==
  /\ Spend("restarts")
  /\ phase' = "starting"
  /\ runtime' = Runtime!Empty
  /\ label' = None
  /\ UNCHANGED <<row, handler, history>>

-----------------------------------------------------------------------------

Look == \E h \in Handlers : Begin(h, "look", None)

Next ==
  \/ Look
  \/ \E h \in Handlers :
       \/ \E op \in {"recover", "clear", "update"} : Begin(h, op, None)
       \/ \E m \in Models : Begin(h, "assign", m)
       \/ Step(h)
       \/ Escape(h)
  \/ RuntimeRuns
  \/ RuntimeStops
  \/ RuntimeRestarts

Spec == Init /\ [][Next]_vars

\* A request that is being served is served to its end: its calls have
\* timeouts and its statements nobody holds locks against.
FairSpec == Spec /\ \A h \in Handlers : WF_vars(Step(h))

-----------------------------------------------------------------------------
(* Properties.                                                             *)

\* The slot follows the operator: from an assignment on, or from a clear the
\* runtime carried out, that no other request overlapped, the row names the
\* managed model the operator chose, whatever bootstraps, recoveries, failed
\* or lost calls and restarts of the runtime come in between, and it names
\* that model's id and path unless a load failed while the runtime held
\* another model (then the row names that one: see the README).
SlotFollowsOperator ==
  wish # Unknown =>
    /\ row.managed = wish
    /\ ~mixed => row.target = wish \/ wish = None

\* The backend never loads a model the operator did not choose, and after a
\* clear it loads nothing, although every request may ask for loads.
LoadsFollowOperator ==
  [][phase = "up" /\ runtime' # runtime /\ runtime'.load_state = "loading"
       /\ wish # Unknown /\ (wish = None \/ ~mixed)
     => runtime'.runtime_model_id = wish /\ label' = wish]_vars

Wanted(m) == wish = m /\ ~mixed /\ phase = "up"

Held(m) ==
  runtime.runtime_model_id = m /\ runtime.load_state \in {"loading", "loaded"}

\* As long as requests keep coming, a runtime that lost or failed the chosen
\* model is made to load it again.
SlotHeals ==
  []<><<Look>>_vars => \A m \in Models : Wanted(m) ~> (Held(m) \/ ~Wanted(m))
=============================================================================
