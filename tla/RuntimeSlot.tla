---------------------------- MODULE RuntimeSlot ----------------------------
(***************************************************************************)
(* What the local model runtime promises to the rest of the platform: one  *)
(* slot, which a load names, an unload empties, and only the outcome of    *)
(* that load changes in between.  Children, waiter threads and deadlines   *)
(* are the business of RuntimeController, which implements this            *)
(* specification; LocalSlots composes it with the backend.                 *)
(***************************************************************************)

CONSTANTS Ids, Paths, None

VARIABLES
  phase,  \* "starting", "up" or "down": the application of the runtime
  slot    \* what GET /v1/admin/runtime-state reports

vars == <<phase, slot>>

Slot(load_state, id, path) ==
  [load_state |-> load_state, runtime_model_id |-> id, local_path |-> path]

Empty == Slot("empty", None, None)

Init == phase = "starting" /\ slot = Empty

\* The application starts without a model, with the model of its
\* environment, or with the error that model was refused with.  A model
\* whose child cannot be started keeps the application from coming up.
StartEmpty == phase = "starting" /\ phase' = "up" /\ UNCHANGED slot

StartWith(id, path) ==
  /\ phase = "starting"
  /\ phase' \in {"up", "down"}
  /\ slot' = Slot("loading", id, path)

StartRefused(id, path) ==
  /\ phase = "starting"
  /\ phase' = "up"
  /\ slot' = Slot("error", id, path)

Load(id, path) ==
  /\ phase = "up"
  /\ slot' = Slot("loading", id, path)
  /\ UNCHANGED phase

Unload == phase = "up" /\ slot' = Empty /\ UNCHANGED phase

\* The model of the slot is served, or failed.  An empty slot stays empty,
\* and a report never changes which model the slot names.
Report ==
  /\ slot.load_state # "empty"
  /\ \E load_state \in {"loaded", "error"} :
       slot' = [slot EXCEPT !.load_state = load_state]
  /\ UNCHANGED phase

Shutdown == phase = "up" /\ phase' = "down" /\ UNCHANGED slot

Next ==
  \/ StartEmpty
  \/ \E id \in Ids, path \in Paths :
       StartWith(id, path) \/ StartRefused(id, path) \/ Load(id, path)
  \/ Unload
  \/ Report
  \/ Shutdown

Spec == Init /\ [][Next]_vars
=============================================================================
