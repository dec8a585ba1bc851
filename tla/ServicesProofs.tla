--------------------------- MODULE ServicesProofs ---------------------------
(* What the services beside the backend guarantee: the runtime controller, *)
(* for every number of loads, ids, paths and unkillable children, and the  *)
(* calls of tools over the gateway, the sandbox and the image workers, for *)
(* every number of calls, tools, servers and editors: proofs about         *)
(* RuntimeController, ToolCatalog and ToolCalls.                           *)
EXTENDS RuntimeController, ToolCalls, FiniteSetTheorems, SequenceTheorems, TLAPS

-----------------------------------------------------------------------------
(* The runtime controller: its inductive invariant.                        *)

\* Attempts beyond the counter have not happened.
Fresh ==
  /\ \A n \in Loads : n > loads => waiter[n].pc = "unborn" /\ child[n] = "unborn"
  /\ \A n \in 1..loads : waiter[n].runtime_model_id \in Ids

Starting ==
  phase = "starting" =>
    loads = 0 /\ process = NoProcess /\ state.load_state = "empty"

\* An empty slot is no waiter's.
EmptyIsNobodys ==
  state.load_state = "empty" => state.runtime_model_id = None

\* Inside its loop a waiter has a round left.
RoundsLeft ==
  \A w \in Loads :
    waiter[w].pc \in {"poll", "probe", "reply"} => waiter[w].polls < MaxPolls

Served(c) == c \in 1..loads /\ child[c] \notin {"unborn", "starting"}

\* A reply, and what a waiter concluded from it, came from a child that served.
RepliesAreServed ==
  \A w \in Loads :
    /\ waiter[w].pc = "reply" => Served(waiter[w].process)
    /\ waiter[w].pc = "ready" =>
         \E c \in Loads :
           Served(c) /\ waiter[c].runtime_model_id = waiter[w].runtime_model_id

\* When the controller holds no child, no thread of a once-loaded id is left
\* that could still publish "loaded".
NoLateWaiter ==
  phase = "up" /\ process = NoProcess /\ NobodyStuck
    /\ Sole(state.runtime_model_id)
  => \A w \in 1..loads :
       waiter[w].runtime_model_id = state.runtime_model_id
         => waiter[w].pc \notin Working

\* The inductive invariant of the controller.
ControllerInv ==
  /\ TypeOK
  /\ Fresh
  /\ Starting
  /\ EmptyIsNobodys
  /\ RoundsLeft
  /\ NoOrphanChild
  /\ HeldChildIsReported
  /\ RepliesAreServed
  /\ NoLateWaiter
  /\ SoleLoadedHasChild

-----------------------------------------------------------------------------
(* The steps.                                                              *)

\* A controller that has just been built satisfies the invariant.
LEMMA ControllerInvInit == Init => ControllerInv
  BY ConstantsAssumption
     DEF Init, ControllerInv, TypeOK, Fresh, Starting, EmptyIsNobodys, RoundsLeft, NoOrphanChild, Alive,
         HeldChildIsReported, RepliesAreServed, NoLateWaiter, Sole,
         SoleLoadedHasChild, EmptyState, RuntimeState, NoWaiter, Loads,
         NoProcess, LoadStates, Errors, ChildStatus, Threads, Unstarted, Ended, Working

\* What stopping the held child leaves: nothing runs, and what had served
\* before still counts as served.
LEMMA StoppedChildren ==
  ASSUME ControllerInv
  PROVE  /\ ChildrenAfterStop \in [Loads -> ChildStatus]
         /\ \A c \in Loads : ChildrenAfterStop[c] \notin {"starting", "serving"}
         /\ \A c \in Loads :
              child[c] \notin {"unborn", "starting"}
                => ChildrenAfterStop[c] \notin {"unborn", "starting"}
         /\ \A c \in Loads :
              ChildrenAfterStop[c] = "unborn" <=> child[c] = "unborn"
         /\ \A c \in Loads : ChildrenAfterStop[c] = "stuck" <=> child[c] = "stuck"
  BY DEF ControllerInv, TypeOK, NoOrphanChild, Alive, ChildrenAfterStop, ChildStatus,
         Loads, NoProcess

\* load_model, with or without a child.
LEMMA StartStep ==
  ASSUME ControllerInv, NEW id \in Ids, NEW path \in Paths, NEW pc, NEW status,
         <<pc, status>> \in {<<"check", "starting">>, <<"unspawned", "unborn">>},
         Start(id, path, pc, status), phase' \in {"up", "down"}
  PROVE  ControllerInv'
<1> DEFINE n == loads + 1
<1>0. /\ pc \in {"check", "unspawned"}
      /\ status = "starting" \/ status = "unborn"
      /\ status = "starting" <=> pc = "check"
  OBVIOUS
<1>1. n \in Loads /\ loads \in Nat /\ loads' = n /\ loads \in 0..MaxLoads
  BY ConstantsAssumption DEF Start, Loads, ControllerInv, TypeOK
<1>2. /\ waiter \in [Loads -> Threads]
      /\ waiter' = [waiter EXCEPT ![n] =
           [pc |-> pc, runtime_model_id |-> id, local_path |-> path,
            process |-> NoProcess, polls |-> 0]]
  BY DEF Start, ControllerInv, TypeOK
<1>3. /\ waiter'[n].pc = pc
      /\ waiter'[n].runtime_model_id = id
      /\ waiter'[n].local_path = path
      /\ \A w \in Loads : w # n => waiter'[w] = waiter[w]
  BY <1>1, <1>2
<1>4. /\ child' = [ChildrenAfterStop EXCEPT ![n] = status]
      /\ child' \in [Loads -> ChildStatus]
      /\ child'[n] = status
      /\ \A c \in Loads : c # n => child'[c] = ChildrenAfterStop[c]
  BY <1>0, <1>1, StoppedChildren DEF Start, ChildStatus
<1>5. /\ state' = RuntimeState("loading", id, path, "none")
      /\ process' = IF status = "starting" THEN n ELSE NoProcess
  BY <1>1 DEF Start
<1>6. TypeOK'
  <2>1. waiter' \in [Loads -> Threads]
    BY <1>0, <1>1, <1>2, ConstantsAssumption DEF Threads, Unstarted, Working
  <2> QED
    BY <1>0, <1>1, <1>4, <1>5, <2>1
       DEF TypeOK, RuntimeState, LoadStates, Errors, Loads
<1>7. Fresh'
  <2>1. ASSUME NEW m \in Loads, m > loads'
        PROVE  waiter'[m].pc = "unborn" /\ child'[m] = "unborn"
    <3>1. m > loads /\ m # n
      BY <1>1, <2>1 DEF Loads
    <3> QED BY <1>3, <1>4, <3>1, StoppedChildren DEF ControllerInv, Fresh
  <2>2. ASSUME NEW m \in 1..loads'
        PROVE  waiter'[m].runtime_model_id \in Ids
    <3>1. m = n \/ m \in 1..loads
      BY <1>1
    <3>2. 1..loads \subseteq Loads
      BY <1>1, ConstantsAssumption DEF Loads
    <3> QED BY <1>1, <1>3, <3>1, <3>2 DEF ControllerInv, Fresh
  <2> QED BY <2>1, <2>2 DEF Fresh
<1>8. Starting' /\ RoundsLeft'
  <2>1. waiter'[n].pc \notin {"poll", "probe", "reply"}
    BY <1>0, <1>3
  <2> QED BY <1>3, <2>1 DEF ControllerInv, Starting, RoundsLeft
<1>9. NoOrphanChild'
  BY <1>0, <1>1, <1>4, <1>5, StoppedChildren DEF NoOrphanChild, Alive
<1>10. HeldChildIsReported'
  BY <1>0, <1>1, <1>3, <1>5 DEF HeldChildIsReported, RuntimeState, NoProcess
<1>11. RepliesAreServed'
  <2>1. \A c \in Loads : Served(c) => Served(c)' /\ c # n
    BY <1>1, <1>4, StoppedChildren DEF Served, Loads
  <2>2. \A w \in Loads :
          waiter'[w].pc \in {"reply", "ready"} => w # n /\ waiter'[w] = waiter[w]
    BY <1>0, <1>1, <1>3
  <2>3. \A w \in Loads : waiter[w].process \in Loads \cup {NoProcess}
    BY <1>2 DEF Threads
  <2>4. \A w \in Loads : waiter'[w].pc = "reply" => Served(waiter[w].process)'
    <3> SUFFICES ASSUME NEW w \in Loads, waiter'[w].pc = "reply"
                 PROVE  Served(waiter[w].process)'
      OBVIOUS
    <3>1. Served(waiter[w].process) /\ waiter'[w] = waiter[w]
      BY <2>2 DEF ControllerInv, RepliesAreServed
    <3>2. waiter[w].process \in Loads
      BY <1>1, <3>1, ConstantsAssumption DEF Served, Loads
    <3> QED BY <3>1, <3>2, <2>1 DEF Served
  <2>5. \A w \in Loads : waiter'[w].pc = "ready" =>
          \E c \in Loads : Served(c)' /\ waiter'[c].runtime_model_id
                                          = waiter'[w].runtime_model_id
    BY <1>3, <2>1, <2>2 DEF ControllerInv, RepliesAreServed
  <2> QED BY <2>4, <2>5 DEF RepliesAreServed
<1>12. NoLateWaiter'
  <2> SUFFICES ASSUME Sole(id)', process' = NoProcess,
                      NEW w \in 1..loads', waiter'[w].runtime_model_id = id
               PROVE  waiter'[w].pc \notin Working
    BY <1>5 DEF NoLateWaiter, RuntimeState
  <2>1. w = n
    BY <1>1, <1>3 DEF Sole
  <2>2. status # "starting"
    BY <1>1, <1>5 DEF NoProcess
  <2> QED BY <1>0, <1>3, <2>1, <2>2 DEF Working
<1>13. SoleLoadedHasChild'
  BY <1>5 DEF SoleLoadedHasChild, RuntimeState
<1>14. EmptyIsNobodys'
  BY <1>5 DEF EmptyIsNobodys, RuntimeState
<1> QED
  BY <1>6, <1>7, <1>8, <1>9, <1>10, <1>11, <1>12, <1>13, <1>14 DEF ControllerInv

\* UnloadModel, a stop that gets stuck, and Shutdown: the controller lets go
\* of its child, and of its state unless the request failed.
LEMMA LetGoStep ==
  ASSUME ControllerInv, process' = NoProcess, UNCHANGED <<loads, waiter>>,
         phase \in {"starting", "up", "down"}, phase # "starting",
         phase' \in {"up", "down"},
         \/ child' = ChildrenAfterStop /\ (state' = EmptyState \/ phase' = "down")
         \/ StopGetsStuck,
         state' = EmptyState \/ state' = state
  PROVE  ControllerInv'
<1>1. /\ child' \in [Loads -> ChildStatus]
      /\ \A c \in Loads : child'[c] \notin {"starting", "serving"}
      /\ \A c \in Loads : child[c] \notin {"unborn", "starting"}
                             => child'[c] \notin {"unborn", "starting"}
      /\ \A c \in Loads : child'[c] = "unborn" <=> child[c] = "unborn"
  <2>1. CASE child' = ChildrenAfterStop
    BY <2>1, StoppedChildren
  <2>2. CASE StopGetsStuck
    BY <2>2 DEF StopGetsStuck, ControllerInv, TypeOK, NoOrphanChild, Alive, ChildStatus,
                Loads, NoProcess
  <2> QED BY <2>1, <2>2
<1>2. state' = EmptyState \/ phase' = "down" \/ ~NobodyStuck'
  <2>1. CASE StopGetsStuck
    BY <2>1 DEF StopGetsStuck, NobodyStuck, ControllerInv, TypeOK, Loads, NoProcess
  <2> QED BY <2>1
<1>3. TypeOK'
  BY <1>1 DEF ControllerInv, TypeOK, EmptyState, RuntimeState, LoadStates, Errors
<1>4. Fresh' /\ Starting' /\ RoundsLeft'
  BY <1>1 DEF ControllerInv, Fresh, Starting, RoundsLeft
<1>5. NoOrphanChild' /\ HeldChildIsReported'
  BY <1>1 DEF NoOrphanChild, HeldChildIsReported, Alive
<1>6. RepliesAreServed'
  <2>1. \A c \in Loads : Served(c) => Served(c)'
    BY <1>1 DEF Served
  <2>2. ASSUME NEW w \in Loads, waiter[w].pc = "reply"
        PROVE  Served(waiter[w].process)'
    <3>1. Served(waiter[w].process)
      BY <2>2 DEF ControllerInv, RepliesAreServed
    <3>2. waiter[w].process \in Loads
      BY <3>1, ConstantsAssumption DEF Served, Loads, ControllerInv, TypeOK
    <3> QED BY <3>1, <3>2, <2>1 DEF Served
  <2>3. ASSUME NEW w \in Loads, waiter[w].pc = "ready"
        PROVE  \E c \in Loads : Served(c)' /\ waiter[c].runtime_model_id
                                               = waiter[w].runtime_model_id
    BY <2>1, <2>3 DEF ControllerInv, RepliesAreServed
  <2> QED BY <2>2, <2>3 DEF RepliesAreServed
<1>7. NoLateWaiter'
  <2>1. CASE state' = EmptyState
    BY <2>1, ConstantsAssumption
       DEF NoLateWaiter, ControllerInv, Fresh, EmptyState, RuntimeState
  <2> QED BY <1>2, <2>1 DEF NoLateWaiter
<1>8. SoleLoadedHasChild'
  BY <1>2 DEF SoleLoadedHasChild, EmptyState, RuntimeState
<1>9. EmptyIsNobodys'
  BY DEF ControllerInv, EmptyIsNobodys, EmptyState, RuntimeState
<1> QED BY <1>3, <1>4, <1>5, <1>6, <1>7, <1>8, <1>9 DEF ControllerInv

\* A waiter step that writes nothing but the waiter's own locals.
LEMMA QuietWaiterStep ==
  ASSUME ControllerInv, NEW w \in Loads, waiter[w].pc \in Working,
         UNCHANGED <<phase, state, process, loads, child>>,
         NEW next \in Threads, waiter' = [waiter EXCEPT ![w] = next],
         next.runtime_model_id = waiter[w].runtime_model_id,
         next.local_path = waiter[w].local_path,
         next.pc \notin Unstarted,
         next.pc \in {"poll", "probe", "reply"} => next.polls < MaxPolls,
         next.pc = "reply" => Served(next.process),
         next.pc = "ready" => \E c \in Loads :
           Served(c) /\ waiter[c].runtime_model_id = waiter[w].runtime_model_id
  PROVE  ControllerInv'
<1>1. waiter' \in [Loads -> Threads] /\ w \in 1..loads
  BY ConstantsAssumption DEF ControllerInv, TypeOK, Fresh, Loads, Working
<1>2. /\ \A v \in Loads :
           /\ waiter'[v].runtime_model_id = waiter[v].runtime_model_id
           /\ waiter'[v].local_path = waiter[v].local_path
           /\ v # w => waiter'[v] = waiter[v]
      /\ waiter'[w] = next
  BY DEF ControllerInv, TypeOK
<1>3. 1..loads \subseteq Loads
  BY ConstantsAssumption DEF ControllerInv, TypeOK, Loads
<1>4. TypeOK'
  BY <1>1 DEF ControllerInv, TypeOK
<1>5. Fresh' /\ Starting' /\ RoundsLeft' /\ EmptyIsNobodys'
  BY <1>1, <1>2, <1>3
     DEF ControllerInv, Fresh, Starting, EmptyIsNobodys, RoundsLeft, Loads, TypeOK
<1>6. NoOrphanChild' /\ HeldChildIsReported'
  BY <1>2 DEF ControllerInv, TypeOK, NoOrphanChild, HeldChildIsReported, Alive, NoProcess
<1>7. \A id : Sole(id)' <=> Sole(id)
  BY <1>2, <1>3 DEF Sole
<1>8. RepliesAreServed'
  <2>1. \A c : Served(c)' <=> Served(c)
    BY DEF Served
  <2>2. ASSUME NEW v \in Loads
        PROVE  /\ waiter'[v].pc = "reply" => Served(waiter'[v].process)
               /\ waiter'[v].pc = "ready" => \E c \in Loads :
                    Served(c) /\ waiter'[c].runtime_model_id
                                   = waiter'[v].runtime_model_id
    <3>1. CASE v = w
      <4>1. waiter'[w].pc = "ready" => \E c \in Loads :
              Served(c) /\ waiter'[c].runtime_model_id
                             = waiter'[w].runtime_model_id
        BY <1>2
      <4> QED BY <1>2, <3>1, <4>1
    <3>2. CASE v # w
      <4>1. waiter'[v] = waiter[v]
        BY <1>2, <3>2
      <4>2. waiter[v].pc = "ready" => \E c \in Loads :
              Served(c) /\ waiter'[c].runtime_model_id
                             = waiter[v].runtime_model_id
        <5>1. waiter[v].pc = "ready" => \E c \in Loads :
                Served(c) /\ waiter[c].runtime_model_id
                               = waiter[v].runtime_model_id
          BY DEF ControllerInv, RepliesAreServed
        <5> QED BY <1>2, <5>1
      <4> QED BY <4>1, <4>2 DEF ControllerInv, RepliesAreServed
    <3> QED BY <3>1, <3>2
  <2> QED BY <2>1, <2>2 DEF RepliesAreServed, Served
<1>9. NoLateWaiter'
  BY <1>2, <1>3, <1>7 DEF ControllerInv, NoLateWaiter, NobodyStuck
<1>10. SoleLoadedHasChild'
  BY <1>7 DEF ControllerInv, SoleLoadedHasChild, NobodyStuck
<1> QED BY <1>4, <1>5, <1>6, <1>8, <1>9, <1>10 DEF ControllerInv

\* A waiter that publishes the outcome of its load and ends.
LEMMA ReportStep ==
  ASSUME ControllerInv, NEW w \in 1..loads, w \in Loads,
         NEW load_state \in {"loaded", "error"}, NEW error \in Errors,
         waiter[w].pc \in Working, StateIsFor(w), Publish(load_state, error),
         Goto(w, "done"), UNCHANGED <<phase, loads>>,
         \/ /\ UNCHANGED <<process, child>>
            /\ load_state = "loaded" => waiter[w].pc = "ready"
         \/ /\ load_state = "error"
            /\ \/ process' = NoProcess /\ child' = ChildrenAfterStop
               \/ StopGetsStuck
  PROVE  ControllerInv'
<1>1. 1..loads \subseteq Loads
  BY ConstantsAssumption DEF ControllerInv, TypeOK, Loads
<1>2. /\ \A v \in Loads :
           /\ waiter'[v].runtime_model_id = waiter[v].runtime_model_id
           /\ waiter'[v].local_path = waiter[v].local_path
           /\ v # w => waiter'[v] = waiter[v]
      /\ waiter'[w].pc = "done"
  BY DEF ControllerInv, TypeOK, Goto
<1>3. /\ state'.load_state = load_state
      /\ state'.runtime_model_id = state.runtime_model_id
      /\ state'.local_path = state.local_path
      /\ state' \in [load_state : LoadStates, runtime_model_id : Ids \cup {None},
                     local_path : Paths \cup {None}, last_error : Errors]
  BY DEF Publish, ControllerInv, TypeOK, LoadStates
<1>4. /\ child' \in [Loads -> ChildStatus]
      /\ \A c \in Loads : child[c] \notin {"unborn", "starting"}
                             => child'[c] \notin {"unborn", "starting"}
      /\ \A c \in Loads : child'[c] = "unborn" <=> child[c] = "unborn"
      /\ \A c \in Loads : child[c] = "stuck" => child'[c] = "stuck"
      /\ \/ process' = process /\ child' = child
         \/ /\ process' = NoProcess
            /\ \A c \in Loads : child'[c] \notin {"starting", "serving"}
  <2>1. CASE process' = process /\ child' = child
    <3>1. child \in [Loads -> ChildStatus]
      BY DEF ControllerInv, TypeOK
    <3> QED BY <2>1, <3>1
  <2>2. CASE process' = NoProcess /\ child' = ChildrenAfterStop
    BY <2>2, StoppedChildren
  <2>3. CASE StopGetsStuck
    <3>1. /\ process \in Loads /\ child \in [Loads -> ChildStatus]
          /\ process' = NoProcess
          /\ child' = [child EXCEPT ![process] = "stuck"]
          /\ child[process] \in {"starting", "serving"}
      BY <2>3 DEF StopGetsStuck, ControllerInv, TypeOK, Alive
    <3>2. /\ child'[process] = "stuck"
          /\ \A c \in Loads : c # process => child'[c] = child[c]
      BY <3>1
    <3>3. \A c \in Loads : c # process => child[c] \notin {"starting", "serving"}
      BY DEF ControllerInv, NoOrphanChild, Alive
    <3> QED BY <3>1, <3>2, <3>3 DEF ChildStatus
  <2> QED BY <2>1, <2>2, <2>3
<1>5. TypeOK'
  <2>1. waiter' \in [Loads -> Threads]
    BY DEF ControllerInv, TypeOK, Goto, Ended, Threads
  <2> QED BY <1>3, <1>4, <2>1 DEF ControllerInv, TypeOK
<1>6. Fresh' /\ Starting' /\ RoundsLeft' /\ EmptyIsNobodys'
  <2>1. phase # "starting"
    BY DEF ControllerInv, Starting
  <2>2. RoundsLeft' /\ EmptyIsNobodys'
    BY <1>2, <1>3 DEF ControllerInv, RoundsLeft, EmptyIsNobodys
  <2> QED
    BY <1>1, <1>2, <1>4, <2>1, <2>2 DEF ControllerInv, TypeOK, Fresh, Starting, Loads
<1>7. NoOrphanChild'
  BY <1>4 DEF ControllerInv, NoOrphanChild, Alive
<1>8. HeldChildIsReported'
  <2>1. process # NoProcess =>
          /\ waiter'[process].runtime_model_id = waiter[process].runtime_model_id
          /\ waiter'[process].local_path = waiter[process].local_path
    BY <1>2 DEF ControllerInv, TypeOK
  <2> QED BY <1>3, <1>4, <2>1 DEF ControllerInv, HeldChildIsReported
<1>9. \A id : Sole(id)' <=> Sole(id)
  BY <1>1, <1>2 DEF Sole
<1>10. RepliesAreServed'
  <2>1. \A c \in Loads : Served(c) => Served(c)'
    BY <1>4 DEF Served
  <2>2. ASSUME NEW v \in Loads
        PROVE  /\ waiter'[v].pc = "reply" => Served(waiter[v].process)'
               /\ waiter'[v].pc = "ready" => \E c \in Loads :
                    Served(c)' /\ waiter'[c].runtime_model_id
                                    = waiter'[v].runtime_model_id
    <3>1. CASE v = w
      BY <1>2, <3>1
    <3>2. CASE v # w
      <4>1. waiter'[v] = waiter[v]
        BY <1>2, <3>2
      <4>2. waiter[v].pc = "reply" => Served(waiter[v].process)
        BY DEF ControllerInv, RepliesAreServed
      <4>3. waiter[v].pc = "reply" => Served(waiter[v].process)'
        BY <1>1, <2>1, <4>1, <4>2 DEF Served
      <4>4. waiter[v].pc = "ready" => \E c \in Loads :
              Served(c) /\ waiter[c].runtime_model_id
                             = waiter[v].runtime_model_id
        BY DEF ControllerInv, RepliesAreServed
      <4>5. waiter[v].pc = "ready" => \E c \in Loads :
              Served(c)' /\ waiter'[c].runtime_model_id
                              = waiter[v].runtime_model_id
        BY <1>2, <2>1, <4>4
      <4> QED BY <4>1, <4>3, <4>5
    <3> QED BY <3>1, <3>2
  <2> QED BY <2>2 DEF RepliesAreServed
<1>11. NobodyStuck' => NobodyStuck
  BY <1>4 DEF NobodyStuck
<1>12. NoLateWaiter'
  <2> SUFFICES ASSUME NobodyStuck', Sole(state.runtime_model_id),
                      NEW v \in 1..loads,
                      waiter[v].runtime_model_id = state.runtime_model_id
               PROVE  waiter'[v].pc \notin Working
    BY <1>1, <1>2, <1>3, <1>9 DEF NoLateWaiter
  <2>1. v = w
    BY DEF Sole, StateIsFor
  <2> QED BY <1>2, <2>1 DEF Working
<1>13. SoleLoadedHasChild'
  <2> SUFFICES ASSUME phase = "up", load_state = "loaded", NobodyStuck,
                      Sole(state.runtime_model_id)
               PROVE  process' # NoProcess /\ child'[process'] # "starting"
    BY <1>3, <1>9, <1>11 DEF SoleLoadedHasChild
  <2>1. UNCHANGED <<process, child>> /\ waiter[w].pc = "ready"
    OBVIOUS
  <2>2. process # NoProcess
    BY DEF ControllerInv, NoLateWaiter, StateIsFor
  <2>3. process \in 1..loads /\ process = w
    BY <1>1, <2>2 DEF ControllerInv, TypeOK, HeldChildIsReported, Sole, StateIsFor, Loads
  <2>4. PICK c \in Loads : Served(c) /\ waiter[c].runtime_model_id
                                           = waiter[w].runtime_model_id
    BY <2>1 DEF ControllerInv, RepliesAreServed
  <2>5. c = w
    BY <2>4 DEF Served, Sole, StateIsFor
  <2> QED BY <2>1, <2>2, <2>3, <2>4, <2>5 DEF Served
<1> QED
  BY <1>5, <1>6, <1>7, <1>8, <1>10, <1>12, <1>13 DEF ControllerInv

\* One step of one waiter thread.
LEMMA WaiterStep ==
  ASSUME ControllerInv, NEW w \in Loads, Waiter(w)
  PROVE  ControllerInv'
<1>1. waiter[w].pc \in Working
  BY DEF Waiter, WaiterChecks, WaiterRunsOut, WaiterPolls, WaiterProbes,
         WaiterHears, WaiterReportsExit, WaiterReportsReady, WaiterTimesOut, Working
<1>2. w \in 1..loads
  BY <1>1, ConstantsAssumption DEF ControllerInv, TypeOK, Fresh, Loads, Working
<1>3. /\ waiter \in [Loads -> Threads] /\ waiter[w] \in Threads
      /\ process \in Loads \cup {NoProcess}
  BY DEF ControllerInv, TypeOK
<1>4. ASSUME NEW pc \in Ended \cup Working,
             pc \notin {"poll", "reply", "ready"},
             pc = "probe" => waiter[w].polls < MaxPolls,
             Goto(w, pc), UNCHANGED <<phase, state, process, loads, child>>
      PROVE  ControllerInv'
  <2> DEFINE next == [waiter[w] EXCEPT !.pc = pc]
  <2>1. /\ next \in Threads
        /\ next.runtime_model_id = waiter[w].runtime_model_id
        /\ next.local_path = waiter[w].local_path
        /\ next.pc = pc /\ next.polls = waiter[w].polls
    BY <1>3 DEF Threads
  <2>2. waiter' = [waiter EXCEPT ![w] = next]
    BY <1>4 DEF Goto
  <2>3. pc \notin Unstarted
    BY DEF Ended, Working, Unstarted
  <2> HIDE DEF next
  <2> QED BY <1>1, <1>4, <2>1, <2>2, <2>3, QuietWaiterStep
<1>5. ASSUME SleepAndRetry(w), waiter[w].pc \in {"probe", "reply"},
             UNCHANGED <<phase, state, process, loads, child>>
      PROVE  ControllerInv'
  <2> DEFINE next == [waiter[w] EXCEPT !.pc = "check",
                                       !.polls = waiter[w].polls + 1]
  <2>1. waiter[w].polls + 1 \in 0..MaxPolls
    BY <1>3, <1>5, ConstantsAssumption DEF ControllerInv, RoundsLeft, Threads
  <2>2. /\ next \in Threads
        /\ next.runtime_model_id = waiter[w].runtime_model_id
        /\ next.local_path = waiter[w].local_path
        /\ next.pc = "check"
    BY <1>3, <2>1 DEF Threads, Working
  <2>3. waiter' = [waiter EXCEPT ![w] = next]
    BY <1>5 DEF SleepAndRetry
  <2> HIDE DEF next
  <2> QED BY <1>1, <1>5, <2>2, <2>3, QuietWaiterStep DEF Unstarted
<1>6. CASE WaiterChecks(w)
  <2> DEFINE next == [waiter[w] EXCEPT !.pc = "poll", !.process = process]
  <2>1. /\ next \in Threads
        /\ next.runtime_model_id = waiter[w].runtime_model_id
        /\ next.local_path = waiter[w].local_path
        /\ next.pc = "poll" /\ next.polls = waiter[w].polls
    BY <1>3 DEF Threads, Working
  <2>2. CASE waiter' = [waiter EXCEPT ![w] = next]
    <3>1. waiter[w].polls < MaxPolls
      BY <1>6 DEF WaiterChecks
    <3>2. UNCHANGED <<phase, state, process, loads, child>>
      BY <1>6 DEF WaiterChecks
    <3> HIDE DEF next
    <3> QED BY <1>1, <2>1, <2>2, <3>1, <3>2, QuietWaiterStep DEF Unstarted
  <2>3. CASE Goto(w, "done")
    BY <1>4, <1>6, <2>3 DEF WaiterChecks, Ended
  <2> QED BY <1>6, <2>2, <2>3 DEF WaiterChecks
<1>7. CASE WaiterRunsOut(w)
  BY <1>4, <1>7 DEF WaiterRunsOut, Working
<1>8. CASE WaiterPolls(w)
  <2>1. \A b : (IF b THEN "exited" ELSE "probe") \in {"exited", "probe"}
    OBVIOUS
  <2>2. waiter[w].polls < MaxPolls
    BY <1>8 DEF WaiterPolls, ControllerInv, RoundsLeft
  <2> QED BY <1>4, <1>8, <2>1, <2>2 DEF WaiterPolls, Working
<1>9. CASE WaiterProbes(w)
  <2>1. ASSUME NEW c \in Loads, child[c] = "serving",
               waiter' = [waiter EXCEPT ![w] =
                            [@ EXCEPT !.pc = "reply", !.process = c]]
        PROVE  ControllerInv'
    <3> DEFINE next == [waiter[w] EXCEPT !.pc = "reply", !.process = c]
    <3>1. /\ next \in Threads
          /\ next.runtime_model_id = waiter[w].runtime_model_id
          /\ next.local_path = waiter[w].local_path
          /\ next.pc = "reply" /\ next.polls = waiter[w].polls
          /\ next.process = c
      BY <1>3 DEF Threads, Working
    <3>2. waiter' = [waiter EXCEPT ![w] = next]
      BY <2>1
    <3>3. Served(c)
      BY <2>1, ConstantsAssumption DEF Served, ControllerInv, TypeOK, Fresh, Loads
    <3>4. waiter[w].polls < MaxPolls
      BY <1>9 DEF WaiterProbes, ControllerInv, RoundsLeft
    <3>5. UNCHANGED <<phase, state, process, loads, child>>
      BY <1>9 DEF WaiterProbes
    <3> HIDE DEF next
    <3> QED
      BY <1>1, <3>1, <3>2, <3>3, <3>4, <3>5, QuietWaiterStep DEF Unstarted
  <2> QED BY <1>5, <1>9, <2>1 DEF WaiterProbes
<1>10. CASE WaiterHears(w)
  <2>1. UNCHANGED <<phase, state, process, loads, child>> /\ waiter[w].pc = "reply"
    BY <1>10 DEF WaiterHears
  <2>2. CASE /\ waiter[waiter[w].process].runtime_model_id
                   = waiter[w].runtime_model_id
             /\ Goto(w, "ready")
    <3> DEFINE next == [waiter[w] EXCEPT !.pc = "ready"]
    <3>1. /\ next \in Threads
          /\ next.runtime_model_id = waiter[w].runtime_model_id
          /\ next.local_path = waiter[w].local_path
          /\ next.pc = "ready"
      BY <1>3 DEF Threads, Working
    <3>2. waiter' = [waiter EXCEPT ![w] = next]
      BY <2>2 DEF Goto
    <3>3. Served(waiter[w].process)
      BY <2>1 DEF ControllerInv, RepliesAreServed
    <3>4. waiter[w].process \in Loads
      BY <3>3, ConstantsAssumption DEF Served, Loads, ControllerInv, TypeOK
    <3> HIDE DEF next
    <3> QED
      BY <1>1, <2>1, <2>2, <3>1, <3>2, <3>3, <3>4, QuietWaiterStep DEF Unstarted
  <2>3. CASE Goto(w, "died")
    BY <1>4, <2>1, <2>3 DEF Ended
  <2> QED BY <1>5, <1>10, <2>1, <2>2, <2>3 DEF WaiterHears
<1>11. CASE WaiterReportsExit(w)
  <2>1. CASE StateIsFor(w)
    BY <1>1, <1>2, <1>11, <2>1, ReportStep DEF WaiterReportsExit, Errors
  <2>2. CASE ~StateIsFor(w)
    BY <1>4, <1>11, <2>2 DEF WaiterReportsExit, Ended
  <2> QED BY <2>1, <2>2
<1>12. CASE WaiterReportsReady(w)
  <2>1. CASE StateIsFor(w)
    BY <1>1, <1>2, <1>12, <2>1, ReportStep DEF WaiterReportsReady, Errors
  <2>2. CASE ~StateIsFor(w)
    BY <1>4, <1>12, <2>2 DEF WaiterReportsReady, Ended
  <2> QED BY <2>1, <2>2
<1>13. CASE WaiterTimesOut(w)
  <2>1. CASE StateIsFor(w)
    BY <1>1, <1>2, <1>13, <2>1, ReportStep DEF WaiterTimesOut, Errors
  <2>2. CASE ~StateIsFor(w)
    BY <1>4, <1>13, <2>2 DEF WaiterTimesOut, Ended
  <2> QED BY <2>1, <2>2
<1> QED
  BY <1>6, <1>7, <1>8, <1>9, <1>10, <1>11, <1>12, <1>13 DEF Waiter

\* Every step of the controller, of a child or of a waiter keeps it.
LEMMA NextStep == ControllerInv /\ [Next]_vars => ControllerInv'
<1> SUFFICES ASSUME ControllerInv, [Next]_vars PROVE ControllerInv'
  OBVIOUS
<1>1. CASE StartupEmpty
  BY <1>1
     DEF StartupEmpty, ControllerInv, TypeOK, Fresh, Starting, EmptyIsNobodys, RoundsLeft, NoOrphanChild, Alive,
         HeldChildIsReported, RepliesAreServed, Served, NoLateWaiter, Sole,
         NobodyStuck, SoleLoadedHasChild, NoProcess, Loads
<1>2. ASSUME NEW id \in Ids, NEW path \in Paths, StartupLoads(id, path)
      PROVE  ControllerInv'
  BY <1>2, StartStep DEF StartupLoads, Load, LoadWithoutChild
<1>3. ASSUME NEW id \in Ids, NEW path \in Paths, StartupRefused(id, path)
      PROVE  ControllerInv'
  <2>1. loads = 0 /\ process = NoProcess
    BY <1>3 DEF StartupRefused, ControllerInv, Starting
  <2> QED
    BY <1>3, <2>1
       DEF StartupRefused, ControllerInv, TypeOK, Fresh, Starting, EmptyIsNobodys, RoundsLeft, NoOrphanChild, Alive,
           HeldChildIsReported, RepliesAreServed, Served, NoLateWaiter, Sole,
           NobodyStuck, SoleLoadedHasChild, RuntimeState, LoadStates, Errors,
           NoProcess, Loads
<1>4. ASSUME NEW id \in Ids, NEW path \in Paths, LoadModel(id, path)
      PROVE  ControllerInv'
  <2>1. phase' \in {"up", "down"}
    BY <1>4 DEF LoadModel
  <2> QED BY <1>4, <2>1, StartStep DEF LoadModel, Load, LoadWithoutChild
<1>5. CASE UnloadModel
  BY <1>5, LetGoStep DEF UnloadModel
<1>6. CASE AdminRequestFails
  <2>1. process' = NoProcess
    BY <1>6 DEF AdminRequestFails, StopGetsStuck
  <2> QED BY <1>6, <2>1, LetGoStep DEF AdminRequestFails
<1>7. CASE Shutdown
  <2>1. process' = NoProcess
    BY <1>7 DEF Shutdown, StopGetsStuck
  <2> QED BY <1>7, <2>1, LetGoStep DEF Shutdown
<1>8. ASSUME NEW c \in Loads, ChildServes(c) \/ ChildExits(c)
      PROVE  ControllerInv'
  <2>1. /\ UNCHANGED <<phase, state, process, loads, waiter>>
        /\ child[c] \in {"starting", "serving"}
        /\ child' \in [Loads -> ChildStatus]
        /\ child'[c] \in {"serving", "exited"}
        /\ \A d \in Loads : d # c => child'[d] = child[d]
    BY <1>8 DEF ChildServes, ChildExits, Alive, ControllerInv, TypeOK, ChildStatus
  <2>2. c \in 1..loads
    BY <2>1 DEF ControllerInv, TypeOK, Fresh, Loads
  <2>3. TypeOK' /\ Fresh' /\ Starting' /\ RoundsLeft' /\ EmptyIsNobodys'
    BY <2>1, <2>2
       DEF ControllerInv, TypeOK, Fresh, Starting, EmptyIsNobodys, RoundsLeft, Loads
  <2>4. NoOrphanChild' /\ HeldChildIsReported'
    BY <2>1 DEF ControllerInv, NoOrphanChild, HeldChildIsReported, Alive
  <2>5. RepliesAreServed'
    <3>1. \A d \in Loads : Served(d) => Served(d)'
      BY <2>1 DEF Served
    <3>2. ASSUME NEW w \in Loads, waiter[w].pc = "reply"
          PROVE  Served(waiter[w].process)'
      <4>1. Served(waiter[w].process)
        BY <3>2 DEF ControllerInv, RepliesAreServed
      <4>2. waiter[w].process \in Loads
        BY <4>1, ConstantsAssumption DEF Served, Loads, ControllerInv, TypeOK
      <4> QED BY <2>1, <3>1, <4>1, <4>2 DEF Served
    <3>3. ASSUME NEW w \in Loads, waiter[w].pc = "ready"
          PROVE  \E d \in Loads : Served(d)' /\ waiter[d].runtime_model_id
                                                 = waiter[w].runtime_model_id
      BY <3>1, <3>3 DEF ControllerInv, RepliesAreServed
    <3> QED BY <2>1, <3>2, <3>3 DEF RepliesAreServed
  <2>6. NobodyStuck' => NobodyStuck
    BY <2>1 DEF NobodyStuck
  <2>7. NoLateWaiter' /\ SoleLoadedHasChild'
    BY <2>1, <2>6 DEF ControllerInv, TypeOK, NoLateWaiter, SoleLoadedHasChild, Sole, NoProcess
  <2> QED BY <2>3, <2>4, <2>5, <2>7 DEF ControllerInv
<1>9. ASSUME NEW w \in Loads, Waiter(w)
      PROVE  ControllerInv'
  BY <1>9, WaiterStep
<1>10. CASE Exited \/ UNCHANGED vars
  <2>1. UNCHANGED <<phase, state, process, loads, child, waiter>>
    BY <1>10 DEF Exited, vars
  <2>2. /\ TypeOK' /\ Fresh' /\ Starting' /\ EmptyIsNobodys' /\ RoundsLeft'
        /\ NoOrphanChild'
    BY <2>1 DEF ControllerInv, TypeOK, Fresh, Starting, EmptyIsNobodys, RoundsLeft,
                NoOrphanChild, Alive
  <2>3. HeldChildIsReported' /\ RepliesAreServed'
    BY <2>1 DEF ControllerInv, HeldChildIsReported, RepliesAreServed, Served
  <2>4. NoLateWaiter' /\ SoleLoadedHasChild'
    BY <2>1 DEF ControllerInv, NoLateWaiter, SoleLoadedHasChild, Sole, NobodyStuck
  <2> QED BY <2>2, <2>3, <2>4 DEF ControllerInv
<1> QED
  BY <1>1, <1>2, <1>3, <1>4, <1>5, <1>6, <1>7, <1>8, <1>9, <1>10 DEF Next

-----------------------------------------------------------------------------
(* The theorems.                                                           *)

\* The strengthened invariant holds in every behaviour of the controller.
THEOREM Invariance == Spec => []ControllerInv
  BY ControllerInvInit, NextStep, PTL DEF Spec

\* The variables of the controller, of its children and of its waiters keep
\* their types (llm_runtime/runtime_app/controller.py).
THEOREM TypeCorrect == Spec => []TypeOK
<1>1. ControllerInv => TypeOK
  BY DEF ControllerInv
<1> QED BY <1>1, Invariance, PTL

\* No child runs that the controller does not hold.
THEOREM NoOrphan == Spec => []NoOrphanChild
<1>1. ControllerInv => NoOrphanChild
  BY DEF ControllerInv
<1> QED BY <1>1, Invariance, PTL

\* get_state describes the child the controller holds.
THEOREM ReportsHeldChild == Spec => []HeldChildIsReported
<1>1. ControllerInv => HeldChildIsReported
  BY DEF ControllerInv
<1> QED BY <1>1, Invariance, PTL

\* A model whose id was loaded once is advertised only while the controller
\* holds a child that answered for it.
THEOREM SoleLoaded == Spec => []SoleLoadedHasChild
<1>1. ControllerInv => SoleLoadedHasChild
  BY DEF ControllerInv
<1> QED BY <1>1, Invariance, PTL

\* Whatever late probes, exits and deadlines do, a running child is held by the
\* controller and is the one it reports, and what list_models advertises of an
\* id loaded once is served (load_model, unload_model and their waiters).
THEOREM ChildAccounted == Spec => []ChildIsAccounted
  BY NoOrphan, ReportsHeldChild, SoleLoaded, PTL DEF ChildIsAccounted

\* A step of the controller changes the program counter of a waiter that ran
\* out of time only when that waiter takes it.
LEMMA OnlyItsOwnStep ==
  ASSUME ControllerInv, Next, NEW w \in Loads, waiter[w].pc = "timeout",
         waiter'[w].pc # "timeout"
  PROVE  WaiterTimesOut(w)
<1>1. waiter \in [Loads -> Threads] /\ w # loads + 1
  BY ConstantsAssumption DEF ControllerInv, TypeOK, Fresh, Loads
<1>2. \A r : \A v \in Loads : waiter' = [waiter EXCEPT ![v] = r] => v = w
  BY <1>1
<1>3. \A id, path, pc, status : ~Start(id, path, pc, status)
  BY <1>1 DEF Start
<1>4. waiter' # waiter
  OBVIOUS
<1>5. PICK v \in Loads : Waiter(v)
  BY <1>3, <1>4
     DEF Next, StartupEmpty, StartupLoads, StartupRefused, LoadModel, Load,
         LoadWithoutChild, UnloadModel, AdminRequestFails, Shutdown, ChildServes,
         ChildExits, Exited, vars
<1>6. v = w
  BY <1>1, <1>2, <1>5
     DEF Waiter, WaiterChecks, WaiterRunsOut, WaiterPolls, WaiterProbes,
         WaiterHears, WaiterReportsExit, WaiterReportsReady, WaiterTimesOut,
         Goto, SleepAndRetry
<1> QED
  BY <1>5, <1>6
     DEF Waiter, WaiterChecks, WaiterRunsOut, WaiterPolls, WaiterProbes,
         WaiterHears, WaiterReportsExit, WaiterReportsReady

\* A waiter that runs out of time stops no child of another model.
THEOREM TimeoutIsLocal == Spec => TimeoutKillsItsModel
<1>1. ASSUME ControllerInv, Next, NEW w \in Loads, NEW c \in Loads,
             waiter[w].pc = "timeout", waiter'[w].pc = "done",
             child'[c] # child[c]
      PROVE  waiter[w].runtime_model_id = waiter[c].runtime_model_id
  <2>1. WaiterTimesOut(w)
    BY <1>1, OnlyItsOwnStep
  <2>2. StateIsFor(w)
    BY <1>1, <2>1 DEF WaiterTimesOut
  <2>3. process = c /\ process # NoProcess
    BY <1>1, <2>1 DEF WaiterTimesOut, ChildrenAfterStop, StopGetsStuck, ControllerInv, TypeOK
  <2> QED BY <1>1, <2>2, <2>3 DEF ControllerInv, HeldChildIsReported, StateIsFor
<1>2. ControllerInv /\ [Next]_vars =>
        [\A w, c \in Loads :
           waiter[w].pc = "timeout" /\ waiter'[w].pc = "done"
             /\ child'[c] # child[c]
             => waiter[w].runtime_model_id = waiter[c].runtime_model_id]_vars
  BY <1>1
<1> QED BY <1>2, Invariance, PTL DEF Spec, TimeoutKillsItsModel

\* Whatever a waiter finds out, it reports it of the model of the slot, and of
\* none when the slot is empty.
LEMMA WaiterReports ==
  ASSUME ControllerInv, NEW w \in Loads, Waiter(w)
  PROVE  /\ UNCHANGED phase
         /\ \/ UNCHANGED state
            \/ /\ state.load_state # "empty"
               /\ \E load_state \in {"loaded", "error"} :
                    /\ state'.load_state = load_state
                    /\ UNCHANGED <<state.runtime_model_id, state.local_path>>
<1>1. ASSUME waiter[w].pc \in Working, StateIsFor(w)
      PROVE  state.load_state # "empty"
  BY <1>1, ConstantsAssumption
     DEF ControllerInv, TypeOK, Fresh, EmptyIsNobodys, StateIsFor, Loads, Working
<1>2. ASSUME NEW load_state, NEW error, Publish(load_state, error)
      PROVE  /\ state'.load_state = load_state
             /\ UNCHANGED <<state.runtime_model_id, state.local_path>>
  BY <1>2 DEF ControllerInv, TypeOK, Publish
<1> QED
  BY <1>1, <1>2
     DEF Waiter, WaiterChecks, WaiterRunsOut, WaiterPolls, WaiterProbes,
         WaiterHears, WaiterReportsExit, WaiterReportsReady, WaiterTimesOut,
         Working

\* Every step of the controller is a step of the slot it publishes, or none.
LEMMA StepOfTheSlot ==
  ASSUME ControllerInv, Next
  PROVE  Published!Next \/ UNCHANGED Published!vars
<1> USE DEF Published!Next, Published!vars, Published!Slot, Published!Empty
<1>1. CASE StartupEmpty
  BY <1>1 DEF StartupEmpty, Published!StartEmpty
<1>2. ASSUME NEW id \in Ids, NEW path \in Paths, StartupLoads(id, path)
      PROVE  Published!Next
  <2>1. Published!StartWith(id, path)
    BY <1>2 DEF StartupLoads, Load, LoadWithoutChild, Start, RuntimeState,
                Published!StartWith
  <2> QED BY <2>1
<1>3. ASSUME NEW id \in Ids, NEW path \in Paths, StartupRefused(id, path)
      PROVE  Published!Next
  <2>1. Published!StartRefused(id, path)
    BY <1>3 DEF StartupRefused, RuntimeState, Published!StartRefused
  <2> QED BY <2>1
<1>4. ASSUME NEW id \in Ids, NEW path \in Paths, LoadModel(id, path)
      PROVE  Published!Next
  <2>1. Published!Load(id, path)
    BY <1>4 DEF LoadModel, Load, LoadWithoutChild, Start, RuntimeState,
                Published!Load
  <2> QED BY <2>1
<1>5. CASE UnloadModel
  BY <1>5 DEF UnloadModel, EmptyState, RuntimeState, Published!Unload
<1>6. CASE AdminRequestFails
  BY <1>6 DEF AdminRequestFails
<1>7. CASE Shutdown
  BY <1>7 DEF Shutdown, Published!Shutdown
<1>8. ASSUME NEW c \in Loads, ChildServes(c) \/ ChildExits(c)
      PROVE  UNCHANGED Published!vars
  BY <1>8 DEF ChildServes, ChildExits
<1>9. ASSUME NEW w \in Loads, Waiter(w)
      PROVE  Published!Report \/ UNCHANGED Published!vars
  BY <1>9, WaiterReports DEF Published!Report
<1>10. CASE Exited
  BY <1>10 DEF Exited, vars
<1> QED
  BY <1>1, <1>2, <1>3, <1>4, <1>5, <1>6, <1>7, <1>8, <1>9, <1>10 DEF Next

\* The controller implements RuntimeSlot: its threads, children, deadlines and
\* failures show only as a load, an unload or a report of the slot.
THEOREM SlotIsKept == Spec => KeepsTheSlot
<1>1. Init => Published!Init
  BY DEF Init, EmptyState, RuntimeState, Published!Init, Published!Empty,
         Published!Slot
<1>2. ControllerInv /\ [Next]_vars => [Published!Next]_(Published!vars)
  <2>1. CASE Next
    BY <2>1, StepOfTheSlot
  <2>2. CASE UNCHANGED vars
    BY <2>2 DEF vars, Published!vars
  <2> QED BY <2>1, <2>2
<1> QED
  BY <1>1, <1>2, Invariance, PTL DEF Spec, KeepsTheSlot, Published!Spec

-----------------------------------------------------------------------------
(* The catalog of tools                                                    *)

\* The name that stands for none.
Blank == {""}

\* What an editor holds of a server's specification: the fields it wrote, or none yet.
AnySpecs == [slug : Slugs \cup Blank, tool : Tools \cup Blank, enabled : BOOLEAN, open : BOOLEAN]
ServerRows ==
  [exists : BOOLEAN, versions : SUBSET (Int \ {0}), current : Int, spec : Specs \cup {NoSpec},
   seen : Int]
EditRows ==
  [op : {"none", "tool", "check", "revise", "seed", "expose", "create", "update", "switch",
         "delete", "register", "enter"},
   at : {"idle", "load", "find", "list", "slug", "tool", "verdict", "create", "write", "check",
         "latest", "vouch"},
   server : Servers \cup Blank, tool : Tools \cup Blank, spec : AnySpecs, version : Int,
   seen : Int, published : BOOLEAN, alone : BOOLEAN]

\* The edits by which the catalog leaves a version of a server.
Writing == {"create", "update", "switch"}

\* Which edits stand where, and what they know there.
PlacedRow(row) ==
  \/ row.at = "idle"
  \/ row.op \in {"tool", "revise"} /\ row.at \in {"find", "write"} /\ row.tool \in Tools
  \/ row.op = "check" /\ row.at \in {"find", "check"} /\ row.tool \in Tools
  \/ /\ row.op = "seed" /\ row.tool \in Tools
     /\ row.at \in {"find", "list", "write", "latest", "vouch"}
  \/ row.op \in {"delete", "enter"} /\ row.at \in {"find", "write"} /\ row.server \in Servers
  \/ row.op = "register" /\ row.at \in {"create", "write"} /\ row.server \in Servers
  \/ row.op = "switch" /\ row.at = "load" /\ row.server \in Servers
  \/ /\ row.op = "expose" /\ row.server \in Servers
     /\ row.at \in {"find", "create", "list", "write"}
     /\ row.at \in {"create", "write"} => row.version > 0
  \/ /\ row.op \in Writing /\ row.server \in Servers /\ row.spec \in Specs
     /\ row.at \in {"find", "slug", "tool", "verdict", "create", "write"}
     /\ row.at = "create" => row.op = "create"

\* Tools, verdicts on them and the versions found valid.
ToolsTyped ==
  /\ tools \in [Tools -> [versions : SUBSET Int, current : Int, published : BOOLEAN]]
  /\ verdict \in [Tools -> [version : Int, ok : BOOLEAN]]
  /\ passed \in [Tools -> SUBSET Int]

\* A server has a specification from its first version on; a deleted one keeps nothing.
SoundServer(row) ==
  /\ (row.spec = NoSpec) = (row.current = 0)
  /\ row.current \in row.versions \cup {0}
  /\ ~row.exists => row = NoServer
  /\ row.seen # 0 => row.spec # NoSpec

\* Every server is a sound row.
ServersTyped ==
  /\ servers \in [Servers -> ServerRows]
  /\ steady \in SUBSET Servers
  /\ \A s \in Servers : SoundServer(servers[s])

\* Every edit stands where its operation goes.
EditsTyped ==
  /\ edit \in [Editors -> EditRows]
  /\ \A e \in Editors : PlacedRow(edit[e])

\* A verdict is kept of what was found valid, and an editor who has seen one has
\* the tool's.
VerdictsArePassed == \A t \in Tools : verdict[t].ok => verdict[t].version \in passed[t]

\* An edit reaches its write only over the version of a tool that was found valid.
WritesArePassed ==
  \A e \in Editors : edit[e].op \in Writing /\ edit[e].at \in {"create", "write"} =>
    edit[e].seen \in passed[edit[e].spec.tool]

\* What an editor that was alone has seen is still so: no other server has its slug,
\* or the server itself had it before.
SeesRight(rows, row) ==
  /\ row.op \in Writing /\ row.at \in {"tool", "verdict", "create", "write"} =>
       \A s \in Servers \ {row.server} :
         rows[s].spec.slug = row.spec.slug => rows[row.server].spec.slug = row.spec.slug
  /\ row.op = "switch" /\ row.at # "load" =>
       /\ rows[row.server].spec # NoSpec
       /\ row.spec = [rows[row.server].spec EXCEPT !.enabled = row.spec.enabled]

AloneSeesRight ==
  \A e \in Editors : edit[e].alone /\ edit[e].at # "idle" =>
    /\ \A o \in Editors \ {e} : edit[o].at = "idle"
    /\ SeesRight(servers, edit[e])

\* The version that an update follows is one of those up to the current one; that of
\* the bootstrap, once it is counted, may be the next.
Follows(row, current) ==
  /\ row.op \in {"update", "switch"} /\ row.at \in {"slug", "tool", "verdict", "write"} =>
       row.version \in 1..current
  /\ row.op = "expose" /\ row.at = "list" => row.version \in 1..current
  /\ row.op = "expose" /\ row.at = "write" => row.version \in 1..(current + 1)

\* The versions of a steady server are numbered without a gap.
NumberedServer(s) ==
  /\ servers[s].exists /\ servers[s].current > 0
  /\ servers[s].versions = 1..servers[s].current
  /\ \A e \in Editors : edit[e].server = s => Follows(edit[e], servers[s].current)

\* So are those of every steady server.
Numbered == \A s \in steady : NumberedServer(s)

\* The invariant of the catalog.
CatalogInv ==
  /\ ToolsTyped /\ ServersTyped /\ EditsTyped
  /\ VerdictsArePassed /\ WritesArePassed /\ ServersRestOnChecks /\ AloneSeesRight /\ Numbered

\* A specification that can be written is not the empty one.
LEMMA SpecsAreNamed ==
  /\ NoSpec \notin Specs /\ NoSpec \in AnySpecs /\ Specs \subseteq AnySpecs
  /\ NoServer \in ServerRows /\ SoundServer(NoServer) /\ NoEdit \in EditRows /\ PlacedRow(NoEdit)
<1>1. NoSpec \notin Specs /\ NoSpec \in AnySpecs /\ Specs \subseteq AnySpecs
  BY ToolsAssumption DEF NoSpec, Specs, AnySpecs, Blank
<1>2. NoServer \in ServerRows
  BY DEF NoServer, ServerRows
<1>3. SoundServer(NoServer)
  BY DEF NoServer, SoundServer
<1>4. NoEdit.at = "idle"
  BY DEF NoEdit
<1>5. NoEdit \in EditRows
  BY <1>1 DEF NoEdit, EditRows, Blank
<1>6. PlacedRow(NoEdit)
  BY <1>4 DEF PlacedRow
<1> QED BY <1>1, <1>2, <1>3, <1>5, <1>6

\* What the bootstrap writes can be written.
LEMMA SeededIsNamed == Seeded \in Servers /\ SeededSpec \in Specs /\ SeededSpec.tool \in Tools
<1>1. Seeded \in Servers
  BY ToolsAssumption DEF Seeded
<1>2. \E spec \in Specs : spec.enabled /\ spec.open
  <2> PICK slug \in Slugs : TRUE
    BY ToolsAssumption
  <2> PICK t \in Tools : TRUE
    BY ToolsAssumption
  <2> DEFINE spec == [slug |-> slug, tool |-> t, enabled |-> TRUE, open |-> TRUE]
  <2>1. spec \in Specs /\ spec.enabled /\ spec.open
    BY DEF Specs
  <2> QED BY <2>1
<1>3. SeededSpec \in Specs
  BY <1>2 DEF SeededSpec
<1> QED BY <1>1, <1>3 DEF Specs

\* One row of the edits changes.
LEMMA OneEdit ==
  ASSUME EditsTyped, NEW e \in Editors, NEW row \in EditRows, PlacedRow(row),
         edit' = [edit EXCEPT ![e] = row]
  PROVE  /\ EditsTyped'
         /\ edit'[e] = row
         /\ \A o \in Editors \ {e} : edit'[o] = edit[o]
BY DEF EditsTyped

\* Who has nothing to do with a server's versions follows any.
LEMMA OthersFollow ==
  ASSUME NEW row, NEW current,
         row.op \notin {"update", "switch", "expose"} \/ row.at \in {"idle", "load", "find", "create"}
  PROVE  Follows(row, current)
BY DEF Follows

\* The catalog begins typed, with one server over a tool that was found valid.
LEMMA CatalogInvInit == CatalogInit => CatalogInv
<1> SUFFICES ASSUME CatalogInit PROVE CatalogInv
  OBVIOUS
<1>1. Seeded \in Servers /\ SeededSpec \in Specs /\ SeededSpec.tool \in Tools
  BY SeededIsNamed
<1> DEFINE seeded ==
      [exists |-> TRUE, versions |-> {1}, current |-> 1, spec |-> SeededSpec, seen |-> 0]
<1>2. seeded \in ServerRows /\ SoundServer(seeded)
  BY <1>1, SpecsAreNamed DEF ServerRows, SoundServer
<1>3. servers = [s \in Servers |-> IF s = Seeded THEN seeded ELSE NoServer]
  BY DEF CatalogInit
<1>4. seeded.seen = 0 /\ seeded.exists /\ seeded.current = 1 /\ seeded.versions = 1..1
  OBVIOUS
<1> HIDE DEF seeded
<1>5. ServersTyped
  BY <1>1, <1>2, <1>3, SpecsAreNamed DEF CatalogInit, ServersTyped
<1>6. ToolsTyped
  BY DEF CatalogInit, ToolsTyped
<1>7. EditsTyped
  BY SpecsAreNamed DEF CatalogInit, EditsTyped
<1>8. VerdictsArePassed
  BY <1>1 DEF CatalogInit, VerdictsArePassed
<1>9. \A e \in Editors : edit[e].at = "idle" /\ edit[e].op = "none"
  BY DEF CatalogInit, NoEdit
<1>10. WritesArePassed /\ AloneSeesRight
  BY <1>9 DEF WritesArePassed, AloneSeesRight
<1>11. ServersRestOnChecks
  BY <1>3, <1>4 DEF ServersRestOnChecks, NoServer
<1>12. Numbered
  BY <1>1, <1>3, <1>4, <1>9, OthersFollow DEF Numbered, NumberedServer, CatalogInit
<1> QED BY <1>5, <1>6, <1>7, <1>8, <1>10, <1>11, <1>12 DEF CatalogInv

\* An edit that begins: nothing has been seen.
LEMMA EditBeginsKeepsCatalog ==
  ASSUME CatalogInv, NEW e \in Editors, NEW row \in EditRows, PlacedRow(row),
         At(e, "idle"), row.at \in {"find", "load"} \/ row.op = "register",
         row.op = "switch" => row.at = "load",
         Begin(e, row)
  PROVE  CatalogInv'
<1>1. /\ ToolsTyped /\ ServersTyped /\ EditsTyped /\ Numbered
      /\ VerdictsArePassed /\ WritesArePassed /\ ServersRestOnChecks /\ AloneSeesRight
  BY DEF CatalogInv
<1> DEFINE alone == \A other \in Editors : At(other, "idle")
           New(o) == IF o = e THEN [row EXCEPT !.alone = alone]
                     ELSE [edit[o] EXCEPT !.alone = @ /\ At(o, "idle")]
<1>2. edit' = [o \in Editors |-> New(o)]
  BY DEF Begin
<1>3. ASSUME NEW o \in Editors
      PROVE  New(o) \in EditRows /\ PlacedRow(New(o))
  <2> DEFINE old == IF o = e THEN row ELSE edit[o]
  <2>1. old \in EditRows /\ PlacedRow(old)
    BY <1>1 DEF EditsTyped
  <2>2. New(o) = [old EXCEPT !.alone = New(o).alone] /\ New(o).alone \in BOOLEAN
    <3>1. CASE o = e
      BY <2>1, <3>1 DEF EditRows, At
    <3>2. CASE o # e
      BY <2>1, <3>2 DEF EditRows, At
    <3> QED BY <3>1, <3>2
  <2> HIDE DEF New, old
  <2> DEFINE flag == New(o).alone
  <2> HIDE DEF flag
  <2>3. New(o) = [old EXCEPT !.alone = flag] /\ flag \in BOOLEAN
    BY <2>2 DEF flag
  <2>4. New(o) \in EditRows
    BY <2>1, <2>3 DEF EditRows
  <2>5. /\ New(o).op = old.op /\ New(o).at = old.at /\ New(o).server = old.server
        /\ New(o).tool = old.tool /\ New(o).spec = old.spec /\ New(o).version = old.version
    BY <2>1, <2>3 DEF EditRows
  <2>6. PlacedRow(New(o))
    BY <2>1, <2>5 DEF PlacedRow
  <2> QED BY <2>4, <2>6
<1>4. EditsTyped'
  BY <1>2, <1>3 DEF EditsTyped
<1>5. UNCHANGED <<tools, verdict, passed, servers, steady>>
  BY DEF Begin
<1>6. ASSUME NEW o \in Editors, o # e
      PROVE  /\ edit'[o].at = edit[o].at /\ edit'[o].op = edit[o].op /\ edit'[o].spec = edit[o].spec
             /\ edit'[o].seen = edit[o].seen /\ edit'[o].server = edit[o].server
             /\ edit'[o].version = edit[o].version
             /\ edit'[o].alone /\ edit'[o].at # "idle" => FALSE
  BY <1>1, <1>2, <1>6 DEF EditsTyped, EditRows, At
<1>7. edit'[e].at = row.at /\ edit'[e].op = row.op /\ edit'[e].alone = alone
  BY <1>2 DEF EditRows
<1>8. WritesArePassed'
  BY <1>1, <1>5, <1>6, <1>7 DEF WritesArePassed, Writing
<1>9. AloneSeesRight'
  <2> SUFFICES ASSUME NEW o \in Editors, edit'[o].alone, edit'[o].at # "idle"
               PROVE  /\ \A x \in Editors \ {o} : edit'[x].at = "idle"
                      /\ SeesRight(servers', edit'[o])
    BY DEF AloneSeesRight
  <2>1. o = e
    BY <1>6
  <2>2. \A x \in Editors \ {e} : edit'[x].at = "idle"
    BY <1>6, <1>7, <2>1 DEF At
  <2>3. SeesRight(servers', edit'[e])
    BY <1>7 DEF SeesRight, Writing
  <2> QED BY <2>1, <2>2, <2>3
<1>10. Numbered'
  <2> SUFFICES ASSUME NEW s \in steady, NEW o \in Editors, edit'[o].server = s
               PROVE  Follows(edit'[o], servers[s].current)
    BY <1>1, <1>5 DEF Numbered, NumberedServer
  <2>1. CASE o = e
    BY <1>7, <2>1, OthersFollow
  <2>2. CASE o # e
    BY <1>1, <1>6, <2>2 DEF Numbered, NumberedServer, Follows
  <2> QED BY <2>1, <2>2
<1> QED
  BY <1>1, <1>4, <1>5, <1>8, <1>9, <1>10
     DEF CatalogInv, ToolsTyped, ServersTyped, VerdictsArePassed, ServersRestOnChecks

\* A step of an editor: no other was alone, and no version is less valid for it.
LEMMA EditStepKeepsEdits ==
  ASSUME CatalogInv, NEW e \in Editors, edit[e].at # "idle",
         NEW row \in EditRows, PlacedRow(row), edit' = [edit EXCEPT ![e] = row],
         row.at # "idle" => row.alone = edit[e].alone,
         row.at # "idle" /\ SeesRight(servers, edit[e]) => SeesRight(servers', row),
         row.op \in Writing /\ row.at \in {"create", "write"} => row.seen \in passed[row.spec.tool],
         \A t \in Tools : passed[t] \subseteq passed'[t]
  PROVE  EditsTyped' /\ WritesArePassed' /\ AloneSeesRight'
<1>1. EditsTyped /\ WritesArePassed /\ AloneSeesRight
  BY DEF CatalogInv
<1>2. /\ EditsTyped'
      /\ edit'[e] = row
      /\ \A o \in Editors \ {e} : edit'[o] = edit[o]
  BY <1>1, OneEdit
<1>3. WritesArePassed'
  <2> SUFFICES ASSUME NEW o \in Editors, edit'[o].op \in Writing,
                      edit'[o].at \in {"create", "write"}
               PROVE  edit'[o].seen \in passed'[edit'[o].spec.tool]
    BY DEF WritesArePassed
  <2>1. edit'[o].spec.tool \in Tools
    <3>1. PlacedRow(edit'[o])
      BY <1>2 DEF EditsTyped
    <3>2. edit'[o].spec \in Specs
      BY <3>1 DEF PlacedRow, Writing
    <3> QED BY <3>2 DEF Specs
  <2>2. edit'[o].seen \in passed[edit'[o].spec.tool]
    BY <1>1, <1>2 DEF WritesArePassed
  <2> QED BY <2>1, <2>2
<1>4. AloneSeesRight'
  <2> SUFFICES ASSUME NEW o \in Editors, edit'[o].alone, edit'[o].at # "idle"
               PROVE  /\ \A x \in Editors \ {o} : edit'[x].at = "idle"
                      /\ SeesRight(servers', edit'[o])
    BY DEF AloneSeesRight
  <2>1. o = e
    BY <1>1, <1>2 DEF AloneSeesRight
  <2> QED BY <1>1, <1>2, <2>1 DEF AloneSeesRight
<1> QED BY <1>2, <1>3, <1>4

\* The numbers stay in order while the servers stay.
LEMMA NumberedIsKept ==
  ASSUME CatalogInv, NEW e \in Editors, NEW row, edit' = [edit EXCEPT ![e] = row],
         row.server \in steady => Follows(row, servers[row.server].current),
         UNCHANGED <<servers, steady>>
  PROVE  Numbered'
<1>1. EditsTyped /\ Numbered
  BY DEF CatalogInv
<1>2. \A o \in Editors : edit'[o] = IF o = e THEN row ELSE edit[o]
  BY <1>1 DEF EditsTyped
<1> QED BY <1>1, <1>2 DEF Numbered, NumberedServer

\* An editor who only looks.
LEMMA LookingKeepsCatalog ==
  ASSUME CatalogInv, NEW e \in Editors, edit[e].at # "idle",
         NEW row \in EditRows, PlacedRow(row), edit' = [edit EXCEPT ![e] = row],
         row.at # "idle" => row.alone = edit[e].alone,
         row.at # "idle" /\ SeesRight(servers, edit[e]) => SeesRight(servers, row),
         row.op \in Writing /\ row.at \in {"create", "write"} => row.seen \in passed[row.spec.tool],
         row.server \in steady => Follows(row, servers[row.server].current),
         UNCHANGED <<tools, verdict, passed, servers, steady>>
  PROVE  CatalogInv'
<1>1. EditsTyped' /\ WritesArePassed' /\ AloneSeesRight'
  BY EditStepKeepsEdits
<1>2. Numbered'
  BY NumberedIsKept
<1> QED
  BY <1>1, <1>2 DEF CatalogInv, ToolsTyped, ServersTyped, VerdictsArePassed, ServersRestOnChecks

\* An editor who is done, whatever was written.
LEMMA FinishKeepsEdits ==
  ASSUME CatalogInv, NEW e \in Editors, edit[e].at # "idle", Finish(e),
         \A t \in Tools : passed[t] \subseteq passed'[t]
  PROVE  EditsTyped' /\ WritesArePassed' /\ AloneSeesRight'
<1>1. NoEdit.at = "idle" /\ NoEdit.op = "none"
  BY DEF NoEdit
<1> QED BY <1>1, EditStepKeepsEdits, SpecsAreNamed DEF Finish, Writing

\* It follows no version any more.
LEMMA FinishKeepsNumbered ==
  ASSUME CatalogInv, NEW e \in Editors, Finish(e), UNCHANGED <<servers, steady>>
  PROVE  Numbered'
<1>1. NoEdit.at = "idle"
  BY DEF NoEdit
<1> QED BY <1>1, NumberedIsKept, OthersFollow DEF Finish

\* An editor who gives up.
LEMMA GivingUpKeepsCatalog ==
  ASSUME CatalogInv, NEW e \in Editors, edit[e].at # "idle", Finish(e),
         UNCHANGED <<tools, verdict, passed, servers, steady>>
  PROVE  CatalogInv'
<1>1. EditsTyped' /\ WritesArePassed' /\ AloneSeesRight'
  BY FinishKeepsEdits
<1>2. Numbered'
  BY FinishKeepsNumbered
<1> QED
  BY <1>1, <1>2 DEF CatalogInv, ToolsTyped, ServersTyped, VerdictsArePassed, ServersRestOnChecks

\* An editor who goes on to another place, with what it knows.
LEMMA GoingOnKeepsCatalog ==
  ASSUME CatalogInv, NEW e \in Editors, edit[e].at # "idle", NEW place, Go(e, place),
         [edit[e] EXCEPT !.at = place] \in EditRows, PlacedRow([edit[e] EXCEPT !.at = place]),
         SeesRight(servers, edit[e]) => SeesRight(servers, [edit[e] EXCEPT !.at = place]),
         edit[e].op \in Writing /\ place \in {"create", "write"} =>
           edit[e].seen \in passed[edit[e].spec.tool],
         edit[e].server \in steady =>
           Follows([edit[e] EXCEPT !.at = place], servers[edit[e].server].current),
         UNCHANGED <<tools, verdict, passed, servers, steady>>
  PROVE  CatalogInv'
<1> DEFINE row == [edit[e] EXCEPT !.at = place]
<1>1. EditsTyped
  BY DEF CatalogInv
<1>2. edit' = [edit EXCEPT ![e] = row]
  BY <1>1 DEF Go, EditsTyped
<1>3. /\ row.alone = edit[e].alone /\ row.op = edit[e].op /\ row.spec = edit[e].spec
      /\ row.at = place /\ row.seen = edit[e].seen /\ row.server = edit[e].server
  BY <1>1 DEF EditsTyped, EditRows
<1> HIDE DEF row
<1> QED BY <1>2, <1>3, LookingKeepsCatalog DEF row

\* Editors of a tool, and those that enter or delete a server, follow no version.
LEMMA OthersLook ==
  ASSUME CatalogInv, NEW e \in Editors, edit[e].at # "idle",
         NEW row \in EditRows, PlacedRow(row), edit' = [edit EXCEPT ![e] = row],
         row.op \in {"tool", "check", "revise", "seed", "delete", "enter"},
         row.alone = edit[e].alone,
         UNCHANGED <<tools, verdict, passed, servers, steady>>
  PROVE  CatalogInv'
<1>1. SeesRight(servers, row) /\ row.op \notin Writing
  BY DEF SeesRight, Writing
<1>2. Follows(row, servers[row.server].current)
  BY OthersFollow
<1> QED BY <1>1, <1>2, LookingKeepsCatalog

\* An editor that reads the tool it edits or checks keeps the invariant.
LEMMA FindToolKeepsCatalog ==
  ASSUME CatalogInv, NEW e \in Editors, FindTool(e)
  PROVE  CatalogInv'
<1>1. EditsTyped /\ ToolsTyped
  BY DEF CatalogInv
<1>2. /\ edit[e] \in EditRows /\ PlacedRow(edit[e]) /\ edit[e].at = "find"
      /\ edit[e].op \in {"tool", "check", "revise", "seed"}
  BY <1>1 DEF EditsTyped, FindTool, At
<1>3. edit[e].tool \in Tools
  BY <1>2 DEF PlacedRow, Writing
<1> DEFINE current == tools[edit[e].tool].current
<1>4. PICK place \in CASE edit[e].op = "check" -> {"check"}
                       [] edit[e].op = "seed"  -> {"list", "latest"}
                       [] OTHER                -> {"write"} :
        edit' = [edit EXCEPT ![e].version = current, ![e].at = place]
  BY DEF FindTool
<1> DEFINE row == [edit[e] EXCEPT !.version = current, !.at = place]
<1>5. current \in Int
  BY <1>1, <1>3 DEF ToolsTyped
<1>6. UNCHANGED <<tools, verdict, passed, servers, steady>>
  BY DEF FindTool
<1> HIDE DEF current
<1>7. edit' = [edit EXCEPT ![e] = row]
  BY <1>1, <1>4 DEF EditsTyped
<1>8. place \in {"check", "list", "latest", "write"}
  BY <1>2, <1>4
<1>9. row \in EditRows
  BY <1>2, <1>5, <1>8 DEF EditRows
<1>10. row.at = place /\ row.op = edit[e].op /\ row.tool = edit[e].tool /\ row.alone = edit[e].alone
  BY <1>2 DEF EditRows
<1>11. PlacedRow(row)
  BY <1>2, <1>3, <1>4, <1>10 DEF PlacedRow
<1> HIDE DEF row
<1> QED BY <1>2, <1>6, <1>7, <1>9, <1>10, <1>11, OthersLook

\* The bootstrap counts the versions of the tool,
LEMMA ListToolVersionsKeepsCatalog ==
  ASSUME CatalogInv, NEW e \in Editors, ListToolVersions(e)
  PROVE  CatalogInv'
<1>1. EditsTyped /\ ToolsTyped
  BY DEF CatalogInv
<1>2. edit[e] \in EditRows /\ PlacedRow(edit[e]) /\ edit[e].at = "list" /\ edit[e].op = "seed"
  BY <1>1 DEF EditsTyped, ListToolVersions, At
<1>3. edit[e].tool \in Tools
  BY <1>2 DEF PlacedRow, Writing
<1>4. tools[edit[e].tool].versions \subseteq Int /\ edit[e].version \in Int
  BY <1>1, <1>2, <1>3 DEF ToolsTyped, EditRows
<1>5. PICK version \in NextBuiltin(tools[edit[e].tool].versions, edit[e].version) :
        edit' = [edit EXCEPT ![e].at = "write", ![e].version = version]
  BY DEF ListToolVersions
<1>6. version \in Int
  BY <1>4, <1>5 DEF NextBuiltin
<1> DEFINE row == [edit[e] EXCEPT !.at = "write", !.version = version]
<1>7. edit' = [edit EXCEPT ![e] = row]
  BY <1>1, <1>5 DEF EditsTyped
<1>8. row \in EditRows
  BY <1>2, <1>6 DEF EditRows
<1>9. row.at = "write" /\ row.op = "seed" /\ row.tool \in Tools /\ row.alone = edit[e].alone
  BY <1>2, <1>3 DEF EditRows
<1>10. PlacedRow(row)
  BY <1>9 DEF PlacedRow
<1>11. UNCHANGED <<tools, verdict, passed, servers, steady>>
  BY DEF ListToolVersions
<1> HIDE DEF row
<1> QED BY <1>2, <1>7, <1>8, <1>9, <1>10, <1>11, OthersLook

\* and reads which of them is current.
LEMMA LatestToolKeepsCatalog ==
  ASSUME CatalogInv, NEW e \in Editors, LatestTool(e)
  PROVE  CatalogInv'
<1>1. EditsTyped /\ ToolsTyped
  BY DEF CatalogInv
<1>2. edit[e] \in EditRows /\ PlacedRow(edit[e]) /\ edit[e].at = "latest"
  BY <1>1 DEF EditsTyped, LatestTool, At
<1>3. edit[e].tool \in Tools /\ edit[e].op = "seed"
  BY <1>2 DEF PlacedRow, Writing
<1> DEFINE current == tools[edit[e].tool].current
           row == [edit[e] EXCEPT !.at = "vouch", !.version = current]
<1>4. current \in Int
  BY <1>1, <1>3 DEF ToolsTyped
<1>5. edit' = [edit EXCEPT ![e] = row]
  BY <1>1 DEF EditsTyped, LatestTool
<1> HIDE DEF current
<1>6. row \in EditRows
  BY <1>2, <1>4 DEF EditRows
<1>7. row.at = "vouch" /\ row.op = "seed" /\ row.tool \in Tools /\ row.alone = edit[e].alone
  BY <1>2, <1>3 DEF EditRows
<1>8. PlacedRow(row)
  BY <1>7 DEF PlacedRow
<1>9. UNCHANGED <<tools, verdict, passed, servers, steady>>
  BY DEF LatestTool
<1> HIDE DEF row
<1> QED BY <1>2, <1>5, <1>6, <1>7, <1>8, <1>9, OthersLook

\* So does a switch that loads the server,
LEMMA LoadServerKeepsCatalog ==
  ASSUME CatalogInv, NEW e \in Editors, LoadServer(e)
  PROVE  CatalogInv'
<1> DEFINE old == servers[edit[e].server]
           row == [edit[e] EXCEPT !.at = "find",
                                  !.spec = [old.spec EXCEPT !.enabled = edit[e].spec.enabled]]
<1>1. EditsTyped /\ ServersTyped
  BY DEF CatalogInv
<1>2. edit[e] \in EditRows /\ PlacedRow(edit[e]) /\ edit[e].at = "load"
  BY <1>1 DEF EditsTyped, LoadServer, At
<1>3. edit[e].server \in Servers /\ edit[e].op = "switch"
  BY <1>2 DEF PlacedRow, Writing
<1>4. UNCHANGED <<tools, verdict, passed, servers, steady>>
  BY DEF LoadServer
<1>5. CASE old.spec = NoSpec
  BY <1>2, <1>4, <1>5, GivingUpKeepsCatalog DEF LoadServer
<1>6. CASE old.spec # NoSpec
  <2>1. old.spec \in Specs /\ edit[e].spec.enabled \in BOOLEAN
    BY <1>1, <1>2, <1>3, <1>6 DEF ServersTyped, ServerRows, EditRows, AnySpecs
  <2>2. [old.spec EXCEPT !.enabled = edit[e].spec.enabled] \in Specs
    BY <2>1 DEF Specs
  <2> DEFINE spec == [old.spec EXCEPT !.enabled = edit[e].spec.enabled]
  <2>3. row \in EditRows /\ PlacedRow(row)
    <3> HIDE DEF old
    <3>1. spec \in Specs /\ spec \in AnySpecs
      BY <2>2, SpecsAreNamed
    <3> HIDE DEF spec
    <3>2. [edit[e] EXCEPT !.at = "find", !.spec = spec] \in EditRows
      BY <1>2, <3>1 DEF EditRows
    <3>3. PlacedRow([edit[e] EXCEPT !.at = "find", !.spec = spec])
      BY <1>2, <1>3, <3>1 DEF PlacedRow, EditRows, Writing
    <3> QED BY <3>2, <3>3 DEF spec
  <2>4. edit' = [edit EXCEPT ![e] = row]
    BY <1>1, <1>6 DEF LoadServer, EditsTyped
  <2>5. row.alone = edit[e].alone /\ row.at = "find" /\ row.op = "switch"
        /\ row.server = edit[e].server /\ row.spec = spec
    BY <1>2, <1>3 DEF EditRows
  <2>6. spec.enabled = edit[e].spec.enabled
    BY <2>1 DEF Specs
  <2>7. SeesRight(servers, row)
    BY <1>6, <2>5, <2>6 DEF SeesRight
  <2>8. Follows(row, servers[row.server].current)
    BY <2>5, OthersFollow
  <2> HIDE DEF row
  <2> QED BY <1>2, <1>4, <2>3, <2>4, <2>5, <2>7, <2>8, LookingKeepsCatalog
<1> QED BY <1>5, <1>6

\* an edit that finds the server and the version to follow,
LEMMA FindServerKeepsCatalog ==
  ASSUME CatalogInv, NEW e \in Editors, FindServer(e)
  PROVE  CatalogInv'
<1> DEFINE old == servers[edit[e].server]
           place == IF edit[e].op \in {"delete", "enter"} THEN "write" ELSE "slug"
           row == [edit[e] EXCEPT !.at = place, !.version = old.current]
<1>1. EditsTyped /\ ServersTyped /\ Numbered
  BY DEF CatalogInv
<1>2. edit[e] \in EditRows /\ PlacedRow(edit[e]) /\ edit[e].at = "find"
      /\ edit[e].op \in {"create", "update", "switch", "delete", "enter"}
  BY <1>1 DEF EditsTyped, FindServer, At
<1>3. edit[e].server \in Servers /\ (edit[e].op \in Writing => edit[e].spec \in Specs)
  BY <1>2 DEF PlacedRow, Writing
<1>4. UNCHANGED <<tools, verdict, passed, servers, steady>>
  BY DEF FindServer
<1>5. CASE old.exists = (edit[e].op = "create")
  BY <1>2, <1>4, <1>5, GivingUpKeepsCatalog DEF FindServer
<1>6. CASE old.exists # (edit[e].op = "create")
  <2>1. old.current \in Int
    BY <1>1, <1>3 DEF ServersTyped, ServerRows
  <2>2. edit' = [edit EXCEPT ![e] = row]
    BY <1>1, <1>6 DEF FindServer, EditsTyped
  <2>3. old.current = servers[edit[e].server].current
    OBVIOUS
  <2> HIDE DEF old
  <2>4. row \in EditRows
    BY <1>2, <2>1 DEF EditRows
  <2>5. /\ row.alone = edit[e].alone /\ row.op = edit[e].op /\ row.version = old.current
        /\ row.server = edit[e].server /\ row.spec = edit[e].spec /\ row.at = place
    BY <1>2, <2>1 DEF EditRows
  <2>6. PlacedRow(row)
    <3> HIDE DEF row
    <3>1. CASE edit[e].op \in {"delete", "enter"}
      BY <1>3, <2>5, <3>1 DEF PlacedRow
    <3>2. CASE edit[e].op \in {"create", "update", "switch"}
      BY <1>3, <2>5, <3>2 DEF PlacedRow, Writing
    <3> QED BY <1>2, <3>1, <3>2
  <2>7. SeesRight(servers, edit[e]) => SeesRight(servers, row)
    BY <1>2, <2>5 DEF SeesRight, Writing
  <2>8. row.op \notin Writing \/ row.at \notin {"create", "write"}
    BY <2>5 DEF Writing
  <2>9. ASSUME row.server \in steady
        PROVE  Follows(row, servers[row.server].current)
    <3>1. old.current > 0
      BY <1>1, <2>3, <2>5, <2>9 DEF Numbered, NumberedServer
    <3> QED BY <1>2, <2>1, <2>3, <2>5, <3>1 DEF Follows
  <2> HIDE DEF row
  <2> QED BY <1>2, <1>4, <2>2, <2>4, <2>5, <2>6, <2>7, <2>8, <2>9, LookingKeepsCatalog
<1> QED BY <1>5, <1>6

\* the bootstrap that looks for its server,
LEMMA FindSeededKeepsCatalog ==
  ASSUME CatalogInv, NEW e \in Editors, FindSeeded(e)
  PROVE  CatalogInv'
<1> DEFINE old == servers[edit[e].server]
           place == IF ~old.exists THEN "create" ELSE IF old.current = 0 THEN "write" ELSE "list"
           version == IF old.current = 0 THEN 1 ELSE old.current
           row == [edit[e] EXCEPT !.at = place, !.version = version]
<1>1. EditsTyped /\ ServersTyped /\ Numbered
  BY DEF CatalogInv
<1>2. edit[e] \in EditRows /\ PlacedRow(edit[e]) /\ edit[e].at = "find" /\ edit[e].op = "expose"
  BY <1>1 DEF EditsTyped, FindSeeded, At
<1>3. edit[e].server \in Servers
  BY <1>2 DEF PlacedRow, Writing
<1>4. UNCHANGED <<tools, verdict, passed, servers, steady>>
  BY DEF FindSeeded
<1> DEFINE fine == old.exists /\ old.current # 0 /\ old.spec = SeededSpec
<1>5. CASE fine
  BY <1>2, <1>4, <1>5, GivingUpKeepsCatalog DEF FindSeeded
<1>6. CASE ~fine
  <2>1. old.current \in Int /\ (~old.exists => old.current = 0)
    BY <1>1, <1>3 DEF ServersTyped, ServerRows, SoundServer, NoServer
  <2>2. edit' = [edit EXCEPT ![e] = row]
    BY <1>1, <1>6 DEF FindSeeded, EditsTyped
  <2>3. old = servers[edit[e].server]
    OBVIOUS
  <2> HIDE DEF old, fine
  <2>4. version \in Int /\ (place \in {"create", "write"} => version > 0)
    BY <2>1
  <2>5. row \in EditRows
    BY <1>2, <2>4 DEF EditRows
  <2>6. /\ row.alone = edit[e].alone /\ row.op = "expose" /\ row.version = version
        /\ row.server = edit[e].server /\ row.at = place
    BY <1>2, <2>4 DEF EditRows
  <2>7. PlacedRow(row)
    BY <1>3, <2>4, <2>6 DEF PlacedRow
  <2>8. SeesRight(servers, row) /\ row.op \notin Writing
    BY <2>6 DEF SeesRight, Writing
  <2>9. ASSUME row.server \in steady
        PROVE  Follows(row, servers[row.server].current)
    <3>1. old.current > 0 /\ old.exists
      BY <1>1, <2>3, <2>6, <2>9 DEF Numbered, NumberedServer
    <3> QED BY <2>1, <2>3, <2>6, <3>1 DEF Follows
  <2> HIDE DEF row
  <2> QED BY <1>2, <1>4, <2>2, <2>5, <2>6, <2>7, <2>8, <2>9, LookingKeepsCatalog
<1> QED BY <1>5, <1>6

\* and counts its versions,
LEMMA ListServerVersionsKeepsCatalog ==
  ASSUME CatalogInv, NEW e \in Editors, ListServerVersions(e)
  PROVE  CatalogInv'
<1>1. EditsTyped /\ ServersTyped /\ Numbered
  BY DEF CatalogInv
<1>2. edit[e] \in EditRows /\ PlacedRow(edit[e]) /\ edit[e].at = "list" /\ edit[e].op = "expose"
  BY <1>1 DEF EditsTyped, ListServerVersions, At
<1>3. edit[e].server \in Servers
  BY <1>2 DEF PlacedRow, Writing
<1> DEFINE versions == servers[edit[e].server].versions
<1>4. versions \subseteq Int /\ edit[e].version \in Int
  BY <1>1, <1>2, <1>3 DEF ServersTyped, ServerRows, EditRows
<1>5. PICK version \in NextBuiltin(versions, edit[e].version) :
        edit' = [edit EXCEPT ![e].at = "write", ![e].version = version]
  BY DEF ListServerVersions
<1>6. version \in Int /\ version > 0
  BY <1>4, <1>5 DEF NextBuiltin
<1> DEFINE row == [edit[e] EXCEPT !.at = "write", !.version = version]
<1>7. edit' = [edit EXCEPT ![e] = row]
  BY <1>1, <1>5 DEF EditsTyped
<1>8. row \in EditRows
  BY <1>2, <1>6 DEF EditRows
<1>9. /\ row.at = "write" /\ row.op = "expose" /\ row.server = edit[e].server
      /\ row.alone = edit[e].alone /\ row.version = version
  BY <1>2, <1>6 DEF EditRows
<1>10. PlacedRow(row)
  BY <1>3, <1>6, <1>9 DEF PlacedRow
<1>11. UNCHANGED <<tools, verdict, passed, servers, steady>>
  BY DEF ListServerVersions
<1>12. SeesRight(servers, row) /\ row.op \notin Writing
  BY <1>9 DEF SeesRight, Writing
<1>13. ASSUME row.server \in steady
       PROVE  Follows(row, servers[row.server].current)
  <2> DEFINE current == servers[edit[e].server].current
  <2>1. versions = 1..current /\ current > 0 /\ edit[e].version \in 1..current
    BY <1>1, <1>2, <1>9, <1>13 DEF Numbered, NumberedServer, Follows
  <2>2. current \in Int
    BY <1>1, <1>3 DEF ServersTyped, ServerRows
  <2> HIDE DEF current, versions
  <2>3. version \in 1..(current + 1)
    BY <1>5, <2>1, <2>2 DEF NextBuiltin
  <2>4. current = servers[row.server].current
    BY <1>9 DEF current
  <2> QED BY <1>9, <2>3, <2>4 DEF Follows
<1> HIDE DEF row
<1> QED
  BY <1>2, <1>7, <1>8, <1>9, <1>10, <1>11, <1>12, <1>13, LookingKeepsCatalog

\* one that looks whether another server has the slug,
LEMMA CheckSlugKeepsCatalog ==
  ASSUME CatalogInv, NEW e \in Editors, CheckSlug(e)
  PROVE  CatalogInv'
<1>1. EditsTyped /\ ServersTyped /\ Numbered
  BY DEF CatalogInv
<1>2. edit[e] \in EditRows /\ PlacedRow(edit[e]) /\ edit[e].at = "slug"
  BY <1>1 DEF EditsTyped, CheckSlug, At
<1>3. edit[e].server \in Servers /\ edit[e].op \in Writing /\ edit[e].spec \in Specs
  BY <1>2 DEF PlacedRow
<1>4. UNCHANGED <<tools, verdict, passed, servers, steady>>
  BY DEF CheckSlug
<1>5. CASE Finish(e)
  BY <1>2, <1>4, <1>5, GivingUpKeepsCatalog
<1>6. CASE /\ Go(e, "tool")
           /\ ByName(edit[e].spec.slug) = {} \/ edit[e].server \in ByName(edit[e].spec.slug)
  <2> DEFINE row == [edit[e] EXCEPT !.at = "tool"]
  <2>1. row \in EditRows
    BY <1>2 DEF EditRows
  <2>2. /\ row.at = "tool" /\ row.op = edit[e].op /\ row.server = edit[e].server
        /\ row.spec = edit[e].spec /\ row.version = edit[e].version
    BY <1>2 DEF EditRows
  <2>3. PlacedRow(row)
    BY <1>3, <2>2 DEF PlacedRow
  <2>4. SeesRight(servers, edit[e]) => SeesRight(servers, row)
    BY <1>2, <1>6, <2>2 DEF SeesRight, ByName
  <2>5. ASSUME edit[e].server \in steady
        PROVE  Follows(row, servers[edit[e].server].current)
    BY <1>1, <1>2, <1>3, <2>2, <2>5 DEF Numbered, NumberedServer, Follows, Writing
  <2> QED BY <1>2, <1>4, <1>6, <2>1, <2>3, <2>4, <2>5, GoingOnKeepsCatalog
<1> QED BY <1>5, <1>6 DEF CheckSlug

\* and one that reads the tool behind the server.
LEMMA ReadToolKeepsCatalog ==
  ASSUME CatalogInv, NEW e \in Editors, ReadTool(e)
  PROVE  CatalogInv'
<1> DEFINE tool == tools[edit[e].spec.tool]
           row == [edit[e] EXCEPT !.at = "verdict", !.published = tool.published,
                                  !.seen = tool.current]
<1>1. EditsTyped /\ ToolsTyped /\ Numbered
  BY DEF CatalogInv
<1>2. edit[e] \in EditRows /\ PlacedRow(edit[e]) /\ edit[e].at = "tool"
  BY <1>1 DEF EditsTyped, ReadTool, At
<1>3. edit[e].server \in Servers /\ edit[e].op \in Writing /\ edit[e].spec \in Specs
  BY <1>2 DEF PlacedRow
<1>4. UNCHANGED <<tools, verdict, passed, servers, steady>>
  BY DEF ReadTool
<1>5. tool.published \in BOOLEAN /\ tool.current \in Int
  BY <1>1, <1>3 DEF ToolsTyped, Specs
<1>6. edit' = [edit EXCEPT ![e] = row]
  BY <1>1 DEF ReadTool, EditsTyped
<1> HIDE DEF tool
<1>7. row \in EditRows
  BY <1>2, <1>5 DEF EditRows
<1>8. /\ row.alone = edit[e].alone /\ row.op = edit[e].op /\ row.at = "verdict"
      /\ row.server = edit[e].server /\ row.spec = edit[e].spec /\ row.version = edit[e].version
  BY <1>2 DEF EditRows
<1>9. PlacedRow(row)
  BY <1>3, <1>8 DEF PlacedRow
<1>10. SeesRight(servers, edit[e]) => SeesRight(servers, row)
  BY <1>2, <1>8 DEF SeesRight
<1>11. ASSUME row.server \in steady
       PROVE  Follows(row, servers[row.server].current)
  BY <1>1, <1>2, <1>3, <1>8, <1>11 DEF Numbered, NumberedServer, Follows, Writing
<1> HIDE DEF row
<1> QED BY <1>2, <1>4, <1>6, <1>7, <1>8, <1>9, <1>10, <1>11, LookingKeepsCatalog

\* A verdict that lets a tool through is about the version that was read.
LEMMA ReadVerdictKeepsCatalog ==
  ASSUME CatalogInv, NEW e \in Editors, ReadVerdict(e)
  PROVE  CatalogInv'
<1>1. EditsTyped /\ VerdictsArePassed /\ Numbered
  BY DEF CatalogInv
<1>2. edit[e] \in EditRows /\ PlacedRow(edit[e]) /\ edit[e].at = "verdict"
  BY <1>1 DEF EditsTyped, ReadVerdict, At
<1>3. edit[e].server \in Servers /\ edit[e].op \in Writing /\ edit[e].spec \in Specs
  BY <1>2 DEF PlacedRow
<1>4. UNCHANGED <<tools, verdict, passed, servers, steady>>
  BY DEF ReadVerdict
<1> DEFINE ok == Eligible(edit[e].published, edit[e].seen, verdict[edit[e].spec.tool])
           place == IF edit[e].op = "create" THEN "create" ELSE "write"
<1>5. CASE ~ok
  BY <1>2, <1>4, <1>5, GivingUpKeepsCatalog DEF ReadVerdict
<1>6. CASE ok
  <2> DEFINE row == [edit[e] EXCEPT !.at = place]
  <2>1. Go(e, place)
    BY <1>6 DEF ReadVerdict
  <2>2. edit[e].seen \in passed[edit[e].spec.tool]
    BY <1>1, <1>3, <1>6 DEF VerdictsArePassed, Eligible, Specs
  <2>3. row \in EditRows
    BY <1>2 DEF EditRows
  <2>4. /\ row.at = place /\ row.op = edit[e].op /\ row.server = edit[e].server
        /\ row.spec = edit[e].spec /\ row.version = edit[e].version
    BY <1>2 DEF EditRows
  <2>5. PlacedRow(row)
    <3> HIDE DEF row
    <3>1. row.at \in {"create", "write"} /\ (row.at = "create" => row.op = "create")
      BY <2>4
    <3> HIDE DEF place
    <3> QED BY <1>3, <2>4, <3>1 DEF PlacedRow
  <2>6. SeesRight(servers, edit[e]) => SeesRight(servers, row)
    BY <1>2, <1>3, <2>4 DEF SeesRight
  <2>7. ASSUME edit[e].server \in steady
        PROVE  Follows(row, servers[edit[e].server].current)
    BY <1>1, <1>2, <1>3, <2>4, <2>7 DEF Numbered, NumberedServer, Follows, Writing
  <2> HIDE DEF place, ok
  <2> QED BY <1>2, <1>4, <2>1, <2>2, <2>3, <2>5, <2>6, <2>7, GoingOnKeepsCatalog
<1> QED BY <1>5, <1>6

\* A verdict is written for a version that passed, and none of those is forgotten.
LEMMA VerdictGrows ==
  ASSUME CatalogInv, NEW t \in Tools, NEW version \in Int, NEW ok \in BOOLEAN,
         Judged(t, version, ok) \/ UNCHANGED verdict,
         passed' = IF ok THEN [passed EXCEPT ![t] = @ \cup {version}] ELSE passed,
         UNCHANGED <<tools, servers>>
  PROVE  /\ ToolsTyped' /\ VerdictsArePassed' /\ ServersRestOnChecks'
         /\ \A x \in Tools : passed[x] \subseteq passed'[x]
<1>1. ToolsTyped /\ VerdictsArePassed /\ ServersRestOnChecks /\ ServersTyped
  BY DEF CatalogInv
<1>2. \A x \in Tools : passed[x] \subseteq passed'[x]
  BY <1>1 DEF ToolsTyped
<1>3. ok => version \in passed'[t]
  BY <1>1 DEF ToolsTyped
<1>4. passed' \in [Tools -> SUBSET Int]
  BY <1>1 DEF ToolsTyped
<1>5. verdict' \in [Tools -> [version : Int, ok : BOOLEAN]]
  BY <1>1 DEF ToolsTyped, Judged
<1>6. ASSUME NEW x \in Tools, verdict'[x].ok
      PROVE  verdict'[x].version \in passed'[x]
  <2>1. CASE UNCHANGED verdict
    BY <1>1, <1>2, <1>6, <2>1 DEF VerdictsArePassed
  <2>2. CASE Judged(t, version, ok) /\ x = t
    BY <1>1, <1>3, <1>6, <2>2 DEF Judged, ToolsTyped
  <2>3. CASE Judged(t, version, ok) /\ x # t
    BY <1>1, <1>2, <1>6, <2>3 DEF Judged, ToolsTyped, VerdictsArePassed
  <2> QED BY <2>1, <2>2, <2>3
<1>7. ASSUME NEW s \in Servers, servers[s].seen # 0
      PROVE  servers[s].seen \in passed'[servers[s].spec.tool]
  <2>1. servers[s].spec.tool \in Tools
    BY <1>1, <1>7 DEF ServersTyped, SoundServer, ServerRows, Specs
  <2> QED BY <1>1, <1>2, <1>7, <2>1 DEF ServersRestOnChecks
<1> QED
  BY <1>1, <1>2, <1>4, <1>5, <1>6, <1>7 DEF ToolsTyped, VerdictsArePassed, ServersRestOnChecks

\* A check of a tool keeps the invariant,
LEMMA JudgeToolKeepsCatalog ==
  ASSUME CatalogInv, NEW e \in Editors, JudgeTool(e)
  PROVE  CatalogInv'
<1>1. EditsTyped /\ ToolsTyped /\ ServersTyped
  BY DEF CatalogInv
<1>2. edit[e] \in EditRows /\ PlacedRow(edit[e]) /\ edit[e].at = "check"
  BY <1>1 DEF EditsTyped, JudgeTool, At
<1>3. edit[e].tool \in Tools /\ edit[e].version \in Int
  BY <1>2 DEF PlacedRow, EditRows, Writing
<1>4. UNCHANGED <<tools, servers, steady>> /\ Finish(e)
  BY DEF JudgeTool
<1>5. PICK ok \in BOOLEAN :
        /\ Judged(edit[e].tool, edit[e].version, ok) \/ UNCHANGED verdict
        /\ passed' = IF ok THEN [passed EXCEPT ![edit[e].tool] = @ \cup {edit[e].version}]
                     ELSE passed
  BY DEF JudgeTool
<1>6. /\ ToolsTyped' /\ VerdictsArePassed' /\ ServersRestOnChecks'
      /\ \A x \in Tools : passed[x] \subseteq passed'[x]
  BY <1>3, <1>4, <1>5, VerdictGrows
<1>7. EditsTyped' /\ WritesArePassed' /\ AloneSeesRight'
  BY <1>2, <1>4, <1>6, FinishKeepsEdits
<1>8. Numbered'
  BY <1>4, FinishKeepsNumbered
<1> QED BY <1>1, <1>4, <1>6, <1>7, <1>8 DEF CatalogInv, ServersTyped

\* and so does what the bootstrap writes in its place.
LEMMA VouchForToolKeepsCatalog ==
  ASSUME CatalogInv, NEW e \in Editors, VouchForTool(e)
  PROVE  CatalogInv'
<1>1. EditsTyped /\ ToolsTyped /\ ServersTyped
  BY DEF CatalogInv
<1>2. edit[e] \in EditRows /\ PlacedRow(edit[e]) /\ edit[e].at = "vouch"
  BY <1>1 DEF EditsTyped, VouchForTool, At
<1>3. edit[e].tool \in Tools /\ edit[e].version \in Int
  BY <1>2 DEF PlacedRow, EditRows, Writing
<1>4. UNCHANGED <<tools, servers, steady>>
  BY DEF VouchForTool
<1>5. /\ Judged(edit[e].tool, edit[e].version, TRUE)
      /\ passed' = IF TRUE THEN [passed EXCEPT ![edit[e].tool] = @ \cup {edit[e].version}]
                   ELSE passed
  BY DEF VouchForTool
<1>6. /\ ToolsTyped' /\ VerdictsArePassed' /\ ServersRestOnChecks'
      /\ \A x \in Tools : passed[x] \subseteq passed'[x]
  BY <1>3, <1>4, <1>5, VerdictGrows
<1> DEFINE row == [edit[e] EXCEPT !.op = "expose", !.at = "find", !.server = Seeded,
                                  !.spec = SeededSpec, !.version = 0]
<1>7. edit' = [edit EXCEPT ![e] = row]
  BY <1>1 DEF VouchForTool, EditsTyped
<1>8. Seeded \in Servers /\ SeededSpec \in AnySpecs
  BY SeededIsNamed, SpecsAreNamed
<1>9. row \in EditRows
  <2> DEFINE begun == [edit[e] EXCEPT !.op = "expose", !.at = "find"]
  <2>1. begun \in EditRows
    BY <1>2 DEF EditRows
  <2> HIDE DEF begun
  <2> DEFINE placed == [begun EXCEPT !.server = Seeded]
  <2>2. placed \in EditRows
    BY <1>8, <2>1 DEF EditRows
  <2> HIDE DEF placed
  <2> DEFINE filled == [placed EXCEPT !.spec = SeededSpec]
  <2>3. filled \in EditRows
    BY <1>8, <2>2 DEF EditRows
  <2> HIDE DEF filled
  <2>4. [filled EXCEPT !.version = 0] \in EditRows
    BY <2>3 DEF EditRows
  <2> QED BY <2>4 DEF begun, placed, filled
<1>10. row.op = "expose" /\ row.at = "find" /\ row.server \in Servers /\ row.alone = edit[e].alone
  BY <1>2, <1>8 DEF EditRows
<1>11. PlacedRow(row) /\ SeesRight(servers', row) /\ row.op \notin Writing
  BY <1>10 DEF PlacedRow, SeesRight, Writing
<1> HIDE DEF row
<1>12. EditsTyped' /\ WritesArePassed' /\ AloneSeesRight'
  BY <1>2, <1>6, <1>7, <1>9, <1>10, <1>11, EditStepKeepsEdits
<1>13. Follows(row, servers[row.server].current)
  BY <1>10, OthersFollow
<1>14. Numbered'
  BY <1>4, <1>7, <1>13, NumberedIsKept
<1> QED BY <1>1, <1>4, <1>6, <1>12, <1>14 DEF CatalogInv, ServersTyped

\* A new version of a tool leaves its old verdicts as they were.
LEMMA AddToolVersionKeepsCatalog ==
  ASSUME CatalogInv, NEW e \in Editors, edit[e].at = "write",
         edit[e].op \in {"tool", "seed", "revise"},
         NEW version \in Int, NEW published \in BOOLEAN, AddToolVersion(e, version, published),
         UNCHANGED <<verdict, passed, servers, steady>>
  PROVE  CatalogInv'
<1>1. EditsTyped /\ ToolsTyped
  BY DEF CatalogInv
<1>2. edit[e] \in EditRows /\ PlacedRow(edit[e])
  BY <1>1 DEF EditsTyped
<1>3. edit[e].tool \in Tools
  BY <1>2 DEF PlacedRow, Writing
<1>4. ToolsTyped'
  <2> DEFINE new == [tools[edit[e].tool] EXCEPT !.versions = @ \cup {version},
                       !.current = version, !.published = published]
  <2>1. tools' \in {tools, [tools EXCEPT ![edit[e].tool] = new]}
    BY <1>1, <1>3 DEF AddToolVersion, ToolsTyped
  <2>2. new \in [versions : SUBSET Int, current : Int, published : BOOLEAN]
    BY <1>1, <1>3 DEF ToolsTyped
  <2> HIDE DEF new
  <2>3. tools' \in [Tools -> [versions : SUBSET Int, current : Int, published : BOOLEAN]]
    BY <1>1, <2>1, <2>2 DEF ToolsTyped
  <2>4. UNCHANGED <<verdict, passed>>
    OBVIOUS
  <2> QED BY <1>1, <2>3, <2>4 DEF ToolsTyped
<1>5. CASE Finish(e)
  <2>1. EditsTyped' /\ WritesArePassed' /\ AloneSeesRight'
    BY <1>5, FinishKeepsEdits
  <2>2. Numbered'
    BY <1>5, FinishKeepsNumbered
  <2> QED
    BY <1>4, <2>1, <2>2 DEF CatalogInv, ServersTyped, VerdictsArePassed, ServersRestOnChecks
<1>6. CASE edit[e].op = "seed" /\ Go(e, "latest")
  <2> DEFINE row == [edit[e] EXCEPT !.at = "latest"]
  <2>1. edit' = [edit EXCEPT ![e] = row]
    BY <1>1, <1>6 DEF Go, EditsTyped
  <2>2. row \in EditRows
    BY <1>2 DEF EditRows
  <2>3. row.op = "seed" /\ row.at = "latest" /\ row.tool \in Tools /\ row.alone = edit[e].alone
    BY <1>2, <1>3, <1>6 DEF EditRows
  <2>4. PlacedRow(row) /\ SeesRight(servers', row) /\ row.op \notin Writing
    BY <2>3 DEF PlacedRow, SeesRight, Writing
  <2> HIDE DEF row
  <2>5. EditsTyped' /\ WritesArePassed' /\ AloneSeesRight'
    BY <2>1, <2>2, <2>3, <2>4, EditStepKeepsEdits
  <2>6. Follows(row, servers[row.server].current)
    BY <2>3, OthersFollow
  <2>7. Numbered'
    BY <2>1, <2>6, NumberedIsKept
  <2> QED
    BY <1>4, <2>5, <2>7 DEF CatalogInv, ServersTyped, VerdictsArePassed, ServersRestOnChecks
<1> QED BY <1>5, <1>6 DEF AddToolVersion

\* Whoever writes it.
LEMMA WriteToolKeepsCatalog ==
  ASSUME CatalogInv, NEW e \in Editors, WriteTool(e)
  PROVE  CatalogInv'
<1>1. edit[e].at = "write" /\ UNCHANGED <<verdict, passed, servers, steady>>
  BY DEF WriteTool, At
<1>2. edit[e] \in EditRows
  BY DEF CatalogInv, EditsTyped
<1>3. edit[e].version \in Int /\ edit[e].published \in BOOLEAN
  BY <1>2 DEF EditRows
<1>4. CASE edit[e].op = "tool"
           /\ AddToolVersion(e, NextVersion("tool", edit[e].version), edit[e].published)
  <2>1. NextVersion("tool", edit[e].version) \in Int
    BY <1>3 DEF NextVersion
  <2> QED BY <1>1, <1>3, <1>4, <2>1, AddToolVersionKeepsCatalog
<1>5. CASE edit[e].op = "seed" /\ AddToolVersion(e, edit[e].version, TRUE)
  BY <1>1, <1>3, <1>5, AddToolVersionKeepsCatalog
<1>6. CASE /\ edit[e].op = "revise"
           /\ \E version \in Named, published \in BOOLEAN : AddToolVersion(e, version, published)
  <2>1. Named \subseteq Int
    <3>1. Named \subseteq (Nat \ {0}) \cup {-1}
      BY ToolsAssumption
    <3>2. -1 \in Int
      OBVIOUS
    <3> QED BY <3>1, <3>2
  <2> QED BY <1>1, <1>6, <2>1, AddToolVersionKeepsCatalog
<1> QED BY <1>4, <1>5, <1>6 DEF WriteTool

\* An entity that is created has no specification yet.
LEMMA CreateEntityKeepsCatalog ==
  ASSUME CatalogInv, NEW e \in Editors, CreateEntity(e)
  PROVE  CatalogInv'
<1>1. /\ EditsTyped /\ ServersTyped /\ WritesArePassed /\ ServersRestOnChecks /\ ToolsTyped
      /\ VerdictsArePassed /\ Numbered
  BY DEF CatalogInv
<1>2. edit[e] \in EditRows /\ PlacedRow(edit[e]) /\ edit[e].at = "create"
  BY <1>1 DEF EditsTyped, CreateEntity, At
<1>3. /\ edit[e].server \in Servers /\ edit[e].op \in {"create", "register", "expose"}
      /\ edit[e].op = "create" => edit[e].spec \in Specs
      /\ edit[e].op = "expose" => edit[e].version > 0
  BY <1>2 DEF PlacedRow, Writing
<1>4. UNCHANGED <<tools, verdict, passed, steady>>
  BY DEF CreateEntity
<1> DEFINE s == edit[e].server
<1>5. CASE servers[s].exists
  BY <1>2, <1>4, <1>5, GivingUpKeepsCatalog DEF CreateEntity
<1>6. CASE ~servers[s].exists
  <2> DEFINE row == [edit[e] EXCEPT !.at = "write"]
             new == [NoServer EXCEPT !.exists = TRUE]
  <2>1. servers' = [servers EXCEPT ![s] = new]
    BY <1>1, <1>3, <1>6 DEF CreateEntity, ServersTyped, SoundServer
  <2>2. new \in ServerRows /\ SoundServer(new) /\ new.spec = NoSpec /\ new.seen = 0
    BY SpecsAreNamed DEF NoServer, ServerRows, SoundServer
  <2>3. servers[s].spec = NoSpec
    BY <1>1, <1>3, <1>6 DEF ServersTyped, SoundServer, NoServer
  <2> HIDE DEF new
  <2>4. ServersTyped'
    BY <1>1, <1>4, <2>1, <2>2 DEF ServersTyped
  <2>5. \A x \in Servers : servers'[x].spec = servers[x].spec
    BY <1>1, <2>1, <2>2, <2>3 DEF ServersTyped
  <2>6. edit' = [edit EXCEPT ![e] = row]
    BY <1>1, <1>6 DEF CreateEntity, Go, EditsTyped
  <2>7. /\ row.alone = edit[e].alone /\ row.op = edit[e].op /\ row.at = "write"
        /\ row.server = edit[e].server /\ row.spec = edit[e].spec /\ row.seen = edit[e].seen
        /\ row.version = edit[e].version
    BY <1>2 DEF EditRows
  <2>8. row \in EditRows
    BY <1>2 DEF EditRows
  <2> HIDE DEF row
  <2>9. PlacedRow(row)
    BY <1>3, <2>7 DEF PlacedRow, Writing
  <2>10. SeesRight(servers, edit[e]) => SeesRight(servers', row)
    BY <1>2, <1>3, <2>5, <2>7 DEF SeesRight
  <2>11. row.op \in Writing => row.seen \in passed[row.spec.tool]
    BY <1>1, <1>2, <2>7 DEF WritesArePassed
  <2>12. EditsTyped' /\ WritesArePassed' /\ AloneSeesRight'
    BY <1>2, <1>4, <2>6, <2>7, <2>8, <2>9, <2>10, <2>11, EditStepKeepsEdits
  <2>13. ServersRestOnChecks'
    BY <1>1, <1>4, <2>1, <2>2 DEF ServersRestOnChecks, ServersTyped
  <2>14. Numbered'
    <3> SUFFICES ASSUME NEW x \in steady
                 PROVE  NumberedServer(x)'
      BY <1>4 DEF Numbered
    <3>1. x \in Servers /\ NumberedServer(x) /\ x # s
      BY <1>1, <1>6 DEF Numbered, NumberedServer, ServersTyped
    <3>2. servers'[x] = servers[x]
      BY <1>1, <2>1, <3>1 DEF ServersTyped
    <3>3. \A o \in Editors : edit'[o].server = x => edit'[o] = edit[o]
      BY <1>1, <2>6, <2>7, <3>1 DEF EditsTyped
    <3> QED BY <3>1, <3>2, <3>3 DEF NumberedServer
  <2> QED
    BY <1>1, <1>4, <2>4, <2>12, <2>13, <2>14 DEF CatalogInv, ToolsTyped, VerdictsArePassed
<1> QED BY <1>5, <1>6

\* What a writer leaves: the row as it was, or the row with a version more.
LEMMA AddServerVersionRows ==
  ASSUME CatalogInv, NEW e \in Editors, edit[e].server \in Servers,
         NEW version \in Int \ {0}, NEW spec \in Specs, NEW seen \in Int,
         AddServerVersion(e, version, spec, seen)
  PROVE  /\ servers' \in [Servers -> ServerRows] /\ \A x \in Servers : SoundServer(servers'[x])
         /\ \A x \in Servers \ {edit[e].server} : servers'[x] = servers[x]
         /\ LET old == servers[edit[e].server]
                new == servers'[edit[e].server]
            IN  \/ /\ Addable(edit[e].server, version)
                   /\ new.exists /\ new.versions = old.versions \cup {version}
                   /\ new.current = version /\ new.spec = spec /\ new.seen = seen
                \/ ~Addable(edit[e].server, version) /\ servers' = servers
<1>1. ServersTyped
  BY DEF CatalogInv
<1> DEFINE s == edit[e].server
           old == servers[s]
           new == [old EXCEPT !.versions = @ \cup {version}, !.current = version,
                              !.spec = spec, !.seen = seen]
<1>2. CASE Addable(s, version)
  <2>1. servers' = [servers EXCEPT ![s] = new]
    BY <1>1, <1>2 DEF AddServerVersion, ServersTyped
  <2>2. old \in ServerRows /\ old.exists
    BY <1>1, <1>2 DEF ServersTyped, Addable
  <2>3. old = servers[edit[e].server]
    OBVIOUS
  <2> HIDE DEF old
  <2>4. new \in ServerRows
    BY <2>2, SpecsAreNamed DEF ServerRows
  <2>5. /\ new.exists /\ new.versions = old.versions \cup {version}
        /\ new.current = version /\ new.spec = spec /\ new.seen = seen
    BY <2>2 DEF ServerRows
  <2>6. SoundServer(new)
    BY <2>5, SpecsAreNamed DEF SoundServer
  <2> HIDE DEF new
  <2> QED BY <1>1, <1>2, <2>1, <2>3, <2>4, <2>5, <2>6 DEF ServersTyped
<1>3. CASE ~Addable(s, version)
  <2>1. servers' = servers
    BY <1>3 DEF AddServerVersion
  <2> QED BY <1>1, <1>3, <2>1 DEF ServersTyped
<1> QED BY <1>2, <1>3

\* Another server stays numbered, and whoever is done follows none.
LEMMA OthersStayNumbered ==
  ASSUME CatalogInv, NEW e \in Editors, Finish(e), NEW s \in steady, servers'[s] = servers[s]
  PROVE  NumberedServer(s)'
<1>1. NumberedServer(s) /\ EditsTyped
  BY DEF CatalogInv, Numbered
<1>2. edit'[e].at = "idle"
  BY <1>1 DEF Finish, EditsTyped, NoEdit
<1>3. \A o \in Editors \ {e} : edit'[o] = edit[o]
  BY <1>1 DEF Finish, EditsTyped
<1>4. Follows(edit'[e], servers'[s].current)
  BY <1>2, OthersFollow
<1> QED BY <1>1, <1>3, <1>4 DEF NumberedServer

\* What a writer of the catalog or the bootstrap adds.
LEMMA WriteServerAdds ==
  ASSUME CatalogInv, NEW e \in Editors, WriteServer(e)
  PROVE  /\ edit[e].server \in Servers /\ edit[e].op \in Writing \cup {"expose"}
         /\ \E version \in Int \ {0}, spec \in Specs, seen \in Int :
              /\ AddServerVersion(e, version, spec, seen)
              /\ \/ seen = 0
                 \/ seen \in passed[spec.tool]
              /\ edit[e].op \in Writing =>
                   /\ version = NextVersion(edit[e].op, edit[e].version)
                   /\ spec = edit[e].spec
              /\ edit[e].op = "expose" => version = edit[e].version
<1>1. EditsTyped /\ WritesArePassed
  BY DEF CatalogInv
<1>2. edit[e] \in EditRows /\ PlacedRow(edit[e]) /\ edit[e].at = "write"
  BY <1>1 DEF EditsTyped, WriteServer, At
<1>3. edit[e].version \in Int /\ edit[e].seen \in Int
  BY <1>2 DEF EditRows
<1>4. CASE edit[e].op \in Writing
  <2>1. edit[e].server \in Servers /\ edit[e].spec \in Specs
    BY <1>2, <1>4 DEF PlacedRow, Writing
  <2>2. NextVersion(edit[e].op, edit[e].version) \in Int \ {0}
    BY <1>3 DEF NextVersion
  <2>3. edit[e].seen \in passed[edit[e].spec.tool]
    BY <1>1, <1>2, <1>4 DEF WritesArePassed
  <2>4. AddServerVersion(e, NextVersion(edit[e].op, edit[e].version), edit[e].spec, edit[e].seen)
    BY <1>4 DEF WriteServer, Writing
  <2>5. edit[e].op # "expose"
    BY <1>4 DEF Writing
  <2> QED BY <1>3, <1>4, <2>1, <2>2, <2>3, <2>4, <2>5
<1>5. CASE edit[e].op = "expose"
  <2>1. edit[e].server \in Servers /\ edit[e].version \in Int \ {0}
    BY <1>2, <1>3, <1>5 DEF PlacedRow, Writing
  <2>2. SeededSpec \in Specs
    BY SeededIsNamed
  <2>3. AddServerVersion(e, edit[e].version, SeededSpec, 0)
    BY <1>5 DEF WriteServer
  <2>4. edit[e].op \notin Writing
    BY <1>5 DEF Writing
  <2> QED BY <1>5, <2>1, <2>2, <2>3, <2>4
<1> QED BY <1>4, <1>5 DEF WriteServer, Writing

\* A server that is added to keeps resting on a version found valid.
LEMMA AddingKeepsChecks ==
  ASSUME CatalogInv, NEW e \in Editors, edit[e].server \in Servers,
         NEW version \in Int \ {0}, NEW spec \in Specs, NEW seen \in Int,
         AddServerVersion(e, version, spec, seen), seen = 0 \/ seen \in passed[spec.tool],
         UNCHANGED passed
  PROVE  ServersRestOnChecks'
<1>1. ServersRestOnChecks
  BY DEF CatalogInv
<1>2. ASSUME NEW x \in Servers, servers'[x].seen # 0
      PROVE  servers'[x].seen \in passed[servers'[x].spec.tool]
  <2>1. \/ servers'[x] = servers[x]
        \/ servers'[x].seen = seen /\ servers'[x].spec = spec
    BY AddServerVersionRows
  <2> QED BY <1>1, <1>2, <2>1 DEF ServersRestOnChecks
<1> QED BY <1>2 DEF ServersRestOnChecks

\* A steady server gets the next number, if any.
LEMMA SteadyIsNumbered ==
  ASSUME CatalogInv, NEW e \in Editors, WriteServer(e), NEW s \in steady, s = edit[e].server
  PROVE  /\ NumberedServer(s)'
         /\ \/ servers' = servers
            \/ edit[e].op \in {"update", "switch"} => servers[s].current = edit[e].version
<1> DEFINE current == servers[s].current
<1>1. ServersTyped /\ EditsTyped /\ NumberedServer(s)
  BY DEF CatalogInv, Numbered
<1>2. edit[e] \in EditRows /\ edit[e].at = "write" /\ Finish(e)
  BY <1>1 DEF EditsTyped, WriteServer, At
<1>3. /\ servers[s].exists /\ current > 0 /\ servers[s].versions = 1..current
      /\ \A o \in Editors : edit[o].server = s => Follows(edit[o], current)
  BY <1>1 DEF NumberedServer
<1>4. current \in Int /\ edit[e].version \in Int
  BY <1>1, <1>2 DEF ServersTyped, ServerRows, EditRows
<1>5. s \in Servers /\ edit[e].op \in Writing \cup {"expose"}
  BY WriteServerAdds
<1>6. PICK version \in Int \ {0}, spec \in Specs, seen \in Int :
        /\ AddServerVersion(e, version, spec, seen)
        /\ edit[e].op \in Writing => version = NextVersion(edit[e].op, edit[e].version)
        /\ edit[e].op = "expose" => version = edit[e].version
  BY WriteServerAdds
<1>7. CASE ~Addable(s, version)
  <2>1. servers' = servers
    BY <1>5, <1>6, <1>7, AddServerVersionRows
  <2> QED BY <1>2, <2>1, OthersStayNumbered
<1>8. CASE Addable(s, version)
  <2>1. version \notin 1..current
    BY <1>3, <1>8 DEF Addable
  <2>2. Follows(edit[e], current)
    BY <1>3
  <2>3. /\ version = current + 1
        /\ edit[e].op \in {"update", "switch"} => current = edit[e].version
    <3>1. CASE edit[e].op = "create"
      BY <1>3, <1>4, <1>6, <2>1, <3>1 DEF NextVersion, Writing
    <3>2. CASE edit[e].op \in {"update", "switch"}
      BY <1>2, <1>3, <1>4, <1>6, <2>1, <2>2, <3>2 DEF NextVersion, Writing, Follows
    <3>3. CASE edit[e].op = "expose"
      BY <1>2, <1>3, <1>4, <1>6, <2>1, <2>2, <3>3 DEF Follows
    <3> QED BY <1>5, <3>1, <3>2, <3>3 DEF Writing
  <2>4. /\ servers'[s].exists /\ servers'[s].current = current + 1
        /\ servers'[s].versions = 1..current \cup {current + 1}
    BY <1>3, <1>5, <1>6, <1>8, <2>3, AddServerVersionRows
  <2>5. servers'[s].versions = 1..(current + 1) /\ current + 1 > 0
    BY <1>3, <1>4, <2>4
  <2>6. ASSUME NEW row, Follows(row, current)
        PROVE  Follows(row, current + 1)
    BY <1>4, <2>6 DEF Follows
  <2>7. edit'[e].at = "idle" /\ \A o \in Editors \ {e} : edit'[o] = edit[o]
    BY <1>1, <1>2 DEF Finish, EditsTyped, NoEdit
  <2>8. ASSUME NEW o \in Editors, edit'[o].server = s
        PROVE  Follows(edit'[o], current + 1)
    <3>1. CASE o = e
      BY <2>7, <3>1, OthersFollow
    <3>2. CASE o # e
      BY <1>3, <2>6, <2>7, <2>8, <3>2
    <3> QED BY <3>1, <3>2
  <2>9. NumberedServer(s)'
    <3> HIDE DEF current
    <3> QED BY <2>4, <2>5, <2>8 DEF NumberedServer
  <2> QED BY <2>3, <2>9
<1> QED BY <1>7, <1>8

\* The first version of a server that nobody else has looked at.
LEMMA FirstIsNumbered ==
  ASSUME CatalogInv, NEW e \in Editors, WriteServer(e), NEW s, s = edit[e].server,
         servers'[s].current = 1, FirstOfItsKind(e)
  PROVE  NumberedServer(s)'
<1>1. ServersTyped /\ EditsTyped
  BY DEF CatalogInv
<1>2. Finish(e) /\ s \in Servers
  BY WriteServerAdds DEF WriteServer
<1>3. PICK version \in Int \ {0}, spec \in Specs, seen \in Int :
        AddServerVersion(e, version, spec, seen)
  BY WriteServerAdds
<1>4. servers[s].versions = {} /\ servers[s].current # 1
  BY <1>1, <1>2 DEF FirstOfItsKind, ServersTyped, SoundServer
<1>5. /\ servers'[s].exists /\ servers'[s].versions = {} \cup {version}
      /\ servers'[s].current = version
  BY <1>2, <1>3, <1>4, AddServerVersionRows
<1>6. servers'[s].versions = 1..1
  BY <1>5
<1>7. edit'[e].at = "idle" /\ \A o \in Editors \ {e} : edit'[o] = edit[o]
  BY <1>1, <1>2 DEF Finish, EditsTyped, NoEdit
<1>8. ASSUME NEW o \in Editors, edit'[o].server = s
      PROVE  Follows(edit'[o], 1)
  <2>1. o = e
    BY <1>7, <1>8 DEF FirstOfItsKind
  <2> QED BY <1>7, <2>1, OthersFollow
<1> QED BY <1>5, <1>6, <1>8 DEF NumberedServer

\* A version of a server is written over a tool that was found valid.
LEMMA WriteServerKeepsCatalog ==
  ASSUME CatalogInv, NEW e \in Editors, WriteServer(e)
  PROVE  CatalogInv'
<1>1. ToolsTyped /\ VerdictsArePassed /\ ServersTyped /\ Numbered
  BY DEF CatalogInv
<1>2. edit[e].at = "write" /\ Finish(e) /\ UNCHANGED <<tools, verdict, passed>>
  BY DEF WriteServer, At
<1>3. EditsTyped' /\ WritesArePassed' /\ AloneSeesRight'
  BY <1>2, FinishKeepsEdits
<1>4. edit[e].server \in Servers
  BY WriteServerAdds
<1>5. PICK version \in Int \ {0}, spec \in Specs, seen \in Int :
        /\ AddServerVersion(e, version, spec, seen)
        /\ seen = 0 \/ seen \in passed[spec.tool]
  BY WriteServerAdds
<1>6. /\ servers' \in [Servers -> ServerRows] /\ \A x \in Servers : SoundServer(servers'[x])
      /\ \A x \in Servers \ {edit[e].server} : servers'[x] = servers[x]
  BY <1>4, <1>5, AddServerVersionRows
<1>7. ServersRestOnChecks'
  BY <1>2, <1>4, <1>5, AddingKeepsChecks
<1>8. steady' \subseteq steady \cup {edit[e].server}
      /\ (edit[e].server \in steady' =>
            \/ edit[e].server \in steady
            \/ servers'[edit[e].server].current = 1 /\ FirstOfItsKind(e))
  BY DEF WriteServer
<1>9. ServersTyped'
  BY <1>1, <1>4, <1>6, <1>8 DEF ServersTyped
<1>10. ASSUME NEW x \in steady'
       PROVE  NumberedServer(x)'
  <2>1. CASE x # edit[e].server
    <3>1. x \in steady /\ servers'[x] = servers[x]
      BY <1>1, <1>6, <1>8, <2>1 DEF ServersTyped
    <3> QED BY <1>2, <3>1, OthersStayNumbered
  <2>2. CASE x = edit[e].server
    BY <1>8, <2>2, SteadyIsNumbered, FirstIsNumbered
  <2> QED BY <2>1, <2>2
<1>11. Numbered'
  BY <1>10 DEF Numbered
<1> QED
  BY <1>1, <1>2, <1>3, <1>7, <1>9, <1>11 DEF CatalogInv, ToolsTyped, VerdictsArePassed

\* An entry of the registry says nothing of a check.
LEMMA WriteEntryKeepsCatalog ==
  ASSUME CatalogInv, NEW e \in Editors, WriteEntry(e)
  PROVE  CatalogInv'
<1>1. ToolsTyped /\ VerdictsArePassed /\ ServersTyped /\ Numbered /\ EditsTyped
  BY DEF CatalogInv
<1>2. /\ edit[e].at = "write" /\ Finish(e) /\ UNCHANGED <<tools, verdict, passed>>
      /\ steady' = steady \ {edit[e].server} /\ edit[e].op \in {"register", "enter"}
  BY DEF WriteEntry, At
<1>3. EditsTyped' /\ WritesArePassed' /\ AloneSeesRight'
  BY <1>2, FinishKeepsEdits
<1>4. edit[e].server \in Servers
  BY <1>1, <1>2 DEF EditsTyped, PlacedRow, Writing
<1>5. Named \subseteq Int \ {0}
  <2>1. Named \subseteq (Nat \ {0}) \cup {-1}
    BY ToolsAssumption
  <2>2. -1 \in Int \ {0} /\ Nat \ {0} \subseteq Int \ {0}
    OBVIOUS
  <2> QED BY <2>1, <2>2
<1>6. PICK version \in Named, spec \in Specs : AddServerVersion(e, version, spec, 0)
  BY DEF WriteEntry
<1>7. version \in Int \ {0} /\ 0 \in Int
  BY <1>5
<1>8. /\ servers' \in [Servers -> ServerRows] /\ \A x \in Servers : SoundServer(servers'[x])
      /\ \A x \in Servers \ {edit[e].server} : servers'[x] = servers[x]
  BY <1>4, <1>6, <1>7, AddServerVersionRows
<1>9. ServersRestOnChecks'
  BY <1>2, <1>4, <1>6, <1>7, AddingKeepsChecks
<1>10. ServersTyped'
  BY <1>1, <1>2, <1>8 DEF ServersTyped
<1>11. ASSUME NEW x \in steady'
       PROVE  NumberedServer(x)'
  <2>1. x \in steady /\ servers'[x] = servers[x]
    BY <1>1, <1>2, <1>8 DEF ServersTyped
  <2> QED BY <1>2, <2>1, OthersStayNumbered
<1>12. Numbered'
  BY <1>11 DEF Numbered
<1> QED
  BY <1>1, <1>2, <1>3, <1>9, <1>10, <1>12 DEF CatalogInv, ToolsTyped, VerdictsArePassed

\* A deleted server backs nothing.
LEMMA DropServerKeepsCatalog ==
  ASSUME CatalogInv, NEW e \in Editors, DropServer(e)
  PROVE  CatalogInv'
<1>1. /\ ToolsTyped /\ ServersRestOnChecks /\ VerdictsArePassed /\ ServersTyped /\ Numbered
  BY DEF CatalogInv
<1>2. /\ edit[e].at = "write" /\ Finish(e) /\ UNCHANGED <<tools, verdict, passed>>
      /\ steady' = steady \ {edit[e].server}
  BY DEF DropServer, At
<1>3. EditsTyped' /\ WritesArePassed' /\ AloneSeesRight'
  BY <1>2, FinishKeepsEdits
<1>4. servers' = [servers EXCEPT ![edit[e].server] = NoServer] /\ NoServer.seen = 0
  BY DEF DropServer, NoServer
<1>5. ServersTyped'
  BY <1>1, <1>2, <1>4, SpecsAreNamed DEF ServersTyped
<1>6. ServersRestOnChecks'
  BY <1>1, <1>2, <1>4 DEF ServersRestOnChecks, ServersTyped
<1>7. ASSUME NEW x \in steady'
      PROVE  NumberedServer(x)'
  <2>1. x \in steady /\ servers'[x] = servers[x]
    BY <1>1, <1>2, <1>4 DEF ServersTyped
  <2> QED BY <1>2, <2>1, OthersStayNumbered
<1>8. Numbered'
  BY <1>7 DEF Numbered
<1> QED BY <1>1, <1>2, <1>3, <1>5, <1>6, <1>8 DEF CatalogInv, ToolsTyped, VerdictsArePassed

\* An edit that begins is placed where its operation starts.
LEMMA EditBeginsPlaced ==
  ASSUME CatalogInv, NEW e \in Editors, EditBegins(e)
  PROVE  CatalogInv'
<1>1. At(e, "idle")
  BY DEF EditBegins
<1> DEFINE Fits(row) == /\ row \in EditRows /\ PlacedRow(row)
                        /\ row.at \in {"find", "load"} \/ row.op = "register"
                        /\ row.op = "switch" => row.at = "load"
<1>2. ASSUME NEW row, Fits(row), Begin(e, row)
      PROVE  CatalogInv'
  BY <1>1, <1>2, EditBeginsKeepsCatalog
<1>3. NoEdit \in EditRows /\ NoSpec \in AnySpecs /\ Specs \subseteq AnySpecs
  BY SpecsAreNamed
<1>4. CASE UpdateTool(e)
  <2>1. PICK t \in Tools, published \in BOOLEAN :
          Begin(e, [NoEdit EXCEPT !.op = "tool", !.at = "find", !.tool = t,
                                  !.published = published])
    BY <1>4 DEF UpdateTool
  <2>2. Fits([NoEdit EXCEPT !.op = "tool", !.at = "find", !.tool = t, !.published = published])
    BY <1>3 DEF NoEdit, EditRows, PlacedRow
  <2> HIDE DEF Fits
  <2> QED BY <1>2, <2>1, <2>2
<1>5. CASE ValidateTool(e)
  <2>1. PICK t \in Tools : Begin(e, [NoEdit EXCEPT !.op = "check", !.at = "find", !.tool = t])
    BY <1>5 DEF ValidateTool
  <2>2. Fits([NoEdit EXCEPT !.op = "check", !.at = "find", !.tool = t])
    BY <1>3 DEF NoEdit, EditRows, PlacedRow
  <2> HIDE DEF Fits
  <2> QED BY <1>2, <2>1, <2>2
<1>6. CASE EnterTool(e)
  <2>1. PICK t \in Tools : Begin(e, [NoEdit EXCEPT !.op = "revise", !.at = "find", !.tool = t])
    BY <1>6 DEF EnterTool
  <2>2. Fits([NoEdit EXCEPT !.op = "revise", !.at = "find", !.tool = t])
    BY <1>3 DEF NoEdit, EditRows, PlacedRow
  <2> HIDE DEF Fits
  <2> QED BY <1>2, <2>1, <2>2
<1>7. CASE Seed(e)
  <2>1. Begin(e, [NoEdit EXCEPT !.op = "seed", !.at = "find", !.tool = SeededSpec.tool,
                                !.published = TRUE])
    BY <1>7 DEF Seed
  <2>2. ASSUME NEW t \in Tools
        PROVE  Fits([NoEdit EXCEPT !.op = "seed", !.at = "find", !.tool = t, !.published = TRUE])
    BY <1>3 DEF NoEdit, EditRows, PlacedRow
  <2>3. SeededSpec.tool \in Tools
    BY SeededIsNamed
  <2> HIDE DEF Fits
  <2> QED BY <1>2, <2>1, <2>2, <2>3
<1>8. ASSUME NEW op \in {"create", "update"}, NEW s \in Servers, NEW spec \in Specs
      PROVE  Fits([NoEdit EXCEPT !.op = op, !.at = "find", !.server = s, !.spec = spec])
  BY <1>3 DEF NoEdit, EditRows, PlacedRow, Writing
<1>9. CASE CreateServer(e)
  <2>1. PICK s \in Servers, spec \in Specs :
          Begin(e, [NoEdit EXCEPT !.op = "create", !.at = "find", !.server = s, !.spec = spec])
    BY <1>9 DEF CreateServer
  <2> HIDE DEF Fits
  <2> QED BY <1>2, <1>8, <2>1
<1>10. CASE UpdateServer(e)
  <2>1. PICK s \in Servers, spec \in Specs :
          Begin(e, [NoEdit EXCEPT !.op = "update", !.at = "find", !.server = s, !.spec = spec])
    BY <1>10 DEF UpdateServer
  <2> HIDE DEF Fits
  <2> QED BY <1>2, <1>8, <2>1
<1>11. CASE SwitchServer(e)
  <2>1. PICK s \in Servers, enabled \in BOOLEAN :
          Begin(e, [NoEdit EXCEPT !.op = "switch", !.at = "load", !.server = s,
                                  !.spec.enabled = enabled])
    BY <1>11 DEF SwitchServer
  <2>2. Fits([NoEdit EXCEPT !.op = "switch", !.at = "load", !.server = s,
                            !.spec.enabled = enabled])
    BY <1>3 DEF NoEdit, NoSpec, AnySpecs, EditRows, PlacedRow
  <2> HIDE DEF Fits
  <2> QED BY <1>2, <2>1, <2>2
<1>12. ASSUME NEW op \in {"delete", "enter"}, NEW s \in Servers
       PROVE  Fits([NoEdit EXCEPT !.op = op, !.at = "find", !.server = s])
  BY <1>3 DEF NoEdit, EditRows, PlacedRow
<1>13. CASE DeleteServer(e)
  <2>1. PICK s \in Servers :
          Begin(e, [NoEdit EXCEPT !.op = "delete", !.at = "find", !.server = s])
    BY <1>13 DEF DeleteServer
  <2> HIDE DEF Fits
  <2> QED BY <1>2, <1>12, <2>1
<1>14. CASE EnterServer(e)
  <2>1. PICK s \in Servers :
          Begin(e, [NoEdit EXCEPT !.op = "enter", !.at = "find", !.server = s])
    BY <1>14 DEF EnterServer
  <2> HIDE DEF Fits
  <2> QED BY <1>2, <1>12, <2>1
<1>15. CASE RegisterServer(e)
  <2>1. PICK s \in Servers :
          Begin(e, [NoEdit EXCEPT !.op = "register", !.at = "create", !.server = s])
    BY <1>15 DEF RegisterServer
  <2>2. Fits([NoEdit EXCEPT !.op = "register", !.at = "create", !.server = s])
    BY <1>3 DEF NoEdit, EditRows, PlacedRow
  <2> HIDE DEF Fits
  <2> QED BY <1>2, <2>1, <2>2
<1> QED
  BY <1>4, <1>5, <1>6, <1>7, <1>9, <1>10, <1>11, <1>13, <1>14, <1>15 DEF EditBegins

\* Every step of the catalog.
LEMMA CatalogInvStep == CatalogInv /\ CatalogNext => CatalogInv'
<1> SUFFICES ASSUME CatalogInv, NEW e \in Editors, EditBegins(e) \/ EditStep(e)
             PROVE  CatalogInv'
  BY DEF CatalogNext
<1>1. CASE EditBegins(e)
  BY <1>1, EditBeginsPlaced
<1>2. CASE FindTool(e) \/ ListToolVersions(e) \/ LatestTool(e)
  BY <1>2, FindToolKeepsCatalog, ListToolVersionsKeepsCatalog, LatestToolKeepsCatalog
<1>3. CASE WriteTool(e)
  BY <1>3, WriteToolKeepsCatalog
<1>4. CASE JudgeTool(e) \/ VouchForTool(e)
  BY <1>4, JudgeToolKeepsCatalog, VouchForToolKeepsCatalog
<1>5. CASE LoadServer(e) \/ FindServer(e)
  BY <1>5, LoadServerKeepsCatalog, FindServerKeepsCatalog
<1>6. CASE FindSeeded(e) \/ ListServerVersions(e)
  BY <1>6, FindSeededKeepsCatalog, ListServerVersionsKeepsCatalog
<1>7. CASE CheckSlug(e) \/ ReadTool(e) \/ ReadVerdict(e)
  BY <1>7, CheckSlugKeepsCatalog, ReadToolKeepsCatalog, ReadVerdictKeepsCatalog
<1>8. CASE CreateEntity(e)
  BY <1>8, CreateEntityKeepsCatalog
<1>9. CASE WriteServer(e) \/ WriteEntry(e) \/ DropServer(e)
  BY <1>9, WriteServerKeepsCatalog, WriteEntryKeepsCatalog, DropServerKeepsCatalog
<1> QED BY <1>1, <1>2, <1>3, <1>4, <1>5, <1>6, <1>7, <1>8, <1>9 DEF EditStep

\* The servers of the catalog keep their types when it is left alone.
LEMMA CatalogInvStutter == CatalogInv /\ UNCHANGED catalogVars => CatalogInv'
<1> SUFFICES ASSUME CatalogInv, UNCHANGED catalogVars PROVE CatalogInv'
  OBVIOUS
<1>1. UNCHANGED <<tools, verdict, passed, servers, steady, edit>>
  BY DEF catalogVars
<1>2. ToolsTyped' /\ ServersTyped' /\ EditsTyped'
  BY <1>1 DEF CatalogInv, ToolsTyped, ServersTyped, EditsTyped
<1>3. VerdictsArePassed' /\ WritesArePassed' /\ ServersRestOnChecks'
  BY <1>1 DEF CatalogInv, VerdictsArePassed, WritesArePassed, ServersRestOnChecks
<1>4. AloneSeesRight' /\ Numbered'
  BY <1>1 DEF CatalogInv, AloneSeesRight, Numbered, NumberedServer
<1> QED BY <1>2, <1>3, <1>4 DEF CatalogInv

\* An edit that ends where it writes a server: by its own write.
LEMMA WritesEnd ==
  ASSUME CatalogInv, NEW e \in Editors, CatalogNext,
         edit[e].at = "write", edit'[e].at = "idle",
         edit[e].op \in {"create", "update", "switch", "delete"}
  PROVE  WriteServer(e) \/ DropServer(e)
<1>1. EditsTyped
  BY DEF CatalogInv
<1>2. PICK x \in Editors : EditBegins(x) \/ EditStep(x)
  BY DEF CatalogNext
<1>3. CASE EditBegins(x)
  <2>1. x # e
    BY <1>3 DEF EditBegins, At
  <2>2. ASSUME NEW row, Begin(x, row)
        PROVE  edit'[e].at = edit[e].at
    BY <1>1, <2>1, <2>2 DEF Begin, EditsTyped, EditRows
  <2>3. \E row : Begin(x, row)
    BY <1>3 DEF EditBegins, UpdateTool, ValidateTool, CreateServer, UpdateServer, SwitchServer,
                DeleteServer, EnterTool, RegisterServer, EnterServer, Seed
  <2> QED BY <2>2, <2>3
<1>4. CASE EditStep(x)
  <2>1. \E row : edit' = [edit EXCEPT ![x] = row]
    <3>1. ASSUME NEW place, Go(x, place)
          PROVE  \E row : edit' = [edit EXCEPT ![x] = row]
      BY <3>1 DEF Go
    <3>2. ASSUME Finish(x)
          PROVE  \E row : edit' = [edit EXCEPT ![x] = row]
      BY <3>2 DEF Finish
    <3>3. CASE FindTool(x) \/ ListToolVersions(x) \/ LatestTool(x) \/ VouchForTool(x)
      BY <3>3 DEF FindTool, ListToolVersions, LatestTool, VouchForTool
    <3>4. CASE WriteTool(x)
      BY <3>1, <3>2, <3>4 DEF WriteTool, AddToolVersion
    <3>5. CASE LoadServer(x) \/ FindServer(x) \/ FindSeeded(x) \/ ListServerVersions(x)
      BY <3>2, <3>5 DEF LoadServer, FindServer, FindSeeded, ListServerVersions
    <3>6. CASE CheckSlug(x)
      BY <3>1, <3>2, <3>6 DEF CheckSlug
    <3>7. CASE ReadTool(x)
      BY <3>7 DEF ReadTool
    <3>8. CASE ReadVerdict(x) \/ CreateEntity(x)
      BY <3>1, <3>2, <3>8 DEF ReadVerdict, CreateEntity
    <3>9. CASE JudgeTool(x) \/ WriteServer(x) \/ WriteEntry(x) \/ DropServer(x)
      BY <3>2, <3>9 DEF JudgeTool, WriteServer, WriteEntry, DropServer
    <3> QED BY <1>4, <3>3, <3>4, <3>5, <3>6, <3>7, <3>8, <3>9 DEF EditStep
  <2>2. x = e
    BY <1>1, <2>1 DEF EditsTyped
  <2>3. EditStep(e) /\ edit[e].at = "write"
    BY <1>4, <2>2
  <2>4. WriteTool(e) \/ WriteServer(e) \/ WriteEntry(e) \/ DropServer(e)
    BY <2>3, Zenon
       DEF EditStep, At, FindTool, ListToolVersions, LatestTool, VouchForTool, LoadServer,
           FindServer, FindSeeded, ListServerVersions, CheckSlug, ReadTool, ReadVerdict,
           CreateEntity, JudgeTool
  <2>5. ~WriteTool(e) /\ ~WriteEntry(e)
    BY DEF WriteTool, WriteEntry
  <2> QED BY <2>4, <2>5
<1> QED BY <1>2, <1>3, <1>4

\* A version of a steady server follows the one that was read, and an edit that no
\* other overlapped keeps slugs unique and changes only the switch if it switches.
LEMMA WritesAreSafe ==
  ASSUME CatalogInv, NEW e \in Editors, CatalogNext,
         edit[e].at = "write", edit'[e].at = "idle",
         edit[e].op \in {"create", "update", "switch", "delete"},
         NEW s, s = edit[e].server
  PROVE  /\ s \in steady /\ edit[e].op \in {"update", "switch"} /\ servers' # servers =>
              servers[s].current = edit[e].version
         /\ edit[e].alone /\ SlugsAreUnique => SlugsAreUnique'
         /\ edit[e].alone /\ edit[e].op = "switch" =>
              servers'[s].spec =
                IF NextVersion("switch", edit[e].version) \in servers[s].versions
                THEN servers[s].spec
                ELSE [servers[s].spec EXCEPT !.enabled = edit[e].spec.enabled]
<1>1. EditsTyped /\ AloneSeesRight /\ ServersTyped
  BY DEF CatalogInv
<1>2. edit[e].alone => SeesRight(servers, edit[e])
  BY <1>1 DEF AloneSeesRight
<1>3. CASE DropServer(e)
  <2>1. servers' = [servers EXCEPT ![s] = NoServer] /\ edit[e].op = "delete"
    BY <1>3 DEF DropServer
  <2>2. SlugsAreUnique => SlugsAreUnique'
    <3> SUFFICES ASSUME SlugsAreUnique, NEW x \in Servers, NEW o \in Servers, x # o,
                        servers'[x].spec # NoSpec
                 PROVE  servers'[x].spec.slug # servers'[o].spec.slug
      BY DEF SlugsAreUnique
    <3>1. servers'[x] = servers[x] /\ servers[x].spec # NoSpec
      BY <1>1, <2>1 DEF ServersTyped, NoServer
    <3>2. servers'[o] = servers[o] \/ servers'[o] = NoServer
      BY <1>1, <2>1 DEF ServersTyped
    <3>3. servers[x].spec.slug \in Slugs
      BY <1>1, <3>1 DEF ServersTyped, ServerRows, Specs
    <3>4. NoServer.spec.slug = ""
      BY DEF NoServer, NoSpec
    <3> QED BY <3>1, <3>2, <3>3, <3>4, ToolsAssumption DEF SlugsAreUnique
  <2> QED BY <2>1, <2>2
<1>4. CASE WriteServer(e)
  <2> DEFINE old == servers[s]
             version == NextVersion(edit[e].op, edit[e].version)
  <2>1. s \in Servers /\ edit[e].op \in Writing /\ edit[e].op # "delete"
    BY <1>4, WriteServerAdds DEF Writing
  <2>2. PICK seen \in Int, spec \in Specs :
          version \in Int \ {0} /\ spec = edit[e].spec
          /\ AddServerVersion(e, version, spec, seen)
    BY <1>4, <2>1, WriteServerAdds
  <2>3. /\ \A x \in Servers \ {s} : servers'[x] = servers[x]
        /\ \/ Addable(s, version) /\ servers'[s].spec = edit[e].spec
           \/ ~Addable(s, version) /\ servers' = servers
    BY <2>1, <2>2, AddServerVersionRows
  <2>4. ASSUME s \in steady, edit[e].op \in {"update", "switch"}, servers' # servers
        PROVE  servers[s].current = edit[e].version
    BY <1>4, <2>4, SteadyIsNumbered
  <2>5. ASSUME edit[e].alone, SlugsAreUnique
        PROVE  SlugsAreUnique'
    <3>1. CASE servers' = servers
      BY <2>5, <3>1 DEF SlugsAreUnique
    <3>2. CASE servers'[s].spec = edit[e].spec
      <4>1. \A x \in Servers \ {s} :
              servers[x].spec.slug = edit[e].spec.slug =>
                servers[s].spec.slug = edit[e].spec.slug
        BY <1>2, <2>1, <2>5 DEF SeesRight
      <4>2. edit[e].spec \in Specs
        BY <2>2
      <4>3. \A x \in Servers : servers[x].spec \in Specs \/ servers[x].spec = NoSpec
        BY <1>1 DEF ServersTyped, ServerRows
      <4>4. NoSpec.slug \notin Slugs
        BY ToolsAssumption DEF NoSpec
      <4>5. edit[e].spec.slug \in Slugs
        BY <4>2 DEF Specs
      <4>6. ASSUME NEW x \in Servers \ {s}
            PROVE  servers[x].spec.slug # edit[e].spec.slug
        <5>1. SUFFICES ASSUME servers[x].spec.slug = edit[e].spec.slug PROVE FALSE
          OBVIOUS
        <5>2. servers[s].spec.slug = edit[e].spec.slug /\ servers[x].spec # NoSpec
          BY <4>1, <4>4, <4>5, <5>1
        <5> QED BY <2>1, <2>5, <5>1, <5>2 DEF SlugsAreUnique
      <4> QED BY <2>1, <2>3, <2>5, <3>2, <4>6 DEF SlugsAreUnique
    <3> QED BY <2>3, <3>1, <3>2
  <2>6. ASSUME edit[e].alone, edit[e].op = "switch"
        PROVE  servers'[s].spec = IF NextVersion("switch", edit[e].version) \in old.versions
                                  THEN old.spec
                                  ELSE [old.spec EXCEPT !.enabled = edit[e].spec.enabled]
    <3>1. old.spec # NoSpec /\ edit[e].spec = [old.spec EXCEPT !.enabled = edit[e].spec.enabled]
      BY <1>2, <2>6 DEF SeesRight
    <3>2. old.exists
      BY <1>1, <2>1, <3>1 DEF ServersTyped, SoundServer, NoServer
    <3>3. CASE NextVersion("switch", edit[e].version) \in old.versions
      BY <2>3, <2>6, <3>3 DEF Addable
    <3>4. CASE NextVersion("switch", edit[e].version) \notin old.versions
      BY <2>3, <2>6, <3>1, <3>2, <3>4 DEF Addable
    <3> QED BY <3>3, <3>4
  <2> QED BY <2>4, <2>5, <2>6
<1> QED BY <1>3, <1>4, WritesEnd

-----------------------------------------------------------------------------
(* The calls                                                               *)

\* The answers of a tool that ran.
Finished == {"result", "warned"}

\* The rows of calls, requests, invocations, image workers and the sandbox.
CallRows == [at : {"idle", "resolved", "over"}, slug : Slugs \cup Blank,
             outcome : {"none", "result", "error", "failed"}]
PoolRows == [at : {"idle", "waiting", "over"}, try : 0..2, answer : Answers, lost : {0, 1}]
AnyInvocations ==
  [at : {"idle", "find", "tool", "providers", "run", "judge", "log", "over"},
   slug : Slugs \cup Blank, server : Servers \cup Blank, spec : AnySpecs, version : Int,
   answer : Answers]
InvocationRows == {row \in AnyInvocations : row.at = "tool" => row.spec.tool \in Tools}
ImageRows == [at : {"idle", "asked", "working", "over"}, left : Nat, warned : BOOLEAN]
SandboxRows == [queue : Seq(Attempts), files : SUBSET Attempts]

\* Their types, which the other parts rest on.
CallsTyped ==
  /\ scene \in [backend : Backends, origin : Origins, calls : SUBSET Calls, edits : Nat,
                faults : Nat]
  /\ call \in [Calls -> CallRows]
  /\ request \in [Calls -> PoolRows]
  /\ reply \in [Attempts -> Answers]
  /\ gateway \in [Attempts -> {"idle", "waiting", "over"}]
  /\ inv \in [Attempts -> InvocationRows]
  /\ log \in [Attempts -> {"none", "success", "failed", "unwritten"}]
  /\ sandbox \in SandboxRows
  /\ images \in [Attempts -> ImageRows]
  /\ ran \in SUBSET Attempts

\* The sandbox has the attempt in its queue.
Queued(a) == \E i \in 1..Len(sandbox.queue) : sandbox.queue[i] = a

\* A request is sent a second time only for a response that was lost.
RequestsCounted ==
  \A c \in Calls : /\ request[c].at = "idle" <=> request[c].try = 0
                   /\ request[c].try = 2 => request[c].lost = 1

\* An attempt that was not made is known to nobody, but for the one that is the
\* backend's own.
UnsentIsUnknown ==
  \A a \in Attempts : a[2] > request[a[1]].try =>
    /\ reply[a] = "none" /\ gateway[a] = "idle" /\ images[a].at = "idle" /\ ~Queued(a)
    /\ scene.origin = "agent" => inv[a].at = "idle"
    /\ a \in ran => scene.origin # "agent" /\ a[2] = 1

\* Which parts the calls of a scene reach.
PartsOfScene ==
  \A a \in Attempts :
    /\ inv[a].at # "idle" => OverGateway \/ (scene.origin # "agent" /\ a[2] = 1)
    /\ scene.origin # "agent" /\ call[a[1]].at = "idle" => inv[a].at = "idle"
    /\ gateway[a] # "idle" => OverGateway
    /\ images[a].at # "idle" => scene.backend = "images"
    /\ Queued(a) => scene.backend = "sandbox"

\* The attempt ran the tool, and what the backend knows of it was a success.
RanWell(a) ==
  /\ a \in ran
  /\ OverGateway => /\ inv[a].at = "over" /\ inv[a].answer \in Finished
                    /\ log[a] \in {"success", "unwritten"}

\* A reply with a result stands for a run,
RepliesFollowRuns == \A a \in Attempts : reply[a] \in Finished => RanWell(a)

\* and so does the answer a request ended with,
RequestsFollowRuns ==
  \A c \in Calls : request[c].at = "over" /\ request[c].answer \in Finished => RanWell(Latest(c))

\* and what an invocation judges;
InvocationsFollowRuns ==
  \A a \in Attempts : inv[a].at \in {"judge", "log", "over"} /\ inv[a].answer \in Finished =>
    IF Remote THEN request[a[1]].at = "over" /\ request[a[1]].answer \in Finished ELSE a \in ran

\* the log tells of the invocation that is over,
LogsFollowInvocations ==
  \A a \in Attempts :
    /\ log[a] # "none" => inv[a].at = "over"
    /\ log[a] = "success" => inv[a].answer \in Finished
    /\ inv[a].at = "over" /\ inv[a].answer \in Finished /\ scene.origin # "execute" =>
         log[a] \in {"success", "unwritten"}

\* and a caller is given what its request or invocation was answered.
OutcomesFollowAnswers ==
  \A c \in Calls : call[c].outcome = "result" =>
    /\ call[c].at = "over"
    /\ IF scene.origin = "agent"
       THEN request[c].at = "over" /\ request[c].answer \in Finished
       ELSE inv[<<c, 1>>].at = "over" /\ inv[<<c, 1>>].answer \in Finished

\* The sandbox keeps the file of the code that runs, and those of attempts whose
\* connection ended without a response.
FilesAreRunning ==
  /\ sandbox.files # {} => scene.backend = "sandbox"
  /\ \A a \in sandbox.files : (sandbox.queue # <<>> /\ a = Running) \/ reply[a] = "lost"

\* The invariant of the calls.
CallsInv ==
  /\ CallsTyped /\ RequestsCounted /\ UnsentIsUnknown /\ PartsOfScene
  /\ RepliesFollowRuns /\ RequestsFollowRuns /\ InvocationsFollowRuns
  /\ LogsFollowInvocations /\ OutcomesFollowAnswers /\ FilesAreRunning

\* The attempts of a call are its first and its second.
LEMMA AttemptsOfCalls ==
  /\ \A a \in Attempts : a[1] \in Calls /\ a[2] \in {1, 2} /\ a = <<a[1], a[2]>>
  /\ \A c \in Calls : \A i \in {1, 2} :
       <<c, i>> \in Attempts /\ <<c, i>>[1] = c /\ <<c, i>>[2] = i
BY DEF Attempts

\* Nothing was begun.
LEMMA CallsInvInit == CallsInit => CallsInv
<1> SUFFICES ASSUME CallsInit PROVE CallsInv
  OBVIOUS
<1>1. CallsTyped
  <2>1. scene \in [backend : Backends, origin : Origins, calls : SUBSET Calls, edits : Nat,
                   faults : Nat]
    BY ScenesAssumption DEF CallsInit
  <2>2. /\ call \in [Calls -> CallRows] /\ request \in [Calls -> PoolRows]
        /\ reply \in [Attempts -> Answers]
        /\ gateway \in [Attempts -> {"idle", "waiting", "over"}]
        /\ log \in [Attempts -> {"none", "success", "failed", "unwritten"}]
        /\ ran \in SUBSET Attempts
    <3>1. call \in [Calls -> CallRows]
      BY DEF CallsInit, CallRows, Blank
    <3>2. request \in [Calls -> PoolRows]
      <4>1. [at |-> "idle", try |-> 0, answer |-> "none", lost |-> 0] \in PoolRows
        BY DEF PoolRows, Answers
      <4> QED BY <4>1 DEF CallsInit
    <3>3. reply \in [Attempts -> Answers]
      BY DEF CallsInit, Answers
    <3> QED BY <3>1, <3>2, <3>3 DEF CallsInit
  <2>3. NoInvocation \in InvocationRows
    <3>1. NoInvocation \in AnyInvocations
      BY SpecsAreNamed DEF NoInvocation, AnyInvocations, Answers, Blank
    <3>2. NoInvocation.at # "tool"
      BY DEF NoInvocation
    <3> QED BY <3>1, <3>2 DEF InvocationRows
  <2>4. NoImages \in ImageRows
    BY DEF NoImages, ImageRows
  <2>5. sandbox \in SandboxRows
    <3>1. <<>> \in Seq(Attempts)
      OBVIOUS
    <3> QED BY <3>1 DEF CallsInit, SandboxRows
  <2> QED BY <2>1, <2>2, <2>3, <2>4, <2>5 DEF CallsTyped, CallsInit
<1>2. \A a \in Attempts : /\ inv[a].at = "idle" /\ images[a].at = "idle" /\ ~Queued(a)
                          /\ reply[a] = "none" /\ gateway[a] = "idle" /\ log[a] = "none"
  <2>1. Len(sandbox.queue) = 0
    BY DEF CallsInit
  <2>2. \A a \in Attempts : ~Queued(a)
    BY <2>1 DEF Queued
  <2> QED BY <2>2 DEF CallsInit, NoInvocation, NoImages
<1>3. \A c \in Calls : request[c].at = "idle" /\ request[c].try = 0 /\ call[c].outcome = "none"
  BY DEF CallsInit
<1>4. ran = {} /\ sandbox.files = {}
  BY DEF CallsInit
<1>5. RequestsCounted
  BY <1>3 DEF RequestsCounted
<1>6. UnsentIsUnknown
  BY <1>2, <1>4 DEF UnsentIsUnknown
<1>7. PartsOfScene
  BY <1>2 DEF PartsOfScene
<1>8. RepliesFollowRuns /\ InvocationsFollowRuns /\ LogsFollowInvocations
  BY <1>2 DEF RepliesFollowRuns, InvocationsFollowRuns, LogsFollowInvocations, Finished
<1>9. RequestsFollowRuns /\ OutcomesFollowAnswers /\ FilesAreRunning
  BY <1>3, <1>4 DEF RequestsFollowRuns, OutcomesFollowAnswers, FilesAreRunning
<1> QED BY <1>1, <1>5, <1>6, <1>7, <1>8, <1>9 DEF CallsInv

\* What the calls know, together.
callsKnow == <<scene, call, request, reply, gateway, inv, log, sandbox, images, ran>>

\* It is about nothing else.
LEMMA CallsInvStutter == CallsInv /\ UNCHANGED callsKnow => CallsInv'
BY DEF CallsInv, callsKnow, CallsTyped, RequestsCounted, UnsentIsUnknown, PartsOfScene, Queued,
       RepliesFollowRuns, RequestsFollowRuns, InvocationsFollowRuns, LogsFollowInvocations,
       OutcomesFollowAnswers, FilesAreRunning, RanWell, Remote, OverGateway, Latest, Running

-----------------------------------------------------------------------------
(* Requests over the pool                                                  *)

\* A request that is sent, first or again.
Sends(c) ==
  /\ request[c].at # "over"
  /\ \E row \in PoolRows :
       /\ row.at = "waiting" /\ row.try = request[c].try + 1 /\ (row.try = 2 => row.lost = 1)
       /\ request' = [request EXCEPT ![c] = row]
  /\ Serve(<<c, request[c].try + 1>>) \/ UNCHANGED <<gateway, inv, sandbox, images>>
  /\ UNCHANGED <<scene, call, reply, log, ran>>

\* What the other end gets is typed, and about the attempt alone.
LEMMA ServeIsAboutAttempt ==
  ASSUME CallsTyped, ServersTyped, NEW a \in Attempts, UNCHANGED <<scene, call>>,
         Serve(a) \/ UNCHANGED <<gateway, inv, sandbox, images>>
  PROVE  /\ gateway' \in [Attempts -> {"idle", "waiting", "over"}]
         /\ inv' \in [Attempts -> InvocationRows]
         /\ sandbox' \in SandboxRows
         /\ images' \in [Attempts -> ImageRows]
         /\ \A o \in Attempts \ {a} : /\ gateway'[o] = gateway[o] /\ inv'[o] = inv[o]
                                      /\ images'[o] = images[o]
         /\ \A o \in Attempts \ {a} : Queued(o)' => Queued(o)
         /\ ~OverGateway => inv' = inv /\ gateway' = gateway
         /\ inv'[a] = inv[a] \/ inv'[a].at = "find"
         /\ scene.backend # "images" => images' = images
         /\ scene.backend # "sandbox" => sandbox' = sandbox
         /\ sandbox'.files = sandbox.files
         /\ sandbox.queue # <<>> => sandbox'.queue # <<>> /\ Head(sandbox'.queue) = Running
<1>1. CASE UNCHANGED <<gateway, inv, sandbox, images>>
  BY <1>1 DEF CallsTyped, Queued, Running
<1>2. CASE Serve(a)
  <2> DEFINE slug == call[a[1]].slug
  <2>1. slug \in Slugs \cup Blank
    BY AttemptsOfCalls DEF CallsTyped, CallRows
  <2>2. /\ inv' \in [Attempts -> InvocationRows]
        /\ \A o \in Attempts \ {a} : inv'[o] = inv[o]
        /\ ~OverGateway => inv' = inv
        /\ inv'[a] = inv[a] \/ inv'[a].at = "find"
    <3> DEFINE row == [inv[a] EXCEPT !.at = "find", !.slug = slug]
    <3>1. inv' = [inv EXCEPT ![a] = row] \/ inv' = inv
      BY <1>2 DEF Serve, CallsTyped
    <3>2. ~OverGateway => inv' = inv
      BY <1>2 DEF Serve
    <3>3. row \in InvocationRows /\ row.at = "find"
      BY <2>1 DEF CallsTyped, InvocationRows, AnyInvocations
    <3> HIDE DEF row
    <3> QED BY <3>1, <3>2, <3>3 DEF CallsTyped
  <2>3. /\ gateway' \in [Attempts -> {"idle", "waiting", "over"}]
        /\ \A o \in Attempts \ {a} : gateway'[o] = gateway[o]
        /\ ~OverGateway => gateway' = gateway
    BY <1>2 DEF Serve, CallsTyped
  <2>4. /\ images' \in [Attempts -> ImageRows]
        /\ \A o \in Attempts \ {a} : images'[o] = images[o]
        /\ scene.backend # "images" => images' = images
    <3> DEFINE row == [images[a] EXCEPT !.at = "asked"]
    <3>1. images' = [images EXCEPT ![a] = row] \/ images' = images
      BY <1>2 DEF Serve, CallsTyped
    <3>2. scene.backend # "images" => images' = images
      BY <1>2 DEF Serve
    <3>3. row \in ImageRows
      BY DEF CallsTyped, ImageRows
    <3> HIDE DEF row
    <3> QED BY <3>1, <3>2, <3>3 DEF CallsTyped
  <2>5. /\ sandbox' \in SandboxRows
        /\ \A o \in Attempts \ {a} : Queued(o)' => Queued(o)
        /\ scene.backend # "sandbox" => sandbox' = sandbox
        /\ sandbox'.files = sandbox.files
        /\ sandbox.queue # <<>> => sandbox'.queue # <<>> /\ Head(sandbox'.queue) = Running
    <3>1. CASE sandbox' = sandbox
      BY <3>1 DEF CallsTyped, Queued, Running
    <3>2. CASE scene.backend = "sandbox"
      <4> DEFINE q == sandbox.queue
                 longer == Append(q, a)
      <4>1. q \in Seq(Attempts)
        BY DEF CallsTyped, SandboxRows
      <4>2. /\ longer \in Seq(Attempts) /\ Len(longer) = Len(q) + 1 /\ Len(q) \in Nat
            /\ longer[Len(q) + 1] = a
            /\ \A i \in 1..Len(q) : longer[i] = q[i]
        BY <4>1
      <4>3. q # <<>> => longer # <<>> /\ Head(longer) = Head(q)
        BY <4>1
      <4>4. sandbox' = [sandbox EXCEPT !.queue = longer]
        BY <1>2, <3>2 DEF Serve
      <4>5. sandbox'.queue = longer
        BY <4>4 DEF CallsTyped, SandboxRows
      <4>6. sandbox' \in SandboxRows /\ sandbox'.files = sandbox.files
        BY <4>2, <4>4 DEF CallsTyped, SandboxRows
      <4> HIDE DEF longer
      <4>7. ASSUME NEW o \in Attempts \ {a}, Queued(o)'
            PROVE  Queued(o)
        <5>1. PICK i \in 1..Len(longer) : longer[i] = o
          BY <4>5, <4>7 DEF Queued
        <5>2. i \in 1..Len(q)
          BY <4>2, <5>1
        <5> QED BY <4>2, <5>1, <5>2 DEF Queued
      <4> QED BY <3>2, <4>3, <4>5, <4>6, <4>7 DEF Running
    <3> QED BY <1>2, <3>1, <3>2 DEF Serve
  <2> QED BY <2>2, <2>3, <2>4, <2>5
<1> QED BY <1>1, <1>2

\* Sending a request keeps the invariant of the calls.
LEMMA SendsKeepsCalls ==
  ASSUME CallsInv, ServersTyped, NEW c \in Calls, Sends(c)
  PROVE  CallsInv'
<1>1. /\ CallsTyped /\ RequestsCounted /\ UnsentIsUnknown /\ PartsOfScene
      /\ RepliesFollowRuns /\ RequestsFollowRuns /\ InvocationsFollowRuns
      /\ LogsFollowInvocations /\ OutcomesFollowAnswers /\ FilesAreRunning
  BY DEF CallsInv
<1> DEFINE try == request[c].try
           a == <<c, try + 1>>
<1>2. PICK row \in PoolRows : /\ row.at = "waiting" /\ row.try = try + 1
                              /\ row.try = 2 => row.lost = 1
                              /\ request' = [request EXCEPT ![c] = row]
  BY DEF Sends
<1>3. try \in {0, 1} /\ request[c].at # "over"
  <2>1. row.try \in 0..2 /\ try \in 0..2
    BY <1>1, <1>2 DEF CallsTyped, PoolRows
  <2> QED BY <1>2, <2>1 DEF Sends
<1>4. a \in Attempts /\ a[1] = c /\ a[2] = try + 1
  <2>1. try + 1 \in {1, 2}
    BY <1>3
  <2> HIDE DEF try
  <2> QED BY <2>1, AttemptsOfCalls
<1>5. UNCHANGED <<scene, call, reply, log, ran>>
  BY DEF Sends
<1>6. UNCHANGED <<Remote, OverGateway>>
  BY <1>5 DEF Remote, OverGateway
<1>7. Serve(a) \/ UNCHANGED <<gateway, inv, sandbox, images>>
  BY DEF Sends
<1> HIDE DEF a
<1>8. /\ gateway' \in [Attempts -> {"idle", "waiting", "over"}]
      /\ inv' \in [Attempts -> InvocationRows]
      /\ sandbox' \in SandboxRows
      /\ images' \in [Attempts -> ImageRows]
      /\ \A o \in Attempts \ {a} : /\ gateway'[o] = gateway[o] /\ inv'[o] = inv[o]
                                   /\ images'[o] = images[o]
      /\ \A o \in Attempts \ {a} : Queued(o)' => Queued(o)
      /\ ~OverGateway => inv' = inv /\ gateway' = gateway
      /\ inv'[a] = inv[a] \/ inv'[a].at = "find"
      /\ scene.backend # "images" => images' = images
      /\ scene.backend # "sandbox" => sandbox' = sandbox
      /\ sandbox'.files = sandbox.files
      /\ sandbox.queue # <<>> => sandbox'.queue # <<>> /\ Head(sandbox'.queue) = Running
  BY <1>1, <1>4, <1>5, <1>7, ServeIsAboutAttempt
<1>22. \A o \in Attempts \ {a} : Queued(o)' => Queued(o)
  BY <1>8
<1>9. CallsTyped'
  BY <1>1, <1>2, <1>5, <1>8 DEF CallsTyped
<1>10. /\ request'[c] = row
       /\ \A o \in Calls \ {c} : request'[o] = request[o]
  BY <1>1, <1>2 DEF CallsTyped
<1>11. RequestsCounted'
  BY <1>1, <1>2, <1>3, <1>10 DEF RequestsCounted
<1>12. /\ reply[a] = "none" /\ gateway[a] = "idle" /\ images[a].at = "idle" /\ ~Queued(a)
       /\ scene.origin = "agent" => inv[a].at = "idle"
  BY <1>1, <1>3, <1>4 DEF UnsentIsUnknown
<1>13. UnsentIsUnknown'
  <2> SUFFICES ASSUME NEW o \in Attempts, o[2] > request'[o[1]].try
               PROVE  /\ reply'[o] = "none" /\ gateway'[o] = "idle" /\ images'[o].at = "idle"
                      /\ ~Queued(o)'
                      /\ scene'.origin = "agent" => inv'[o].at = "idle"
                      /\ o \in ran' => scene'.origin # "agent" /\ o[2] = 1
    BY DEF UnsentIsUnknown
  <2>1. o # a /\ o[2] > request[o[1]].try
    <3>1. o[1] \in Calls /\ o[2] \in {1, 2}
      BY AttemptsOfCalls
    <3>2. CASE o[1] = c
      BY <1>2, <1>3, <1>4, <1>10, <3>1, <3>2
    <3>3. CASE o[1] # c
      BY <1>4, <1>10, <3>1, <3>3
    <3> QED BY <3>2, <3>3
  <2>2. /\ reply[o] = "none" /\ gateway[o] = "idle" /\ images[o].at = "idle" /\ ~Queued(o)
        /\ scene.origin = "agent" => inv[o].at = "idle"
        /\ o \in ran => scene.origin # "agent" /\ o[2] = 1
    BY <1>1, <2>1 DEF UnsentIsUnknown
  <2>3. /\ gateway'[o] = gateway[o] /\ inv'[o] = inv[o]
        /\ images'[o] = images[o] /\ (Queued(o)' => Queued(o))
    <3>1. o \in Attempts \ {a}
      BY <2>1
    <3>2. gateway'[o] = gateway[o] /\ inv'[o] = inv[o] /\ images'[o] = images[o]
      BY <1>8, <3>1
    <3>3. Queued(o)' => Queued(o)
      BY <1>22, <3>1
    <3> QED BY <3>2, <3>3
  <2> QED BY <1>5, <2>2, <2>3
<1>14. PartsOfScene'
  <2> SUFFICES ASSUME NEW o \in Attempts
               PROVE  /\ inv'[o].at # "idle" => OverGateway \/ (scene.origin # "agent" /\ o[2] = 1)
                      /\ scene.origin # "agent" /\ call[o[1]].at = "idle" => inv'[o].at = "idle"
                      /\ gateway'[o] # "idle" => OverGateway
                      /\ images'[o].at # "idle" => scene.backend = "images"
                      /\ Queued(o)' => scene.backend = "sandbox"
    BY <1>5, <1>6 DEF PartsOfScene
  <2>1. Queued(o)' => scene.backend = "sandbox"
    BY <1>1, <1>8, <1>22 DEF PartsOfScene, Queued
  <2>2. scene.origin # "agent" => ~OverGateway
    BY DEF OverGateway
  <2> QED BY <1>1, <1>8, <2>1, <2>2 DEF PartsOfScene
<1>15. \A o \in Attempts \ {a} : RanWell(o) => RanWell(o)'
  BY <1>5, <1>6, <1>8 DEF RanWell
<1>16. RepliesFollowRuns'
  BY <1>1, <1>5, <1>12, <1>15 DEF RepliesFollowRuns, Finished
<1>17. RequestsFollowRuns'
  <2> SUFFICES ASSUME NEW o \in Calls, request'[o].at = "over", request'[o].answer \in Finished
               PROVE  RanWell(Latest(o))'
    BY DEF RequestsFollowRuns
  <2>1. o # c /\ request'[o] = request[o]
    BY <1>2, <1>10
  <2>2. RanWell(Latest(o)) /\ Latest(o)' = Latest(o)
    BY <1>1, <2>1 DEF RequestsFollowRuns, Latest
  <2>3. request[o].try \in {1, 2}
    <3>1. request[o].try \in 0..2
      BY <1>1 DEF CallsTyped, PoolRows
    <3> QED BY <1>1, <2>1, <3>1 DEF RequestsCounted
  <2>4. Latest(o) \in Attempts /\ Latest(o)[1] = o
    BY <2>3, AttemptsOfCalls DEF Latest
  <2>5. PICK b \in Attempts : b = Latest(o)
    BY <2>4
  <2>6. RanWell(b)'
    BY <1>4, <1>15, <2>1, <2>2, <2>4, <2>5
  <2> QED BY <2>2, <2>5, <2>6 DEF RanWell
<1>18. InvocationsFollowRuns'
  <2> SUFFICES ASSUME NEW o \in Attempts, inv'[o].at \in {"judge", "log", "over"},
                      inv'[o].answer \in Finished
               PROVE  IF Remote THEN request'[o[1]].at = "over" /\ request'[o[1]].answer \in Finished
                                ELSE o \in ran
    BY <1>5, <1>6 DEF InvocationsFollowRuns
  <2>1. inv'[o] = inv[o]
    BY <1>8
  <2>2. o[1] \in Calls
    BY AttemptsOfCalls
  <2> QED BY <1>1, <1>3, <1>10, <2>1, <2>2 DEF InvocationsFollowRuns
<1>19. LogsFollowInvocations'
  <2> SUFFICES ASSUME NEW o \in Attempts
               PROVE  /\ log[o] # "none" => inv'[o].at = "over"
                      /\ log[o] = "success" => inv'[o].answer \in Finished
                      /\ inv'[o].at = "over" /\ inv'[o].answer \in Finished
                           /\ scene.origin # "execute" => log[o] \in {"success", "unwritten"}
    BY <1>5 DEF LogsFollowInvocations
  <2>1. CASE inv'[o] = inv[o]
    BY <1>1, <2>1 DEF LogsFollowInvocations
  <2>2. CASE inv'[o] # inv[o]
    <3>1. o = a /\ inv'[a].at = "find" /\ OverGateway
      BY <1>8, <2>2
    <3>2. inv[a].at = "idle"
      BY <1>12, <3>1 DEF OverGateway
    <3>3. log[a] = "none"
      BY <1>1, <1>4, <3>2 DEF LogsFollowInvocations
    <3> QED BY <3>1, <3>3
  <2> QED BY <2>1, <2>2
<1>20. OutcomesFollowAnswers'
  <2> SUFFICES ASSUME NEW o \in Calls, call[o].outcome = "result"
               PROVE  /\ call[o].at = "over"
                      /\ IF scene.origin = "agent"
                         THEN request'[o].at = "over" /\ request'[o].answer \in Finished
                         ELSE inv'[<<o, 1>>].at = "over" /\ inv'[<<o, 1>>].answer \in Finished
    BY <1>5 DEF OutcomesFollowAnswers
  <2>1. CASE scene.origin = "agent"
    BY <1>1, <1>3, <1>10, <2>1 DEF OutcomesFollowAnswers
  <2>2. CASE scene.origin # "agent"
    BY <1>1, <1>8, <2>2 DEF OutcomesFollowAnswers, OverGateway
  <2> QED BY <2>1, <2>2
<1>21. FilesAreRunning'
  BY <1>1, <1>5, <1>8 DEF FilesAreRunning, Running
<1> QED
  BY <1>9, <1>11, <1>13, <1>14, <1>16, <1>17, <1>18, <1>19, <1>20, <1>21 DEF CallsInv

\* A request that ends: with the response of the attempt that is waited for, or
\* with none.
RequestEnds(c) ==
  /\ Waiting(c)
  /\ \E answer \in Answers :
       /\ answer \in Finished => answer = reply[Latest(c)]
       /\ request' = [request EXCEPT ![c].at = "over", ![c].answer = answer]
  /\ UNCHANGED <<scene, call, reply, gateway, inv, log, sandbox, images, ran>>

\* So does the end of a request,
LEMMA RequestEndsKeepsCalls ==
  ASSUME CallsInv, NEW c \in Calls, RequestEnds(c)
  PROVE  CallsInv'
<1>1. /\ CallsTyped /\ RequestsCounted /\ UnsentIsUnknown /\ PartsOfScene
      /\ RepliesFollowRuns /\ RequestsFollowRuns /\ InvocationsFollowRuns
      /\ LogsFollowInvocations /\ OutcomesFollowAnswers /\ FilesAreRunning
  BY DEF CallsInv
<1>2. PICK answer \in Answers :
        /\ answer \in Finished => answer = reply[Latest(c)]
        /\ request' = [request EXCEPT ![c].at = "over", ![c].answer = answer]
  BY DEF RequestEnds
<1>3. request[c].at = "waiting" /\ request[c] \in PoolRows
  BY <1>1 DEF RequestEnds, Waiting, CallsTyped
<1>4. UNCHANGED <<scene, call, reply, gateway, inv, log, sandbox, images, ran>>
  BY DEF RequestEnds
<1> DEFINE row == [request[c] EXCEPT !.at = "over", !.answer = answer]
<1>5. /\ row \in PoolRows /\ row.at = "over" /\ row.answer = answer
      /\ row.try = request[c].try /\ row.lost = request[c].lost
  BY <1>3 DEF PoolRows
<1>6. request' = [request EXCEPT ![c] = row]
  BY <1>1, <1>2 DEF CallsTyped
<1> HIDE DEF row
<1>7. /\ request'[c] = row
      /\ \A o \in Calls \ {c} : request'[o] = request[o]
  BY <1>1, <1>6 DEF CallsTyped
<1>8. CallsTyped'
  BY <1>1, <1>4, <1>5, <1>6 DEF CallsTyped
<1>9. \A o \in Calls : request'[o].try = request[o].try /\ request'[o].lost = request[o].lost
  BY <1>5, <1>7
<1>10. RequestsCounted'
  BY <1>1, <1>3, <1>5, <1>7 DEF RequestsCounted
<1>11. UnsentIsUnknown'
  BY <1>1, <1>4, <1>9, AttemptsOfCalls DEF UnsentIsUnknown, Queued
<1>12. PartsOfScene' /\ RepliesFollowRuns' /\ LogsFollowInvocations' /\ FilesAreRunning'
  BY <1>1, <1>4 DEF PartsOfScene, RepliesFollowRuns, LogsFollowInvocations, FilesAreRunning,
     Queued, RanWell, Remote, OverGateway, Running
<1>13. RequestsFollowRuns'
  <2> SUFFICES ASSUME NEW o \in Calls, request'[o].at = "over", request'[o].answer \in Finished
               PROVE  RanWell(Latest(o))'
    BY DEF RequestsFollowRuns
  <2>1. Latest(o)' = Latest(o)
    BY <1>9 DEF Latest
  <2>2. RanWell(Latest(o))
    <3>1. CASE o = c
      <4>1. reply[Latest(c)] \in Finished
        BY <1>2, <1>5, <1>7, <3>1
      <4>2. request[c].try \in {1, 2}
        BY <1>1, <1>3 DEF RequestsCounted, PoolRows
      <4>3. Latest(c) \in Attempts
        BY <4>2, AttemptsOfCalls DEF Latest
      <4> QED BY <1>1, <3>1, <4>1, <4>3 DEF RepliesFollowRuns
    <3>2. CASE o # c
      BY <1>1, <1>7, <3>2 DEF RequestsFollowRuns
    <3> QED BY <3>1, <3>2
  <2> QED BY <1>4, <2>1, <2>2 DEF RanWell, Remote, OverGateway
<1>14. InvocationsFollowRuns'
  <2> SUFFICES ASSUME NEW o \in Attempts, inv[o].at \in {"judge", "log", "over"},
                      inv[o].answer \in Finished
               PROVE  IF Remote THEN request'[o[1]].at = "over" /\ request'[o[1]].answer \in Finished
                                ELSE o \in ran
    BY <1>4 DEF InvocationsFollowRuns, Remote
  <2>1. o[1] \in Calls
    BY AttemptsOfCalls
  <2> QED BY <1>1, <1>3, <1>7, <2>1 DEF InvocationsFollowRuns
<1>15. OutcomesFollowAnswers'
  BY <1>1, <1>3, <1>4, <1>7 DEF OutcomesFollowAnswers
<1> QED BY <1>1, <1>8, <1>10, <1>11, <1>12, <1>13, <1>14, <1>15 DEF CallsInv

-----------------------------------------------------------------------------
(* Calls and invocations                                                   *)

\* A call moves on, or ends with what it was answered.
CallMoves(c) ==
  /\ call[c].at # "over"
  /\ \E row \in CallRows :
       /\ row.at # "idle" /\ call' = [call EXCEPT ![c] = row]
       /\ row.outcome = "result" =>
            /\ row.at = "over"
            /\ IF scene.origin = "agent"
               THEN request[c].at = "over" /\ request[c].answer \in Finished
               ELSE inv[<<c, 1>>].at = "over" /\ inv[<<c, 1>>].answer \in Finished
  /\ UNCHANGED <<scene, request, reply, gateway, inv, log, sandbox, images, ran>>

\* a step of the call that waits for it,
LEMMA CallMovesKeepsCalls ==
  ASSUME CallsInv, NEW c \in Calls, CallMoves(c)
  PROVE  CallsInv'
<1>1. /\ CallsTyped /\ RequestsCounted /\ UnsentIsUnknown /\ PartsOfScene
      /\ RepliesFollowRuns /\ RequestsFollowRuns /\ InvocationsFollowRuns
      /\ LogsFollowInvocations /\ OutcomesFollowAnswers /\ FilesAreRunning
  BY DEF CallsInv
<1>2. PICK row \in CallRows :
        /\ row.at # "idle" /\ call' = [call EXCEPT ![c] = row]
        /\ row.outcome = "result" =>
             /\ row.at = "over"
             /\ IF scene.origin = "agent"
                THEN request[c].at = "over" /\ request[c].answer \in Finished
                ELSE inv[<<c, 1>>].at = "over" /\ inv[<<c, 1>>].answer \in Finished
  BY DEF CallMoves
<1>3. UNCHANGED <<scene, request, reply, gateway, inv, log, sandbox, images, ran>>
  BY DEF CallMoves
<1>4. call'[c] = row /\ \A o \in Calls \ {c} : call'[o] = call[o]
  BY <1>1, <1>2 DEF CallsTyped
<1>5. CallsTyped'
  BY <1>1, <1>2, <1>3 DEF CallsTyped
<1>6. PartsOfScene'
  BY <1>1, <1>2, <1>3, <1>4, AttemptsOfCalls DEF PartsOfScene, Queued, Remote, OverGateway
<1>7. OutcomesFollowAnswers'
  BY <1>1, <1>2, <1>3, <1>4 DEF OutcomesFollowAnswers
<1>8. RequestsCounted' /\ UnsentIsUnknown' /\ FilesAreRunning'
  BY <1>1, <1>3 DEF RequestsCounted, UnsentIsUnknown, Queued, FilesAreRunning, Running
<1>9. RepliesFollowRuns' /\ RequestsFollowRuns' /\ InvocationsFollowRuns' /\ LogsFollowInvocations'
  BY <1>1, <1>3 DEF RepliesFollowRuns, RequestsFollowRuns, InvocationsFollowRuns,
     LogsFollowInvocations, RanWell, Latest, Remote, OverGateway
<1> QED BY <1>5, <1>6, <1>7, <1>8, <1>9 DEF CallsInv

\* The backend is asked by a superadmin: its invocation begins.
InvocationBegins(c) ==
  /\ scene.origin # "agent" /\ call[c].at = "idle"
  /\ \E row \in CallRows : /\ row.at = "resolved" /\ row.outcome = call[c].outcome
                           /\ call' = [call EXCEPT ![c] = row]
  /\ \E row \in InvocationRows : /\ row.at \in {"find", "tool"}
                                 /\ inv' = [inv EXCEPT ![<<c, 1>>] = row]
  /\ UNCHANGED <<scene, request, reply, gateway, log, sandbox, images, ran>>

\* the begin of an invocation,
LEMMA InvocationBeginsKeepsCalls ==
  ASSUME CallsInv, NEW c \in Calls, InvocationBegins(c)
  PROVE  CallsInv'
<1>1. /\ CallsTyped /\ RequestsCounted /\ UnsentIsUnknown /\ PartsOfScene
      /\ RepliesFollowRuns /\ RequestsFollowRuns /\ InvocationsFollowRuns
      /\ LogsFollowInvocations /\ OutcomesFollowAnswers /\ FilesAreRunning
  BY DEF CallsInv
<1> DEFINE a == <<c, 1>>
<1>2. PICK row \in CallRows : /\ row.at = "resolved" /\ row.outcome = call[c].outcome
                              /\ call' = [call EXCEPT ![c] = row]
  BY DEF InvocationBegins
<1>3. PICK new \in InvocationRows : /\ new.at \in {"find", "tool"}
                                    /\ inv' = [inv EXCEPT ![a] = new]
  BY DEF InvocationBegins
<1>4. /\ UNCHANGED <<scene, request, reply, gateway, log, sandbox, images, ran>>
      /\ scene.origin # "agent" /\ call[c].at = "idle"
  BY DEF InvocationBegins
<1>5. a \in Attempts /\ a[1] = c /\ a[2] = 1
  BY AttemptsOfCalls
<1>6. call'[c] = row /\ \A o \in Calls \ {c} : call'[o] = call[o]
  BY <1>1, <1>2 DEF CallsTyped
<1>7. \A o \in Calls \ {c} : inv'[<<o, 1>>] = inv[<<o, 1>>]
  BY <1>1, <1>3, AttemptsOfCalls DEF CallsTyped
<1>8. inv[a].at = "idle"
  BY <1>1, <1>4, <1>5 DEF PartsOfScene
<1> HIDE DEF a
<1>9. inv'[a] = new /\ \A o \in Attempts \ {a} : inv'[o] = inv[o]
  BY <1>1, <1>3, <1>5 DEF CallsTyped
<1>10. CallsTyped'
  BY <1>1, <1>2, <1>3, <1>4 DEF CallsTyped
<1>11. ~OverGateway /\ UNCHANGED <<Remote, OverGateway>>
  BY <1>4 DEF OverGateway, Remote
<1>12. UnsentIsUnknown'
  BY <1>1, <1>4 DEF UnsentIsUnknown, Queued
<1>13. PartsOfScene'
  <2> SUFFICES ASSUME NEW o \in Attempts
               PROVE  /\ inv'[o].at # "idle" => OverGateway \/ (scene.origin # "agent" /\ o[2] = 1)
                      /\ scene.origin # "agent" /\ call'[o[1]].at = "idle" => inv'[o].at = "idle"
                      /\ gateway[o] # "idle" => OverGateway
                      /\ images[o].at # "idle" => scene.backend = "images"
                      /\ Queued(o) => scene.backend = "sandbox"
    BY <1>4, <1>11 DEF PartsOfScene, Queued
  <2>1. o[1] \in Calls
    BY AttemptsOfCalls
  <2>2. CASE o = a
    BY <1>1, <1>2, <1>4, <1>5, <1>6, <2>2 DEF PartsOfScene
  <2>3. CASE o # a
    BY <1>1, <1>2, <1>6, <1>9, <2>1, <2>3 DEF PartsOfScene
  <2> QED BY <2>2, <2>3
<1>14. RepliesFollowRuns' /\ RequestsFollowRuns'
  BY <1>1, <1>4, <1>11 DEF RepliesFollowRuns, RequestsFollowRuns, RanWell, Latest
<1>15. InvocationsFollowRuns'
  BY <1>1, <1>3, <1>4, <1>9, <1>11 DEF InvocationsFollowRuns
<1>16. LogsFollowInvocations'
  BY <1>1, <1>3, <1>4, <1>5, <1>8, <1>9 DEF LogsFollowInvocations
<1>17. OutcomesFollowAnswers'
  BY <1>1, <1>2, <1>4, <1>6, <1>7 DEF OutcomesFollowAnswers
<1>18. RequestsCounted' /\ FilesAreRunning'
  BY <1>1, <1>4 DEF RequestsCounted, FilesAreRunning, Running
<1> QED
  BY <1>10, <1>12, <1>13, <1>14, <1>15, <1>16, <1>17, <1>18 DEF CallsInv

\* An invocation goes on towards its log; with a result, after its run.
InvocationMoves(a) ==
  /\ inv[a].at \notin {"idle", "log", "over"}
  /\ \E row \in InvocationRows :
       /\ row.at # "idle" /\ inv' = [inv EXCEPT ![a] = row]
       /\ row.at \in {"judge", "log", "over"} /\ row.answer \in Finished =>
            /\ row.at # "over"
            /\ IF Remote
               THEN request[a[1]].at = "over" /\ request[a[1]].answer \in Finished
               ELSE a \in ran'
  /\ ran' \in {ran, ran \cup {a}}
  /\ UNCHANGED <<scene, call, request, reply, gateway, log, sandbox, images>>

\* each later step of it,
LEMMA InvocationMovesKeepsCalls ==
  ASSUME CallsInv, NEW a \in Attempts, InvocationMoves(a)
  PROVE  CallsInv'
<1>1. /\ CallsTyped /\ RequestsCounted /\ UnsentIsUnknown /\ PartsOfScene
      /\ RepliesFollowRuns /\ RequestsFollowRuns /\ InvocationsFollowRuns
      /\ LogsFollowInvocations /\ OutcomesFollowAnswers /\ FilesAreRunning
  BY DEF CallsInv
<1>2. PICK row \in InvocationRows :
        /\ row.at # "idle" /\ inv' = [inv EXCEPT ![a] = row]
        /\ row.at \in {"judge", "log", "over"} /\ row.answer \in Finished =>
             /\ row.at # "over"
             /\ IF Remote
                THEN request[a[1]].at = "over" /\ request[a[1]].answer \in Finished
                ELSE a \in ran'
  BY DEF InvocationMoves
<1>3. inv[a].at \notin {"idle", "log", "over"} /\ ran' \in {ran, ran \cup {a}}
  BY DEF InvocationMoves
<1>4. UNCHANGED <<scene, call, request, reply, gateway, log, sandbox, images>>
  BY DEF InvocationMoves
<1>5. UNCHANGED <<Remote, OverGateway>>
  BY <1>4 DEF Remote, OverGateway
<1>6. inv'[a] = row /\ \A o \in Attempts \ {a} : inv'[o] = inv[o]
  BY <1>1, <1>2 DEF CallsTyped
<1>7. CallsTyped'
  BY <1>1, <1>2, <1>3, <1>4 DEF CallsTyped
<1>8. UnsentIsUnknown'
  <2> SUFFICES ASSUME NEW o \in Attempts, o[2] > request[o[1]].try
               PROVE  /\ scene.origin = "agent" => inv'[o].at = "idle"
                      /\ o \in ran' => scene.origin # "agent" /\ o[2] = 1
    BY <1>1, <1>4 DEF UnsentIsUnknown, Queued
  <2>1. /\ scene.origin = "agent" => inv[o].at = "idle"
        /\ o \in ran => scene.origin # "agent" /\ o[2] = 1
    BY <1>1 DEF UnsentIsUnknown
  <2>2. inv[o].at # "idle" => scene.origin # "agent" /\ o[2] = 1
    BY <1>1, <2>1 DEF PartsOfScene, OverGateway
  <2> QED BY <1>3, <1>6, <2>1, <2>2
<1>9. PartsOfScene'
  <2> SUFFICES ASSUME NEW o \in Attempts
               PROVE  /\ inv'[o].at # "idle" => OverGateway \/ (scene.origin # "agent" /\ o[2] = 1)
                      /\ scene.origin # "agent" /\ call[o[1]].at = "idle" => inv'[o].at = "idle"
    BY <1>1, <1>4, <1>5 DEF PartsOfScene, Queued
  <2>1. inv'[o].at # "idle" => inv[o].at # "idle"
    BY <1>3, <1>6
  <2> QED BY <1>1, <2>1 DEF PartsOfScene
<1>10. ASSUME NEW o, RanWell(o), o \in Attempts
       PROVE  RanWell(o)'
  BY <1>3, <1>4, <1>5, <1>6, <1>10 DEF RanWell
<1>11. RepliesFollowRuns'
  BY <1>1, <1>4, <1>10 DEF RepliesFollowRuns
<1>12. RequestsFollowRuns'
  <2> SUFFICES ASSUME NEW o \in Calls, request[o].at = "over", request[o].answer \in Finished
               PROVE  RanWell(Latest(o))'
    BY <1>4 DEF RequestsFollowRuns
  <2>1. RanWell(Latest(o)) /\ Latest(o)' = Latest(o)
    BY <1>1, <1>4 DEF RequestsFollowRuns, Latest
  <2>2. PICK b \in Attempts : b = Latest(o)
    BY <1>1, <2>1 DEF RanWell, CallsTyped
  <2>3. RanWell(b)'
    BY <1>10, <2>1, <2>2
  <2> QED BY <2>1, <2>2, <2>3 DEF RanWell
<1>13. InvocationsFollowRuns'
  <2> SUFFICES ASSUME NEW o \in Attempts, inv'[o].at \in {"judge", "log", "over"},
                      inv'[o].answer \in Finished
               PROVE  IF Remote THEN request[o[1]].at = "over" /\ request[o[1]].answer \in Finished
                                ELSE o \in ran'
    BY <1>4, <1>5 DEF InvocationsFollowRuns
  <2>1. CASE o = a
    BY <1>2, <1>6, <2>1
  <2>2. CASE o # a
    BY <1>1, <1>3, <1>6, <2>2 DEF InvocationsFollowRuns
  <2> QED BY <2>1, <2>2
<1>14. LogsFollowInvocations'
  <2>1. log[a] = "none"
    BY <1>1, <1>3 DEF LogsFollowInvocations
  <2> QED BY <1>1, <1>2, <1>4, <1>6, <2>1 DEF LogsFollowInvocations
<1>15. OutcomesFollowAnswers'
  <2>1. \A o \in Calls : <<o, 1>> \in Attempts
    BY AttemptsOfCalls
  <2>2. \A o \in Attempts : inv[o].at = "over" => inv'[o] = inv[o]
    BY <1>3, <1>6
  <2> QED BY <1>1, <1>4, <2>1, <2>2 DEF OutcomesFollowAnswers
<1>16. RequestsCounted' /\ FilesAreRunning'
  BY <1>1, <1>4 DEF RequestsCounted, FilesAreRunning, Running
<1> QED
  BY <1>7, <1>8, <1>9, <1>11, <1>12, <1>13, <1>14, <1>15, <1>16 DEF CallsInv

\* The log of an invocation is about what it ended with.
LEMMA LogKeepsCalls ==
  ASSUME CallsInv, NEW a \in Attempts, Log(a)
  PROVE  CallsInv'
<1>1. /\ CallsTyped /\ RequestsCounted /\ UnsentIsUnknown /\ PartsOfScene
      /\ RepliesFollowRuns /\ RequestsFollowRuns /\ InvocationsFollowRuns
      /\ LogsFollowInvocations /\ OutcomesFollowAnswers /\ FilesAreRunning
  BY DEF CallsInv
<1>2. inv[a].at = "log" /\ inv[a] \in InvocationRows
  BY <1>1 DEF Log, Invoking, CallsTyped
<1>3. UNCHANGED <<scene, call, request, reply, gateway, sandbox, images, ran>>
  BY DEF Log, OfBackend
<1>4. UNCHANGED <<Remote, OverGateway>>
  BY <1>3 DEF Remote, OverGateway
<1> DEFINE row == [inv[a] EXCEPT !.at = "over"]
<1>5. inv' = [inv EXCEPT ![a] = row]
  BY <1>1 DEF Log, Proceed, CallsTyped
<1>6. row \in InvocationRows /\ row.at = "over" /\ row.answer = inv[a].answer
  BY <1>2 DEF InvocationRows, AnyInvocations
<1> HIDE DEF row
<1>7. inv'[a] = row /\ \A o \in Attempts \ {a} : inv'[o] = inv[o]
  BY <1>1, <1>5 DEF CallsTyped
<1>8. /\ log' \in [Attempts -> {"none", "success", "failed", "unwritten"}]
      /\ \A o \in Attempts \ {a} : log'[o] = log[o]
      /\ log'[a] = "success" => log[a] = "success" \/ inv[a].answer \in Finished
      /\ inv[a].answer \in Finished /\ scene.origin # "execute" =>
           log'[a] \in {"success", "unwritten"}
  <2>1. \/ scene.origin = "execute" /\ log' = log
        \/ \E entry \in {"unwritten", Verdict(inv[a].answer)} : log' = [log EXCEPT ![a] = entry]
    BY DEF Log
  <2>2. /\ Verdict(inv[a].answer) \in {"success", "failed"}
        /\ Verdict(inv[a].answer) = "success" <=> inv[a].answer \in Finished
    BY DEF Verdict, Finished
  <2> QED BY <1>1, <2>1, <2>2 DEF CallsTyped
<1>9. CallsTyped'
  BY <1>1, <1>3, <1>5, <1>6, <1>8 DEF CallsTyped
<1>10. \A o \in Attempts : inv'[o].answer = inv[o].answer /\ (inv'[o].at = "idle" <=> inv[o].at = "idle")
  BY <1>2, <1>6, <1>7
<1>11. UnsentIsUnknown' /\ PartsOfScene'
  BY <1>1, <1>3, <1>4, <1>10 DEF UnsentIsUnknown, PartsOfScene, Queued
<1>12. ASSUME NEW o, RanWell(o), o \in Attempts
       PROVE  RanWell(o)'
  BY <1>2, <1>3, <1>4, <1>7, <1>8, <1>12 DEF RanWell
<1>13. RepliesFollowRuns'
  BY <1>1, <1>3, <1>12 DEF RepliesFollowRuns
<1>14. RequestsFollowRuns'
  <2> SUFFICES ASSUME NEW o \in Calls, request[o].at = "over", request[o].answer \in Finished
               PROVE  RanWell(Latest(o))'
    BY <1>3 DEF RequestsFollowRuns
  <2>1. RanWell(Latest(o)) /\ Latest(o)' = Latest(o)
    BY <1>1, <1>3 DEF RequestsFollowRuns, Latest
  <2>2. PICK b \in Attempts : b = Latest(o)
    BY <1>1, <2>1 DEF RanWell, CallsTyped
  <2>3. RanWell(b)'
    BY <1>12, <2>1, <2>2
  <2> QED BY <2>1, <2>2, <2>3 DEF RanWell
<1>15. InvocationsFollowRuns'
  BY <1>1, <1>2, <1>3, <1>4, <1>6, <1>7 DEF InvocationsFollowRuns
<1>16. LogsFollowInvocations'
  <2>1. log[a] = "none"
    BY <1>1, <1>2 DEF LogsFollowInvocations
  <2> QED BY <1>1, <1>3, <1>6, <1>7, <1>8, <2>1 DEF LogsFollowInvocations
<1>17. OutcomesFollowAnswers'
  <2>1. \A o \in Calls : <<o, 1>> \in Attempts
    BY AttemptsOfCalls
  <2>2. \A o \in Attempts : inv[o].at = "over" => inv'[o] = inv[o]
    BY <1>2, <1>7
  <2> QED BY <1>1, <1>3, <2>1, <2>2 DEF OutcomesFollowAnswers
<1>18. RequestsCounted' /\ FilesAreRunning'
  BY <1>1, <1>3 DEF RequestsCounted, FilesAreRunning, Running
<1> QED
  BY <1>9, <1>11, <1>13, <1>14, <1>15, <1>16, <1>17, <1>18 DEF CallsInv

-----------------------------------------------------------------------------
(* The services that answer                                                *)

\* The MCP gateway passes an answer of the backend on, or gives up.
GatewayMoves ==
  /\ gateway' \in [Attempts -> {"idle", "waiting", "over"}]
  /\ reply' \in [Attempts -> Answers]
  /\ \A o \in Attempts :
       \/ gateway'[o] = gateway[o] /\ reply'[o] = reply[o]
       \/ /\ gateway[o] = "waiting"
          /\ reply'[o] \in Finished => inv[o].at = "over" /\ inv[o].answer \in Finished
  /\ UNCHANGED <<scene, call, request, inv, log, sandbox, images, ran>>

\* and an answer of the gateway.
LEMMA GatewayMovesKeepsCalls ==
  ASSUME CallsInv, GatewayMoves
  PROVE  CallsInv'
<1>1. /\ CallsTyped /\ RequestsCounted /\ UnsentIsUnknown /\ PartsOfScene
      /\ RepliesFollowRuns /\ RequestsFollowRuns /\ InvocationsFollowRuns
      /\ LogsFollowInvocations /\ OutcomesFollowAnswers /\ FilesAreRunning
  BY DEF CallsInv
<1>2. UNCHANGED <<scene, call, request, inv, log, sandbox, images, ran>>
  BY DEF GatewayMoves
<1>3. \A o \in Attempts :
        \/ gateway'[o] = gateway[o] /\ reply'[o] = reply[o]
        \/ /\ gateway[o] = "waiting"
           /\ reply'[o] \in Finished => inv[o].at = "over" /\ inv[o].answer \in Finished
  BY DEF GatewayMoves
<1>4. CallsTyped'
  BY <1>1, <1>2 DEF CallsTyped, GatewayMoves
<1>5. UnsentIsUnknown'
  BY <1>1, <1>2, <1>3 DEF UnsentIsUnknown, Queued
<1>6. PartsOfScene'
  BY <1>1, <1>2, <1>3 DEF PartsOfScene, Queued, Remote, OverGateway
<1>7. RepliesFollowRuns'
  <2> SUFFICES ASSUME NEW o \in Attempts, reply'[o] \in Finished
               PROVE  RanWell(o)
    BY <1>2 DEF RepliesFollowRuns, RanWell, Remote, OverGateway
  <2>1. CASE reply'[o] = reply[o]
    BY <1>1, <2>1 DEF RepliesFollowRuns
  <2>2. CASE reply'[o] # reply[o]
    <3>1. gateway[o] # "idle" /\ inv[o].at = "over" /\ inv[o].answer \in Finished
      BY <1>3, <2>2
    <3>2. OverGateway
      BY <1>1, <3>1 DEF PartsOfScene
    <3>3. ~Remote /\ scene.origin # "execute"
      BY <3>2 DEF OverGateway
    <3>4. o \in ran
      BY <1>1, <3>1, <3>3 DEF InvocationsFollowRuns
    <3>5. log[o] \in {"success", "unwritten"}
      BY <1>1, <3>1, <3>3 DEF LogsFollowInvocations
    <3> QED BY <3>1, <3>4, <3>5 DEF RanWell
  <2> QED BY <2>1, <2>2
<1>8. /\ RequestsCounted' /\ RequestsFollowRuns' /\ InvocationsFollowRuns'
      /\ LogsFollowInvocations' /\ OutcomesFollowAnswers'
  BY <1>1, <1>2 DEF RequestsCounted, RequestsFollowRuns, InvocationsFollowRuns,
     LogsFollowInvocations, OutcomesFollowAnswers, RanWell, Latest, Remote, OverGateway
<1>9. FilesAreRunning'
  <2>1. sandbox.files # {} => \A o \in Attempts : gateway[o] = "idle"
    BY <1>1 DEF FilesAreRunning, PartsOfScene, OverGateway, Remote
  <2>2. sandbox.files \subseteq Attempts
    BY <1>1 DEF CallsTyped, SandboxRows
  <2>3. \A o \in sandbox.files : reply'[o] = reply[o]
    BY <1>3, <2>1, <2>2
  <2> QED BY <1>1, <1>2, <2>3 DEF FilesAreRunning, Running
<1> QED BY <1>4, <1>5, <1>6, <1>7, <1>8, <1>9 DEF CallsInv

\* A runtime was asked for the attempt.
AskedOf(o) == images[o].at # "idle" \/ Queued(o)

\* A step of a runtime: it runs what it was asked, and replies with what ran.
RuntimeMoves ==
  /\ reply' \in [Attempts -> Answers] /\ sandbox' \in SandboxRows
  /\ images' \in [Attempts -> ImageRows] /\ ran' \in SUBSET Attempts
  /\ \A o \in Attempts : (images'[o].at # "idle" => images[o].at # "idle")
  /\ \A o \in Attempts : (Queued(o)' => Queued(o))
  /\ \A o \in Attempts : \/ reply'[o] = reply[o]
                         \/ AskedOf(o) /\ (reply'[o] \in Finished => o \in ran')
  /\ \A o \in Attempts : (o \in ran => o \in ran') /\ (o \in ran' => o \in ran \/ AskedOf(o))
  /\ FilesAreRunning'
  /\ UNCHANGED <<scene, call, request, gateway, inv, log>>

\* Such a step keeps the invariant of the calls.
LEMMA RuntimeMovesKeepsCalls ==
  ASSUME CallsInv, RuntimeMoves
  PROVE  CallsInv'
<1>1. /\ CallsTyped /\ RequestsCounted /\ UnsentIsUnknown /\ PartsOfScene
      /\ RepliesFollowRuns /\ RequestsFollowRuns /\ InvocationsFollowRuns
      /\ LogsFollowInvocations /\ OutcomesFollowAnswers
  BY DEF CallsInv
<1>2. UNCHANGED <<scene, call, request, gateway, inv, log>> /\ FilesAreRunning'
  BY DEF RuntimeMoves
<1>3. UNCHANGED <<Remote, OverGateway>>
  BY <1>2 DEF Remote, OverGateway
<1>4. \A o \in Attempts : (images'[o].at # "idle" => images[o].at # "idle")
  BY DEF RuntimeMoves
<1>5. \A o \in Attempts : (Queued(o)' => Queued(o))
  BY DEF RuntimeMoves
<1>6. \A o \in Attempts : \/ reply'[o] = reply[o]
                          \/ AskedOf(o) /\ (reply'[o] \in Finished => o \in ran')
  BY DEF RuntimeMoves
<1>7. \A o \in Attempts : (o \in ran => o \in ran') /\ (o \in ran' => o \in ran \/ AskedOf(o))
  BY DEF RuntimeMoves
<1>8. CallsTyped'
  BY <1>1, <1>2 DEF CallsTyped, RuntimeMoves
<1>9. \A o \in Attempts : AskedOf(o) => ~(o[2] > request[o[1]].try)
  BY <1>1 DEF UnsentIsUnknown, AskedOf
<1>10. \A o \in Attempts : AskedOf(o) => Remote /\ ~OverGateway
  BY <1>1 DEF PartsOfScene, AskedOf, Remote, OverGateway
<1>11. UnsentIsUnknown'
  <2> SUFFICES ASSUME NEW o \in Attempts, o[2] > request[o[1]].try
               PROVE  /\ reply'[o] = "none" /\ gateway[o] = "idle" /\ images'[o].at = "idle"
                      /\ ~Queued(o)'
                      /\ scene.origin = "agent" => inv[o].at = "idle"
                      /\ o \in ran' => scene.origin # "agent" /\ o[2] = 1
    BY <1>2 DEF UnsentIsUnknown
  <2>1. /\ reply[o] = "none" /\ gateway[o] = "idle" /\ images[o].at = "idle" /\ ~Queued(o)
        /\ scene.origin = "agent" => inv[o].at = "idle"
        /\ o \in ran => scene.origin # "agent" /\ o[2] = 1
    BY <1>1 DEF UnsentIsUnknown
  <2>2. ~AskedOf(o)
    BY <1>9
  <2>3. ~Queued(o)'
    BY <1>5, <2>1
  <2> QED BY <1>4, <1>6, <1>7, <2>1, <2>2, <2>3
<1>12. PartsOfScene'
  <2> SUFFICES ASSUME NEW o \in Attempts
               PROVE  /\ images'[o].at # "idle" => scene.backend = "images"
                      /\ Queued(o)' => scene.backend = "sandbox"
    BY <1>1, <1>2, <1>3 DEF PartsOfScene
  <2>1. Queued(o)' => Queued(o)
    BY <1>5
  <2>2. Queued(o) => scene.backend = "sandbox"
    BY <1>1 DEF PartsOfScene
  <2>3. images[o].at # "idle" => scene.backend = "images"
    BY <1>1 DEF PartsOfScene
  <2> QED BY <1>4, <2>1, <2>2, <2>3
<1>13. ASSUME NEW o, RanWell(o), o \in Attempts
       PROVE  RanWell(o)'
  BY <1>2, <1>3, <1>7, <1>13 DEF RanWell
<1>14. RepliesFollowRuns'
  <2> SUFFICES ASSUME NEW o \in Attempts, reply'[o] \in Finished
               PROVE  RanWell(o)'
    BY DEF RepliesFollowRuns
  <2>1. CASE reply'[o] = reply[o]
    BY <1>1, <1>13, <2>1 DEF RepliesFollowRuns
  <2>2. CASE reply'[o] # reply[o]
    BY <1>3, <1>6, <1>10, <2>2 DEF RanWell
  <2> QED BY <2>1, <2>2
<1>15. RequestsFollowRuns'
  <2> SUFFICES ASSUME NEW o \in Calls, request[o].at = "over", request[o].answer \in Finished
               PROVE  RanWell(Latest(o))'
    BY <1>2 DEF RequestsFollowRuns
  <2>1. RanWell(Latest(o)) /\ Latest(o)' = Latest(o)
    BY <1>1, <1>2 DEF RequestsFollowRuns, Latest
  <2>2. PICK b \in Attempts : b = Latest(o)
    BY <1>1, <2>1 DEF RanWell, CallsTyped
  <2>3. RanWell(b)'
    BY <1>13, <2>1, <2>2
  <2> QED BY <2>1, <2>2, <2>3 DEF RanWell
<1>16. InvocationsFollowRuns'
  BY <1>1, <1>2, <1>3, <1>7 DEF InvocationsFollowRuns
<1>17. RequestsCounted' /\ LogsFollowInvocations' /\ OutcomesFollowAnswers'
  BY <1>1, <1>2 DEF RequestsCounted, LogsFollowInvocations, OutcomesFollowAnswers
<1> QED
  BY <1>2, <1>8, <1>11, <1>12, <1>14, <1>15, <1>16, <1>17 DEF CallsInv

\* The head of the sandbox's queue, and what is left without it.
LEMMA SandboxQueue ==
  ASSUME CallsTyped, sandbox.queue # <<>>
  PROVE  /\ Running \in Attempts /\ Queued(Running)
         /\ Tail(sandbox.queue) \in Seq(Attempts)
         /\ \A o \in Attempts : (\E i \in 1..Len(Tail(sandbox.queue)) : Tail(sandbox.queue)[i] = o)
              => Queued(o)
<1> DEFINE q == sandbox.queue
<1>1. q \in Seq(Attempts) /\ q # <<>>
  BY DEF CallsTyped, SandboxRows
<1>2. /\ Head(q) = q[1] /\ 1 \in 1..Len(q) /\ q[1] \in Attempts
      /\ Tail(q) \in Seq(Attempts) /\ Len(Tail(q)) = Len(q) - 1
      /\ \A i \in 1..Len(Tail(q)) : Tail(q)[i] = q[i + 1] /\ i + 1 \in 1..Len(q)
  BY <1>1
<1>3. Running = q[1]
  BY <1>2 DEF Running
<1> HIDE DEF q
<1>4. Running \in Attempts /\ \E i \in 1..Len(q) : q[i] = Running
  BY <1>2, <1>3
<1>5. ASSUME NEW o, NEW i \in 1..Len(Tail(q)), Tail(q)[i] = o
      PROVE  \E j \in 1..Len(q) : q[j] = o
  BY <1>2, <1>5
<1> QED BY <1>2, <1>4, <1>5 DEF q, Queued

\* The sandbox turns code down, or has run it when its answer is there.
LEMMA SandboxMoves ==
  ASSUME CallsInv, SandboxStep
  PROVE  RuntimeMoves
<1>1. CallsTyped /\ FilesAreRunning /\ PartsOfScene /\ sandbox.queue # <<>>
  BY DEF CallsInv, SandboxStep, SandboxTakes, SandboxEnds, SandboxRaises
<1>2. /\ Running \in Attempts /\ Queued(Running)
      /\ Tail(sandbox.queue) \in Seq(Attempts)
      /\ \A o \in Attempts : (\E i \in 1..Len(Tail(sandbox.queue)) : Tail(sandbox.queue)[i] = o)
           => Queued(o)
  BY <1>1, SandboxQueue
<1>3. sandbox \in SandboxRows /\ ran \in SUBSET Attempts
      /\ reply \in [Attempts -> Answers] /\ images \in [Attempts -> ImageRows]
  BY <1>1 DEF CallsTyped
<1>4. UNCHANGED <<scene, call, request, gateway, inv, log, images>>
  BY DEF SandboxStep, SandboxTakes, SandboxEnds, SandboxRaises, SandboxReplies
<1>5. ASSUME NEW left \in SUBSET Attempts,
             sandbox' = [sandbox EXCEPT !.queue = Tail(@), !.files = left],
             NEW answer \in Answers, reply' = [reply EXCEPT ![Running] = answer],
             ran' \in SUBSET Attempts,
             \A o \in Attempts : (o \in ran => o \in ran') /\ (o \in ran' => o \in ran \/ o = Running),
             answer \in Finished => Running \in ran',
             \A o \in left : o \in sandbox.files /\ (o # Running \/ answer = "lost")
      PROVE  RuntimeMoves
  <2>1. /\ sandbox' \in SandboxRows /\ sandbox'.queue = Tail(sandbox.queue)
        /\ sandbox'.files = left
    BY <1>2, <1>3, <1>5 DEF SandboxRows
  <2>2. \A o \in Attempts : (Queued(o)' => Queued(o))
    BY <1>2, <2>1 DEF Queued
  <2>3. FilesAreRunning'
    <3>1. \A o \in left : reply[o] = "lost" \/ answer = "lost"
      BY <1>1, <1>5 DEF FilesAreRunning
    <3>2. \A o \in left : reply'[o] = "lost"
      BY <1>1, <1>2, <1>3, <1>5, <3>1 DEF FilesAreRunning
    <3>3. scene'.backend = "sandbox"
      BY <1>1, <1>2, <1>4 DEF PartsOfScene
    <3> QED BY <2>1, <3>2, <3>3 DEF FilesAreRunning
  <2>4. reply' \in [Attempts -> Answers]
    BY <1>3, <1>5
  <2>5. AskedOf(Running)
    BY <1>2 DEF AskedOf
  <2>6. \A o \in Attempts : \/ reply'[o] = reply[o]
                            \/ AskedOf(o) /\ (reply'[o] \in Finished => o \in ran')
    BY <1>2, <1>3, <1>5, <2>5
  <2>7. \A o \in Attempts : (o \in ran => o \in ran') /\ (o \in ran' => o \in ran \/ AskedOf(o))
    BY <1>5, <2>5
  <2> QED BY <1>3, <1>4, <1>5, <2>1, <2>2, <2>3, <2>4, <2>6, <2>7 DEF RuntimeMoves
<1>6. CASE SandboxTakes
  <2>1. Running \notin sandbox.files /\ ran' = ran
    BY <1>6 DEF SandboxTakes
  <2>2. CASE sandbox' = [sandbox EXCEPT !.queue = Tail(@)] /\ SandboxReplies("refused")
    <3>1. sandbox' = [sandbox EXCEPT !.queue = Tail(@), !.files = sandbox.files]
      BY <1>3, <2>2 DEF SandboxRows
    <3>2. \A o \in sandbox.files : o # Running
      BY <2>1
    <3>3. sandbox.files \in SUBSET Attempts
      BY <1>3 DEF SandboxRows
    <3>4. reply' = [reply EXCEPT ![Running] = "refused"]
      BY <2>2 DEF SandboxReplies
    <3>5. "refused" \in Answers /\ "refused" \notin Finished
      BY DEF Answers, Finished
    <3> QED BY <1>3, <1>5, <2>1, <3>1, <3>2, <3>3, <3>4, <3>5
  <2>3. CASE sandbox' = [sandbox EXCEPT !.files = @ \cup {Running}] /\ reply' = reply
    <3>1. /\ sandbox' \in SandboxRows /\ sandbox'.queue = sandbox.queue
          /\ sandbox'.files = sandbox.files \cup {Running}
      BY <1>2, <1>3, <2>3 DEF SandboxRows
    <3>2. FilesAreRunning'
      <4>1. scene'.backend = "sandbox"
        BY <1>1, <1>2, <1>4 DEF PartsOfScene
      <4> QED BY <1>1, <2>3, <3>1, <4>1 DEF FilesAreRunning, Running
    <3>3. \A o \in Attempts : (Queued(o)' => Queued(o))
      BY <3>1 DEF Queued
    <3> QED BY <1>3, <1>4, <2>1, <2>3, <3>1, <3>2, <3>3 DEF RuntimeMoves
  <2> QED BY <1>6, <2>2, <2>3 DEF SandboxTakes
<1>7. CASE SandboxEnds
  <2>1. PICK answer \in {"result", "refused", "down", "lost"} :
          /\ sandbox' = [sandbox EXCEPT !.queue = Tail(@), !.files = FilesAfter(answer)]
          /\ SandboxReplies(answer)
    BY <1>7 DEF SandboxEnds
  <2>2. ran' = ran \cup {Running}
    BY <1>7 DEF SandboxEnds
  <2>3. \A o \in FilesAfter(answer) : o \in sandbox.files /\ o # Running
    BY DEF FilesAfter
  <2>4. FilesAfter(answer) \in SUBSET Attempts
    BY <1>3 DEF SandboxRows, FilesAfter
  <2>5. reply' = [reply EXCEPT ![Running] = answer] /\ answer \in Answers
    BY <2>1 DEF SandboxReplies, Answers
  <2> QED BY <1>2, <1>3, <1>5, <2>1, <2>2, <2>3, <2>4, <2>5
<1>8. CASE SandboxRaises
  <2>1. /\ sandbox' = [sandbox EXCEPT !.queue = Tail(@)] /\ SandboxReplies("lost")
        /\ ran' = ran \/ ran' = ran \cup {Running}
    BY <1>8 DEF SandboxRaises
  <2>2. sandbox' = [sandbox EXCEPT !.queue = Tail(@), !.files = sandbox.files]
    BY <1>3, <2>1 DEF SandboxRows
  <2>3. sandbox.files \in SUBSET Attempts
    BY <1>3 DEF SandboxRows
  <2>4. reply' = [reply EXCEPT ![Running] = "lost"]
    BY <2>1 DEF SandboxReplies
  <2>5. "lost" \in Answers /\ "lost" \notin Finished
    BY DEF Answers, Finished
  <2> QED BY <1>2, <1>3, <1>5, <2>1, <2>2, <2>3, <2>4, <2>5
<1> QED BY <1>6, <1>7, <1>8 DEF SandboxStep

\* A sandbox that dies answers nobody.
LEMMA SandboxDiesMoves ==
  ASSUME CallsInv, SandboxDies
  PROVE  RuntimeMoves
<1>1. CallsTyped /\ FilesAreRunning
  BY DEF CallsInv
<1>2. sandbox \in SandboxRows /\ ran \in SUBSET Attempts
      /\ reply \in [Attempts -> Answers] /\ images \in [Attempts -> ImageRows]
      /\ sandbox.queue \in Seq(Attempts)
  BY <1>1 DEF CallsTyped, SandboxRows
<1>3. /\ UNCHANGED <<scene, call, request, gateway, inv, log, images, ran>>
      /\ reply' = [a \in Attempts |->
           IF \E i \in DOMAIN sandbox.queue : sandbox.queue[i] = a THEN "lost" ELSE reply[a]]
      /\ sandbox' = [sandbox EXCEPT !.queue = <<>>]
  BY DEF SandboxDies
<1>4. <<>> \in Seq(Attempts)
  OBVIOUS
<1>5. sandbox' \in SandboxRows /\ sandbox'.queue = <<>> /\ sandbox'.files = sandbox.files
  BY <1>2, <1>3, <1>4 DEF SandboxRows
<1>6. \A o \in Attempts : (Queued(o)' => Queued(o))
  <2>1. Len(sandbox'.queue) = 0
    BY <1>5
  <2> QED BY <2>1 DEF Queued
<1>7. FilesAreRunning'
  <2>1. sandbox.files \subseteq Attempts
    BY <1>2 DEF SandboxRows
  <2>2. sandbox.queue # <<>> => \E i \in DOMAIN sandbox.queue : sandbox.queue[i] = Running
    BY <1>2 DEF Running
  <2>3. \A o \in sandbox.files : reply'[o] = "lost"
    BY <1>1, <1>3, <2>1, <2>2 DEF FilesAreRunning
  <2> QED BY <1>1, <1>3, <1>5, <2>3 DEF FilesAreRunning
<1>8. DOMAIN sandbox.queue = 1..Len(sandbox.queue)
  BY <1>2
<1>9. reply' \in [Attempts -> Answers]
  BY <1>2, <1>3 DEF Answers
<1>10. \A o \in Attempts : \/ reply'[o] = reply[o]
                           \/ AskedOf(o) /\ (reply'[o] \in Finished => o \in ran')
  BY <1>3, <1>8 DEF AskedOf, Queued, Finished
<1> QED BY <1>2, <1>3, <1>5, <1>6, <1>7, <1>9, <1>10 DEF RuntimeMoves

\* The image workers: an answer follows the last of them.
LEMMA ImagesMove ==
  ASSUME CallsInv, NEW a \in Attempts, ImagesBegin(a) \/ CallWorker(a) \/ ImagesAnswer(a)
  PROVE  RuntimeMoves
<1>1. CallsTyped /\ FilesAreRunning /\ PartsOfScene
  BY DEF CallsInv
<1>2. sandbox \in SandboxRows /\ ran \in SUBSET Attempts
      /\ reply \in [Attempts -> Answers] /\ images \in [Attempts -> ImageRows]
  BY <1>1 DEF CallsTyped
<1>3. UNCHANGED <<scene, call, request, gateway, inv, log, sandbox>>
  BY DEF ImagesBegin, CallWorker, ImagesAnswer
<1>4. images[a].at # "idle" /\ images[a] \in ImageRows
  BY <1>2 DEF ImagesBegin, CallWorker, ImagesAnswer
<1>5. FilesAreRunning' /\ \A o \in Attempts : (Queued(o)' => Queued(o))
  <2>1. sandbox.files = {}
    BY <1>1, <1>4 DEF FilesAreRunning, PartsOfScene
  <2> QED BY <1>3, <2>1 DEF FilesAreRunning, Queued
<1>6. AskedOf(a)
  BY <1>4 DEF AskedOf
<1>7. ASSUME NEW row \in ImageRows, images' = [images EXCEPT ![a] = row],
             NEW answer \in Answers, reply' \in {reply, [reply EXCEPT ![a] = answer]},
             ran' \in {ran, ran \cup {a}}, answer \in Finished => a \in ran'
      PROVE  RuntimeMoves
  <2>1. images' \in [Attempts -> ImageRows] /\ reply' \in [Attempts -> Answers]
        /\ ran' \in SUBSET Attempts
    BY <1>2, <1>7
  <2>2. \A o \in Attempts : (images'[o].at # "idle" => images[o].at # "idle")
    BY <1>2, <1>4, <1>7
  <2>3. \A o \in Attempts : \/ reply'[o] = reply[o]
                            \/ AskedOf(o) /\ (reply'[o] \in Finished => o \in ran')
    BY <1>2, <1>6, <1>7
  <2>4. \A o \in Attempts : (o \in ran => o \in ran') /\ (o \in ran' => o \in ran \/ AskedOf(o))
    BY <1>6, <1>7
  <2> QED BY <1>2, <1>3, <1>5, <2>1, <2>2, <2>3, <2>4 DEF RuntimeMoves
<1>8. CASE ImagesBegin(a)
  <2>1. ran' = ran
    BY <1>8 DEF ImagesBegin
  <2>2. "refused" \in Answers \ Finished
    BY DEF Answers, Finished
  <2>3. CASE /\ images' = [images EXCEPT ![a].at = "over"]
             /\ reply' = [reply EXCEPT ![a] = "refused"]
    <3>1. images' = [images EXCEPT ![a] = [images[a] EXCEPT !.at = "over"]]
      BY <1>2, <2>3
    <3>2. [images[a] EXCEPT !.at = "over"] \in ImageRows
      BY <1>4 DEF ImageRows
    <3> QED BY <1>7, <2>1, <2>2, <2>3, <3>1, <3>2
  <2>4. CASE /\ \E workers \in 1..2 :
                  images' = [images EXCEPT ![a].at = "working", ![a].left = workers]
             /\ reply' = reply
    <3>1. PICK workers \in 1..2 :
            images' = [images EXCEPT ![a].at = "working", ![a].left = workers]
      BY <2>4
    <3>2. images' = [images EXCEPT ![a] = [images[a] EXCEPT !.at = "working", !.left = workers]]
      BY <1>2, <3>1
    <3>3. [images[a] EXCEPT !.at = "working", !.left = workers] \in ImageRows
      <4>1. workers \in Nat
        OBVIOUS
      <4>2. ASSUME NEW n \in Nat
            PROVE  [images[a] EXCEPT !.at = "working", !.left = n] \in ImageRows
        BY <1>4 DEF ImageRows
      <4> QED BY <4>1, <4>2
    <3> QED BY <1>7, <2>1, <2>2, <2>4, <3>2, <3>3
  <2> QED BY <1>8, <2>3, <2>4 DEF ImagesBegin
<1>9. CASE CallWorker(a)
  <2>1. ran' = ran /\ reply' = reply /\ "refused" \in Answers \ Finished
    BY <1>9 DEF CallWorker, Answers, Finished
  <2>2. images[a].left > 0
    BY <1>9 DEF CallWorker
  <2>3. \E warned \in BOOLEAN :
          images' = [images EXCEPT ![a] = [images[a] EXCEPT !.left = @ - 1, !.warned = warned]]
    <3>1. images[a].warned \in BOOLEAN
      BY <1>4 DEF ImageRows
    <3>2. [images[a] EXCEPT !.left = @ - 1] = [images[a] EXCEPT !.left = @ - 1, !.warned = images[a].warned]
      BY <1>4 DEF ImageRows
    <3>3. CASE images' = [images EXCEPT ![a].left = @ - 1]
      <4>1. images' = [images EXCEPT ![a] = [images[a] EXCEPT !.left = @ - 1]]
        BY <1>2, <3>3
      <4> QED BY <3>1, <3>2, <4>1
    <3>4. CASE images' = [images EXCEPT ![a].left = @ - 1, ![a].warned = TRUE]
      <4>1. images' = [images EXCEPT ![a] = [images[a] EXCEPT !.left = @ - 1, !.warned = TRUE]]
        BY <1>2, <3>4
      <4> QED BY <4>1
    <3> QED BY <1>9, <3>3, <3>4 DEF CallWorker
  <2>4. PICK warned \in BOOLEAN :
          images' = [images EXCEPT ![a] = [images[a] EXCEPT !.left = @ - 1, !.warned = warned]]
    BY <2>3
  <2>5. [images[a] EXCEPT !.left = @ - 1, !.warned = warned] \in ImageRows
    <3>1. images[a].left \in Nat
      BY <1>4 DEF ImageRows
    <3>2. images[a].left - 1 \in Nat
      BY <2>2, <3>1
    <3>3. ASSUME NEW n \in Nat
          PROVE  [images[a] EXCEPT !.left = n, !.warned = warned] \in ImageRows
      BY <1>4 DEF ImageRows
    <3> QED BY <3>2, <3>3
  <2> QED BY <1>7, <2>1, <2>4, <2>5
<1>10. CASE ImagesAnswer(a)
  <2>1. images' = [images EXCEPT ![a] = [images[a] EXCEPT !.at = "over"]]
    BY <1>2, <1>10 DEF ImagesAnswer
  <2>2. [images[a] EXCEPT !.at = "over"] \in ImageRows
    BY <1>4 DEF ImageRows
  <2>3. ran' = ran \cup {a}
    BY <1>10 DEF ImagesAnswer
  <2>4. PICK answer \in {"warned", "result"} : reply' = [reply EXCEPT ![a] = answer]
    BY <1>10 DEF ImagesAnswer
  <2>5. answer \in Answers
    BY DEF Answers
  <2> QED BY <1>7, <2>1, <2>2, <2>3, <2>4, <2>5
<1> QED BY <1>8, <1>9, <1>10

\* The MCP gateway answers, gives up, or dies.
LEMMA GatewayStepMoves ==
  ASSUME CallsInv, (\E a \in Attempts : GatewayAnswers(a) \/ GatewayTimesOut(a)) \/ GatewayDies
  PROVE  GatewayMoves
<1>1. /\ reply \in [Attempts -> Answers] /\ inv \in [Attempts -> InvocationRows]
      /\ gateway \in [Attempts -> {"idle", "waiting", "over"}]
  BY DEF CallsInv, CallsTyped
<1>2. {"lost", "down"} \subseteq Answers \ Finished
  BY DEF Answers, Finished
<1>3. CASE GatewayDies
  BY <1>1, <1>2, <1>3 DEF GatewayDies, GatewayMoves
<1>4. ASSUME NEW a \in Attempts, GatewayAnswers(a)
      PROVE  GatewayMoves
  <2>1. inv[a].answer \in Answers
    BY <1>1 DEF InvocationRows, AnyInvocations
  <2> QED BY <1>1, <1>4, <2>1 DEF GatewayAnswers, GatewayMoves
<1>5. ASSUME NEW a \in Attempts, GatewayTimesOut(a)
      PROVE  GatewayMoves
  BY <1>1, <1>2, <1>5 DEF GatewayTimesOut, GatewayMoves
<1> QED BY <1>3, <1>4, <1>5

\* What is begun is sent.
LEMMA BeginRequestSends ==
  ASSUME CallsInv, NEW c \in Calls, BeginRequest(c)
  PROVE  Sends(c)
<1>1. request[c].at = "idle" /\ request[c] \in PoolRows /\ request \in [Calls -> PoolRows]
  BY DEF BeginRequest, CallsInv, CallsTyped
<1>2. request[c].try = 0
  BY <1>1 DEF CallsInv, RequestsCounted
<1> DEFINE row == [request[c] EXCEPT !.at = "waiting", !.try = 1]
<1>3. row \in PoolRows /\ row.at = "waiting" /\ row.try = 1
  <2>1. ASSUME NEW n \in 0..2
        PROVE  [request[c] EXCEPT !.at = "waiting", !.try = n] \in PoolRows
    BY <1>1 DEF PoolRows
  <2>2. row \in PoolRows
    BY <2>1
  <2> QED BY <1>1, <2>2 DEF PoolRows
<1>4. request' = [request EXCEPT ![c] = row]
  BY <1>1 DEF BeginRequest
<1>5. Serve(<<c, request[c].try + 1>>) \/ UNCHANGED <<gateway, inv, sandbox, images>>
  BY DEF BeginRequest, SendRequest
<1> HIDE DEF row
<1>6. UNCHANGED <<scene, call, reply, log, ran>>
  BY DEF BeginRequest
<1>7. /\ request[c].at # "over"
      /\ row.at = "waiting" /\ row.try = request[c].try + 1 /\ (row.try = 2 => row.lost = 1)
  BY <1>1, <1>2, <1>3
<1> QED BY <1>3, <1>4, <1>5, <1>6, <1>7 DEF Sends

\* What was lost is sent again.
LEMMA RequestSentAgainSends ==
  ASSUME CallsInv, NEW c \in Calls, RequestSentAgain(c)
  PROVE  Sends(c)
<1>1. request[c].at = "waiting" /\ request[c].try = 1 /\ Missing(c)
  BY DEF RequestSentAgain, Waiting, MaySendAgain
<1>2. request[c] \in PoolRows /\ request \in [Calls -> PoolRows]
  BY DEF CallsInv, CallsTyped
<1> DEFINE row == [request[c] EXCEPT !.try = 2, !.lost = 1]
<1>3. row \in PoolRows /\ row.at = "waiting" /\ row.try = 2 /\ row.lost = 1
  <2>1. ASSUME NEW n \in 0..2, NEW lost \in {0, 1}
        PROVE  [request[c] EXCEPT !.try = n, !.lost = lost] \in PoolRows
    BY <1>2 DEF PoolRows
  <2>2. row \in PoolRows
    BY <2>1
  <2> QED BY <1>1, <1>2, <2>2 DEF PoolRows
<1>4. request' = [request EXCEPT ![c] = row]
  BY <1>1, <1>2 DEF RequestSentAgain
<1>5. Serve(<<c, request[c].try + 1>>) \/ UNCHANGED <<gateway, inv, sandbox, images>>
  BY DEF RequestSentAgain, SendRequest
<1> HIDE DEF row
<1>6. UNCHANGED <<scene, call, reply, log, ran>>
  BY DEF RequestSentAgain
<1>7. /\ request[c].at # "over"
      /\ row.at = "waiting" /\ row.try = request[c].try + 1 /\ (row.try = 2 => row.lost = 1)
  BY <1>1, <1>3
<1> QED BY <1>3, <1>4, <1>5, <1>6, <1>7 DEF Sends

\* The steps of a call.
LEMMA CallStepKeepsCalls ==
  ASSUME CallsInv, ServersTyped, NEW c \in Calls, CallStep(c)
  PROVE  CallsInv'
<1>1. /\ call \in [Calls -> CallRows] /\ request \in [Calls -> PoolRows]
      /\ reply \in [Attempts -> Answers]
      /\ call[c] \in CallRows /\ request[c] \in PoolRows
  BY DEF CallsInv, CallsTyped
<1>2. CASE EngineAsks(c)
  BY <1>2, BeginRequestSends, SendsKeepsCalls DEF EngineAsks
<1>3. CASE RequestSentAgain(c)
  BY <1>3, RequestSentAgainSends, SendsKeepsCalls
<1>4. CASE RequestFails(c)
  <2>1. RequestEnds(c)
    BY <1>4 DEF RequestFails, RequestEnds, Answers, Finished
  <2> QED BY <2>1, RequestEndsKeepsCalls
<1>5. CASE RequestRead(c)
  <2>1. request[c].try \in {1, 2}
    BY <1>1, <1>5 DEF CallsInv, RequestsCounted, RequestRead, Waiting, PoolRows
  <2>2. Latest(c) \in Attempts
    BY <2>1, AttemptsOfCalls DEF Latest
  <2>3. reply[Latest(c)] \in Answers /\ "down" \in Answers \ Finished
    BY <1>1, <2>2 DEF Answers, Finished
  <2>4. RequestEnds(c)
    BY <1>5, <2>3 DEF RequestRead, RequestEnds
  <2> QED BY <2>4, RequestEndsKeepsCalls
<1>6. ASSUME NEW outcome \in {"result", "error", "failed"}, call[c].at = "resolved",
             call' = [call EXCEPT ![c].at = "over", ![c].outcome = outcome],
             outcome = "result" =>
               IF scene.origin = "agent"
               THEN request[c].at = "over" /\ request[c].answer \in Finished
               ELSE inv[<<c, 1>>].at = "over" /\ inv[<<c, 1>>].answer \in Finished,
             UNCHANGED <<scene, request, reply, gateway, inv, log, sandbox, images, ran>>
      PROVE  CallsInv'
  <2> DEFINE row == [call[c] EXCEPT !.at = "over", !.outcome = outcome]
  <2>1. row \in CallRows /\ row.at = "over" /\ row.outcome = outcome
    BY <1>1 DEF CallRows
  <2>2. call' = [call EXCEPT ![c] = row]
    BY <1>1, <1>6
  <2> HIDE DEF row
  <2>3. CallMoves(c)
    BY <1>6, <2>1, <2>2 DEF CallMoves
  <2> QED BY <2>3, CallMovesKeepsCalls
<1>7. CASE EngineReceives(c)
  <2>1. /\ Told(request[c].answer) \in {"result", "error", "failed"}
        /\ Told(request[c].answer) = "result" => request[c].answer \in Finished
    BY DEF Told, Finished
  <2> QED BY <1>6, <1>7, <2>1 DEF EngineReceives
<1>8. CASE Respond(c)
  <2> DEFINE outcome == IF inv[<<c, 1>>].answer \in {"result", "warned"} THEN "result" ELSE "failed"
  <2>1. outcome \in {"result", "error", "failed"} /\ scene.origin # "agent"
        /\ call[c].at = "resolved"
        /\ call' = [call EXCEPT ![c].at = "over", ![c].outcome = outcome]
        /\ UNCHANGED <<scene, request, reply, gateway, inv, log, sandbox, images, ran>>
        /\ (outcome = "result" => inv[<<c, 1>>].at = "over" /\ inv[<<c, 1>>].answer \in Finished)
    BY <1>8 DEF Respond, Finished
  <2> HIDE DEF outcome
  <2> QED BY <1>6, <2>1
<1> QED BY <1>2, <1>3, <1>4, <1>5, <1>7, <1>8 DEF CallStep

\* A call begins.
LEMMA CallBeginsKeepsCalls ==
  ASSUME CallsInv, ServersTyped, NEW c \in Calls, CallBegins(c)
  PROVE  CallsInv'
<1>1. /\ call \in [Calls -> CallRows] /\ call[c] \in CallRows
      /\ inv \in [Attempts -> InvocationRows]
  BY DEF CallsInv, CallsTyped
<1>2. \A s \in Servers : servers[s].spec.slug \in Slugs \cup Blank
  BY SpecsAreNamed DEF ServersTyped, ServerRows, AnySpecs, NoSpec, Specs, Blank
<1>3. <<c, 1>> \in Attempts /\ inv[<<c, 1>>] \in InvocationRows
  BY <1>1, AttemptsOfCalls
<1>4. ASSUME NEW slug \in Slugs \cup Blank
      PROVE  /\ [call[c] EXCEPT !.at = "resolved", !.slug = slug] \in CallRows
             /\ [inv[<<c, 1>>] EXCEPT !.at = "find", !.slug = slug] \in InvocationRows
  <2>1. [call[c] EXCEPT !.at = "resolved", !.slug = slug] \in CallRows
    BY <1>1 DEF CallRows
  <2>2. [inv[<<c, 1>>] EXCEPT !.at = "find", !.slug = slug] \in InvocationRows
    BY <1>3 DEF InvocationRows, AnyInvocations
  <2> QED BY <2>1, <2>2
<1>5. call[c].at = "idle" /\ call[c].outcome # "result"
  BY DEF CallsInv, OutcomesFollowAnswers, CallBegins, InvokeToolCall, TestServer, ExecuteTool
<1>6. CASE InvokeToolCall(c)
  <2>1. UNCHANGED <<scene, request, reply, gateway, inv, log, sandbox, images, ran>>
    BY <1>6 DEF InvokeToolCall
  <2>2. \E row \in CallRows : /\ row.at # "idle" /\ row.outcome # "result"
                              /\ call' = [call EXCEPT ![c] = row]
    <3>1. PICK s \in Servers :
            \/ call' = [call EXCEPT ![c].at = "resolved", ![c].slug = servers[s].spec.slug]
            \/ call' = [call EXCEPT ![c].at = "over", ![c].outcome = "error"]
      BY <1>6 DEF InvokeToolCall
    <3>2. CASE call' = [call EXCEPT ![c].at = "resolved", ![c].slug = servers[s].spec.slug]
      <4> DEFINE row == [call[c] EXCEPT !.at = "resolved", !.slug = servers[s].spec.slug]
      <4>1. row \in CallRows
        BY <1>2, <1>4
      <4>2. row.at = "resolved" /\ row.outcome = call[c].outcome
        BY <1>1 DEF CallRows
      <4>3. call' = [call EXCEPT ![c] = row]
        BY <1>1, <3>2
      <4> HIDE DEF row
      <4> QED BY <1>5, <4>1, <4>2, <4>3
    <3>3. CASE call' = [call EXCEPT ![c].at = "over", ![c].outcome = "error"]
      <4> DEFINE row == [call[c] EXCEPT !.at = "over", !.outcome = "error"]
      <4>1. row \in CallRows /\ row.at = "over" /\ row.outcome = "error"
        BY <1>1 DEF CallRows
      <4>2. call' = [call EXCEPT ![c] = row]
        BY <1>1, <3>3
      <4> HIDE DEF row
      <4> QED BY <4>1, <4>2
    <3> QED BY <3>1, <3>2, <3>3
  <2>3. CallMoves(c)
    BY <1>5, <2>1, <2>2 DEF CallMoves
  <2> QED BY <2>3, CallMovesKeepsCalls
<1>7. CASE TestServer(c)
  <2>1. PICK s \in Servers :
          /\ call' = [call EXCEPT ![c].at = "resolved", ![c].slug = servers[s].spec.slug]
          /\ inv' = [inv EXCEPT ![<<c, 1>>].at = "find", ![<<c, 1>>].slug = servers[s].spec.slug]
    BY <1>7 DEF TestServer
  <2> DEFINE slug == servers[s].spec.slug
             row == [call[c] EXCEPT !.at = "resolved", !.slug = slug]
             new == [inv[<<c, 1>>] EXCEPT !.at = "find", !.slug = slug]
  <2>2. row \in CallRows /\ new \in InvocationRows
    BY <1>2, <1>4
  <2>3. row.at = "resolved" /\ row.outcome = call[c].outcome
    BY <1>1 DEF CallRows
  <2>4. new.at = "find"
    BY <1>3 DEF InvocationRows, AnyInvocations
  <2>5. call' = [call EXCEPT ![c] = row] /\ inv' = [inv EXCEPT ![<<c, 1>>] = new]
    BY <1>1, <1>3, <2>1
  <2>6. scene.origin # "agent" /\ UNCHANGED <<scene, request, reply, gateway, log, sandbox, images, ran>>
    BY <1>7 DEF TestServer
  <2> HIDE DEF row, new
  <2>7. InvocationBegins(c)
    BY <1>5, <2>2, <2>3, <2>4, <2>5, <2>6 DEF InvocationBegins
  <2> QED BY <2>7, InvocationBeginsKeepsCalls
<1>8. CASE ExecuteTool(c)
  <2>1. PICK t \in Tools :
          inv' = [inv EXCEPT ![<<c, 1>>].at = "tool", ![<<c, 1>>].spec.tool = t]
    BY <1>8 DEF ExecuteTool
  <2> DEFINE row == [call[c] EXCEPT !.at = "resolved"]
             spec == [inv[<<c, 1>>].spec EXCEPT !.tool = t]
             new == [inv[<<c, 1>>] EXCEPT !.at = "tool", !.spec = spec]
  <2>2. row \in CallRows /\ row.at = "resolved" /\ row.outcome = call[c].outcome
    BY <1>1 DEF CallRows
  <2>3. spec \in AnySpecs /\ spec.tool = t
    <3>1. inv[<<c, 1>>].spec \in AnySpecs
      BY <1>3 DEF InvocationRows, AnyInvocations
    <3> QED BY <3>1 DEF AnySpecs
  <2>4. inv' = [inv EXCEPT ![<<c, 1>>] = new]
    <3>1. [inv EXCEPT ![<<c, 1>>].at = "tool", ![<<c, 1>>].spec.tool = t]
            = [inv EXCEPT ![<<c, 1>>] = new]
      BY <1>1, <1>3 DEF InvocationRows, AnyInvocations
    <3> QED BY <2>1, <3>1
  <2> HIDE DEF spec
  <2>5. new \in InvocationRows /\ new.at = "tool"
    BY <1>3, <2>3 DEF InvocationRows, AnyInvocations
  <2>6. call' = [call EXCEPT ![c] = row]
    BY <1>1, <1>8 DEF ExecuteTool
  <2>7. scene.origin # "agent" /\ UNCHANGED <<scene, request, reply, gateway, log, sandbox, images, ran>>
    BY <1>8 DEF ExecuteTool
  <2> HIDE DEF row, new
  <2>8. InvocationBegins(c)
    BY <1>5, <2>2, <2>4, <2>5, <2>6, <2>7 DEF InvocationBegins
  <2> QED BY <2>8, InvocationBeginsKeepsCalls
<1> QED BY <1>6, <1>7, <1>8 DEF CallBegins

\* The steps of an invocation, and those that answer it.
LEMMA ServeStepKeepsCalls ==
  ASSUME CallsInv, ServersTyped, ToolsTyped, NEW a \in Attempts, ServeStep(a) \/ Crash(a)
  PROVE  CallsInv'
<1>1. CallsTyped /\ PartsOfScene /\ RequestsFollowRuns /\ InvocationsFollowRuns
  BY DEF CallsInv
<1>2. /\ inv \in [Attempts -> InvocationRows] /\ inv[a] \in InvocationRows
      /\ a[1] \in Calls /\ request[a[1]] \in PoolRows
  BY <1>1, AttemptsOfCalls DEF CallsTyped
<1>3. ASSUME NEW row \in InvocationRows, inv' = [inv EXCEPT ![a] = row], row.at # "idle",
             inv[a].at \notin {"idle", "log", "over"},
             row.at \in {"judge", "log", "over"} /\ row.answer \in Finished =>
               /\ row.at # "over"
               /\ IF Remote
                  THEN request[a[1]].at = "over" /\ request[a[1]].answer \in Finished
                  ELSE a \in ran',
             ran' \in {ran, ran \cup {a}}, UNCHANGED <<scene, OfBackend, log>>
      PROVE  CallsInv'
  <2>1. UNCHANGED <<scene, call, request, reply, gateway, log, sandbox, images>>
    BY <1>3 DEF OfBackend
  <2>2. InvocationMoves(a)
    BY <1>3, <2>1 DEF InvocationMoves
  <2> QED BY <2>2, InvocationMovesKeepsCalls
<1>4. ASSUME NEW place \in {"providers", "run", "judge", "log", "over"},
             NEW answer \in Answers
      PROVE  LET row == [inv[a] EXCEPT !.at = place, !.answer = answer]
             IN  row \in InvocationRows /\ row.at = place /\ row.answer = answer
  BY <1>2 DEF InvocationRows, AnyInvocations
<1>5. ASSUME NEW place \in {"providers", "run", "judge", "log", "over"}
      PROVE  LET row == [inv[a] EXCEPT !.at = place]
             IN  row \in InvocationRows /\ row.at = place /\ row.answer = inv[a].answer
  BY <1>2 DEF InvocationRows, AnyInvocations
<1>6. {"refused", "down"} \subseteq Answers \ Finished
  BY DEF Answers, Finished
<1>7. ASSUME Refuse(a), inv[a].at \notin {"idle", "log", "over"}, ran' = ran,
             UNCHANGED <<scene, OfBackend, log>>
      PROVE  CallsInv'
  <2> DEFINE row == [inv[a] EXCEPT !.at = "log", !.answer = "refused"]
  <2>1. inv' = [inv EXCEPT ![a] = row]
    BY <1>2, <1>7 DEF Refuse
  <2>2. row \in InvocationRows /\ row.at = "log" /\ row.answer = "refused"
    BY <1>4, <1>6
  <2> HIDE DEF row
  <2> QED BY <1>3, <1>6, <1>7, <2>1, <2>2
<1>8. CASE GatewayAnswers(a) \/ GatewayTimesOut(a)
  BY <1>8, GatewayStepMoves, GatewayMovesKeepsCalls
<1>9. CASE ImagesBegin(a) \/ CallWorker(a) \/ ImagesAnswer(a)
  BY <1>9, ImagesMove, RuntimeMovesKeepsCalls
<1>10. CASE Log(a)
  BY <1>10, LogKeepsCalls
<1>11. CASE BackendAsks(a)
  BY <1>2, <1>11, BeginRequestSends, SendsKeepsCalls DEF BackendAsks
<1>12. CASE FindServerBySlug(a)
  <2>1. inv[a].at = "find" /\ ran' = ran /\ UNCHANGED <<scene, OfBackend, log>>
    BY <1>12 DEF FindServerBySlug, Invoking
  <2>2. CASE Refuse(a)
    BY <1>7, <2>1, <2>2
  <2>3. ASSUME NEW s \in Servers,
               inv' = [inv EXCEPT ![a].at = "log", ![a].server = s, ![a].answer = "refused"]
        PROVE  CallsInv'
    <3> DEFINE row == [inv[a] EXCEPT !.at = "log", !.server = s, !.answer = "refused"]
    <3>1. inv' = [inv EXCEPT ![a] = row]
      BY <1>2, <2>3
    <3>2. row \in InvocationRows /\ row.at = "log" /\ row.answer = "refused"
      BY <1>2, <1>6 DEF InvocationRows, AnyInvocations
    <3> HIDE DEF row
    <3> QED BY <1>3, <1>6, <2>1, <3>1, <3>2
  <2>4. ASSUME NEW s \in Servers, FitFor(servers[s].spec),
               inv' = [inv EXCEPT ![a].at = "tool", ![a].server = s, ![a].spec = servers[s].spec]
        PROVE  CallsInv'
    <3> DEFINE row == [inv[a] EXCEPT !.at = "tool", !.server = s, !.spec = servers[s].spec]
    <3>1. inv' = [inv EXCEPT ![a] = row]
      BY <1>2, <2>4
    <3>2. servers[s].spec \in AnySpecs /\ servers[s].spec.tool \in Tools
      <4>1. servers[s].spec.enabled /\ servers[s].spec \in Specs \cup {NoSpec}
        BY <2>4 DEF FitFor, ServersTyped, ServerRows
      <4>2. ~NoSpec.enabled
        BY DEF NoSpec
      <4>3. servers[s].spec \in Specs
        BY <4>1, <4>2
      <4> QED BY <4>3, SpecsAreNamed DEF Specs
    <3>3. row \in InvocationRows /\ row.at = "tool"
      BY <1>2, <3>2 DEF InvocationRows, AnyInvocations
    <3> HIDE DEF row
    <3> QED BY <1>3, <2>1, <3>1, <3>3
  <2> QED BY <1>12, <2>2, <2>3, <2>4 DEF FindServerBySlug
<1>13. CASE GetTool(a)
  <2>1. inv[a].at = "tool" /\ ran' = ran /\ UNCHANGED <<scene, OfBackend, log>>
    BY <1>13 DEF GetTool, Invoking
  <2> DEFINE place == IF scene.origin = "execute" THEN "run" ELSE "providers"
             version == tools[inv[a].spec.tool].current
             row == [inv[a] EXCEPT !.at = place, !.version = version]
  <2>2. inv' = [inv EXCEPT ![a] = row]
    BY <1>2, <1>13 DEF GetTool
  <2>3. version \in Int
    <3>1. inv[a].spec.tool \in Tools
      BY <1>2, <2>1 DEF InvocationRows
    <3> QED BY <3>1 DEF ToolsTyped
  <2>4. row \in InvocationRows /\ row.at \in {"run", "providers"}
    BY <1>2, <2>3 DEF InvocationRows, AnyInvocations
  <2> HIDE DEF row
  <2> QED BY <1>3, <2>1, <2>2, <2>4
<1>14. CASE SeeProviders(a)
  <2>1. inv[a].at = "providers" /\ ran' = ran /\ UNCHANGED <<scene, OfBackend, log>>
    BY <1>14 DEF SeeProviders, Invoking
  <2>2. CASE Proceed(a, "run")
    <3>1. inv' = [inv EXCEPT ![a] = [inv[a] EXCEPT !.at = "run"]]
      BY <1>2, <2>2 DEF Proceed
    <3> QED BY <1>3, <1>5, <2>1, <3>1
  <2> QED BY <1>7, <1>14, <2>1, <2>2 DEF SeeProviders
<1>15. CASE RefuseInput(a)
  BY <1>7, <1>15 DEF RefuseInput, Invoking
<1>16. CASE BackendReceives(a)
  <2>1. /\ Remote /\ inv[a].at = "run" /\ request[a[1]].at = "over"
        /\ ran' = ran /\ UNCHANGED <<scene, OfBackend, log>>
    BY <1>16 DEF BackendReceives, Invoking
  <2> DEFINE row == [inv[a] EXCEPT !.at = "judge", !.answer = request[a[1]].answer]
  <2>2. request[a[1]].answer \in Answers
    BY <1>2 DEF PoolRows
  <2>3. row \in InvocationRows /\ row.at = "judge" /\ row.answer = request[a[1]].answer
    BY <1>4, <2>2
  <2>4. inv' = [inv EXCEPT ![a] = row]
    BY <1>2, <1>16 DEF BackendReceives
  <2> HIDE DEF row
  <2> QED BY <1>3, <2>1, <2>3, <2>4
<1>17. CASE RunTool(a)
  <2>1. /\ ~Remote /\ inv[a].at = "run" /\ ran' = ran \cup {a}
        /\ UNCHANGED <<scene, OfBackend, log>>
    BY <1>17 DEF RunTool, Invoking
  <2>2. PICK answer \in {"result", "refused", "down"} :
          inv' = [inv EXCEPT ![a].at = "judge", ![a].answer = answer]
    BY <1>17 DEF RunTool
  <2> DEFINE row == [inv[a] EXCEPT !.at = "judge", !.answer = answer]
  <2>3. row \in InvocationRows /\ row.at = "judge"
    <3>1. answer \in Answers
      BY DEF Answers
    <3> QED BY <1>4, <3>1
  <2>4. inv' = [inv EXCEPT ![a] = row]
    BY <1>2, <2>2
  <2> HIDE DEF row
  <2> QED BY <1>3, <2>1, <2>3, <2>4
<1>18. CASE Judge(a)
  <2>1. inv[a].at = "judge" /\ ran' = ran /\ UNCHANGED <<scene, OfBackend, log>>
    BY <1>18 DEF Judge, Invoking
  <2>2. CASE Proceed(a, "log")
    <3> DEFINE row == [inv[a] EXCEPT !.at = "log"]
    <3>1. inv' = [inv EXCEPT ![a] = row]
      BY <1>2, <2>2 DEF Proceed
    <3>2. row \in InvocationRows /\ row.at = "log" /\ row.answer = inv[a].answer
      BY <1>5
    <3>3. inv[a].answer \in Finished =>
            IF Remote THEN request[a[1]].at = "over" /\ request[a[1]].answer \in Finished
                      ELSE a \in ran
      BY <1>1, <2>1 DEF InvocationsFollowRuns
    <3> HIDE DEF row
    <3> QED BY <1>3, <2>1, <3>1, <3>2, <3>3
  <2>3. CASE inv' = [inv EXCEPT ![a].at = "log", ![a].answer = "down"]
    <3> DEFINE row == [inv[a] EXCEPT !.at = "log", !.answer = "down"]
    <3>1. inv' = [inv EXCEPT ![a] = row]
      BY <1>2, <2>3
    <3>2. row \in InvocationRows /\ row.at = "log" /\ row.answer = "down"
      BY <1>4, <1>6
    <3> HIDE DEF row
    <3> QED BY <1>3, <1>6, <2>1, <3>1, <3>2
  <2> QED BY <1>18, <2>2, <2>3 DEF Judge
<1>19. CASE Crash(a)
  <2>1. /\ inv[a].at \in {"find", "tool", "providers", "judge"} /\ ran' = ran
        /\ UNCHANGED <<scene, OfBackend, log>>
    BY <1>19 DEF Crash
  <2> DEFINE place == IF inv[a].at = "find" THEN "over" ELSE "log"
             row == [inv[a] EXCEPT !.at = place, !.answer = "down"]
  <2>2. inv' = [inv EXCEPT ![a] = row]
    BY <1>2, <1>19 DEF Crash
  <2>3. row \in InvocationRows /\ row.at # "idle" /\ row.answer = "down"
    <3>1. place \in {"log", "over"}
      BY <2>1
    <3>2. "down" \in Answers
      BY <1>6
    <3> HIDE DEF place
    <3> QED BY <1>2, <3>1, <3>2 DEF InvocationRows, AnyInvocations
  <2> HIDE DEF row
  <2> QED BY <1>3, <1>6, <2>1, <2>2, <2>3
<1> QED
  BY <1>8, <1>9, <1>10, <1>11, <1>12, <1>13, <1>14, <1>15, <1>16, <1>17, <1>18, <1>19
     DEF ServeStep

-----------------------------------------------------------------------------
(* What an invocation may run                                              *)

\* While a server is looked for, each that is there and open was noted.
AdmittedIsNoted ==
  \A a \in Attempts : inv[a].at = "find" => Admitted(servers, inv[a].slug) \subseteq allowed[a]

\* What runs was noted.
RunIsNoted ==
  scene.origin # "execute" =>
    \A a \in Attempts : inv[a].spec # NoSpec => inv[a].spec.tool \in allowed[a]

\* A step that leaves the specifications alone, or takes over a noted one.
LEMMA NotedIsKept ==
  ASSUME CallsTyped, RunIsNoted, AdmittedIsNoted, Watch, UNCHANGED scene,
         scene.origin # "execute" =>
           \A a \in Attempts :
             \/ inv'[a].spec = inv[a].spec
             \/ /\ inv[a].at = "find" /\ inv'[a].at # "find"
                /\ inv'[a].spec.tool \in Admitted(servers, inv[a].slug)
  PROVE  RunIsNoted' /\ AdmittedIsNoted'
<1>1. \A a \in Attempts :
        allowed'[a] = IF inv'[a].at = "find" THEN allowed[a] \cup Admitted(servers', inv'[a].slug)
                                             ELSE allowed[a]
  BY DEF Watch
<1>2. AdmittedIsNoted'
  <2> SUFFICES ASSUME NEW a \in Attempts, inv'[a].at = "find"
               PROVE  Admitted(servers, inv[a].slug)' \subseteq allowed'[a]
    BY DEF AdmittedIsNoted
  <2>1. Admitted(servers, inv[a].slug)' = Admitted(servers', inv'[a].slug)
    BY DEF Admitted
  <2> QED BY <1>1, <2>1
<1>3. RunIsNoted'
  <2> SUFFICES ASSUME scene.origin # "execute", NEW a \in Attempts, inv'[a].spec # NoSpec
               PROVE  inv'[a].spec.tool \in allowed'[a]
    BY DEF RunIsNoted
  <2>1. allowed[a] \subseteq allowed'[a]
    BY <1>1
  <2>2. CASE inv'[a].spec = inv[a].spec
    BY <2>1, <2>2 DEF RunIsNoted
  <2>3. CASE inv'[a].spec # inv[a].spec
    BY <2>1, <2>3 DEF AdmittedIsNoted
  <2> QED BY <2>2, <2>3
<1> QED BY <1>2, <1>3

\* Which steps take over a specification: that which finds a server.
LEMMA SpecIsTakenWhenFound ==
  ASSUME CallsInv, NEW a \in Attempts, FindServerBySlug(a), NEW o \in Attempts
  PROVE  \/ inv'[o].spec = inv[o].spec
         \/ /\ inv[o].at = "find" /\ inv'[o].at # "find"
            /\ inv'[o].spec.tool \in Admitted(servers, inv[o].slug)
<1>1. inv \in [Attempts -> AnyInvocations] /\ inv[a].at = "find" /\ inv[a] \in AnyInvocations
  BY DEF CallsInv, CallsTyped, InvocationRows, FindServerBySlug, Invoking
<1>2. CASE Refuse(a)
  BY <1>1, <1>2 DEF Refuse, AnyInvocations
<1>3. ASSUME NEW s \in Servers,
             inv' = [inv EXCEPT ![a].at = "log", ![a].server = s, ![a].answer = "refused"]
      PROVE  inv'[o].spec = inv[o].spec
  BY <1>1, <1>3 DEF AnyInvocations
<1>4. ASSUME NEW s \in Servers, FitFor(servers[s].spec), servers[s].spec.slug = inv[a].slug,
             inv' = [inv EXCEPT ![a].at = "tool", ![a].server = s, ![a].spec = servers[s].spec]
      PROVE  \/ inv'[o].spec = inv[o].spec
             \/ /\ inv[o].at = "find" /\ inv'[o].at # "find"
                /\ inv'[o].spec.tool \in Admitted(servers, inv[o].slug)
  <2>1. o # a => inv'[o] = inv[o]
    BY <1>1, <1>4
  <2>2. inv'[a].spec = servers[s].spec /\ inv'[a].at = "tool"
    BY <1>1, <1>4 DEF AnyInvocations
  <2>3. servers[s].spec.tool \in Admitted(servers, inv[a].slug)
    BY <1>4 DEF Admitted, FitFor
  <2> QED BY <1>1, <2>1, <2>2, <2>3
<1> QED BY <1>2, <1>3, <1>4 DEF FindServerBySlug

\* The other steps leave every specification as it is, but for a tool that is
\* executed by itself.
LEMMA SpecsAreLeft ==
  ASSUME CallsInv, Serving \/ Fault \/ \E c \in Calls : CallBegins(c),
         scene.origin # "execute", \A a \in Attempts : ~FindServerBySlug(a),
         NEW o \in Attempts
  PROVE  inv'[o].spec = inv[o].spec
<1>1. inv \in [Attempts -> AnyInvocations]
  BY DEF CallsInv, CallsTyped, InvocationRows
<1>2. ASSUME NEW a, Serve(a) \/ UNCHANGED <<gateway, inv, sandbox, images>>
      PROVE  inv'[o].spec = inv[o].spec
  <2>1. ASSUME NEW slug, inv' = [inv EXCEPT ![a].at = "find", ![a].slug = slug]
        PROVE  inv'[o].spec = inv[o].spec
    BY <1>1, <2>1 DEF AnyInvocations
  <2> QED BY <1>2, <2>1 DEF Serve
<1>3. ASSUME NEW c \in Calls, SendRequest(c)
      PROVE  inv'[o].spec = inv[o].spec
  BY <1>2, <1>3 DEF SendRequest
<1>4. ASSUME NEW a, NEW place, inv' = [inv EXCEPT ![a].at = place]
      PROVE  inv'[o].spec = inv[o].spec
  BY <1>1, <1>4 DEF AnyInvocations
<1>5. ASSUME NEW a, NEW place, NEW answer,
             inv' = [inv EXCEPT ![a].at = place, ![a].answer = answer]
      PROVE  inv'[o].spec = inv[o].spec
  BY <1>1, <1>5 DEF AnyInvocations
<1>6. ASSUME inv' = inv
      PROVE  inv'[o].spec = inv[o].spec
  BY <1>6
<1>7. ASSUME NEW c \in Calls, CallStep(c)
      PROVE  inv'[o].spec = inv[o].spec
  <2>1. CASE EngineAsks(c) \/ RequestSentAgain(c)
    BY <1>3, <2>1 DEF EngineAsks, BeginRequest, RequestSentAgain
  <2>2. CASE ~(EngineAsks(c) \/ RequestSentAgain(c))
    BY <1>6, <1>7, <2>2 DEF CallStep, EngineReceives, RequestFails, RequestRead, Respond
  <2> QED BY <2>1, <2>2
<1>8. ASSUME NEW a \in Attempts, ServeStep(a)
      PROVE  inv'[o].spec = inv[o].spec
  <2>1. CASE GatewayAnswers(a) \/ GatewayTimesOut(a) \/ ImagesBegin(a) \/ CallWorker(a)
             \/ ImagesAnswer(a)
    BY <1>6, <2>1 DEF GatewayAnswers, GatewayTimesOut, ImagesBegin, CallWorker, ImagesAnswer
  <2>2. CASE GetTool(a)
    BY <1>1, <2>2 DEF GetTool, AnyInvocations
  <2>3. CASE SeeProviders(a) \/ RefuseInput(a) \/ Judge(a) \/ Log(a)
    BY <1>4, <1>5, <2>3 DEF SeeProviders, RefuseInput, Judge, Log, Proceed, Refuse
  <2>4. CASE BackendAsks(a)
    BY <1>3, <2>4, AttemptsOfCalls DEF BackendAsks, BeginRequest
  <2>5. CASE BackendReceives(a)
    BY <1>5, <2>5 DEF BackendReceives
  <2>6. CASE RunTool(a)
    BY <1>5, <2>6 DEF RunTool
  <2> QED BY <1>8, <2>1, <2>2, <2>3, <2>4, <2>5, <2>6 DEF ServeStep
<1>9. CASE SandboxStep
  BY <1>6, <1>9 DEF SandboxStep, SandboxTakes, SandboxEnds, SandboxRaises, SandboxReplies
<1>10. CASE Fault
  <2>1. ASSUME NEW a \in Attempts, Crash(a)
        PROVE  inv'[o].spec = inv[o].spec
    BY <1>5, <2>1 DEF Crash
  <2> QED BY <1>6, <1>10, <2>1 DEF Fault, GatewayDies, SandboxDies
<1>11. ASSUME NEW c \in Calls, CallBegins(c)
       PROVE  inv'[o].spec = inv[o].spec
  <2>1. CASE InvokeToolCall(c)
    BY <1>6, <2>1 DEF InvokeToolCall
  <2>2. CASE TestServer(c)
    <3>1. PICK s \in Servers :
            inv' = [inv EXCEPT ![<<c, 1>>].at = "find", ![<<c, 1>>].slug = servers[s].spec.slug]
      BY <2>2 DEF TestServer
    <3>2. ASSUME NEW a, NEW slug, inv' = [inv EXCEPT ![a].at = "find", ![a].slug = slug]
          PROVE  inv'[o].spec = inv[o].spec
      BY <1>1, <3>2 DEF AnyInvocations
    <3> QED BY <3>1, <3>2
  <2> QED BY <1>11, <2>1, <2>2 DEF CallBegins, ExecuteTool
<1> QED BY <1>7, <1>8, <1>9, <1>10, <1>11 DEF Serving

-----------------------------------------------------------------------------
(* Together                                                                *)

\* The scene stays.
LEMMA ScenesAreKept ==
  ASSUME Serving \/ Fault \/ \E c \in Calls : CallBegins(c)
  PROVE  scene' = scene
<1>1. ASSUME NEW c \in Calls, CallStep(c) \/ CallBegins(c)
      PROVE  scene' = scene
  BY <1>1 DEF CallStep, CallBegins, EngineAsks, EngineReceives, RequestSentAgain, RequestFails,
     RequestRead, Respond, BeginRequest, InvokeToolCall, TestServer, ExecuteTool
<1>2. ASSUME NEW a \in Attempts, ServeStep(a)
      PROVE  scene' = scene
  BY <1>2 DEF ServeStep, GatewayAnswers, GatewayTimesOut, FindServerBySlug, GetTool,
     SeeProviders, RefuseInput, BackendAsks, BackendReceives, RunTool, Judge, Log, ImagesBegin,
     CallWorker, ImagesAnswer, BeginRequest
<1>3. CASE SandboxStep
  BY <1>3 DEF SandboxStep, SandboxTakes, SandboxEnds, SandboxRaises, SandboxReplies
<1>4. CASE Fault
  BY <1>4 DEF Fault, GatewayDies, SandboxDies, Crash
<1> QED BY <1>1, <1>2, <1>3, <1>4 DEF Serving

\* The inductive invariant: the catalog's, the calls' and what was allowed since a call arrived.
ToolCallsInv == CatalogInv /\ CallsInv /\ RunIsNoted /\ AdmittedIsNoted

\* It holds where nothing was called,
LEMMA ToolCallsInvInit == CallsInit => ToolCallsInv
<1> SUFFICES ASSUME CallsInit PROVE ToolCallsInv
  OBVIOUS
<1>1. CatalogInv /\ CallsInv
  BY CatalogInvInit, CallsInvInit DEF CallsInit
<1>2. \A a \in Attempts : inv[a].at = "idle" /\ inv[a].spec = NoSpec
  BY DEF CallsInit, NoInvocation
<1> QED BY <1>1, <1>2 DEF ToolCallsInv, RunIsNoted, AdmittedIsNoted

\* and every step keeps it.
LEMMA ToolCallsInvStep == ToolCallsInv /\ [CallsNext]_allVars => ToolCallsInv'
<1> SUFFICES ASSUME ToolCallsInv, [CallsNext]_allVars PROVE ToolCallsInv'
  OBVIOUS
<1>1. CatalogInv /\ CallsInv /\ RunIsNoted /\ AdmittedIsNoted
  BY DEF ToolCallsInv
<1>2. ServersTyped /\ ToolsTyped /\ CallsTyped
  BY <1>1 DEF CatalogInv, CallsInv
<1>3. CASE UNCHANGED allVars
  <2>1. UNCHANGED catalogVars /\ UNCHANGED callsKnow /\ UNCHANGED <<servers, allowed>>
    BY <1>3 DEF allVars, callVars, callsKnow, catalogVars
  <2>2. CatalogInv' /\ CallsInv'
    BY <1>1, <2>1, CatalogInvStutter, CallsInvStutter
  <2>3. RunIsNoted' /\ AdmittedIsNoted'
    BY <1>1, <2>1 DEF RunIsNoted, AdmittedIsNoted, Admitted, callsKnow
  <2> QED BY <2>2, <2>3 DEF ToolCallsInv
<1>4. CASE /\ CatalogNext
           /\ UNCHANGED <<scene, call, request, reply, gateway, inv, log, sandbox, images, ran>>
           /\ Watch
  <2>1. CatalogInv' /\ CallsInv'
    BY <1>1, <1>4, CatalogInvStep, CallsInvStutter DEF callsKnow
  <2>2. RunIsNoted' /\ AdmittedIsNoted'
    BY <1>1, <1>2, <1>4, NotedIsKept
  <2> QED BY <2>1, <2>2 DEF ToolCallsInv
<1>5. CASE (Serving \/ Fault \/ \E c \in Calls : CallBegins(c)) /\ UNCHANGED catalogVars /\ Watch
  <2>1. CatalogInv'
    BY <1>1, <1>5, CatalogInvStutter
  <2>2. CallsInv'
    <3>1. ASSUME NEW c \in Calls, CallStep(c)
          PROVE  CallsInv'
      BY <1>1, <1>2, <3>1, CallStepKeepsCalls
    <3>2. ASSUME NEW a \in Attempts, ServeStep(a) \/ Crash(a)
          PROVE  CallsInv'
      BY <1>1, <1>2, <3>2, ServeStepKeepsCalls
    <3>3. CASE SandboxStep
      BY <1>1, <3>3, SandboxMoves, RuntimeMovesKeepsCalls
    <3>4. CASE SandboxDies
      BY <1>1, <3>4, SandboxDiesMoves, RuntimeMovesKeepsCalls
    <3>5. CASE GatewayDies
      BY <1>1, <3>5, GatewayStepMoves, GatewayMovesKeepsCalls
    <3>6. ASSUME NEW c \in Calls, CallBegins(c)
          PROVE  CallsInv'
      BY <1>1, <1>2, <3>6, CallBeginsKeepsCalls
    <3> QED BY <1>5, <3>1, <3>2, <3>3, <3>4, <3>5, <3>6 DEF Serving, Fault
  <2>3. scene' = scene
    BY <1>5, ScenesAreKept
  <2>4. scene.origin # "execute" =>
          \A a \in Attempts :
            \/ inv'[a].spec = inv[a].spec
            \/ /\ inv[a].at = "find" /\ inv'[a].at # "find"
               /\ inv'[a].spec.tool \in Admitted(servers, inv[a].slug)
    <3>1. CASE \E a \in Attempts : FindServerBySlug(a)
      BY <1>1, <3>1, SpecIsTakenWhenFound
    <3>2. CASE \A a \in Attempts : ~FindServerBySlug(a)
      BY <1>1, <1>5, <3>2, SpecsAreLeft
    <3> QED BY <3>1, <3>2
  <2>5. RunIsNoted' /\ AdmittedIsNoted'
    BY <1>1, <1>2, <1>5, <2>3, <2>4, NotedIsKept
  <2> QED BY <2>1, <2>2, <2>5 DEF ToolCallsInv
<1> QED BY <1>3, <1>4, <1>5 DEF CallsNext

\* It follows that a result was run, and no run is unaccounted for.
LEMMA ToolCallsInvGivesRuns == ToolCallsInv => RunsFollowCalls
<1> SUFFICES ASSUME ToolCallsInv PROVE RunsFollowCalls
  OBVIOUS
<1>1. /\ CallsTyped /\ RequestsCounted /\ UnsentIsUnknown /\ PartsOfScene
      /\ RepliesFollowRuns /\ RequestsFollowRuns /\ InvocationsFollowRuns
      /\ LogsFollowInvocations /\ OutcomesFollowAnswers /\ FilesAreRunning
  BY DEF ToolCallsInv, CallsInv
<1>2. CallsTypeOK
  <2>1. CatalogTypeOK
    <3>1. ToolsTyped /\ ServersTyped /\ EditsTyped
      BY DEF ToolCallsInv, CatalogInv
    <3>2. \A s \in Servers : servers[s] \in ServerRows /\ SoundServer(servers[s])
      BY <3>1 DEF ServersTyped
    <3>3. \A e \in Editors : edit[e] \in EditRows
      BY <3>1 DEF EditsTyped
    <3>4. ASSUME NEW s \in Servers
          PROVE  /\ servers[s].spec \in Specs \cup {NoSpec}
                 /\ (servers[s].spec = NoSpec) = (servers[s].current = 0)
                 /\ servers[s].versions \subseteq Int \ {0}
                 /\ servers[s].current \in servers[s].versions \cup {0}
                 /\ ~servers[s].exists => servers[s] = NoServer
      BY <3>2 DEF ServerRows, SoundServer
    <3>5. ASSUME NEW e \in Editors
          PROVE  edit[e].at \in {"idle", "load", "find", "list", "slug", "tool", "verdict",
                                 "create", "write", "check", "latest", "vouch"}
      BY <3>3 DEF EditRows
    <3> QED BY <3>1, <3>4, <3>5 DEF CatalogTypeOK, ToolsTyped, ServersTyped
  <2>2. ASSUME NEW c \in Calls
        PROVE  /\ call[c].at \in {"idle", "resolved", "over"}
               /\ call[c].outcome \in {"none", "result", "error", "failed"}
               /\ request[c].at \in {"idle", "waiting", "over"} /\ request[c].try \in 0..2
               /\ request[c].answer \in Answers
    <3>1. call[c] \in CallRows /\ request[c] \in PoolRows
      BY <1>1 DEF CallsTyped
    <3> QED BY <3>1 DEF CallRows, PoolRows
  <2>3. ASSUME NEW a \in Attempts
        PROVE  /\ reply[a] \in Answers
               /\ gateway[a] \in {"idle", "waiting", "over"}
               /\ inv[a].at \in {"idle", "find", "tool", "providers", "run", "judge", "log", "over"}
               /\ log[a] \in {"none", "success", "failed", "unwritten"}
               /\ images[a].at \in {"idle", "asked", "working", "over"}
    <3>1. inv[a] \in AnyInvocations /\ images[a] \in ImageRows
      BY <1>1 DEF CallsTyped, InvocationRows
    <3> QED BY <1>1, <3>1 DEF CallsTyped, AnyInvocations, ImageRows
  <2>4. scene.backend \in Backends /\ scene.origin \in Origins
    BY <1>1 DEF CallsTyped
  <2> QED BY <2>1, <2>2, <2>3, <2>4 DEF CallsTypeOK
<1>3. ASSUME NEW c \in Calls, call[c].outcome = "result"
      PROVE  /\ Answering(c) \in ran
             /\ OverGateway \/ scene.origin = "test" =>
                  log[Invocation(c)] \in {"success", "unwritten"}
  <2>1. <<c, 1>> \in Attempts /\ <<c, 1>>[1] = c
    BY AttemptsOfCalls
  <2>2. request[c].at = "over" /\ request[c].answer \in Finished => RanWell(Latest(c))
    BY <1>1 DEF RequestsFollowRuns
  <2>3. CASE scene.origin = "agent"
    <3>1. RanWell(Latest(c))
      BY <1>1, <1>3, <2>2, <2>3 DEF OutcomesFollowAnswers
    <3> QED BY <2>3, <3>1 DEF RanWell, Answering, Invocation
  <2>4. CASE scene.origin # "agent"
    <3>1. inv[<<c, 1>>].at = "over" /\ inv[<<c, 1>>].answer \in Finished
      BY <1>1, <1>3, <2>4 DEF OutcomesFollowAnswers
    <3>2. IF Remote THEN request[c].at = "over" /\ request[c].answer \in Finished
                    ELSE <<c, 1>> \in ran
      BY <1>1, <2>1, <3>1 DEF InvocationsFollowRuns
    <3>3. Answering(c) \in ran
      BY <2>2, <2>4, <3>2 DEF Answering, RanWell
    <3>4. ~OverGateway /\ (scene.origin = "test" => log[<<c, 1>>] \in {"success", "unwritten"})
      BY <1>1, <2>1, <2>4, <3>1 DEF LogsFollowInvocations, OverGateway
    <3> QED BY <2>4, <3>3, <3>4 DEF Invocation
  <2> QED BY <2>3, <2>4
<1>4. ASSUME NEW a \in Attempts, log[a] = "success"
      PROVE  inv[a].answer \in Finished /\ \E other \in ran : other[1] = a[1]
  <2>1. inv[a].at = "over" /\ inv[a].answer \in Finished
    BY <1>1, <1>4 DEF LogsFollowInvocations
  <2>2. IF Remote THEN request[a[1]].at = "over" /\ request[a[1]].answer \in Finished
                  ELSE a \in ran
    BY <1>1, <2>1 DEF InvocationsFollowRuns
  <2>3. Remote => Latest(a[1]) \in ran /\ Latest(a[1])[1] = a[1]
    BY <1>1, <2>2, AttemptsOfCalls DEF RequestsFollowRuns, RanWell, Latest
  <2> QED BY <2>1, <2>2, <2>3
<1>5. ResultHasRun
  BY <1>1, <1>2, <1>3, <1>4 DEF ResultHasRun, FilesAreRunning, Finished
<1>6. ASSUME NEW c \in Calls
      PROVE  Cardinality({a \in ran : a[1] = c}) <= 1 + request[c].lost
  <2> DEFINE runs == {a \in ran : a[1] = c}
  <2>1. runs \subseteq {<<c, 1>>, <<c, 2>>}
    BY <1>1, AttemptsOfCalls DEF CallsTyped
  <2>2. IsFiniteSet({<<c, 1>>, <<c, 2>>}) /\ Cardinality({<<c, 1>>, <<c, 2>>}) <= 2
    <3>1. IsFiniteSet({<<c, 1>>}) /\ Cardinality({<<c, 1>>}) = 1
      BY FS_Singleton
    <3>2. {<<c, 1>>} \cup {<<c, 2>>} = {<<c, 1>>, <<c, 2>>}
      OBVIOUS
    <3>3. /\ IsFiniteSet({<<c, 1>>} \cup {<<c, 2>>})
          /\ Cardinality({<<c, 1>>} \cup {<<c, 2>>}) \in {1, 2}
      BY <3>1, FS_AddElement
    <3> QED BY <3>2, <3>3
  <2>3. request[c].lost \in {0, 1} /\ request[c].try \in 0..2
    BY <1>1 DEF CallsTyped, PoolRows
  <2>4. CASE request[c].try = 2
    <3>1. request[c].lost = 1
      BY <1>1, <2>4 DEF RequestsCounted
    <3>2. Cardinality(runs) <= Cardinality({<<c, 1>>, <<c, 2>>}) /\ Cardinality(runs) \in Nat
      BY <2>1, <2>2, FS_Subset, FS_CardinalityType
    <3>3. Cardinality({<<c, 1>>, <<c, 2>>}) \in Nat
      BY <2>2, FS_CardinalityType
    <3> HIDE DEF runs
    <3> QED BY <2>2, <3>1, <3>2, <3>3 DEF runs
  <2>5. CASE request[c].try # 2
    <3>1. <<c, 2>> \in Attempts /\ <<c, 2>>[1] = c /\ <<c, 2>>[2] = 2
      BY AttemptsOfCalls
    <3>2. 2 > request[c].try
      BY <2>3, <2>5
    <3>3. <<c, 2>> \notin ran
      BY <1>1, <3>1, <3>2 DEF UnsentIsUnknown
    <3>4. runs \subseteq {<<c, 1>>}
      BY <2>1, <3>3
    <3>5. IsFiniteSet({<<c, 1>>}) /\ Cardinality({<<c, 1>>}) = 1
      BY FS_Singleton
    <3>6. Cardinality(runs) <= 1 /\ Cardinality(runs) \in Nat
      BY <3>4, <3>5, FS_Subset, FS_CardinalityType
    <3> HIDE DEF runs
    <3> QED BY <2>3, <3>6 DEF runs
  <2> QED BY <2>4, <2>5
<1> QED BY <1>5, <1>6 DEF RunsFollowCalls, RunAgainOnlyIfLost

\* And what ran was allowed.
LEMMA ToolCallsInvGivesAllowed == ToolCallsInv => RunWasAllowed
BY DEF ToolCallsInv, RunIsNoted, RunWasAllowed, CatalogInv

\* The invariant of the catalog, of the calls and of what they may run.
LEMMA ToolCallsInvariant == CallsSpec => []ToolCallsInv
BY ToolCallsInvInit, ToolCallsInvStep, PTL DEF CallsSpec

\* A result that an agent or a superadmin is given (dispatch.py, catalog_service.py) is
\* that of the attempt it waited for, which ran; the log of the catalog tells of it, a
\* second run makes up for a lost response, and who has a response of the sandbox left no
\* file there, for any number of calls, tools, servers and editors.
THEOREM RunsAreAccountedFor == CallsSpec => []RunsFollowCalls
BY ToolCallsInvariant, ToolCallsInvGivesRuns, PTL

\* invoke_catalog_mcp_server runs only what a server of that name, switched on and open,
\* was backed by since the call arrived; and a server that the catalog wrote
\* (_ensure_tool_eligible_for_mcp) rests on a version of its tool that was found valid or
\* that the bootstrap vouched for, whoever else edits the tool and the server meanwhile.
THEOREM RunsAreAllowed == CallsSpec => []RunWasAllowed
BY ToolCallsInvariant, ToolCallsInvGivesAllowed, PTL

\* An update or a switch of a server that only the catalog and the bootstrap write
\* replaces the version it read (create_registry_version under UNIQUE (entity_id,
\* version)), however editors overlap; one that no other overlapped leaves slugs unique,
\* and its switch changes nothing else of the server.
THEOREM EditsStaySafe == CallsSpec => EditsAreSafe
<1> DEFINE Safe(e) ==
      edit[e].at = "write" /\ edit'[e].at = "idle"
      /\ edit[e].op \in {"create", "update", "switch", "delete"} =>
        LET s == edit[e].server
        IN  /\ s \in steady /\ edit[e].op \in {"update", "switch"} /\ servers' # servers =>
                 servers[s].current = edit[e].version
            /\ edit[e].alone /\ SlugsAreUnique => SlugsAreUnique'
            /\ edit[e].alone /\ edit[e].op = "switch" =>
                 servers'[s].spec =
                   IF NextVersion("switch", edit[e].version) \in servers[s].versions
                   THEN servers[s].spec
                   ELSE [servers[s].spec EXCEPT !.enabled = edit[e].spec.enabled]
<1>1. ToolCallsInv /\ [CallsNext]_allVars => [\A e \in Editors : Safe(e)]_<<servers, edit>>
  <2> SUFFICES ASSUME ToolCallsInv, [CallsNext]_allVars, ~UNCHANGED <<servers, edit>>,
                      NEW e \in Editors
               PROVE  Safe(e)
    OBVIOUS
  <2>1. CatalogNext
    BY DEF CallsNext, allVars, catalogVars
  <2>2. CatalogInv
    BY DEF ToolCallsInv
  <2> QED BY <2>1, <2>2, WritesAreSafe
<1> QED BY <1>1, ToolCallsInvariant, PTL DEF CallsSpec, EditsAreSafe
=============================================================================
