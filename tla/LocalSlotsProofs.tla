-------------------------- MODULE LocalSlotsProofs --------------------------
(* The operator's choice survives every number of requests, failures and   *)
(* restarts, for every set of models: proofs about LocalSlots.             *)
EXTENDS LocalSlots, TLAPS

-----------------------------------------------------------------------------
(* The inductive invariant.                                                *)

\* While a request is alone, every other thread is idle.
Alone ==
  \A g, h \in Handlers :
    handler[h].alone /\ handler[h].step # "idle" /\ g # h
      => handler[g].step = "idle"

\* Steps at which a thread has yet to use the slot it read.
UsesMine == {"ensure", "ask", "reload", "inspect"}

\* What a slot says is the operator's choice.
Agrees(slot, w, x) ==
  slot.managed = w /\ (x \/ w = None \/ slot.target = w)

\* What a thread holds, once the choice w is known: nothing that a later
\* write could undo it with, and no load of another model.
Holds(t, w, x) ==
  /\ t.step \in UsesMine => Agrees(t.mine, w, x)
  /\ t.step = "reload" => w # None /\ t.resolved.managed = w
  /\ t.step = "store" => Agrees(t.resolved, w, x)
  /\ t.step \in {"call", "report"} /\ t.op = "assign" => t.model = w
  /\ t.step = "call" => t.op = "assign"
  /\ t.step = "report" => Agrees(t.resolved, w, x)

\* The same of the row and, after a clear, of the runtime, from which the
\* backend would adopt a managed model.
Choice ==
  wish # Unknown =>
    /\ Agrees(row, wish, mixed)
    /\ wish = None => label = None
    /\ \A h \in Handlers : Holds(handler[h], wish, mixed)

\* Only the operator's writes call the runtime by themselves, an assignment
\* names a model, and a load is asked for only where a model is intended.
Sound(t) ==
  /\ t \in Threads
  /\ t.step \in {"call", "report"} => t.op \in {"assign", "clear"}
  /\ t.step = "reload" => Intended(Payload(t.mine))
  /\ t.op = "assign" => t.model \in Models

\* Between the row and the call of a clear that is alone nobody writes a
\* managed model into the row.
ClearsRow(t, slot) ==
  t.alone /\ t.step = "call" /\ t.op = "clear" => slot.managed = None

Threading ==
  \A h \in Handlers : Sound(handler[h]) /\ ClearsRow(handler[h], row)

IInv == TypeOK /\ Alone /\ Choice /\ Threading

-----------------------------------------------------------------------------
(* What the slot operators return.                                         *)

\* Everything the code computes with is a slot.
LEMMA SlotTypes ==
  ASSUME TypeOK
  PROVE  /\ Answer \in Slots
         /\ NoSlot \in Slots /\ Cleared \in Slots
         /\ \A s \in Slots : Payload(s) \in Slots /\ Unavailable(s) \in Slots
         /\ \A s, a \in Slots : WithRuntime(s, a) \in Slots
  BY DEF TypeOK, Answer, NoSlot, Cleared, Payload, Unavailable, WithRuntime,
         Slot, Slots, LoadStates

\* Only the state may differ between the slot keys and their payload.
LEMMA PayloadKeeps ==
  ASSUME NEW s \in Slots
  PROVE  Payload(s).managed = s.managed /\ Payload(s).target = s.target
  BY DEF Payload, Slots

-----------------------------------------------------------------------------
(* One thread moves, the others stay.                                      *)

\* The types of everything but the threads.
StateOK ==
  /\ phase \in {"starting", "up", "down"}
  /\ runtime \in [load_state : LoadStates, runtime_model_id : Models \cup {None},
                  local_path : Models \cup {None}]
  /\ label \in Models \cup {None}
  /\ row \in Slots
  /\ wish \in Models \cup {None, Unknown}
  /\ mixed \in BOOLEAN
  /\ left \in [startup : Models \cup {None},
               requests : Nat, failures : Nat, restarts : Nat, overlap : Nat]

\* A step of the thread h to t keeps the invariant if t is sound and agrees
\* with the choice, which only a thread that is alone may change.
LEMMA ThreadMoves ==
  ASSUME IInv, StateOK', NEW h \in Handlers, handler[h].step # "idle",
         NEW t, Sound(t), ClearsRow(t, row'), t.alone => handler[h].alone,
         handler' = [handler EXCEPT ![h] = t],
         wish' # Unknown =>
           /\ Agrees(row', wish', mixed')
           /\ wish' = None => label' = None
           /\ Holds(t, wish', mixed')
           /\ handler[h].alone \/ (wish' = wish /\ (mixed => mixed'))
  PROVE  IInv'
<1>1. /\ handler' \in [Handlers -> Threads]
      /\ handler'[h] = t
      /\ \A g \in Handlers : g # h => handler'[g] = handler[g]
  BY DEF IInv, TypeOK, Sound
<1>2. TypeOK'
  BY <1>1 DEF TypeOK, StateOK
<1>3. ASSUME NEW g \in Handlers, g # h, handler[g].alone
      PROVE  handler[g].step = "idle"
  BY <1>3 DEF IInv, Alone
<1>4. Alone'
  <2>1. ASSUME NEW f \in Handlers, NEW g \in Handlers, f # g,
               handler'[g].alone, handler'[g].step # "idle"
        PROVE  handler'[f].step = "idle"
    <3>1. g = h
      BY <1>1, <1>3, <2>1
    <3>2. handler[h].alone
      BY <1>1, <2>1, <3>1
    <3>3. handler[f].step = "idle"
      BY <2>1, <3>1, <3>2 DEF IInv, Alone
    <3> QED BY <1>1, <2>1, <3>1, <3>3
  <2> QED BY <2>1 DEF Alone
<1>5. Choice'
  <2>1. ASSUME NEW g \in Handlers, wish' # Unknown
        PROVE  Holds(handler'[g], wish', mixed')
    <3>1. CASE g = h
      BY <1>1, <2>1, <3>1
    <3>2. CASE g # h /\ handler[h].alone
      <4>1. handler'[g].step = "idle"
        BY <1>1, <3>2 DEF IInv, Alone
      <4> QED BY <4>1 DEF Holds, UsesMine
    <3>3. CASE g # h /\ wish' = wish /\ (mixed => mixed')
      <4>1. handler'[g] = handler[g] /\ Holds(handler[g], wish, mixed)
        BY <1>1, <2>1, <3>3 DEF IInv, Choice
      <4> QED BY <3>3, <4>1 DEF Holds, Agrees
    <3> QED BY <2>1, <3>1, <3>2, <3>3
  <2> QED BY <2>1 DEF Choice
<1>6. Threading'
  <2>1. ASSUME NEW g \in Handlers
        PROVE  Sound(handler'[g]) /\ ClearsRow(handler'[g], row')
    <3>1. CASE g = h
      BY <1>1, <3>1
    <3>2. CASE g # h
      <4>1. handler'[g] = handler[g] /\ Sound(handler[g])
        BY <1>1, <3>2 DEF IInv, Threading
      <4>2. ClearsRow(handler[g], row')
        BY <1>3, <3>2 DEF ClearsRow
      <4> QED BY <4>1, <4>2
    <3> QED BY <3>1, <3>2
  <2> QED BY <2>1 DEF Threading, Sound, Threads, Slots
<1> QED BY <1>2, <1>4, <1>5, <1>6 DEF IInv

\* What a thread of a state with the invariant satisfies.
LEMMA ThreadFacts ==
  ASSUME IInv, NEW h \in Handlers
  PROVE  /\ handler[h] \in Threads /\ Sound(handler[h])
         /\ ClearsRow(handler[h], row)
         /\ StateOK
         /\ handler = [handler EXCEPT ![h] = handler[h]]
         /\ wish # Unknown =>
              /\ Agrees(row, wish, mixed) /\ (wish = None => label = None)
              /\ Holds(handler[h], wish, mixed)
  BY DEF IInv, TypeOK, StateOK, Choice, Threading

\* A thread that is done is idle, and holds nothing.
LEMMA IdleFacts ==
  /\ Sound(Idle) /\ ~Idle.alone /\ Idle.step = "idle"
  /\ \A slot : ClearsRow(Idle, slot)
  /\ \A w, x : Holds(Idle, w, x)
  BY DEF Idle, Sound, ClearsRow, Holds, UsesMine, Threads, Operations, Steps,
         NoSlot, Slot, Slots, LoadStates

\* A bound is spent or not; nothing else of the scenario changes.
LEMMA SpendTypes ==
  ASSUME StateOK,
         Spend("requests") \/ Spend("failures") \/ Spend("restarts") \/ UNCHANGED left
  PROVE  left' \in [startup : Models \cup {None}, requests : Nat,
                    failures : Nat, restarts : Nat, overlap : Nat]
  BY DEF StateOK, Spend

-----------------------------------------------------------------------------
(* The steps.                                                              *)

\* At the start nothing is known and nobody does anything.
LEMMA InitIInv == Init => IInv
<1> SUFFICES ASSUME Init PROVE IInv
  OBVIOUS
<1>1. Sound(Idle) /\ \A slot : ClearsRow(Idle, slot)
  BY IdleFacts
<1>2. TypeOK
  BY <1>1, ConstantsAssumption
     DEF Init, TypeOK, Sound, NoSlot, Slot, Slots, LoadStates, Runtime!Init,
         Runtime!Empty, Runtime!Slot
<1>3. Alone /\ Choice /\ Threading
  BY <1>1, IdleFacts DEF Init, Alone, Choice, Threading
<1> QED BY <1>2, <1>3 DEF IInv

\* A request that arrives holds nothing but the row, and is alone only if
\* nobody else is there.
LEMMA BeginKeeps ==
  ASSUME IInv, NEW h \in Handlers, NEW op \in Operations,
         NEW model \in Models \cup {None}, op = "assign" => model \in Models,
         Begin(h, op, model)
  PROVE  IInv'
<1> DEFINE t == [Idle EXCEPT !.op = op, !.model = model, !.step = "ensure",
                             !.mine = row, !.alone = op \in Edits /\ Active = {}]
<1>1. StateOK' /\ row \in Slots
  BY ThreadFacts, SpendTypes DEF Begin, StateOK, slotVars, history
<1>2. /\ t \in Threads /\ t.step = "ensure" /\ t.mine = row /\ t.op = op
      /\ t.model = model /\ (t.alone => Active = {})
  BY <1>1 DEF Idle, Threads, Operations, Steps, NoSlot, Slot, Slots, LoadStates
<1>3. /\ handler'[h] = t
      /\ \A g \in Handlers : g # h =>
           handler'[g] = [handler[g] EXCEPT !.alone = FALSE]
  BY DEF Begin
<1> HIDE DEF t
<1>4. ASSUME NEW g \in Handlers, g # h
      PROVE  /\ handler'[g] \in Threads /\ ~handler'[g].alone
             /\ handler'[g].step = handler[g].step
             /\ handler'[g].op = handler[g].op
             /\ handler'[g].model = handler[g].model
             /\ handler'[g].mine = handler[g].mine
             /\ handler'[g].resolved = handler[g].resolved
  <2>1. handler[g] \in Threads /\ handler'[g] = [handler[g] EXCEPT !.alone = FALSE]
    BY <1>3, <1>4, ThreadFacts
  <2> QED BY <2>1 DEF Threads
<1>5. TypeOK'
  <2>1. handler' \in [Handlers -> Threads]
    BY <1>2, <1>3, <1>4 DEF Begin
  <2> QED BY <1>1, <2>1 DEF TypeOK, StateOK
<1>6. Alone'
  <2>1. ASSUME NEW f \in Handlers, NEW g \in Handlers, f # g,
               handler'[g].alone, handler'[g].step # "idle"
        PROVE  handler'[f].step = "idle"
    <3>1. g = h
      BY <1>4, <2>1
    <3>2. handler'[h].alone
      BY <2>1, <3>1
    <3>3. Active = {}
      BY <1>2, <1>3, <3>2
    <3>4. handler[f].step = "idle"
      BY <3>3 DEF Active
    <3> QED BY <1>4, <2>1, <3>1, <3>4
  <2> QED BY <2>1 DEF Alone
<1>7. Choice'
  <2>1. wish' = wish /\ mixed' = mixed /\ row' = row /\ label' = label
    BY DEF Begin, slotVars, history
  <2>2. ASSUME NEW g \in Handlers, wish # Unknown
        PROVE  Holds(handler'[g], wish, mixed)
    <3>1. CASE g = h
      BY <1>2, <1>3, <2>2, <3>1 DEF IInv, Choice, Holds, UsesMine
    <3>2. CASE g # h
      BY <1>4, <2>2, <3>2 DEF IInv, Choice, Holds
    <3> QED BY <3>1, <3>2
  <2> QED BY <2>1, <2>2 DEF IInv, Choice
<1>8. Threading'
  <2>1. ASSUME NEW g \in Handlers
        PROVE  Sound(handler'[g]) /\ ClearsRow(handler'[g], row')
    <3>1. CASE g = h
      <4>1. Sound(t) /\ ClearsRow(t, row')
        BY <1>2 DEF Sound, ClearsRow
      <4> QED BY <1>3, <3>1, <4>1
    <3>2. CASE g # h
      BY <1>4, <3>2 DEF IInv, Threading, Sound, ClearsRow
    <3> QED BY <3>1, <3>2
  <2> QED BY <2>1 DEF Threading
<1> QED BY <1>5, <1>6, <1>7, <1>8 DEF IInv

\* The row is written with what was read before.
LEMMA EnsureKeeps ==
  ASSUME IInv, NEW h \in Handlers, Ensure(h)
  PROVE  IInv'
<1> DEFINE t == [handler[h] EXCEPT !.step = "ask"]
<1>1. handler[h] \in Threads /\ handler[h].step = "ensure"
  BY ThreadFacts DEF Ensure
<1>2. handler' = [handler EXCEPT ![h] = t] /\ row' = handler[h].mine
  BY <1>1 DEF Ensure, Goto, IInv, TypeOK, Threads
<1>3. StateOK'
  BY <1>1, ThreadFacts DEF Ensure, StateOK, slotVars, history, Threads
<1>4. Sound(t) /\ ClearsRow(t, row') /\ (t.alone => handler[h].alone)
  BY <1>1, ThreadFacts DEF Sound, ClearsRow, Threads, Steps
<1>5. wish # Unknown => Agrees(row', wish, mixed) /\ Holds(t, wish, mixed)
  BY <1>1, <1>2, ThreadFacts DEF Holds, UsesMine, Threads
<1>6. wish' = wish /\ mixed' = mixed /\ label' = label
  BY DEF Ensure, slotVars, history
<1> HIDE DEF t
<1> QED BY <1>1, <1>2, <1>3, <1>4, <1>5, <1>6, ThreadFacts, ThreadMoves

\* What is learned from the runtime is the operator's choice, with the id of
\* another model only where a load is asked for.
LEMMA AskKeeps ==
  ASSUME IInv, NEW h \in Handlers, Ask(h)
  PROVE  IInv'
<1> DEFINE slot == Payload(handler[h].mine)
<1>1. handler[h] \in Threads /\ handler[h].step = "ask" /\ slot \in Slots
  BY ThreadFacts, SlotTypes DEF Ask, Threads, IInv
<1>2. PICK resolved \in Slots, reload \in BOOLEAN :
        /\ Learns(h, resolved, reload)
        /\ reload => Intended(slot)
        /\ resolved.managed = slot.managed \/ resolved.managed = label
        /\ slot.managed # None => resolved.managed = slot.managed
        /\ ~Intended(slot) \/ reload \/ resolved.target = slot.target
  <2>1. Answer \in Slots /\ Answer.managed = label
    BY SlotTypes DEF IInv, Answer, Slot
  <2>2. CASE Learns(h, WithRuntime(slot, Answer),
                    Intended(slot) /\ ~Aligned(slot, Answer))
    <3>1. WithRuntime(slot, Answer) \in Slots
      BY <1>1, <2>1, SlotTypes DEF IInv
    <3>2. ~Intended(slot) \/ ~Aligned(slot, Answer)
            \/ WithRuntime(slot, Answer).target = slot.target
      BY DEF WithRuntime, Aligned, Intended
    <3>3. /\ slot.managed # None => WithRuntime(slot, Answer).managed = slot.managed
          /\ WithRuntime(slot, Answer).managed \in {slot.managed, label}
      BY <2>1 DEF WithRuntime
    <3> HIDE DEF slot
    <3> QED BY <2>2, <3>1, <3>2, <3>3
  <2>3. ASSUME NEW r \in {Unavailable(slot), slot}, Learns(h, r, Intended(slot))
        PROVE  \E resolved \in Slots, reload \in BOOLEAN :
                 /\ Learns(h, resolved, reload)
                 /\ reload => Intended(slot)
                 /\ resolved.managed = slot.managed \/ resolved.managed = label
                 /\ slot.managed # None => resolved.managed = slot.managed
                 /\ ~Intended(slot) \/ reload \/ resolved.target = slot.target
    <3>1. r \in Slots /\ r.managed = slot.managed /\ r.target = slot.target
      BY <1>1, <2>3, SlotTypes DEF IInv, Unavailable, Slots
    <3>2. Intended(slot) \in BOOLEAN
      BY DEF Intended
    <3> HIDE DEF slot
    <3> QED BY <2>3, <3>1, <3>2
  <2> QED BY <2>2, <2>3 DEF Ask
<1> DEFINE t == [handler[h] EXCEPT !.resolved = resolved,
                                   !.step = IF reload THEN "reload" ELSE "store"]
<1>3. handler' = [handler EXCEPT ![h] = t]
  BY <1>1, <1>2 DEF Learns, IInv, TypeOK, Threads
<1>4. StateOK' /\ wish' = wish /\ mixed' = mixed /\ label' = label /\ row' = row
  BY ThreadFacts, SpendTypes DEF Ask, StateOK, slotVars, history, Unanswered
<1>5. /\ t \in Threads /\ t.mine = handler[h].mine /\ t.op = handler[h].op
      /\ t.model = handler[h].model /\ t.alone = handler[h].alone
      /\ t.resolved = resolved /\ t.step = IF reload THEN "reload" ELSE "store"
  BY <1>1 DEF Threads, Steps
<1>6. Sound(t) /\ ClearsRow(t, row')
  BY <1>2, <1>5, ThreadFacts DEF Sound, ClearsRow
<1>7. ASSUME wish # Unknown
      PROVE  Agrees(row, wish, mixed) /\ Holds(t, wish, mixed)
  <2>1. Agrees(handler[h].mine, wish, mixed) /\ (wish = None => label = None)
    BY <1>1, <1>7, ThreadFacts DEF Holds, UsesMine
  <2>2. Agrees(slot, wish, mixed)
    BY <1>1, <2>1, PayloadKeeps DEF Agrees, Threads
  <2>3. reload => wish # None /\ resolved.managed = wish
    BY <1>2, <2>2 DEF Agrees, Intended
  <2>4. Agrees(resolved, wish, mixed) \/ reload
    BY <1>2, <2>1, <2>2 DEF Agrees, Intended
  <2> QED BY <1>5, <1>7, <2>1, <2>3, <2>4, ThreadFacts DEF Holds, UsesMine
<1> HIDE DEF t
<1> QED BY <1>1, <1>3, <1>4, <1>5, <1>6, <1>7, ThreadFacts, ThreadMoves

\* A request whose thread stays where it is, while only the runtime changes
\* and no choice becomes known or other.
LEMMA ThreadStays ==
  ASSUME IInv, StateOK', NEW h \in Handlers, handler[h].step # "idle",
         UNCHANGED <<handler, row, wish, mixed>>,
         wish = None => label' = None
  PROVE  IInv'
<1>1. /\ Sound(handler[h]) /\ ClearsRow(handler[h], row')
      /\ handler' = [handler EXCEPT ![h] = handler[h]]
      /\ wish # Unknown =>
           Agrees(row', wish', mixed') /\ Holds(handler[h], wish', mixed')
  BY ThreadFacts
<1> QED BY <1>1, ThreadMoves

\* A load types the runtime's slot and its label.
LEMMA LoadTypes ==
  ASSUME NEW m \in Models, NEW n \in Models, Loads(m, n)
  PROVE  /\ phase' = phase /\ label' = m
         /\ runtime' \in [load_state : LoadStates,
                          runtime_model_id : Models \cup {None},
                          local_path : Models \cup {None}]
  BY DEF Loads, LoadStates, Runtime!Load, Runtime!Slot

\* What a load leaves is the operator's choice, whether it succeeds, fails or
\* is sent again; a failed one may leave the id of another model.
LEMMA ReloadKeeps ==
  ASSUME IInv, NEW h \in Handlers, Reload(h)
  PROVE  IInv'
<1> DEFINE slot == Payload(handler[h].mine)
           found == handler[h].resolved
<1>1. /\ handler[h] \in Threads /\ handler[h].step = "reload"
      /\ slot \in Slots /\ found \in Slots
      /\ slot.managed \in Models /\ slot.target \in Models
  BY ThreadFacts, SlotTypes DEF Reload, Threads, IInv, Sound, Intended, Slots
<1>2. wish # Unknown =>
        /\ Agrees(slot, wish, mixed) /\ wish # None /\ found.managed = wish
        /\ Agrees(row, wish, mixed)
  BY <1>1, PayloadKeeps, ThreadFacts DEF Holds, UsesMine, Agrees, Threads
<1>3. row' = row /\ wish' = wish
  BY DEF Reload
<1>4. ASSUME NEW r \in Slots, Learns(h, r, FALSE), StateOK',
             wish # Unknown => Agrees(r, wish, mixed') /\ (mixed => mixed')
      PROVE  IInv'
  <2> DEFINE t == [handler[h] EXCEPT !.resolved = r, !.step = "store"]
  <2>1. handler' = [handler EXCEPT ![h] = t]
    BY <1>1, <1>4 DEF Learns, IInv, TypeOK, Threads
  <2>2. Sound(t) /\ ClearsRow(t, row') /\ (t.alone => handler[h].alone)
    BY <1>1, <1>4, ThreadFacts DEF Sound, ClearsRow, Threads, Steps
  <2>3. t.step = "store" /\ t.resolved = r
    BY <1>1 DEF Threads
  <2> HIDE DEF t
  <2>4. wish # Unknown => Holds(t, wish, mixed')
    BY <1>4, <2>3 DEF Holds, UsesMine
  <2>5. wish # Unknown => Agrees(row, wish, mixed')
    BY <1>2, <1>4 DEF Agrees
  <2> QED BY <1>1, <1>2, <1>3, <1>4, <2>1, <2>2, <2>4, <2>5, ThreadMoves
<1>5. CASE /\ Loads(slot.managed, slot.target)
           /\ Learns(h, WithRuntime(slot, Slot(slot.managed, slot.target, "loading")),
                     FALSE)
           /\ UNCHANGED <<mixed, left>>
  <2> DEFINE r == WithRuntime(slot, Slot(slot.managed, slot.target, "loading"))
  <2>1. r \in Slots /\ r.managed = slot.managed /\ r.target = slot.target
    BY <1>1 DEF WithRuntime, Slot, Slots, LoadStates
  <2>2. StateOK'
    BY <1>1, <1>3, <1>5, LoadTypes, ThreadFacts DEF StateOK
  <2>3. wish # Unknown => Agrees(r, wish, mixed') /\ (mixed => mixed')
    BY <1>2, <1>5, <2>1 DEF Agrees
  <2> HIDE DEF r, slot
  <2>4. Learns(h, r, FALSE)
    BY <1>5 DEF r
  <2> QED BY <1>4, <2>1, <2>2, <2>3, <2>4
<1>6. CASE Resent(Loads(slot.managed, slot.target)) /\ UNCHANGED mixed
  <2>1. Loads(slot.managed, slot.target) /\ handler' = handler /\ Spend("failures")
    BY <1>6 DEF Resent
  <2>2. StateOK'
    BY <1>1, <1>3, <1>6, <2>1, LoadTypes, SpendTypes, ThreadFacts DEF StateOK
  <2>3. wish # None
    BY <1>2, ConstantsAssumption
  <2> QED BY <1>1, <1>3, <1>6, <2>1, <2>2, <2>3, ThreadStays
<1>7. CASE /\ Unanswered
           /\ Loads(slot.managed, slot.target) \/ UNCHANGED slotVars
           /\ Learns(h, [found EXCEPT !.state = "error"], FALSE)
           /\ mixed' = (mixed \/ found.target # slot.target)
  <2> DEFINE r == [found EXCEPT !.state = "error"]
  <2>1. r \in Slots /\ r.managed = found.managed /\ r.target = found.target
    BY <1>1 DEF Slots, LoadStates
  <2>2. StateOK'
    <3>1. left' \in [startup : Models \cup {None}, requests : Nat,
                     failures : Nat, restarts : Nat, overlap : Nat]
      BY <1>7, SpendTypes, ThreadFacts DEF Unanswered
    <3>2. mixed' \in BOOLEAN
      BY <1>7
    <3> QED BY <1>1, <1>3, <1>7, <3>1, <3>2, LoadTypes, ThreadFacts
            DEF StateOK, slotVars
  <2>3. wish # Unknown => Agrees(r, wish, mixed') /\ (mixed => mixed')
    BY <1>2, <1>7, <2>1 DEF Agrees
  <2> HIDE DEF r, slot
  <2>4. Learns(h, r, FALSE)
    BY <1>7 DEF r
  <2> QED BY <1>4, <2>1, <2>2, <2>3, <2>4
<1> QED BY <1>5, <1>6, <1>7 DEF Reload

\* The slot that was found is written, and the request goes on without it.
LEMMA StoreKeeps ==
  ASSUME IInv, NEW h \in Handlers, Store(h)
  PROVE  IInv'
<1>1. handler[h] \in Threads /\ handler[h].step = "store"
  BY ThreadFacts DEF Store
<1>2. /\ row' \in {row, handler[h].resolved}
      /\ UNCHANGED <<slotVars, wish, mixed, left>>
  BY DEF Store, history
<1>3. StateOK'
  BY <1>1, <1>2, ThreadFacts DEF StateOK, slotVars, Threads
<1>4. wish # Unknown => Agrees(row', wish, mixed)
  BY <1>1, <1>2, ThreadFacts DEF Holds
<1>5. ASSUME NEW step \in {"reread", "write"}, Continue(h, step)
      PROVE  IInv'
  <2> DEFINE t == [handler[h] EXCEPT !.step = step, !.mine = NoSlot,
                                     !.resolved = NoSlot]
  <2>1. handler' = [handler EXCEPT ![h] = t]
    BY <1>1, <1>5 DEF Continue
  <2>2. Sound(t) /\ (t.alone => handler[h].alone) /\ t.step = step
    BY <1>1, SlotTypes, ThreadFacts DEF Sound, Threads, Steps, IInv
  <2> HIDE DEF t
  <2>3. ClearsRow(t, row') /\ Holds(t, wish, mixed)
    BY <2>2 DEF ClearsRow, Holds, UsesMine
  <2> QED BY <1>1, <1>2, <1>3, <1>4, <2>1, <2>2, <2>3, ThreadFacts, ThreadMoves
          DEF slotVars
<1>6. CASE Finish(h)
  BY <1>1, <1>2, <1>3, <1>4, <1>6, IdleFacts, ThreadFacts, ThreadMoves
     DEF Finish, slotVars
<1> QED BY <1>5, <1>6 DEF Store

\* The recovery reads the row again.
LEMMA RereadKeeps ==
  ASSUME IInv, NEW h \in Handlers, Reread(h)
  PROVE  IInv'
<1> DEFINE t == [handler[h] EXCEPT !.step = "inspect", !.mine = row]
<1>1. handler[h] \in Threads /\ handler[h].step = "reread" /\ row \in Slots
  BY ThreadFacts DEF Reread, StateOK
<1>2. /\ handler' = [handler EXCEPT ![h] = t]
      /\ UNCHANGED <<slotVars, row, wish, mixed, left>>
  BY <1>1 DEF Reread, history, IInv, TypeOK, Threads
<1>3. StateOK'
  BY <1>2, ThreadFacts DEF StateOK, slotVars
<1>4. /\ Sound(t) /\ (t.alone => handler[h].alone)
      /\ t.step = "inspect" /\ t.mine = row
  BY <1>1, ThreadFacts DEF Sound, Threads, Steps
<1> HIDE DEF t
<1>5. ClearsRow(t, row') /\ (wish # Unknown => Holds(t, wish, mixed))
  BY <1>4, ThreadFacts DEF ClearsRow, Holds, UsesMine
<1> QED BY <1>1, <1>2, <1>3, <1>4, <1>5, ThreadFacts, ThreadMoves DEF slotVars

\* The recovery goes on with the slot it read, or leaves it alone.
LEMMA InspectKeeps ==
  ASSUME IInv, NEW h \in Handlers, Inspect(h)
  PROVE  IInv'
<1> DEFINE t == [handler[h] EXCEPT !.step = "ask", !.op = "look"]
<1>1. handler[h] \in Threads /\ handler[h].step = "inspect"
  BY ThreadFacts DEF Inspect
<1>2. /\ handler' = [handler EXCEPT ![h].step = "ask", ![h].op = "look"]
           \/ Finish(h)
      /\ UNCHANGED <<slotVars, row, wish, mixed>>
  BY DEF Inspect, history
<1>3. StateOK'
  BY <1>2, SpendTypes, ThreadFacts DEF Inspect, Unanswered, StateOK, slotVars
<1>4. CASE handler' = [handler EXCEPT ![h].step = "ask", ![h].op = "look"]
  <2>1. handler' = [handler EXCEPT ![h] = t]
    BY <1>1, <1>4 DEF IInv, TypeOK, Threads
  <2>2. /\ Sound(t) /\ (t.alone => handler[h].alone)
        /\ t.step = "ask" /\ t.mine = handler[h].mine
    BY <1>1, ThreadFacts DEF Sound, Threads, Steps, Operations
  <2> HIDE DEF t
  <2>3. ClearsRow(t, row') /\ (wish # Unknown => Holds(t, wish, mixed))
    BY <1>1, <2>2, ThreadFacts DEF ClearsRow, Holds, UsesMine
  <2> QED BY <1>1, <1>2, <1>3, <2>1, <2>2, <2>3, ThreadFacts, ThreadMoves
          DEF slotVars
<1>5. CASE Finish(h)
  BY <1>1, <1>2, <1>3, <1>5, IdleFacts, ThreadFacts, ThreadMoves
     DEF Finish, slotVars
<1> QED BY <1>2, <1>4, <1>5

\* An assignment that is alone makes its model the choice.
LEMMA WriteAssignedKeeps ==
  ASSUME IInv, NEW h \in Handlers, WriteAssigned(h)
  PROVE  IInv'
<1> DEFINE t == [handler[h] EXCEPT !.step = "call"]
           m == handler[h].model
<1>1. /\ handler[h] \in Threads /\ handler[h].step = "write"
      /\ handler[h].op = "assign" /\ m \in Models
  BY ThreadFacts DEF WriteAssigned, Sound
<1>2. /\ row' = Slot(m, m, "loading") /\ mixed' = FALSE
      /\ wish' = Chosen(h, m) /\ UNCHANGED <<slotVars, left>>
  BY DEF WriteAssigned
<1>3. StateOK'
  BY <1>1, <1>2, ThreadFacts DEF StateOK, slotVars, Chosen, Slot, Slots, LoadStates
<1>4. /\ Sound(t) /\ (t.alone => handler[h].alone)
      /\ t.step = "call" /\ t.op = "assign" /\ t.model = m
  BY <1>1, ThreadFacts DEF Sound, Threads, Steps
<1>5. wish' # Unknown =>
        handler[h].alone /\ wish' = m /\ wish' # None /\ Agrees(row', wish', mixed')
  BY <1>1, <1>2, ConstantsAssumption DEF Chosen, Agrees, Slot
<1>6. handler' = [handler EXCEPT ![h] = t]
  BY <1>1 DEF WriteAssigned, Goto, IInv, TypeOK, Threads
<1> HIDE DEF t, m
<1>7. ClearsRow(t, row') /\ (wish' # Unknown => Holds(t, wish', mixed'))
  BY <1>4, <1>5 DEF ClearsRow, Holds, UsesMine
<1>8. wish' # Unknown =>
        /\ Agrees(row', wish', mixed') /\ (wish' = None => label' = None)
        /\ Holds(t, wish', mixed')
        /\ handler[h].alone \/ (wish' = wish /\ (mixed => mixed'))
  BY <1>5, <1>7
<1>9. handler[h].step # "idle"
  BY <1>1
<1> QED BY <1>3, <1>4, <1>6, <1>7, <1>8, <1>9, ThreadMoves

\* Until the unload is carried out nobody knows what is wanted.
LEMMA WriteClearedKeeps ==
  ASSUME IInv, NEW h \in Handlers, WriteCleared(h)
  PROVE  IInv'
<1> DEFINE t == [handler[h] EXCEPT !.step = "call"]
<1>1. /\ handler[h] \in Threads /\ handler[h].step = "write"
      /\ handler[h].op = "clear"
  BY ThreadFacts DEF WriteCleared
<1>2. /\ handler' = [handler EXCEPT ![h] = t]
      /\ row' = Cleared /\ wish' = Unknown
      /\ UNCHANGED <<slotVars, mixed, left>>
  BY <1>1 DEF WriteCleared, Goto, IInv, TypeOK, Threads
<1>3. StateOK'
  BY <1>2, SlotTypes, ThreadFacts DEF StateOK, slotVars, IInv
<1>4. Sound(t) /\ (t.alone => handler[h].alone)
  BY <1>1, ThreadFacts DEF Sound, Threads, Steps
<1>5. ClearsRow(t, row')
  BY <1>2 DEF ClearsRow, Cleared, Slot
<1> HIDE DEF t
<1> QED BY <1>1, <1>2, <1>3, <1>4, <1>5, ThreadMoves

\* An edited provider has no slot, and what is wanted is unknown.
LEMMA WriteUpdatedKeeps ==
  ASSUME IInv, NEW h \in Handlers, WriteUpdated(h)
  PROVE  IInv'
<1>1. /\ handler[h].step = "write" /\ wish' = Unknown
      /\ handler' = [handler EXCEPT ![h] = Idle]
  BY DEF WriteUpdated, Finish
<1>2. StateOK'
  BY <1>1, SlotTypes, ThreadFacts DEF WriteUpdated, StateOK, slotVars, IInv
<1> QED BY <1>1, <1>2, IdleFacts, ThreadMoves

\* The assigned model is loaded, or may be; either way the slot names it.
LEMMA CallLoadKeeps ==
  ASSUME IInv, NEW h \in Handlers, CallLoad(h)
  PROVE  IInv'
<1> DEFINE m == handler[h].model
<1>1. /\ handler[h] \in Threads /\ handler[h].step = "call"
      /\ handler[h].op = "assign" /\ m \in Models
  BY ThreadFacts DEF CallLoad, Sound
<1>2. UNCHANGED <<row, wish, mixed>> /\ (wish # Unknown => wish = m)
  BY <1>1, ThreadFacts DEF CallLoad, history, Holds
<1>3. /\ Loads(m, m) \/ UNCHANGED slotVars
      /\ Spend("failures") \/ UNCHANGED left
  BY DEF CallLoad, Resent, Unanswered
<1>4. StateOK' /\ (wish = None => label' = None)
  <2>1. left' \in [startup : Models \cup {None}, requests : Nat,
                   failures : Nat, restarts : Nat, overlap : Nat]
    BY <1>3, SpendTypes, ThreadFacts
  <2>2. wish # None
    BY <1>1, <1>2, ConstantsAssumption
  <2> HIDE DEF m
  <2> QED BY <1>1, <1>2, <1>3, <2>1, <2>2, LoadTypes, ThreadFacts
          DEF StateOK, slotVars
<1>5. ASSUME NEW state \in LoadStates,
             handler' = [handler EXCEPT ![h].step = "report",
                                        ![h].resolved = Slot(m, m, state)]
      PROVE  IInv'
  <2> DEFINE r == Slot(m, m, state)
             t == [handler[h] EXCEPT !.step = "report", !.resolved = r]
  <2>1. r \in Slots /\ r.managed = m /\ r.target = m
    BY <1>1 DEF Slot, Slots
  <2>2. handler' = [handler EXCEPT ![h] = t]
    BY <1>1, <1>5 DEF IInv, TypeOK, Threads
  <2> HIDE DEF r
  <2>3. /\ Sound(t) /\ (t.alone => handler[h].alone)
        /\ t.step = "report" /\ t.resolved = r /\ t.model = m
    BY <1>1, <2>1, ThreadFacts DEF Sound, Threads, Steps
  <2> HIDE DEF t, m
  <2>4. ClearsRow(t, row') /\ (wish # Unknown => Holds(t, wish, mixed))
    BY <1>2, <2>1, <2>3 DEF ClearsRow, Holds, UsesMine, Agrees
  <2> QED BY <1>1, <1>2, <1>4, <2>2, <2>3, <2>4, ThreadFacts, ThreadMoves
<1>6. CASE Resent(Loads(m, m))
  BY <1>1, <1>2, <1>4, <1>6, ThreadStays DEF Resent
<1> QED BY <1>5, <1>6 DEF CallLoad, LoadStates

\* A clear that is alone and whose unload is carried out leaves nothing the
\* backend could adopt, neither in the row nor in the runtime.
LEMMA CallUnloadKeeps ==
  ASSUME IInv, NEW h \in Handlers, CallUnload(h)
  PROVE  IInv'
<1>1. /\ handler[h] \in Threads /\ handler[h].step = "call"
      /\ handler[h].op = "clear" /\ wish = Unknown
      /\ handler[h].alone => row.managed = None
  BY ThreadFacts DEF CallUnload, Holds, ClearsRow
<1>2. UNCHANGED <<row, mixed>>
  BY DEF CallUnload
<1>3. /\ Unloads \/ UNCHANGED slotVars
      /\ wish' \in {Unknown, wish, Chosen(h, None)}
      /\ Spend("failures") \/ UNCHANGED left
  BY DEF CallUnload, Resent, Unanswered
<1>4. StateOK'
  <2>1. left' \in [startup : Models \cup {None}, requests : Nat,
                   failures : Nat, restarts : Nat, overlap : Nat]
    BY <1>3, SpendTypes, ThreadFacts
  <2>2. wish' \in Models \cup {None, Unknown}
    BY <1>3, ThreadFacts DEF Chosen, StateOK
  <2>3. Unloads => /\ phase' = phase /\ label' = None
                   /\ runtime' \in [load_state : LoadStates,
                                    runtime_model_id : Models \cup {None},
                                    local_path : Models \cup {None}]
    BY DEF Unloads, Runtime!Unload, Runtime!Empty, Runtime!Slot, LoadStates
  <2> QED BY <1>2, <1>3, <2>1, <2>2, <2>3, ThreadFacts DEF StateOK, slotVars
<1>5. wish' # Unknown =>
        handler[h].alone /\ wish' = None /\ label' = None
          /\ Agrees(row', wish', mixed')
  <2>1. ASSUME wish' # Unknown
        PROVE  Unloads /\ handler[h].alone /\ wish' = None
    BY <1>1, <1>3, <2>1 DEF CallUnload, Chosen, Resent
  <2> QED BY <1>1, <1>2, <2>1 DEF Unloads, Agrees
<1> DEFINE Fits(t) == wish' # Unknown =>
             /\ Agrees(row', wish', mixed') /\ (wish' = None => label' = None)
             /\ Holds(t, wish', mixed')
             /\ handler[h].alone \/ (wish' = wish /\ (mixed => mixed'))
<1> HIDE DEF Fits
<1>6. handler[h].step # "idle"
  BY <1>1
<1>7. CASE Finish(h)
  <2>1. Fits(Idle)
    BY <1>5, IdleFacts DEF Fits
  <2>2. handler' = [handler EXCEPT ![h] = Idle]
    BY <1>7 DEF Finish
  <2> QED BY <1>4, <1>6, <2>1, <2>2, IdleFacts, ThreadMoves DEF Fits
<1>8. CASE Resent(Unloads) /\ UNCHANGED wish
  BY <1>1, <1>2, <1>4, <1>8, ThreadStays, ConstantsAssumption DEF Resent
<1>9. CASE handler' = [handler EXCEPT ![h].step = "report",
                                      ![h].resolved = Slot(None, None, "error")]
  <2> DEFINE r == Slot(None, None, "error")
             t == [handler[h] EXCEPT !.step = "report", !.resolved = r]
  <2>1. r \in Slots /\ Agrees(r, None, mixed')
    BY DEF Slot, Slots, LoadStates, Agrees
  <2>2. handler' = [handler EXCEPT ![h] = t]
    BY <1>1, <1>9 DEF IInv, TypeOK, Threads
  <2> HIDE DEF r
  <2>3. /\ Sound(t) /\ (t.alone => handler[h].alone)
        /\ t.step = "report" /\ t.resolved = r /\ t.op = "clear"
    BY <1>1, <2>1, ThreadFacts DEF Sound, Threads, Steps
  <2> HIDE DEF t
  <2>4. ClearsRow(t, row')
    BY <2>3 DEF ClearsRow
  <2>5. Fits(t)
    BY <1>5, <2>1, <2>3 DEF Fits, Holds, UsesMine
  <2> QED BY <1>4, <1>6, <2>2, <2>3, <2>4, <2>5, ThreadMoves DEF Fits
<1> QED BY <1>7, <1>8, <1>9 DEF CallUnload

\* The outcome that is written agrees with the choice.
LEMMA ReportKeeps ==
  ASSUME IInv, NEW h \in Handlers, Report(h)
  PROVE  IInv'
<1>1. /\ handler[h] \in Threads /\ handler[h].step = "report"
      /\ row' = handler[h].resolved /\ wish' = wish /\ mixed' = mixed
      /\ label' = label /\ handler' = [handler EXCEPT ![h] = Idle]
  BY ThreadFacts DEF Report, Finish, slotVars, history
<1>2. StateOK'
  BY <1>1, ThreadFacts DEF Report, StateOK, slotVars, Threads
<1>3. wish # Unknown => Agrees(row', wish, mixed)
  BY <1>1, ThreadFacts DEF Holds
<1> QED BY <1>1, <1>2, <1>3, IdleFacts, ThreadFacts, ThreadMoves

\* A request that is cut short leaves everything else as it is.
LEMMA EscapeKeeps ==
  ASSUME IInv, NEW h \in Handlers, Escape(h)
  PROVE  IInv'
<1>1. /\ handler[h].step # "idle" /\ handler' = [handler EXCEPT ![h] = Idle]
      /\ UNCHANGED <<row, wish, mixed, label>>
  BY DEF Escape, Finish, slotVars, history
<1>2. StateOK'
  BY SpendTypes, ThreadFacts DEF Escape, StateOK, slotVars, history
<1> QED BY <1>1, <1>2, IdleFacts, ThreadFacts, ThreadMoves

\* The runtime starts, reports and stops without touching what the backend
\* keeps, and forgets its label when it is restarted.
LEMMA RuntimeKeeps ==
  ASSUME IInv, RuntimeRuns \/ RuntimeStops \/ RuntimeRestarts
  PROVE  IInv'
<1>1. UNCHANGED <<row, handler, wish, mixed>> /\ label' \in {label, None}
  BY DEF RuntimeRuns, RuntimeStops, RuntimeRestarts, history
<1>2. /\ phase' \in {"starting", "up", "down"}
      /\ runtime' \in [load_state : LoadStates, runtime_model_id : Models \cup {None},
                       local_path : Models \cup {None}]
  BY DEF IInv, TypeOK, RuntimeRuns, RuntimeStops, RuntimeRestarts, LoadStates,
         Runtime!StartEmpty, Runtime!StartWith, Runtime!StartRefused,
         Runtime!Report, Runtime!Shutdown, Runtime!Empty, Runtime!Slot
<1>3. left' \in [startup : Models \cup {None}, requests : Nat,
                 failures : Nat, restarts : Nat, overlap : Nat]
  BY SpendTypes DEF RuntimeRuns, RuntimeStops, RuntimeRestarts, IInv, TypeOK, StateOK
<1>4. TypeOK'
  BY <1>1, <1>2, <1>3 DEF IInv, TypeOK
<1>5. Alone' /\ Choice' /\ Threading'
  BY <1>1 DEF IInv, Alone, Choice, Threading
<1> QED BY <1>4, <1>5 DEF IInv

-----------------------------------------------------------------------------
(* The theorems.                                                           *)

LEMMA NextIInv == IInv /\ [Next]_vars => IInv'
<1> SUFFICES ASSUME IInv, [Next]_vars PROVE IInv'
  OBVIOUS
<1>1. CASE Look
  BY <1>1, BeginKeeps DEF Look, Operations
<1>2. ASSUME NEW h \in Handlers, NEW op \in {"recover", "clear", "update"},
             Begin(h, op, None)
      PROVE  IInv'
  BY <1>2, BeginKeeps DEF Operations
<1>3. ASSUME NEW h \in Handlers, NEW m \in Models, Begin(h, "assign", m)
      PROVE  IInv'
  BY <1>3, BeginKeeps DEF Operations
<1>4. ASSUME NEW h \in Handlers, Step(h)
      PROVE  IInv'
  BY <1>4, EnsureKeeps, AskKeeps, ReloadKeeps, StoreKeeps, RereadKeeps,
     InspectKeeps, WriteAssignedKeeps, CallLoadKeeps, WriteClearedKeeps,
     CallUnloadKeeps, WriteUpdatedKeeps, ReportKeeps DEF Step
<1>5. ASSUME NEW h \in Handlers, Escape(h)
      PROVE  IInv'
  BY <1>5, EscapeKeeps
<1>6. CASE RuntimeRuns \/ RuntimeStops \/ RuntimeRestarts
  BY <1>6, RuntimeKeeps
<1>7. CASE UNCHANGED vars
  BY <1>7 DEF vars, slotVars, history, IInv, TypeOK, Alone, Choice, Threading
<1> QED BY <1>1, <1>2, <1>3, <1>4, <1>5, <1>6, <1>7 DEF Next

\* The inductive invariant holds in every state.
THEOREM Invariance == Spec => []IInv
<1>1. Init => IInv
  BY InitIInv
<1>2. IInv /\ [Next]_vars => IInv'
  BY NextIInv
<1> QED BY <1>1, <1>2, PTL DEF Spec

\* Type correctness of the backend's slot handling.
THEOREM TypesAreKept == Spec => []TypeOK
<1>1. IInv => TypeOK
  BY DEF IInv
<1> QED BY <1>1, Invariance, PTL

\* The row of the provider names the model the operator chose, for every
\* number of models, threads, requests, failures and restarts.
THEOREM OperatorIsFollowed == Spec => []SlotFollowsOperator
<1>1. IInv => SlotFollowsOperator
  BY DEF IInv, Choice, Agrees, SlotFollowsOperator
<1> QED BY <1>1, Invariance, PTL

\* Whatever the backend makes the runtime load is the operator's choice.
LEMMA LoadIsChosen ==
  ASSUME IInv, [Next]_vars,
         phase = "up", runtime' # runtime, runtime'.load_state = "loading",
         wish # Unknown, wish = None \/ ~mixed
  PROVE  runtime'.runtime_model_id = wish /\ label' = wish
<1>1. PICK h \in Handlers : Reload(h) \/ CallLoad(h)
  <2>1. ~RuntimeRuns /\ ~RuntimeStops /\ ~RuntimeRestarts
    BY DEF RuntimeRuns, RuntimeStops, RuntimeRestarts, Runtime!StartEmpty,
       Runtime!StartWith, Runtime!StartRefused, Runtime!Report,
       Runtime!Shutdown, Runtime!Empty, Runtime!Slot, IInv, TypeOK
  <2>2. ASSUME NEW h \in Handlers, Step(h)
        PROVE  Reload(h) \/ CallLoad(h)
    <3>1. ~CallUnload(h)
      BY DEF CallUnload, Resent, Unloads, slotVars, Runtime!Unload,
         Runtime!Empty, Runtime!Slot
    <3> QED BY <2>2, <3>1
        DEF Step, Ensure, Ask, Store, Reread, Inspect, WriteAssigned,
            WriteCleared, WriteUpdated, Report, slotVars
  <2>3. ASSUME NEW h \in Handlers PROVE ~Escape(h)
    BY DEF Escape, slotVars
  <2>4. ASSUME NEW h \in Handlers, NEW op, NEW m PROVE ~Begin(h, op, m)
    BY DEF Begin, slotVars
  <2> QED BY <2>1, <2>2, <2>3, <2>4 DEF Next, Look, vars
<1>2. PICK m \in Models : Loads(m, m) /\ m = wish
  <2>1. CASE Reload(h)
    <3> DEFINE slot == Payload(handler[h].mine)
    <3>1. handler[h] \in Threads /\ handler[h].step = "reload"
      BY <2>1, ThreadFacts DEF Reload
    <3>2. Loads(slot.managed, slot.target)
      BY <2>1 DEF Reload, Resent, slotVars
    <3>3. Agrees(slot, wish, mixed) /\ wish # None
      BY <3>1, PayloadKeeps, ThreadFacts DEF Holds, UsesMine, Agrees, Threads
    <3>4. slot.managed \in Models
      BY <3>1, SlotTypes, ThreadFacts DEF IInv, Sound, Intended, Threads, Slots
    <3>5. slot.managed = wish /\ slot.target = wish
      BY <3>3 DEF Agrees
    <3> HIDE DEF slot
    <3> QED BY <3>2, <3>4, <3>5
  <2>2. CASE CallLoad(h)
    <3>1. /\ handler[h].step = "call" /\ handler[h].op = "assign"
          /\ handler[h].model = wish /\ handler[h].model \in Models
      BY <2>2, ThreadFacts DEF CallLoad, Holds, Sound
    <3>2. Loads(handler[h].model, handler[h].model)
      BY <2>2 DEF CallLoad, Resent, slotVars
    <3> QED BY <3>1, <3>2
  <2> QED BY <1>1, <2>1, <2>2
<1> QED BY <1>2 DEF Loads, Runtime!Load, Runtime!Slot

\* The backend never loads what the operator did not choose.
THEOREM LoadsAreChosen == Spec => LoadsFollowOperator
<1>1. IInv /\ [Next]_vars =>
        [phase = "up" /\ runtime' # runtime /\ runtime'.load_state = "loading"
           /\ wish # Unknown /\ (wish = None \/ ~mixed)
         => runtime'.runtime_model_id = wish /\ label' = wish]_vars
  BY LoadIsChosen
<1> QED BY <1>1, Invariance, PTL DEF Spec, LoadsFollowOperator
=============================================================================
