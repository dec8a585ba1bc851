---------------------------- MODULE WorkflowChat ----------------------------
(***************************************************************************)
(* One playground conversation with a workflow agent: its messages         *)
(* (repositories/chat_conversations.py), the row that carries the workflow *)
(* from turn to turn (repositories/agent_workflow_runs.py), and the        *)
(* requests that work on both (application/playgrounds_service.py and      *)
(* application/playground_conversation_actions_service.py).                *)
(*                                                                         *)
(* A request is a few transactions around one long call of the agent       *)
(* engine, and no transaction covers both tables: requests overlap, an     *)
(* exception or a lost process leaves the later tables as they were.       *)
(***************************************************************************)
EXTENDS Naturals, Sequences, FiniteSets

CONSTANTS
  Requests,   \* HTTP requests on the conversation, each made at most once
  NoRequest,
  NoRun,
  Rooms       \* how many requests are made and how many are at work at once,
              \* and how many failures, lost settings, crashes and deletions
              \* may happen

ASSUME ChatAssumption ==
  /\ NoRequest \notin Requests
  /\ Rooms \subseteq [failures : Nat, losses : Nat, crashes : Nat, deletions : Nat,
                        requests : Nat, overlap : Nat]

VARIABLES
  mode,          \* workflow_execution_mode of the published agent
  conversation,  \* whether the row of chat_conversations exists
  lock,          \* the request that holds the row FOR UPDATE
  messages,      \* chat_messages in the order they were inserted
  run,           \* the row of agent_workflow_runs, or NoRun
  request,       \* what each request is at
  room           \* what is left of one of Rooms

vars == <<mode, conversation, lock, messages, run, request, room>>

Kinds == {"none", "create", "turn", "start"}
Places == {"idle", "load", "check", "claim", "engine", "lock", "insert",
           "reread", "upsert", "consume", "restore", "done"}
Outcomes == {"none", "ok", "refused", "failed", "broken"}
Statuses == {"none", "awaiting_user_input", "completed"}
ActionStates == {"none", "enabled", "executing", "consumed"}

MessageRows == [index : Nat, role : {"user", "assistant"}, by : Requests,
                action : ActionStates, cycle : Nat \ {0}, status : Statuses,
                due : BOOLEAN, late : BOOLEAN]
RunRows == [status : Statuses, state : {"active", "closed"}, cycle : Nat \ {0},
            boundary : Nat, by : Requests]
RequestStates == [kind : Kinds, at : Places, target : Nat,
                  seen : ActionStates \cup {"expired", "reconciled"}, cycle : Nat,
                  status : Statuses, next : Nat, boundary : Nat, outcome : Outcomes,
                  lost : BOOLEAN, alone : BOOLEAN]

ASSUME NoRunAssumption == NoRun \notin RunRows

\* cycle 0 stands for a cycle the request does not know.
Unused == [kind |-> "none", at |-> "idle", target |-> 0, seen |-> "none",
           cycle |-> 0, status |-> "none", next |-> 0, boundary |-> 0,
           outcome |-> "none", lost |-> FALSE, alone |-> TRUE]

AtWork(r) == request[r].at \notin {"idle", "done"}
Bootstraps(r) == request[r].kind \in {"create", "start"}

Set(r, fields) == request' = [request EXCEPT ![r] = fields]
Goto(r, place) == Set(r, [request[r] EXCEPT !.at = place])
\* Of a request that ended, only what the properties ask for is kept.
Ended(q, outcome) ==
  [Unused EXCEPT !.kind = q.kind, !.at = "done", !.target = q.target,
                 !.outcome = outcome, !.lost = q.lost, !.alone = q.alone]
End(r, outcome) == Set(r, Ended(request[r], outcome))

(***************************************************************************)
(* The state a request starts from (build_workflow_runtime_state).         *)
(***************************************************************************)
CycleOf(row) == IF row = NoRun THEN 1 ELSE row.cycle

\* Deviation: the boundary of the cycle is not read.
NoBoundaryOf(row) == 0

BoundaryOf(row) == IF row = NoRun THEN 0 ELSE row.boundary

StateOf(row) == IF row = NoRun THEN "active" ELSE row.state

\* Where an exception in the rest of a request leads: the try block around the
\* bootstrap of a start gives the action back, other requests just end.
Raise(r) ==
  IF request[r].kind = "start" /\ request[r].at \in {"engine", "lock", "insert", "upsert"}
    THEN Goto(r, "restore")
    ELSE End(r, IF request[r].at \in {"consume", "restore"} THEN "broken" ELSE "failed")

Unlock(r) == lock' = IF lock = r THEN NoRequest ELSE lock

-----------------------------------------------------------------------------
Init ==
  /\ mode \in {"loop", "one_time"}
  /\ conversation = "none"
  /\ lock = NoRequest
  /\ messages = <<>>
  /\ run = NoRun
  /\ request = [r \in Requests |-> Unused]
  /\ room \in Rooms

\* A request begins; it is alone until another one begins.
Begin(r, kind, target, place) ==
  /\ request[r].at = "idle"
  /\ Cardinality({q \in Requests : request[q].at # "idle"}) < room.requests
  /\ Cardinality({q \in Requests : AtWork(q)}) < room.overlap
  /\ request' = [q \in Requests |->
       IF q = r THEN [Unused EXCEPT !.kind = kind, !.target = target, !.at = place,
                        !.seen = IF target = 0 THEN "none"
                                 ELSE IF messages[target].due THEN "expired"
                                 ELSE messages[target].action,
                        !.alone = \A p \in Requests : ~AtWork(p)]
       ELSE IF AtWork(q) THEN [request[q] EXCEPT !.alone = FALSE]
       ELSE request[q]]

\* create_playground_session: the row is committed before the greeting is asked for.
CreateSession(r) ==
  /\ conversation = "none"
  /\ Begin(r, "create", 0, "load")
  /\ conversation' = "open"
  /\ UNCHANGED <<mode, lock, messages, run, room>>

\* send_playground_message and stream_playground_message.
SendMessage(r) ==
  /\ conversation = "open"
  /\ Begin(r, "turn", 0, "load")
  /\ UNCHANGED <<mode, conversation, lock, messages, run, room>>

\* execute_playground_message_action: the messages are read first.
StartCycle(r) ==
  /\ conversation = "open"
  /\ \E m \in 1..Len(messages) :
       messages[m].action # "none" /\ Begin(r, "start", m, "check")
  /\ UNCHANGED <<mode, conversation, lock, messages, run, room>>

\* delete_playground_session; messages and run go with the row.
DeleteSession ==
  /\ conversation = "open"
  /\ lock = NoRequest
  /\ room.deletions > 0
  /\ conversation' = "deleted"
  /\ messages' = <<>>
  /\ run' = NoRun
  /\ room' = [room EXCEPT !.deletions = @ - 1]
  /\ UNCHANGED <<mode, lock, request>>

-----------------------------------------------------------------------------
\* The bootstrap of a new session: cycle 1 of a workflow agent.
LoadCreate(r) ==
  /\ request[r].kind = "create"
  /\ request[r].at = "load"
  /\ Set(r, [request[r] EXCEPT !.at = "engine", !.cycle = 1])
  /\ UNCHANGED <<mode, conversation, lock, messages, run, room>>

\* Deviation: a closed session is not refused.
LoadTurnOfClosed(r) ==
  /\ request[r].kind = "turn"
  /\ request[r].at = "load"
  /\ Set(r, [request[r] EXCEPT !.at = "engine", !.cycle = CycleOf(run)])
  /\ UNCHANGED <<mode, conversation, lock, messages, run, room>>

\* _build_execution_request reads the run; a closed session is refused.
LoadTurn(r) ==
  /\ request[r].kind = "turn"
  /\ request[r].at = "load"
  /\ IF StateOf(run) = "closed"
       THEN End(r, "refused")
       ELSE Set(r, [request[r] EXCEPT !.at = "engine", !.cycle = CycleOf(run)])
  /\ UNCHANGED <<mode, conversation, lock, messages, run, room>>

\* _workflow_assistant_settings returns None on any exception: a turn goes on
\* as if the agent were no workflow, a bootstrap silently does nothing (or, in
\* a new session, takes the agent for a one-time workflow), and a start is
\* refused before it claims its action.
LoseSettings(r) ==
  /\ room.losses > 0
  /\ room' = [room EXCEPT !.losses = @ - 1]
  /\ LET lost == [request[r] EXCEPT !.lost = TRUE] IN
     \/ /\ request[r].kind = "turn" /\ request[r].at = "load"
        /\ Set(r, [lost EXCEPT !.at = "engine"])
     \/ /\ request[r].kind = "create" /\ request[r].at = "load"
        /\ \/ Set(r, Ended(lost, "ok"))
           \/ Set(r, [lost EXCEPT !.at = "engine", !.cycle = 1])
     \/ /\ request[r].kind = "start" /\ request[r].at = "engine"
        /\ Set(r, [lost EXCEPT !.at = "consume"])
     \/ /\ request[r].kind = "start" /\ request[r].at = "check"
        /\ Set(r, Ended(lost, "refused"))
  /\ UNCHANGED <<mode, conversation, lock, messages, run>>

-----------------------------------------------------------------------------
(***************************************************************************)
(* transition_message_action: compare and set under a lock on the rows of  *)
(* message and conversation, which may be gone.                            *)
(***************************************************************************)
Transition(m, expected, next) ==
  /\ lock = NoRequest
  /\ IF m \in 1..Len(messages) /\ messages[m].action \in expected
       THEN messages' = [messages EXCEPT ![m].action = next, ![m].due = FALSE]
       ELSE messages' = messages

\* _start_workflow_cycle, up to the claim: the run decides what the action is worth.
CheckStart(r) ==
  LET cycle == messages[request[r].target].cycle IN
  /\ request[r].at = "check"
  /\ conversation = "open"
  /\ CASE mode # "loop" -> End(r, "refused")
       [] mode = "loop" /\ CycleOf(run) > cycle ->
            Set(r, [request[r] EXCEPT !.at = "consume", !.seen = "reconciled"])
       [] mode = "loop" /\ CycleOf(run) <= cycle ->
            IF /\ run # NoRun
               /\ run.cycle = cycle
               /\ run.state = "active"
               /\ run.status = "completed"
               /\ request[r].seen \in {"enabled", "expired"}
            THEN Set(r, [request[r] EXCEPT !.at = "claim", !.cycle = cycle + 1])
            ELSE End(r, "refused")
  /\ UNCHANGED <<mode, conversation, lock, messages, run, room>>

\* The session is gone between the reads and the checks: no run, a stale action.
CheckDeleted(r) ==
  /\ request[r].at = "check"
  /\ conversation = "deleted"
  /\ End(r, "refused")
  /\ UNCHANGED <<mode, conversation, lock, messages, run, room>>

ClaimedFrom(seen) == IF seen = "enabled" THEN {"enabled"} ELSE {"executing"}

\* Deviation: the claim does not compare the state it read.
ClaimBlindly(r) ==
  /\ request[r].at = "claim"
  /\ Transition(request[r].target, ActionStates, "executing")
  /\ Goto(r, "engine")
  /\ UNCHANGED <<mode, conversation, lock, run, room>>

\* The claim: enabled, or executing with a lease that has run out.
Claim(r) ==
  LET m == request[r].target IN
  /\ request[r].at = "claim"
  /\ Transition(m, ClaimedFrom(request[r].seen), "executing")
  /\ IF m \in 1..Len(messages) /\ messages[m].action \in ClaimedFrom(request[r].seen)
       THEN Goto(r, "engine")
       ELSE End(r, "refused")
  /\ UNCHANGED <<mode, conversation, lock, run, room>>

\* The last transition of a start; that it finds another state is ignored.
Consume(r) ==
  /\ request[r].at = "consume"
  /\ Transition(request[r].target,
       IF request[r].seen = "reconciled" THEN {"enabled", "executing"} ELSE {"executing"},
       "consumed")
  /\ End(r, "ok")
  /\ UNCHANGED <<mode, conversation, lock, run, room>>

\* The exception handler of a start.
Restore(r) ==
  /\ request[r].at = "restore"
  /\ Transition(request[r].target, {"executing"}, "enabled")
  /\ End(r, "failed")
  /\ UNCHANGED <<mode, conversation, lock, run, room>>

\* ACTION_EXECUTION_LEASE, two minutes, runs out.
LeaseRunsOut(m) ==
  /\ m \in 1..Len(messages)
  /\ messages[m].action = "executing"
  /\ ~messages[m].due
  /\ messages' = [messages EXCEPT ![m].due = TRUE, ![m].late = TRUE]
  /\ UNCHANGED <<mode, conversation, lock, run, request, room>>

-----------------------------------------------------------------------------
\* The agent engine answers; the workflow waits for input or is complete.
EngineAnswers(r) ==
  /\ request[r].at = "engine"
  /\ \E status \in {"awaiting_user_input", "completed"} :
       Set(r, [request[r] EXCEPT !.at = "lock", !.status = status])
  /\ UNCHANGED <<mode, conversation, lock, messages, run, room>>

NextIndex == IF messages = <<>> THEN 0 ELSE messages[Len(messages)].index + 1

\* Deviation: the index is read without the lock on the row.
ReadIndex(r) ==
  /\ request[r].at = "lock"
  /\ conversation = "open"
  /\ Set(r, [request[r] EXCEPT !.at = "insert", !.next = NextIndex])
  /\ UNCHANGED <<mode, conversation, lock, messages, run, room>>

\* append_message_pair and append_messages: SELECT ... FOR UPDATE, then the
\* greatest index.
LockConversation(r) ==
  /\ request[r].at = "lock"
  /\ lock = NoRequest
  /\ IF conversation = "open"
       THEN /\ Set(r, [request[r] EXCEPT !.at = "insert", !.next = NextIndex])
            /\ lock' = r
       ELSE Raise(r) /\ lock' = lock
  /\ UNCHANGED <<mode, conversation, messages, run, room>>

\* The mode a turn believes in: without settings it is the default.
ModeOf(r) == IF request[r].lost THEN "one_time" ELSE mode

\* A completed cycle of a loop offers the next one.
Offer(r) ==
  IF ModeOf(r) = "loop" /\ request[r].status = "completed" THEN "enabled" ELSE "none"

Message(r, role, index, action) ==
  [index |-> index, role |-> role, by |-> r, action |-> action,
   cycle |-> IF request[r].cycle = 0 THEN 1 ELSE request[r].cycle,
   status |-> request[r].status, due |-> FALSE, late |-> FALSE]

\* The user's message and the answer, or the greeting alone; then the commit.
InsertMessages(r) ==
  LET next == request[r].next IN
  /\ request[r].at = "insert"
  /\ messages' = messages \o
       IF Bootstraps(r)
         THEN <<Message(r, "assistant", next, Offer(r))>>
         ELSE <<Message(r, "user", next, "none"),
                Message(r, "assistant", next + 1, Offer(r))>>
  /\ Unlock(r)
  /\ IF Bootstraps(r)
       THEN Set(r, [request[r] EXCEPT !.at = "upsert", !.boundary = next])
       ELSE Goto(r, "reread")
  /\ UNCHANGED <<mode, conversation, run, room>>

\* A turn reads the run again, for the boundary of its cycle.
RereadRun(r) ==
  /\ request[r].at = "reread"
  /\ Set(r, [request[r] EXCEPT !.at = "upsert", !.boundary = BoundaryOf(run),
               !.cycle = IF @ = 0 THEN CycleOf(run) ELSE @])
  /\ UNCHANGED <<mode, conversation, lock, messages, run, room>>

\* resolve_workflow_lifecycle_outcome.
SessionState(r) ==
  IF ~Bootstraps(r) /\ ModeOf(r) = "one_time" /\ request[r].status = "completed"
    THEN "closed" ELSE "active"

\* upsert_workflow_run overwrites whatever is there; a new row references the
\* conversation and waits for its lock.
UpsertRun(r) ==
  /\ request[r].at = "upsert"
  /\ run = NoRun => lock = NoRequest
  /\ IF conversation = "open"
       THEN /\ run' = [status |-> request[r].status, state |-> SessionState(r),
                       cycle |-> request[r].cycle, boundary |-> request[r].boundary,
                       by |-> r]
            /\ IF request[r].kind = "start" THEN Goto(r, "consume") ELSE End(r, "ok")
       ELSE Raise(r) /\ run' = run
  /\ UNCHANGED <<mode, conversation, lock, messages, room>>

-----------------------------------------------------------------------------
\* The engine or a statement fails (or the client of a stream goes away): the
\* transaction is rolled back and the exception propagates.
Fail(r) ==
  /\ AtWork(r)
  /\ room.failures > 0
  /\ room' = [room EXCEPT !.failures = @ - 1]
  /\ Raise(r)
  /\ Unlock(r)
  /\ UNCHANGED <<mode, conversation, messages, run>>

\* The backend process is lost with all its requests.
Crash ==
  /\ room.crashes > 0
  /\ \E r \in Requests : AtWork(r)
  /\ room' = [room EXCEPT !.crashes = @ - 1]
  /\ lock' = NoRequest
  /\ request' = [r \in Requests |->
       IF AtWork(r) THEN Ended(request[r], "broken")
       ELSE request[r]]
  /\ UNCHANGED <<mode, conversation, messages, run>>

Step(r) ==
  \/ LoadCreate(r) \/ LoadTurn(r)
  \/ CheckStart(r) \/ CheckDeleted(r) \/ Claim(r) \/ Consume(r) \/ Restore(r)
  \/ EngineAnswers(r) \/ LockConversation(r) \/ InsertMessages(r)
  \/ RereadRun(r) \/ UpsertRun(r)

Next ==
  \/ \E r \in Requests :
       \/ CreateSession(r) \/ SendMessage(r) \/ StartCycle(r)
       \/ Step(r) \/ LoseSettings(r) \/ Fail(r)
  \/ \E m \in 1..Len(messages) : LeaseRunsOut(m)
  \/ DeleteSession
  \/ Crash

Spec == Init /\ [][Next]_vars

-----------------------------------------------------------------------------
Positions == 1..Len(messages)

\* Everything has its type; the row lock is held by who inserts.
TypeOK ==
  /\ mode \in {"loop", "one_time"}
  /\ conversation \in {"none", "open", "deleted"}
  /\ lock \in Requests \cup {NoRequest}
  /\ \A r \in Requests : lock = r <=> request[r].at = "insert"
  /\ messages \in Seq(MessageRows)
  /\ run \in {NoRun} \cup RunRows
  /\ request \in [Requests -> RequestStates]
  /\ room \in [failures : Nat, losses : Nat, crashes : Nat, deletions : Nat,
               requests : Nat, overlap : Nat]

\* However requests overlap, fail or crash, indices count the messages and a
\* user's message is followed by the answer of the same request
\* (append_message_pair under the lock of the row).
MessagesInPairs ==
  /\ TypeOK
  /\ \A i \in Positions :
       /\ messages[i].index = i - 1
       /\ messages[i].role = "user" =>
            /\ i < Len(messages)
            /\ messages[i + 1].role = "assistant"
            /\ messages[i + 1].by = messages[i].by

Greets(i, r) == messages[i].by = r /\ Bootstraps(r)

\* One action starts its cycle twice only if the first start was cut short
\* after its greeting or the lease of the action ran out (the claims of
\* _start_workflow_cycle).
StartedOncePerLease ==
  \A i, j \in Positions : \A r, s \in Requests :
    /\ i < j /\ Greets(i, r) /\ Greets(j, s)
    /\ request[r].kind = "start" /\ request[s].kind = "start"
    /\ request[r].target = request[s].target
    => \/ request[r].outcome \in {"failed", "broken"} \/ request[r].at = "restore"
       \/ messages[request[r].target].late

\* A consumed action has started the next cycle, unless the settings of the
\* agent could not be read and the bootstrap did nothing: a start that failed
\* leaves the action to be used again.
ConsumedWasStarted ==
  \A i \in Positions : messages[i].action = "consumed" =>
    \/ \E j \in Positions :
         messages[j].cycle = messages[i].cycle + 1 /\ Bootstraps(messages[j].by)
    \/ \E r \in Requests : request[r].target = i /\ request[r].lost

\* An action is left executing, with nobody at work on it, only by a start
\* whose process was lost or whose last statement failed; any other failure
\* gives it back.
NoAbandonedAction ==
  \A i \in Positions : messages[i].action = "executing" =>
    \E r \in Requests :
      /\ request[r].target = i
      /\ AtWork(r) \/ request[r].outcome = "broken"

\* What becomes of an action: used once, for a cycle, or given back.
ActionsAreUsedOnce == StartedOncePerLease /\ ConsumedWasStarted /\ NoAbandonedAction

\* A request that overlapped no other and read the agent's settings never
\* moves the workflow back to an earlier cycle nor reopens a closed session.
RunAdvances ==
  [][/\ run # NoRun /\ run' # NoRun
     /\ run'.cycle < run.cycle \/ (run.state = "closed" /\ run'.state = "active")
     => ~request[run'.by].alone \/ request[run'.by].lost]_vars

Undisturbed == \A r \in Requests : request[r].alone /\ ~request[r].lost

\* Once the request that wrote the last message has ended well and alone, the
\* run stands where the messages stand: its status and cycle, closed exactly
\* when a one-time workflow was completed by a turn.  If requests never
\* overlapped, nothing of an earlier cycle is inside the boundary.
RunFollowsMessages ==
  (messages # <<>> /\ \A r \in Requests : ~AtWork(r)) =>
    LET last == messages[Len(messages)]
        r == last.by
    IN /\ (request[r].outcome = "ok" /\ request[r].alone /\ ~request[r].lost) =>
            /\ run # NoRun
            /\ run.by = r
            /\ run.status = last.status
            /\ run.cycle = last.cycle
            /\ run.state = "closed" <=>
                 request[r].kind = "turn" /\ mode = "one_time" /\ last.status = "completed"
       /\ (Undisturbed /\ run # NoRun) =>
            \A i \in Positions : i > run.boundary => messages[i].cycle >= run.cycle
=============================================================================
