---------------------------- MODULE AnswerStream ----------------------------
(***************************************************************************)
(* One answer on its way from a model to the browser.                      *)
(*                                                                         *)
(*   model --wire--> gateway --line--> caller --queue--> relay --> page    *)
(*                                                                         *)
(* The model is a server that the program does not control.  The gateway   *)
(* (llm/app/main.py) tries a list of models; a deployment may do without   *)
(* it.  The caller speaks to either: the adapter of the backend            *)
(* (platform_adapters.py) for a plain chat, the model client of the agent  *)
(* engine (runtime_clients/llm.py) for agents and knowledge chats.  The    *)
(* relay is the request of the browser (playgrounds_service.py), which     *)
(* shows what comes and appends the answer to the conversation.            *)
(*                                                                         *)
(* Tokens name the attempt they belong to, so that a text mixed from two   *)
(* attempts or cut short can be told from a whole one.                     *)
(***************************************************************************)
EXTENDS Integers, Sequences

CONSTANTS
  Length,  \* tokens of the longest answer
  Setups   \* values of [route, gateway, models, streamed, alias, kept, faults]

Routes == {"chat", "agent", "knowledge"}

ASSUME StreamAssumption ==
  /\ Length \in Nat
  /\ Setups \subseteq [route : Routes, gateway : BOOLEAN, models : Nat \ {0},
                       streamed : BOOLEAN, alias : BOOLEAN, kept : BOOLEAN, faults : Nat]

VARIABLES
  setup,    \* the deployment and the request
  model,    \* the attempt that is under way and what it has sent
  whole,    \* the texts that a model declared finished
  wire,     \* what the model sent and its reader has not read
  gateway,  \* the candidates left and the text of the one that is tried
  line,     \* what the gateway sent
  caller,   \* how often it asked and the text it got
  queue,    \* what the caller passed on
  relay,    \* what the request does, the text it passed on
  page,     \* what the browser shows and how the answer ended
  saved,    \* the text that was appended to the conversation
  status    \* that of the model call as shown to the user

streamVars == <<setup, model, whole, wire, gateway, line, caller, queue, relay,
                page, saved, status>>

Nothing == <<>>
Unsaved == <<<<0, 0>>>>
Citation == <<0, 0>>
Event(kind, text) == [kind |-> kind, text |-> text]
Sign(kind) == Event(kind, Nothing)

InEngine == setup.route # "chat"

StreamTypeOK ==
  /\ setup.route \in Routes /\ setup.faults \in Nat
  /\ model.at \in {"idle", "asked", "sending", "over"} /\ model.quiet \in BOOLEAN
  /\ model.sent \in 0..Length
  /\ gateway.at \in {"idle", "asked", "trying", "over"}
  /\ caller.at \in {"idle", "waiting", "over"} /\ caller.asks \in 0..2
  /\ caller.tries \in 0..2
  /\ relay.at \in {"starting", "reading", "saving", "telling", "over"}
  /\ page.ended \in {"open", "complete", "error", "broken", "left"}
  /\ status \in {"running", "done", "failed"}

StreamInit ==
  /\ setup \in Setups
  /\ model = [attempt |-> 0, sent |-> 0, at |-> "idle", quiet |-> FALSE]
  /\ whole = {}
  /\ wire = Nothing /\ line = Nothing /\ queue = Nothing
  /\ gateway = [at |-> "idle", left |-> 0, parts |-> Nothing]
  /\ caller = [at |-> "idle", asks |-> 0, tries |-> 0, head |-> FALSE, parts |-> Nothing,
               warned |-> FALSE]
  /\ relay = [at |-> "starting", parts |-> Nothing, text |-> Nothing]
  /\ page = [shown |-> Nothing, text |-> Nothing, ended |-> "open"]
  /\ saved = Unsaved
  /\ status = "running"

Mishap == setup.faults > 0 /\ setup' = [setup EXCEPT !.faults = @ - 1]

-----------------------------------------------------------------------------
(* The model                                                               *)

NewAttempt ==
  model' = [attempt |-> model.attempt + 1, sent |-> 0, at |-> "asked", quiet |-> FALSE]

\* A model is read as long as the gateway, or else the caller, waits for it.
ModelIsRead == IF setup.gateway THEN gateway.at = "trying" ELSE caller.at = "waiting"

ModelAt(place) == model.at = place /\ ModelIsRead /\ ~model.quiet
ModelOver == model' = [model EXCEPT !.at = "over"]
Sent == [i \in 1..model.sent |-> <<model.attempt, i>>]

downstream == <<gateway, line, caller, queue, relay, page, saved, status>>

\* A request is turned down, also because the model is not there, or lost.
ModelRefuses ==
  /\ ModelAt("asked")
  /\ Mishap
  /\ \E kind \in {"refused", "absent", "unreachable"} : wire' = Append(wire, Sign(kind))
  /\ ModelOver
  /\ UNCHANGED <<whole, downstream>>

\* Without streaming the answer comes as one body, which may tell of an error.
ModelAnswers ==
  /\ ModelAt("asked") /\ ~setup.streamed
  /\ \/ \E n \in 0..Length :
          LET text == [i \in 1..n |-> <<model.attempt, i>>]
          IN  /\ wire' = Append(wire, Event("answer", text))
              /\ whole' = whole \cup {text}
              /\ UNCHANGED setup
     \/ /\ Mishap
        /\ \E kind \in {"fault", "reset"} : wire' = Append(wire, Sign(kind))
        /\ UNCHANGED whole
  /\ ModelOver
  /\ UNCHANGED downstream

ModelOpens ==
  /\ ModelAt("asked") /\ setup.streamed
  /\ wire' = Append(wire, Sign("open"))
  /\ model' = [model EXCEPT !.at = "sending"]
  /\ UNCHANGED <<setup, whole, downstream>>

ModelSends ==
  /\ ModelAt("sending")
  /\ model.sent < Length
  /\ model' = [model EXCEPT !.sent = @ + 1]
  /\ wire' = Append(wire, Event("delta", <<<<model.attempt, model.sent + 1>>>>))
  /\ UNCHANGED <<setup, whole, downstream>>

\* [DONE], or the reason why the model finished.
ModelFinishes ==
  /\ ModelAt("sending")
  /\ wire' = Append(wire, Sign("done"))
  /\ whole' = whole \cup {Sent}
  /\ ModelOver
  /\ UNCHANGED <<setup, downstream>>

\* An error within the stream (its event may say that there is no such model),
\* a stream that just ends, a connection that is reset.
ModelBreaks ==
  /\ ModelAt("sending")
  /\ Mishap
  /\ \/ \E kind \in {"fault", "missing"} : wire' = wire \o <<Sign(kind), Sign("end")>>
     \/ \E kind \in {"end", "reset"} : wire' = Append(wire, Sign(kind))
  /\ ModelOver
  /\ UNCHANGED <<whole, downstream>>

\* It falls silent, and may go on when some of its readers gave up.
ModelStalls ==
  /\ ModelAt("asked") \/ ModelAt("sending")
  /\ Mishap
  /\ model' = [model EXCEPT !.quiet = TRUE]
  /\ UNCHANGED <<whole, wire, downstream>>

ModelGoesOn ==
  /\ model.quiet
  /\ model' = [model EXCEPT !.quiet = FALSE]
  /\ UNCHANGED <<setup, whole, wire, downstream>>

-----------------------------------------------------------------------------
(* The gateway                                                             *)

\* _iter_streaming_response_chunks and _build_response: an unknown model is
\* answered with model_not_found, an image for a model that has none with 422.
GatewayResolves ==
  /\ gateway.at = "asked"
  /\ \/ /\ Mishap
        /\ \E kind \in {"absent", "refused"} : line' = Append(line, Sign(kind))
        /\ gateway' = [gateway EXCEPT !.at = "over"]
        /\ UNCHANGED <<model, wire>>
     \/ /\ gateway' = [at |-> "trying", left |-> setup.models - 1, parts |-> Nothing]
        /\ line' = IF setup.streamed THEN Append(line, Sign("open")) ELSE line
        /\ NewAttempt
        /\ wire' = Nothing
        /\ UNCHANGED setup
  /\ UNCHANGED <<whole, caller, queue, relay, page, saved, status>>

\* Mutant: the next candidate is tried also when a part of the answer is out.
MayFailOverLate == gateway.left > 0

\* It is tried unless a part of the answer is out.
MayFailOver == gateway.parts = Nothing /\ gateway.left > 0

\* The provider raised an error, or was silent for too long.
GatewayFails ==
  IF MayFailOver
  THEN /\ gateway' = [gateway EXCEPT !.left = @ - 1]
       /\ NewAttempt
       /\ wire' = Nothing
       /\ UNCHANGED line
  ELSE /\ gateway' = [gateway EXCEPT !.at = "over"]
       /\ line' = Append(line, Sign(IF setup.streamed THEN "fault" ELSE "refused"))
       /\ wire' = Nothing
       /\ UNCHANGED model

\* The stream of the provider is over, by [DONE] or because no more comes; an
\* empty one counts as a failure.
GatewayCompletes ==
  IF gateway.parts = Nothing
  THEN GatewayFails
  ELSE /\ gateway' = [gateway EXCEPT !.at = "over"]
       /\ line' = Append(line, Event("complete", gateway.parts))
       /\ wire' = Nothing
       /\ UNCHANGED model

\* generate_stream (openai_compat.py) reads the chunks.  One that carries an error
\* has no choices and is skipped; what is not caught ends the stream.
GatewayReadsChunk ==
  /\ gateway.at = "trying" /\ setup.streamed /\ wire # Nothing
  /\ LET event == Head(wire)
     IN  \/ /\ event.kind \in {"open", "fault", "missing"}
            /\ wire' = Tail(wire)
            /\ UNCHANGED <<gateway, line, model>>
         \/ /\ event.kind = "delta"
            /\ wire' = Tail(wire)
            /\ gateway' = [gateway EXCEPT !.parts = @ \o event.text]
            /\ line' = Append(line, event)
            /\ UNCHANGED model
         \/ event.kind \in {"done", "end"} /\ GatewayCompletes
         \/ event.kind \in {"refused", "absent", "unreachable"} /\ GatewayFails
         \/ /\ event.kind = "reset"
            /\ gateway' = [gateway EXCEPT !.at = "over"]
            /\ line' = Append(line, event)
            /\ wire' = Nothing
            /\ UNCHANGED model
  /\ UNCHANGED <<setup, whole, caller, queue, relay, page, saved, status>>

\* generate and _build_response: here an error in the body counts.
GatewayReadsBody ==
  /\ gateway.at = "trying" /\ ~setup.streamed /\ wire # Nothing
  /\ LET event == Head(wire)
     IN  \/ event.kind \in {"fault", "refused", "absent", "unreachable"} /\ GatewayFails
         \/ /\ event.kind \in {"answer", "reset"}
            /\ gateway' = [gateway EXCEPT !.at = "over"]
            /\ line' = Append(line, IF event.kind = "answer" THEN event ELSE Sign("refused"))
            /\ wire' = Nothing
            /\ UNCHANGED model
  /\ UNCHANGED <<setup, whole, caller, queue, relay, page, saved, status>>

GatewayTimesOut ==
  /\ gateway.at = "trying" /\ wire = Nothing /\ model.quiet
  /\ GatewayFails
  /\ UNCHANGED <<setup, whole, caller, queue, relay, page, saved, status>>

\* The caller closed the connection.
GatewayIsLeft ==
  /\ gateway.at \in {"asked", "trying"} /\ caller.at = "over"
  /\ gateway' = [gateway EXCEPT !.at = "over"]
  /\ UNCHANGED <<setup, model, whole, wire, line, caller, queue, relay, page, saved, status>>

-----------------------------------------------------------------------------
(* The caller                                                              *)

Incoming == IF setup.gateway THEN line ELSE wire

\* In a chat the caller is a generator in the thread of the request: it runs
\* when the request asks for the next event.
CallerRuns == caller.at = "waiting" /\ (InEngine \/ (queue = Nothing /\ relay.at = "reading"))

Connect ==
  IF setup.gateway
  THEN gateway' = [gateway EXCEPT !.at = "asked"] /\ line' = Nothing
       /\ UNCHANGED <<model, wire>>
  ELSE NewAttempt /\ wire' = Nothing /\ UNCHANGED <<gateway, line>>

Ask ==
  /\ caller' = [caller EXCEPT !.at = "waiting", !.asks = @ + 1, !.tries = 1, !.head = FALSE]
  /\ Connect

CallerWaited == CallerRuns /\ Incoming = Nothing /\ model.quiet
Unreachable == CallerRuns /\ Incoming # Nothing /\ Head(Incoming).kind = "unreachable"

\* The pool of connections sends a request once more when it got no head of a
\* response, also after a time-out: what it asked before may be under way.
MaySendAgain == ~caller.head /\ caller.tries = 1

SendAgain ==
  /\ MaySendAgain /\ (CallerWaited \/ Unreachable)
  /\ caller' = [caller EXCEPT !.tries = 2]
  /\ Connect
  /\ UNCHANGED <<setup, whole, queue, relay, page, saved, status>>

\* What ends the request, unless it is sent again.
MayConclude == CallerRuns /\ Incoming # Nothing /\ ~(Unreachable /\ MaySendAgain)

\* Mutant: the end of the stream is taken for the end of the answer.
NormalizedEndIsDone(event) ==
  CASE event.kind = "answer"                     -> Event("complete", event.text)
    [] event.kind \in {"done", "end"}            -> Event("complete", caller.parts)
    [] event.kind \in {"refused", "unreachable"} -> Sign("fault")
    [] OTHER                                     -> event

\* What the readers of either format make of an event: the text of a complete
\* one is that of the gateway, or else of the parts that came.
Normalized(event) ==
  CASE event.kind = "answer"                   -> Event("complete", event.text)
    [] event.kind = "done"                     -> Event("complete", caller.parts)
    [] event.kind \in {"refused", "unreachable"} -> Sign("fault")
    [] OTHER                                   -> event

\* A body that tells of an error is taken for an answer without text.
OfBody(event) == IF event.kind = "fault" THEN Sign("complete") ELSE Normalized(event)

Received == IF setup.streamed THEN Normalized(Head(Incoming)) ELSE OfBody(Head(Incoming))

\* Headers, which change nothing here, or a part of the answer.
CallerPasses ==
  /\ CallerRuns /\ Incoming # Nothing
  /\ Received.kind \in {"open", "delta"}
  /\ IF setup.gateway THEN line' = Tail(line) /\ UNCHANGED wire
                      ELSE wire' = Tail(wire) /\ UNCHANGED line
  /\ caller' = [caller EXCEPT !.parts = @ \o Received.text, !.head = TRUE]
  /\ queue' = IF Received.kind = "delta" THEN Append(queue, Received) ELSE queue
  /\ UNCHANGED <<setup, model, whole, gateway, relay, page, saved, status>>

\* The caller is through with its source and passes on the last event.
Conclude(event) ==
  /\ caller' = [caller EXCEPT !.at = "over"]
  /\ queue' = Append(queue, event)
  /\ wire' = IF setup.gateway THEN wire ELSE Nothing
  /\ line' = Nothing
  /\ UNCHANGED <<gateway, model>>

\* One request may be followed by one for the local alias.
MayFallBack == setup.alias /\ caller.asks = 1

\* chat_completion_stream of the adapter.  When the model is not there, it asks
\* once more for the local alias; when it is told so within the stream, it says
\* that it does, and ends.
AdapterEnds ==
  /\ ~InEngine /\ MayConclude /\ setup.streamed
  /\ LET kind == Received.kind
     IN  \/ kind = "complete" /\ Conclude(Received)
         \/ kind = "absent" /\ MayFallBack /\ Ask /\ UNCHANGED queue
         \/ /\ kind = "missing" /\ MayFallBack /\ caller.parts = Nothing
            /\ caller' = [caller EXCEPT !.at = "over", !.warned = TRUE]
            /\ queue' = Append(queue, Sign("end"))
            /\ wire' = Nothing
            /\ UNCHANGED <<gateway, line, model>>
         \/ /\ kind = "fault" \/ (kind = "absent" /\ ~MayFallBack)
               \/ (kind = "missing" /\ ~(MayFallBack /\ caller.parts = Nothing))
            /\ Conclude(Sign("error"))
         \/ kind \in {"end", "reset"} /\ Conclude(Received)
  /\ UNCHANGED <<setup, whole, relay, page, saved, status>>

\* chat_completion of the adapter, which returns the body and its status.
AdapterReturns ==
  /\ ~InEngine /\ MayConclude /\ ~setup.streamed
  /\ \/ Received.kind = "complete" /\ Conclude(Received)
     \/ Received.kind = "absent" /\ MayFallBack /\ Ask /\ UNCHANGED queue
     \/ /\ Received.kind \in {"fault", "reset"}
           \/ (Received.kind = "absent" /\ ~MayFallBack)
        /\ Conclude(Sign("error"))
  /\ UNCHANGED <<setup, whole, relay, page, saved, status>>

\* stream_model_completion in the engine: whatever is not an answer fails the
\* execution, which its stream reports as an error.
ClientEnds ==
  /\ InEngine /\ MayConclude /\ setup.streamed
  /\ Received.kind \notin {"open", "delta"}
  /\ IF Received.kind = "complete"
     THEN Conclude(Received) /\ status' = "done"
     ELSE /\ Conclude(Sign("error"))
          /\ status' = IF Received.kind = "reset" THEN status ELSE "failed"
  /\ UNCHANGED <<setup, whole, relay, page, saved>>

\* chat_completion in the engine.
ClientReturns ==
  /\ InEngine /\ MayConclude /\ ~setup.streamed
  /\ IF Received.kind = "complete"
     THEN Conclude(Received) /\ status' = "done"
     ELSE /\ Conclude(Sign("error"))
          /\ status' = IF Received.kind = "reset" THEN status ELSE "failed"
  /\ UNCHANGED <<setup, whole, relay, page, saved>>

\* The adapter's socket times out.
AdapterTimesOut ==
  /\ ~InEngine /\ CallerWaited /\ ~MaySendAgain
  /\ Conclude(Sign("error"))
  /\ UNCHANGED <<setup, whole, relay, page, saved, status>>

\* Mutant: the engine waits for ever.
ClientWaits == FALSE /\ UNCHANGED streamVars

\* That of the engine does.
ClientTimesOut ==
  /\ InEngine /\ CallerWaited /\ ~MaySendAgain
  /\ Conclude(Sign("error"))
  /\ status' = "failed"
  /\ UNCHANGED <<setup, whole, relay, page, saved>>

\* The request is over and closes its generator; the thread of an execution
\* does not hear of it.
CallerIsLeft ==
  /\ caller.at \in {"idle", "waiting"} /\ relay.at = "over"
  /\ ~InEngine \/ caller.at = "idle"
  /\ caller' = [caller EXCEPT !.at = "over"]
  /\ UNCHANGED <<setup, model, whole, wire, gateway, line, queue, relay, page, saved, status>>

\* The engine is lost, its connections end.
EngineDies ==
  /\ InEngine /\ caller.at = "waiting"
  /\ Mishap
  /\ caller' = [caller EXCEPT !.at = "over"]
  /\ queue' = Append(queue, Sign("end"))
  /\ UNCHANGED <<model, whole, wire, gateway, line, relay, page, saved, status>>

-----------------------------------------------------------------------------
(* The relay                                                               *)

\* The request ends; a browser that is gone sees nothing of it.
EndRequest(how) ==
  /\ relay' = [relay EXCEPT !.at = "over"]
  /\ page' = IF page.ended = "left" THEN page ELSE [page EXCEPT !.ended = how]

\* How a request ends by what nobody expects: a stream breaks off, without one an
\* error is returned.
Raised == IF setup.streamed THEN "broken" ELSE "error"

\* The model of a chat is looked up: it must be invokable, bound and exposed by
\* its provider.
ChatStarts ==
  /\ relay.at = "starting" /\ setup.route = "chat"
  /\ \/ Mishap /\ EndRequest("error") /\ UNCHANGED <<model, wire, gateway, line, caller>>
     \/ relay' = [relay EXCEPT !.at = "reading"] /\ Ask /\ UNCHANGED <<setup, page>>
  /\ UNCHANGED <<whole, queue, saved, status>>

\* The runtime of an agent or a knowledge chat is looked up before the engine is
\* asked, after the stream has begun.
EngineIsAsked ==
  /\ relay.at = "starting" /\ InEngine
  /\ \/ Mishap /\ EndRequest(Raised)
        /\ UNCHANGED <<model, wire, gateway, line, caller>>
     \/ relay' = [relay EXCEPT !.at = "reading"] /\ Ask /\ UNCHANGED <<setup, page>>
  /\ UNCHANGED <<whole, queue, saved, status>>

\* A write to a browser that is gone ends the request.
Show(text) ==
  IF page.ended = "left"
  THEN EndRequest("left")
  ELSE /\ page' = [page EXCEPT !.shown = @ \o text]
       /\ relay' = [relay EXCEPT !.parts = @ \o text]

Accept(text) ==
  /\ relay' = [relay EXCEPT !.at = IF setup.kept THEN "saving" ELSE "telling", !.text = text]
  /\ UNCHANGED page

\* The text of the result, or else what was passed on.
TextOf(event) == IF event.text = Nothing THEN relay.parts ELSE event.text

upstream == <<setup, model, whole, wire, gateway, line, caller>>

\* _execute_chat_request; an answer without text is an error.
ChatReturns ==
  /\ ~InEngine /\ ~setup.streamed /\ relay.at = "reading" /\ queue # Nothing
  /\ queue' = Tail(queue)
  /\ LET event == Head(queue)
     IN  IF event.kind = "complete" /\ event.text # Nothing
         THEN Accept(event.text) /\ status' = "done"
         ELSE EndRequest("error") /\ status' = "failed"
  /\ UNCHANGED <<upstream, saved>>

\* _stream_llm_chat_execution.  A stream that ends without a result is an error,
\* which leaves the status of the call open.
ChatReads ==
  /\ ~InEngine /\ setup.streamed /\ relay.at = "reading" /\ queue # Nothing
  /\ queue' = Tail(queue)
  /\ LET event == Head(queue)
     IN  \/ event.kind = "delta" /\ Show(event.text) /\ UNCHANGED status
         \/ /\ event.kind = "complete" /\ TextOf(event) # Nothing
            /\ Accept(TextOf(event))
            /\ status' = "done"
         \/ /\ event.kind = "error" \/ (event.kind = "complete" /\ TextOf(event) = Nothing)
            /\ EndRequest("error")
            /\ status' = "failed"
         \/ event.kind = "end" /\ EndRequest("error") /\ UNCHANGED status
         \/ event.kind = "reset" /\ EndRequest("broken") /\ UNCHANGED status
  /\ UNCHANGED <<upstream, saved>>

\* execute_agent_chat_request
AgentReturns ==
  /\ setup.route = "agent" /\ ~setup.streamed /\ relay.at = "reading" /\ queue # Nothing
  /\ queue' = Tail(queue)
  /\ LET event == Head(queue)
     IN  IF event.kind = "complete" THEN Accept(event.text) ELSE EndRequest("error")
  /\ UNCHANGED <<upstream, saved, status>>

\* stream_agent_chat_request
AgentReads ==
  /\ setup.route = "agent" /\ setup.streamed /\ relay.at = "reading" /\ queue # Nothing
  /\ queue' = Tail(queue)
  /\ LET event == Head(queue)
     IN  \/ event.kind = "delta" /\ Show(event.text)
         \/ event.kind = "complete" /\ Accept(TextOf(event))
         \/ event.kind \in {"error", "end"} /\ EndRequest("error")
  /\ UNCHANGED <<upstream, saved, status>>

\* add_missing_reference_citation: the model may have forgotten it.
Cited(text) == {text, Append(text, Citation)}

\* execute_knowledge_request
KnowledgeReturns ==
  /\ setup.route = "knowledge" /\ ~setup.streamed /\ relay.at = "reading" /\ queue # Nothing
  /\ queue' = Tail(queue)
  /\ LET event == Head(queue)
     IN  \/ event.kind = "complete" /\ \E text \in Cited(event.text) : Accept(text)
         \/ event.kind # "complete" /\ EndRequest("error")
  /\ UNCHANGED <<upstream, saved, status>>

\* stream_knowledge_request
KnowledgeReads ==
  /\ setup.route = "knowledge" /\ setup.streamed /\ relay.at = "reading" /\ queue # Nothing
  /\ queue' = Tail(queue)
  /\ LET event == Head(queue)
     IN  \/ event.kind = "delta" /\ Show(event.text)
         \/ /\ event.kind = "complete"
            /\ \E text \in Cited(TextOf(event)) : Accept(text)
         \/ event.kind \in {"error", "end"} /\ EndRequest("error")
  /\ UNCHANGED <<upstream, saved, status>>

RelayWaited == /\ InEngine /\ relay.at = "reading" /\ queue = Nothing
               /\ model.quiet /\ caller.at = "waiting"

\* The request gives up on the engine: its stream (_request_sse) ...
RelayTimesOut ==
  /\ setup.streamed /\ RelayWaited
  /\ EndRequest("error")
  /\ UNCHANGED <<upstream, queue, saved, status>>

\* ... or its answer (_request_json).
RequestTimesOut ==
  /\ ~setup.streamed /\ RelayWaited
  /\ EndRequest("error")
  /\ UNCHANGED <<upstream, queue, saved, status>>

\* _persist_execution_result, and what is read of the conversation for the answer.
\* The conversation may be gone, the database fail, or something fail after the
\* messages are in: a stream just ends, without one an error is returned.
Save ==
  /\ relay.at = "saving"
  /\ \/ /\ saved' = relay.text
        /\ relay' = [relay EXCEPT !.at = "telling"]
        /\ UNCHANGED <<page, setup>>
     \/ Mishap /\ saved' \in {saved, relay.text}
        /\ EndRequest(Raised)
  /\ UNCHANGED <<model, whole, wire, gateway, line, caller, queue, status>>

Tell ==
  /\ relay.at = "telling"
  /\ relay' = [relay EXCEPT !.at = "over"]
  /\ page' = IF page.ended = "left" THEN page
             ELSE [page EXCEPT !.ended = "complete", !.text = relay.text]
  /\ UNCHANGED <<upstream, queue, saved, status>>

\* The browser stops the request or is closed.
Leave ==
  /\ page.ended = "open"
  /\ Mishap
  /\ page' = [page EXCEPT !.ended = "left"]
  /\ UNCHANGED <<model, whole, wire, gateway, line, caller, queue, relay, saved, status>>

-----------------------------------------------------------------------------
ModelStep == ModelAnswers \/ ModelOpens \/ ModelSends \/ ModelFinishes
GatewayStep == GatewayResolves \/ GatewayReadsChunk \/ GatewayReadsBody
               \/ GatewayTimesOut \/ GatewayIsLeft
CallerStep == SendAgain \/ CallerPasses \/ AdapterEnds \/ AdapterReturns \/ ClientEnds \/ ClientReturns
              \/ AdapterTimesOut \/ ClientTimesOut \/ CallerIsLeft
RelayStep == ChatStarts \/ EngineIsAsked \/ ChatReads \/ ChatReturns \/ AgentReads
             \/ AgentReturns \/ KnowledgeReads \/ KnowledgeReturns
             \/ RelayTimesOut \/ RequestTimesOut \/ Save \/ Tell

StreamNext ==
  \/ ModelStep \/ ModelRefuses \/ ModelBreaks \/ ModelStalls \/ ModelGoesOn
  \/ GatewayStep \/ CallerStep \/ EngineDies \/ RelayStep \/ Leave

\* Processes run and sockets time out; a model may stay silent.
StreamFairness ==
  /\ WF_streamVars(ModelStep) /\ WF_streamVars(GatewayStep)
  /\ WF_streamVars(CallerStep) /\ WF_streamVars(RelayStep)

StreamSpec == StreamInit /\ [][StreamNext]_streamVars /\ StreamFairness

-----------------------------------------------------------------------------
\* What the user sees is the beginning of one attempt: neither the failover of
\* the gateway nor the fallback of the adapter continues a text that another
\* model began.
OneAttemptShown ==
  \A i \in DOMAIN page.shown :
    page.shown[i][1] = page.shown[1][1] /\ page.shown[i][2] = i

\* When the answer is complete, what was streamed is what the result says and
\* what the conversation keeps, but for a citation; the call is shown as done.
CompleteAsShown ==
  page.ended = "complete" =>
    /\ setup.streamed => page.text \in {page.shown, Append(page.shown, Citation)}
    /\ saved = IF setup.kept THEN page.text ELSE Unsaved
    /\ status = "done"

\* Without a gateway no part of a streamed answer is kept for a whole one.
KeptIsWhole ==
  ~setup.gateway /\ setup.streamed /\ saved # Unsaved =>
    \E text \in whole : saved \in {text, Append(text, Citation)}

\* The same behind the gateway, which takes the end of a stream for the end of
\* the answer and does not see the errors in it.
KeptIsWholeOverGateway ==
  saved # Unsaved => \E text \in whole : saved \in {text, Append(text, Citation)}

\* A stream that tells of an error has kept nothing: the message may be sent again.
\* Without streaming the conversation may hold the answer in spite of an error, but
\* never a part of one, or one of a call that failed.
ErrorKeepsNoPart ==
  page.ended = "error" /\ saved # Unsaved =>
    ~setup.streamed /\ setup.kept /\ status = "done" /\ saved = relay.text

\* What the conversation keeps is the answer the model gave and the user saw.
AnswerIsKeptWhole ==
  StreamTypeOK /\ CompleteAsShown /\ KeptIsWhole /\ ErrorKeepsNoPart

\* The adapter asks for the local alias when it has announced that it does.
AnnouncedFallbackIsMade == caller.warned => caller.asks = 2

\* Whatever breaks or falls silent, the browser's request comes to an end and the
\* call of the model is not left behind.
StreamEnds == <>(page.ended # "open" /\ relay.at = "over" /\ caller.at = "over")
=============================================================================
