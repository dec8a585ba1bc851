------------------------------ MODULE HttpPool ------------------------------
(***************************************************************************)
(* The pooled HTTP client of the agent engine: _PooledHttpClient and       *)
(* http_json_request (runtime_clients/transport.py), for the connections   *)
(* to one origin.  Callers are the threads that run executions.            *)
(*                                                                         *)
(* A request is sent on an idle connection or on a new one.  When sending  *)
(* it, or waiting for the head of its response, raises, the connection is  *)
(* discarded and the request is sent once more; nothing tells a request    *)
(* that never arrived from one whose answer is late.                       *)
(***************************************************************************)
EXTENDS Integers, FiniteSets

CONSTANTS
  Callers,
  Connections,  \* connection objects; one that nobody uses stands for a new one
  NoCaller, NoConnection,
  MaxIdle       \* max_idle_per_origin

ASSUME PoolAssumption ==
  /\ NoCaller \notin Callers
  /\ NoConnection \notin Connections
  /\ MaxIdle \in Nat

VARIABLES
  pool,    \* the idle connections
  sock,    \* the connections with an open socket
  unread,  \* whose response comes next in the stream of a connection
  call     \* where a caller is in its request

poolVars == <<pool, sock, unread, call>>

NoCall == [at |-> "idle", conn |-> NoConnection, attempt |-> 1, reply |-> "none"]

Calls == [at : {"idle", "acquire", "send", "await", "read", "back"},
          conn : Connections \cup {NoConnection},
          attempt : 1..2,
          reply : {"none", "answer", "unreachable", "timeout", "broken"}]

PoolTypeOK ==
  /\ pool \subseteq Connections
  /\ sock \subseteq Connections
  /\ unread \in [Connections -> Callers \cup {NoCaller}]
  /\ call \in [Callers -> Calls]

PoolInit ==
  /\ pool = {}
  /\ sock = {}
  /\ unread = [c \in Connections |-> NoCaller]
  /\ call = [t \in Callers |-> NoCall]

InUse == {call[t].conn : t \in Callers}

\* http_json_request
Request(t) ==
  /\ call[t].at = "idle"
  /\ call' = [call EXCEPT ![t] = [NoCall EXCEPT !.at = "acquire"]]
  /\ UNCHANGED <<pool, sock, unread>>

\* An idle connection if there is one, else a new object without a socket.
Acquire(t) ==
  /\ call[t].at = "acquire"
  /\ \E c \in Connections :
       /\ IF pool # {} THEN c \in pool ELSE c \notin InUse \cup sock
       /\ pool' = pool \ {c}
       /\ call' = [call EXCEPT ![t].at = "send", ![t].conn = c]
  /\ UNCHANGED <<sock, unread>>

\* connection.request: connects if there is no socket, and writes the request;
\* a response that was not read comes first in the stream.
Send(t) ==
  LET c == call[t].conn
  IN  /\ call[t].at = "send"
      /\ sock' = sock \cup {c}
      /\ unread' = [unread EXCEPT ![c] = IF @ = NoCaller THEN t ELSE @]
      /\ call' = [call EXCEPT ![t].at = "await"]
      /\ UNCHANGED pool

\* getresponse: the head of a response is there.
AwaitHead(t) ==
  /\ call[t].at = "await"
  /\ call' = [call EXCEPT ![t].at = "read"]
  /\ UNCHANGED <<pool, sock, unread>>

Discard(c) ==
  /\ sock' = sock \ {c}
  /\ unread' = [unread EXCEPT ![c] = NoCaller]

\* Sending, or waiting for the head, raises: refused, reset, closed by the
\* peer while idle, or timed out.  The first time the request is repeated.
Retry(t) ==
  /\ call[t].at \in {"send", "await"}
  /\ Discard(call[t].conn)
  /\ call' = [call EXCEPT ![t] =
                IF @.attempt = 1
                THEN [NoCall EXCEPT !.at = "acquire", !.attempt = 2]
                ELSE [NoCall EXCEPT !.at = "back", !.reply = "unreachable"]]
  /\ UNCHANGED pool

\* The body is read to its end, and __exit__ releases the connection: to the
\* pool unless that is full, or the server has asked to close it.
Read(t) ==
  LET c == call[t].conn
  IN  /\ call[t].at = "read"
      /\ call' = [call EXCEPT ![t] = [NoCall EXCEPT !.at = "back", !.reply = "answer"]]
      /\ \/ /\ Cardinality(pool) < MaxIdle
            /\ pool' = pool \cup {c}
            /\ unread' = [unread EXCEPT ![c] = NoCaller]
            /\ UNCHANGED sock
         \/ /\ Discard(c)
            /\ UNCHANGED pool

\* Deviation: __exit__ releases the connection after an exception, too.
KeepBroken(t) ==
  /\ call[t].at = "read"
  /\ pool' = pool \cup {call[t].conn}
  /\ UNCHANGED <<sock, unread>>
  /\ \E r \in {"timeout", "broken"} :
       call' = [call EXCEPT ![t] = [NoCall EXCEPT !.at = "back", !.reply = r]]

\* Reading the body times out, or the connection breaks, which raises an
\* exception that http_json_request does not catch.
ReadFails(t) ==
  /\ call[t].at = "read"
  /\ Discard(call[t].conn)
  /\ \E r \in {"timeout", "broken"} :
       call' = [call EXCEPT ![t] = [NoCall EXCEPT !.at = "back", !.reply = r]]
  /\ UNCHANGED pool

\* The caller has its answer, or the exception.
Return(t) ==
  /\ call[t].at = "back"
  /\ call' = [call EXCEPT ![t] = NoCall]
  /\ UNCHANGED <<pool, sock, unread>>

\* The work of the client on a request, between Request and Return.
Exchange(t) ==
  Acquire(t) \/ Send(t) \/ AwaitHead(t) \/ Retry(t) \/ Read(t) \/ ReadFails(t)

PoolNext == \E t \in Callers : Request(t) \/ Exchange(t) \/ Return(t)

PoolSpec == PoolInit /\ [][PoolNext]_poolVars

-----------------------------------------------------------------------------

\* A connection is never used by two requests, nor idle while it is used:
\* transport.py hands one out under its lock and takes it back only when the
\* response was read.
ExclusiveConnection ==
  \A t \in Callers :
    call[t].conn # NoConnection =>
      /\ call[t].conn \notin pool
      /\ \A u \in Callers \ {t} : call[u].conn # call[t].conn

\* A request that reads a response reads its own: the connection it sent the
\* request on carried no answer to an earlier one, of another execution or of
\* its own first attempt (_PooledHttpResponse.__exit__, discard).
AnswerIsOwn ==
  \A t \in Callers : call[t].at \in {"await", "read"} => unread[call[t].conn] = t
=============================================================================
