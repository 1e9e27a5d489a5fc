---------------------------- MODULE ServerAdmission ----------------------------
(* Which connections and streams a server takes on, and what becomes of them:     *)
(* the accept loops, semaphores and shutdown of the OpenAI server                 *)
(* (src/openai/server_handler.rs, src/openai/server.rs) and of the SOCKS server   *)
(* (src/server.rs), which differ in the handshake timeout and in the order of     *)
(* the shutdown.  What a stream handler does is in OpenAiExchange and             *)
(* SocksSession; here it runs and, some time, ends.                               *)
EXTENDS Integers, FiniteSets

CONSTANTS
    Connections,    \* the connections ever dialled to the server
    MaxConnections, \* config.max_connections
    MaxStreams,     \* config.max_streams_per_connection
    MaxArrivals     \* bound on the streams opened on one connection

(* validate_server_config refuses zero; the SOCKS server has constants.           *)
ASSUME ConfigAssumption ==
    /\ IsFiniteSet(Connections)
    /\ MaxConnections \in Nat \ {0}
    /\ MaxStreams \in Nat \ {0}
    /\ MaxArrivals \in Nat

VARIABLES
    mode,               \* "openai" or "socks"
    accepting,          \* the accept task has not been aborted
    endpoint,           \* "open" or "closed"
    connection_limit,   \* free permits of the semaphore for connections
    task,               \* per connection: how far the server is with it
    alive,              \* per connection: it is not known to be closed
    arrived,            \* per connection: streams opened on it so far
    waiting,            \* per connection: streams accept_bi has not returned yet
    stream_limit,       \* per connection: free permits of its semaphore
    handlers            \* per connection: running stream handlers

server == <<accepting, endpoint>>
streams == <<arrived, waiting, stream_limit, handlers>>
vars == <<mode, server, connection_limit, task, alive, streams>>

(* Before and after its task; "refusing" is the accept_bi loop that is writing    *)
(* the answer to a stream without a permit.                                       *)
Serving == {"accept_bi", "refusing"}
Running == {"handshake"} \cup Serving
TaskValues == {"away", "incoming", "turned_away", "over"} \cup Running

Init ==
    /\ mode \in {"openai", "socks"}
    /\ accepting = TRUE /\ endpoint = "open"
    /\ connection_limit = MaxConnections
    /\ task = [c \in Connections |-> "away"]
    /\ alive = [c \in Connections |-> FALSE]
    /\ arrived = [c \in Connections |-> 0]
    /\ waiting = [c \in Connections |-> 0]
    /\ stream_limit = [c \in Connections |-> MaxStreams]
    /\ handlers = [c \in Connections |-> 0]

Becomes(c, stage) == task' = [task EXCEPT ![c] = stage]
Increment(f, c) == f' = [f EXCEPT ![c] = @ + 1]
Decrement(f, c) == f' = [f EXCEPT ![c] = @ - 1]

--------------------------------------------------------------------------------
(* A client dials, opens a stream and writes to it, or is gone.                   *)
Dial(c) ==
    /\ task[c] = "away" /\ endpoint = "open"
    /\ Becomes(c, "incoming")
    /\ alive' = [alive EXCEPT ![c] = TRUE]
    /\ UNCHANGED <<mode, server, connection_limit, streams>>

OpenStream(c) ==
    /\ task[c] \in Serving /\ alive[c]
    /\ arrived[c] < MaxArrivals
    /\ Increment(arrived, c) /\ Increment(waiting, c)
    /\ UNCHANGED <<mode, server, connection_limit, task, alive, stream_limit, handlers>>

ConnectionLost(c) ==
    /\ alive[c]
    /\ alive' = [alive EXCEPT ![c] = FALSE]
    /\ UNCHANGED <<mode, server, connection_limit, task, streams>>

--------------------------------------------------------------------------------
(* The accept loop: endpoint.accept() returns a connection that gets a permit     *)
(* and a task of its own, or is dropped.                                          *)
AcceptConnection(c) ==
    /\ accepting /\ endpoint = "open"
    /\ task[c] = "incoming"
    /\ IF connection_limit > 0
       THEN Becomes(c, "handshake") /\ connection_limit' = connection_limit - 1 /\ UNCHANGED alive
       ELSE /\ Becomes(c, "turned_away") /\ UNCHANGED connection_limit
            /\ alive' = [alive EXCEPT ![c] = FALSE]
    /\ UNCHANGED <<mode, server, streams>>

(* The task of a connection returns: its permit is dropped, the handlers of its   *)
(* streams are detached and go on.                                                *)
TaskReturns(c) ==
    /\ Becomes(c, "over")
    /\ connection_limit' = connection_limit + 1

(* The handshake succeeds and the peer is one of allow_peers...                   *)
Handshaken(c) ==
    /\ task[c] = "handshake" /\ alive[c]
    /\ Becomes(c, "accept_bi")
    /\ UNCHANGED <<mode, server, connection_limit, alive, streams>>

(* ... or it is not, and the connection is closed...                              *)
PeerNotAllowed(c) ==
    /\ task[c] = "handshake" /\ alive[c]
    /\ TaskReturns(c)
    /\ alive' = [alive EXCEPT ![c] = FALSE]
    /\ UNCHANGED <<mode, server, streams>>

(* ... the handshake fails...                                                     *)
HandshakeFails(c) ==
    /\ task[c] = "handshake" /\ ~ alive[c]
    /\ TaskReturns(c)
    /\ UNCHANGED <<mode, server, alive, streams>>

(* ... or OPENAI_CONNECTION_HANDSHAKE_TIMEOUT elapses.                            *)
HandshakeTimesOut(c) ==
    /\ task[c] = "handshake" /\ mode = "openai"
    /\ TaskReturns(c)
    /\ alive' = [alive EXCEPT ![c] = FALSE]
    /\ UNCHANGED <<mode, server, streams>>

(* Faulty: the permit is dropped before the handler is spawned.                   *)
AcceptStreamPermitless(c) ==
    /\ task[c] = "accept_bi"
    /\ waiting[c] > 0
    /\ Decrement(waiting, c)
    /\ IF stream_limit[c] > 0
       THEN Increment(handlers, c) /\ UNCHANGED <<task, stream_limit>>
       ELSE Becomes(c, "refusing") /\ UNCHANGED <<stream_limit, handlers>>
    /\ UNCHANGED <<mode, server, connection_limit, alive, arrived>>

(* Faulty: acquire_owned().await in the place of try_acquire_owned().             *)
AcceptStreamInTurn(c) ==
    /\ task[c] = "accept_bi"
    /\ waiting[c] > 0 /\ stream_limit[c] > 0
    /\ Decrement(waiting, c) /\ Decrement(stream_limit, c) /\ Increment(handlers, c)
    /\ UNCHANGED <<mode, server, connection_limit, task, alive, arrived>>

(* accept_bi() returns a stream: it gets a permit and a handler, or is refused... *)
AcceptStream(c) ==
    /\ task[c] = "accept_bi"
    /\ waiting[c] > 0
    /\ Decrement(waiting, c)
    /\ IF stream_limit[c] > 0
       THEN Decrement(stream_limit, c) /\ Increment(handlers, c) /\ UNCHANGED task
       ELSE Becomes(c, "refusing") /\ UNCHANGED <<stream_limit, handlers>>
    /\ UNCHANGED <<mode, server, connection_limit, alive, arrived>>

(* Faulty: a refused stream ends the loop instead of going around it.             *)
RefusedAndOver(c) ==
    /\ task[c] = "refusing"
    /\ Becomes(c, "over")
    /\ UNCHANGED <<mode, server, connection_limit, alive, streams>>

(* ... for which the loop itself writes the answer before it goes on, whether the *)
(* write succeeds or not.                                                         *)
Refused(c) ==
    /\ task[c] = "refusing"
    /\ Becomes(c, "accept_bi")
    /\ UNCHANGED <<mode, server, connection_limit, alive, streams>>

(* Faulty: the loop waits for the handlers before it returns.                     *)
ConnectionEndsLast(c) ==
    /\ task[c] = "accept_bi" /\ ~ alive[c]
    /\ handlers[c] = 0
    /\ TaskReturns(c)
    /\ waiting' = [waiting EXCEPT ![c] = 0]
    /\ UNCHANGED <<mode, server, alive, arrived, stream_limit, handlers>>

(* accept_bi() fails: the loop returns, with streams that wait or without.        *)
ConnectionEnds(c) ==
    /\ task[c] = "accept_bi" /\ ~ alive[c]
    /\ TaskReturns(c)
    /\ waiting' = [waiting EXCEPT ![c] = 0]
    /\ UNCHANGED <<mode, server, alive, arrived, stream_limit, handlers>>

(* A stream handler returns and drops its permit.                                 *)
HandlerReturns(c) ==
    /\ handlers[c] > 0
    /\ Decrement(handlers, c) /\ Increment(stream_limit, c)
    /\ UNCHANGED <<mode, server, connection_limit, task, alive, arrived, waiting>>

--------------------------------------------------------------------------------
(* shutdown(): the accept task is aborted and the endpoint closed, in this order  *)
(* by the OpenAI server and in the other one by the SOCKS server.                 *)
AbortAcceptTask ==
    /\ accepting
    /\ mode = "socks" => endpoint = "closed"
    /\ accepting' = FALSE
    /\ UNCHANGED <<mode, endpoint, connection_limit, task, alive, streams>>

CloseEndpoint ==
    /\ endpoint = "open"
    /\ mode = "openai" => ~ accepting
    /\ endpoint' = "closed"
    /\ alive' = [c \in Connections |-> FALSE]
    /\ UNCHANGED <<mode, accepting, connection_limit, task, streams>>

TaskStep(c) ==
    \/ Handshaken(c) \/ PeerNotAllowed(c) \/ HandshakeFails(c) \/ HandshakeTimesOut(c)
    \/ AcceptStream(c) \/ Refused(c) \/ ConnectionEnds(c)

Next ==
    \/ \E c \in Connections :
          \/ Dial(c) \/ OpenStream(c) \/ ConnectionLost(c)
          \/ AcceptConnection(c) \/ TaskStep(c) \/ HandlerReturns(c)
    \/ AbortAcceptTask \/ CloseEndpoint

Spec == Init /\ [][Next]_vars

(* The runtime polls the tasks; quinn ends a handshake or a write on a connection *)
(* that has been lost.  Nothing makes a handler return.                           *)
FairSpec ==
    /\ Spec
    /\ \A c \in Connections : WF_vars(AcceptConnection(c)) /\ WF_vars(TaskStep(c))

--------------------------------------------------------------------------------
(* Type invariant: neither semaphore ever holds more permits than it was made     *)
(* with.                                                                          *)
TypeOK ==
    /\ mode \in {"openai", "socks"}
    /\ accepting \in BOOLEAN /\ endpoint \in {"open", "closed"}
    /\ connection_limit \in 0..MaxConnections
    /\ task \in [Connections -> TaskValues]
    /\ alive \in [Connections -> BOOLEAN]
    /\ {arrived, waiting, handlers} \subseteq [Connections -> 0..MaxArrivals]
    /\ stream_limit \in [Connections -> 0..MaxStreams]

RunningTasks == {c \in Connections : task[c] \in Running}

(* Every permit is free or held by exactly one running task or handler, on every  *)
(* way a handshake, a refusal or a handler can end (server_handler.rs:37-61,      *)
(* 74-79, 107): none leaks, and so neither limit is ever exceeded.                *)
PermitsAreAccountedFor ==
    /\ connection_limit + Cardinality(RunningTasks) = MaxConnections
    /\ \A c \in Connections : stream_limit[c] + handlers[c] = MaxStreams

(* A connection is turned away only while --max-connections others are served,    *)
(* and a stream only while --max-streams-per-connection of its connection are.    *)
OverTheLimit ==
    \A c \in Connections :
        /\ task[c] = "incoming" /\ task'[c] = "turned_away" =>
              Cardinality(RunningTasks) = MaxConnections
        /\ task[c] = "accept_bi" /\ task'[c] = "refusing" => handlers[c] = MaxStreams
RefusesOnlyWhenFull == [][OverTheLimit]_vars

(* Whatever arrives is decided on at once: no connection and no stream waits for  *)
(* a handler, which may never return (try_acquire_owned, server_handler.rs:37,    *)
(* 87), nor for ever for the answer to a refused stream (server_handler.rs:91).   *)
EverythingIsDecided ==
    \A c \in Connections :
        /\ task[c] = "incoming" ~> task[c] # "incoming" \/ ~ accepting \/ endpoint = "closed"
        /\ waiting[c] > 0 ~> waiting[c] = 0

(* After the endpoint is closed the task of every connection comes to its end     *)
(* though the abort of the accept task does not reach it, and none is added.      *)
ShutdownDrains == endpoint = "closed" ~> [](RunningTasks = {})
================================================================================
