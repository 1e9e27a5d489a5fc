--------------------------- MODULE ConnectionManager ---------------------------
(* The connection manager of the OpenAI client (src/openai/connection.rs): the *)
(* QUIC connection to the server that every local session and the health check *)
(* share, its replacement when a stream cannot be opened on it, and what        *)
(* OpenAiClientHandle::shutdown (src/openai/client.rs) does to it.              *)
(*                                                                              *)
(* A task is a local session (one per permit of the session semaphore, so a     *)
(* session that returns stands for the next one too) or the health check task.  *)
(* Each of them runs open_bi_with_reconnect; the suspension points of that       *)
(* function are the values of pc.  The tokio Mutex around the cached connection  *)
(* is fair: lock is its FIFO queue, whose head holds the guard.  A task joins    *)
(* the queue in the step that leads to lock().await, because nothing that the    *)
(* task does between the two is visible to another one.                          *)
EXTENDS Integers, Sequences, SequencesExt

CONSTANTS
    Sessions,           \* local sessions that may be served at the same time
    HealthTasks,        \* the health check task, or nothing when it is not configured
    ReconnectAttempts,  \* config.reconnect_attempts
    MaxDials            \* bound on the connections ever established

(* validate_client_config refuses zero reconnect attempts; the client starts    *)
(* only once the first dial has succeeded; shutdown knows one health task.       *)
ASSUME ConfigAssumption ==
    /\ ReconnectAttempts \in Nat \ {0}
    /\ MaxDials \in Nat \ {0}
    /\ Sessions \cap HealthTasks = {}
    /\ \A g, h \in HealthTasks : g = h

Tasks == Sessions \cup HealthTasks

(* A connection is named by the number of dials that had succeeded when it was   *)
(* installed; the id the manager gives it is another number, kept apart so that  *)
(* nothing but the code makes the two agree.                                     *)
Handles == 1..MaxDials
NoConnection == [id |-> 0, connection |-> 0]
Managed == [id : Nat, connection : 0..MaxDials]

VARIABLES
    current,        \* the cached ManagedOpenAiConnection, or NoConnection
    next_id,        \* the AtomicU64 the next id is taken from
    lock,           \* FIFO queue of the Mutex around current; the head holds it
    live,           \* handles whose connection this endpoint believes to be open
    established,    \* number of dials that have succeeded
    phase,          \* how far OpenAiClientHandle::shutdown has come
    pc,             \* per task: where open_bi_with_reconnect is suspended
    managed,        \* per task: the clone the call works with
    remaining       \* per task: remaining_reconnects

vars == <<current, next_id, lock, live, established, phase, pc, managed, remaining>>

(* Suspension points at which a task is in the queue of the lock.                *)
Locking == {"lookup", "dial", "connecting", "discard"}
PcValues == Locking \cup {"idle", "open", "ok", "err", "aborted"}
Phases == {"running", "health_stopped", "endpoint_closed", "stopped"}

(* connect() has dialled once before the listener and the health task start.     *)
Init ==
    /\ current = [id |-> 1, connection |-> 1]
    /\ next_id = 2
    /\ lock = <<>>
    /\ live = {1}
    /\ established = 1
    /\ phase = "running"
    /\ pc = [t \in Tasks |-> "idle"]
    /\ managed = [t \in Tasks |-> NoConnection]
    /\ remaining = [t \in Tasks |-> 0]

Goto(t, label) == pc' = [pc EXCEPT ![t] = label]
Holds(t) == lock # <<>> /\ Head(lock) = t
Release == lock' = Tail(lock)
ReleaseAndRequeue(t) == lock' = Append(Tail(lock), t)

(* Whether t may begin a call: the accept loop serves until shutdown aborts it,  *)
(* which is its last step; the health task ticks until it is aborted.            *)
MayCall(t) ==
    \/ t \in Sessions /\ phase # "stopped"
    \/ t \in HealthTasks /\ phase = "running"

(* A session or a health tick enters open_bi_with_reconnect and connection().    *)
Call(t) ==
    /\ MayCall(t)
    /\ pc[t] = "idle"
    /\ Goto(t, "lookup")
    /\ lock' = Append(lock, t)
    /\ managed' = [managed EXCEPT ![t] = NoConnection]
    /\ remaining' = [remaining EXCEPT ![t] = ReconnectAttempts]
    /\ UNCHANGED <<current, next_id, live, established, phase>>

(* connection(): the cached connection is cloned and the guard dropped...        *)
LookupHit(t) ==
    /\ pc[t] = "lookup" /\ Holds(t)
    /\ current # NoConnection
    /\ managed' = [managed EXCEPT ![t] = current]
    /\ Goto(t, "open")
    /\ Release
    /\ UNCHANGED <<current, next_id, live, established, phase, remaining>>

(* ... or there is none: the guard is dropped and dial() asks for it again.      *)
LookupMiss(t) ==
    /\ pc[t] = "lookup" /\ Holds(t)
    /\ current = NoConnection
    /\ Goto(t, "dial")
    /\ ReleaseAndRequeue(t)
    /\ UNCHANGED <<current, next_id, live, established, phase, managed, remaining>>

(* dial(): another task has dialled while this one waited for the lock...        *)
DialHit(t) ==
    /\ pc[t] = "dial" /\ Holds(t)
    /\ current # NoConnection
    /\ managed' = [managed EXCEPT ![t] = current]
    /\ Goto(t, "open")
    /\ Release
    /\ UNCHANGED <<current, next_id, live, established, phase, remaining>>

(* Faulty: dial() does not look at the cache again once it has the lock.         *)
StartConnectUnchecked(t) ==
    /\ pc[t] = "dial" /\ Holds(t)
    /\ Goto(t, "connecting")
    /\ UNCHANGED <<current, next_id, lock, live, established, phase, managed, remaining>>

(* ... or it connects, and keeps the lock until the handshake has ended.         *)
StartConnect(t) ==
    /\ pc[t] = "dial" /\ Holds(t)
    /\ current = NoConnection
    /\ Goto(t, "connecting")
    /\ UNCHANGED <<current, next_id, lock, live, established, phase, managed, remaining>>

EndpointOpen == phase \in {"running", "health_stopped"}

(* Faulty: next_id is read but never advanced.                                   *)
FreshWithFirstId == [id |-> 1, connection |-> established + 1]

(* The id under which a new connection is cached.                                *)
Fresh == [id |-> next_id, connection |-> established + 1]

(* The handshake succeeds: the connection gets the next id and is cached.        *)
ConnectOk(t) ==
    /\ pc[t] = "connecting" /\ Holds(t)
    /\ EndpointOpen
    /\ established < MaxDials
    /\ current' = Fresh
    /\ next_id' = next_id + 1
    /\ established' = established + 1
    /\ live' = live \cup {established + 1}
    /\ managed' = [managed EXCEPT ![t] = Fresh]
    /\ Goto(t, "open")
    /\ Release
    /\ UNCHANGED <<phase, remaining>>

(* connect_timeout elapses or the handshake fails: `?` ends the whole call.      *)
ConnectFails(t) ==
    /\ pc[t] = "connecting" /\ Holds(t)
    /\ Goto(t, "err")
    /\ Release
    /\ UNCHANGED <<current, next_id, live, established, phase, managed, remaining>>

(* open_bi() succeeds, which it does on a connection believed to be open.        *)
OpenOk(t) ==
    /\ pc[t] = "open"
    /\ managed[t].connection \in live
    /\ Goto(t, "ok")
    /\ UNCHANGED <<current, next_id, lock, live, established, phase, managed, remaining>>

(* open_bi() fails, at once on a closed connection or because operation_timeout  *)
(* elapses while the server grants no stream: both arms call invalidate().       *)
OpenFails(t) ==
    /\ pc[t] = "open"
    /\ Goto(t, "discard")
    /\ lock' = Append(lock, t)
    /\ UNCHANGED <<current, next_id, live, established, phase, managed, remaining>>

(* Faulty: invalidate() without the comparison of ids...                         *)
InvalidatedBlindly(id) == NoConnection
(* ... and a failure that invalidates nothing, as if an arm forgot the call.     *)
NotInvalidated(id) == current

(* The cache once invalidate(id) is done with it.                                *)
Invalidated(id) == IF current.id = id THEN NoConnection ELSE current

(* invalidate() drops the cached connection if it is the one that failed; the    *)
(* call ends when no attempt remains...                                          *)
InvalidateAndFail(t) ==
    /\ pc[t] = "discard" /\ Holds(t)
    /\ remaining[t] = 0
    /\ current' = Invalidated(managed[t].id)
    /\ Goto(t, "err")
    /\ Release
    /\ UNCHANGED <<next_id, live, established, phase, managed, remaining>>

(* Faulty: the loop does not stop at zero attempts.                              *)
InvalidateAndRetryAnyway(t) ==
    /\ pc[t] = "discard" /\ Holds(t)
    /\ current' = Invalidated(managed[t].id)
    /\ remaining' = [remaining EXCEPT ![t] = @ - 1]
    /\ Goto(t, "lookup")
    /\ ReleaseAndRequeue(t)
    /\ UNCHANGED <<next_id, live, established, phase, managed>>

(* ... and otherwise goes around the loop.                                       *)
InvalidateAndRetry(t) ==
    /\ pc[t] = "discard" /\ Holds(t)
    /\ remaining[t] # 0
    /\ current' = Invalidated(managed[t].id)
    /\ remaining' = [remaining EXCEPT ![t] = @ - 1]
    /\ Goto(t, "lookup")
    /\ ReleaseAndRequeue(t)
    /\ UNCHANGED <<next_id, live, established, phase, managed>>

(* The caller is done with the streams, or has answered the error; the locals of *)
(* the call are gone.                                                            *)
Return(t) ==
    /\ pc[t] \in {"ok", "err"}
    /\ Goto(t, "idle")
    /\ managed' = [managed EXCEPT ![t] = NoConnection]
    /\ remaining' = [remaining EXCEPT ![t] = 0]
    /\ UNCHANGED <<current, next_id, lock, live, established, phase>>

(* The peer, an idle timeout or the network closes a connection.                 *)
ConnectionLost(c) ==
    /\ c \in live
    /\ live' = live \ {c}
    /\ UNCHANGED <<current, next_id, lock, established, phase, pc, managed, remaining>>

(* Faulty: an abort that leaves the guard or the place in the queue behind.      *)
NotDropped(t, queue) == queue = lock

(* The queue once the future of t has been dropped: a waiter leaves it, the      *)
(* holder's guard is released.                                                   *)
Dropped(t, queue) ==
    IF pc[t] \in Locking
    THEN \E i \in 1..Len(lock) : lock[i] = t /\ queue = RemoveAt(lock, i)
    ELSE queue = lock

(* shutdown(): the health task is aborted at an await point and awaited...       *)
StopHealth ==
    /\ phase = "running"
    /\ phase' = "health_stopped"
    /\ pc' = [t \in Tasks |-> IF t \in HealthTasks THEN "aborted" ELSE pc[t]]
    /\ managed' = [t \in Tasks |-> IF t \in HealthTasks THEN NoConnection ELSE managed[t]]
    /\ remaining' = [t \in Tasks |-> IF t \in HealthTasks THEN 0 ELSE remaining[t]]
    /\ IF HealthTasks = {}
       THEN lock' = lock
       ELSE \A h \in HealthTasks : Dropped(h, lock')
    /\ UNCHANGED <<current, next_id, live, established>>

(* ... then the endpoint is closed, which closes its connections...              *)
CloseEndpoint ==
    /\ phase = "health_stopped"
    /\ phase' = "endpoint_closed"
    /\ live' = {}
    /\ UNCHANGED <<current, next_id, lock, established, pc, managed, remaining>>

(* ... and the accept loop aborted; the session tasks it spawned are detached    *)
(* and go on.                                                                    *)
StopListener ==
    /\ phase = "endpoint_closed"
    /\ phase' = "stopped"
    /\ UNCHANGED <<current, next_id, lock, live, established, pc, managed, remaining>>

(* What a task does once it has been called: the body of open_bi_with_reconnect. *)
Step(t) ==
    \/ LookupHit(t) \/ LookupMiss(t)
    \/ DialHit(t) \/ StartConnect(t) \/ ConnectOk(t) \/ ConnectFails(t)
    \/ OpenOk(t) \/ OpenFails(t)
    \/ InvalidateAndFail(t) \/ InvalidateAndRetry(t)

Shutdown == StopHealth \/ CloseEndpoint \/ StopListener

Next ==
    \/ \E t \in Tasks : Call(t) \/ Step(t) \/ Return(t)
    \/ \E c \in Handles : ConnectionLost(c)
    \/ Shutdown

Spec == Init /\ [][Next]_vars

(* The runtime polls every ready task, endpoint.connect and open_bi are under a  *)
(* timeout, the health check bounds each of its reads and writes, and its ticker *)
(* ticks again.  Nothing makes a session call, a connection fail or a user stop  *)
(* the client, and a session may relay for as long as it likes.                  *)
Fairness ==
    /\ \A t \in Tasks : WF_vars(Step(t))
    /\ \A h \in HealthTasks : WF_vars(Call(h)) /\ WF_vars(Return(h))

FairSpec == Spec /\ Fairness

--------------------------------------------------------------------------------
(* Type invariant: a call never counts its attempts below zero, and no more      *)
(* connections are cached than were established.                                 *)
TypeOK ==
    /\ current \in Managed
    /\ next_id \in Nat
    /\ lock \in Seq(Tasks)
    /\ live \subseteq Handles
    /\ established \in Handles
    /\ phase \in Phases
    /\ pc \in [Tasks -> PcValues]
    /\ managed \in [Tasks -> Managed]
    /\ remaining \in [Tasks -> 0..ReconnectAttempts]

(* A dial is in progress only by the holder of the lock and only while nothing   *)
(* is cached: dial() looks again after lock().await (connection.rs:51-54), so no *)
(* task ever overwrites, and thereby orphans, a connection another one cached.   *)
NoOrphanedConnection ==
    \A t \in Tasks : pc[t] = "connecting" => Holds(t) /\ current = NoConnection

(* Equal ids mean the same connection, between the cache and every clone, so the *)
(* comparison in invalidate() (connection.rs:77) is one of connections.          *)
IdsIdentifyConnections ==
    /\ \A t \in Tasks :
         managed[t].id = current.id => managed[t].connection = current.connection
    /\ \A t, u \in Tasks :
         managed[t].id = managed[u].id => managed[t].connection = managed[u].connection

(* The cache is emptied only by a call that has failed on the very connection    *)
(* that is cached (connection.rs:94, 101): a slow failure on an old connection   *)
(* never takes away the replacement another session has dialled meanwhile.       *)
ClearsItsOwn ==
    current # NoConnection /\ current' # current =>
        /\ current' = NoConnection
        /\ \E t \in Tasks : pc[t] = "discard" /\ managed[t].connection = current.connection
ClearedByOwner == [][ClearsItsOwn]_vars

(* A call that goes around the loop opens its next stream on a connection newer  *)
(* than the one it failed on (connection.rs:88-106), never on the same one.      *)
OpensANewerOne ==
    \A t \in Tasks : pc[t] # "open" /\ pc'[t] = "open" =>
        managed'[t].connection > managed[t].connection
RetriesGoForward == [][OpensANewerOne]_vars

(* With a health check configured, a dead connection does not stay cached: the   *)
(* next check fails on it and drops it, without any local traffic.               *)
DeadConnectionIsDropped ==
    HealthTasks # {} =>
        \A c \in Handles :
            (current.connection = c /\ c \notin live) ~>
                (current.connection # c \/ phase # "running")

(* The promise of SharedTunnel, in terms of this module's state.                 *)
StatusAt(label) ==
    CASE label = "idle" -> "out"
      [] label \in Locking \cup {"open"} -> "waiting"
      [] label = "ok" -> "granted"
      [] label = "err" -> "refused"
      [] label = "aborted" -> "cancelled"
Status == [t \in Tasks |-> StatusAt(pc[t])]
Bound == [t \in Tasks |-> managed[t].connection]

Tunnel == INSTANCE SharedTunnel WITH
    Clients <- Tasks,
    tunnel <- current.connection,
    newest <- established,
    status <- Status,
    bound <- Bound

(* The manager keeps the promise: every step of it is a step of SharedTunnel or  *)
(* changes nothing there.                                                        *)
ImplementsSharedTunnel == Tunnel!Spec

(* With its fairness too: open_bi_with_reconnect always returns, whatever the    *)
(* network and the other tasks do.  Nobody waits forever for the lock that a     *)
(* dial holds across endpoint.connect (connection.rs:51-62), also when the       *)
(* holder is aborted.                                                            *)
AnswersLikeSharedTunnel == Tunnel!FairSpec

(* What `--reconnect-attempts` (src/cli.rs:142) says, "Number of reconnect        *)
(* attempts after the first failed tunnel stream open": a call that has failed   *)
(* to open a stream gives up only with no attempt left.                          *)
GivesUpOnlyWhenExhausted ==
    \A t \in Tasks : pc[t] = "err" /\ managed[t] # NoConnection => remaining[t] = 0
================================================================================
