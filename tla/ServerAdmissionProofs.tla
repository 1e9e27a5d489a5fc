------------------------- MODULE ServerAdmissionProofs -------------------------
(* Proofs about ServerAdmission, for any finite set of connections, any limits    *)
(* and any bound on the streams opened on a connection.                           *)
EXTENDS ServerAdmission, FiniteSetTheorems, TLAPS

(* A stream waits or is handled, never both: with it, no count exceeds the        *)
(* number of streams that arrived, which TypeOK says.                             *)
StreamsAreCounted ==
    \A c \in Connections : waiting[c] + handlers[c] <= arrived[c]

(* The inductive invariant.                                                       *)
IInv == TypeOK /\ PermitsAreAccountedFor /\ StreamsAreCounted

(* There are finitely many tasks, at most one per connection.                     *)
LEMMA RunningTasksFinite ==
    IsFiniteSet(RunningTasks) /\ Cardinality(RunningTasks) \in Nat
BY ConfigAssumption, FS_Subset, FS_CardinalityType DEF RunningTasks

(* A task is added to those that run, ...                                         *)
LEMMA TaskStarts ==
    ASSUME TypeOK, NEW c \in Connections, task[c] \notin Running,
           NEW s \in Running, Becomes(c, s)
    PROVE  Cardinality(RunningTasks)' = Cardinality(RunningTasks) + 1
<1>1. RunningTasks' = RunningTasks \cup {c} /\ c \notin RunningTasks
  BY DEF RunningTasks, Becomes, TypeOK
<1>2. QED BY <1>1, RunningTasksFinite, FS_AddElement

(* ... one is taken away from them, ...                                           *)
LEMMA TaskStops ==
    ASSUME TypeOK, NEW c \in Connections, task[c] \in Running,
           NEW s \in TaskValues \ Running, Becomes(c, s)
    PROVE  /\ Cardinality(RunningTasks)' = Cardinality(RunningTasks) - 1
           /\ Cardinality(RunningTasks) > 0
<1>1. RunningTasks' = RunningTasks \ {c} /\ c \in RunningTasks
  BY DEF RunningTasks, Becomes, TypeOK
<1>2. Cardinality(RunningTasks) # 0
  BY <1>1, RunningTasksFinite, FS_EmptySet
<1>3. Cardinality(RunningTasks \ {c}) = Cardinality(RunningTasks) - 1
  BY <1>1, RunningTasksFinite, FS_RemoveElement
<1>4. Cardinality(RunningTasks) > 0
  BY <1>2, RunningTasksFinite
<1>5. QED BY <1>1, <1>3, <1>4

(* ... or it goes on, and their number stays.                                     *)
LEMMA TaskGoesOn ==
    ASSUME TypeOK, NEW c \in Connections, NEW s \in TaskValues, Becomes(c, s),
           task[c] \in Running <=> s \in Running
    PROVE  RunningTasks' = RunningTasks
BY DEF RunningTasks, Becomes, TypeOK

(* A server starts with all permits free.                                        *)
LEMMA InitInvariant == Init => IInv
<1> SUFFICES ASSUME Init PROVE IInv
  OBVIOUS
<1> USE ConfigAssumption DEF Init
<1>1. TypeOK
  BY DEF TypeOK, TaskValues
<1>2. RunningTasks = {}
  BY DEF RunningTasks, Running, Serving
<1>3. PermitsAreAccountedFor
  BY <1>2, FS_EmptySet DEF PermitsAreAccountedFor
<1>4. StreamsAreCounted
  BY DEF StreamsAreCounted
<1>5. QED BY <1>1, <1>3, <1>4 DEF IInv

(* The invariant in two parts: what the steps of streams disturb, ...             *)
Streams ==
    /\ {arrived, waiting, handlers} \subseteq [Connections -> 0..MaxArrivals]
    /\ stream_limit \in [Connections -> 0..MaxStreams]
    /\ \A c \in Connections : stream_limit[c] + handlers[c] = MaxStreams
    /\ StreamsAreCounted

(* ... and what those of tasks and of the shutdown do.                            *)
Admissions ==
    /\ mode \in {"openai", "socks"}
    /\ accepting \in BOOLEAN /\ endpoint \in {"open", "closed"}
    /\ alive \in [Connections -> BOOLEAN]
    /\ task \in [Connections -> TaskValues]
    /\ connection_limit \in 0..MaxConnections
    /\ connection_limit + Cardinality(RunningTasks) = MaxConnections

(* The two parts are the whole.                                                   *)
LEMMA Parts == IInv <=> Admissions /\ Streams
BY DEF IInv, TypeOK, PermitsAreAccountedFor, Streams, Admissions

(* Every step keeps the invariant, most of them one part of it as it was.         *)
LEMMA NextInvariant == IInv /\ [Next]_vars => IInv'
<1> SUFFICES ASSUME IInv, [Next]_vars PROVE IInv'
  OBVIOUS
<1> USE ConfigAssumption, RunningTasksFinite
<1>0. TypeOK /\ Admissions /\ Streams
  BY Parts DEF IInv
<1>p. Admissions' /\ Streams' => IInv'
  BY DEF IInv, TypeOK, PermitsAreAccountedFor, Streams, Admissions
<1>1. ASSUME NEW c \in Connections, AcceptConnection(c) PROVE IInv'
  <2> USE <1>0, <1>1 DEF AcceptConnection
  <2>1. Streams'
    BY DEF Streams, StreamsAreCounted, streams
  <2>2. CASE connection_limit > 0
    <3>1. Cardinality(RunningTasks)' = Cardinality(RunningTasks) + 1
      BY <2>2, TaskStarts DEF Running, Serving
    <3>2. Admissions'
      BY <2>2, <3>1 DEF Admissions, Becomes, TaskValues, Running, server
    <3>3. QED BY <1>p, <2>1, <3>2
  <2>3. CASE ~ (connection_limit > 0)
    <3>1. RunningTasks' = RunningTasks
      BY <2>3, TaskGoesOn DEF TaskValues, Running, Serving
    <3>2. Admissions'
      BY <2>3, <3>1 DEF Admissions, Becomes, TaskValues, Running, server
    <3>3. QED BY <1>p, <2>1, <3>2
  <2>4. QED BY <2>2, <2>3
<1>2. ASSUME NEW c \in Connections, task[c] \in Running, TaskReturns(c),
             UNCHANGED <<mode, server>>, alive' \in [Connections -> BOOLEAN]
      PROVE  Admissions'
  <2>1. /\ Cardinality(RunningTasks)' = Cardinality(RunningTasks) - 1
        /\ Cardinality(RunningTasks) > 0
    BY <1>0, <1>2, TaskStops DEF TaskReturns, TaskValues, Running, Serving
  <2>2. QED BY <1>0, <1>2, <2>1 DEF TaskReturns, Admissions, Becomes, TaskValues, server
<1>3. ASSUME NEW c \in Connections, NEW s \in TaskValues, Becomes(c, s),
             task[c] \in Running <=> s \in Running,
             UNCHANGED <<mode, server, connection_limit>>,
             alive' \in [Connections -> BOOLEAN]
      PROVE  Admissions'
  <2>1. RunningTasks' = RunningTasks
    BY <1>0, <1>3, TaskGoesOn
  <2>2. QED BY <1>0, <1>3, <2>1 DEF Admissions, Becomes, server
<1>4. ASSUME NEW c \in Connections,
             \/ PeerNotAllowed(c) \/ HandshakeFails(c) \/ HandshakeTimesOut(c)
             \/ ConnectionEnds(c)
      PROVE  IInv'
  <2> USE <1>0, <1>4 DEF PeerNotAllowed, HandshakeFails, HandshakeTimesOut, ConnectionEnds
  <2>1. Admissions'
    BY <1>2 DEF Running, Serving, TypeOK
  <2>2. Streams'
    BY DEF Streams, StreamsAreCounted, streams
  <2>3. QED BY <1>p, <2>1, <2>2
<1>5. ASSUME NEW c \in Connections, Dial(c) \/ Handshaken(c) \/ Refused(c) PROVE IInv'
  <2> USE <1>0, <1>5 DEF Dial, Handshaken, Refused
  <2>1. Admissions'
    BY <1>3 DEF Running, Serving, TaskValues, TypeOK
  <2>2. Streams'
    BY DEF Streams, StreamsAreCounted, streams
  <2>3. QED BY <1>p, <2>1, <2>2
<1>6. ASSUME NEW c \in Connections, AcceptStream(c) PROVE IInv'
  <2> USE <1>0, <1>6 DEF AcceptStream
  <2>1. CASE stream_limit[c] > 0
    <3>1. Admissions'
      BY <2>1 DEF Admissions, server, RunningTasks
    <3>2. Streams'
      BY <2>1 DEF Streams, StreamsAreCounted, Increment, Decrement
    <3>3. QED BY <1>p, <3>1, <3>2
  <2>2. CASE ~ (stream_limit[c] > 0)
    <3>1. Admissions'
      BY <1>3, <2>2 DEF Running, Serving, TaskValues, TypeOK
    <3>2. Streams'
      BY <2>2 DEF Streams, StreamsAreCounted, Increment, Decrement
    <3>3. QED BY <1>p, <3>1, <3>2
  <2>3. QED BY <2>1, <2>2
<1>7. ASSUME NEW c \in Connections, OpenStream(c) \/ HandlerReturns(c) PROVE IInv'
  <2> USE <1>0, <1>7 DEF OpenStream, HandlerReturns
  <2>1. Admissions'
    BY DEF Admissions, server, RunningTasks
  <2>2. Streams'
    BY DEF Streams, StreamsAreCounted, Increment, Decrement
  <2>3. QED BY <1>p, <2>1, <2>2
<1>8. ASSUME \/ \E c \in Connections : ConnectionLost(c)
             \/ AbortAcceptTask \/ CloseEndpoint
             \/ UNCHANGED vars
      PROVE  IInv'
  <2> USE <1>0, <1>8 DEF ConnectionLost, AbortAcceptTask, CloseEndpoint, vars, server, streams
  <2>1. Admissions'
    BY DEF Admissions, RunningTasks
  <2>2. Streams'
    BY DEF Streams, StreamsAreCounted
  <2>3. QED BY <1>p, <2>1, <2>2
<1>9. QED
  BY <1>1, <1>4, <1>5, <1>6, <1>7, <1>8 DEF Next, TaskStep

(* Every reachable state satisfies the inductive invariant.                       *)
LEMMA Invariant == Spec => []IInv
<1>1. QED BY InitInvariant, NextInvariant, PTL DEF Spec

(* No semaphore exceeds its size, no count of streams the number that arrived.    *)
THEOREM TypeCorrect == Spec => []TypeOK
<1>1. QED BY Invariant, PTL DEF IInv

(* No permit is leaked and none is handed out twice, on every path through the    *)
(* accept loops and their shutdown, so no limit is ever exceeded.                 *)
THEOREM NoPermitLeaks == Spec => []PermitsAreAccountedFor
<1>1. QED BY Invariant, PTL DEF IInv

(* A refusal means that the limit is in use by tasks or handlers that run.        *)
THEOREM RefusalsAreJustified == Spec => RefusesOnlyWhenFull
<1>1. IInv /\ [Next]_vars => [OverTheLimit]_vars
  <2> SUFFICES ASSUME IInv, Next, NEW c \in Connections
               PROVE  /\ task[c] = "incoming" /\ task'[c] = "turned_away" =>
                            Cardinality(RunningTasks) = MaxConnections
                      /\ task[c] = "accept_bi" /\ task'[c] = "refusing" =>
                            handlers[c] = MaxStreams
    BY DEF OverTheLimit
  <2>0. TypeOK /\ PermitsAreAccountedFor
    BY DEF IInv
  <2>1. ASSUME task[c] = "incoming", task'[c] = "turned_away"
        PROVE  connection_limit = 0
    BY <2>0, <2>1 DEF Next, TaskStep, TypeOK, Becomes, TaskReturns, Dial, OpenStream,
         ConnectionLost, AcceptConnection, Handshaken, PeerNotAllowed, HandshakeFails,
         HandshakeTimesOut, AcceptStream, Refused, ConnectionEnds, HandlerReturns,
         AbortAcceptTask, CloseEndpoint
  <2>2. ASSUME task[c] = "accept_bi", task'[c] = "refusing"
        PROVE  stream_limit[c] = 0
    BY <2>0, <2>2 DEF Next, TaskStep, TypeOK, Becomes, TaskReturns, Dial, OpenStream,
         ConnectionLost, AcceptConnection, Handshaken, PeerNotAllowed, HandshakeFails,
         HandshakeTimesOut, AcceptStream, Refused, ConnectionEnds, HandlerReturns,
         AbortAcceptTask, CloseEndpoint
  <2>3. QED
    BY <2>0, <2>1, <2>2, RunningTasksFinite, ConfigAssumption
    DEF PermitsAreAccountedFor, TypeOK
<1>2. QED BY <1>1, Invariant, PTL DEF Spec, RefusesOnlyWhenFull
================================================================================
