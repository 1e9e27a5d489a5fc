------------------------ MODULE ConnectionManagerProofs ------------------------
(* Proofs about ConnectionManager, for any sessions, any number of reconnect    *)
(* attempts and any bound on the connections established.                        *)
EXTENDS ConnectionManager, SequenceTheorems, TLAPS

In(t, q) == \E i \in 1..Len(q) : q[i] = t
NoDuplicates(q) == \A i, j \in 1..Len(q) : q[i] = q[j] => i = j

(* Releasing the lock takes exactly the holder out of the queue.                 *)
LEMMA TailQueue ==
    ASSUME NEW S, NEW q \in Seq(S), q # <<>>, NoDuplicates(q)
    PROVE  /\ Tail(q) \in Seq(S)
           /\ NoDuplicates(Tail(q))
           /\ \A t : In(t, Tail(q)) <=> In(t, q) /\ t # Head(q)
<1>1. /\ Tail(q) \in Seq(S) /\ Len(q) \in Nat /\ Len(q) > 0
      /\ Len(Tail(q)) = Len(q) - 1
      /\ Head(q) = q[1]
      /\ \A i \in 1..Len(Tail(q)) : Tail(q)[i] = q[i + 1]
  BY SMT
<1>2. NoDuplicates(Tail(q))
  BY <1>1 DEF NoDuplicates
<1>3. ASSUME NEW t
      PROVE  In(t, Tail(q)) <=> In(t, q) /\ t # Head(q)
  <2>1. ASSUME In(t, Tail(q)) PROVE In(t, q) /\ t # Head(q)
    BY <1>1, <2>1 DEF In, NoDuplicates
  <2>2. ASSUME In(t, q), t # Head(q) PROVE In(t, Tail(q))
    <3>1. PICK i \in 1..Len(q) : q[i] = t
      BY <2>2 DEF In
    <3>2. i - 1 \in 1..Len(Tail(q)) /\ Tail(q)[i - 1] = t
      BY <1>1, <2>2, <3>1
    <3>3. QED BY <3>2 DEF In
  <2>3. QED BY <2>1, <2>2
<1>4. QED BY <1>1, <1>2, <1>3

(* Asking for the lock adds exactly the asking task, behind the others.          *)
LEMMA AppendQueue ==
    ASSUME NEW S, NEW q \in Seq(S), NEW t \in S, NoDuplicates(q), ~ In(t, q)
    PROVE  /\ Append(q, t) \in Seq(S)
           /\ NoDuplicates(Append(q, t))
           /\ \A u : In(u, Append(q, t)) <=> In(u, q) \/ u = t
           /\ Append(q, t) # <<>>
           /\ q # <<>> => Head(Append(q, t)) = Head(q)
<1>1. /\ Append(q, t) \in Seq(S) /\ Len(q) \in Nat
      /\ Len(Append(q, t)) = Len(q) + 1
      /\ Append(q, t)[Len(q) + 1] = t
      /\ \A i \in 1..Len(q) : Append(q, t)[i] = q[i]
  BY SMT
<1>2. NoDuplicates(Append(q, t))
  BY <1>1 DEF NoDuplicates, In
<1>3. \A u : In(u, Append(q, t)) <=> In(u, q) \/ u = t
  BY <1>1 DEF In
<1>4. Append(q, t) # <<>> /\ (q # <<>> => Head(Append(q, t)) = Head(q))
  BY AppendProperties, HeadTailProperties, <1>1
<1>5. QED BY <1>1, <1>2, <1>3, <1>4

(* An aborted task leaves the queue wherever it stands; the rest keep order.     *)
LEMMA RemoveFromQueue ==
    ASSUME NEW S, NEW q \in Seq(S), NoDuplicates(q), NEW i \in 1..Len(q)
    PROVE  /\ RemoveAt(q, i) \in Seq(S)
           /\ NoDuplicates(RemoveAt(q, i))
           /\ \A t : In(t, RemoveAt(q, i)) <=> In(t, q) /\ t # q[i]
           /\ i # 1 => RemoveAt(q, i) # <<>> /\ Head(RemoveAt(q, i)) = Head(q)
<1> DEFINE front == SubSeq(q, 1, i - 1)
           rest == SubSeq(q, i + 1, Len(q))
           r == RemoveAt(q, i)
<1>1. /\ Len(q) \in Nat
      /\ front \in Seq(S) /\ Len(front) = i - 1
      /\ \A j \in 1..(i - 1) : front[j] = q[j]
      /\ rest \in Seq(S) /\ Len(rest) = Len(q) - i
      /\ \A j \in 1..(Len(q) - i) : rest[j] = q[i + j]
  BY SMT
<1>2. /\ r \in Seq(S)
      /\ Len(r) = Len(q) - 1
      /\ \A j \in 1..Len(r) : r[j] = IF j < i THEN q[j] ELSE q[j + 1]
  <2>1. r = front \o rest
    BY DEF RemoveAt
  <2> HIDE DEF front, rest, r
  <2>2. /\ r \in Seq(S)
        /\ Len(r) = Len(front) + Len(rest)
        /\ \A j \in 1..Len(front) + Len(rest) :
              r[j] = IF j <= Len(front) THEN front[j] ELSE rest[j - Len(front)]
    BY <1>1, <2>1, ConcatProperties
  <2>3. QED BY <1>1, <2>2
<1> HIDE DEF front, rest, r
<1>3. NoDuplicates(r)
  <2> DEFINE from(j) == IF j < i THEN j ELSE j + 1
  <2> SUFFICES ASSUME NEW j \in 1..Len(r), NEW k \in 1..Len(r), r[j] = r[k]
               PROVE  j = k
    BY DEF NoDuplicates
  <2>1. from(j) \in 1..Len(q) /\ from(k) \in 1..Len(q) /\ q[from(j)] = q[from(k)]
    BY <1>1, <1>2
  <2>2. from(j) = from(k)
    BY <2>1 DEF NoDuplicates
  <2>3. QED BY <1>1, <1>2, <2>2
<1>4. ASSUME NEW t
      PROVE  In(t, r) <=> In(t, q) /\ t # q[i]
  <2>1. ASSUME In(t, r) PROVE In(t, q) /\ t # q[i]
    <3>1. PICK j \in 1..Len(r) : r[j] = t
      BY <2>1 DEF In
    <3>2. CASE j < i
      <4>0. r[j] = q[j]
        BY <1>2, <3>1, <3>2
      <4>1. j \in 1..Len(q) /\ q[j] = t
        BY <1>1, <1>2, <3>1, <4>0
      <4>2. QED BY <3>2, <4>1 DEF In, NoDuplicates
    <3>3. CASE j >= i
      <4>1. j + 1 \in 1..Len(q) /\ q[j + 1] = t
        BY <1>1, <1>2, <3>1, <3>3
      <4>2. QED BY <3>3, <4>1 DEF In, NoDuplicates
    <3>4. QED BY <1>1, <1>2, <3>2, <3>3
  <2>2. ASSUME In(t, q), t # q[i] PROVE In(t, r)
    <3>1. PICK j \in 1..Len(q) : q[j] = t
      BY <2>2 DEF In
    <3>2. CASE j < i
      <4>1. j \in 1..Len(r) /\ r[j] = t
        BY <1>1, <1>2, <3>1, <3>2
      <4>2. QED BY <4>1 DEF In
    <3>3. CASE j > i
      <4>1. j - 1 \in 1..Len(r) /\ r[j - 1] = t
        BY <1>1, <1>2, <3>1, <3>3
      <4>2. QED BY <4>1 DEF In
    <3>4. QED BY <2>2, <3>1, <3>2, <3>3
  <2>3. QED BY <2>1, <2>2
<1>5. i # 1 => r # <<>> /\ Head(r) = Head(q)
  BY <1>1, <1>2
<1>6. QED BY <1>2, <1>3, <1>4, <1>5 DEF r

--------------------------------------------------------------------------------
(* The inductive invariant.  A task is in the queue of the lock exactly at the  *)
(* suspension points where the code awaits or holds it, and only once.          *)
QueueMatchesPc ==
    /\ NoDuplicates(lock)
    /\ \A t \in Tasks : In(t, lock) <=> pc[t] \in Locking

(* Connections are numbered in the order of their ids, clones are of connections *)
(* that were established, and the cache holds the newest one or none.            *)
Numbered ==
    /\ next_id = established + 1
    /\ current \in {NoConnection, [id |-> established, connection |-> established]}
    /\ \A t \in Tasks : /\ managed[t].id = managed[t].connection
                        /\ managed[t].connection <= established

(* A call that is back at the cache has left the connection it failed on: that   *)
(* connection is not cached any more.                                            *)
FailedIsGone ==
    \A t \in Tasks : pc[t] \in {"lookup", "dial", "connecting"} =>
        current = NoConnection \/ managed[t].connection # current.connection

IInv ==
    /\ TypeOK
    /\ QueueMatchesPc
    /\ NoOrphanedConnection
    /\ Numbered
    /\ FailedIsGone

(* The holder of the lock drops its guard and goes on to a point without it.     *)
LEMMA ReleaseKeepsQueue ==
    ASSUME TypeOK, QueueMatchesPc, NEW t \in Tasks, Holds(t), Release,
           NEW p \in PcValues \ Locking, Goto(t, p)
    PROVE  lock' \in Seq(Tasks) /\ QueueMatchesPc'
<1>1. /\ lock' \in Seq(Tasks) /\ NoDuplicates(lock')
      /\ \A u : In(u, lock') <=> In(u, lock) /\ u # t
  BY TailQueue DEF TypeOK, QueueMatchesPc, Holds, Release
<1>2. \A u \in Tasks : pc'[u] = IF u = t THEN p ELSE pc[u]
  BY DEF Goto, TypeOK
<1>3. QED BY <1>1, <1>2 DEF QueueMatchesPc

(* The holder drops its guard and asks for the lock again.                       *)
LEMMA RequeueKeepsQueue ==
    ASSUME TypeOK, QueueMatchesPc, NEW t \in Tasks, Holds(t), ReleaseAndRequeue(t),
           NEW p \in Locking, Goto(t, p)
    PROVE  lock' \in Seq(Tasks) /\ QueueMatchesPc'
<1>1. /\ Tail(lock) \in Seq(Tasks) /\ NoDuplicates(Tail(lock))
      /\ \A u : In(u, Tail(lock)) <=> In(u, lock) /\ u # t
  BY TailQueue DEF TypeOK, QueueMatchesPc, Holds
<1>2. /\ lock' \in Seq(Tasks) /\ NoDuplicates(lock')
      /\ \A u : In(u, lock') <=> In(u, Tail(lock)) \/ u = t
  BY <1>1, AppendQueue DEF ReleaseAndRequeue
<1>3. \A u \in Tasks : pc'[u] = IF u = t THEN p ELSE pc[u]
  BY DEF Goto, TypeOK
<1>4. QED BY <1>1, <1>2, <1>3 DEF QueueMatchesPc

(* A task outside the queue asks for the lock; the holder, if any, stays.        *)
LEMMA JoinKeepsQueue ==
    ASSUME TypeOK, QueueMatchesPc, NEW t \in Tasks, pc[t] \notin Locking,
           lock' = Append(lock, t), NEW p \in Locking, Goto(t, p)
    PROVE  /\ lock' \in Seq(Tasks)
           /\ QueueMatchesPc'
           /\ \A u : Holds(u) => Holds(u)'
<1>1. /\ lock' \in Seq(Tasks) /\ NoDuplicates(lock')
      /\ \A u : In(u, lock') <=> In(u, lock) \/ u = t
      /\ lock' # <<>> /\ (lock # <<>> => Head(lock') = Head(lock))
  BY AppendQueue DEF TypeOK, QueueMatchesPc
<1>2. \A u \in Tasks : pc'[u] = IF u = t THEN p ELSE pc[u]
  BY DEF Goto, TypeOK
<1>3. QED BY <1>1, <1>2 DEF QueueMatchesPc, Holds

(* Aborting the health task takes it out of the queue, wherever it stood, and    *)
(* leaves a session that holds the lock in place.                                *)
LEMMA AbortKeepsQueue ==
    ASSUME TypeOK, QueueMatchesPc, StopHealth
    PROVE  /\ lock' \in Seq(Tasks)
           /\ QueueMatchesPc'
           /\ \A u \in Sessions : Holds(u) => Holds(u)'
<1>1. \A u \in Tasks : pc'[u] = IF u \in HealthTasks THEN "aborted" ELSE pc[u]
  BY DEF StopHealth
<1>2. CASE lock' = lock /\ \A h \in HealthTasks : pc[h] \notin Locking
  BY <1>1, <1>2 DEF TypeOK, QueueMatchesPc, Holds, Locking
<1>3. CASE \E h \in HealthTasks : pc[h] \in Locking
  <2>1. PICK h \in HealthTasks : pc[h] \in Locking
    BY <1>3
  <2>2. PICK i \in 1..Len(lock) : lock[i] = h /\ lock' = RemoveAt(lock, i)
    BY <2>1 DEF StopHealth, Dropped
  <2>3. /\ lock' \in Seq(Tasks) /\ NoDuplicates(lock')
        /\ \A u : In(u, lock') <=> In(u, lock) /\ u # h
        /\ i # 1 => lock' # <<>> /\ Head(lock') = Head(lock)
    BY <2>2, RemoveFromQueue DEF TypeOK, QueueMatchesPc
  <2>4. HealthTasks = {h} /\ h \notin Sessions /\ h \in Tasks
    BY <2>1, ConfigAssumption DEF Tasks
  <2>5. QueueMatchesPc'
    BY <1>1, <2>3, <2>4 DEF QueueMatchesPc, Locking
  <2>6. ASSUME NEW u \in Sessions, Holds(u) PROVE Holds(u)'
    <3>1. Head(lock) = lock[1]
      BY <2>6 DEF TypeOK, Holds
    <3>2. i # 1
      BY <2>2, <2>4, <2>6, <3>1 DEF Holds
    <3>3. QED BY <2>3, <2>6, <3>2 DEF Holds
  <2>7. QED BY <2>3, <2>5, <2>6
<1>4. QED
  <2>1. CASE HealthTasks = {}
    BY <1>2, <2>1 DEF StopHealth
  <2>2. CASE \E h \in HealthTasks : pc[h] \notin Locking
    <3>1. PICK h \in HealthTasks : pc[h] \notin Locking
      BY <2>2
    <3>2. HealthTasks = {h}
      BY <3>1, ConfigAssumption
    <3>3. QED BY <1>2, <3>1, <3>2 DEF StopHealth, Dropped
  <2>3. QED BY <1>3, <2>1, <2>2

--------------------------------------------------------------------------------
(* connect() establishes the invariant...                                        *)
LEMMA InitInvariant == Init => IInv
<1> SUFFICES ASSUME Init PROVE IInv
  OBVIOUS
<1> USE ConfigAssumption DEF Init, NoConnection
<1>1. TypeOK
  BY DEF TypeOK, Managed, Handles, Phases, PcValues, Locking
<1>2. QueueMatchesPc
  BY DEF QueueMatchesPc, NoDuplicates, In, Locking
<1>3. NoOrphanedConnection /\ Numbered /\ FailedIsGone
  BY DEF NoOrphanedConnection, Numbered, FailedIsGone
<1>4. QED BY <1>1, <1>2, <1>3 DEF IInv

(* ... and every step keeps it: what it does to the queue of the lock comes from *)
(* the lemma on that kind of step, then the ranges, then the rest.               *)
LEMMA NextInvariant == IInv /\ [Next]_vars => IInv'
<1> SUFFICES ASSUME IInv, [Next]_vars PROVE IInv'
  OBVIOUS
<1> USE ConfigAssumption
<1>0. TypeOK /\ QueueMatchesPc /\ NoOrphanedConnection /\ Numbered /\ FailedIsGone
  BY DEF IInv
<1> DEFINE Rest == /\ current' \in Managed
                   /\ next_id' \in Nat
                   /\ live' \subseteq Handles
                   /\ established' \in Handles
                   /\ phase' \in Phases
                   /\ pc' \in [Tasks -> PcValues]
                   /\ managed' \in [Tasks -> Managed]
                   /\ remaining' \in [Tasks -> 0..ReconnectAttempts]
           Data == NoOrphanedConnection' /\ Numbered' /\ FailedIsGone'
<1>r. ASSUME lock' \in Seq(Tasks), QueueMatchesPc', Rest, Data PROVE IInv'
  BY <1>r DEF IInv, TypeOK
<1>1. ASSUME NEW t \in Tasks, Call(t) PROVE IInv'
  <2> USE <1>0, <1>1 DEF Call, Goto
  <2>1. lock' \in Seq(Tasks) /\ QueueMatchesPc' /\ \A u : Holds(u) => Holds(u)'
    BY JoinKeepsQueue DEF Locking
  <2>2. Rest
    BY DEF TypeOK, Managed, NoConnection, PcValues, Locking
  <2>3. Data
    BY <2>1 DEF TypeOK, NoOrphanedConnection, Numbered, FailedIsGone, NoConnection, Handles
  <2>4. QED BY <1>r, <2>1, <2>2, <2>3
<1>2. ASSUME NEW t \in Tasks, LookupHit(t) \/ DialHit(t) PROVE IInv'
  <2> USE <1>0, <1>2 DEF LookupHit, DialHit, Goto
  <2>1. lock' \in Seq(Tasks) /\ QueueMatchesPc'
    BY ReleaseKeepsQueue DEF Locking, PcValues
  <2>2. Rest
    BY DEF TypeOK, Managed, PcValues, Locking
  <2>3. Data
    <3>1. NoOrphanedConnection'
      BY DEF TypeOK, NoOrphanedConnection, Holds
    <3>2. Numbered'
      <4>1. /\ UNCHANGED <<current, next_id, established>>
            /\ managed' = [managed EXCEPT ![t] = current]
            /\ current.id = current.connection /\ current.connection <= established
        BY DEF Numbered, NoConnection, TypeOK, Handles
      <4>2. QED BY <4>1 DEF TypeOK, Numbered
    <3>3. FailedIsGone'
      BY DEF TypeOK, FailedIsGone
    <3>4. QED BY <3>1, <3>2, <3>3
  <2>4. QED BY <1>r, <2>1, <2>2, <2>3
<1>3. ASSUME NEW t \in Tasks, LookupMiss(t) PROVE IInv'
  <2> USE <1>0, <1>3 DEF LookupMiss, Goto
  <2>1. lock' \in Seq(Tasks) /\ QueueMatchesPc'
    BY RequeueKeepsQueue DEF Locking, PcValues
  <2>2. Rest
    BY DEF TypeOK, Managed, PcValues, Locking
  <2>3. Data
    <3>1. NoOrphanedConnection'
      BY DEF TypeOK, NoOrphanedConnection, Holds
    <3>2. Numbered' /\ FailedIsGone'
      BY DEF TypeOK, Numbered, FailedIsGone
    <3>3. QED BY <3>1, <3>2
  <2>4. QED BY <1>r, <2>1, <2>2, <2>3
<1>4. ASSUME NEW t \in Tasks, StartConnect(t) PROVE IInv'
  <2> USE <1>0, <1>4 DEF StartConnect, Goto
  <2>1. lock' \in Seq(Tasks) /\ QueueMatchesPc'
    BY DEF TypeOK, QueueMatchesPc, Locking
  <2>2. Rest
    BY DEF TypeOK, Managed, PcValues, Locking
  <2>3. Data
    BY DEF TypeOK, NoOrphanedConnection, Numbered, FailedIsGone, NoConnection, Handles, Holds
  <2>4. QED BY <1>r, <2>1, <2>2, <2>3
<1>5. ASSUME NEW t \in Tasks, ConnectOk(t) PROVE IInv'
  <2> USE <1>0, <1>5 DEF ConnectOk, Goto, Fresh
  <2>1. lock' \in Seq(Tasks) /\ QueueMatchesPc'
    BY ReleaseKeepsQueue DEF Locking, PcValues
  <2>2. Rest
    BY DEF TypeOK, Managed, PcValues, Locking, Handles
  <2>3. Data
    BY DEF TypeOK, NoOrphanedConnection, Numbered, FailedIsGone, NoConnection, Managed, Handles, Holds
  <2>4. QED BY <1>r, <2>1, <2>2, <2>3
<1>6. ASSUME NEW t \in Tasks, ConnectFails(t) PROVE IInv'
  <2> USE <1>0, <1>6 DEF ConnectFails, Goto
  <2>1. lock' \in Seq(Tasks) /\ QueueMatchesPc'
    BY ReleaseKeepsQueue DEF Locking, PcValues
  <2>2. Rest
    BY DEF TypeOK, Managed, PcValues, Locking
  <2>3. Data
    BY DEF TypeOK, NoOrphanedConnection, Numbered, FailedIsGone, NoConnection, Handles, Holds
  <2>4. QED BY <1>r, <2>1, <2>2, <2>3
<1>7. ASSUME NEW t \in Tasks, OpenOk(t) PROVE IInv'
  <2> USE <1>0, <1>7 DEF OpenOk, Goto
  <2>1. lock' \in Seq(Tasks) /\ QueueMatchesPc'
    BY DEF TypeOK, QueueMatchesPc, Locking
  <2>2. Rest
    BY DEF TypeOK, Managed, PcValues, Locking
  <2>3. Data
    BY DEF TypeOK, NoOrphanedConnection, Numbered, FailedIsGone, NoConnection, Handles, Holds
  <2>4. QED BY <1>r, <2>1, <2>2, <2>3
<1>8. ASSUME NEW t \in Tasks, OpenFails(t) PROVE IInv'
  <2> USE <1>0, <1>8 DEF OpenFails, Goto
  <2>1. lock' \in Seq(Tasks) /\ QueueMatchesPc' /\ \A u : Holds(u) => Holds(u)'
    BY JoinKeepsQueue DEF Locking
  <2>2. Rest
    BY DEF TypeOK, Managed, PcValues, Locking
  <2>3. Data
    BY <2>1 DEF TypeOK, NoOrphanedConnection, Numbered, FailedIsGone, NoConnection, Handles
  <2>4. QED BY <1>r, <2>1, <2>2, <2>3
<1>9. ASSUME NEW t \in Tasks, InvalidateAndFail(t) PROVE IInv'
  <2> USE <1>0, <1>9 DEF InvalidateAndFail, Goto, Invalidated
  <2>1. lock' \in Seq(Tasks) /\ QueueMatchesPc'
    BY ReleaseKeepsQueue DEF Locking, PcValues
  <2>2. Rest
    BY DEF TypeOK, Managed, NoConnection, PcValues, Locking
  <2>3. Data
    BY DEF TypeOK, NoOrphanedConnection, Numbered, FailedIsGone, NoConnection, Handles, Holds
  <2>4. QED BY <1>r, <2>1, <2>2, <2>3
<1>10. ASSUME NEW t \in Tasks, InvalidateAndRetry(t) PROVE IInv'
  <2> USE <1>0, <1>10 DEF InvalidateAndRetry, Goto, Invalidated
  <2>1. lock' \in Seq(Tasks) /\ QueueMatchesPc'
    BY RequeueKeepsQueue DEF Locking, PcValues
  <2>2. Rest
    BY DEF TypeOK, Managed, NoConnection, PcValues, Locking
  <2>3. Data
    BY DEF TypeOK, NoOrphanedConnection, Numbered, FailedIsGone, NoConnection, Handles, Holds
  <2>4. QED BY <1>r, <2>1, <2>2, <2>3
<1>11. ASSUME NEW t \in Tasks, Return(t) PROVE IInv'
  <2> USE <1>0, <1>11 DEF Return, Goto
  <2>1. lock' \in Seq(Tasks) /\ QueueMatchesPc'
    BY DEF TypeOK, QueueMatchesPc, Locking
  <2>2. Rest
    BY DEF TypeOK, Managed, NoConnection, PcValues, Locking
  <2>3. Data
    BY DEF TypeOK, NoOrphanedConnection, Numbered, FailedIsGone, NoConnection, Handles, Holds
  <2>4. QED BY <1>r, <2>1, <2>2, <2>3
<1>12. ASSUME StopHealth PROVE IInv'
  <2> USE <1>0, <1>12 DEF StopHealth
  <2>1. /\ lock' \in Seq(Tasks) /\ QueueMatchesPc'
        /\ \A u \in Sessions : Holds(u) => Holds(u)'
    BY AbortKeepsQueue
  <2>2. Rest
    BY DEF TypeOK, Managed, NoConnection, PcValues, Phases, Locking
  <2>3. Data
    BY <2>1 DEF TypeOK, NoOrphanedConnection, Numbered, FailedIsGone, NoConnection, Handles, Tasks
  <2>4. QED BY <1>r, <2>1, <2>2, <2>3
<1>13. ASSUME \/ \E c \in Handles : ConnectionLost(c)
              \/ CloseEndpoint \/ StopListener
              \/ UNCHANGED vars
       PROVE  IInv'
  <2> USE <1>0, <1>13 DEF ConnectionLost, CloseEndpoint, StopListener, vars
  <2>1. lock' \in Seq(Tasks) /\ QueueMatchesPc'
    BY DEF TypeOK, QueueMatchesPc
  <2>2. Rest
    BY DEF TypeOK, Phases
  <2>3. Data
    BY DEF NoOrphanedConnection, Numbered, FailedIsGone, Holds
  <2>4. QED BY <1>r, <2>1, <2>2, <2>3
<1>14. QED
  BY <1>1, <1>2, <1>3, <1>4, <1>5, <1>6, <1>7, <1>8, <1>9, <1>10, <1>11, <1>12, <1>13
  DEF Next, Step, Shutdown

(* Every reachable state satisfies the inductive invariant.                      *)
LEMMA Invariant == Spec => []IInv
<1>1. QED BY InitInvariant, NextInvariant, PTL DEF Spec

(* No attempt counter goes below zero, no clone is of a connection that was not  *)
(* established, and the queue of the lock holds tasks only.                      *)
THEOREM TypeCorrect == Spec => []TypeOK
<1>1. QED BY Invariant, PTL DEF IInv

(* dial() never connects while a connection is cached, nor beside another dial.  *)
THEOREM DialsNeverOrphan == Spec => []NoOrphanedConnection
<1>1. QED BY Invariant, PTL DEF IInv

(* The ids that invalidate() compares never confuse two connections.             *)
THEOREM IdsAreUnique == Spec => []IdsIdentifyConnections
<1>1. IInv => IdsIdentifyConnections
  BY DEF IInv, TypeOK, Numbered, IdsIdentifyConnections, NoConnection, Handles
<1>2. QED BY <1>1, Invariant, PTL

(* Only a call that has failed on the cached connection drops it.                *)
THEOREM OnlyOwnersClear == Spec => ClearedByOwner
<1>1. IInv /\ [Next]_vars => [ClearsItsOwn]_vars
  <2> SUFFICES ASSUME IInv, Next, current # NoConnection, current' # current
               PROVE  /\ current' = NoConnection
                      /\ \E t \in Tasks : /\ pc[t] = "discard"
                                          /\ managed[t].connection = current.connection
    BY DEF vars, ClearsItsOwn
  <2>1. PICK t \in Tasks : ConnectOk(t) \/ InvalidateAndFail(t) \/ InvalidateAndRetry(t)
    BY DEF Next, Step, Shutdown, Call, LookupHit, LookupMiss, DialHit, StartConnect,
           ConnectFails, OpenOk, OpenFails, Return, ConnectionLost, StopHealth,
           CloseEndpoint, StopListener
  <2>2. CASE ConnectOk(t)
    BY <2>2 DEF IInv, NoOrphanedConnection, ConnectOk
  <2>3. CASE InvalidateAndFail(t) \/ InvalidateAndRetry(t)
    <3>1. pc[t] = "discard" /\ current' = NoConnection /\ current.id = managed[t].id
      <4>1. pc[t] = "discard" /\ current' = Invalidated(managed[t].id)
        BY <2>3 DEF InvalidateAndFail, InvalidateAndRetry
      <4>2. QED BY <4>1 DEF Invalidated
    <3>2. managed[t].connection = current.connection
      BY <3>1 DEF IInv, Numbered, NoConnection
    <3>3. QED BY <3>1, <3>2
  <2>4. QED BY <2>1, <2>2, <2>3
<1>2. QED BY <1>1, Invariant, PTL DEF Spec, ClearedByOwner

(* Going to open a stream, a call has moved on to a newer connection.            *)
LEMMA OpeningStep ==
    ASSUME IInv, [Next]_vars, NEW t \in Tasks, pc[t] # "open", pc'[t] = "open"
    PROVE  managed'[t].connection > managed[t].connection
<1> USE DEF Goto
<1>1. LookupHit(t) \/ DialHit(t) \/ ConnectOk(t)
  BY DEF IInv, TypeOK, Next, Step, Shutdown, Call, LookupHit, LookupMiss, DialHit,
         StartConnect, ConnectOk, ConnectFails, OpenOk, OpenFails, InvalidateAndFail,
         InvalidateAndRetry, Return, ConnectionLost, StopHealth, CloseEndpoint,
         StopListener, vars
<1>2. CASE LookupHit(t) \/ DialHit(t)
  <2>1. managed'[t] = current /\ current # NoConnection /\ pc[t] \in {"lookup", "dial"}
    BY <1>2 DEF LookupHit, DialHit, IInv, TypeOK
  <2>2. /\ current.connection = established
        /\ managed[t].connection <= established
        /\ managed[t].connection # current.connection
    BY <2>1 DEF IInv, Numbered, FailedIsGone
  <2>3. QED BY <2>1, <2>2 DEF IInv, TypeOK, Managed, Handles
<1>3. CASE ConnectOk(t)
  <2>1. managed'[t].connection = established + 1
    BY <1>3 DEF ConnectOk, Fresh, IInv, TypeOK
  <2>2. managed[t].connection <= established
    BY DEF IInv, Numbered
  <2>3. QED BY <2>1, <2>2 DEF IInv, TypeOK, Managed, Handles
<1>4. QED BY <1>1, <1>2, <1>3

(* The loop of open_bi_with_reconnect never retries a connection it failed on.   *)
THEOREM RetriesMoveOn == Spec => RetriesGoForward
<1>1. IInv /\ [Next]_vars => [OpensANewerOne]_vars
  BY OpeningStep DEF OpensANewerOne
<1>2. QED BY <1>1, Invariant, PTL DEF Spec, RetriesGoForward

--------------------------------------------------------------------------------
(* The refinement: what a step of one task changes of the state SharedTunnel     *)
(* sees.                                                                         *)
LEMMA StatusStep ==
    ASSUME TypeOK, NEW t \in Tasks, NEW p \in PcValues, Goto(t, p)
    PROVE  Status' = [Status EXCEPT ![t] = StatusAt(p)]
BY DEF Goto, Status, TypeOK

(* Giving a task another clone changes what its client is bound to, ...          *)
LEMMA BoundStep ==
    ASSUME TypeOK, NEW t \in Tasks, NEW m, managed' = [managed EXCEPT ![t] = m]
    PROVE  Bound' = [Bound EXCEPT ![t] = m.connection]
BY DEF Bound, TypeOK

(* ... and taking it away leaves the client unbound.                             *)
LEMMA ResetBound ==
    ASSUME TypeOK, NEW t \in Tasks, managed' = [managed EXCEPT ![t] = NoConnection]
    PROVE  Bound' = [Bound EXCEPT ![t] = 0]
<1>1. NoConnection.connection = 0
  BY DEF NoConnection
<1>2. Bound' = [Bound EXCEPT ![t] = NoConnection.connection]
  BY BoundStep
<1>3. QED BY <1>1, <1>2

(* Where a task is suspended, as SharedTunnel sees it.                           *)
LEMMA StatusValues ==
    /\ StatusAt("idle") = "out"
    /\ StatusAt("lookup") = "waiting" /\ StatusAt("dial") = "waiting"
    /\ StatusAt("connecting") = "waiting" /\ StatusAt("discard") = "waiting"
    /\ StatusAt("open") = "waiting"
    /\ StatusAt("ok") = "granted"
    /\ StatusAt("err") = "refused"
    /\ StatusAt("aborted") = "cancelled"
BY DEF StatusAt, Locking

(* Every step of the manager is a step of SharedTunnel or leaves it alone: a    *)
(* cache hit binds, a dial sets up, invalidate() takes down, and taking the     *)
(* lock, missing and going around the loop are invisible.                       *)
THEOREM ManagerImplementsTunnel == Spec => ImplementsSharedTunnel
<1>1. Init => Tunnel!Init
  BY StatusValues DEF Init, Tunnel!Init, Status, Bound, NoConnection
<1>2. IInv /\ [Next]_vars => [Tunnel!Next]_(Tunnel!vars)
  <2> SUFFICES ASSUME IInv, [Next]_vars
               PROVE  Tunnel!Next \/ UNCHANGED Tunnel!vars
    OBVIOUS
  <2>0. TypeOK /\ Numbered /\ FailedIsGone
    BY DEF IInv
  <2>1. ASSUME NEW t \in Tasks, Call(t) PROVE Tunnel!Ask(t)
    <3>1. Status' = [Status EXCEPT ![t] = "waiting"]
      BY <2>0, <2>1, StatusStep, StatusValues DEF Call, PcValues, Locking
    <3>2. Bound' = [Bound EXCEPT ![t] = 0]
      BY <2>0, <2>1, ResetBound DEF Call
    <3>3. QED BY <2>1, <3>1, <3>2, StatusValues
              DEF Call, Tunnel!Ask, Tunnel!Becomes, Status
  <2>2. ASSUME NEW t \in Tasks, LookupHit(t) \/ DialHit(t) PROVE Tunnel!Bind(t)
    <3>1. /\ pc[t] \in {"lookup", "dial"} /\ Goto(t, "open")
          /\ current # NoConnection /\ managed' = [managed EXCEPT ![t] = current]
          /\ UNCHANGED <<current, established>>
      BY <2>2 DEF LookupHit, DialHit
    <3>2. Status' = [Status EXCEPT ![t] = "waiting"]
      BY <2>0, <3>1, StatusStep, StatusValues DEF PcValues
    <3>3. Status[t] = "waiting" /\ Status' = Status
      BY <3>1, <3>2, StatusValues DEF Status
    <3>4. Bound' = [Bound EXCEPT ![t] = current.connection]
      BY <2>0, <3>1, BoundStep
    <3>5. current.connection > Bound[t]
      BY <2>0, <3>1 DEF Numbered, FailedIsGone, Bound, TypeOK, Managed, Handles
    <3>6. QED BY <3>1, <3>3, <3>4, <3>5 DEF Tunnel!Bind
  <2>3. ASSUME NEW t \in Tasks, ConnectOk(t) PROVE Tunnel!SetUp(t)
    <3>1. Status' = [Status EXCEPT ![t] = "waiting"]
      BY <2>0, <2>3, StatusStep, StatusValues DEF ConnectOk, PcValues
    <3>2. Status[t] = "waiting" /\ Status' = Status
      BY <2>3, <3>1, StatusValues DEF ConnectOk, Status
    <3>3. Bound' = [Bound EXCEPT ![t] = established + 1]
      BY <2>0, <2>3, BoundStep DEF ConnectOk, Fresh
    <3>4. current.connection = 0
      BY <2>3 DEF IInv, NoOrphanedConnection, ConnectOk, NoConnection
    <3>5. current'.connection = established + 1 /\ established' = established + 1
      BY <2>3 DEF ConnectOk, Fresh
    <3>6. QED BY <3>2, <3>3, <3>4, <3>5 DEF Tunnel!SetUp
  <2>4. ASSUME NEW t \in Tasks, ConnectFails(t) PROVE Tunnel!Refuse(t)
    <3>1. Status' = [Status EXCEPT ![t] = "refused"]
      BY <2>0, <2>4, StatusStep, StatusValues DEF ConnectFails, PcValues
    <3>2. QED BY <2>4, <3>1, StatusValues
              DEF ConnectFails, Tunnel!Refuse, Tunnel!Becomes, Status, Bound
  <2>5. ASSUME NEW t \in Tasks, OpenOk(t) PROVE Tunnel!Grant(t)
    <3>1. Status' = [Status EXCEPT ![t] = "granted"]
      BY <2>0, <2>5, StatusStep, StatusValues DEF OpenOk, PcValues
    <3>2. Bound[t] # 0
      BY <2>0, <2>5 DEF OpenOk, Bound, TypeOK, Handles
    <3>3. QED BY <2>5, <3>1, <3>2, StatusValues
              DEF OpenOk, Tunnel!Grant, Tunnel!Becomes, Status, Bound
  <2>6. ASSUME NEW t \in Tasks, LookupMiss(t) \/ StartConnect(t) \/ OpenFails(t)
        PROVE  UNCHANGED Tunnel!vars
    <3>1. PICK p \in Locking : Goto(t, p)
      BY <2>6 DEF LookupMiss, StartConnect, OpenFails, Locking
    <3>2. Status' = [Status EXCEPT ![t] = "waiting"]
      BY <2>0, <3>1, StatusStep, StatusValues DEF PcValues, Locking
    <3>3. Status[t] = "waiting"
      BY <2>6, StatusValues DEF LookupMiss, StartConnect, OpenFails, Status
    <3>4. UNCHANGED <<current, established, managed>>
      BY <2>6 DEF LookupMiss, StartConnect, OpenFails
    <3>5. QED BY <3>2, <3>3, <3>4 DEF Tunnel!vars, Status, Bound
  <2>7. ASSUME NEW t \in Tasks, InvalidateAndFail(t) \/ InvalidateAndRetry(t)
        PROVE  Tunnel!Refuse(t) \/ Tunnel!TakeDown(t) \/ UNCHANGED Tunnel!vars
    <3>1. /\ current' = Invalidated(managed[t].id)
          /\ UNCHANGED <<established, managed>>
          /\ Status[t] = "waiting"
      BY <2>7, StatusValues DEF InvalidateAndFail, InvalidateAndRetry, Status
    <3>2. \/ UNCHANGED current.connection
          \/ Tunnel!TakesDown(t)
      <4>1. CASE current.id = managed[t].id
        BY <2>0, <3>1, <4>1
           DEF Invalidated, Numbered, NoConnection, Tunnel!TakesDown, Bound
      <4>2. CASE current.id # managed[t].id
        BY <3>1, <4>2 DEF Invalidated
      <4>3. QED BY <4>1, <4>2
    <3>3. UNCHANGED Bound
      BY <3>1 DEF Bound
    <3>4. CASE InvalidateAndFail(t)
      <4>1. Status' = [Status EXCEPT ![t] = "refused"]
        BY <2>0, <3>4, StatusStep, StatusValues DEF InvalidateAndFail, PcValues
      <4>2. QED BY <3>1, <3>2, <3>3, <4>1 DEF Tunnel!Refuse, Tunnel!Becomes
    <3>5. CASE InvalidateAndRetry(t)
      <4>1. Status' = [Status EXCEPT ![t] = "waiting"]
        BY <2>0, <3>5, StatusStep, StatusValues DEF InvalidateAndRetry, PcValues, Locking
      <4>2. UNCHANGED Status
        BY <3>1, <4>1 DEF Status
      <4>3. QED BY <3>1, <3>2, <3>3, <4>2 DEF Tunnel!TakeDown, Tunnel!vars
    <3>6. QED BY <2>7, <3>4, <3>5
  <2>8. ASSUME NEW t \in Tasks, Return(t) PROVE Tunnel!Leave(t)
    <3>1. Status' = [Status EXCEPT ![t] = "out"]
      BY <2>0, <2>8, StatusStep, StatusValues DEF Return, PcValues
    <3>2. Bound' = [Bound EXCEPT ![t] = 0]
      BY <2>0, <2>8, ResetBound DEF Return
    <3>3. Status[t] \in {"granted", "refused"}
      BY <2>8, StatusValues DEF Return, Status
    <3>4. QED BY <2>8, <3>1, <3>2, <3>3
              DEF Return, Tunnel!Leave, Tunnel!Becomes
  <2>9. CASE StopHealth
    <3>1. CASE HealthTasks = {}
      BY <2>0, <2>9, <3>1 DEF StopHealth, Tunnel!vars, Status, Bound, TypeOK
    <3>2. CASE \E h \in HealthTasks : TRUE
      <4>1. PICK h \in HealthTasks : TRUE
        BY <3>2
      <4>2. HealthTasks = {h} /\ h \in Tasks
        BY <4>1, ConfigAssumption DEF Tasks
      <4>3. Status' = [Status EXCEPT ![h] = "cancelled"]
        BY <2>0, <2>9, <4>2, StatusValues DEF StopHealth, Status, TypeOK
      <4>4. Bound' = [Bound EXCEPT ![h] = 0]
        BY <2>0, <2>9, <4>2 DEF StopHealth, Bound, NoConnection, TypeOK
      <4>5. Tunnel!Cancel(h)
        BY <2>9, <4>3, <4>4 DEF StopHealth, Tunnel!Cancel, Tunnel!Becomes
      <4>6. QED BY <4>2, <4>5 DEF Tunnel!Next
    <3>3. QED BY <3>1, <3>2
  <2>10. CASE \/ \E c \in Handles : ConnectionLost(c)
              \/ CloseEndpoint \/ StopListener
              \/ UNCHANGED vars
    BY <2>10 DEF ConnectionLost, CloseEndpoint, StopListener, vars,
                 Tunnel!vars, Status, Bound
  <2>11. QED
    BY <2>1, <2>2, <2>3, <2>4, <2>5, <2>6, <2>7, <2>8, <2>9, <2>10
    DEF Next, Step, Shutdown, Tunnel!Next
<1>3. QED BY <1>1, <1>2, Invariant, PTL DEF Spec, ImplementsSharedTunnel, Tunnel!Spec
================================================================================
