--------------------------- MODULE IdentityFileProofs ---------------------------
(* Proofs about IdentityFile, for any number of starts that come one after the    *)
(* other: whatever number of power losses an installed key is whole, and until    *)
(* the first one only a start that does not see the key changes the identity, and *)
(* a leftover costs one start.                                                    *)
EXTENDS IdentityFile, FiniteSetTheorems, TLAPS

(* Nobody starts while another run is alive, and runs start in their order.       *)
OneAtATime ==
    /\ \A r, q \in Runs : Alive(r) /\ Alive(q) => r = q
    /\ \A r, q \in Runs : q < r /\ pc[r] # "off" => pc[q] # "off"
    /\ \A r, q \in Runs : r < q /\ Alive(r) => pc[q] = "off"

(* A file is made by a run past "create"; what is synced is whole, and what is    *)
(* installed, now or on the disk, is synced.                                      *)
Durable ==
    /\ \A f \in Runs : pc[f] \in {"off", "read", "create"} => content[f] = "absent"
    /\ \A f \in synced : content[f] = "complete"
    /\ {path, disk.path} \ {None} \subseteq synced

(* Between create_new and rename the temporary name stands for the run's file.    *)
OwnsTemp ==
    \A r \in Runs :
        /\ pc[r] \in {"write", "sync", "rename"} => temp = r
        /\ pc[r] \in {"sync", "rename"} => content[r] = "complete"
        /\ pc[r] = "rename" => r \in synced

IInv == TypeOK /\ OneAtATime /\ Durable /\ OwnsTemp

(* Only a start that does not see the installed key works on one, and nothing     *)
(* else replaces it: what a run came up with is still there, or has been replaced *)
(* by such a start.                                                               *)
Kept ==
    /\ \A r \in Runs : pc[r] \in {"create", "write", "sync", "rename", "cleanup"} =>
          path = None \/ r \in overlooked
    /\ \A r \in Runs : pc[r] \in {"read", "running"} => path # None
    /\ \A r \in Runs : identity[r] # None => path # None /\ pc[r] \in Ended \cup {"running"}
    /\ \A r \in Runs : identity[r] # None =>
          identity[r] = path \/ \E o \in overlooked : r < o /\ identity[o] = o

(* The start before r was killed or met an I/O error.                             *)
FollowsAFailure(r) == r > 1 /\ pc[r - 1] \in {"crashed", "io_failed"}

(* A leftover beside no key is there for the next start, and that one follows a   *)
(* failure, as does the one that removes it, unless it did not see the key.       *)
Leftover ==
    /\ \A r \in Runs : pc[r] \in {"cleanup", "failed"} =>
          FollowsAFailure(r) \/ r \in overlooked
    /\ \A r \in Runs : temp # None /\ pc[r] = "create" =>
          FollowsAFailure(r) \/ r \in overlooked
    /\ \A r \in Runs :
          temp # None /\ path = None /\ IsNext(r) /\ (\A q \in Runs : ~ Alive(q)) =>
              FollowsAFailure(r)

(* All of it, as long as the machine has kept its power.                          *)
SInv == IInv /\ (losses = 0 => Kept /\ StableUnlessOverlooked /\ Leftover)

(* A run that starts finds no other one alive.                                    *)
LEMMA StartsAlone ==
    ASSUME MaxAlive = 1, NEW r \in Runs, Start(r), NEW q \in Runs
    PROVE  ~ Alive(q)
<1> DEFINE A == {p \in Runs : Alive(p)}
<1>1. IsFiniteSet(A) /\ Cardinality(A) \in Nat
  <2>1. IsFiniteSet(Runs)
    BY FS_Interval, BoundsAssumption DEF Runs
  <2>2. A \in SUBSET Runs
    OBVIOUS
  <2>3. IsFiniteSet(A)
    BY <2>1, <2>2, FS_Subset
  <2>4. QED BY <2>3, FS_CardinalityType
<1>2. Cardinality(A) < 1
  BY DEF Start
<1>3. A = {}
  BY <1>1, <1>2, FS_EmptySet
<1>4. QED BY <1>3

(* Nothing exists before the first start.                                         *)
LEMMA InitInvariant == Init => IInv
BY BoundsAssumption
   DEF Init, IInv, TypeOK, OneAtATime, Durable, OwnsTemp, RunOrNone, None, Runs, PcValues,
       Alive, Working

(* The ranges are kept by every step, whoever is alive.                           *)
LEMMA NextTypeOK == TypeOK /\ [Next]_vars => TypeOK'
<1> SUFFICES ASSUME TypeOK, [Next]_vars PROVE TypeOK'
  OBVIOUS
<1> USE BoundsAssumption
    DEF TypeOK, RunOrNone, None, PcValues, Working, Ended, directory, files, faults, Goto
<1>n. 0 \notin Runs
  BY DEF Runs
<1>1. ASSUME NEW r \in Runs, Start(r) \/ Read(r) \/ Create(r) PROVE TypeOK'
  BY <1>1, <1>n DEF Start, Read, Create, IsNext
<1>2. ASSUME NEW r \in Runs, Write(r) \/ Sync(r) \/ Cleanup(r) \/ Rename(r) PROVE TypeOK'
  BY <1>2, <1>n DEF Write, Sync, Cleanup, Rename
<1>3. ASSUME NEW r \in Runs, IoError(r) \/ End(r) PROVE TypeOK'
  BY <1>3, <1>n DEF IoError, End
<1>4. CASE Writeback \/ UNCHANGED vars
  BY <1>4 DEF Writeback, vars
<1>5. CASE PowerLoss
  BY <1>5 DEF PowerLoss
<1>6. QED BY <1>1, <1>2, <1>3, <1>4, <1>5 DEF Next

(* Every step of one run at a time keeps the invariant.                           *)
LEMMA NextInvariant ==
    ASSUME MaxAlive = 1, IInv, [Next]_vars
    PROVE  IInv'
<1>0. TypeOK /\ OneAtATime /\ Durable /\ OwnsTemp /\ TypeOK'
  BY NextTypeOK DEF IInv
<1>n. None \notin Runs /\ \A r \in Runs : r \in Int
  BY DEF Runs, None
<1> USE <1>0, <1>n DEF directory, files, faults, Goto
<1>1. ASSUME NEW r \in Runs, Start(r) PROVE IInv'
  <2>1. /\ pc[r] = "off" /\ \A q \in 1..(r - 1) : pc[q] # "off"
        /\ \E label \in {"read", "create"} : pc' = [pc EXCEPT ![r] = label]
        /\ UNCHANGED <<directory, files, losses, identity>>
    BY <1>1 DEF Start, IsNext
  <2>2. OneAtATime'
    <3>1. \A q \in Runs : ~ Alive(q)
      BY <1>1, StartsAlone
    <3>2. \A q \in Runs : Alive(q)' => q = r
      BY <2>1, <3>1 DEF Alive, TypeOK, Working
    <3>3. \A q \in Runs : q < r => q \in 1..(r - 1)
      BY DEF Runs
    <3>4. \A q \in Runs : r < q => pc[q] = "off"
      BY <2>1 DEF OneAtATime
    <3>5. QED BY <2>1, <3>2, <3>3, <3>4 DEF OneAtATime, TypeOK
  <2>3. Durable' /\ OwnsTemp'
    BY <2>1 DEF Durable, OwnsTemp, TypeOK
  <2>4. QED BY <2>2, <2>3 DEF IInv
<1>2. ASSUME NEW r \in Runs, Alive(r), NEW label \in PcValues \ {"off"},
             pc' = [pc EXCEPT ![r] = label]
      PROVE  OneAtATime'
  BY <1>2 DEF OneAtATime, Alive, TypeOK, Working
<1>3. ASSUME NEW r \in Runs, Read(r) \/ Cleanup(r) \/ IoError(r) \/ End(r) PROVE IInv'
  <2>1. PICK label \in PcValues \ {"off", "read", "create", "write", "sync", "rename"} :
          pc' = [pc EXCEPT ![r] = label]
    BY <1>3 DEF Read, Cleanup, IoError, End, PcValues, Ended, Working
  <2>2. Alive(r)
    BY <1>3 DEF Read, Cleanup, IoError, End, Alive, Working
  <2>3. \A q \in Runs : Alive(q) => q = r
    BY <2>2 DEF OneAtATime
  <2>4. OneAtATime'
    BY <1>2, <2>1, <2>2
  <2>5. Durable'
    BY <1>3, <2>1 DEF Durable, Read, Cleanup, IoError, End, TypeOK
  <2>6. OwnsTemp'
    BY <1>3, <2>1, <2>3 DEF OwnsTemp, Read, Cleanup, IoError, End, TypeOK, Alive, Working
  <2>7. QED BY <2>4, <2>5, <2>6 DEF IInv
<1>4. ASSUME NEW r \in Runs, Create(r) PROVE IInv'
  <2>1. PICK label \in {"write", "cleanup"} : pc' = [pc EXCEPT ![r] = label]
    BY <1>4 DEF Create
  <2>2. Alive(r) /\ pc[r] = "create"
    BY <1>4 DEF Create, Alive, Working
  <2>3. \A q \in Runs : Alive(q) => q = r
    BY <2>2 DEF OneAtATime
  <2>4. OneAtATime'
    BY <1>2, <2>1, <2>2 DEF PcValues, Working
  <2>5. Durable'
    BY <1>4, <2>1, <2>2 DEF Durable, Create, TypeOK
  <2>6. OwnsTemp'
    BY <1>4, <2>1, <2>3 DEF OwnsTemp, Create, TypeOK, Alive, Working
  <2>7. QED BY <2>4, <2>5, <2>6 DEF IInv
<1>5. ASSUME NEW r \in Runs, Write(r) \/ Sync(r) PROVE IInv'
  <2>1. PICK label \in {"sync", "rename"} : pc' = [pc EXCEPT ![r] = label]
    BY <1>5 DEF Write, Sync
  <2>2. Alive(r) /\ pc[r] \in {"write", "sync"}
    BY <1>5 DEF Write, Sync, Alive, Working
  <2>3. OneAtATime'
    BY <1>2, <2>1, <2>2 DEF PcValues, Working
  <2>4. Durable'
    BY <1>5, <2>1, <2>2 DEF Durable, OwnsTemp, Write, Sync, TypeOK
  <2>5. OwnsTemp'
    BY <1>5 DEF OwnsTemp, Write, Sync, TypeOK
  <2>6. QED BY <2>3, <2>4, <2>5 DEF IInv
<1>6. ASSUME NEW r \in Runs, Rename(r) PROVE IInv'
  <2>1. /\ pc[r] = "rename" /\ temp = r /\ r \in synced
        /\ pc' = [pc EXCEPT ![r] = "running"] /\ path' = r
        /\ UNCHANGED <<disk, files>>
    BY <1>6 DEF Rename, OwnsTemp
  <2>2. Alive(r)
    BY <2>1 DEF Alive, Working
  <2>3. OneAtATime'
    BY <1>2, <2>1, <2>2 DEF PcValues
  <2>4. Durable'
    BY <2>1 DEF Durable, TypeOK
  <2>5. \A q \in Runs : Alive(q) => q = r
    BY <2>2 DEF OneAtATime
  <2>6. OwnsTemp'
    BY <2>1, <2>5 DEF OwnsTemp, TypeOK, Alive, Working
  <2>7. QED BY <2>3, <2>4, <2>6 DEF IInv
<1>7. CASE PowerLoss
  <2>1. /\ pc' = [r \in Runs |-> IF Alive(r) THEN "crashed" ELSE pc[r]]
        /\ path' = disk.path /\ UNCHANGED <<synced, disk>>
        /\ \E torn \in SUBSET {f \in Runs \ synced : content[f] = "complete"} :
              content' = [f \in Runs |-> IF f \in torn THEN "partial" ELSE content[f]]
    BY <1>7 DEF PowerLoss
  <2>2. OneAtATime'
    BY <2>1 DEF OneAtATime, Alive, Working
  <2>3. Durable'
    BY <2>1 DEF Durable, TypeOK
  <2>4. OwnsTemp'
    BY <2>1 DEF OwnsTemp, Alive, Working
  <2>5. QED BY <2>2, <2>3, <2>4 DEF IInv
<1>8. CASE Writeback \/ UNCHANGED vars
  <2>1. OneAtATime' /\ Durable' /\ OwnsTemp'
    BY <1>8 DEF Writeback, vars, OneAtATime, Durable, OwnsTemp, Alive
  <2>2. QED BY <2>1 DEF IInv
<1>9. QED
  BY <1>1, <1>3, <1>4, <1>5, <1>6, <1>7, <1>8 DEF Next

(* Every state of one run at a time satisfies the inductive invariant.            *)
LEMMA Invariant == ASSUME MaxAlive = 1 PROVE Spec => []IInv
<1>1. IInv /\ [Next]_vars => IInv'
  BY NextInvariant
<1>2. QED BY InitInvariant, <1>1, PTL DEF Spec

(* Until a power loss every step of one run at a time also keeps the rest.        *)
LEMMA NextStable ==
    ASSUME MaxAlive = 1, IInv, Kept, StableUnlessOverlooked, Leftover,
           [Next]_vars, losses = 0, losses' = 0
    PROVE  (Kept /\ StableUnlessOverlooked /\ Leftover)'
<1> DEFINE Goal == Kept /\ StableUnlessOverlooked /\ Leftover
<1>0. TypeOK /\ OneAtATime /\ Durable /\ OwnsTemp /\ Kept /\ Leftover /\ TypeOK'
  BY NextTypeOK DEF IInv
<1>n. None \notin Runs /\ \A r \in Runs : r \in Int
  BY DEF Runs, None
<1> USE <1>0, <1>n DEF directory, files, faults, Goto
<1>1. ASSUME NEW r \in Runs, Alive(r), NEW label \in PcValues \ {"off"},
             pc' = [pc EXCEPT ![r] = label],
             NEW q \in Runs, FollowsAFailure(q)
      PROVE  FollowsAFailure(q)'
  BY <1>1, BoundsAssumption DEF FollowsAFailure, Alive, Working, TypeOK, Runs
<1>2. ASSUME NEW r \in Runs, Alive(r), NEW label \in Ended,
             pc' = [pc EXCEPT ![r] = label],
             NEW q \in Runs, IsNext(q)'
      PROVE  q - 1 = r
  <2>1. pc[q] = "off" /\ pc[r] # "off" /\ q # r
    BY <1>2 DEF IsNext, TypeOK, Alive, Working, Ended
  <2>2. r < q
    BY <2>1 DEF OneAtATime
  <2>3. CASE r < q - 1
    <3>1. q - 1 \in Runs /\ q - 1 \in 1..(q - 1) /\ q - 1 # r
      BY <2>3, BoundsAssumption DEF Runs
    <3>2. pc[q - 1] = "off"
      BY <3>1, <2>3, <1>2 DEF OneAtATime
    <3>3. QED BY <3>1, <3>2, <1>2 DEF IsNext, TypeOK
  <2>4. QED BY <2>2, <2>3
<1>s. ASSUME UNCHANGED identity, overlooked \subseteq overlooked'
      PROVE  StableUnlessOverlooked'
  BY <1>s DEF StableUnlessOverlooked
<1>3. ASSUME NEW r \in Runs, Start(r) PROVE Goal'
  <2>1. /\ IsNext(r) /\ pc[r] = "off"
        /\ UNCHANGED <<directory, files, losses, identity>>
    BY <1>3 DEF Start, IsNext
  <2>2. \A q \in Runs : ~ Alive(q)
    BY <1>3, StartsAlone
  <2>3. /\ overlooked \subseteq overlooked'
        /\ \/ path # None /\ pc' = [pc EXCEPT ![r] = "read"]
           \/ path = None /\ pc' = [pc EXCEPT ![r] = "create"]
           \/ path # None /\ pc' = [pc EXCEPT ![r] = "create"] /\ r \in overlooked'
    BY <1>3 DEF Start
  <2>4. Kept'
    BY <2>1, <2>3 DEF Kept, TypeOK, Ended
  <2>5. Alive(r)'
    BY <2>3 DEF Alive, TypeOK, Working
  <2>6. \A q \in Runs : FollowsAFailure(q) => FollowsAFailure(q)'
    BY <2>1, <2>3, BoundsAssumption DEF FollowsAFailure, TypeOK, Runs
  <2>7. temp # None /\ path = None => FollowsAFailure(r)
    BY <2>1, <2>2 DEF Leftover
  <2>8. Leftover'
    BY <2>1, <2>3, <2>5, <2>6, <2>7 DEF Leftover, TypeOK
  <2>9. QED BY <1>s, <2>1, <2>3, <2>4, <2>8
<1>4. ASSUME NEW r \in Runs, Alive(r), NEW q \in Runs, Alive(q) PROVE q = r
  BY <1>4 DEF OneAtATime
<1>o. ASSUME NEW r \in Runs, Alive(r), NEW q \in Runs, identity[q] # None, q # r
      PROVE  q < r
  BY <1>o DEF OneAtATime, Kept, Ended
<1>5. ASSUME NEW r \in Runs, Read(r) PROVE Goal'
  <2>1. /\ pc[r] = "read" /\ path # None
        /\ pc' = [pc EXCEPT ![r] = "running"]
        /\ identity' = [identity EXCEPT ![r] = path]
        /\ UNCHANGED <<directory, files, faults>>
    BY <1>5 DEF Read, Kept, Durable, TypeOK, RunOrNone
  <2>2. Alive(r) /\ Alive(r)' /\ identity[r] = None
    BY <2>1 DEF Alive, Working, TypeOK, Kept, Ended
  <2>3. overlooked \subseteq Runs /\ \A o \in overlooked : identity[o] = o => o # r /\ o < r
    BY <2>2, <1>o DEF TypeOK
  <2>4. Kept'
    BY <2>1, <2>3 DEF Kept, TypeOK
  <2>5. StableUnlessOverlooked'
    <3> SUFFICES ASSUME NEW p \in Runs, NEW q \in Runs, p < q,
                        identity'[p] # None, identity'[q] # None, identity'[p] # identity'[q]
                 PROVE  \E o \in overlooked : p < o /\ o <= q /\ identity'[o] = o
      BY <2>1 DEF StableUnlessOverlooked
    <3>1. CASE q = r
      <4>1. PICK o \in overlooked : p < o /\ identity[o] = o
        BY <2>1, <3>1 DEF Kept, TypeOK
      <4>2. QED BY <4>1, <3>1, <2>1, <2>3 DEF TypeOK
    <3>2. CASE q # r
      <4>1. identity[q] # None /\ q < r
        BY <2>1, <2>2, <3>2, <1>o DEF TypeOK
      <4>2. identity[p] # None /\ identity[p] # identity[q]
        BY <2>1, <4>1 DEF TypeOK
      <4>3. QED BY <4>1, <4>2, <2>1, <2>3 DEF StableUnlessOverlooked, TypeOK
    <3>3. QED BY <3>1, <3>2
  <2>6. \A q \in Runs : FollowsAFailure(q) => FollowsAFailure(q)'
    BY <1>1, <2>1, <2>2 DEF PcValues
  <2>7. Leftover'
    BY <2>1, <2>2, <2>6 DEF Leftover, TypeOK
  <2>8. QED BY <2>4, <2>5, <2>7
<1>6. ASSUME NEW r \in Runs, Create(r) PROVE Goal'
  <2>1. /\ pc[r] = "create"
        /\ \/ temp = None /\ temp' = r /\ pc' = [pc EXCEPT ![r] = "write"]
           \/ temp # None /\ temp' = temp /\ pc' = [pc EXCEPT ![r] = "cleanup"]
        /\ UNCHANGED <<path, disk, synced, faults, identity>>
    BY <1>6 DEF Create
  <2>2. PICK label \in {"write", "cleanup"} : pc' = [pc EXCEPT ![r] = label]
    BY <2>1
  <2>3. Alive(r) /\ Alive(r)'
    BY <2>1, <2>2 DEF Alive, Working, TypeOK
  <2>4. Kept'
    BY <2>1, <2>2 DEF Kept, TypeOK, Ended
  <2>5. \A q \in Runs : FollowsAFailure(q) => FollowsAFailure(q)'
    BY <1>1, <2>2, <2>3 DEF PcValues, Working
  <2>6. \A q \in Runs : q # r => pc[q] # "create"
    BY <1>4, <2>3 DEF Alive, Working
  <2>7. Leftover'
    BY <2>1, <2>3, <2>5, <2>6 DEF Leftover, TypeOK
  <2>8. QED BY <1>s, <2>1, <2>4, <2>7
<1>7. ASSUME NEW r \in Runs, Write(r) \/ Sync(r) PROVE Goal'
  <2>1. PICK label \in {"sync", "rename"} : pc' = [pc EXCEPT ![r] = label]
    BY <1>7 DEF Write, Sync
  <2>2. pc[r] \in {"write", "sync"} /\ UNCHANGED <<directory, faults, identity>>
    BY <1>7 DEF Write, Sync
  <2>3. Alive(r) /\ Alive(r)'
    BY <2>1, <2>2 DEF Alive, Working, TypeOK
  <2>4. Kept'
    BY <2>1, <2>2 DEF Kept, TypeOK, Ended
  <2>5. \A q \in Runs : FollowsAFailure(q) => FollowsAFailure(q)'
    BY <1>1, <2>1, <2>3 DEF PcValues, Working
  <2>6. Leftover'
    BY <2>1, <2>2, <2>3, <2>5 DEF Leftover, TypeOK
  <2>7. QED BY <1>s, <2>2, <2>4, <2>6
<1>8. ASSUME NEW r \in Runs, Cleanup(r) PROVE Goal'
  <2>1. /\ pc[r] = "cleanup" /\ temp' = None /\ pc' = [pc EXCEPT ![r] = "failed"]
        /\ UNCHANGED <<path, disk, files, faults, identity>>
    BY <1>8 DEF Cleanup
  <2>2. Alive(r)
    BY <2>1 DEF Alive, Working
  <2>3. Kept'
    BY <2>1 DEF Kept, TypeOK, Ended
  <2>4. \A q \in Runs : FollowsAFailure(q) => FollowsAFailure(q)'
    BY <1>1, <2>1, <2>2 DEF PcValues, Ended
  <2>5. Leftover'
    BY <2>1, <2>4 DEF Leftover, TypeOK
  <2>6. QED BY <1>s, <2>1, <2>3, <2>5
<1>9. ASSUME NEW r \in Runs, Rename(r) PROVE Goal'
  <2>1. /\ pc[r] = "rename" /\ temp = r /\ (path = None \/ r \in overlooked)
        /\ path' = r /\ temp' = None /\ pc' = [pc EXCEPT ![r] = "running"]
        /\ identity' = [identity EXCEPT ![r] = r]
        /\ UNCHANGED overlooked
    BY <1>9 DEF Rename, OwnsTemp, Kept
  <2>2. Alive(r)
    BY <2>1 DEF Alive, Working
  <2>3. \A q \in Runs : q # r => pc[q] \notin {"create", "write", "sync", "rename", "cleanup"}
    BY <2>2, <1>4 DEF Alive, Working
  <2>4. /\ identity'[r] = r /\ overlooked \subseteq Runs
        /\ \A q \in Runs : q # r => identity'[q] = identity[q]
        /\ \A q \in Runs : q # r /\ identity'[q] # None => q < r /\ r \in overlooked
    BY <2>1, <2>2, <1>o DEF Kept, TypeOK
  <2>5. Kept'
    BY <2>1, <2>3, <2>4 DEF Kept, TypeOK, Ended
  <2>6. StableUnlessOverlooked'
    <3> SUFFICES ASSUME NEW p \in Runs, NEW q \in Runs, p < q,
                        identity'[p] # None, identity'[q] # None, identity'[p] # identity'[q]
                 PROVE  \E o \in overlooked : p < o /\ o <= q /\ identity'[o] = o
      BY <2>1 DEF StableUnlessOverlooked
    <3>1. CASE q = r
      BY <2>4, <3>1
    <3>2. CASE q # r
      <4>1. p # r /\ identity[p] # None /\ identity[q] # None /\ identity[p] # identity[q]
        BY <2>4, <3>2
      <4>2. PICK o \in overlooked : p < o /\ o <= q /\ identity[o] = o
        BY <4>1 DEF StableUnlessOverlooked
      <4>3. QED BY <4>2, <2>4
    <3>3. QED BY <3>1, <3>2
  <2>7. \A q \in Runs : FollowsAFailure(q) => FollowsAFailure(q)'
    BY <1>1, <2>1, <2>2 DEF PcValues
  <2>8. Leftover'
    BY <2>1, <2>7 DEF Leftover, TypeOK
  <2>9. QED BY <2>5, <2>6, <2>8
<1>10. ASSUME NEW r \in Runs, IoError(r) \/ End(r) PROVE Goal'
  <2>1. /\ Alive(r)
        /\ \/ pc' = [pc EXCEPT ![r] = "stopped"] /\ pc[r] = "running"
           \/ pc' = [pc EXCEPT ![r] = "io_failed"]
           \/ pc' = [pc EXCEPT ![r] = "crashed"]
        /\ temp' \in {temp, None}
        /\ UNCHANGED <<path, disk, files, faults, identity>>
    BY <1>10 DEF IoError, End, Alive
  <2>2. PICK label \in {"stopped", "io_failed", "crashed"} : pc' = [pc EXCEPT ![r] = label]
    BY <2>1
  <2>3. Kept'
    BY <2>1, <2>2 DEF Kept, TypeOK, Ended
  <2>4. \A q \in Runs : FollowsAFailure(q) => FollowsAFailure(q)'
    BY <1>1, <2>1, <2>2 DEF PcValues, Ended
  <2>5. \A q \in Runs : IsNext(q)' => q - 1 = r
    BY <1>2, <2>1, <2>2 DEF Ended
  <2>6. pc[r] = "running" => path # None
    BY <2>1 DEF Kept
  <2>7. path' = None => pc'[r] \in {"io_failed", "crashed"}
    BY <2>1, <2>6 DEF TypeOK
  <2>8. \A q \in Runs : path' = None /\ IsNext(q)' => FollowsAFailure(q)'
    BY <2>5, <2>7 DEF FollowsAFailure, Runs
  <2>9. Leftover'
    BY <2>1, <2>2, <2>4, <2>8 DEF Leftover, TypeOK
  <2>10. QED BY <1>s, <2>1, <2>3, <2>9
<1>11. CASE PowerLoss
  BY <1>11 DEF PowerLoss, TypeOK
<1>12. CASE Writeback
  BY <1>s, <1>12 DEF Writeback, Kept, Leftover, FollowsAFailure, IsNext, Alive
<1>13. CASE UNCHANGED vars
  BY <1>s, <1>13 DEF vars, Kept, Leftover, FollowsAFailure, IsNext, Alive
<1>14. QED
  BY <1>3, <1>5, <1>6, <1>7, <1>8, <1>9, <1>10, <1>11, <1>12, <1>13 DEF Next

(* A power loss is never taken back.                                              *)
LEMMA LossesGrow == TypeOK /\ [Next]_vars /\ losses' = 0 => losses = 0
<1> SUFFICES ASSUME TypeOK, [Next]_vars, losses' = 0 PROVE losses = 0
  OBVIOUS
<1>1. CASE PowerLoss
  BY <1>1, BoundsAssumption DEF PowerLoss, TypeOK
<1>2. ASSUME NEW r \in Runs, Start(r) \/ Read(r) \/ Create(r) \/ Write(r) \/ Sync(r)
      PROVE  losses = 0
  BY <1>2 DEF Start, Read, Create, Write, Sync, faults
<1>3. ASSUME NEW r \in Runs, Cleanup(r) \/ Rename(r) \/ IoError(r) \/ End(r)
      PROVE  losses = 0
  BY <1>3 DEF Cleanup, Rename, IoError, End, faults
<1>4. CASE Writeback \/ UNCHANGED vars
  BY <1>4 DEF Writeback, vars, faults
<1>5. QED BY <1>1, <1>2, <1>3, <1>4 DEF Next

(* Every state of one run at a time satisfies all of it.                          *)
LEMMA StableInvariant == ASSUME MaxAlive = 1 PROVE Spec => []SInv
<1>1. Init => SInv
  BY InitInvariant DEF Init, SInv, Kept, StableUnlessOverlooked, Leftover
<1>2. SInv /\ [Next]_vars => SInv'
  BY NextInvariant, NextStable, LossesGrow DEF SInv, IInv
<1>3. QED BY <1>1, <1>2, PTL DEF Spec

--------------------------------------------------------------------------------
(* No step leaves its range, also with concurrent starts.                         *)
THEOREM TypeCorrect == Spec => []TypeOK
<1>1. Init => TypeOK
  BY InitInvariant DEF IInv
<1>2. QED BY <1>1, NextTypeOK, PTL DEF Spec

(* No crash and no power loss leaves a torn key under the path.                   *)
THEOREM KeyIsWhole == ASSUME MaxAlive = 1 PROVE Spec => []InstalledKeyIsComplete
<1>1. IInv => InstalledKeyIsComplete
  BY DEF IInv, TypeOK, Durable, InstalledKeyIsComplete, RunOrNone
<1>2. QED BY <1>1, Invariant, PTL

(* Until the machine loses power, two runs that come up have the same identity,   *)
(* unless between them a start that did not see the key has replaced it.          *)
THEOREM IdentityIsStable ==
    ASSUME MaxAlive = 1 PROVE Spec => []StableUnlessOverlooked
<1>1. SInv => StableUnlessOverlooked
  BY DEF SInv, IInv, TypeOK, StableUnlessOverlooked
<1>2. QED BY <1>1, StableInvariant, PTL

(* A crash or an I/O error costs at most the start that comes right after it.     *)
THEOREM LeftoverCostsOneStart ==
    ASSUME MaxAlive = 1 PROVE Spec => []FailsOnlyAfterAFailure
<1>1. SInv => FailsOnlyAfterAFailure
  BY DEF SInv, Leftover, FollowsAFailure, FailsOnlyAfterAFailure
<1>2. QED BY <1>1, StableInvariant, PTL
================================================================================
