------------------------------ MODULE IdentityFile ------------------------------
(* The persistent iroh identity (src/iroh_endpoint.rs): how a start of the       *)
(* server or the client with --identity-path reads the secret key in that file,  *)
(* or generates one and installs it through a temporary file beside it, and what *)
(* crashes, I/O errors, concurrent starts and a power loss make of it.           *)
(*                                                                               *)
(* A run is one start of a program with this path.  SecretKey::generate() makes  *)
(* a new key every time, so a key is named by the run that generated it, and so  *)
(* is the file that create_new makes for it: an open file and a name in the      *)
(* directory are different things here, as they are for the kernel.              *)
EXTENDS Integers, FiniteSets

CONSTANTS
    MaxRuns,        \* bound on the number of starts
    MaxAlive,       \* how many of them may be alive at the same time
    MaxOverlooked,  \* bound on the starts that do not see a file that is there
    MaxPowerLosses  \* bound on the number of power losses

ASSUME BoundsAssumption ==
    /\ MaxRuns \in Nat \ {0}
    /\ MaxAlive \in Nat \ {0}
    /\ MaxOverlooked \in Nat
    /\ MaxPowerLosses \in Nat

Runs == 1..MaxRuns
None == 0
RunOrNone == Runs \cup {None}

VARIABLES
    path,       \* the file the identity path names, None when nothing exists there
    temp,       \* the file its ".tmp" sibling names, or None
    content,    \* per file: "absent", "partial" (possibly empty) or "complete"
    synced,     \* the files whose content sync_all() has made durable
    disk,       \* the two names as they are durable in the directory
    losses,     \* number of power losses so far
    overlooked, \* the starts that did not see the file under the path
    pc,         \* per run: the next operation of load_or_create_secret_key
    identity    \* per run: the key it binds its endpoint with, None before

directory == <<path, temp, disk>>
files == <<content, synced>>
faults == <<losses, overlooked>>
vars == <<directory, files, faults, pc, identity>>

Working == {"read", "create", "write", "sync", "rename", "cleanup"}
Ended == {"failed", "io_failed", "crashed", "stopped"}
PcValues == {"off", "running"} \cup Working \cup Ended

(* Nothing exists before the first start.                                        *)
Init ==
    /\ path = None
    /\ temp = None
    /\ content = [f \in Runs |-> "absent"]
    /\ synced = {}
    /\ disk = [path |-> None, temp |-> None]
    /\ losses = 0 /\ overlooked = {}
    /\ pc = [r \in Runs |-> "off"]
    /\ identity = [r \in Runs |-> None]

Alive(r) == pc[r] \in Working \cup {"running"}
Goto(r, label) == pc' = [pc EXCEPT ![r] = label]

(* Runs are numbered in the order in which they start.                           *)
IsNext(r) == pc[r] = "off" /\ \A q \in 1..(r - 1) : pc[q] # "off"

(* Faulty: what is under the path is never looked at.                            *)
StartAfresh(r) ==
    /\ IsNext(r)
    /\ Cardinality({q \in Runs : Alive(q)}) < MaxAlive
    /\ Goto(r, "create")
    /\ UNCHANGED <<directory, files, faults, identity>>

(* path.exists() decides between reading and creating.  It is false also when the *)
(* file cannot be looked at (a failing stat, a directory that may not be searched *)
(* behind a link), and then the start goes on as if there were none.              *)
Start(r) ==
    /\ IsNext(r)
    /\ Cardinality({q \in Runs : Alive(q)}) < MaxAlive
    /\ \/ Goto(r, IF path # None THEN "read" ELSE "create") /\ UNCHANGED overlooked
       \/ /\ path # None /\ Cardinality(overlooked) < MaxOverlooked
          /\ Goto(r, "create")
          /\ overlooked' = overlooked \cup {r}
    /\ UNCHANGED <<directory, files, losses, identity>>

(* read_to_string and decode_secret_key: only a complete file decodes.           *)
Read(r) ==
    /\ pc[r] = "read"
    /\ IF content[path] = "complete"
       THEN Goto(r, "running") /\ identity' = [identity EXCEPT ![r] = path]
       ELSE Goto(r, "failed") /\ UNCHANGED identity
    /\ UNCHANGED <<directory, files, faults>>

(* Faulty: the name is taken before there is a file.                             *)
CreateNameOnly(r) ==
    /\ pc[r] = "create"
    /\ temp = None
    /\ temp' = r
    /\ Goto(r, "write")
    /\ UNCHANGED <<path, disk, files, faults, identity>>

(* create_new: a temporary name that is taken is an error, which goes to the     *)
(* clean-up like an error of the next two operations.                            *)
Create(r) ==
    /\ pc[r] = "create"
    /\ IF temp = None
       THEN /\ temp' = r
            /\ content' = [content EXCEPT ![r] = "partial"]
            /\ Goto(r, "write")
       ELSE Goto(r, "cleanup") /\ UNCHANGED <<temp, content>>
    /\ UNCHANGED <<path, disk, synced, faults, identity>>

(* write_all and flush.                                                          *)
Write(r) ==
    /\ pc[r] = "write"
    /\ content' = [content EXCEPT ![r] = "complete"]
    /\ Goto(r, "sync")
    /\ UNCHANGED <<directory, synced, faults, identity>>

(* Faulty: the file is renamed without sync_all.                                 *)
NoSync(r) ==
    /\ pc[r] = "sync"
    /\ Goto(r, "rename")
    /\ UNCHANGED <<directory, files, faults, identity>>

(* sync_all                                                                      *)
Sync(r) ==
    /\ pc[r] = "sync"
    /\ synced' = synced \cup {r}
    /\ Goto(r, "rename")
    /\ UNCHANGED <<directory, content, faults, identity>>

(* Faulty: an error leaves the temporary file where it is.                       *)
NoCleanup(r) ==
    /\ pc[r] = "cleanup"
    /\ Goto(r, "failed")
    /\ UNCHANGED <<directory, files, faults, identity>>

(* The clean-up removes whatever the temporary name stands for, then the start   *)
(* fails.                                                                        *)
Cleanup(r) ==
    /\ pc[r] = "cleanup"
    /\ temp' = None
    /\ Goto(r, "failed")
    /\ UNCHANGED <<path, disk, files, faults, identity>>

(* rename(temp, path) installs whatever the temporary name stands for by now,    *)
(* and fails when another start has removed it.                                  *)
Rename(r) ==
    /\ pc[r] = "rename"
    /\ IF temp # None
       THEN /\ path' = temp /\ temp' = None
            /\ Goto(r, "running")
            /\ identity' = [identity EXCEPT ![r] = r]
       ELSE Goto(r, "failed") /\ UNCHANGED <<path, temp, identity>>
    /\ UNCHANGED <<disk, files, faults>>

(* Any operation may fail in the file system.  A failing create, write or sync   *)
(* is followed by remove_file, whose own failure is ignored; a failing read or   *)
(* rename is not.                                                                *)
IoError(r) ==
    /\ pc[r] \in Working
    /\ Goto(r, "io_failed")
    /\ temp' \in IF pc[r] \in {"create", "write", "sync"} THEN {temp, None} ELSE {temp}
    /\ UNCHANGED <<path, disk, files, faults, identity>>

(* A running program is stopped; one that is still starting is killed.           *)
End(r) ==
    /\ Alive(r)
    /\ Goto(r, IF pc[r] = "running" THEN "stopped" ELSE "crashed")
    /\ UNCHANGED <<directory, files, faults, identity>>

(* The kernel writes the directory back when it likes: nothing in the code syncs *)
(* the directory.                                                                *)
Writeback ==
    /\ MaxPowerLosses > 0
    /\ disk' = [path |-> path, temp |-> temp]
    /\ UNCHANGED <<path, temp, files, faults, pc, identity>>

(* A power loss ends every run and leaves the names as they were written back,   *)
(* and of a file that was not synced any part.                                   *)
PowerLoss ==
    /\ losses < MaxPowerLosses
    /\ losses' = losses + 1
    /\ pc' = [r \in Runs |-> IF Alive(r) THEN "crashed" ELSE pc[r]]
    /\ path' = disk.path
    /\ temp' = disk.temp
    /\ \E torn \in SUBSET {f \in Runs \ synced : content[f] = "complete"} :
          content' = [f \in Runs |-> IF f \in torn THEN "partial" ELSE content[f]]
    /\ UNCHANGED <<synced, disk, overlooked, identity>>

Next ==
    \/ \E r \in Runs :
          \/ Start(r) \/ Read(r)
          \/ Create(r) \/ Write(r) \/ Sync(r) \/ Cleanup(r) \/ Rename(r)
          \/ IoError(r) \/ End(r)
    \/ Writeback
    \/ PowerLoss

Spec == Init /\ [][Next]_vars

--------------------------------------------------------------------------------
(* Type invariant: among the rest, a name never stands for a file that nobody    *)
(* created.                                                                      *)
TypeOK ==
    /\ path \in RunOrNone /\ temp \in RunOrNone
    /\ \A f \in {path, temp, disk.path, disk.temp} \ {None} : content[f] # "absent"
    /\ content \in [Runs -> {"absent", "partial", "complete"}]
    /\ synced \subseteq Runs
    /\ disk \in [path : RunOrNone, temp : RunOrNone]
    /\ losses \in 0..MaxPowerLosses /\ overlooked \subseteq Runs
    /\ pc \in [Runs -> PcValues]
    /\ identity \in [Runs -> RunOrNone]

(* "Path to a persistent iroh identity secret for stable server tickets across   *)
(* restarts" (src/cli.rs:111): every run that comes up has the identity of every *)
(* other one, so a ticket that was ever printed stays good.                      *)
StableIdentity ==
    \A r, q \in Runs : identity[r] # None /\ identity[q] # None => identity[r] = identity[q]

(* What is installed under the path is a whole key (iroh_endpoint.rs:78-95: it is *)
(* written and synced under another name first), so no crash and no power loss   *)
(* leaves a file that every later start refuses to decode.                       *)
InstalledKeyIsComplete == path # None => content[path] = "complete"

(* As long as the machine keeps its power, no sequence of crashes and I/O errors  *)
(* changes the identity, but for one: of two runs that came up with different     *)
(* ones, or between them, one did not see the key that was there and went on to   *)
(* its rename (iroh_endpoint.rs:48, 95).  One that is killed or fails before that *)
(* has done no harm.                                                              *)
StableUnlessOverlooked ==
    losses = 0 =>
        \A r, q \in Runs : r < q /\ identity[r] # None /\ identity[q] # None =>
            \/ identity[r] = identity[q]
            \/ \E o \in overlooked : r < o /\ o <= q /\ identity[o] = o

(* Nor does a start then fail for what an earlier one left behind, but once:      *)
(* right after a run that was killed or met an I/O error (iroh_endpoint.rs:90-92, *)
(* the refused create_new removes the leftover), or when it does not see the key  *)
(* that is there, and for want of it creates one.                                 *)
FailsOnlyAfterAFailure ==
    losses = 0 =>
        \A r \in Runs : pc[r] = "failed" =>
            r \in overlooked \/ (r > 1 /\ pc[r - 1] \in {"crashed", "io_failed"})
================================================================================
