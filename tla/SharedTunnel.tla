------------------------------ MODULE SharedTunnel ------------------------------
(* What the connection manager promises the tasks of the OpenAI client, without *)
(* its lock, its ids and its retries: one tunnel at a time, replaced by a newer *)
(* one, taken down only by a client that used it in vain, and an answer to      *)
(* every request.  ConnectionManager implements it.                             *)
EXTENDS Integers

CONSTANT Clients        \* the tasks that ask for a stream

VARIABLES
    tunnel,     \* the tunnel new requests get, 0 when there is none
    newest,     \* number of tunnels set up so far, which is the name of the last
    status,     \* per client: "out", "waiting", "granted", "refused", "cancelled"
    bound       \* per client: the tunnel its request uses, 0 before it has one

vars == <<tunnel, newest, status, bound>>

Init ==
    /\ tunnel = 1
    /\ newest = 1
    /\ status = [c \in Clients |-> "out"]
    /\ bound = [c \in Clients |-> 0]

Becomes(c, s) == status' = [status EXCEPT ![c] = s]

Ask(c) ==
    /\ status[c] = "out"
    /\ Becomes(c, "waiting")
    /\ bound' = [bound EXCEPT ![c] = 0]
    /\ UNCHANGED <<tunnel, newest>>

(* A request moves on to the present tunnel, never back to an older one.        *)
Bind(c) ==
    /\ status[c] = "waiting"
    /\ tunnel > bound[c]
    /\ bound' = [bound EXCEPT ![c] = tunnel]
    /\ UNCHANGED <<tunnel, newest, status>>

(* Only when there is no tunnel is one set up.                                  *)
SetUp(c) ==
    /\ status[c] = "waiting"
    /\ tunnel = 0
    /\ newest' = newest + 1
    /\ tunnel' = newest + 1
    /\ bound' = [bound EXCEPT ![c] = newest + 1]
    /\ UNCHANGED status

(* Only a request that uses the tunnel takes it down.                           *)
TakesDown(c) == tunnel # 0 /\ bound[c] = tunnel /\ tunnel' = 0

TakeDown(c) ==
    /\ status[c] = "waiting"
    /\ TakesDown(c)
    /\ UNCHANGED <<newest, status, bound>>

Grant(c) ==
    /\ status[c] = "waiting"
    /\ bound[c] # 0
    /\ Becomes(c, "granted")
    /\ UNCHANGED <<tunnel, newest, bound>>

Refuse(c) ==
    /\ status[c] = "waiting"
    /\ Becomes(c, "refused")
    /\ TakesDown(c) \/ UNCHANGED tunnel
    /\ UNCHANGED <<newest, bound>>

Leave(c) ==
    /\ status[c] \in {"granted", "refused"}
    /\ Becomes(c, "out")
    /\ bound' = [bound EXCEPT ![c] = 0]
    /\ UNCHANGED <<tunnel, newest>>

(* The client is gone for good.                                                 *)
Cancel(c) ==
    /\ Becomes(c, "cancelled")
    /\ bound' = [bound EXCEPT ![c] = 0]
    /\ UNCHANGED <<tunnel, newest>>

Next ==
    \E c \in Clients :
        \/ Ask(c) \/ Bind(c) \/ SetUp(c) \/ TakeDown(c)
        \/ Grant(c) \/ Refuse(c) \/ Leave(c) \/ Cancel(c)

Spec == Init /\ [][Next]_vars

(* Every request is answered.                                                   *)
FairSpec == Spec /\ \A c \in Clients : WF_vars(Grant(c) \/ Refuse(c))
================================================================================
