---------------------------- MODULE AbstractSession ----------------------------
(* What one SOCKS session promises the local program and the target, without the  *)
(* two tasks, their stream and their timeouts: the program is told at most once   *)
(* what became of its request, and if that is good the two have a connection, of  *)
(* which either direction carries what is sent, in full and to its end, whatever  *)
(* happens to the other direction, for as long as nobody vanishes.  SocksSession  *)
(* implements it.                                                                 *)
EXTENDS Integers

(* What is indexed by "client" goes from the program to the target, by "server"   *)
(* the other way.                                                                 *)
Directions == {"client", "server"}

VARIABLES
    answer,     \* to the program: "none", "granted" or "refused"
    connected,  \* there is a connection to the target
    given_up,   \* the request will not be granted any more
    sent,       \* per direction: units its sender has sent
    received,   \* per direction: units that have been received
    closed,     \* per direction: its sender has closed it
    ended,      \* per direction: its receiver has been told that no more comes
    broken      \* a peer has vanished, or the connection between the two programs

vars == <<answer, connected, given_up, sent, received, closed, ended, broken>>

Init ==
    /\ answer = "none" /\ connected = FALSE /\ given_up = FALSE
    /\ sent = [d \in Directions |-> 0] /\ received = [d \in Directions |-> 0]
    /\ closed = [d \in Directions |-> FALSE] /\ ended = [d \in Directions |-> FALSE]
    /\ broken = FALSE

Connect ==
    /\ ~ connected
    /\ connected' = TRUE
    /\ UNCHANGED <<answer, given_up, sent, received, closed, ended, broken>>

(* Success is out of reach; the program may hear no more than the end of it.      *)
GiveUp ==
    /\ answer = "none" /\ ~ given_up
    /\ given_up' = TRUE
    /\ ended' = ended \/ ended' = [ended EXCEPT !["server"] = TRUE]
    /\ UNCHANGED <<answer, connected, sent, received, closed, broken>>

Refuse ==
    /\ answer = "none" /\ given_up
    /\ answer' = "refused"
    /\ ended' = [ended EXCEPT !["server"] = TRUE]
    /\ UNCHANGED <<connected, given_up, sent, received, closed, broken>>

Grant ==
    /\ answer = "none" /\ ~ given_up /\ connected
    /\ answer' = "granted"
    /\ UNCHANGED <<connected, given_up, sent, received, closed, ended, broken>>

(* The program may send before it has been answered.                              *)
Send(d) ==
    /\ ~ closed[d] /\ (d = "server" => connected)
    /\ sent' = [sent EXCEPT ![d] = @ + 1]
    /\ UNCHANGED <<answer, connected, given_up, received, closed, ended, broken>>

(* A sender half-closes, or vanishes.                                             *)
Close(d) ==
    /\ ~ closed[d] /\ (d = "server" => connected)
    /\ closed' = [closed EXCEPT ![d] = TRUE]
    /\ broken' \in {broken, TRUE}
    /\ UNCHANGED <<answer, connected, given_up, sent, received, ended>>

Break ==
    /\ ~ broken
    /\ broken' = TRUE
    /\ UNCHANGED <<answer, connected, given_up, sent, received, closed, ended>>

Receive(d) ==
    /\ answer = "granted" /\ ~ ended[d]
    /\ received[d] < sent[d]
    /\ received' = [received EXCEPT ![d] = @ + 1]
    /\ UNCHANGED <<answer, connected, given_up, sent, closed, ended, broken>>

(* A direction that has been granted and is not broken ends after all of it.      *)
End(d) ==
    /\ ~ ended[d] /\ (d = "client" => connected)
    /\ given_up \/ broken \/ (answer = "granted" /\ closed[d] /\ received[d] = sent[d])
    /\ ended' = [ended EXCEPT ![d] = TRUE]
    /\ UNCHANGED <<answer, connected, given_up, sent, received, closed, broken>>

Next ==
    \/ Connect \/ GiveUp \/ Refuse \/ Grant \/ Break
    \/ \E d \in Directions : Send(d) \/ Close(d) \/ Receive(d) \/ End(d)

Spec == Init /\ [][Next]_vars
================================================================================
