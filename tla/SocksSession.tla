------------------------------ MODULE SocksSession ------------------------------
(* One session of SOCKS mode from end to end: a local program's CONNECT taken by  *)
(* the client (src/client.rs), carried over one QUIC stream to the server         *)
(* (src/server.rs), which connects to the target, and the relay of bytes in both  *)
(* directions that follows.                                                       *)
(*                                                                                *)
(* The session is symmetric: each of the two tasks has a TCP peer, feeds its half *)
(* of the stream with what that peer sends and drains the other task's half into  *)
(* it.  A pair of variables is indexed by the task; what is indexed by "client"   *)
(* travels from the local program to the target, by "server" the other way.       *)
(* Bytes are counted in units, each moved by a pump in one step: a unit that a    *)
(* pump held when it was cancelled is as lost as one it had not read yet.         *)
EXTENDS Integers, Sequences

CONSTANTS
    MaxUnits,       \* bound on the units either TCP peer sends
    Window          \* units half a stream holds before its writer has to wait

ASSUME BoundAssumption == MaxUnits \in Nat /\ Window \in Nat \ {0}

Tasks == {"client", "server"}
Other(t) == IF t = "client" THEN "server" ELSE "client"

(* A request is for a target the policy allows, for one that never answers, for   *)
(* one the policy denies (as an address or by every address it resolves to), or   *)
(* is not a CONNECT that can be parsed.                                           *)
Kinds == {"allowed", "silent", "denied", "malformed"}

(* "Refused" stands for every reply code of a target that cannot be resolved or   *)
(* connected to, "Unsupported" for those of a request that was not understood.    *)
Codes == {"Succeeded", "GeneralFailure", "NotAllowed", "Refused", "TtlExpired", "Unsupported"}

VARIABLES
    kind,           \* what the local program asks for
    pc,             \* per task: the next operation of its handler
    peer,           \* per task: its TCP peer, "none", "open", "half" (sent FIN) or "gone"
    opened,         \* the QUIC stream has been opened
    sent,           \* parts of the tunnel request the client has written
    answer,         \* the tunnel response in flight, or "none"
    reply,          \* per task: the code it is about to write, or "none"
    replies,        \* the CONNECT replies the local program has received
    offered,        \* per task: units its TCP peer has sent
    near,           \* per task: those of them it has not read yet
    stream,         \* per task: units in its half of the stream
    delivered,      \* per task: units that have come out at the other TCP peer
    fin,            \* per task: it has finished its half of the stream
    stopped,        \* per task: the other task has stopped that half
    ended,          \* per task: it has shut down or dropped the write half to its peer
    lost            \* the QUIC connection is gone

handshake == <<opened, sent, answer, reply, replies>>
bytes == <<offered, near, stream, delivered>>
halves == <<fin, stopped, ended>>
vars == <<kind, pc, peer, handshake, bytes, halves, lost>>

Parts == 2      \* a tunnel request that has arrived in part, and one that is whole

Zero == [t \in Tasks |-> 0]
Nowhere == [t \in Tasks |-> FALSE]

Init ==
    /\ kind \in Kinds
    /\ pc = [client |-> "methods", server |-> "absent"]
    /\ peer = [client |-> "open", server |-> "none"]
    /\ opened = FALSE /\ sent = 0 /\ answer = "none"
    /\ reply = [t \in Tasks |-> "none"]
    /\ replies = <<>>
    /\ offered = Zero /\ near = Zero /\ stream = Zero /\ delivered = Zero
    /\ fin = Nowhere /\ stopped = Nowhere /\ ended = Nowhere
    /\ lost = FALSE

Goto(t, label) == pc' = [pc EXCEPT ![t] = label]

(* The task goes on to write a reply or a tunnel response.                        *)
Replies(t, code) == Goto(t, "reply") /\ reply' = [reply EXCEPT ![t] = code]

(* The handler returns, well or with an error: its halves of the stream and its   *)
(* TCP connection are dropped.                                                    *)
Ends(t) ==
    /\ Goto(t, "done")
    /\ reply' = [reply EXCEPT ![t] = "none"]
    /\ fin' = [fin EXCEPT ![t] = TRUE]
    /\ stopped' = [stopped EXCEPT ![Other(t)] = TRUE]
    /\ ended' = [ended EXCEPT ![t] = TRUE]

--------------------------------------------------------------------------------
(* The client: handle_socks_connection.                                           *)

(* perform_socks_handshake: a method is agreed on, or the connection is closed    *)
(* after an error or socks_handshake_timeout.                                     *)
Negotiate ==
    /\ pc["client"] = "methods"
    /\ \/ Goto("client", "request") /\ UNCHANGED <<halves, reply>>
       \/ Ends("client")
    /\ UNCHANGED <<kind, peer, opened, sent, answer, replies, bytes, lost>>

(* Faulty: a buffered reader takes in what follows the request and is dropped.    *)
ReadConnectBuffered ==
    /\ pc["client"] = "request"
    /\ kind # "malformed" /\ Goto("client", "open")
    /\ near' = [near EXCEPT !["client"] = 0]
    /\ UNCHANGED <<kind, peer, handshake, offered, stream, delivered, halves, lost>>

(* read_socks_connect_request takes in the request and no byte after it, answers  *)
(* one it cannot parse, or gives up without a word after socks_handshake_timeout. *)
ReadConnect ==
    /\ pc["client"] = "request"
    /\ \/ kind # "malformed" /\ Goto("client", "open") /\ UNCHANGED <<reply, halves>>
       \/ kind = "malformed" /\ Replies("client", "Unsupported") /\ UNCHANGED halves
       \/ peer["client"] # "open" /\ Replies("client", "GeneralFailure") /\ UNCHANGED halves
       \/ Ends("client")
    /\ UNCHANGED <<kind, peer, opened, sent, answer, replies, bytes, lost>>

(* open_tunnel_stream on the one connection of the client, which is not replaced. *)
OpenTunnelStream ==
    /\ pc["client"] = "open"
    /\ \/ ~ lost /\ Goto("client", "send") /\ opened' = TRUE /\ UNCHANGED reply
       \/ lost /\ Replies("client", "GeneralFailure") /\ UNCHANGED opened
       \/ Replies("client", "TtlExpired") /\ UNCHANGED opened
    /\ UNCHANGED <<kind, peer, sent, answer, replies, bytes, halves, lost>>

(* send_tunnel_request: write_request makes progress, leaving the half open for   *)
(* the relay...                                                                   *)
SendPart ==
    /\ pc["client"] = "send" /\ ~ lost
    /\ sent' = sent + 1
    /\ IF sent' = Parts THEN Goto("client", "status") ELSE UNCHANGED pc
    /\ UNCHANGED <<kind, peer, opened, answer, reply, replies, bytes, halves, lost>>

(* ... or it fails...                                                             *)
SendFails ==
    /\ pc["client"] = "send"
    /\ stopped["client"] \/ lost
    /\ Replies("client", "GeneralFailure")
    /\ UNCHANGED <<kind, peer, opened, sent, answer, replies, bytes, halves, lost>>

(* Faulty: the task ends like one that has nobody to tell.                        *)
SendTimesOutSilently ==
    /\ pc["client"] = "send"
    /\ Ends("client")
    /\ UNCHANGED <<kind, peer, opened, sent, answer, replies, bytes, lost>>

(* ... or tunnel_operation_timeout elapses, and the half is finished.             *)
SendTimesOut ==
    /\ pc["client"] = "send"
    /\ fin' = [fin EXCEPT !["client"] = TRUE]
    /\ Replies("client", "TtlExpired")
    /\ UNCHANGED <<kind, peer, opened, sent, answer, replies, bytes, stopped, ended, lost>>

(* Faulty: the local program is told before the server has answered.              *)
ReadStatusEarly ==
    /\ pc["client"] = "status"
    /\ Replies("client", "Succeeded") /\ UNCHANGED answer
    /\ UNCHANGED <<kind, peer, opened, sent, replies, bytes, halves, lost>>

(* read_tunnel_status: the server's code arrives, its half ends or fails before   *)
(* it has, or tunnel_operation_timeout elapses.                                   *)
ReadStatus ==
    /\ pc["client"] = "status"
    /\ \/ answer # "none" /\ Replies("client", answer) /\ answer' = "none"
       \/ /\ (answer = "none" /\ fin["server"]) \/ lost
          /\ Replies("client", "GeneralFailure") /\ UNCHANGED answer
       \/ Replies("client", "TtlExpired") /\ UNCHANGED answer
    /\ UNCHANGED <<kind, peer, opened, sent, replies, bytes, halves, lost>>

(* write_reply, which fails when the local program is gone; only success goes on. *)
WriteReply ==
    /\ pc["client"] = "reply"
    /\ \/ peer["client"] = "gone" /\ Ends("client") /\ UNCHANGED replies
       \/ /\ peer["client"] # "gone"
          /\ replies' = Append(replies, reply["client"])
          /\ IF reply["client"] = "Succeeded"
             THEN /\ Goto("client", "relay")
                  /\ reply' = [reply EXCEPT !["client"] = "none"]
                  /\ UNCHANGED halves
             ELSE Ends("client")
    /\ UNCHANGED <<kind, peer, opened, sent, answer, bytes, lost>>

ClientHandshake ==
    \/ Negotiate \/ ReadConnect \/ OpenTunnelStream
    \/ SendPart \/ SendFails \/ SendTimesOut \/ ReadStatus \/ WriteReply

--------------------------------------------------------------------------------
(* The server: handle_tunnel_stream, from the accept loop on.                     *)

(* accept_bi returns the stream once something of it has arrived; without a       *)
(* permit it is answered at once.                                                 *)
AcceptStream ==
    /\ pc["server"] = "absent"
    /\ opened /\ (sent > 0 \/ fin["client"])
    /\ \/ Goto("server", "read") /\ UNCHANGED reply
       \/ Replies("server", "GeneralFailure")
    /\ UNCHANGED <<kind, peer, opened, sent, answer, replies, bytes, halves, lost>>

(* read_tunnel_request: the whole request, or the end of the task without a       *)
(* response after an error or tunnel_request_timeout.                             *)
ReadRequest ==
    /\ pc["server"] = "read"
    /\ \/ sent = Parts /\ Goto("server", "resolve") /\ UNCHANGED <<reply, halves>>
       \/ Ends("server")
    /\ UNCHANGED <<kind, peer, opened, sent, answer, replies, bytes, lost>>

(* resolve_allowed_target: an allowed address, a refusal, or target_connect_      *)
(* timeout.                                                                       *)
Resolve ==
    /\ pc["server"] = "resolve"
    /\ \/ kind \in {"allowed", "silent"} /\ Goto("server", "connect") /\ UNCHANGED reply
       \/ kind = "denied" /\ Replies("server", "NotAllowed")
       \/ \E code \in {"Refused", "TtlExpired"} : Replies("server", code)
    /\ UNCHANGED <<kind, peer, opened, sent, answer, replies, bytes, halves, lost>>

(* Faulty: the connection attempt is not under a timeout.                         *)
ConnectTargetPatiently ==
    /\ pc["server"] = "connect"
    /\ kind # "silent"
    /\ \/ peer' = [peer EXCEPT !["server"] = "open"] /\ Replies("server", "Succeeded")
       \/ UNCHANGED peer /\ Replies("server", "Refused")
    /\ UNCHANGED <<kind, opened, sent, answer, replies, bytes, halves, lost>>

(* connect_target: the target accepts, refuses, or lets target_connect_timeout    *)
(* elapse.                                                                        *)
ConnectTarget ==
    /\ pc["server"] = "connect"
    /\ \/ kind # "silent" /\ peer' = [peer EXCEPT !["server"] = "open"] /\ Replies("server", "Succeeded")
       \/ kind # "silent" /\ UNCHANGED peer /\ Replies("server", "Refused")
       \/ UNCHANGED peer /\ Replies("server", "TtlExpired")
    /\ UNCHANGED <<kind, opened, sent, answer, replies, bytes, halves, lost>>

(* write_response, which fails when the client has given up on the stream; only   *)
(* success goes on.                                                               *)
WriteResponse ==
    /\ pc["server"] = "reply"
    /\ \/ (lost \/ stopped["server"]) /\ Ends("server") /\ UNCHANGED answer
       \/ /\ ~ lost
          /\ answer' = reply["server"]
          /\ IF reply["server"] = "Succeeded"
             THEN /\ Goto("server", "relay")
                  /\ reply' = [reply EXCEPT !["server"] = "none"]
                  /\ UNCHANGED halves
             ELSE Ends("server")
    /\ UNCHANGED <<kind, peer, opened, sent, replies, bytes, lost>>

ServerHandshake ==
    AcceptStream \/ ReadRequest \/ Resolve \/ ConnectTarget \/ WriteResponse

--------------------------------------------------------------------------------
(* The relay: relay_socks_tunnel and relay_tunnel_to_tcp, two copies joined by    *)
(* try_join!, so that an error in one of them cancels the other.                  *)

Move(from, to, t) ==
    /\ from[t] > 0
    /\ from' = [from EXCEPT ![t] = @ - 1]
    /\ to' = [to EXCEPT ![t] = @ + 1]

(* copy from the TCP peer into the stream as long as flow control lets it, and    *)
(* finish() at the peer's FIN.                                                    *)
FeedUnit(t) ==
    /\ pc[t] = "relay" /\ ~ fin[t] /\ ~ lost
    /\ stream[t] < Window
    /\ Move(near, stream, t)
    /\ UNCHANGED <<kind, pc, peer, handshake, offered, delivered, halves, lost>>

FeedEnd(t) ==
    /\ pc[t] = "relay" /\ ~ fin[t]
    /\ near[t] = 0 /\ peer[t] # "open"
    /\ fin' = [fin EXCEPT ![t] = TRUE]
    /\ UNCHANGED <<kind, pc, peer, handshake, bytes, stopped, ended, lost>>

(* copy from the stream into the TCP peer, which has to read for it, and          *)
(* shutdown() at the stream's end.                                                *)
DrainUnit(t) ==
    /\ pc[t] = "relay" /\ ~ ended[t]
    /\ peer[t] # "gone"
    /\ Move(stream, delivered, Other(t))
    /\ UNCHANGED <<kind, pc, peer, handshake, offered, near, halves, lost>>

DrainEnd(t) ==
    /\ pc[t] = "relay" /\ ~ ended[t]
    /\ stream[Other(t)] = 0 /\ fin[Other(t)]
    /\ ended' = [ended EXCEPT ![t] = TRUE]
    /\ UNCHANGED <<kind, pc, peer, handshake, bytes, fin, stopped, lost>>

(* A read or a write fails.                                                       *)
FeedFails(t) == ~ fin[t] /\ (peer[t] = "gone" \/ (near[t] > 0 /\ (stopped[t] \/ lost)))
DrainFails(t) == ~ ended[t] /\ (lost \/ (peer[t] = "gone" /\ stream[Other(t)] > 0))

(* Faulty: an error of a write is not looked at.                                  *)
RelayFailsOnReads(t) ==
    /\ pc[t] = "relay"
    /\ ~ fin[t] /\ peer[t] = "gone"
    /\ Ends(t)
    /\ UNCHANGED <<kind, peer, opened, sent, answer, replies, bytes, lost>>

RelayFails(t) ==
    /\ pc[t] = "relay"
    /\ FeedFails(t) \/ DrainFails(t)
    /\ Ends(t)
    /\ UNCHANGED <<kind, peer, opened, sent, answer, replies, bytes, lost>>

(* Faulty: select! in the place of try_join!.                                     *)
RelayEndsWithEither(t) ==
    /\ pc[t] = "relay"
    /\ fin[t] \/ ended[t]
    /\ Ends(t)
    /\ UNCHANGED <<kind, peer, opened, sent, answer, replies, bytes, lost>>

RelayEnds(t) ==
    /\ pc[t] = "relay"
    /\ fin[t] /\ ended[t]
    /\ Ends(t)
    /\ UNCHANGED <<kind, peer, opened, sent, answer, replies, bytes, lost>>

Relay(t) ==
    \/ FeedUnit(t) \/ FeedEnd(t) \/ DrainUnit(t) \/ DrainEnd(t)
    \/ RelayFails(t) \/ RelayEnds(t)

--------------------------------------------------------------------------------
(* The environment: a TCP peer sends, half-closes or goes away, the connection is *)
(* lost.  The local program may send before it has been answered.                 *)
PeerSends(t) ==
    /\ peer[t] = "open" /\ pc[t] # "done"
    /\ offered[t] < MaxUnits
    /\ offered' = [offered EXCEPT ![t] = @ + 1]
    /\ near' = [near EXCEPT ![t] = @ + 1]
    /\ UNCHANGED <<kind, pc, peer, handshake, stream, delivered, halves, lost>>

PeerCloses(t) ==
    /\ \/ peer[t] = "open" /\ peer' = [peer EXCEPT ![t] = "half"]
       \/ peer[t] \in {"open", "half"} /\ peer' = [peer EXCEPT ![t] = "gone"]
    /\ UNCHANGED <<kind, pc, handshake, bytes, halves, lost>>

ConnectionLost ==
    /\ ~ lost
    /\ lost' = TRUE
    /\ UNCHANGED <<kind, pc, peer, handshake, bytes, halves>>

Next ==
    \/ ClientHandshake \/ ServerHandshake
    \/ \E t \in Tasks : Relay(t) \/ PeerSends(t) \/ PeerCloses(t)
    \/ ConnectionLost

Spec == Init /\ [][Next]_vars

(* The TCP peer has not read what there is for it: the copy towards it may be     *)
(* waiting in a write.                                                            *)
Unread(t) ==
    /\ pc[t] = "relay" /\ ~ ended[t]
    /\ peer[t] # "gone" /\ stream[Other(t)] > 0

(* A copy that waits in a write to its TCP peer does not see the connection fail. *)
NoticesFailure(t) == (FeedFails(t) \/ ~ Unread(t)) /\ RelayFails(t)

(* The waits of the handshake are under timeouts, but for write_reply and         *)
(* write_response: a few bytes for a TCP connection and a stream nothing has been *)
(* written to, which do not wait.  A copy waits for its source, and moves on when *)
(* there is something to move or the source has ended; the two copies of a task   *)
(* are polled in turn.  No peer has to read what it is sent (no fairness for      *)
(* DrainUnit), and the writes of the relay are under no timeout.                  *)
FairSpec ==
    /\ Spec
    /\ WF_vars(ClientHandshake) /\ WF_vars(ServerHandshake)
    /\ \A t \in Tasks :
          /\ WF_vars(FeedUnit(t) \/ FeedEnd(t))
          /\ WF_vars(DrainEnd(t))
          /\ WF_vars(NoticesFailure(t) \/ RelayEnds(t))

--------------------------------------------------------------------------------
(* Type invariant: every unit a TCP peer has sent is in exactly one place.        *)
TypeOK ==
    /\ kind \in Kinds
    /\ DOMAIN pc = Tasks
    /\ pc["client"] \in {"methods", "request", "open", "send", "status", "reply", "relay", "done"}
    /\ pc["server"] \in {"absent", "read", "resolve", "connect", "reply", "relay", "done"}
    /\ peer \in [Tasks -> {"none", "open", "half", "gone"}]
    /\ opened \in BOOLEAN /\ sent \in 0..Parts
    /\ answer \in Codes \cup {"none"}
    /\ reply \in [Tasks -> Codes \cup {"none"}]
    /\ replies \in Seq(Codes)
    /\ offered \in [Tasks -> 0..MaxUnits] /\ near \in [Tasks -> 0..MaxUnits]
    /\ stream \in [Tasks -> 0..MaxUnits] /\ delivered \in [Tasks -> 0..MaxUnits]
    /\ \A t \in Tasks : offered[t] = near[t] + stream[t] + delivered[t]
    /\ fin \in [Tasks -> BOOLEAN] /\ stopped \in [Tasks -> BOOLEAN] /\ ended \in [Tasks -> BOOLEAN]
    /\ lost \in BOOLEAN

(* The local program is answered once, and told of success only after the server  *)
(* has connected to the target; no byte travels, in either direction, without     *)
(* that answer before it (client.rs:186-197, server.rs:197-202).                  *)
SucceededMeansConnected ==
    /\ Len(replies) <= 1
    /\ replies = <<"Succeeded">> => peer["server"] # "none"
    /\ \A t \in Tasks : delivered[t] > 0 => replies = <<"Succeeded">>

(* A program that stays is told what became of its request once a stream has been *)
(* opened for it, whichever later step of the tunnel fails or times out           *)
(* (client.rs:182-191, 252-288).                                                  *)
RequestIsAnswered ==
    peer["client"] # "gone" /\ opened /\ pc["client"] = "done" => replies # <<>>

(* Closing one direction leaves the other one alone (client.rs:295-306): as long  *)
(* as neither end goes away and the connection lives, a peer that is sent a FIN   *)
(* has received everything the other one ever sent, what it sent before the       *)
(* CONNECT was answered included, and the other one has closed.                   *)
HalfCloseIsKept ==
    replies = <<"Succeeded">> /\ ~ lost /\ (\A t \in Tasks : peer[t] # "gone") =>
        \A t \in Tasks : ended[Other(t)] =>
            peer[t] = "half" /\ delivered[t] = offered[t]

(* The handshake of a session comes to an end on both sides, whatever the other   *)
(* one does: each wait for the other side is under a timeout (client.rs:200-288,  *)
(* server.rs:205-265).                                                            *)
HandshakesEnd ==
    /\ pc["client"] = "methods" ~> pc["client"] \in {"relay", "done"}
    /\ pc["server"] = "read" ~> pc["server"] \in {"relay", "done"}

(* No session outlives its two ends: once the local program has closed and the    *)
(* target has, the tasks on both sides end and return their permits               *)
(* (client.rs:306, server.rs:285), whatever happens to the connection, unless one *)
(* of the two stays and never again reads what it is sent.                        *)
BothClosed == \A t \in Tasks : peer[t] \in {"half", "gone"}
AllDone == \A t \in Tasks : pc[t] = "done"
SessionEnds == BothClosed ~> (AllDone \/ \E t \in Tasks : []Unread(t))

(* The session as the local program and the target see it.                        *)
Answer ==
    CASE replies = <<>> -> "none"
      [] replies = <<"Succeeded">> -> "granted"
      [] OTHER -> "refused"
GivenUp ==
    \/ pc["client"] = "reply" /\ reply["client"] # "Succeeded"
    \/ pc["client"] = "done" /\ replies # <<"Succeeded">>
Closed == [t \in Tasks |-> peer[t] \in {"half", "gone"}]
Over == [t \in Tasks |-> ended[Other(t)] /\ peer[Other(t)] # "none"]
Broken == lost \/ \E t \in Tasks : peer[t] = "gone"

Promise == INSTANCE AbstractSession WITH
    answer <- Answer, connected <- peer["server"] # "none", given_up <- GivenUp,
    sent <- offered, received <- delivered, closed <- Closed, ended <- Over, broken <- Broken

(* Whatever the two tasks and the stream between them do (client.rs:150-306,      *)
(* server.rs:185-291), every step is one of AbstractSession or changes nothing    *)
(* there: a request that is granted is a connection of which either direction     *)
(* carries all that is sent in it and ends when its sender has closed it, and one *)
(* that is not carries nothing.                                                   *)
ImplementsAbstractSession == Promise!Spec
================================================================================
