-------------------------- MODULE SocksSessionProofs --------------------------
(* Proofs about SocksSession, for any number of units either TCP peer sends and   *)
(* any number that half a stream holds.                                           *)
EXTENDS SocksSession, SequenceTheorems, TLAPS

Handshaking == {"methods", "request", "open", "send", "status"}
Connecting == {"absent", "read", "resolve", "connect"}

(* What is known of the client at each suspension point...                        *)
ClientStages ==
    /\ pc["client"] \in Handshaking =>
          replies = <<>> /\ reply["client"] = "none" /\ ~ fin["client"]
    /\ pc["client"] = "reply" => replies = <<>> /\ reply["client"] \in Codes
    /\ pc["client"] = "reply" /\ fin["client"] => reply["client"] # "Succeeded"
    /\ pc["client"] = "relay" => replies = <<"Succeeded">>
    /\ pc["client"] \in {"relay", "done"} => reply["client"] = "none"
    /\ pc["client"] \notin {"relay", "done"} => ~ ended["client"] /\ ~ stopped["server"]
    /\ pc["client"] \in {"methods", "request", "open"} => ~ opened /\ sent = 0
    /\ pc["client"] = "send" => sent < Parts
    /\ replies = <<>> \/ \E code \in Codes : replies = <<code>>
    /\ peer["client"] # "none"

(* ... and of the server.  It has a connection to the target from the moment on   *)
(* it is about to say so.                                                         *)
ServerStages ==
    /\ pc["server"] \notin {"relay", "done"} =>
          answer = "none" /\ ~ fin["server"] /\ ~ ended["server"] /\ ~ stopped["client"]
    /\ pc["server"] \in Connecting => peer["server"] = "none" /\ reply["server"] = "none"
    /\ pc["server"] = "reply" => reply["server"] \in Codes
    /\ pc["server"] = "reply" /\ reply["server"] # "Succeeded" => peer["server"] = "none"
    /\ pc["server"] = "relay" =>
          answer = "Succeeded" \/ pc["client"] \in {"reply", "relay", "done"}
    /\ reply["server"] = "Succeeded" \/ pc["server"] = "relay" => peer["server"] # "none"
    /\ reply["server"] = "Succeeded" \/ answer = "Succeeded" => sent = Parts
    /\ pc["server"] \in {"resolve", "connect", "relay"} => sent = Parts

(* Wherever success is on its way to the local program, the server has said so.   *)
Promised ==
    answer = "Succeeded" \/ reply["client"] = "Succeeded" \/ replies = <<"Succeeded">> =>
        pc["server"] \in {"relay", "done"} /\ peer["server"] # "none"

(* No byte is taken from the local program, and none given to it, before that.    *)
Carried ==
    stream["client"] > 0 \/ delivered["client"] > 0 \/ delivered["server"] > 0 =>
        replies = <<"Succeeded">>

(* Both tasks relay, or will: the success is on its way and the client waits for  *)
(* it, or has it.                                                                 *)
Agreed ==
    \/ replies = <<"Succeeded">>
    \/ reply["client"] = "Succeeded"
    \/ answer = "Succeeded" /\ pc["client"] = "status"
Undisturbed == ~ lost /\ \A t \in Tasks : peer[t] # "gone"

(* The end of a direction passes from the TCP peer to the task, to the other task *)
(* and to the other peer, and leaves nothing behind; only then does anybody stop. *)
EndsInOrder(t) ==
    /\ fin[t] => peer[t] = "half" /\ near[t] = 0
    /\ ended[Other(t)] => fin[t] /\ stream[t] = 0
    /\ stopped[t] => ended[Other(t)]
InOrder == Agreed /\ Undisturbed => \A t \in Tasks : EndsInOrder(t)

IInv ==
    /\ TypeOK
    /\ ClientStages
    /\ ServerStages
    /\ Promised
    /\ Carried
    /\ InOrder
    /\ RequestIsAnswered

USE DEF handshake, bytes, halves, Goto, Replies

--------------------------------------------------------------------------------
(* Next, action by action.                                                        *)
LEMMA Actions ==
    ASSUME Next
    PROVE  \/ Negotiate \/ ReadConnect \/ OpenTunnelStream \/ SendPart \/ SendFails
           \/ SendTimesOut \/ ReadStatus \/ WriteReply
           \/ AcceptStream \/ ReadRequest \/ Resolve \/ ConnectTarget \/ WriteResponse
           \/ \E t \in Tasks :
                 \/ FeedUnit(t) \/ FeedEnd(t) \/ DrainUnit(t) \/ DrainEnd(t)
                 \/ RelayFails(t) \/ RelayEnds(t)
                 \/ PeerSends(t) \/ PeerCloses(t)
           \/ ConnectionLost
BY DEF Next, ClientHandshake, ServerHandshake, Relay

(* The other task.                                                                *)
LEMMA Others ==
    /\ "client" \in Tasks /\ "server" \in Tasks /\ "client" # "server"
    /\ Other("client") = "server" /\ Other("server") = "client"
BY DEF Other, Tasks
(* The same of a task whose name is not known.                                  *)
LEMMA OtherTask ==
    ASSUME NEW t \in Tasks
    PROVE  /\ t \in {"client", "server"}
           /\ Other(t) \in Tasks /\ Other(t) # t /\ Other(Other(t)) = t
BY DEF Other, Tasks

(* Units are counted by natural numbers.                                          *)
LEMMA UnitsAreBounded == MaxUnits \in Nat
BY BoundAssumption

(* A unit that is moved leaves the sum as it was.                                 *)
LEMMA Moving ==
    ASSUME NEW from \in [Tasks -> 0..MaxUnits], NEW to \in [Tasks -> 0..MaxUnits],
           NEW t \in Tasks, from[t] > 0, from[t] + to[t] \in 0..MaxUnits
    PROVE  /\ [from EXCEPT ![t] = @ - 1] \in [Tasks -> 0..MaxUnits]
           /\ [to EXCEPT ![t] = @ + 1] \in [Tasks -> 0..MaxUnits]
           /\ \A u \in Tasks :
                 [from EXCEPT ![t] = @ - 1][u] + [to EXCEPT ![t] = @ + 1][u] = from[u] + to[u]
BY UnitsAreBounded

--------------------------------------------------------------------------------
(* TypeOK in two parts: where everybody is, and how many units are where.         *)
Controls ==
    /\ kind \in Kinds
    /\ DOMAIN pc = Tasks
    /\ pc["client"] \in Handshaking \cup {"reply", "relay", "done"}
    /\ pc["server"] \in Connecting \cup {"reply", "relay", "done"}
    /\ peer \in [Tasks -> {"none", "open", "half", "gone"}]
    /\ opened \in BOOLEAN /\ sent \in 0..Parts
    /\ answer \in Codes \cup {"none"}
    /\ reply \in [Tasks -> Codes \cup {"none"}]
    /\ replies \in Seq(Codes)
    /\ fin \in [Tasks -> BOOLEAN] /\ stopped \in [Tasks -> BOOLEAN] /\ ended \in [Tasks -> BOOLEAN]
    /\ lost \in BOOLEAN
Counts ==
    /\ offered \in [Tasks -> 0..MaxUnits] /\ near \in [Tasks -> 0..MaxUnits]
    /\ stream \in [Tasks -> 0..MaxUnits] /\ delivered \in [Tasks -> 0..MaxUnits]
    /\ \A t \in Tasks : offered[t] = near[t] + stream[t] + delivered[t]

(* The two parts are all of it.                                                 *)
LEMMA TypeParts == TypeOK <=> Controls /\ Counts
BY DEF TypeOK, Controls, Counts, Handshaking, Connecting

(* A handler that returns leaves what it is told of the others as it was.       *)
LEMMA EndsControls ==
    ASSUME Controls, NEW t \in Tasks, Ends(t),
           UNCHANGED <<kind, peer, opened, sent, answer, replies, lost>>
    PROVE  Controls'
<1> USE Others DEF Controls, Ends
<1>1. CASE t = "client"
  BY <1>1
<1>2. CASE t = "server"
  BY <1>2
<1>3. QED BY <1>1, <1>2 DEF Tasks

(* A reply of the proxy's own or the server's is a code.                          *)
LEMMA NextControls ==
    ASSUME Controls, ClientStages, ServerStages, [Next]_vars PROVE Controls'
<1> USE Others DEF Controls
<1>1. CASE Negotiate
  BY <1>1 DEF Negotiate, Ends, Handshaking
<1>2. CASE ReadConnect
  <2>1. CASE Ends("client")
    BY <1>2, <2>1, EndsControls DEF ReadConnect
  <2>2. CASE Goto("client", "open") /\ UNCHANGED <<reply, halves>>
    BY <1>2, <2>2 DEF ReadConnect, Handshaking
  <2>3. ASSUME NEW code \in {"Unsupported", "GeneralFailure"},
               Replies("client", code), UNCHANGED halves
        PROVE  Controls'
    BY <1>2, <2>3 DEF ReadConnect, Codes
  <2>4. QED BY <1>2, <2>1, <2>2, <2>3 DEF ReadConnect
<1>3. CASE OpenTunnelStream
  <2>1. CASE Goto("client", "send") /\ opened' = TRUE /\ UNCHANGED reply
    BY <1>3, <2>1 DEF OpenTunnelStream, Handshaking
  <2>2. ASSUME NEW code \in {"TtlExpired", "GeneralFailure"},
               Replies("client", code), UNCHANGED opened
        PROVE  Controls'
    BY <1>3, <2>2 DEF OpenTunnelStream, Codes
  <2>3. QED BY <1>3, <2>1, <2>2 DEF OpenTunnelStream
<1>4. CASE SendPart
  BY <1>4 DEF SendPart, ClientStages, Parts, Handshaking
<1>5. CASE SendFails
  BY <1>5 DEF SendFails, Codes
<1>6. CASE SendTimesOut
  BY <1>6 DEF SendTimesOut, Codes
<1>7. CASE ReadStatus
  BY <1>7 DEF ReadStatus, Codes
<1>8. CASE WriteReply
  <2>1. /\ reply["client"] \in Codes
        /\ UNCHANGED replies \/ replies' = Append(replies, reply["client"])
    BY <1>8 DEF WriteReply, ClientStages
  <2>2. replies' \in Seq(Codes)
    BY <2>1
  <2>3. reply' \in [Tasks -> Codes \cup {"none"}]
    BY <1>8 DEF WriteReply, Ends
  <2>4. QED BY <1>8, <2>2, <2>3 DEF WriteReply, Ends
<1>9. CASE AcceptStream
  BY <1>9 DEF AcceptStream, Codes, Connecting
<1>10. CASE ReadRequest
  BY <1>10 DEF ReadRequest, Ends, Connecting
<1>11. CASE Resolve
  BY <1>11 DEF Resolve, Codes, Connecting
<1>12. CASE ConnectTarget
  BY <1>12 DEF ConnectTarget, Codes
<1>13. CASE WriteResponse
  BY <1>13 DEF WriteResponse, Ends, ServerStages
<1>14. ASSUME NEW t \in Tasks, FeedUnit(t) \/ DrainUnit(t) \/ PeerSends(t) PROVE Controls'
  BY <1>14 DEF FeedUnit, DrainUnit, PeerSends
<1>15. ASSUME NEW t \in Tasks, FeedEnd(t) \/ DrainEnd(t) PROVE Controls'
  BY <1>15 DEF FeedEnd, DrainEnd
<1>16. ASSUME NEW t \in Tasks, RelayFails(t) \/ RelayEnds(t) PROVE Controls'
  BY <1>16, EndsControls DEF RelayFails, RelayEnds
<1>17. ASSUME NEW t \in Tasks, PeerCloses(t) PROVE Controls'
  BY <1>17 DEF PeerCloses
<1>18. CASE ConnectionLost
  BY <1>18 DEF ConnectionLost
<1>19. CASE UNCHANGED vars
  BY <1>19 DEF vars
<1>20. QED
  BY <1>1, <1>2, <1>3, <1>4, <1>5, <1>6, <1>7, <1>8, <1>9, <1>10, <1>11, <1>12, <1>13,
     <1>14, <1>15, <1>16, <1>17, <1>18, <1>19, Actions

(* Most steps move nothing.                                                       *)
LEMMA Unmoved ==
    ASSUME [Next]_vars
    PROVE  \/ UNCHANGED bytes
           \/ \E t \in Tasks : FeedUnit(t) \/ DrainUnit(t) \/ PeerSends(t)
<1>1. CASE \/ Negotiate \/ ReadConnect \/ OpenTunnelStream \/ SendPart \/ SendFails
           \/ SendTimesOut \/ ReadStatus \/ WriteReply
  BY <1>1 DEF Negotiate, ReadConnect, OpenTunnelStream, SendPart, SendFails, SendTimesOut,
              ReadStatus, WriteReply
<1>2. CASE AcceptStream \/ ReadRequest \/ Resolve \/ ConnectTarget \/ WriteResponse
  BY <1>2 DEF AcceptStream, ReadRequest, Resolve, ConnectTarget, WriteResponse
<1>3. ASSUME NEW t \in Tasks, \/ FeedEnd(t) \/ DrainEnd(t) \/ RelayFails(t) \/ RelayEnds(t)
                              \/ PeerCloses(t)
      PROVE  UNCHANGED bytes
  BY <1>3 DEF FeedEnd, DrainEnd, RelayFails, RelayEnds, PeerCloses
<1>4. CASE ConnectionLost \/ UNCHANGED vars
  BY <1>4 DEF ConnectionLost, vars
<1>5. QED BY <1>1, <1>2, <1>3, <1>4, Actions

(* No step loses a unit or makes one.                                           *)
LEMMA NextCounts == ASSUME Counts, [Next]_vars PROVE Counts'
<1> USE UnitsAreBounded DEF Counts
<1>1. CASE UNCHANGED bytes
  BY <1>1
<1>2. ASSUME NEW t \in Tasks, FeedUnit(t) PROVE Counts'
  <2>1. near[t] > 0 /\ near[t] + stream[t] \in 0..MaxUnits
    BY <1>2 DEF FeedUnit, Move
  <2>2. /\ near' = [near EXCEPT ![t] = @ - 1]
        /\ stream' = [stream EXCEPT ![t] = @ + 1]
        /\ offered' = offered /\ delivered' = delivered
    BY <1>2 DEF FeedUnit, Move
  <2>3. /\ near' \in [Tasks -> 0..MaxUnits] /\ stream' \in [Tasks -> 0..MaxUnits]
        /\ \A u \in Tasks : near'[u] + stream'[u] = near[u] + stream[u]
    BY <2>1, <2>2, Moving
  <2>4. QED BY <2>2, <2>3
<1>3. ASSUME NEW t \in Tasks, DrainUnit(t) PROVE Counts'
  <2>1. PICK u \in Tasks : u = Other(t)
    BY OtherTask
  <2>2. stream[u] > 0 /\ stream[u] + delivered[u] \in 0..MaxUnits
    BY <1>3, <2>1 DEF DrainUnit, Move
  <2>3. /\ stream' = [stream EXCEPT ![u] = @ - 1]
        /\ delivered' = [delivered EXCEPT ![u] = @ + 1]
        /\ offered' = offered /\ near' = near
    BY <1>3, <2>1 DEF DrainUnit, Move
  <2>4. /\ stream' \in [Tasks -> 0..MaxUnits] /\ delivered' \in [Tasks -> 0..MaxUnits]
        /\ \A v \in Tasks : stream'[v] + delivered'[v] = stream[v] + delivered[v]
    BY <2>2, <2>3, Moving
  <2>5. QED BY <2>3, <2>4
<1>4. ASSUME NEW t \in Tasks, PeerSends(t) PROVE Counts'
  <2>1. /\ offered' = [offered EXCEPT ![t] = @ + 1]
        /\ near' = [near EXCEPT ![t] = @ + 1]
        /\ offered[t] < MaxUnits
        /\ stream' = stream /\ delivered' = delivered
    BY <1>4 DEF PeerSends
  <2>2. near[t] <= offered[t]
    OBVIOUS
  <2>3. offered' \in [Tasks -> 0..MaxUnits] /\ near' \in [Tasks -> 0..MaxUnits]
    BY <2>1, <2>2
  <2>4. \A u \in Tasks : offered'[u] = near'[u] + stream'[u] + delivered'[u]
    BY <2>1
  <2>5. QED BY <2>1, <2>3, <2>4
<1>5. QED BY <1>1, <1>2, <1>3, <1>4, Unmoved

--------------------------------------------------------------------------------
(* The stages of the client are left alone by the server and its peer, but for    *)
(* the pieces of the stream that the two share.                                   *)
LEMMA NextClientStages ==
    ASSUME Controls, ClientStages, ServerStages, [Next]_vars PROVE ClientStages'
<1> USE Others DEF Controls, ClientStages, Handshaking
<1>1. CASE Negotiate
  BY <1>1 DEF Negotiate, Ends
<1>2. CASE ReadConnect
  BY <1>2 DEF ReadConnect, Ends, Codes
<1>3. CASE OpenTunnelStream
  BY <1>3 DEF OpenTunnelStream, Codes, Parts
<1>4. CASE SendPart
  BY <1>4 DEF SendPart, Parts
<1>5. CASE SendFails
  BY <1>5 DEF SendFails, Codes
<1>6. CASE SendTimesOut
  BY <1>6 DEF SendTimesOut, Codes
<1>7. CASE ReadStatus
  BY <1>7 DEF ReadStatus, Codes
<1>8. CASE WriteReply
  <2>1. UNCHANGED replies \/ replies' = <<reply["client"]>>
    BY <1>8 DEF WriteReply
  <2>2. QED BY <1>8, <2>1 DEF WriteReply, Ends
<1>9. CASE AcceptStream
  BY <1>9 DEF AcceptStream
<1>10. CASE ReadRequest
  BY <1>10 DEF ReadRequest, Ends
<1>11. CASE Resolve
  BY <1>11 DEF Resolve
<1>12. CASE ConnectTarget
  BY <1>12 DEF ConnectTarget
<1>13. CASE WriteResponse
  BY <1>13 DEF WriteResponse, Ends
<1>14. ASSUME NEW t \in Tasks, FeedUnit(t) \/ DrainUnit(t) \/ PeerSends(t)
       PROVE  ClientStages'
  BY <1>14 DEF FeedUnit, DrainUnit, PeerSends
<1>15. ASSUME NEW t \in Tasks, FeedEnd(t) \/ DrainEnd(t) PROVE ClientStages'
  BY <1>15 DEF FeedEnd, DrainEnd
<1>16. ASSUME NEW t \in Tasks, RelayFails(t) \/ RelayEnds(t) PROVE ClientStages'
  <2>1. CASE t = "client"
    BY <1>16, <2>1 DEF RelayFails, RelayEnds, Ends
  <2>2. CASE t = "server"
    BY <1>16, <2>2 DEF RelayFails, RelayEnds, Ends
  <2>3. QED BY <2>1, <2>2 DEF Tasks
<1>17. ASSUME NEW t \in Tasks, PeerCloses(t) PROVE ClientStages'
  BY <1>17 DEF PeerCloses
<1>18. CASE ConnectionLost
  BY <1>18 DEF ConnectionLost
<1>19. CASE UNCHANGED vars
  BY <1>19 DEF vars
<1>20. QED
  BY <1>1, <1>2, <1>3, <1>4, <1>5, <1>6, <1>7, <1>8, <1>9, <1>10, <1>11, <1>12, <1>13,
     <1>14, <1>15, <1>16, <1>17, <1>18, <1>19, Actions

(* Those of the server.                                                           *)
LEMMA NextServerStages ==
    ASSUME Controls, ClientStages, ServerStages, [Next]_vars PROVE ServerStages'
<1> USE Others DEF Controls, ServerStages, Connecting
<1>1. CASE Negotiate
  BY <1>1 DEF Negotiate, Ends
<1>2. CASE ReadConnect
  BY <1>2 DEF ReadConnect, Ends
<1>3. CASE OpenTunnelStream
  BY <1>3 DEF OpenTunnelStream
<1>4. CASE SendPart
  BY <1>4 DEF SendPart, ClientStages, Handshaking
<1>5. CASE SendFails
  BY <1>5 DEF SendFails
<1>6. CASE SendTimesOut
  BY <1>6 DEF SendTimesOut
<1>7. CASE ReadStatus
  BY <1>7 DEF ReadStatus
<1>8. CASE WriteReply
  BY <1>8 DEF WriteReply, Ends
<1>9. CASE AcceptStream
  BY <1>9 DEF AcceptStream, Codes
<1>10. CASE ReadRequest
  BY <1>10 DEF ReadRequest, Ends
<1>11. CASE Resolve
  BY <1>11 DEF Resolve, Codes
<1>12. CASE ConnectTarget
  BY <1>12 DEF ConnectTarget, Codes
<1>13. CASE WriteResponse
  BY <1>13 DEF WriteResponse, Ends
<1>14. ASSUME NEW t \in Tasks, FeedUnit(t) \/ DrainUnit(t) \/ PeerSends(t)
       PROVE  ServerStages'
  BY <1>14 DEF FeedUnit, DrainUnit, PeerSends
<1>15. ASSUME NEW t \in Tasks, FeedEnd(t) \/ DrainEnd(t) PROVE ServerStages'
  BY <1>15 DEF FeedEnd, DrainEnd
<1>16. ASSUME NEW t \in Tasks, RelayFails(t) \/ RelayEnds(t) PROVE ServerStages'
  <2>1. CASE t = "client"
    BY <1>16, <2>1 DEF RelayFails, RelayEnds, Ends
  <2>2. CASE t = "server"
    BY <1>16, <2>2 DEF RelayFails, RelayEnds, Ends
  <2>3. QED BY <2>1, <2>2 DEF Tasks
<1>17. ASSUME NEW t \in Tasks, PeerCloses(t) PROVE ServerStages'
  BY <1>17 DEF PeerCloses
<1>18. CASE ConnectionLost
  BY <1>18 DEF ConnectionLost
<1>19. CASE UNCHANGED vars
  BY <1>19 DEF vars
<1>20. QED
  BY <1>1, <1>2, <1>3, <1>4, <1>5, <1>6, <1>7, <1>8, <1>9, <1>10, <1>11, <1>12, <1>13,
     <1>14, <1>15, <1>16, <1>17, <1>18, <1>19, Actions

--------------------------------------------------------------------------------
(* A reply is told from the others by its only element.                           *)
LEMMA Singletons ==
    /\ <<>> # <<"Succeeded">>
    /\ \A code : code # "Succeeded" => <<code>> # <<"Succeeded">>
<1>1. <<>> # <<"Succeeded">>
  OBVIOUS
<1>2. ASSUME NEW code, <<code>> = <<"Succeeded">> PROVE code = "Succeeded"
  <2>1. <<code>>[1] = <<"Succeeded">>[1]
    BY <1>2
  <2>2. QED BY <2>1
<1>3. QED BY <1>1, <1>2

(* The server answers with success only on entering the relay, and the client     *)
(* passes on what the server has answered.                                        *)
LEMMA NextPromised ==
    ASSUME Controls, ClientStages, ServerStages, Promised, [Next]_vars PROVE Promised'
<1> USE Others DEF Controls, Promised
<1>1. CASE Negotiate
  BY <1>1 DEF Negotiate, Ends
<1>2. CASE ReadConnect
  BY <1>2 DEF ReadConnect, Ends
<1>3. CASE OpenTunnelStream
  BY <1>3 DEF OpenTunnelStream
<1>4. CASE SendPart
  BY <1>4 DEF SendPart
<1>5. CASE SendFails \/ SendTimesOut
  BY <1>5 DEF SendFails, SendTimesOut
<1>6. CASE ReadStatus
  BY <1>6 DEF ReadStatus
<1>7. CASE WriteReply
  <2>1. replies = <<>> /\ (replies' = <<>> \/ replies' = <<reply["client"]>>)
    BY <1>7 DEF WriteReply, ClientStages
  <2>2. reply["client"] # "Succeeded" => replies' # <<"Succeeded">>
    BY <2>1, Singletons
  <2>3. /\ reply'["client"] = "none" /\ pc'["server"] = pc["server"]
        /\ UNCHANGED <<answer, peer>>
    BY <1>7 DEF WriteReply, Ends
  <2>4. QED BY <2>2, <2>3
<1>8. CASE AcceptStream
  BY <1>8 DEF AcceptStream, ServerStages, Connecting
<1>9. CASE ReadRequest
  BY <1>9 DEF ReadRequest, Ends
<1>10. CASE Resolve
  BY <1>10 DEF Resolve
<1>11. CASE ConnectTarget
  BY <1>11 DEF ConnectTarget
<1>12. CASE WriteResponse
  BY <1>12 DEF WriteResponse, Ends, ServerStages
<1>13. ASSUME NEW t \in Tasks, FeedUnit(t) \/ DrainUnit(t) \/ PeerSends(t)
       PROVE  Promised'
  BY <1>13 DEF FeedUnit, DrainUnit, PeerSends
<1>14. ASSUME NEW t \in Tasks, FeedEnd(t) \/ DrainEnd(t) PROVE Promised'
  BY <1>14 DEF FeedEnd, DrainEnd
<1>15. ASSUME NEW t \in Tasks, RelayFails(t) \/ RelayEnds(t) PROVE Promised'
  <2>1. CASE t = "client"
    BY <1>15, <2>1 DEF RelayFails, RelayEnds, Ends
  <2>2. CASE t = "server"
    BY <1>15, <2>2 DEF RelayFails, RelayEnds, Ends
  <2>3. QED BY <2>1, <2>2 DEF Tasks
<1>16. ASSUME NEW t \in Tasks, PeerCloses(t) PROVE Promised'
  BY <1>16 DEF PeerCloses
<1>17. CASE ConnectionLost
  BY <1>17 DEF ConnectionLost
<1>18. CASE UNCHANGED vars
  BY <1>18 DEF vars
<1>19. QED
  BY <1>1, <1>2, <1>3, <1>4, <1>5, <1>6, <1>7, <1>8, <1>9, <1>10, <1>11, <1>12, <1>13,
     <1>14, <1>15, <1>16, <1>17, <1>18, Actions

(* What the local program is told is told once, by a client that has not relayed. *)
LEMMA RepliesStay ==
    ASSUME Controls, ClientStages, [Next]_vars
    PROVE  replies = <<"Succeeded">> => replies' = <<"Succeeded">>
<1>1. CASE \/ Negotiate \/ ReadConnect \/ OpenTunnelStream \/ SendPart \/ SendFails
           \/ SendTimesOut \/ ReadStatus
  BY <1>1 DEF Negotiate, ReadConnect, OpenTunnelStream, SendPart, SendFails, SendTimesOut,
              ReadStatus
<1>2. CASE WriteReply
  BY <1>2 DEF WriteReply, ClientStages
<1>3. CASE AcceptStream \/ ReadRequest \/ Resolve \/ ConnectTarget \/ WriteResponse
  BY <1>3 DEF AcceptStream, ReadRequest, Resolve, ConnectTarget, WriteResponse
<1>4. ASSUME NEW t \in Tasks, \/ FeedUnit(t) \/ FeedEnd(t) \/ DrainUnit(t) \/ DrainEnd(t)
                              \/ RelayFails(t) \/ RelayEnds(t) \/ PeerSends(t) \/ PeerCloses(t)
      PROVE  UNCHANGED replies
  BY <1>4 DEF FeedUnit, FeedEnd, DrainUnit, DrainEnd, RelayFails, RelayEnds, PeerSends, PeerCloses
<1>5. CASE ConnectionLost \/ UNCHANGED vars
  BY <1>5 DEF ConnectionLost, vars
<1>6. QED BY <1>1, <1>2, <1>3, <1>4, <1>5, Actions

(* Units move only behind a success.                                            *)
LEMMA NextCarried ==
    ASSUME Controls, Counts, ClientStages, Carried, [Next]_vars PROVE Carried'
<1> USE Others DEF Counts, Carried
<1>1. replies = <<"Succeeded">> => replies' = <<"Succeeded">>
  BY RepliesStay
<1>2. CASE UNCHANGED bytes
  BY <1>1, <1>2
<1>3. CASE FeedUnit("client")
  BY <1>1, <1>3 DEF FeedUnit, ClientStages
<1>4. CASE FeedUnit("server")
  BY <1>1, <1>4 DEF FeedUnit, Move
<1>5. CASE DrainUnit("client")
  BY <1>1, <1>5 DEF DrainUnit, ClientStages
<1>6. CASE DrainUnit("server")
  BY <1>1, <1>6 DEF DrainUnit, Move
<1>7. ASSUME NEW t \in Tasks, PeerSends(t) PROVE Carried'
  BY <1>1, <1>7 DEF PeerSends
<1>8. QED BY <1>2, <1>3, <1>4, <1>5, <1>6, <1>7, Unmoved DEF Tasks

--------------------------------------------------------------------------------
(* Where the client ends, it has answered, or there is no stream or no program.   *)
LEMMA NextAnswered ==
    ASSUME Controls, ClientStages, RequestIsAnswered, [Next]_vars
    PROVE  RequestIsAnswered'
<1> USE Others DEF Controls, RequestIsAnswered
<1>1. CASE Negotiate
  BY <1>1 DEF Negotiate, Ends, ClientStages
<1>2. CASE ReadConnect
  BY <1>2 DEF ReadConnect, Ends, ClientStages
<1>3. CASE OpenTunnelStream
  BY <1>3 DEF OpenTunnelStream
<1>4. CASE SendPart
  BY <1>4 DEF SendPart
<1>5. CASE SendFails \/ SendTimesOut
  BY <1>5 DEF SendFails, SendTimesOut
<1>6. CASE ReadStatus
  BY <1>6 DEF ReadStatus
<1>7. CASE WriteReply
  <2>1. CASE replies' = Append(replies, reply["client"])
    <3>1. replies' # <<>>
      BY <2>1
    <3>2. QED BY <3>1
  <2>2. CASE peer["client"] = "gone"
    BY <1>7, <2>2 DEF WriteReply
  <2>3. QED BY <1>7, <2>1, <2>2 DEF WriteReply
<1>8. CASE AcceptStream
  BY <1>8 DEF AcceptStream
<1>9. CASE ReadRequest
  BY <1>9 DEF ReadRequest, Ends
<1>10. CASE Resolve
  BY <1>10 DEF Resolve
<1>11. CASE ConnectTarget
  BY <1>11 DEF ConnectTarget
<1>12. CASE WriteResponse
  BY <1>12 DEF WriteResponse, Ends
<1>13. ASSUME NEW t \in Tasks, FeedUnit(t) \/ DrainUnit(t) \/ PeerSends(t)
       PROVE  RequestIsAnswered'
  BY <1>13 DEF FeedUnit, DrainUnit, PeerSends
<1>14. ASSUME NEW t \in Tasks, FeedEnd(t) \/ DrainEnd(t) PROVE RequestIsAnswered'
  BY <1>14 DEF FeedEnd, DrainEnd
<1>15. ASSUME NEW t \in Tasks, RelayFails(t) \/ RelayEnds(t) PROVE RequestIsAnswered'
  <2>1. CASE t = "client"
    <3>1. replies = <<"Succeeded">> /\ UNCHANGED replies
      BY <1>15, <2>1 DEF RelayFails, RelayEnds, ClientStages
    <3>2. QED BY <3>1
  <2>2. CASE t = "server"
    BY <1>15, <2>2 DEF RelayFails, RelayEnds, Ends
  <2>3. QED BY <2>1, <2>2 DEF Tasks
<1>16. ASSUME NEW t \in Tasks, PeerCloses(t) PROVE RequestIsAnswered'
  BY <1>16 DEF PeerCloses
<1>17. CASE ConnectionLost
  BY <1>17 DEF ConnectionLost
<1>18. CASE UNCHANGED vars
  BY <1>18 DEF vars
<1>19. QED
  BY <1>1, <1>2, <1>3, <1>4, <1>5, <1>6, <1>7, <1>8, <1>9, <1>10, <1>11, <1>12, <1>13,
     <1>14, <1>15, <1>16, <1>17, <1>18, Actions

--------------------------------------------------------------------------------
(* A success that is new is agreed on before either relay has moved anything.     *)
LEMMA NewlyAgreed ==
    ASSUME Controls, ClientStages, ServerStages, Promised, [Next]_vars, ~ Agreed, Agreed'
    PROVE  WriteResponse /\ pc["client"] = "status" /\ pc'["server"] = "relay" /\ UNCHANGED halves
<1> USE Others DEF Controls, Agreed
<1>1. CASE Negotiate
  BY <1>1 DEF Negotiate, Ends
<1>2. CASE ReadConnect
  BY <1>2 DEF ReadConnect, Ends
<1>3. CASE OpenTunnelStream
  BY <1>3 DEF OpenTunnelStream
<1>4. CASE SendPart
  <2>1. answer # "Succeeded"
    BY <1>4 DEF SendPart, ClientStages, ServerStages
  <2>2. QED BY <1>4, <2>1 DEF SendPart
<1>5. CASE SendFails \/ SendTimesOut
  BY <1>5 DEF SendFails, SendTimesOut
<1>6. CASE ReadStatus
  BY <1>6 DEF ReadStatus
<1>7. CASE WriteReply
  <2>1. replies = <<>> /\ (replies' = <<>> \/ replies' = <<reply["client"]>>)
    BY <1>7 DEF WriteReply, ClientStages
  <2>2. replies' # <<"Succeeded">>
    BY <2>1, Singletons
  <2>3. reply'["client"] = "none" /\ pc'["client"] # "status"
    BY <1>7 DEF WriteReply, Ends
  <2>4. QED BY <2>2, <2>3
<1>8. CASE AcceptStream
  BY <1>8 DEF AcceptStream
<1>9. CASE ReadRequest
  BY <1>9 DEF ReadRequest, Ends
<1>10. CASE Resolve
  BY <1>10 DEF Resolve
<1>11. CASE ConnectTarget
  BY <1>11 DEF ConnectTarget
<1>12. CASE WriteResponse
  BY <1>12 DEF WriteResponse, Ends
<1>13. ASSUME NEW t \in Tasks, FeedUnit(t) \/ DrainUnit(t) \/ PeerSends(t) PROVE FALSE
  BY <1>13 DEF FeedUnit, DrainUnit, PeerSends
<1>14. ASSUME NEW t \in Tasks, FeedEnd(t) \/ DrainEnd(t) PROVE FALSE
  BY <1>14 DEF FeedEnd, DrainEnd
<1>15. ASSUME NEW t \in Tasks, RelayFails(t) \/ RelayEnds(t) PROVE FALSE
  <2>1. CASE t = "client"
    BY <1>15, <2>1 DEF RelayFails, RelayEnds, Ends
  <2>2. CASE t = "server"
    BY <1>15, <2>2 DEF RelayFails, RelayEnds, Ends
  <2>3. QED BY <2>1, <2>2 DEF Tasks
<1>16. ASSUME NEW t \in Tasks, PeerCloses(t) PROVE FALSE
  BY <1>16 DEF PeerCloses
<1>17. CASE ConnectionLost
  BY <1>17 DEF ConnectionLost
<1>18. CASE UNCHANGED vars
  BY <1>18 DEF vars
<1>19. QED
  BY <1>1, <1>2, <1>3, <1>4, <1>5, <1>6, <1>7, <1>8, <1>9, <1>10, <1>11, <1>12, <1>13,
     <1>14, <1>15, <1>16, <1>17, <1>18, Actions

(* While both tasks relay undisturbed, an end is passed on after everything that  *)
(* came before it, and no copy fails.                                             *)
LEMMA NextInOrder ==
    ASSUME Controls, Counts, ClientStages, ServerStages, Promised, InOrder, [Next]_vars
    PROVE  InOrder'
<1> SUFFICES ASSUME Agreed', Undisturbed' PROVE \A t \in Tasks : EndsInOrder(t)'
  BY DEF InOrder
<1> USE Others DEF Controls
<1>1. CASE ~ Agreed
  <2>1. UNCHANGED halves /\ WriteResponse /\ pc["client"] = "status"
    BY <1>1, NewlyAgreed
  <2>2. \A t \in Tasks : ~ fin[t] /\ ~ ended[t] /\ ~ stopped[t]
    BY <2>1 DEF WriteResponse, ClientStages, ServerStages, Handshaking, Tasks
  <2>3. QED BY <2>1, <2>2, OtherTask DEF EndsInOrder
<1>2. CASE Agreed
  <2>1. /\ pc["client"] \notin {"methods", "request", "open", "send"}
        /\ pc["server"] \in {"relay", "done"}
        /\ peer["server"] # "none"
    BY <1>2, Singletons DEF Agreed, ClientStages, Promised, Handshaking
  <2>2. \/ ReadStatus \/ WriteReply
        \/ \E t \in Tasks : \/ FeedUnit(t) \/ FeedEnd(t) \/ DrainUnit(t) \/ DrainEnd(t)
                            \/ RelayFails(t) \/ RelayEnds(t) \/ PeerSends(t) \/ PeerCloses(t)
        \/ ConnectionLost \/ UNCHANGED vars
    BY <2>1, Actions DEF Negotiate, ReadConnect, OpenTunnelStream, SendPart, SendFails, SendTimesOut,
                AcceptStream, ReadRequest, Resolve, ConnectTarget, WriteResponse
  <2>3. (\A t \in Tasks : peer[t] # "gone") /\ ~ lost => \A t \in Tasks : EndsInOrder(t)
    BY <1>2 DEF InOrder, Undisturbed
  <2>4. CASE ReadStatus \/ UNCHANGED vars
    <3>1. UNCHANGED <<peer, near, stream, halves, lost>>
      BY <2>4 DEF ReadStatus, vars
    <3>2. QED BY <2>3, <3>1 DEF EndsInOrder, Undisturbed
  <2>5. CASE WriteReply
    <3>1. UNCHANGED <<peer, near, stream, lost>> /\ peer["client"] # "gone"
      BY <2>5 DEF WriteReply, Undisturbed
    <3>2. reply["client"] = "Succeeded"
      BY <1>2, <2>5, Singletons DEF Agreed, WriteReply, ClientStages
    <3>3. UNCHANGED halves
      BY <2>5, <3>1, <3>2 DEF WriteReply
    <3>4. QED BY <2>3, <3>1, <3>3 DEF EndsInOrder, Undisturbed
  <2>6. ASSUME NEW t \in Tasks, FeedUnit(t) PROVE \A u \in Tasks : EndsInOrder(u)'
    <3>1. /\ UNCHANGED <<peer, halves, lost>> /\ ~ fin[t]
          /\ near' = [near EXCEPT ![t] = @ - 1]
          /\ stream' = [stream EXCEPT ![t] = @ + 1]
      BY <2>6 DEF FeedUnit, Move
    <3>2. \A u \in Tasks : EndsInOrder(u)
      BY <2>3, <3>1 DEF Undisturbed
    <3>3. \A u \in Tasks : u # t => near'[u] = near[u] /\ stream'[u] = stream[u]
      BY <3>1 DEF Counts
    <3>4. QED BY <3>1, <3>2, <3>3 DEF EndsInOrder
  <2>7. ASSUME NEW t \in Tasks, FeedEnd(t) PROVE \A u \in Tasks : EndsInOrder(u)'
    <3>1. /\ UNCHANGED <<peer, near, stream, stopped, ended, lost>>
          /\ fin' = [fin EXCEPT ![t] = TRUE]
          /\ pc[t] = "relay" /\ near[t] = 0 /\ peer[t] # "open"
      BY <2>7 DEF FeedEnd
    <3>2. \A u \in Tasks : EndsInOrder(u)
      BY <2>3, <3>1 DEF Undisturbed
    <3>3. peer[t] = "half"
      BY <2>1, <3>1 DEF Undisturbed, ClientStages, Tasks
    <3>4. QED BY <3>1, <3>2, <3>3 DEF EndsInOrder
  <2>8. ASSUME NEW t \in Tasks, DrainUnit(t) PROVE \A u \in Tasks : EndsInOrder(u)'
    <3>1. PICK o \in Tasks : o = Other(t)
      BY OtherTask
    <3>2. /\ UNCHANGED <<peer, near, halves, lost>>
          /\ stream[o] > 0
          /\ stream' = [stream EXCEPT ![o] = @ - 1]
      BY <2>8, <3>1 DEF DrainUnit, Move
    <3>3. \A u \in Tasks : EndsInOrder(u)
      BY <2>3, <3>2 DEF Undisturbed
    <3>4. \A u \in Tasks : u # o => stream'[u] = stream[u]
      BY <3>2 DEF Counts
    <3>5. \A u \in Tasks : ended[Other(u)] => u # o
      BY <3>2, <3>3 DEF EndsInOrder
    <3>6. QED BY <3>2, <3>3, <3>4, <3>5 DEF EndsInOrder
  <2>9. ASSUME NEW t \in Tasks, DrainEnd(t) PROVE \A u \in Tasks : EndsInOrder(u)'
    <3>1. /\ UNCHANGED <<peer, near, stream, fin, stopped, lost>>
          /\ ended' = [ended EXCEPT ![t] = TRUE]
          /\ stream[Other(t)] = 0 /\ fin[Other(t)]
      BY <2>9 DEF DrainEnd
    <3>2. \A u \in Tasks : EndsInOrder(u)
      BY <2>3, <3>1 DEF Undisturbed
    <3>3. \A u \in Tasks : Other(u) = t => u = Other(t)
      BY OtherTask
    <3>4. QED BY <3>1, <3>2, <3>3, OtherTask DEF EndsInOrder
  <2>10. ASSUME NEW t \in Tasks, RelayFails(t) \/ RelayEnds(t)
         PROVE  \A u \in Tasks : EndsInOrder(u)'
    <3>1. UNCHANGED <<peer, near, stream, lost>> /\ Ends(t)
      BY <2>10 DEF RelayFails, RelayEnds
    <3>2. (\A u \in Tasks : EndsInOrder(u)) /\ ~ lost /\ peer[t] # "gone"
      BY <2>3, <3>1 DEF Undisturbed
    <3>3. ~ RelayFails(t)
      BY <3>2 DEF RelayFails, FeedFails, DrainFails, EndsInOrder
    <3>4. fin[t] /\ ended[t]
      BY <2>10, <3>3 DEF RelayEnds
    <3>5. /\ fin' = fin /\ ended' = ended
          /\ stopped' = [stopped EXCEPT ![Other(t)] = TRUE]
      BY <3>1, <3>4 DEF Ends
    <3>6. \A u \in Tasks : u = Other(t) => Other(u) = t
      BY OtherTask
    <3>7. QED BY <3>1, <3>2, <3>4, <3>5, <3>6 DEF EndsInOrder
  <2>11. ASSUME NEW t \in Tasks, PeerSends(t) PROVE \A u \in Tasks : EndsInOrder(u)'
    <3>1. /\ UNCHANGED <<peer, stream, halves, lost>> /\ peer[t] = "open"
          /\ near' = [near EXCEPT ![t] = @ + 1]
      BY <2>11 DEF PeerSends
    <3>2. \A u \in Tasks : EndsInOrder(u)
      BY <2>3, <3>1 DEF Undisturbed
    <3>3. QED BY <3>1, <3>2 DEF EndsInOrder, Counts
  <2>12. ASSUME NEW t \in Tasks, PeerCloses(t) PROVE \A u \in Tasks : EndsInOrder(u)'
    <3>1. UNCHANGED <<near, stream, halves, lost>>
      BY <2>12 DEF PeerCloses
    <3>2. peer[t] = "open" /\ peer' = [peer EXCEPT ![t] = "half"]
      BY <2>12 DEF PeerCloses, Undisturbed
    <3>3. \A u \in Tasks : EndsInOrder(u)
      BY <2>3, <3>1, <3>2 DEF Undisturbed
    <3>4. QED BY <3>1, <3>2, <3>3 DEF EndsInOrder
  <2>13. ~ ConnectionLost
    BY DEF ConnectionLost, Undisturbed
  <2>14. QED
    BY <2>2, <2>4, <2>5, <2>6, <2>7, <2>8, <2>9, <2>10, <2>11, <2>12, <2>13
<1>3. QED BY <1>1, <1>2

--------------------------------------------------------------------------------
(* The invariant holds at the beginning, and every step keeps it.               *)
LEMMA InitInvariant == Init => IInv
<1> SUFFICES ASSUME Init PROVE IInv
  OBVIOUS
<1> USE Others DEF Init
<1>1. Controls
  <2>1. /\ DOMAIN pc = Tasks
        /\ pc["client"] = "methods" /\ pc["server"] = "absent"
    BY DEF Tasks
  <2>2. peer \in [Tasks -> {"none", "open", "half", "gone"}]
    BY DEF Tasks
  <2>3. /\ reply \in [Tasks -> Codes \cup {"none"}]
        /\ fin \in [Tasks -> BOOLEAN] /\ stopped \in [Tasks -> BOOLEAN]
        /\ ended \in [Tasks -> BOOLEAN]
    BY DEF Nowhere
  <2>4. sent \in 0..Parts /\ replies \in Seq(Codes)
    BY DEF Parts
  <2>5. QED BY <2>1, <2>2, <2>3, <2>4 DEF Controls, Handshaking, Connecting
<1>2. Counts
  BY UnitsAreBounded DEF Counts, Zero
<1>3. ClientStages /\ ServerStages
  BY DEF ClientStages, ServerStages, Handshaking, Connecting, Nowhere, Codes
<1>4. Promised /\ Carried /\ RequestIsAnswered
  BY Singletons DEF Promised, Carried, RequestIsAnswered, Zero
<1>5. InOrder
  BY Singletons DEF InOrder, Agreed
<1>6. QED BY <1>1, <1>2, <1>3, <1>4, <1>5, TypeParts DEF IInv

(* Every state has it.                                                          *)
LEMMA Invariant == Spec => []IInv
<1>1. IInv /\ [Next]_vars => IInv'
  <2> SUFFICES ASSUME IInv, [Next]_vars PROVE IInv'
    OBVIOUS
  <2>1. Controls /\ Counts
    BY TypeParts DEF IInv
  <2>2. Controls' /\ Counts'
    BY <2>1, NextControls, NextCounts DEF IInv
  <2>3. TypeOK'
    BY <2>2 DEF TypeOK, Controls, Counts, Handshaking, Connecting
  <2>4. QED
    BY <2>1, <2>3, NextClientStages, NextServerStages, NextPromised, NextCarried,
       NextAnswered, NextInOrder DEF IInv
<1>2. QED BY InitInvariant, <1>1, PTL DEF Spec

--------------------------------------------------------------------------------
(* Every unit a TCP peer has sent is in one place, and the tunnel's response and  *)
(* the reply are codes.                                                           *)
THEOREM TypeCorrect == Spec => []TypeOK
<1>1. QED BY Invariant, PTL DEF IInv

(* The local program is answered once, and told of success only when there is a   *)
(* connection to the target; no byte reaches either peer before that.             *)
THEOREM SuccessIsTrue == Spec => []SucceededMeansConnected
<1>1. IInv => SucceededMeansConnected
  <2> SUFFICES ASSUME IInv PROVE SucceededMeansConnected
    OBVIOUS
  <2>1. Len(replies) <= 1
    <3>1. replies = <<>> \/ \E code \in Codes : replies = <<code>>
      BY DEF IInv, ClientStages
    <3>2. CASE replies = <<>>
      BY <3>2
    <3>3. CASE \E code \in Codes : replies = <<code>>
      <4>1. PICK code \in Codes : replies = <<code>>
        BY <3>3
      <4>2. Len(<<code>>) = 1
        OBVIOUS
      <4>3. QED BY <4>1, <4>2
    <3>4. QED BY <3>1, <3>2, <3>3
  <2>2. replies = <<"Succeeded">> => peer["server"] # "none"
    BY DEF IInv, Promised
  <2>3. \A t \in Tasks : delivered[t] > 0 => replies = <<"Succeeded">>
    BY DEF IInv, Carried, Tasks
  <2>4. QED BY <2>1, <2>2, <2>3 DEF SucceededMeansConnected
<1>2. QED BY <1>1, Invariant, PTL

(* A program that stays is answered, whatever fails once it has a stream.         *)
THEOREM AnsweredUnlessGone == Spec => []RequestIsAnswered
<1>1. QED BY Invariant, PTL DEF IInv

(* With neither end gone and the connection alive, a peer that is sent a FIN has  *)
(* all the other one sent, for any number of units in any interleaving of the     *)
(* four copies.                                                                   *)
THEOREM HalvesCloseInOrder == Spec => []HalfCloseIsKept
<1>1. IInv => HalfCloseIsKept
  <2> SUFFICES ASSUME IInv, replies = <<"Succeeded">>, ~ lost, \A t \in Tasks : peer[t] # "gone",
                      NEW t \in Tasks, ended[Other(t)]
               PROVE  peer[t] = "half" /\ delivered[t] = offered[t]
    BY DEF HalfCloseIsKept
  <2>1. EndsInOrder(t)
    BY DEF IInv, InOrder, Agreed, Undisturbed
  <2>2. peer[t] = "half" /\ near[t] = 0 /\ stream[t] = 0
    BY <2>1 DEF EndsInOrder
  <2>3. Counts
    BY TypeParts DEF IInv
  <2>4. QED BY <2>2, <2>3, UnitsAreBounded DEF Counts
<1>2. QED BY <1>1, Invariant, PTL

--------------------------------------------------------------------------------
(* The refinement.  Where nobody sees a difference AbstractSession stutters.      *)
LEMMA NothingSeen ==
    ASSUME UNCHANGED <<replies, peer, offered, delivered, lost>>,
           GivenUp' = GivenUp, Over' = Over
    PROVE  [Promise!Next]_(Promise!vars)
BY DEF Promise!vars, Answer, Closed, Broken

(* A request that will not be granted is given up, and the program may be left.   *)
LEMMA GivesUp ==
    ASSUME UNCHANGED <<replies, peer, offered, delivered, lost>>,
           replies = <<>>, ~ GivenUp, GivenUp',
           Over' = Over \/ Over' = [Over EXCEPT !["server"] = TRUE]
    PROVE  [Promise!Next]_(Promise!vars)
<1>1. Promise!GiveUp
  BY DEF Promise!GiveUp, Answer, Closed, Broken
<1>2. QED BY <1>1 DEF Promise!Next

(* A task that has shut down or dropped its side ends the direction towards it.   *)
LEMMA OverWith ==
    ASSUME Controls, NEW t \in Tasks, ended' = [ended EXCEPT ![t] = TRUE], peer' = peer
    PROVE  /\ ended[t] \/ peer[t] = "none" => Over' = Over
           /\ peer[t] # "none" => Over' = [Over EXCEPT ![Other(t)] = TRUE]
<1>1. \A u \in Tasks : Other(u) \in Tasks /\ (Other(u) = t <=> u = Other(t))
  BY OtherTask
<1>2. \A u \in Tasks : ended'[u] = IF u = t THEN TRUE ELSE ended[u]
  BY DEF Controls
<1>3. ASSUME ended[t] \/ peer[t] = "none" PROVE Over' = Over
  BY <1>1, <1>2, <1>3 DEF Over
<1>4. ASSUME peer[t] # "none" PROVE Over' = [Over EXCEPT ![Other(t)] = TRUE]
  BY <1>1, <1>2, <1>4 DEF Over
<1>5. QED BY <1>3, <1>4

(* That is an end which is allowed, or nothing.                                   *)
LEMMA EndsDirection ==
    ASSUME Controls, NEW t \in Tasks, ended' = [ended EXCEPT ![t] = TRUE],
           UNCHANGED <<replies, peer, offered, delivered, lost>>, GivenUp' = GivenUp,
           \/ ended[t] \/ peer[t] = "none" \/ GivenUp \/ Broken
           \/ /\ replies = <<"Succeeded">> /\ peer[Other(t)] = "half"
              /\ delivered[Other(t)] = offered[Other(t)]
    PROVE  [Promise!Next]_(Promise!vars)
<1>1. CASE ended[t] \/ peer[t] = "none"
  BY <1>1, OverWith, NothingSeen
<1>2. CASE ~ ended[t] /\ peer[t] # "none"
  <2>1. PICK d \in Tasks : d = Other(t)
    BY OtherTask
  <2>2. Other(d) = t
    BY <2>1, OtherTask
  <2>3. Over' = [Over EXCEPT ![d] = TRUE]
    BY <1>2, <2>1, OverWith
  <2>4. ~ Over[d] /\ (d = "client" => peer["server"] # "none")
    BY <1>2, <2>2 DEF Over, Other
  <2>5. \/ GivenUp \/ Broken
        \/ Answer = "granted" /\ Closed[d] /\ delivered[d] = offered[d]
    BY <1>2, <2>1, Singletons DEF Answer, Closed
  <2>6. Promise!End(d)
    BY <2>3, <2>4, <2>5 DEF Promise!End, Answer, Closed, Broken
  <2>7. QED BY <2>6 DEF Promise!Next, Promise!Directions, Tasks
<1>3. QED BY <1>1, <1>2

(* A server that relays does so for a client that does, or has given up.          *)
LEMMA RelaysTogether ==
    ASSUME IInv, NEW t \in Tasks, pc[t] = "relay", ~ GivenUp
    PROVE  Agreed
<1> USE Others DEF IInv, ClientStages, ServerStages, Agreed, GivenUp
<1>1. CASE t = "client"
  BY <1>1
<1>2. CASE t = "server"
  <2>1. CASE answer = "Succeeded" /\ pc["client"] \notin {"reply", "relay", "done"}
    <3>1. sent = Parts /\ pc["client"] \in Handshaking /\ Parts = 2
      BY <2>1, TypeParts DEF Controls, Parts
    <3>2. pc["client"] \notin {"methods", "request", "open", "send"}
      BY <3>1
    <3>3. QED BY <2>1, <3>1, <3>2 DEF Handshaking
  <2>2. CASE pc["client"] \in {"reply", "relay", "done"}
    BY <2>2
  <2>3. QED BY <1>2, <2>1, <2>2
<1>3. QED BY <1>1, <1>2 DEF Tasks

(* The handshake of the client.                                                   *)
LEMMA ClientMaps ==
    ASSUME IInv, ClientHandshake
    PROVE  [Promise!Next]_(Promise!vars)
<1> USE Others DEF IInv
<1>t. Controls
  BY TypeParts
<1>1. ASSUME UNCHANGED <<peer, replies, offered, delivered, ended, lost>>,
             pc["client"] \in Handshaking, pc'["client"] \in Handshaking \cup {"reply"},
             pc'["client"] = "reply" => reply'["client"] \in Codes
      PROVE  [Promise!Next]_(Promise!vars)
  <2>1. Over' = Over
    BY <1>1 DEF Over
  <2>2. ~ GivenUp /\ replies = <<>>
    BY <1>1 DEF GivenUp, ClientStages, Handshaking
  <2>3. CASE GivenUp'
    BY <1>1, <2>1, <2>2, <2>3, GivesUp
  <2>4. CASE ~ GivenUp'
    <3>1. GivenUp' = GivenUp
      BY <2>2, <2>4 DEF GivenUp
    <3>2. QED BY <1>1, <2>1, <3>1, NothingSeen
  <2>5. QED BY <2>3, <2>4
<1>2. ASSUME UNCHANGED <<peer, replies, offered, delivered, lost>>, Ends("client"),
             pc["client"] \in Handshaking \cup {"reply"}
      PROVE  [Promise!Next]_(Promise!vars)
  <2>1. ended' = [ended EXCEPT !["client"] = TRUE] /\ pc'["client"] = "done"
    BY <1>t, <1>2 DEF Ends, Controls
  <2>2. replies = <<>> /\ peer["client"] # "none"
    BY <1>2 DEF ClientStages
  <2>3. Over' = [Over EXCEPT !["server"] = TRUE]
    BY <1>t, <1>2, <2>1, <2>2, OverWith
  <2>4. GivenUp'
    BY <1>2, <2>1, <2>2, Singletons DEF GivenUp
  <2>5. CASE GivenUp
    BY <1>t, <1>2, <2>1, <2>4, <2>5, EndsDirection
  <2>6. CASE ~ GivenUp
    BY <1>2, <2>2, <2>3, <2>4, <2>6, GivesUp
  <2>7. QED BY <2>5, <2>6
<1>3. CASE Negotiate
  BY <1>t, <1>1, <1>2, <1>3 DEF Negotiate, Handshaking, Controls
<1>4. CASE ReadConnect
  BY <1>t, <1>1, <1>2, <1>4 DEF ReadConnect, Handshaking, Controls, Codes
<1>5. CASE OpenTunnelStream
  BY <1>t, <1>1, <1>5 DEF OpenTunnelStream, Handshaking, Controls, Codes
<1>6. CASE SendPart \/ SendFails \/ SendTimesOut
  BY <1>t, <1>1, <1>6 DEF SendPart, SendFails, SendTimesOut, Handshaking, Controls, Codes
<1>7. CASE ReadStatus
  BY <1>t, <1>1, <1>7 DEF ReadStatus, Handshaking, Controls, Codes
<1>8. CASE WriteReply
  <2>1. pc["client"] = "reply" /\ replies = <<>> /\ reply["client"] \in Codes
    BY <1>8 DEF WriteReply, ClientStages
  <2>2. UNCHANGED <<peer, offered, delivered, lost>> /\ peer["client"] # "none"
    BY <1>8 DEF WriteReply, ClientStages
  <2>3. CASE peer["client"] = "gone"
    BY <1>2, <1>8, <2>1, <2>2, <2>3 DEF WriteReply
  <2>4. CASE peer["client"] # "gone" /\ reply["client"] = "Succeeded"
    <3>1. replies' = <<"Succeeded">> /\ pc'["client"] = "relay" /\ UNCHANGED ended
      BY <1>t, <1>8, <2>1, <2>4 DEF WriteReply, Controls
    <3>2. peer["server"] # "none" /\ ~ GivenUp /\ GivenUp' = GivenUp
      BY <2>1, <2>4, <3>1 DEF Promised, GivenUp
    <3>3. Answer = "none" /\ Answer' = "granted" /\ Over' = Over
      BY <2>1, <2>2, <3>1, Singletons DEF Answer, Over
    <3>4. Promise!Grant
      BY <2>2, <3>2, <3>3 DEF Promise!Grant, Closed, Broken
    <3>5. QED BY <3>4 DEF Promise!Next
  <2>5. CASE peer["client"] # "gone" /\ reply["client"] # "Succeeded"
    <3>1. replies' = <<reply["client"]>> /\ Ends("client")
      BY <1>8, <2>1, <2>5 DEF WriteReply
    <3>2. replies' # <<"Succeeded">> /\ replies' # <<>>
      <4>1. \A code : <<code>> # <<>>
        OBVIOUS
      <4>2. QED BY <2>5, <3>1, <4>1, Singletons
    <3>3. ended' = [ended EXCEPT !["client"] = TRUE] /\ pc'["client"] = "done"
      BY <1>t, <3>1 DEF Ends, Controls
    <3>4. GivenUp /\ GivenUp'
      BY <2>1, <2>5, <3>2, <3>3 DEF GivenUp
    <3>5. Over' = [Over EXCEPT !["server"] = TRUE]
      BY <1>t, <2>2, <3>3, OverWith
    <3>6. Answer = "none" /\ Answer' = "refused"
      BY <2>1, <3>2, Singletons DEF Answer
    <3>7. Promise!Refuse
      BY <2>2, <3>4, <3>5, <3>6 DEF Promise!Refuse, Closed, Broken
    <3>8. QED BY <3>7 DEF Promise!Next
  <2>6. QED BY <2>3, <2>4, <2>5
<1>9. QED BY <1>3, <1>4, <1>5, <1>6, <1>7, <1>8 DEF ClientHandshake

(* The handshake of the server.                                                   *)
LEMMA ServerMaps ==
    ASSUME IInv, ServerHandshake
    PROVE  [Promise!Next]_(Promise!vars)
<1> USE Others DEF IInv
<1>t. Controls
  BY TypeParts
<1>1. /\ UNCHANGED <<replies, offered, delivered, lost>>
      /\ pc'["client"] = pc["client"] /\ reply'["client"] = reply["client"]
  BY <1>t DEF ServerHandshake, AcceptStream, ReadRequest, Resolve, ConnectTarget, WriteResponse,
              Ends, Controls
<1>2. GivenUp' = GivenUp
  BY <1>1 DEF GivenUp
<1>3. CASE AcceptStream \/ Resolve
  <2>1. UNCHANGED <<peer, ended>>
    BY <1>3 DEF AcceptStream, Resolve
  <2>2. QED BY <1>1, <1>2, <2>1, NothingSeen DEF Over
<1>4. CASE ReadRequest
  <2>1. UNCHANGED peer /\ peer["server"] = "none"
    BY <1>4 DEF ReadRequest, ServerStages, Connecting
  <2>2. UNCHANGED ended \/ ended' = [ended EXCEPT !["server"] = TRUE]
    BY <1>4 DEF ReadRequest, Ends
  <2>3. Over' = Over
    <3>1. CASE UNCHANGED ended
      BY <2>1, <3>1 DEF Over
    <3>2. CASE ended' = [ended EXCEPT !["server"] = TRUE]
      BY <1>t, <2>1, <3>2, OverWith
    <3>3. QED BY <2>2, <3>1, <3>2
  <2>4. QED BY <1>1, <1>2, <2>1, <2>3, NothingSeen
<1>5. CASE ConnectTarget
  <2>1. UNCHANGED ended /\ peer["server"] = "none" /\ ~ ended["server"]
    BY <1>5 DEF ConnectTarget, ServerStages, Connecting
  <2>2. CASE UNCHANGED peer
    BY <1>1, <1>2, <2>1, <2>2, NothingSeen DEF Over
  <2>3. CASE peer' = [peer EXCEPT !["server"] = "open"]
    <3>1. peer'["server"] = "open" /\ peer'["client"] = peer["client"]
      BY <1>t, <2>3 DEF Controls
    <3>2. Over' = Over
      BY <2>1, <3>1, OtherTask DEF Over
    <3>3. Closed' = Closed /\ Broken' = Broken
      BY <1>1, <2>1, <3>1 DEF Closed, Broken, Tasks
    <3>4. Promise!Connect
      BY <1>1, <1>2, <2>1, <3>1, <3>2, <3>3 DEF Promise!Connect, Answer
    <3>5. QED BY <3>4 DEF Promise!Next
  <2>4. QED BY <1>5, <2>2, <2>3 DEF ConnectTarget
<1>6. CASE WriteResponse
  <2>1. pc["server"] = "reply" /\ UNCHANGED peer
    BY <1>6 DEF WriteResponse
  <2>2. CASE UNCHANGED halves
    BY <1>1, <1>2, <2>1, <2>2, NothingSeen DEF Over
  <2>3. CASE Ends("server") /\ (lost \/ stopped["server"])
    <3>1. stopped["server"] => pc["client"] = "done" /\ replies # <<"Succeeded">>
      BY <2>1 DEF ClientStages, Promised
    <3>2. GivenUp \/ Broken
      BY <2>3, <3>1 DEF GivenUp, Broken
    <3>3. ended' = [ended EXCEPT !["server"] = TRUE]
      BY <2>3 DEF Ends
    <3>4. QED BY <1>t, <1>1, <1>2, <2>1, <3>2, <3>3, EndsDirection
  <2>4. CASE Ends("server") /\ reply["server"] # "Succeeded"
    <3>1. peer["server"] = "none"
      BY <2>1, <2>4 DEF ServerStages
    <3>2. ended' = [ended EXCEPT !["server"] = TRUE]
      BY <2>4 DEF Ends
    <3>3. QED BY <1>t, <1>1, <1>2, <2>1, <3>1, <3>2, EndsDirection
  <2>5. QED BY <1>6, <2>2, <2>3, <2>4 DEF WriteResponse
<1>7. QED BY <1>3, <1>4, <1>5, <1>6 DEF ServerHandshake

(* The relay: units arrive in a direction that is granted, and it ends in order   *)
(* or because something has broken.                                               *)
LEMMA RelayMaps ==
    ASSUME IInv, NEW t \in Tasks, Relay(t)
    PROVE  [Promise!Next]_(Promise!vars)
<1> USE Others, OtherTask DEF IInv
<1>t. Controls /\ Counts
  BY TypeParts
<1>1. pc[t] = "relay" /\ UNCHANGED <<replies, peer, offered, lost>>
  BY DEF Relay, FeedUnit, FeedEnd, DrainUnit, DrainEnd, RelayFails, RelayEnds
<1>2. peer[t] # "none"
  BY <1>1 DEF ClientStages, ServerStages, Tasks
<1>3. GivenUp' = GivenUp
  <2>1. CASE UNCHANGED <<pc, reply>>
    BY <1>1, <2>1 DEF GivenUp
  <2>2. CASE Ends(t)
    <3>1. t = "client" => replies = <<"Succeeded">> /\ pc'["client"] = "done"
      BY <1>t, <1>1, <2>2 DEF Ends, ClientStages, Controls
    <3>2. t = "server" => pc'["client"] = pc["client"] /\ reply'["client"] = reply["client"]
      BY <1>t, <2>2 DEF Ends, Controls
    <3>3. QED BY <1>1, <3>1, <3>2 DEF GivenUp, Tasks
  <2>3. QED BY <2>1, <2>2 DEF Relay, FeedUnit, FeedEnd, DrainUnit, DrainEnd, RelayFails, RelayEnds
<1>4. CASE FeedUnit(t) \/ FeedEnd(t)
  <2>1. UNCHANGED <<delivered, ended>>
    BY <1>4 DEF FeedUnit, FeedEnd
  <2>2. QED BY <1>1, <1>3, <2>1, NothingSeen DEF Over
<1>5. CASE DrainUnit(t)
  <2>1. PICK d \in Tasks : d = Other(t)
    OBVIOUS
  <2>2. /\ ~ ended[t] /\ UNCHANGED ended /\ stream[d] > 0
        /\ delivered' = [delivered EXCEPT ![d] = @ + 1]
    BY <1>5, <2>1 DEF DrainUnit, Move
  <2>3. replies = <<"Succeeded">>
    BY <1>1, <2>1, <2>2 DEF ClientStages, Carried, Tasks
  <2>4. delivered[d] < offered[d]
    BY <1>t, <2>2, UnitsAreBounded DEF Counts
  <2>5. ~ Over[d] /\ Over' = Over
    BY <1>1, <2>1, <2>2 DEF Over
  <2>6. Answer = "granted" /\ Answer' = Answer
    BY <1>1, <2>3, Singletons DEF Answer
  <2>7. Promise!Receive(d)
    BY <1>1, <1>3, <2>2, <2>4, <2>5, <2>6 DEF Promise!Receive, Closed, Broken
  <2>8. QED BY <2>7 DEF Promise!Next, Promise!Directions, Tasks
<1>6. CASE DrainEnd(t)
  <2>1. PICK d \in Tasks : d = Other(t)
    OBVIOUS
  <2>2. /\ ended' = [ended EXCEPT ![t] = TRUE] /\ UNCHANGED delivered
        /\ stream[d] = 0 /\ fin[d]
    BY <1>6, <2>1 DEF DrainEnd
  <2>3. ASSUME ~ GivenUp, ~ Broken
        PROVE  /\ replies = <<"Succeeded">> /\ peer[d] = "half"
               /\ delivered[d] = offered[d]
    <3>1. Agreed
      BY <1>1, <2>3, RelaysTogether
    <3>2. peer[d] = "half" /\ near[d] = 0
      BY <2>2, <2>3, <3>1 DEF InOrder, Undisturbed, Broken, EndsInOrder
    <3>3. replies = <<"Succeeded">>
      <4>1. CASE t = "client"
        BY <1>1, <4>1 DEF ClientStages
      <4>2. CASE t = "server"
        <5>1. fin["client"]
          BY <2>1, <2>2, <4>2
        <5>2. pc["client"] # "status" /\ reply["client"] # "Succeeded"
          BY <5>1, <1>t DEF ClientStages, Handshaking, Controls
        <5>3. QED BY <3>1, <5>2 DEF Agreed
      <4>3. QED BY <4>1, <4>2 DEF Tasks
    <3>4. QED BY <1>t, <2>2, <3>2, <3>3, UnitsAreBounded DEF Counts
  <2>4. QED BY <1>t, <1>1, <1>3, <2>1, <2>2, <2>3, EndsDirection
<1>7. CASE RelayFails(t)
  <2>1. ended' = [ended EXCEPT ![t] = TRUE] /\ UNCHANGED delivered
    BY <1>7 DEF RelayFails, Ends
  <2>2. ASSUME ~ GivenUp, ~ Broken PROVE FALSE
    <3>1. EndsInOrder(t)
      BY <1>1, <2>2, RelaysTogether DEF InOrder, Undisturbed, Broken
    <3>2. QED BY <1>7, <2>2, <3>1 DEF RelayFails, FeedFails, DrainFails, EndsInOrder, Broken
  <2>3. QED BY <1>t, <1>1, <1>3, <2>1, <2>2, EndsDirection
<1>8. CASE RelayEnds(t)
  <2>1. ended' = [ended EXCEPT ![t] = TRUE] /\ UNCHANGED delivered /\ ended[t]
    BY <1>8 DEF RelayEnds, Ends
  <2>2. QED BY <1>t, <1>1, <1>3, <2>1, EndsDirection
<1>9. QED BY <1>4, <1>5, <1>6, <1>7, <1>8 DEF Relay

(* The peers and the connection.                                                  *)
LEMMA PeersMap ==
    ASSUME IInv, (\E t \in Tasks : PeerSends(t) \/ PeerCloses(t)) \/ ConnectionLost
    PROVE  [Promise!Next]_(Promise!vars)
<1> USE Others, OtherTask DEF IInv
<1>t. Controls /\ Counts
  BY TypeParts
<1>1. UNCHANGED <<pc, reply, replies, delivered, ended>>
  BY DEF PeerSends, PeerCloses, ConnectionLost
<1>2. GivenUp' = GivenUp /\ Answer' = Answer
  BY <1>1 DEF GivenUp, Answer
<1>3. ASSUME NEW t \in Tasks, PeerSends(t) PROVE [Promise!Next]_(Promise!vars)
  <2>1. /\ peer[t] = "open" /\ UNCHANGED <<peer, lost>>
        /\ offered' = [offered EXCEPT ![t] = @ + 1]
    BY <1>3 DEF PeerSends
  <2>2. ~ Closed[t] /\ (t = "server" => peer["server"] # "none")
    BY <2>1 DEF Closed
  <2>3. Promise!Send(t)
    BY <1>1, <1>2, <2>1, <2>2 DEF Promise!Send, Closed, Over, Broken
  <2>4. QED BY <2>3 DEF Promise!Next, Promise!Directions, Tasks
<1>4. ASSUME NEW t \in Tasks, PeerCloses(t) PROVE [Promise!Next]_(Promise!vars)
  <2>1. /\ UNCHANGED <<offered, lost>>
        /\ \A u \in Tasks : u # t => peer'[u] = peer[u]
        /\ peer[t] \in {"open", "half"} /\ peer'[t] \in {"half", "gone"}
        /\ peer'[t] = "half" => peer[t] = "open"
    BY <1>t, <1>4 DEF PeerCloses, Controls
  <2>2. Over' = Over /\ (peer["server"] # "none")' = (peer["server"] # "none")
    BY <1>1, <2>1 DEF Over
  <2>3. Broken' = Broken \/ Broken' = TRUE
    BY <2>1 DEF Broken
  <2>4. CASE peer[t] = "open"
    <3>1. ~ Closed[t] /\ Closed' = [Closed EXCEPT ![t] = TRUE]
      BY <2>1, <2>4 DEF Closed
    <3>2. Promise!Close(t)
      BY <1>1, <1>2, <2>1, <2>2, <2>3, <2>4, <3>1 DEF Promise!Close
    <3>3. QED BY <3>2 DEF Promise!Next, Promise!Directions, Tasks
  <2>5. CASE peer[t] = "half"
    <3>1. Closed' = Closed /\ Broken'
      BY <2>1, <2>5 DEF Closed, Broken
    <3>2. Promise!Break \/ UNCHANGED Promise!vars
      BY <1>1, <1>2, <2>1, <2>2, <2>3, <3>1 DEF Promise!Break, Promise!vars, Broken
    <3>3. QED BY <3>2 DEF Promise!Next
  <2>6. QED BY <2>1, <2>4, <2>5
<1>5. CASE ConnectionLost
  <2>1. UNCHANGED <<peer, offered>> /\ lost' = TRUE
    BY <1>5 DEF ConnectionLost
  <2>2. Over' = Over /\ Closed' = Closed /\ Broken' = TRUE
    BY <1>1, <2>1 DEF Over, Closed, Broken
  <2>3. Promise!Break \/ UNCHANGED Promise!vars
    BY <1>1, <1>2, <2>1, <2>2 DEF Promise!Break, Promise!vars, Broken
  <2>4. QED BY <2>3 DEF Promise!Next
<1>6. QED BY <1>3, <1>4, <1>5

(* Whatever meets a session, the program and the target get what they are         *)
(* promised: a true answer, and two directions that end each for itself and after *)
(* the last unit, for any number of units (client.rs, handle_socks_connection;    *)
(* server.rs, handle_tunnel_stream).                                              *)
THEOREM SessionKeepsPromise == Spec => ImplementsAbstractSession
<1>1. Init => Promise!Init
  <2> SUFFICES ASSUME Init PROVE Promise!Init
    OBVIOUS
  <2>1. Answer = "none" /\ ~ GivenUp /\ ~ Broken /\ peer["server"] = "none"
    BY DEF Init, Answer, GivenUp, Broken, Tasks
  <2>2. Closed = [d \in Tasks |-> FALSE]
    <3>1. peer["client"] = "open" /\ peer["server"] = "none"
      BY DEF Init
    <3>2. \A t \in Tasks : (peer[t] \in {"half", "gone"}) = FALSE
      BY <3>1 DEF Tasks
    <3>3. QED BY <3>2 DEF Closed
  <2>3. Over = [d \in Tasks |-> FALSE]
    <3>1. \A t \in Tasks : (ended[Other(t)] /\ peer[Other(t)] # "none") = FALSE
      BY OtherTask DEF Init, Nowhere
    <3>2. QED BY <3>1 DEF Over
  <2>4. QED BY <2>1, <2>2, <2>3 DEF Init, Promise!Init, Promise!Directions, Tasks, Zero
<1>2. IInv /\ [Next]_vars => [Promise!Next]_(Promise!vars)
  <2> SUFFICES ASSUME IInv, [Next]_vars PROVE [Promise!Next]_(Promise!vars)
    OBVIOUS
  <2>1. CASE UNCHANGED vars
    BY <2>1 DEF vars, Promise!vars, Answer, GivenUp, Closed, Over, Broken
  <2>2. QED BY <2>1, ClientMaps, ServerMaps, RelayMaps, PeersMap DEF Next
<1>3. QED BY <1>1, <1>2, Invariant, PTL DEF Spec, Promise!Spec, ImplementsAbstractSession
================================================================================
