----------------------------- MODULE OpenAiExchange -----------------------------
(* One exchange of OpenAI mode from end to end: a local HTTP request read by the  *)
(* client (src/openai/client_handler.rs), carried over one QUIC stream to the     *)
(* server (src/openai/server_handler.rs), forwarded to the provider, and the      *)
(* response on its way back.                                                      *)
(*                                                                                *)
(* Bytes are abstracted to what an HTTP reader tells apart: a request is a head   *)
(* and a body, a response is a status line with its headers, named by its status  *)
(* ("provider" when it is the provider's own), pieces of body ("data") and the    *)
(* mark that ends the body ("end": the last chunk, or the last byte of a body     *)
(* with a content-length).  Dropping a quinn SendStream finishes it and dropping  *)
(* a RecvStream stops its sender, so the end of a task does both.                 *)
EXTENDS Integers, Sequences, SequencesExt

CONSTANTS
    MaxChunks,      \* bound on the pieces of body the provider sends
    Window          \* tokens the server may write ahead of the client (flow control)

ASSUME BoundsAssumption == MaxChunks \in Nat /\ Window \in Nat \ {0}

(* A chunked request is forwarded as its head only; an unmappable one parses but  *)
(* has no provider URL; a malformed one is refused by the parser, which the       *)
(* client and the server share (its 413 and 431 are taken for the 400 here).      *)
Kinds == {"plain", "chunked", "unmappable", "health", "malformed"}

VARIABLES
    kind,           \* what the local request is
    local,          \* the response the local connection has received so far
    peer,           \* the local peer: "reads", "stalled" (does not read) or "gone"
    cpc,            \* the client task
    report,         \* what the client still has to write of an error of its own
    opened,         \* the stream has been opened
    sent,           \* parts of the request the client has written to the stream
    reqFin,         \* the client has finished its half of the stream
    reqStopped,     \* the server has stopped the request half
    down,           \* response tokens the server has written and the client not read
    downFin,        \* the server has finished its half
    downStopped,    \* the client has stopped the response half
    lost,           \* the QUIC connection of the stream is gone
    spc,            \* the server task
    got,            \* parts of the request the server has read
    out,            \* what the server has to write next
    asked,          \* requests sent to the provider
    chunks,         \* pieces of body received from the provider
    ended           \* the provider's body has come to its end

localVars == <<kind, local, peer>>
clientVars == <<cpc, report, opened>>
request == <<sent, reqFin, reqStopped>>
response == <<down, downFin, downStopped>>
serverVars == <<spc, got, out>>
provider == <<asked, chunks, ended>>
vars == <<localVars, clientVars, request, response, lost, serverVars, provider>>

Init ==
    /\ kind \in Kinds
    /\ local = <<>> /\ peer = "reads"
    /\ cpc = "read" /\ report = <<>> /\ opened = FALSE
    /\ sent = 0 /\ reqFin = FALSE /\ reqStopped = FALSE
    /\ down = <<>> /\ downFin = FALSE /\ downStopped = FALSE
    /\ lost = FALSE
    /\ spc = "absent" /\ got = 0 /\ out = <<>>
    /\ asked = 0 /\ chunks = 0 /\ ended = FALSE

(* write_plain_response: a whole response of the proxy's own.                     *)
Plain(status) == <<status, "end">>
(* A chunked request is its head, any other one its head and its body.            *)
Parts == IF kind = "chunked" THEN 1 ELSE 2

--------------------------------------------------------------------------------
(* The client task: handle_openai_client_stream.                                  *)

(* The client goes on to write an error of its own.                               *)
Reports(status) == cpc' = "report" /\ report' = Plain(status) /\ UNCHANGED opened

(* The task is over: the local connection is closed and, if a stream was opened,  *)
(* its halves are dropped.                                                        *)
ClientEnds ==
    /\ cpc' = "done"
    /\ report' = <<>>
    /\ reqFin' = TRUE
    /\ downStopped' = TRUE
    /\ UNCHANGED <<opened, sent, reqStopped, down, downFin>>

(* read_local_openai_request: the request comes in, is refused, ends early        *)
(* because the local peer is gone, or takes longer than local_request_timeout.    *)
ReadLocalRequest ==
    /\ cpc = "read"
    /\ \/ kind # "malformed" /\ cpc' = "open" /\ UNCHANGED <<report, opened>>
       \/ (kind = "malformed" \/ peer = "gone") /\ Reports("400")
       \/ Reports("408")
    /\ UNCHANGED <<localVars, request, response, lost, serverVars, provider>>

(* open_tunnel_stream: any failure of the connection manager is a 504.            *)
OpenTunnelStream ==
    /\ cpc = "open"
    /\ \/ cpc' = "send" /\ opened' = TRUE /\ UNCHANGED report
       \/ Reports("504")
    /\ UNCHANGED <<localVars, request, response, lost, serverVars, provider>>

(* send_request_to_tunnel: write_all makes progress...                            *)
SendPart ==
    /\ cpc = "send" /\ ~ lost
    /\ sent < Parts
    /\ sent' = sent + 1
    /\ UNCHANGED <<localVars, clientVars, reqFin, reqStopped, response, lost, serverVars, provider>>

(* ... until everything is written, and the half is finished...                   *)
FinishRequest ==
    /\ cpc = "send"
    /\ sent = Parts
    /\ reqFin' = TRUE
    /\ cpc' = "await"
    /\ UNCHANGED <<localVars, report, opened, sent, reqStopped, response, lost, serverVars, provider>>

(* ... or it fails, because the server has stopped the half or the connection is  *)
(* gone: the error is returned and nothing is written to the local connection...  *)
SendFails ==
    /\ cpc = "send" /\ sent < Parts
    /\ reqStopped \/ lost
    /\ ClientEnds
    /\ UNCHANGED <<localVars, lost, serverVars, provider>>

(* Faulty: the timeout is returned like an error, without a 504.                  *)
SendTimesOutSilently ==
    /\ cpc = "send" /\ sent < Parts
    /\ ClientEnds
    /\ UNCHANGED <<localVars, lost, serverVars, provider>>

(* ... or tunnel_operation_timeout elapses: what was written is finished.         *)
SendTimesOut ==
    /\ cpc = "send" /\ sent < Parts
    /\ reqFin' = TRUE
    /\ Reports("504")
    /\ UNCHANGED <<localVars, sent, reqStopped, response, lost, serverVars, provider>>

(* copy_tunnel_response_with_idle_timeout: what has been read is written to the   *)
(* local connection, which fails when the local peer is gone and waits, without a *)
(* timeout, while it does not read...                                             *)
CopyResponse ==
    /\ cpc \in {"await", "stream"}
    /\ down # <<>>
    /\ \/ peer = "gone" /\ ClientEnds /\ UNCHANGED local
       \/ /\ peer = "reads"
          /\ local' = Append(local, Head(down))
          /\ down' = Tail(down)
          /\ cpc' = "stream"
          /\ UNCHANGED <<report, opened, request, downFin, downStopped>>
    /\ UNCHANGED <<kind, peer, lost, serverVars, provider>>

(* ... the server's half has ended...                                             *)
ResponseEnds ==
    /\ cpc \in {"await", "stream"}
    /\ down = <<>> /\ downFin
    /\ ClientEnds
    /\ UNCHANGED <<localVars, lost, serverVars, provider>>

(* ... or reading fails: the error is returned, whatever has been written...      *)
ResponseFails ==
    /\ cpc \in {"await", "stream"}
    /\ lost
    /\ ClientEnds
    /\ UNCHANGED <<localVars, lost, serverVars, provider>>

(* Faulty: the state of the copy is forgotten, every timeout is a 504.            *)
ResponseTimesOutAs504 ==
    /\ cpc \in {"await", "stream"}
    /\ Reports("504") /\ UNCHANGED <<request, response>>
    /\ UNCHANGED <<localVars, lost, serverVars, provider>>

(* Faulty: the timeout only covers the first byte.                                *)
FirstByteTimesOut ==
    /\ cpc = "await" /\ Reports("504")
    /\ UNCHANGED <<request, response>>
    /\ UNCHANGED <<localVars, lost, serverVars, provider>>

(* ... or nothing comes for tunnel_operation_timeout: a 504 before the first      *)
(* byte, the end of the response after it.                                        *)
ResponseTimesOut ==
    /\ \/ cpc = "await" /\ Reports("504") /\ UNCHANGED <<request, response>>
       \/ cpc = "stream" /\ ClientEnds
    /\ UNCHANGED <<localVars, lost, serverVars, provider>>

(* write_error_and_shutdown: the next token of the error, or the end of it.       *)
WriteReport ==
    /\ cpc = "report"
    /\ \/ (report = <<>> \/ peer = "gone") /\ ClientEnds /\ UNCHANGED local
       \/ /\ report # <<>> /\ peer = "reads"
          /\ local' = Append(local, Head(report))
          /\ report' = Tail(report)
          /\ UNCHANGED <<cpc, opened, request, response>>
    /\ UNCHANGED <<kind, peer, lost, serverVars, provider>>

ClientStep ==
    \/ ReadLocalRequest \/ OpenTunnelStream
    \/ SendPart \/ FinishRequest \/ SendFails \/ SendTimesOut
    \/ CopyResponse \/ ResponseEnds \/ ResponseFails \/ ResponseTimesOut
    \/ WriteReport

--------------------------------------------------------------------------------
(* The server task: handle_openai_stream, from the accept loop on.                *)

(* The server goes on to write tokens; after "end" it is done.                    *)
Writes(tokens) == spc' = "write" /\ out' = tokens

ServerEnds ==
    /\ spc' = "done"
    /\ out' = <<>>
    /\ downFin' = TRUE
    /\ reqStopped' = TRUE
    /\ UNCHANGED <<sent, reqFin, down, downStopped>>

(* accept_bi returns the stream once something of it has arrived; it is handled,  *)
(* or answered at once when the connection has no stream permit left.             *)
AcceptStream ==
    /\ spc = "absent"
    /\ opened /\ (sent > 0 \/ reqFin)
    /\ \/ spc' = "read" /\ UNCHANGED out
       \/ Writes(Plain("503"))
    /\ UNCHANGED <<localVars, clientVars, request, response, lost, got, provider>>

(* Faulty: a part is counted twice, once from the buffer it was left in.          *)
ReadPartTwice ==
    /\ spc = "read"
    /\ got < sent
    /\ got' = got + 2
    /\ UNCHANGED <<localVars, clientVars, request, response, lost, spc, out, provider>>

(* read_http_request takes in what has arrived...                                 *)
ReadPart ==
    /\ spc = "read"
    /\ got < sent
    /\ got' = got + 1
    /\ UNCHANGED <<localVars, clientVars, request, response, lost, spc, out, provider>>

(* The request half is dropped with the future that reads it.                     *)
DropsRequest == reqStopped' = TRUE /\ UNCHANGED <<sent, reqFin>>

(* Faulty: a body that ends early is taken for the whole.                         *)
ReadWhateverCame ==
    /\ spc = "read"
    /\ got = Parts \/ (got = sent /\ reqFin)
    /\ DropsRequest
    /\ IF kind = "plain"
       THEN spc' = "asked" /\ asked' = asked + 1 /\ UNCHANGED out
       ELSE Writes(Plain(IF kind = "health" THEN "200" ELSE "400")) /\ UNCHANGED asked
    /\ UNCHANGED <<localVars, clientVars, response, lost, got, chunks, ended>>

(* ... until the request is complete: a chunked body is refused, the health       *)
(* check is answered here, a target without a provider URL is refused, and        *)
(* anything else is sent to the provider...                                       *)
ReadRequest ==
    /\ spc = "read"
    /\ got = Parts
    /\ DropsRequest
    /\ IF kind = "plain"
       THEN spc' = "asked" /\ asked' = asked + 1 /\ UNCHANGED out
       ELSE /\ Writes(Plain(CASE kind = "chunked" -> "501"
                              [] kind = "health" -> "200"
                              [] kind = "unmappable" -> "400"))
            /\ UNCHANGED asked
    /\ UNCHANGED <<localVars, clientVars, response, lost, got, chunks, ended>>

(* ... the half ends early or fails...                                            *)
ReadFails ==
    /\ spc = "read" /\ got < Parts
    /\ lost \/ (reqFin /\ got = sent)
    /\ DropsRequest
    /\ Writes(Plain("400"))
    /\ UNCHANGED <<localVars, clientVars, response, lost, got, provider>>

(* ... or request_read_timeout elapses.                                           *)
ReadTimesOut ==
    /\ spc = "read"
    /\ DropsRequest
    /\ Writes(Plain("408"))
    /\ UNCHANGED <<localVars, clientVars, response, lost, got, provider>>

(* Faulty: a provider that takes too long is reported as a 408.                   *)
ProviderTimesOutAs408 ==
    /\ spc = "asked"
    /\ Writes(Plain("408"))
    /\ UNCHANGED <<localVars, clientVars, request, response, lost, got, provider>>

(* Faulty: there is no timeout on the provider's response headers.                *)
ProviderNeverTimesOut == FALSE /\ UNCHANGED vars

(* forward_request_to_provider: provider_request_timeout elapses...               *)
ProviderTimesOut ==
    /\ spc = "asked"
    /\ Writes(Plain("504"))
    /\ UNCHANGED <<localVars, clientVars, request, response, lost, got, provider>>

(* ... the request fails...                                                       *)
ProviderFails ==
    /\ spc = "asked"
    /\ Writes(Plain("502"))
    /\ UNCHANGED <<localVars, clientVars, request, response, lost, got, provider>>

(* ... or the provider's headers arrive.                                          *)
ProviderResponds ==
    /\ spc = "asked"
    /\ spc' = "first"
    /\ UNCHANGED <<localVars, clientVars, request, response, lost, got, out, provider>>

(* The status line is written only when the first piece of body is there, as the  *)
(* opening of whatever comes.                                                     *)
Opening == IF spc = "first" THEN <<"provider">> ELSE <<>>

(* response.chunk(): a piece of body...                                           *)
ProviderSendsChunk ==
    /\ spc \in {"first", "more"}
    /\ chunks < MaxChunks
    /\ chunks' = chunks + 1
    /\ Writes(Opening \o <<"data">>)
    /\ UNCHANGED <<localVars, clientVars, request, response, lost, got, asked, ended>>

(* ... the end of it, for which the last chunk is written...                      *)
ProviderEndsBody ==
    /\ spc \in {"first", "more"}
    /\ ended' = TRUE
    /\ Writes(Opening \o <<"end">>)
    /\ UNCHANGED <<localVars, clientVars, request, response, lost, got, asked, chunks>>

(* Faulty: a body that breaks off is ended like a whole one.                      *)
ProviderBreaksOffUnnoticed ==
    /\ spc \in {"first", "more"}
    /\ Writes(Opening \o <<"end">>)
    /\ UNCHANGED <<localVars, clientVars, request, response, lost, got, provider>>

(* ... or an error: a 502 while nothing has been written, and otherwise the end   *)
(* of the task, which finishes the half without the last chunk.                   *)
ProviderBreaksOff ==
    /\ \/ spc = "first" /\ Writes(Plain("502")) /\ UNCHANGED <<request, response>>
       \/ spc = "more" /\ ServerEnds
    /\ UNCHANGED <<localVars, clientVars, lost, got, provider>>

(* write_all of the next token, as far as the client's reading allows; the half   *)
(* is finished after the last one.                                                *)
WriteToken ==
    /\ spc = "write" /\ ~ lost
    /\ Len(down) < Window
    /\ down' = Append(down, Head(out))
    /\ out' = Tail(out)
    /\ IF Head(out) = "end"
       THEN spc' = "done" /\ downFin' = TRUE /\ reqStopped' = TRUE
       ELSE /\ spc' = IF Len(out) = 1 THEN "more" ELSE "write"
            /\ UNCHANGED <<downFin, reqStopped>>
    /\ UNCHANGED <<localVars, clientVars, sent, reqFin, downStopped, lost, got, provider>>

WriteFails ==
    /\ spc = "write"
    /\ lost \/ downStopped
    /\ ServerEnds
    /\ UNCHANGED <<localVars, clientVars, lost, got, provider>>

ServerStep ==
    \/ AcceptStream \/ ReadPart \/ ReadRequest \/ ReadFails \/ ReadTimesOut
    \/ ProviderTimesOut \/ WriteToken \/ WriteFails

ProviderStep ==
    \/ ProviderFails \/ ProviderResponds
    \/ ProviderSendsChunk \/ ProviderEndsBody \/ ProviderBreaksOff

--------------------------------------------------------------------------------
(* The environment: the local peer stops reading or goes away, the connection is  *)
(* lost.                                                                          *)
LocalPeer ==
    /\ \/ peer = "reads" /\ peer' = "stalled"
       \/ peer = "stalled" /\ peer' = "reads"
       \/ peer # "gone" /\ peer' = "gone"
    /\ UNCHANGED <<kind, local, clientVars, request, response, lost, serverVars, provider>>

ConnectionLost ==
    /\ opened /\ ~ lost
    /\ lost' = TRUE
    /\ UNCHANGED <<localVars, clientVars, request, response, serverVars, provider>>

Next == ClientStep \/ ServerStep \/ ProviderStep \/ LocalPeer \/ ConnectionLost

Spec == Init /\ [][Next]_vars

(* Every wait of the client and of the server is under a timeout of the code or   *)
(* ends with the connection, except the waits for the provider's body, which      *)
(* ProviderStep leaves to the provider, and for the local peer to read.           *)
FairSpec == Spec /\ WF_vars(ClientStep) /\ WF_vars(ServerStep)

--------------------------------------------------------------------------------
Statuses == {"provider", "200", "400", "408", "501", "502", "503", "504"}
Tokens == Statuses \cup {"data", "end"}

(* Type invariant: the server reads no more of the request than the client sent.  *)
TypeOK ==
    /\ kind \in Kinds
    /\ local \in Seq(Tokens)
    /\ peer \in {"reads", "stalled", "gone"}
    /\ cpc \in {"read", "open", "send", "await", "stream", "report", "done"}
    /\ report \in Seq(Tokens)
    /\ sent \in 0..Parts /\ got \in 0..sent
    /\ {opened, reqFin, reqStopped, downFin, downStopped, lost, ended} \subseteq BOOLEAN
    /\ down \in Seq(Tokens) /\ Len(down) <= Window
    /\ spc \in {"absent", "read", "asked", "first", "more", "write", "done"}
    /\ out \in Seq(Tokens)
    /\ asked \in Nat /\ chunks \in 0..MaxChunks

Answered(statuses) == local # <<>> /\ Head(local) \in statuses

(* The local connection never carries a second status line, nor anything after    *)
(* the end of the first response (client_handler.rs:264-290: a 504 is written     *)
(* only before the first byte of the server's response).                          *)
SingleResponse ==
    \A i \in 1..Len(local) :
        /\ local[i] \in Statuses <=> i = 1
        /\ local[i] = "end" => i = Len(local)

(* A provider's response that looks whole to the local peer is whole: every piece *)
(* that came from the provider and nothing cut off (http.rs:335-342, and the      *)
(* implicit finish when server_handler.rs:237 returns an error).                  *)
CompleteMeansComplete ==
    Answered({"provider"}) /\ Last(local) = "end" =>
        ended /\ Len(local) = chunks + 2

(* The provider sees only whole requests and each of them once, also when the     *)
(* client's write timed out half-way and the rest was finished                    *)
(* (client_handler.rs:221-222).                                                   *)
WholeRequestsOnly ==
    asked > 0 => asked = 1 /\ kind = "plain" /\ sent = Parts

(* A refusal (400, 408, 501, 503) means that the provider was never asked, so the *)
(* local program may send the request again; 502 and 504 say nothing.             *)
RefusedMeansNotAsked ==
    Answered({"400", "408", "501", "503"}) => asked = 0

(* A local peer that stays is left without any answer only when the tunnel failed *)
(* under the exchange: the connection was lost, or the server stopped a request   *)
(* that was still being written (client_handler.rs:220).                          *)
SilentOnlyWhenTunnelFails ==
    cpc = "done" /\ local = <<>> /\ peer # "gone" =>
        lost \/ (reqStopped /\ sent < Parts)

(* Every local connection is done with, and its session permit returned, unless   *)
(* its peer stops reading.                                                        *)
ClientFinishes ==
    cpc = "read" ~> cpc = "done" \/ peer = "stalled"

(* A stream handler of the server that does not end is waiting for the provider's *)
(* body, which provider_request_timeout does not cover (src/cli.rs:107), or for a *)
(* client whose local peer does not read; all else is bounded.                    *)
ServerWaitsOnlyForBody ==
    []<>(spc \in {"absent", "first", "more", "done"} \/ peer = "stalled")

(* The promise of AbstractExchange, in terms of this module's state.              *)
Produced ==
    IF chunks = 0 /\ ~ ended THEN <<>>
    ELSE [i \in 1..chunks + (IF ended THEN 2 ELSE 1) |->
             CASE i = 1 -> "provider" [] i = chunks + 2 -> "end" [] OTHER -> "data"]

Promise == INSTANCE AbstractExchange WITH
    answer <- local,
    asked <- asked,
    produced <- Produced,
    open <- cpc # "done"

(* The exchange keeps the promise: whatever is lost, late or cut off between the  *)
(* local program and the provider (client_handler.rs:137-290, server_handler.rs:  *)
(* 178-262), every step is one of AbstractExchange or changes nothing there.      *)
ImplementsAbstractExchange == Promise!Spec
================================================================================
