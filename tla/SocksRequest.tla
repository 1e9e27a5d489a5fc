----------------------------- MODULE SocksRequest -----------------------------
(* What a SOCKS session is about: the request a local program makes, read by the  *)
(* client (src/socks5.rs), written to the tunnel and read by the server           *)
(* (src/tunnel.rs), resolved, judged and connected to (src/server.rs,             *)
(* TargetPolicy), and the code that travels back.  The tunnel may fail either     *)
(* task at any point; SocksSession models what becomes of a session then, here it *)
(* is what the local program is told that counts.                                 *)
(*                                                                                *)
(* A stream is a sequence of fields; an address, a domain name with its length,   *)
(* or a list of methods with its length is one field.                             *)
EXTENDS TargetPolicy

CONSTANTS
    Programs,       \* what local programs send, see ProgramsAssumption
    Answers         \* the sequences of addresses a lookup may return

Byte == 0..255
Word == 0..65535    \* two of them

Addresses == [family : {"v4", "mapped"}, octets : Byte \X Byte]
             \cup [family : {"v6"}, segment : Word, rest : {"zero", "one", "other"}]

(* A domain name is text that can be looked up, has a control character or a      *)
(* space in it, or is not UTF-8.                                                  *)
Domains == [family : {"domain"}, length : Byte, text : {"plain", "control", "binary"}]

(* The address type says how the address after it is to be read.                  *)
Atyp(target) ==
    CASE target.family = "v4" -> 1
      [] target.family = "domain" -> 3
      [] target.family \in {"v6", "mapped"} -> 4
      [] OTHER -> 2

IsProgram(p) ==
    /\ p.version \in Byte /\ p.methods \subseteq Byte
    /\ p.command \in Byte /\ p.reserved \in Byte
    /\ p.target \in Addresses \cup Domains \cup [family : {"unknown"}]
    /\ p.port \in Word
    /\ p.sends \in 0..9 /\ p.closes \in BOOLEAN

ASSUME ProgramsAssumption ==
    /\ \A p \in Programs : IsProgram(p)
    /\ \A answer \in Answers : answer \in Seq(Addresses)

VARIABLES
    allow_private_targets,
    program,    \* the local program
    pc,         \* per task: the next operation of its handler
    local,      \* fields from the program the client has not read
    method,     \* the answer to the method negotiation, or Nothing
    request,    \* per task: the request it has read, or NoRequest
    tunnel,     \* fields from the client the server has not read
    lookup,     \* the addresses the server has looked up
    dialled,    \* the addresses the server has tried to connect to
    dial,       \* what came of it, or "none"
    status,     \* the code the server is about to send, or Nothing
    back,       \* fields from the server the client has not read
    reply,      \* the code of the reply the program has received, or Nothing
    mishaps,    \* what has gone wrong in the tunnel
    unread,     \* data from the target the server has not read
    got         \* per task: what its TCP peer has received as data

given == <<allow_private_targets, program>>
network == <<lookup, dialled, dial>>
data == <<unread, got>>
vars == <<given, pc, local, method, request, tunnel, network, status, back, reply, mishaps, data>>

Tasks == {"client", "server"}
Nothing == -1
Mishaps == {"client_timeout", "server_timeout", "no_permit", "lost"}
NoRequest == [target |-> [family |-> "none"], port |-> 0]

(* The first thing either end has to say, which is not the tunnel's business.     *)
Early == "early"
Greeting == "greeting"

(* All a program would send: the methods it offers, a CONNECT, and, without       *)
(* waiting for the answer, data.                                                  *)
Stream(p) ==
    <<p.version, p.methods,
      p.version, p.command, p.reserved, Atyp(p.target), p.target, p.port,
      Early>>

Init ==
    /\ allow_private_targets \in BOOLEAN
    /\ program \in Programs
    /\ pc = [client |-> "methods", server |-> "absent"]
    /\ local = SubSeq(Stream(program), 1, program.sends)
    /\ method = Nothing
    /\ request = [t \in Tasks |-> NoRequest]
    /\ tunnel = <<>> /\ lookup = <<>> /\ dialled = <<>> /\ dial = "none"
    /\ status = Nothing /\ back = <<>> /\ reply = Nothing /\ mishaps = {}
    /\ unread = <<Greeting>>
    /\ got = [t \in Tasks |-> <<>>]

Goto(t, label) == pc' = [pc EXCEPT ![t] = label]
Reads(t, target, port) == request' = [request EXCEPT ![t] = [target |-> target, port |-> port]]
Rest(fields, n) == SubSeq(fields, n + 1, Len(fields))

IsLost == "lost" \in mishaps
Happens(mishap) == mishaps' = mishaps \cup {mishap}

(* The client is done with the request.                                           *)
Replies(code) == reply' = code /\ Goto("client", "done")

--------------------------------------------------------------------------------
(* The client.                                                                    *)

(* negotiate_no_auth: a connection that is not understood is dropped without a    *)
(* word, as is one that stays silent or is closed too early.                      *)
Negotiate ==
    /\ pc["client"] = "methods"
    /\ CASE Len(local) < 2 \/ local[1] # 5 -> Goto("client", "done") /\ UNCHANGED <<local, method>>
         [] OTHER ->
              /\ local' = Rest(local, 2)
              /\ IF 0 \in local[2]
                 THEN method' = 0 /\ Goto("client", "request")
                 ELSE method' = 255 /\ Goto("client", "done")
    /\ UNCHANGED <<given, request, tunnel, network, status, back, reply, mishaps, data>>

validate_domain(domain) == domain.length > 0 /\ domain.text # "control"

(* String::from_utf8 and validate_domain.                                         *)
InvalidDomain(target) ==
    target.family = "domain" /\ (target.text = "binary" \/ ~ validate_domain(target))

(* What is looked for in the first five fields of a CONNECT.                      *)
FieldIsWrong(i) ==
    CASE i = 1 -> local[1] # 5
      [] i = 2 -> local[2] # 1
      [] i = 3 -> local[3] # 0
      [] i = 4 -> local[4] \notin {1, 3, 4}
      [] i = 5 -> InvalidDomain(local[5])

(* The fields of a CONNECT that are there and wrong, in the order they are looked *)
(* at: command and reserved byte only when the address type has been read too.    *)
ConnectFaults ==
    {i \in DOMAIN local \cap 1..5 : (i \in 2..3 => Len(local) >= 4) /\ FieldIsWrong(i)}

(* SocksError::reply_code.                                                        *)
reply_code(field) ==
    CASE field = 2 -> CommandNotSupported
      [] field = 4 -> AddressTypeNotSupported
      [] OTHER -> GeneralFailure

(* read_connect_request: a request, a reply to what is wrong with it or to the    *)
(* end of the stream, or nothing after a while.                                   *)
ReadConnect ==
    /\ pc["client"] = "request"
    /\ IF ConnectFaults = {} /\ Len(local) >= 6
       THEN /\ Reads("client", local[5], local[6])
            /\ local' = Rest(local, 6)
            /\ Goto("client", "send") /\ UNCHANGED reply
       ELSE /\ Goto("client", "done") /\ UNCHANGED <<local, request>>
            /\ CASE ConnectFaults # {} -> reply' = reply_code(Min(ConnectFaults))
                 [] ConnectFaults = {} /\ program.closes -> reply' = GeneralFailure
                 [] OTHER -> UNCHANGED reply
    /\ UNCHANGED <<given, method, tunnel, network, status, back, mishaps, data>>

(* Magic, version and command in one.                                             *)
Header == "IRPX 1 CONNECT"

(* write_request, which breaks off at a name it cannot send.                      *)
TunnelRequest(r) ==
    IF r.target.family = "domain" /\ (~ validate_domain(r.target) \/ r.target.length > 255)
    THEN <<Header>> ELSE <<Header, Atyp(r.target), r.port, r.target>>

(* send_tunnel_request: write_request makes progress or breaks off...             *)
SendRequest ==
    /\ pc["client"] = "send" /\ ~ IsLost
    /\ \E n \in 1..Len(TunnelRequest(request["client"])) :
          /\ n > Len(tunnel)
          /\ tunnel' = SubSeq(TunnelRequest(request["client"]), 1, n)
          /\ CASE n = 4 -> Goto("client", "status") /\ UNCHANGED reply
               [] n < 4 /\ n < Len(TunnelRequest(request["client"])) -> UNCHANGED <<pc, reply>>
               [] OTHER -> Replies(GeneralFailure)
    /\ UNCHANGED <<given, local, method, request, network, status, back, mishaps, data>>

(* ... or it fails, with the connection or because the server has stopped the     *)
(* stream; as open_tunnel_stream may, before anything has been sent...            *)
SendFails ==
    /\ pc["client"] = "send"
    /\ IsLost \/ pc["server"] = "done"
    /\ Replies(GeneralFailure)
    /\ UNCHANGED <<given, local, method, request, tunnel, network, status, back, mishaps, data>>

(* ... or tunnel_operation_timeout elapses, for either of them.                   *)
SendTimesOut ==
    /\ pc["client"] = "send"
    /\ Replies(TtlExpired) /\ Happens("client_timeout")
    /\ UNCHANGED <<given, local, method, request, tunnel, network, status, back, data>>

(* Faulty: the reserved field is left in the stream.                              *)
ResponseWithoutReserved == 2

(* Magic with version, status, reserved.                                          *)
ResponseFields == 3

(* read_tunnel_status and write_reply: the status of a response...                *)
ReadStatus ==
    /\ pc["client"] = "status"
    /\ Len(back) >= ResponseFields
    /\ reply' = IF back[2] \in ReplyCodes THEN back[2] ELSE GeneralFailure
    /\ back' = Rest(back, ResponseFields)
    /\ Goto("client", IF reply' = Succeeded THEN "relay" ELSE "done")
    /\ UNCHANGED <<given, local, method, request, tunnel, network, status, mishaps, data>>

(* ... or the end of a stream on which there has been none, or of the connection, *)
(* or tunnel_operation_timeout, although the server may be at work.               *)
NoStatus ==
    /\ pc["client"] = "status"
    /\ \/ /\ (pc["server"] = "done" /\ back = <<>>) \/ IsLost
          /\ Replies(GeneralFailure) /\ UNCHANGED mishaps
       \/ Replies(TtlExpired) /\ Happens("client_timeout")
    /\ UNCHANGED <<given, local, method, request, tunnel, network, status, back, data>>

--------------------------------------------------------------------------------
(* The server.                                                                    *)
Responds(code) == status' = code /\ Goto("server", "respond")

(* accept_bi returns the stream once something of it has arrived; without a       *)
(* permit it is answered at once, and not read.                                   *)
AcceptStream ==
    /\ pc["server"] = "absent" /\ tunnel # <<>>
    /\ \/ Goto("server", "read") /\ UNCHANGED <<status, mishaps>>
       \/ Responds(GeneralFailure) /\ Happens("no_permit")
    /\ UNCHANGED <<given, local, method, request, tunnel, network, back, reply, data>>

(* read_request understands all of it.                                            *)
IsReadable == Len(tunnel) >= 4 /\ tunnel[2] \in {1, 3, 4} /\ ~ InvalidDomain(tunnel[4])

(* read_tunnel_request: there is no response to a request that cannot be read, is *)
(* cut short, or is not there when tunnel_request_timeout elapses.                *)
ReadRequest ==
    /\ pc["server"] = "read"
    /\ \/ /\ IsReadable
          /\ Reads("server", tunnel[4], tunnel[3])
          /\ tunnel' = Rest(tunnel, 4)
          /\ Goto("server", "resolve") /\ UNCHANGED mishaps
       \/ /\ (~ IsReadable /\ (Len(tunnel) >= 4 \/ pc["client"] = "done")) \/ IsLost
          /\ Goto("server", "done") /\ UNCHANGED <<request, tunnel, mishaps>>
       \/ Goto("server", "done") /\ Happens("server_timeout") /\ UNCHANGED <<request, tunnel>>
    /\ UNCHANGED <<given, local, method, network, status, back, reply, data>>

(* The server goes on with what the resolution of a target came to.               *)
Dials(outcome) ==
    IF outcome.addrs = <<>>
    THEN Responds(outcome.code) /\ UNCHANGED dialled
    ELSE Goto("server", "connect") /\ dialled' = outcome.addrs /\ UNCHANGED status

(* resolve_allowed_target for an address: target_allowed and resolve_ip_target    *)
(* judge it alike.                                                                *)
ResolveIp ==
    /\ pc["server"] = "resolve"
    /\ LET ip == request["server"].target IN
          /\ ip.family # "domain"
          /\ Dials(IF target_ip_allowed(ip, allow_private_targets)
                   THEN Resolved(ip) ELSE Unresolved(ConnectionNotAllowed))
    /\ UNCHANGED <<given, local, method, request, tunnel, lookup, dial, back, reply, mishaps, data>>

(* For a domain name, whose lookup answers, fails or takes too long.              *)
ResolveDomain ==
    /\ pc["server"] = "resolve"
    /\ request["server"].target.family = "domain"
    /\ \/ \E addrs \in Answers :
             /\ lookup' = addrs
             /\ Dials(select_allowed_resolved_addr(addrs, allow_private_targets))
       \/ \E code \in {HostUnreachable, TtlExpired} :
             Dials(Unresolved(code)) /\ UNCHANGED lookup
    /\ UNCHANGED <<given, local, method, request, tunnel, dial, back, reply, mishaps, data>>

(* connect_target: the target accepts, connect() fails or takes too long.         *)
ConnectTarget ==
    /\ pc["server"] = "connect"
    /\ \/ dial' = "accepted" /\ Responds(Succeeded)
       \/ \E kind \in ConnectErrors : dial' = kind /\ Responds(map_connect_error(kind))
       \/ dial' = "silent" /\ Responds(TtlExpired)
    /\ UNCHANGED <<given, local, method, request, tunnel, lookup, dialled, back, reply,
                   mishaps, data>>

(* write_response, and finish() unless the relay follows; it may fail when the    *)
(* client has given up or the connection is gone.                                 *)
WriteResponse ==
    /\ pc["server"] = "respond"
    /\ \/ /\ ~ IsLost
          /\ back' = <<"IRPX 1", status, "reserved">>
          /\ Goto("server", IF status = Succeeded THEN "relay" ELSE "done")
       \/ /\ IsLost \/ pc["client"] = "done"
          /\ Goto("server", "done") /\ UNCHANGED back
    /\ status' = Nothing
    /\ UNCHANGED <<given, local, method, request, tunnel, network, reply, mishaps, data>>

--------------------------------------------------------------------------------
(* The relay takes up the streams where the handshake has left them.              *)
Copied(field, t) == got' = [got EXCEPT ![t] = Append(@, field)]

RelayClient ==
    /\ pc["client"] = "relay" /\ ~ IsLost
    /\ \/ /\ local # <<>>
          /\ local' = Tail(local) /\ tunnel' = Append(tunnel, Head(local))
          /\ UNCHANGED <<back, got>>
       \/ /\ back # <<>>
          /\ back' = Tail(back) /\ Copied(Head(back), "client")
          /\ UNCHANGED <<local, tunnel>>
    /\ UNCHANGED <<given, pc, method, request, network, unread, status, reply, mishaps>>

RelayServer ==
    /\ pc["server"] = "relay" /\ ~ IsLost
    /\ \/ /\ unread # <<>>
          /\ unread' = Tail(unread) /\ back' = Append(back, Head(unread))
          /\ UNCHANGED <<tunnel, got>>
       \/ /\ tunnel # <<>>
          /\ tunnel' = Tail(tunnel) /\ Copied(Head(tunnel), "server")
          /\ UNCHANGED <<unread, back>>
    /\ UNCHANGED <<given, pc, local, method, request, network, status, reply, mishaps>>

ConnectionLost ==
    /\ ~ IsLost
    /\ Happens("lost")
    /\ UNCHANGED <<given, pc, local, method, request, tunnel, network, status, back, reply, data>>

ClientStep ==
    \/ Negotiate \/ ReadConnect \/ SendRequest \/ SendFails \/ SendTimesOut
    \/ ReadStatus \/ NoStatus \/ RelayClient

ServerStep ==
    \/ AcceptStream \/ ReadRequest \/ ResolveIp \/ ResolveDomain \/ ConnectTarget
    \/ WriteResponse \/ RelayServer

Next == ClientStep \/ ServerStep \/ ConnectionLost

Spec == Init /\ [][Next]_vars

--------------------------------------------------------------------------------
(* What is not public, written as ranges of the first 16 bits: 0/8, 10/8, 127/8,  *)
(* 169.254/16, 172.16/12, 192.168/16 and 224/3; fc00::/7, fe80::/10, ff00::/8,    *)
(* :: and ::1.                                                                    *)
NonPublicIPv4 == {<<0, 255>>, <<2560, 2815>>, <<32512, 32767>>, <<43518, 43518>>, <<44048, 44063>>,
                  <<49320, 49320>>, <<57344, 65535>>}
NonPublicIPv6 == {<<64512, 65023>>, <<65152, 65215>>, <<65280, 65535>>}

NonPublic(ip) ==
    IF ip.family = "v6"
    THEN \/ \E range \in NonPublicIPv6 : ip.segment \in range[1]..range[2]
         \/ ip.segment = 0 /\ ip.rest \in {"zero", "one"}
    ELSE \E range \in NonPublicIPv4 : 256 * ip.octets[1] + ip.octets[2] \in range[1]..range[2]

(* The addresses a target names, by itself or through a lookup.                   *)
Named(addr) == IF addr.family = "domain" THEN ToSet(lookup) ELSE {addr}

(* The server connects, if at all, to what the program has asked for: a CONNECT   *)
(* that is sound to its last field, an address it named or one that its name      *)
(* resolved to, and, unless the server was started with --allow-private-targets,  *)
(* none that is private, as an address of IPv4, of IPv6, of IPv4 mapped into      *)
(* IPv6, or behind a name (server.rs:330, 380; README.md:178,                     *)
(* tests/server_policy.rs:33-66).                                                 *)
ConnectsAsAsked ==
    dialled # <<>> =>
        /\ program.sends >= 8 /\ program.command = 1 /\ program.reserved = 0
        /\ request["server"] = [target |-> program.target, port |-> program.port]
        /\ dialled[1] \in Named(program.target)
        /\ allow_private_targets \/ ~ NonPublic(dialled[1])

(* What a reply of each code stands for.                                          *)
RequestIsFaulty ==
    \/ program.version # 5 \/ program.command # 1 \/ program.reserved # 0
    \/ Atyp(program.target) \notin {1, 3, 4} \/ InvalidDomain(program.target)
    \/ program.sends < 8
WasRead == request["server"] # NoRequest
LookupFailed ==
    /\ WasRead /\ pc["server"] # "resolve"
    /\ program.target.family = "domain" /\ lookup = <<>> /\ dialled = <<>>

Means(code) ==
    CASE code = Succeeded -> dial = "accepted"
      [] code = GeneralFailure ->
            RequestIsFaulty \/ dial = "Other" \/ mishaps \ {"client_timeout"} # {}
      [] code = ConnectionNotAllowed ->
            /\ ~ allow_private_targets /\ WasRead /\ Named(program.target) # {}
            /\ \A ip \in Named(program.target) : NonPublic(ip)
      [] code = NetworkUnreachable -> dial = "NetworkUnreachable"
      [] code = HostUnreachable -> LookupFailed \/ dial \in {"NotFound", "AddrNotAvailable"}
      [] code = ConnectionRefused -> dial = "ConnectionRefused"
      [] code = TtlExpired ->
            "client_timeout" \in mishaps \/ LookupFailed \/ dial \in {"silent", "TimedOut"}
      [] code = CommandNotSupported -> program.command # 1
      [] code = AddressTypeNotSupported -> program.command = 1 /\ Atyp(program.target) = 2

(* The reply says what happened: whatever the way it has come and wherever the    *)
(* tunnel has failed, each code has its causes (socks5.rs:85, client.rs:252-288,  *)
(* server.rs:154-158, 213-264, 338-358).  A denial means that every address asked *)
(* for is one the policy denies; a general failure of a sound request that the    *)
(* tunnel has failed, and not by the client's impatience alone; an expiry that    *)
(* somebody has waited for too long.                                              *)
RepliesTruthfully == reply # Nothing => method = 0 /\ Means(reply)

(* Each end of the tunnel reads what the other one has written for it and no      *)
(* byte of what follows: the request is never mistaken for data, nor data, even   *)
(* if sent before the answer, for part of the request (socks5.rs:126, tunnel.rs:  *)
(* 75, 124).                                                                      *)
DataIsNotTouched ==
    pc["client"] = "relay" =>
        /\ got["server"] \o tunnel \o local = SubSeq(Stream(program), 9, program.sends)
        /\ got["client"] \o back \o unread = <<Greeting>>
================================================================================
