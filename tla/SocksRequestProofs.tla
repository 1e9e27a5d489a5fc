--------------------------- MODULE SocksRequestProofs ---------------------------
(* Proofs about SocksRequest and TargetPolicy, for every program, every address   *)
(* and every answer of a lookup.                                                  *)
EXTENDS SocksRequest, SequenceTheorems, NaturalsInduction, WellFoundedInduction, TLAPS

(* The networks that the code's tests on bits leave out are those of the list.    *)
LEMMA PublicIPv4 ==
    ASSUME NEW a \in Byte, NEW b \in Byte
    PROVE  is_public_ipv4(<<a, b>>) <=>
              \A range \in NonPublicIPv4 : 256 * a + b \notin range[1]..range[2]
<1>1. (\A range \in NonPublicIPv4 : 256 * a + b \notin range[1]..range[2]) <=>
        /\ 256 * a + b \notin 0..255 /\ 256 * a + b \notin 2560..2815
        /\ 256 * a + b \notin 32512..32767 /\ 256 * a + b \notin 43518..43518
        /\ 256 * a + b \notin 44048..44063 /\ 256 * a + b \notin 49320..49320
        /\ 256 * a + b \notin 57344..65535
  BY DEF NonPublicIPv4
<1>2. /\ 256 * a + b \in 0..255 <=> a = 0
      /\ 256 * a + b \in 2560..2815 <=> a = 10
      /\ 256 * a + b \in 32512..32767 <=> a = 127
      /\ 256 * a + b \in 43518..43518 <=> a = 169 /\ b = 254
      /\ 256 * a + b \in 44048..44063 <=> a = 172 /\ b \div 16 = 1
      /\ 256 * a + b \in 49320..49320 <=> a = 192 /\ b = 168
      /\ 256 * a + b \in 57344..65535 <=> a >= 224
  BY DEF Byte
<1>3. QED BY <1>1, <1>2 DEF is_public_ipv4

(* Likewise of IPv6.                                                              *)
LEMMA PublicIPv6 ==
    ASSUME NEW segment \in Word, NEW rest
    PROVE  is_public_ipv6(segment, rest) <=>
              /\ \A range \in NonPublicIPv6 : segment \notin range[1]..range[2]
              /\ ~ (segment = 0 /\ rest \in {"zero", "one"})
<1>a. segment \div 256 = 255 <=> segment \in 65280..65535
  BY SMTT(30) DEF Word
<1>b. segment \div 512 = 126 <=> segment \in 64512..65023
  BY SMTT(30) DEF Word
<1>c. segment \div 64 = 1018 <=> segment \in 65152..65215
  BY SMTT(30) DEF Word
<1>2. (\A range \in NonPublicIPv6 : segment \notin range[1]..range[2]) <=>
        /\ segment \notin 64512..65023
        /\ segment \notin 65152..65215
        /\ segment \notin 65280..65535
  BY DEF NonPublicIPv6
<1>3. QED BY <1>a, <1>b, <1>c, <1>2 DEF is_public_ipv6

(* What an address is made of: one of IPv4 ...                                    *)
LEMMA FieldsV4 ==
    ASSUME NEW ip, NEW F, NEW O, ip \in [family : F, octets : O]
    PROVE  ip.family \in F /\ ip.octets \in O
OBVIOUS

(* ... that of IPv6 ...                                                           *)
LEMMA FieldsV6 ==
    ASSUME NEW ip, NEW F, NEW S, NEW R, ip \in [family : F, segment : S, rest : R]
    PROVE  ip.family \in F /\ ip.segment \in S /\ ip.rest \in R
OBVIOUS

(* ... and two octets.                                                            *)
LEMMA PairFields ==
    ASSUME NEW x, NEW S, x \in S \X S
    PROVE  x[1] \in S /\ x[2] \in S /\ x = <<x[1], x[2]>>
OBVIOUS

(* The code takes as public what is not in any of the networks that are not.      *)
LEMMA PublicMeansPublic ==
    ASSUME NEW ip \in Addresses
    PROVE  is_public_ip(ip) <=> ~ NonPublic(ip)
<1>1. CASE ip \in [family : {"v4", "mapped"}, octets : Byte \X Byte]
  <2>1. ip.octets \in Byte \X Byte /\ ip.family \in {"v4", "mapped"}
    BY <1>1, FieldsV4, Zenon
  <2> DEFINE a == ip.octets[1]
             b == ip.octets[2]
  <2>2. a \in Byte /\ b \in Byte /\ ip.octets = <<a, b>>
    BY <2>1, PairFields, Zenon
  <2>3. ip.family # "v6"
    BY <2>1
  <2>4. is_public_ip(ip) <=> is_public_ipv4(<<a, b>>)
    BY <2>2, <2>3, Zenon DEF is_public_ip
  <2>5. NonPublic(ip) <=> ~ \A range \in NonPublicIPv4 : 256 * a + b \notin range[1]..range[2]
    BY <2>3, Zenon DEF NonPublic
  <2> HIDE DEF a, b
  <2>6. QED BY <2>2, <2>4, <2>5, PublicIPv4, Zenon
<1>2. CASE ip \in [family : {"v6"}, segment : Word, rest : {"zero", "one", "other"}]
  <2>1. ip.segment \in Word /\ ip.family \in {"v6"}
    BY <1>2, FieldsV6, Zenon
  <2>2. ip.family = "v6"
    BY <2>1, Zenon
  <2>3. is_public_ip(ip) <=> is_public_ipv6(ip.segment, ip.rest)
    BY <2>2, Zenon DEF is_public_ip
  <2>4. NonPublic(ip) <=>
           ~ /\ \A range \in NonPublicIPv6 : ip.segment \notin range[1]..range[2]
             /\ ~ (ip.segment = 0 /\ ip.rest \in {"zero", "one"})
    BY <2>2, Zenon DEF NonPublic
  <2>5. QED BY <2>1, <2>3, <2>4, PublicIPv6, Zenon
<1>3. QED BY <1>1, <1>2, Zenon DEF Addresses

(* A set of numbers has a least one.                                              *)
LEMMA Minimum ==
    ASSUME NEW S \in SUBSET Nat, S # {}
    PROVE  Min(S) \in S /\ \A y \in S : Min(S) <= y
<1>1. \E x \in S : \A y \in S : ~ (<<y, x>> \in OpToRel(<, Nat))
  BY NatLessThanWellFounded, WFMin
<1>2. \A x, y \in S : y < x => <<y, x>> \in OpToRel(<, Nat)
  <2>1. SUFFICES ASSUME NEW x \in S, NEW y \in S, y < x PROVE <<y, x>> \in OpToRel(<, Nat)
    OBVIOUS
  <2>2. x \in Nat /\ y \in Nat
    OBVIOUS
  <2>3. QED BY <2>1, <2>2, Zenon DEF OpToRel
<1>3. \E x \in S : \A y \in S : x <= y
  <2>1. PICK x \in S : \A y \in S : ~ (<<y, x>> \in OpToRel(<, Nat))
    BY <1>1, Zenon
  <2>2. \A y \in S : ~ (y < x)
    BY <1>2, <2>1, Zenon
  <2>3. QED BY <2>2
<1>4. QED BY <1>3 DEF Min

(* Of the addresses of a name one is taken that is allowed, if there is one.      *)
LEMMA SelectsAllowed ==
    ASSUME NEW addrs \in Seq(Addresses), NEW allow \in BOOLEAN
    PROVE  LET o == select_allowed_resolved_addr(addrs, allow)
           IN  \/ /\ o.code = Succeeded /\ Len(o.addrs) = 1
                  /\ o.addrs[1] \in ToSet(addrs) /\ target_ip_allowed(o.addrs[1], allow)
               \/ /\ o.code = ConnectionNotAllowed /\ o.addrs = <<>> /\ addrs # <<>>
                  /\ \A ip \in ToSet(addrs) : ~ target_ip_allowed(ip, allow)
               \/ o.code = HostUnreachable /\ o.addrs = <<>> /\ addrs = <<>>
<1> DEFINE I == {i \in 1..Len(addrs) : target_ip_allowed(addrs[i], allow)}
           first == SelectInSeq(addrs, LAMBDA ip : target_ip_allowed(ip, allow))
<1>1. first = IF I # {} THEN Min(I) ELSE 0
  BY DEF SelectInSeq
<1>2. I # {} => Min(I) \in I
  <2>1. I \subseteq Nat
    OBVIOUS
  <2> HIDE DEF I
  <2>2. QED BY <2>1, Minimum
<1>3. ToSet(addrs) = {addrs[i] : i \in 1..Len(addrs)}
  BY DEF ToSet
<1>4. CASE I # {}
  <2>1. first \in 1..Len(addrs) /\ target_ip_allowed(addrs[first], allow)
    BY <1>1, <1>2, <1>4
  <2> HIDE DEF first
  <2>2. first # 0
    BY <2>1
  <2>3. select_allowed_resolved_addr(addrs, allow) = Resolved(addrs[first])
    BY <2>2 DEF select_allowed_resolved_addr, first
  <2>4. QED BY <1>3, <2>1, <2>3 DEF Resolved
<1>5. CASE I = {}
  <2>1. first = 0
    BY <1>1, <1>5
  <2>2. \A i \in 1..Len(addrs) : ~ target_ip_allowed(addrs[i], allow)
    BY <1>5
  <2> HIDE DEF first, I
  <2>3. \A ip \in ToSet(addrs) : ~ target_ip_allowed(ip, allow)
    BY <1>3, <2>2
  <2>4. select_allowed_resolved_addr(addrs, allow) =
          IF addrs # <<>> THEN Unresolved(ConnectionNotAllowed) ELSE Unresolved(HostUnreachable)
    BY <2>1 DEF select_allowed_resolved_addr, first
  <2>5. QED BY <2>3, <2>4 DEF Unresolved
<1>6. QED BY <1>4, <1>5

--------------------------------------------------------------------------------
(* The request of the program, as either end reads it.                            *)
Asked == [target |-> program.target, port |-> program.port]

(* What the client has looked at before it goes on with a request.                *)
IsSound ==
    /\ program.sends >= 8 /\ program.command = 1 /\ program.reserved = 0
    /\ Atyp(program.target) \in {1, 3, 4}

Labels == {"methods", "request", "send", "status", "absent", "read", "resolve", "connect",
           "respond", "relay", "done"}

Typed ==
    /\ allow_private_targets \in BOOLEAN
    /\ program \in Programs
    /\ pc \in [Tasks -> Labels]
    /\ request \in [Tasks -> {NoRequest, Asked}]

(* The client has read n fields of the program's and none of the others.          *)
Fields == {Stream(program)[i] : i \in 1..9}
ReadFields(n) ==
    /\ local \in Seq(Fields)
    /\ Len(local) + n = program.sends
    /\ \A i \in 1..Len(local) : local[i] = Stream(program)[i + n]

ClientAsks ==
    /\ pc["client"] = "methods" => ReadFields(0)
    /\ pc["client"] = "request" => ReadFields(2)
    /\ pc["client"] \in {"methods", "request"} => tunnel = <<>>
    /\ pc["client"] = "send" /\ pc["server"] \in {"absent", "read"} => ~ (Len(tunnel) >= 4)
    /\ pc["client"] \in {"send", "status"} => request["client"] = Asked /\ IsSound

(* Until the server has read it, the tunnel holds the request or a part of it.    *)
ServerHears ==
    /\ pc["server"] \in {"absent", "read", "resolve", "connect", "respond"} =>
          back = <<>> /\ pc["client"] # "relay"
    /\ pc["server"] \in {"absent", "read"} => Len(tunnel) \in 0..4
    /\ pc["server"] \in {"absent", "read"} /\ Len(tunnel) >= 4 =>
          /\ tunnel[2] = Atyp(program.target) /\ tunnel[3] = program.port
          /\ tunnel[4] = program.target /\ IsSound
    /\ pc["server"] \in {"absent", "read", "resolve"} => dialled = <<>>
    /\ pc["server"] = "resolve" => request["server"] = Asked /\ IsSound

AskInv == Typed /\ ClientAsks /\ ServerHears /\ ConnectsAsAsked

(* How far one task can be when the other one is where it is: the server reads a  *)
(* request only when the client has sent all of it, and the client is told of     *)
(* success only by a server that goes on to relay.  Either may be done at any     *)
(* time before.                                                                   *)
InStep ==
    /\ pc["client"] \in {"methods", "request", "send", "status", "relay", "done"}
    /\ pc["server"] \in {"absent", "read", "resolve", "connect", "respond", "relay", "done"}
    /\ pc["client"] \in {"methods", "request"} => pc["server"] = "absent"
    /\ pc["client"] = "relay" => pc["server"] = "relay"
    /\ pc["client"] = "send" \/ pc["server"] \in {"absent", "read"} => ~ WasRead
    /\ pc["server"] \in {"resolve", "connect", "relay"} => WasRead
    /\ WasRead /\ pc["client"] \in {"status", "done"} => tunnel = <<>>
    /\ pc["server"] \in {"absent", "read", "resolve"} => lookup = <<>>
    /\ pc["server"] \in {"absent", "read", "resolve", "connect"} => dial = "none"

(* The code of the server's response, on its way, and that of the reply are true. *)
(* A server that is done without having answered has been failed by the tunnel.   *)
Truths == {code \in ReplyCodes : Means(code)}
Response(code) == <<"IRPX 1", code, "reserved">>
Answered ==
    /\ pc["client"] \in {"request", "send", "status"} => method = 0
    /\ pc["client"] \in {"methods", "request", "send", "status"} => reply = Nothing
    /\ pc["server"] = "respond" => status \in Truths
    /\ pc["server"] = "respond" /\ ~ WasRead => status = GeneralFailure
    /\ pc["client"] = "send" /\ pc["server"] = "done" => GeneralFailure \in Truths
    /\ pc["client"] \in {"send", "status"} /\ pc["server"] = "done" =>
          \/ back = <<>> /\ GeneralFailure \in Truths
          \/ \E code \in Truths \ {Succeeded} : back = Response(code)
    /\ pc["server"] = "relay" => Succeeded \in Truths
    /\ pc["server"] \notin {"relay", "done"} => unread = <<Greeting>>
    /\ pc["client"] = "status" /\ pc["server"] = "relay" =>
          \/ back = Response(Succeeded) /\ unread = <<Greeting>>
          \/ back = <<"IRPX 1", Succeeded, "reserved", Greeting>> /\ unread = <<>>
    /\ reply # Nothing => method = 0 /\ reply \in Truths

TruthInv == AskInv /\ InStep /\ Answered

(* The data a program sends early, or that a target begins with, is in one of     *)
(* three places.                                                                  *)
EarlyData == SubSeq(Stream(program), 9, program.sends)
InOnePlace(here, on, there, item) ==
    \/ here = item /\ on = <<>> /\ there = <<>>
    \/ here = <<>> /\ on = item /\ there = <<>>
    \/ here = <<>> /\ on = <<>> /\ there = item

Kept ==
    /\ got \in [Tasks -> {<<>>, <<Early>>, <<Greeting>>}]
    /\ pc["client"] # "relay" => got["client"] = <<>> /\ got["server"] = <<>>
    /\ pc["client"] \in {"send", "status"} =>
          local = EarlyData /\ (local = <<>> \/ local = <<Early>>)
    /\ pc["client"] = "relay" =>
          /\ InOnePlace(got["client"], back, unread, <<Greeting>>)
          /\ InOnePlace(got["server"], tunnel, local, EarlyData)
          /\ EarlyData = <<>> \/ EarlyData = <<Early>>

DataInv == TruthInv /\ Kept

(* A program's stream, field by field.                                            *)
LEMMA StreamFields ==
    /\ Stream(program)[1] = program.version /\ Stream(program)[2] = program.methods
    /\ Stream(program)[3] = program.version /\ Stream(program)[4] = program.command
    /\ Stream(program)[5] = program.reserved /\ Stream(program)[6] = Atyp(program.target)
    /\ Stream(program)[7] = program.target /\ Stream(program)[8] = program.port
  BY DEF Stream

(* What is left of the stream after reading further.                              *)
LEMMA ReadOn ==
    ASSUME NEW n \in Nat, NEW m \in Nat, ReadFields(n), Len(local) >= m,
           program.sends \in Nat, local' = Rest(local, m), program' = program
    PROVE  ReadFields(n + m)'
<1>1. /\ local \in Seq(Fields) /\ Len(local) + n = program.sends /\ Len(local) \in Nat
      /\ \A i \in 1..Len(local) : local[i] = Stream(program)[i + n] /\ local[i] \in Fields
  BY DEF ReadFields
<1> DEFINE l == Len(local)
<1>2. /\ SubSeq(local, m + 1, l) \in Seq(Fields)
      /\ Len(SubSeq(local, m + 1, l)) = IF m + 1 <= l THEN l - (m + 1) + 1 ELSE 0
      /\ \A i \in 1..l - (m + 1) + 1 : SubSeq(local, m + 1, l)[i] = local[m + 1 + i - 1]
  <2> HIDE DEF l
  <2>1. \A i \in m + 1..l : local[i] \in Fields
    BY <1>1 DEF l
  <2>2. m + 1 \in Int /\ l \in Int
    BY <1>1 DEF l
  <2>3. QED BY <2>1, <2>2, SubSeqProperties
<1>3. Fields' = Fields /\ Stream(program)' = Stream(program)
  BY DEF Fields
<1>4. local' \in Seq(Fields) /\ Len(local') = l - m /\ l \in Nat
  BY <1>1, <1>2 DEF Rest
<1>5. \A i \in 1..Len(local') : local'[i] = Stream(program)[i + (n + m)]
  <2> HIDE DEF l
  <2> SUFFICES ASSUME NEW i \in 1..Len(local') PROVE local'[i] = Stream(program)[i + (n + m)]
    OBVIOUS
  <2>1. i \in 1..l - (m + 1) + 1 /\ m + 1 + i - 1 \in 1..l /\ (m + 1 + i - 1) + n = i + (n + m)
    BY <1>4
  <2>2. local'[i] = local[m + 1 + i - 1]
    BY <1>2, <2>1 DEF Rest, l
  <2>3. QED BY <1>1, <2>1, <2>2 DEF l
<1>6. QED BY <1>1, <1>3, <1>4, <1>5 DEF ReadFields

(* What the assumption says of the program at hand.                               *)
LEMMA ProgramFacts ==
    ASSUME Typed
    PROVE  /\ program.sends \in Nat /\ program.sends <= 9
           /\ program.target \in Addresses \cup Domains \cup [family : {"unknown"}]
<1>1. IsProgram(program)
  BY ProgramsAssumption, Zenon DEF Typed
<1>2. program.sends \in 0..9
  BY <1>1, Zenon DEF IsProgram
<1>3. program.target \in Addresses \cup Domains \cup [family : {"unknown"}]
  BY <1>1, Zenon DEF IsProgram
<1>4. QED BY <1>2, <1>3

(* The request is known to the program alone at first.                            *)
LEMMA InitAsk == Init => AskInv
<1> SUFFICES ASSUME Init PROVE AskInv
  OBVIOUS
<1>1. Typed
  <2>1. pc \in [Tasks -> Labels]
    BY DEF Init, Tasks, Labels
  <2>2. request \in [Tasks -> {NoRequest, Asked}]
    BY Zenon DEF Init
  <2>3. QED BY <2>1, <2>2, Zenon DEF Init, Typed
<1>2. ClientAsks
  <2>1. program.sends \in Nat /\ program.sends <= 9
    BY <1>1, ProgramFacts
  <2> DEFINE n == program.sends
             S == Stream(program)
  <2>2. \A i \in 1..n : S[i] \in Fields
    BY <2>1 DEF Fields
  <2>3. /\ SubSeq(S, 1, n) \in Seq(Fields)
        /\ Len(SubSeq(S, 1, n)) = IF 1 <= n THEN n - 1 + 1 ELSE 0
        /\ \A i \in 1..n - 1 + 1 : SubSeq(S, 1, n)[i] = S[1 + i - 1]
    <3> HIDE DEF n, S
    <3>1. 1 \in Int /\ n \in Int
      BY <2>1 DEF n
    <3>2. QED BY <2>2, <3>1, SubSeqProperties
  <2>4. local = SubSeq(S, 1, n)
    BY DEF Init
  <2>5. ReadFields(0)
    <3> HIDE DEF n, S
    <3>1. n \in Nat
      BY <2>1 DEF n
    <3>2. QED BY <2>3, <2>4, <3>1 DEF ReadFields, n, S
  <2>6. QED BY <2>5, Zenon DEF Init, ClientAsks
<1>3. ServerHears /\ ConnectsAsAsked
  <2>1. Len(<<>>) \in 0..4 /\ ~ (Len(<<>>) >= 4)
    OBVIOUS
  <2>2. QED BY <2>1 DEF Init, ServerHears, ConnectsAsAsked
<1>4. QED BY <1>1, <1>2, <1>3 DEF AskInv

(* The next part of a request, which may be the last one.                         *)
LEMMA Sending ==
    ASSUME SendRequest, request["client"] = Asked
    PROVE  \E n \in 1..4 :
              /\ Len(tunnel') = n
              /\ n = 4 => /\ tunnel'[2] = Atyp(program.target) /\ tunnel'[3] = program.port
                          /\ tunnel'[4] = program.target
              /\ \/ n = 4 /\ pc' = [pc EXCEPT !["client"] = "status"] /\ reply' = reply
                 \/ n < 4 /\ pc' = pc /\ reply' = reply
                 \/ /\ n < 4 /\ Len(TunnelRequest(Asked)) # 4
                    /\ pc' = [pc EXCEPT !["client"] = "done"] /\ reply' = GeneralFailure
<1> DEFINE whole == TunnelRequest(Asked)
           all == <<Header, Atyp(program.target), program.port, program.target>>
<1>1. (whole = <<Header>> /\ Len(whole) = 1) \/ (whole = all /\ Len(whole) = 4)
  BY DEF TunnelRequest, Asked
<1>2. PICK n \in 1..Len(whole) :
         /\ tunnel' = SubSeq(whole, 1, n)
         /\ CASE n = 4 -> Goto("client", "status") /\ UNCHANGED reply
              [] n < 4 /\ n < Len(whole) -> UNCHANGED <<pc, reply>>
              [] OTHER -> Replies(GeneralFailure)
  BY DEF SendRequest
<1> HIDE DEF whole
<1>3. n \in 1..4 /\ (n = 4 => whole = all) /\ (n < 4 /\ ~ (n < Len(whole)) => Len(whole) # 4)
  <2> HIDE DEF all
  <2>1. CASE Len(whole) = 1
    BY <2>1
  <2>2. CASE whole = all /\ Len(whole) = 4
    BY <2>2
  <2>3. QED BY <1>1, <2>1, <2>2
<1>4. Len(tunnel') = n
  BY <1>1, <1>2, <1>3
<1>5. n = 4 => tunnel' = SubSeq(all, 1, 4)
  BY <1>2, <1>3
<1>6. /\ SubSeq(all, 1, 4)[2] = all[2] /\ SubSeq(all, 1, 4)[3] = all[3]
      /\ SubSeq(all, 1, 4)[4] = all[4]
  OBVIOUS
<1>7. n = 4 => /\ tunnel'[2] = Atyp(program.target) /\ tunnel'[3] = program.port
               /\ tunnel'[4] = program.target
  BY <1>5, <1>6
<1>8. \/ n = 4 /\ pc' = [pc EXCEPT !["client"] = "status"] /\ reply' = reply
      \/ n < 4 /\ pc' = pc /\ reply' = reply
      \/ /\ n < 4 /\ Len(whole) # 4
         /\ pc' = [pc EXCEPT !["client"] = "done"] /\ reply' = GeneralFailure
  BY <1>2, <1>3 DEF Goto, Replies
<1>9. QED BY <1>3, <1>4, <1>7, <1>8 DEF whole

(* The client passes on the request of the program, if it is sound.               *)
LEMMA ClientKeepsAsking == AskInv /\ ClientStep => AskInv'
<1> SUFFICES ASSUME AskInv, ClientStep PROVE AskInv'
  OBVIOUS
<1>i. Typed /\ ClientAsks /\ ServerHears /\ ConnectsAsAsked
  BY DEF AskInv
<1>g. /\ UNCHANGED <<allow_private_targets, program, lookup, dialled>>
      /\ request'["server"] = request["server"]
      /\ pc'["server"] = pc["server"]
      /\ pc'["client"] \in {"request", "send", "status", "relay", "done"}
      /\ pc' \in [Tasks -> Labels]
  BY <1>i DEF Typed, Tasks, Labels, ClientStep, Negotiate, ReadConnect, SendRequest, SendFails,
       SendTimesOut, ReadStatus, NoStatus, RelayClient, given, network, data, Goto, Reads, Replies
<1>c. ConnectsAsAsked'
  BY <1>i, <1>g DEF ConnectsAsAsked, Named
<1>s. IsSound' = IsSound /\ Asked' = Asked
  BY <1>g DEF IsSound, Asked
<1>p. program.sends \in Nat
  BY <1>i, ProgramFacts
<1>1. CASE Negotiate
  <2>1. /\ pc["client"] = "methods" /\ request' = request /\ tunnel' = tunnel /\ back' = back
        /\ pc'["client"] \in {"request", "done"}
        /\ pc'["client"] = "request" => local' = Rest(local, 2) /\ Len(local) >= 2
    BY <1>1, <1>i DEF Negotiate, Goto, Typed, Tasks
  <2>2. pc'["client"] = "request" => ReadFields(2)'
    <3> SUFFICES ASSUME pc'["client"] = "request" PROVE ReadFields(2)'
      OBVIOUS
    <3>1. ReadFields(0 + 2)'
      <4>1. ReadFields(0) /\ 0 \in Nat /\ 2 \in Nat
        BY <1>i, <2>1 DEF ClientAsks
      <4>2. QED BY <1>p, <1>g, <2>1, <4>1, ReadOn
    <3>2. QED BY <3>1
  <2>3. ClientAsks'
    BY <1>i, <2>1, <2>2 DEF ClientAsks
  <2>4. ServerHears'
    BY <1>i, <1>g, <1>s, <2>1 DEF ServerHears, ClientAsks
  <2>5. QED BY <1>i, <1>g, <1>s, <1>c, <2>1, <2>3, <2>4 DEF AskInv, Typed
<1>2. CASE ReadConnect
  <2>1. /\ pc["client"] = "request" /\ tunnel' = tunnel /\ back' = back
        /\ \/ pc'["client"] = "done" /\ request' = request
           \/ /\ ConnectFaults = {} /\ Len(local) >= 6 /\ pc'["client"] = "send"
              /\ request' = [request EXCEPT !["client"] = [target |-> local[5], port |-> local[6]]]
    BY <1>2, <1>i DEF ReadConnect, Goto, Reads, Typed, Tasks
  <2>2. ASSUME ConnectFaults = {}, Len(local) >= 6
        PROVE  [target |-> local[5], port |-> local[6]] = Asked /\ IsSound
    <3>1. /\ local \in Seq(Fields) /\ Len(local) + 2 = program.sends /\ Len(local) \in Nat
          /\ \A i \in 1..Len(local) : local[i] = Stream(program)[i + 2]
      BY <1>i, <2>1 DEF ClientAsks, ReadFields
    <3>2. /\ local[2] = Stream(program)[4] /\ local[3] = Stream(program)[5]
          /\ local[4] = Stream(program)[6] /\ local[5] = Stream(program)[7]
          /\ local[6] = Stream(program)[8]
      BY <3>1, <2>2
    <3>3. /\ local[2] = program.command /\ local[3] = program.reserved
          /\ local[4] = Atyp(program.target) /\ local[5] = program.target
          /\ local[6] = program.port
      BY <3>2, StreamFields
    <3>4. \A i \in 2..4 : ~ FieldIsWrong(i)
      <4>1. DOMAIN local = 1..Len(local)
        BY <3>1
      <4>2. QED BY <2>2, <3>1, <4>1 DEF ConnectFaults
    <3>5. /\ FieldIsWrong(2) <=> local[2] # 1
          /\ FieldIsWrong(3) <=> local[3] # 0
          /\ FieldIsWrong(4) <=> local[4] \notin {1, 3, 4}
      BY DEF FieldIsWrong
    <3>6. program.sends >= 8
      BY <1>p, <2>2, <3>1
    <3>7. QED BY <3>3, <3>4, <3>5, <3>6 DEF IsSound, Asked
  <2>3. /\ request' \in [Tasks -> {NoRequest, Asked}] /\ request'["server"] = request["server"]
        /\ pc'["client"] = "send" => request'["client"] = Asked /\ IsSound
    BY <1>i, <2>1, <2>2 DEF Typed, Tasks
  <2>4. ClientAsks'
    <3>1. tunnel = <<>> /\ ~ (Len(<<>>) >= 4)
      BY <1>i, <2>1 DEF ClientAsks
    <3>2. QED BY <1>i, <1>s, <2>1, <2>3, <3>1 DEF ClientAsks
  <2>5. ServerHears'
    BY <1>i, <1>g, <1>s, <2>1, <2>3 DEF ServerHears, ClientAsks
  <2>6. QED BY <1>i, <1>g, <1>s, <1>c, <2>3, <2>4, <2>5 DEF AskInv, Typed
<1>3. CASE SendRequest
  <2>1. /\ pc["client"] = "send" /\ request' = request /\ back' = back
        /\ pc'["client"] \in {"send", "status", "done"}
    BY <1>3, <1>i DEF SendRequest, Goto, Replies, Typed, Tasks
  <2>2. request["client"] = Asked /\ IsSound
    BY <1>i, <2>1 DEF ClientAsks
  <2>3. PICK n \in 1..4 :
           /\ Len(tunnel') = n
           /\ n = 4 => /\ tunnel'[2] = Atyp(program.target) /\ tunnel'[3] = program.port
                       /\ tunnel'[4] = program.target
           /\ n = 4 => pc' = [pc EXCEPT !["client"] = "status"]
    BY <1>3, <2>2, Sending
  <2>4. pc'["client"] = "send" => ~ (Len(tunnel') >= 4)
    <3>1. n = 4 => pc'["client"] = "status"
      BY <1>i, <2>3 DEF Typed, Tasks
    <3>2. QED BY <2>3, <3>1
  <2>5. ClientAsks'
    BY <1>s, <2>1, <2>2, <2>4 DEF ClientAsks
  <2>6. /\ Len(tunnel') \in 0..4
        /\ Len(tunnel') >= 4 => /\ tunnel'[2] = Atyp(program.target) /\ tunnel'[3] = program.port
                                /\ tunnel'[4] = program.target
    BY <2>3
  <2>7. ServerHears'
    BY <1>i, <1>g, <1>s, <2>1, <2>2, <2>6 DEF ServerHears
  <2>8. QED BY <1>i, <1>g, <1>s, <1>c, <2>1, <2>5, <2>7 DEF AskInv, Typed
<1>4. CASE SendFails \/ SendTimesOut \/ NoStatus
  <2>1. /\ pc["client"] \in {"send", "status"} /\ pc'["client"] = "done"
        /\ UNCHANGED <<request, tunnel, back>>
    BY <1>4, <1>i DEF SendFails, SendTimesOut, NoStatus, Goto, Replies, Typed, Tasks
  <2>2. ClientAsks'
    BY <2>1 DEF ClientAsks
  <2>3. ServerHears'
    BY <1>i, <1>g, <1>s, <2>1 DEF ServerHears
  <2>4. QED BY <1>i, <1>g, <1>s, <1>c, <2>1, <2>2, <2>3 DEF AskInv, Typed
<1>5. CASE ReadStatus
  <2>1. /\ pc["client"] = "status" /\ request' = request /\ tunnel' = tunnel
        /\ pc'["client"] \in {"relay", "done"} /\ back # <<>>
    <3>1. Len(back) >= ResponseFields => back # <<>>
      BY DEF ResponseFields
    <3>2. QED BY <1>5, <1>i, <3>1 DEF ReadStatus, Goto, Typed, Tasks
  <2>2. pc["server"] \notin {"absent", "read", "resolve", "connect", "respond"}
    BY <1>i, <2>1 DEF ServerHears
  <2>3. ClientAsks'
    BY <2>1 DEF ClientAsks
  <2>4. ServerHears'
    BY <1>g, <2>2 DEF ServerHears
  <2>5. QED BY <1>i, <1>g, <1>s, <1>c, <2>1, <2>3, <2>4 DEF AskInv, Typed
<1>6. CASE RelayClient
  <2>1. pc["client"] = "relay" /\ pc' = pc /\ request' = request
    BY <1>6 DEF RelayClient
  <2>2. pc["server"] \notin {"absent", "read", "resolve", "connect", "respond"}
    BY <1>i, <2>1 DEF ServerHears
  <2>3. ClientAsks'
    BY <2>1 DEF ClientAsks
  <2>4. ServerHears'
    BY <1>g, <2>2 DEF ServerHears
  <2>5. QED BY <1>i, <1>g, <1>s, <1>c, <2>1, <2>3, <2>4 DEF AskInv, Typed
<1>7. QED BY <1>1, <1>2, <1>3, <1>4, <1>5, <1>6 DEF ClientStep

(* What a sound request asks for is a name or an address.                         *)
LEMMA TargetIsSound ==
    ASSUME Typed, IsSound
    PROVE  program.target.family = "domain" \/ program.target \in Addresses
<1>1. program.target \in Addresses \cup Domains \cup [family : {"unknown"}]
  BY ProgramFacts
<1>2. ASSUME program.target \in Domains PROVE program.target.family = "domain"
  BY <1>2 DEF Domains
<1>3. ASSUME program.target \in [family : {"unknown"}] PROVE FALSE
  <2>1. program.target.family = "unknown"
    BY <1>3
  <2>2. Atyp(program.target) = 2
    BY <2>1 DEF Atyp
  <2>3. QED BY <2>2 DEF IsSound
<1>4. QED BY <1>1, <1>2, <1>3, Zenon

(* The server connects to the target of the request it has read.                  *)
LEMMA ServerDoesAsAsked == AskInv /\ ServerStep => AskInv'
<1> SUFFICES ASSUME AskInv, ServerStep PROVE AskInv'
  OBVIOUS
<1>i. Typed /\ ClientAsks /\ ServerHears /\ ConnectsAsAsked
  BY DEF AskInv
<1>g. /\ UNCHANGED <<allow_private_targets, program, local>>
      /\ request'["client"] = request["client"]
      /\ pc'["client"] = pc["client"]
  BY <1>i DEF Typed, Tasks, ServerStep, AcceptStream, ReadRequest, ResolveIp, ResolveDomain,
       ConnectTarget, WriteResponse, RelayServer, Dials, Responds, given, network, data, Goto, Reads
<1>h. pc' \in [Tasks -> Labels]
  BY <1>i DEF Typed, Tasks, Labels, ServerStep, AcceptStream, ReadRequest, ResolveIp,
       ResolveDomain, ConnectTarget, WriteResponse, RelayServer, Dials, Responds, given, network,
       data, Goto, Reads
<1>s. IsSound' = IsSound /\ Asked' = Asked /\ ReadFields(0)' = ReadFields(0)
      /\ ReadFields(2)' = ReadFields(2)
  BY <1>g DEF IsSound, Asked, ReadFields, Fields
<1>1. CASE ReadRequest
  <2>1. /\ pc["server"] = "read" /\ UNCHANGED <<back, lookup, dialled>>
        /\ \/ /\ Len(tunnel) >= 4 /\ pc'["server"] = "resolve"
              /\ request' = [request EXCEPT
                               !["server"] = [target |-> tunnel[4], port |-> tunnel[3]]]
           \/ pc'["server"] = "done" /\ UNCHANGED <<request, tunnel>>
    BY <1>1, <1>i DEF ReadRequest, IsReadable, Goto, Reads, Typed, Tasks, network
  <2>2. dialled' = <<>>
    BY <1>i, <2>1 DEF ServerHears
  <2>3. Len(tunnel) >= 4 => [target |-> tunnel[4], port |-> tunnel[3]] = Asked /\ IsSound
    BY <1>i, <2>1 DEF ServerHears, Asked
  <2>4. /\ request' \in [Tasks -> {NoRequest, Asked}]
        /\ pc'["server"] = "resolve" => request'["server"] = Asked /\ IsSound
    BY <1>i, <2>1, <2>3 DEF Typed, Tasks
  <2>5. tunnel = <<>> => tunnel' = tunnel
    <3>1. Len(<<>>) = 0
      OBVIOUS
    <3>2. QED BY <2>1, <3>1
  <2>6. ClientAsks'
    BY <1>i, <1>g, <1>s, <2>1, <2>5 DEF ClientAsks
  <2>7. ServerHears'
    BY <1>i, <1>g, <1>s, <2>1, <2>2, <2>4 DEF ServerHears
  <2>8. ConnectsAsAsked'
    BY <2>2 DEF ConnectsAsAsked
  <2>9. QED BY <1>i, <1>g, <1>h, <1>s, <2>4, <2>6, <2>7, <2>8 DEF AskInv, Typed
<1>2. ASSUME UNCHANGED <<request, tunnel>>, pc'["server"] \notin {"absent", "read", "resolve"},
             pc'["server"] \in {"connect", "respond"} => back' = <<>> /\ pc["client"] # "relay",
             ConnectsAsAsked'
      PROVE  AskInv'
  <2>1. ClientAsks'
    BY <1>i, <1>g, <1>s, <1>2 DEF ClientAsks
  <2>2. ServerHears'
    BY <1>g, <1>2 DEF ServerHears
  <2>3. QED BY <1>i, <1>g, <1>h, <1>s, <1>2, <2>1, <2>2 DEF AskInv, Typed
<1>3. CASE ResolveIp \/ ResolveDomain
  <2>1. /\ pc["server"] = "resolve" /\ UNCHANGED <<request, tunnel, back>>
        /\ pc'["server"] \in {"connect", "respond"}
    BY <1>3, <1>i DEF ResolveIp, ResolveDomain, Dials, Responds, Goto, Typed, Tasks
  <2>2. /\ dialled = <<>> /\ back = <<>> /\ pc["client"] # "relay"
        /\ request["server"] = Asked /\ IsSound
    BY <1>i, <2>1 DEF ServerHears
  <2>3. request["server"].target = program.target
    BY <2>2 DEF Asked
  <2>4. ASSUME dialled' # <<>>
        PROVE  /\ dialled'[1] \in Addresses /\ dialled'[1] \in Named(program.target)'
               /\ target_ip_allowed(dialled'[1], allow_private_targets)
    <3>1. CASE ResolveIp
      <4> DEFINE ip == program.target
      <4>1. ip.family # "domain"
        BY <2>3, <3>1 DEF ResolveIp
      <4>2. ip \in Addresses
        BY <1>i, <2>2, <4>1, TargetIsSound, Zenon
      <4>3. target_ip_allowed(ip, allow_private_targets) /\ dialled' = <<ip>>
        BY <2>2, <2>3, <2>4, <3>1 DEF ResolveIp, Dials, Resolved, Unresolved, Responds
      <4>4. Named(ip)' = {ip}
        BY <1>g, <4>1 DEF Named
      <4>5. QED BY <4>2, <4>3, <4>4
    <3>2. CASE ResolveDomain
      <4>1. program.target.family = "domain"
        BY <2>3, <3>2 DEF ResolveDomain
      <4>2. PICK addrs \in Answers :
               /\ lookup' = addrs
               /\ Dials(select_allowed_resolved_addr(addrs, allow_private_targets))
        BY <2>2, <2>4, <3>2 DEF ResolveDomain, Dials, Unresolved, Responds
      <4>3. addrs \in Seq(Addresses)
        BY ProgramsAssumption, Zenon
      <4> DEFINE o == select_allowed_resolved_addr(addrs, allow_private_targets)
      <4>4. o.addrs # <<>> /\ dialled' = o.addrs
        BY <2>2, <2>4, <4>2 DEF Dials, Responds
      <4>5. o.addrs[1] \in ToSet(addrs) /\ target_ip_allowed(o.addrs[1], allow_private_targets)
        BY <1>i, <4>3, <4>4, SelectsAllowed, Zenon DEF Typed
      <4>6. Named(program.target)' = ToSet(addrs)
        BY <1>g, <4>1, <4>2 DEF Named
      <4>7. \A ip \in ToSet(addrs) : ip \in Addresses
        BY <4>3 DEF ToSet
      <4> HIDE DEF o
      <4>8. QED BY <4>4, <4>5, <4>6, <4>7
    <3>3. QED BY <1>3, <3>1, <3>2
  <2>5. ConnectsAsAsked'
    <3> SUFFICES ASSUME dialled' # <<>> PROVE ConnectsAsAsked'
      BY DEF ConnectsAsAsked
    <3>1. allow_private_targets \/ ~ NonPublic(dialled'[1])
      BY <2>4, PublicMeansPublic, Zenon DEF target_ip_allowed
    <3>2. request'["server"] = [target |-> program.target, port |-> program.port]
      BY <2>1, <2>2 DEF Asked
    <3>3. dialled'[1] \in Named(program.target)'
      BY <2>4
    <3>4. QED BY <1>g, <2>2, <3>1, <3>2, <3>3 DEF ConnectsAsAsked, IsSound
  <2>6. QED BY <1>2, <2>1, <2>2, <2>5
<1>4. CASE ConnectTarget \/ WriteResponse
  <2>1. /\ pc["server"] \in {"connect", "respond"}
        /\ UNCHANGED <<request, tunnel, lookup, dialled>>
        /\ pc'["server"] \in {"respond", "relay", "done"}
        /\ pc'["server"] = "respond" => back' = back
    BY <1>4, <1>i DEF ConnectTarget, WriteResponse, Responds, Goto, Typed, Tasks, network
  <2>2. ConnectsAsAsked'
    BY <1>i, <1>g, <2>1 DEF ConnectsAsAsked, Named
  <2>3. QED BY <1>2, <1>i, <2>1, <2>2 DEF ServerHears
<1>5. CASE RelayServer
  <2>1. pc["server"] = "relay" /\ UNCHANGED <<pc, request, lookup, dialled>>
        /\ (tunnel = <<>> => tunnel' = tunnel)
    BY <1>5 DEF RelayServer, network
  <2>2. ConnectsAsAsked'
    BY <1>i, <1>g, <2>1 DEF ConnectsAsAsked, Named
  <2>3. ClientAsks'
    BY <1>i, <1>g, <1>s, <2>1 DEF ClientAsks
  <2>4. ServerHears'
    BY <2>1 DEF ServerHears
  <2>5. QED BY <1>i, <1>g, <1>h, <1>s, <2>1, <2>2, <2>3, <2>4 DEF AskInv, Typed
<1>6. CASE AcceptStream
  <2>1. /\ pc["server"] = "absent" /\ pc'["server"] \in {"read", "respond"}
        /\ UNCHANGED <<request, tunnel, lookup, dialled, back>>
    BY <1>6, <1>i DEF AcceptStream, Responds, Goto, Typed, Tasks, network
  <2>2. ConnectsAsAsked'
    BY <1>i, <1>g, <2>1 DEF ConnectsAsAsked, Named
  <2>3. ClientAsks'
    BY <1>i, <1>g, <1>s, <2>1 DEF ClientAsks
  <2>4. ServerHears'
    BY <1>i, <1>g, <1>s, <2>1 DEF ServerHears
  <2>5. QED BY <1>i, <1>g, <1>h, <1>s, <2>1, <2>2, <2>3, <2>4 DEF AskInv, Typed
<1>7. QED BY <1>1, <1>3, <1>4, <1>5, <1>6 DEF ServerStep

(* No step of either task, and no accident, changes what is asked.                *)
LEMMA NextAsk == AskInv /\ [Next]_vars => AskInv'
<1>1. ASSUME AskInv, UNCHANGED <<allow_private_targets, program, pc, local, request, tunnel>>,
             UNCHANGED <<lookup, dialled, back>>
      PROVE  AskInv'
  <2>1. /\ Asked' = Asked /\ IsSound' = IsSound /\ ReadFields(0)' = ReadFields(0)
        /\ ReadFields(2)' = ReadFields(2) /\ Named(program.target)' = Named(program.target)
    BY <1>1 DEF Asked, IsSound, ReadFields, Fields, Named
  <2>2. QED BY <1>1, <2>1 DEF AskInv, Typed, ClientAsks, ServerHears, ConnectsAsAsked
<1>2. AskInv /\ UNCHANGED vars => AskInv'
  BY <1>1 DEF vars, given, network
<1>3. AskInv /\ ConnectionLost => AskInv'
  BY <1>1 DEF ConnectionLost, given, network
<1>4. QED BY <1>2, <1>3, ClientKeepsAsking, ServerDoesAsAsked DEF Next

(* The server connects, if at all, to what the program has asked for, and to      *)
(* nothing private unless it may: whatever a program sends, wherever it stops,    *)
(* whatever a lookup returns.                                                     *)
THEOREM OnlyWhatIsAsked == Spec => []ConnectsAsAsked
<1>1. AskInv => ConnectsAsAsked
  BY DEF AskInv
<1>2. QED BY InitAsk, NextAsk, <1>1, PTL DEF Spec

--------------------------------------------------------------------------------
(* Either task waits for the other where it should.                               *)
LEMMA NextInStep == AskInv /\ InStep /\ Answered /\ Next => InStep'
<1> SUFFICES ASSUME AskInv, InStep, Answered, Next PROVE InStep'
  OBVIOUS
<1>i. Typed /\ ClientAsks /\ ServerHears
  BY DEF AskInv
<1>p. pc["client"] \in Labels /\ pc["server"] \in Labels /\ Len(<<>>) = 0 /\ ~ (Len(<<>>) >= 4)
  BY <1>i DEF Typed, Tasks
<1>1. CASE Negotiate \/ ReadConnect
  <2>1. /\ pc["client"] \in {"methods", "request"} /\ UNCHANGED <<tunnel, network>>
        /\ pc'["server"] = pc["server"] /\ request'["server"] = request["server"]
        /\ pc'["client"] \in {"request", "send", "done"}
    BY <1>1, <1>i DEF Negotiate, ReadConnect, Goto, Reads, Typed, Tasks
  <2>2. pc["server"] = "absent" /\ ~ WasRead
    BY <2>1 DEF InStep
  <2>3. QED BY <2>1, <2>2 DEF InStep, WasRead, network
<1>2. CASE SendRequest \/ SendFails \/ SendTimesOut
  <2>1. /\ pc["client"] = "send" /\ UNCHANGED <<request, network>>
        /\ pc'["server"] = pc["server"] /\ pc'["client"] \in {"send", "status", "done"}
    BY <1>2, <1>i DEF SendRequest, SendFails, SendTimesOut, Goto, Replies, Typed, Tasks
  <2>2. ~ WasRead
    BY <2>1 DEF InStep
  <2>3. QED BY <2>1, <2>2 DEF InStep, WasRead, network
<1>3. CASE ReadStatus
  <2>1. /\ pc["client"] = "status" /\ UNCHANGED <<tunnel, request, network>>
        /\ pc'["server"] = pc["server"]
        /\ pc'["client"] \in {"relay", "done"}
        /\ back # <<>> /\ (pc'["client"] = "relay" => back[2] = Succeeded)
    <3>1. Len(back) >= ResponseFields => back # <<>>
      BY DEF ResponseFields
    <3>2. QED BY <1>3, <1>i, <3>1 DEF ReadStatus, Goto, Typed, Tasks, GeneralFailure, Succeeded
  <2>2. ASSUME pc'["client"] = "relay" PROVE pc["server"] # "done"
    <3> SUFFICES ASSUME pc["server"] = "done" PROVE FALSE
      OBVIOUS
    <3>1. PICK code \in Truths \ {Succeeded} : back = Response(code)
      BY <2>1 DEF Answered
    <3>2. back[2] # Succeeded
      BY <3>1 DEF Response
    <3>3. QED BY <2>1, <2>2, <3>2
  <2>3. pc["server"] \in {"relay", "done"}
    <3>1. pc["server"] \in {"absent", "read", "resolve", "connect", "respond"} => back = <<>>
      BY <1>i, Zenon DEF ServerHears
    <3>2. QED BY <2>1, <3>1 DEF InStep
  <2>4. QED BY <2>1, <2>2, <2>3 DEF InStep, WasRead, network
<1>4. CASE NoStatus
  <2>1. /\ pc["client"] = "status" /\ UNCHANGED <<tunnel, request, network>>
        /\ pc'["server"] = pc["server"] /\ pc'["client"] = "done"
    BY <1>4, <1>i DEF NoStatus, Goto, Replies, Typed, Tasks
  <2>2. QED BY <2>1 DEF InStep, WasRead, network
<1>5. CASE RelayClient
  <2>1. pc["client"] = "relay" /\ UNCHANGED <<pc, request, network>>
    BY <1>5 DEF RelayClient
  <2>2. QED BY <2>1 DEF InStep, WasRead, network
<1>6. CASE AcceptStream
  <2>1. /\ pc["server"] = "absent" /\ tunnel # <<>> /\ UNCHANGED <<request, tunnel, network>>
        /\ pc'["client"] = pc["client"] /\ pc'["server"] \in {"read", "respond"}
    BY <1>6, <1>i DEF AcceptStream, Responds, Goto, Typed, Tasks
  <2>2. pc["client"] \notin {"methods", "request", "relay"}
    BY <1>i, <2>1 DEF ClientAsks, InStep
  <2>3. QED BY <2>1, <2>2 DEF InStep, WasRead, network
<1>7. CASE ReadRequest
  <2>1. /\ pc["server"] = "read" /\ UNCHANGED network /\ pc'["client"] = pc["client"]
        /\ \/ /\ IsReadable /\ pc'["server"] = "resolve" /\ tunnel' = Rest(tunnel, 4)
              /\ request'["server"] = [target |-> tunnel[4], port |-> tunnel[3]]
           \/ pc'["server"] = "done" /\ UNCHANGED <<request, tunnel>>
    BY <1>7, <1>i DEF ReadRequest, Reads, Goto, Typed, Tasks
  <2>2. ASSUME IsReadable, tunnel' = Rest(tunnel, 4),
               request'["server"] = [target |-> tunnel[4], port |-> tunnel[3]]
        PROVE  pc["client"] \in {"status", "done"} /\ tunnel' = <<>> /\ WasRead'
    <3>1. Len(tunnel) >= 4 /\ tunnel[2] \in {1, 3, 4}
      BY <2>2 DEF IsReadable
    <3>2. pc["client"] \notin {"methods", "request", "send", "relay"}
      BY <1>i, <1>p, <2>1, <3>1 DEF ClientAsks, InStep
    <3>3. Len(tunnel) = 4 /\ tunnel[2] = Atyp(tunnel[4])
      BY <1>i, <2>1, <3>1 DEF ServerHears
    <3>4. tunnel' = SubSeq(tunnel, 5, 4)
      BY <2>2, <3>3 DEF Rest
    <3>5. tunnel[4].family # "none"
      BY <3>1, <3>3 DEF Atyp
    <3>6. request'["server"] # NoRequest
      <4>1. request'["server"].target.family # NoRequest.target.family
        BY <2>2, <3>5 DEF NoRequest
      <4>2. QED BY <4>1
    <3>7. QED BY <3>2, <3>4, <3>6, SubSeqEmpty DEF InStep, WasRead, NoRequest
  <2>3. CASE pc'["server"] = "resolve"
    BY <2>1, <2>2, <2>3 DEF InStep, network
  <2>4. CASE pc'["server"] = "done" /\ UNCHANGED <<request, tunnel>>
    <3>1. pc["client"] \notin {"methods", "request", "relay"}
      BY <2>1 DEF InStep
    <3>2. QED BY <2>1, <2>4, <3>1 DEF InStep, WasRead, network
  <2>5. QED BY <2>1, <2>3, <2>4
<1>8. CASE ResolveIp \/ ResolveDomain
  <2>1. /\ pc["server"] = "resolve" /\ UNCHANGED <<request, tunnel, dial>>
        /\ pc'["client"] = pc["client"] /\ pc'["server"] \in {"connect", "respond"}
    BY <1>8, <1>i DEF ResolveIp, ResolveDomain, Dials, Responds, Goto, Typed, Tasks
  <2>2. QED BY <2>1 DEF InStep, WasRead
<1>9. CASE ConnectTarget
  <2>1. /\ pc["server"] = "connect" /\ UNCHANGED <<request, tunnel>>
        /\ pc'["client"] = pc["client"] /\ pc'["server"] = "respond"
    BY <1>9, <1>i DEF ConnectTarget, Responds, Goto, Typed, Tasks
  <2>2. QED BY <2>1 DEF InStep, WasRead
<1>10. CASE WriteResponse
  <2>1. /\ pc["server"] = "respond" /\ UNCHANGED <<request, tunnel>>
        /\ pc'["client"] = pc["client"] /\ pc'["server"] \in {"relay", "done"}
        /\ pc'["server"] = "relay" => status = Succeeded
    BY <1>10, <1>i DEF WriteResponse, Goto, Typed, Tasks
  <2>2. status = Succeeded => WasRead
    BY <2>1 DEF Answered, Succeeded, GeneralFailure
  <2>3. pc["client"] # "relay"
    BY <2>1 DEF InStep
  <2>4. WasRead' = WasRead
    BY <2>1 DEF WasRead
  <2>5. QED BY <2>1, <2>2, <2>3, <2>4 DEF InStep
<1>11. CASE RelayServer
  <2>1. /\ pc["server"] = "relay" /\ UNCHANGED <<pc, request, network>>
        /\ tunnel = <<>> => tunnel' = tunnel
    BY <1>11 DEF RelayServer
  <2>2. WasRead' = WasRead
    BY <2>1 DEF WasRead
  <2>3. QED BY <2>1, <2>2 DEF InStep, network
<1>12. CASE ConnectionLost
  <2>1. UNCHANGED <<pc, request, tunnel, network>>
    BY <1>12 DEF ConnectionLost
  <2>2. QED BY <2>1 DEF InStep, WasRead, network
<1>13. QED BY <1>1, <1>2, <1>3, <1>4, <1>5, <1>6, <1>7, <1>8, <1>9, <1>10, <1>11, <1>12
           DEF Next, ClientStep, ServerStep

(* Queues of one field.                                                           *)
LEMMA OneField ==
    ASSUME NEW x
    PROVE  /\ Tail(<<x>>) = <<>> /\ Head(<<x>>) = x /\ Append(<<>>, x) = <<x>>
           /\ <<x>> # <<>>
OBVIOUS

(* One more field after three ...                                                 *)
LEMMA FourthField ==
    ASSUME NEW a, NEW b, NEW c, NEW d
    PROVE  Append(<<a, b, c>>, d) = <<a, b, c, d>>
<1> DEFINE S == {a, b, c, d}
           s == Append(<<a, b, c>>, d)
           t == <<a, b, c, d>>
<1>1. s \in Seq(S) /\ t \in Seq(S)
  OBVIOUS
<1>2. Len(s) = 4 /\ Len(t) = 4
  OBVIOUS
<1>3. s[1] = t[1] /\ s[2] = t[2] /\ s[3] = t[3] /\ s[4] = t[4]
  OBVIOUS
<1> HIDE DEF s, t, S
<1>4. \A i \in 1..4 : s[i] = t[i]
  BY <1>3
<1>5. s = t
  BY <1>1, <1>2, <1>4, SeqEqual
<1>6. QED BY <1>5 DEF s, t

(* ... is what is left when they are read.                                        *)
LEMMA AfterThree ==
    ASSUME NEW a, NEW b, NEW c, NEW d
    PROVE  Rest(<<a, b, c>>, 3) = <<>> /\ Rest(<<a, b, c, d>>, 3) = <<d>>
<1>1. Rest(<<a, b, c>>, 3) = <<>>
  <2>1. Rest(<<a, b, c>>, 3) = SubSeq(<<a, b, c>>, 4, 3)
    BY DEF Rest
  <2>2. QED BY <2>1
<1>2. Rest(<<a, b, c, d>>, 3) = <<d>>
  <2> DEFINE S == {a, b, c, d}
             s == SubSeq(<<a, b, c, d>>, 4, 4)
             t == <<d>>
  <2>1. s \in Seq(S) /\ t \in Seq(S)
    OBVIOUS
  <2>2. Len(s) = 1 /\ Len(t) = 1
    OBVIOUS
  <2>3. s[1] = t[1]
    OBVIOUS
  <2>4. Rest(<<a, b, c, d>>, 3) = s
    BY DEF Rest
  <2> HIDE DEF s, t, S
  <2>5. \A i \in 1..1 : s[i] = t[i]
    BY <2>3
  <2>6. s = t
    BY <2>1, <2>2, <2>5, SeqEqual
  <2>7. QED BY <2>4, <2>6 DEF t
<1>3. QED BY <1>1, <1>2

(* When a code is true.                                                           *)
Causes ==
    /\ dial = "accepted" => Succeeded \in Truths
    /\ RequestIsFaulty \/ dial = "Other" \/ mishaps \ {"client_timeout"} # {}
       => GeneralFailure \in Truths
    /\ /\ ~ allow_private_targets /\ WasRead /\ Named(program.target) # {}
       /\ \A ip \in Named(program.target) : NonPublic(ip)
       => ConnectionNotAllowed \in Truths
    /\ dial = "NetworkUnreachable" => NetworkUnreachable \in Truths
    /\ LookupFailed \/ dial \in {"NotFound", "AddrNotAvailable"} => HostUnreachable \in Truths
    /\ dial = "ConnectionRefused" => ConnectionRefused \in Truths
    /\ "client_timeout" \in mishaps \/ LookupFailed \/ dial \in {"silent", "TimedOut"}
       => TtlExpired \in Truths
    /\ program.command # 1 => CommandNotSupported \in Truths
    /\ program.command = 1 /\ Atyp(program.target) = 2 => AddressTypeNotSupported \in Truths

(* A code is true as soon as there is one, before a step and after it.            *)
LEMMA TruthsHaveCauses == Causes /\ Causes'
<1> USE DEF Succeeded, GeneralFailure, ConnectionNotAllowed, NetworkUnreachable, HostUnreachable,
    ConnectionRefused, TtlExpired, CommandNotSupported, AddressTypeNotSupported, ReplyCodes
<1>1. Causes
  BY DEF Causes, Truths, Means
<1>2. Causes'
  BY DEF Causes, Truths, Means
<1>3. QED BY <1>1, <1>2

(* What has been true of a request stays so.                                      *)
LEMMA TruthsGrow ==
    ASSUME UNCHANGED <<allow_private_targets, program>>,
           mishaps \subseteq mishaps', dial \in {"none", dial'}, lookup \in {<<>>, lookup'},
           WasRead => WasRead', LookupFailed => LookupFailed'
    PROVE  Truths \subseteq Truths'
<1> SUFFICES ASSUME NEW code \in ReplyCodes, Means(code) PROVE Means(code)'
  BY DEF Truths
<1>1. RequestIsFaulty' = RequestIsFaulty
  BY DEF RequestIsFaulty
<1>2. Named(program.target) # {} => Named(program.target)' = Named(program.target)
  <2>1. ToSet(<<>>) = {}
    BY DEF ToSet
  <2>2. QED BY <2>1 DEF Named
<1>3. mishaps \ {"client_timeout"} # {} => (mishaps \ {"client_timeout"} # {})'
  OBVIOUS
<1> USE DEF Succeeded, GeneralFailure, ConnectionNotAllowed, NetworkUnreachable, HostUnreachable,
    ConnectionRefused, TtlExpired, CommandNotSupported, AddressTypeNotSupported
<1>4. CASE code = ConnectionNotAllowed
  <2>1. /\ ~ allow_private_targets /\ WasRead /\ Named(program.target) # {}
        /\ \A ip \in Named(program.target) : NonPublic(ip)
    BY <1>4 DEF Means
  <2>2. (/\ ~ allow_private_targets /\ WasRead /\ Named(program.target) # {}
         /\ \A ip \in Named(program.target) : NonPublic(ip))'
    BY <1>2, <2>1
  <2>3. QED BY <1>4, <2>2 DEF Means
<1>5. CASE code = GeneralFailure
  BY <1>1, <1>3, <1>5 DEF Means
<1>6. \A outcomes : "none" \notin outcomes /\ dial \in outcomes => dial' \in outcomes
  OBVIOUS
<1>7. CASE code \in {Succeeded, NetworkUnreachable, ConnectionRefused}
  <2>1. CASE code = Succeeded
    BY <2>1 DEF Means
  <2>2. CASE code = NetworkUnreachable
    BY <2>2 DEF Means
  <2>3. CASE code = ConnectionRefused
    BY <2>3 DEF Means
  <2>4. QED BY <1>7, <2>1, <2>2, <2>3
<1>8. CASE code = HostUnreachable
  <2>1. LookupFailed \/ dial \in {"NotFound", "AddrNotAvailable"}
    BY <1>8 DEF Means
  <2>2. (LookupFailed \/ dial \in {"NotFound", "AddrNotAvailable"})'
    BY <1>6, <2>1
  <2>3. QED BY <1>8, <2>2 DEF Means
<1>9. CASE code = TtlExpired
  <2>1. "client_timeout" \in mishaps \/ LookupFailed \/ dial \in {"silent", "TimedOut"}
    BY <1>9 DEF Means
  <2>2. ("client_timeout" \in mishaps \/ LookupFailed \/ dial \in {"silent", "TimedOut"})'
    BY <1>6, <2>1
  <2>3. QED BY <1>9, <2>2 DEF Means
<1>10. CASE code \in {CommandNotSupported, AddressTypeNotSupported}
  <2>1. CASE code = CommandNotSupported
    BY <2>1 DEF Means
  <2>2. CASE code = AddressTypeNotSupported
    <3>1. program.command = 1 /\ Atyp(program.target) = 2
      BY <2>2 DEF Means
    <3>2. (program.command = 1 /\ Atyp(program.target) = 2)'
      BY <3>1
    <3>3. QED BY <2>2, <3>2 DEF Means
  <2>3. QED BY <1>10, <2>1, <2>2
<1>11. QED BY <1>4, <1>5, <1>7, <1>8, <1>9, <1>10 DEF ReplyCodes

(* So it does as long as the server does nothing about it.                        *)
LEMMA TruthsLast ==
    ASSUME UNCHANGED <<allow_private_targets, program, network>>,
           request'["server"] = request["server"], mishaps \subseteq mishaps',
           WasRead /\ pc["server"] # "resolve" => pc'["server"] # "resolve"
    PROVE  Truths \subseteq Truths'
<1>1. WasRead' = WasRead
  BY DEF WasRead
<1>2. LookupFailed => LookupFailed'
  BY <1>1 DEF LookupFailed, network
<1>3. QED BY <1>1, <1>2, TruthsGrow DEF network

(* A client that refuses a request has a reason for the code it replies with.     *)
LEMMA RefusalsAreTrue ==
    ASSUME Typed, ReadFields(2)
    PROVE  /\ ConnectFaults # {} => reply_code(Min(ConnectFaults)) \in Truths
           /\ ConnectFaults = {} /\ ~ (Len(local) >= 6) => GeneralFailure \in Truths
<1>c. Causes
  BY TruthsHaveCauses
<1>1. /\ local \in Seq(Fields) /\ Len(local) + 2 = program.sends /\ Len(local) \in Nat
      /\ \A i \in 1..Len(local) : local[i] = Stream(program)[i + 2]
      /\ DOMAIN local = 1..Len(local)
  BY DEF ReadFields
<1>2. ASSUME ConnectFaults = {}, ~ (Len(local) >= 6) PROVE GeneralFailure \in Truths
  <2>1. program.sends < 8
    BY <1>1, <1>2
  <2>2. RequestIsFaulty
    BY <2>1 DEF RequestIsFaulty
  <2>3. QED BY <1>c, <2>2 DEF Causes
<1>3. ASSUME ConnectFaults # {} PROVE reply_code(Min(ConnectFaults)) \in Truths
  <2> DEFINE m == Min(ConnectFaults)
  <2>1. ConnectFaults \in SUBSET Nat
    BY DEF ConnectFaults
  <2>2. m \in ConnectFaults /\ \A i \in ConnectFaults : m <= i
    BY <1>3, <2>1, Minimum
  <2> HIDE DEF m
  <2>3. /\ m \in 1..Len(local) /\ m \in 1..5 /\ FieldIsWrong(m)
        /\ m \in 2..3 => Len(local) >= 4
    BY <1>1, <2>2 DEF ConnectFaults
  <2>4. /\ FieldIsWrong(1) => local[1] # 5
        /\ FieldIsWrong(2) <=> local[2] # 1
        /\ FieldIsWrong(3) => local[3] # 0
        /\ FieldIsWrong(4) => local[4] \notin {1, 3, 4}
        /\ FieldIsWrong(5) => InvalidDomain(local[5])
    BY DEF FieldIsWrong
  <2>5. /\ reply_code(1) = GeneralFailure /\ reply_code(2) = CommandNotSupported
        /\ reply_code(3) = GeneralFailure /\ reply_code(4) = AddressTypeNotSupported
        /\ reply_code(5) = GeneralFailure
    BY DEF reply_code
  <2>6. /\ m = 1 => local[1] = program.version
        /\ m = 2 => local[2] = program.command
        /\ m = 3 => local[3] = program.reserved
        /\ m = 4 => local[4] = Atyp(program.target) /\ local[2] = program.command
        /\ m = 5 => local[5] = program.target
    BY <1>1, <2>3, StreamFields
  <2>7. ASSUME m \in {1, 3, 5} PROVE GeneralFailure \in Truths
    <3>1. RequestIsFaulty
      BY <2>3, <2>4, <2>6, <2>7 DEF RequestIsFaulty
    <3>2. QED BY <1>c, <3>1 DEF Causes
  <2>8. ASSUME m = 2 PROVE CommandNotSupported \in Truths
    BY <1>c, <2>3, <2>4, <2>6, <2>8 DEF Causes
  <2>9. ASSUME m = 4 PROVE AddressTypeNotSupported \in Truths
    <3>1. 2 \notin ConnectFaults /\ 2 \in DOMAIN local /\ Len(local) >= 4
      BY <1>1, <2>2, <2>3, <2>9
    <3>2. ~ FieldIsWrong(2)
      BY <3>1 DEF ConnectFaults
    <3>3. program.command = 1
      BY <2>4, <2>6, <2>9, <3>2
    <3>4. Atyp(program.target) = 2
      <4>1. Atyp(program.target) \in {1, 2, 3, 4}
        BY DEF Atyp
      <4>2. QED BY <2>3, <2>4, <2>6, <2>9, <4>1
    <3>5. QED BY <1>c, <3>3, <3>4 DEF Causes
  <2>10. m \in {1, 3, 5} \/ m = 2 \/ m = 4
    BY <2>3
  <2>11. reply_code(m) \in Truths
    BY <2>5, <2>7, <2>8, <2>9, <2>10
  <2>12. QED BY <2>11 DEF m
<1>4. QED BY <1>2, <1>3

(* A request is cut short by the writer only if it asks for an invalid name.      *)
LEMMA CutShort ==
    ASSUME Typed, Len(TunnelRequest(Asked)) # 4
    PROVE  RequestIsFaulty
<1> DEFINE target == program.target
<1>1. Asked.target = target
  BY DEF Asked
<1>2. target.family = "domain" /\ (~ validate_domain(target) \/ target.length > 255)
  <2>1. Len(<<Header, Atyp(Asked.target), Asked.port, Asked.target>>) = 4
    OBVIOUS
  <2>2. QED BY <1>1, <2>1 DEF TunnelRequest
<1>3. ~ (target.length > 255)
  <2>1. target \in Addresses \cup Domains \cup [family : {"unknown"}]
    BY ProgramFacts
  <2>2. target \in Domains => target.length \in Byte
    BY DEF Domains
  <2>3. target \in [family : {"unknown"}] => target.family = "unknown"
    OBVIOUS
  <2>4. target \in Addresses => target.family \in {"v4", "mapped", "v6"}
    <3>1. ASSUME target \in [family : {"v4", "mapped"}, octets : Byte \X Byte]
          PROVE  target.family \in {"v4", "mapped"}
      BY <3>1, FieldsV4, Zenon
    <3>2. ASSUME target \in [family : {"v6"}, segment : Word, rest : {"zero", "one", "other"}]
          PROVE  target.family \in {"v6"}
      BY <3>2, FieldsV6, Zenon
    <3>3. QED BY <3>1, <3>2 DEF Addresses
  <2>5. target \in Domains
    BY <1>2, <2>1, <2>3, <2>4
  <2>6. QED BY <2>2, <2>5 DEF Byte
<1>4. InvalidDomain(target)
  BY <1>2, <1>3 DEF InvalidDomain
<1>5. QED BY <1>4 DEF RequestIsFaulty

(* What the client replies is what the server has said, or its own reason.        *)
LEMMA ClientAnswersTruly == AskInv /\ InStep /\ Answered /\ ClientStep => Answered'
<1> SUFFICES ASSUME AskInv, InStep, Answered, ClientStep PROVE Answered'
  OBVIOUS
<1>i. Typed /\ ClientAsks /\ ServerHears
  BY DEF AskInv
<1>g. /\ UNCHANGED <<allow_private_targets, program, network, status>>
      /\ unread' = unread /\ mishaps \subseteq mishaps'
      /\ request'["server"] = request["server"] /\ pc'["server"] = pc["server"]
  BY <1>i DEF Typed, Tasks, ClientStep, Negotiate, ReadConnect, SendRequest, SendFails,
       SendTimesOut, ReadStatus, NoStatus, RelayClient, given, data, Goto, Reads, Replies, Happens
<1>t. Truths \subseteq Truths' /\ WasRead' = WasRead
  BY <1>g, TruthsLast DEF WasRead
<1>c. Causes /\ Causes'
  BY TruthsHaveCauses
<1>r. \A code : Response(code)' = Response(code)
  BY DEF Response
<1>1. CASE Negotiate
  <2>1. /\ pc["client"] = "methods" /\ UNCHANGED <<reply, back>>
        /\ (pc'["client"] = "request" /\ method' = 0) \/ pc'["client"] = "done"
    BY <1>1, <1>i DEF Negotiate, Goto, Typed, Tasks
  <2>2. reply = Nothing /\ pc["server"] = "absent"
    BY <2>1 DEF Answered, InStep
  <2>3. QED BY <1>g, <1>t, <2>1, <2>2 DEF Answered
<1>2. CASE ReadConnect
  <2>1. /\ pc["client"] = "request" /\ UNCHANGED <<method, back>>
        /\ \/ pc'["client"] = "send" /\ reply' = reply
           \/ /\ pc'["client"] = "done"
              /\ \/ reply' = reply
                 \/ ConnectFaults # {} /\ reply' = reply_code(Min(ConnectFaults))
                 \/ ConnectFaults = {} /\ ~ (Len(local) >= 6) /\ reply' = GeneralFailure
    BY <1>2, <1>i DEF ReadConnect, Goto, Typed, Tasks
  <2>2. reply = Nothing /\ method = 0 /\ ReadFields(2) /\ pc["server"] = "absent"
    BY <1>i, <2>1 DEF ClientAsks, InStep, Answered
  <2>3. reply' = Nothing \/ reply' \in Truths'
    BY <1>i, <1>t, <2>1, <2>2, RefusalsAreTrue
  <2>4. pc'["client"] = "send" => reply' = Nothing
    BY <2>1, <2>2
  <2>5. QED BY <1>g, <1>t, <2>1, <2>2, <2>3, <2>4 DEF Answered
<1>s. ASSUME pc["client"] \in {"send", "status"}, method' = method, back' = back,
             \/ pc["client"] = "send" /\ pc'["client"] \in {"send", "status"} /\ reply' = reply
             \/ pc'["client"] = "done" /\ reply' \in Truths'
      PROVE  Answered'
  <2>1. method = 0 /\ reply = Nothing
    BY <1>s DEF Answered
  <2>2. pc["client"] = "send" => pc["server"] # "relay"
    BY <1>s DEF InStep
  <2>3. QED BY <1>g, <1>t, <1>r, <1>s, <2>1, <2>2 DEF Answered
<1>3. CASE SendRequest
  <2>1. pc["client"] = "send" /\ UNCHANGED <<method, back>> /\ request["client"] = Asked
    BY <1>3, <1>i DEF SendRequest, ClientAsks
  <2>2. \/ pc' = [pc EXCEPT !["client"] = "status"] /\ reply' = reply
        \/ pc' = pc /\ reply' = reply
        \/ /\ Len(TunnelRequest(Asked)) # 4
           /\ pc' = [pc EXCEPT !["client"] = "done"] /\ reply' = GeneralFailure
    BY <1>3, <2>1, Sending
  <2>3. Len(TunnelRequest(Asked)) # 4 => GeneralFailure \in Truths'
    BY <1>c, <1>i, <1>t, CutShort DEF Causes
  <2>4. \/ pc'["client"] \in {"send", "status"} /\ reply' = reply
        \/ pc'["client"] = "done" /\ reply' \in Truths'
    BY <1>i, <2>1, <2>2, <2>3 DEF Typed, Tasks
  <2>5. QED BY <1>s, <2>1, <2>4
<1>4. CASE SendFails
  <2>1. /\ pc["client"] = "send" /\ UNCHANGED <<method, back>>
        /\ IsLost \/ pc["server"] = "done"
        /\ pc'["client"] = "done" /\ reply' = GeneralFailure
    BY <1>4, <1>i DEF SendFails, Replies, Goto, Typed, Tasks
  <2>2. IsLost => GeneralFailure \in Truths
    BY <1>c DEF IsLost, Causes
  <2>3. GeneralFailure \in Truths
    BY <2>1, <2>2 DEF Answered
  <2>4. QED BY <1>s, <1>t, <2>1, <2>3
<1>5. CASE SendTimesOut
  <2>1. /\ pc["client"] = "send" /\ UNCHANGED <<method, back>> /\ "client_timeout" \in mishaps'
        /\ pc'["client"] = "done" /\ reply' = TtlExpired
    BY <1>5, <1>i DEF SendTimesOut, Happens, Replies, Goto, Typed, Tasks
  <2>2. TtlExpired \in Truths'
    BY <1>c, <2>1 DEF Causes
  <2>3. QED BY <1>s, <2>1, <2>2
<1>6. CASE ReadStatus
  <2>1. /\ pc["client"] = "status" /\ UNCHANGED method
        /\ pc'["client"] \in {"relay", "done"} /\ Len(back) >= ResponseFields
        /\ reply' = IF back[2] \in ReplyCodes THEN back[2] ELSE GeneralFailure
    BY <1>6, <1>i DEF ReadStatus, Goto, Typed, Tasks
  <2>2. pc["server"] \in {"relay", "done"} /\ back # <<>>
    <3>1. Len(back) >= ResponseFields => back # <<>>
      BY DEF ResponseFields
    <3>2. pc["server"] \in {"absent", "read", "resolve", "connect", "respond"} => back = <<>>
      BY <1>i, Zenon DEF ServerHears
    <3>3. QED BY <2>1, <3>1, <3>2 DEF InStep
  <2>3. back[2] \in Truths
    <3>1. CASE pc["server"] = "relay"
      <4>1. Succeeded \in Truths
        BY <3>1 DEF Answered
      <4>2. \/ back = <<"IRPX 1", Succeeded, "reserved">>
            \/ back = <<"IRPX 1", Succeeded, "reserved", Greeting>>
        BY <2>1, <3>1, Zenon DEF Response, Answered
      <4>3. ASSUME back = <<"IRPX 1", Succeeded, "reserved">> PROVE back[2] = Succeeded
        BY <4>3
      <4>4. ASSUME back = <<"IRPX 1", Succeeded, "reserved", Greeting>> PROVE back[2] = Succeeded
        BY <4>4
      <4>5. QED BY <4>1, <4>2, <4>3, <4>4
    <3>2. CASE pc["server"] = "done"
      <4>1. PICK code \in Truths \ {Succeeded} : back = <<"IRPX 1", code, "reserved">>
        BY <2>1, <2>2, <3>2 DEF Response, Answered
      <4>2. back[2] = code
        BY <4>1
      <4>3. QED BY <4>1, <4>2
    <3>3. QED BY <2>2, <3>1, <3>2
  <2>4. reply' \in Truths'
    BY <1>t, <2>1, <2>3 DEF Truths
  <2>5. method = 0
    BY <2>1 DEF Answered
  <2>6. QED BY <1>g, <1>t, <2>1, <2>2, <2>4, <2>5 DEF Answered
<1>7. CASE NoStatus
  <2>1. /\ pc["client"] = "status" /\ UNCHANGED <<method, back>> /\ pc'["client"] = "done"
        /\ \/ /\ (pc["server"] = "done" /\ back = <<>>) \/ IsLost
              /\ reply' = GeneralFailure
           \/ reply' = TtlExpired /\ "client_timeout" \in mishaps'
    BY <1>7, <1>i DEF NoStatus, Happens, Replies, Goto, Typed, Tasks
  <2>2. \A code : Response(code) # <<>>
    BY DEF Response
  <2>3. (pc["server"] = "done" /\ back = <<>>) \/ IsLost => GeneralFailure \in Truths
    <3>1. IsLost => GeneralFailure \in Truths
      BY <1>c DEF IsLost, Causes
    <3>2. QED BY <2>1, <2>2, <3>1 DEF Answered
  <2>4. "client_timeout" \in mishaps' => TtlExpired \in Truths'
    BY <1>c DEF Causes
  <2>5. QED BY <1>s, <1>t, <2>1, <2>3, <2>4
<1>8. CASE RelayClient
  <2>1. pc["client"] = "relay" /\ UNCHANGED <<pc, method, reply>>
    BY <1>8 DEF RelayClient
  <2>2. pc["server"] = "relay"
    BY <2>1 DEF InStep
  <2>3. QED BY <1>g, <1>t, <2>1, <2>2 DEF Answered
<1>9. QED BY <1>1, <1>2, <1>3, <1>4, <1>5, <1>6, <1>7, <1>8 DEF ClientStep

(* The server decides for each code on what it stands for.                        *)
LEMMA ServerAnswersTruly == AskInv /\ InStep /\ Answered /\ ServerStep => Answered'
<1> SUFFICES ASSUME AskInv, InStep, Answered, ServerStep PROVE Answered'
  OBVIOUS
<1>i. Typed /\ ClientAsks /\ ServerHears
  BY DEF AskInv
<1>g. /\ UNCHANGED <<allow_private_targets, program, method, reply>>
      /\ pc'["client"] = pc["client"] /\ mishaps \subseteq mishaps'
  BY <1>i DEF Typed, Tasks, ServerStep, AcceptStream, ReadRequest, ResolveIp, ResolveDomain,
       ConnectTarget, WriteResponse, RelayServer, Dials, Responds, Happens, given, network, data,
       Goto, Reads
<1>c. Causes /\ Causes'
  BY TruthsHaveCauses
<1>r. \A code : Response(code)' = Response(code)
  BY DEF Response
<1>1. CASE AcceptStream
  <2>1. /\ pc["server"] = "absent" /\ UNCHANGED <<request, network, data>>
        /\ \/ pc'["server"] = "read"
           \/ pc'["server"] = "respond" /\ status' = GeneralFailure /\ "no_permit" \in mishaps'
    BY <1>1, <1>i DEF AcceptStream, Responds, Happens, Goto, Typed, Tasks
  <2>2. Truths \subseteq Truths'
    BY <1>g, <2>1, TruthsLast
  <2>3. "no_permit" \in mishaps' => GeneralFailure \in Truths'
    BY <1>c DEF Causes
  <2>4. unread' = unread
    BY <2>1 DEF data
  <2>5. QED BY <1>g, <2>1, <2>2, <2>3, <2>4 DEF Answered
<1>2. CASE ReadRequest
  <2>1. /\ pc["server"] = "read" /\ UNCHANGED <<network, back>> /\ unread' = unread
        /\ \/ pc'["server"] = "resolve"
           \/ pc'["server"] = "done" /\ UNCHANGED request
    BY <1>2, <1>i DEF ReadRequest, Goto, Typed, Tasks, data
  <2>2. pc["client"] # "relay" /\ ~ WasRead /\ back = <<>>
    BY <1>i, <2>1 DEF InStep, ServerHears
  <2>3. Truths \subseteq Truths'
    BY <1>g, <2>1, <2>2, TruthsGrow DEF network, LookupFailed
  <2>4. CASE pc'["server"] = "resolve"
    BY <1>g, <2>1, <2>2, <2>3, <2>4 DEF Answered
  <2>5. CASE pc'["server"] = "done"
    <3>1. pc["client"] = "done" \/ GeneralFailure \in Truths'
      <4>1. \/ (~ IsReadable /\ (Len(tunnel) >= 4 \/ pc["client"] = "done")) \/ IsLost
            \/ "server_timeout" \in mishaps'
        BY <1>2, <1>i, <2>5 DEF ReadRequest, Happens, Goto, Typed, Tasks
      <4>2. ~ IsReadable /\ Len(tunnel) >= 4 => RequestIsFaulty
        BY <1>i, <2>1 DEF IsReadable, ServerHears, RequestIsFaulty
      <4>3. "server_timeout" \in mishaps' => GeneralFailure \in Truths'
        BY <1>c DEF Causes
      <4>4. IsLost \/ RequestIsFaulty => GeneralFailure \in Truths
        BY <1>c DEF Causes, IsLost
      <4>5. QED BY <2>3, <4>1, <4>2, <4>3, <4>4
    <3>2. QED BY <1>g, <2>1, <2>2, <2>3, <2>5, <3>1 DEF Answered
  <2>6. QED BY <2>1, <2>4, <2>5
<1>s. ASSUME pc["server"] \in {"resolve", "connect"}, unread' = unread, request' = request,
             pc'["server"] \in {"connect", "respond"}, Truths \subseteq Truths',
             pc'["server"] = "respond" => status' \in Truths'
      PROVE  Answered'
  <2>1. pc["client"] # "send" /\ WasRead' /\ unread = <<Greeting>>
    BY <1>s DEF InStep, WasRead, Answered
  <2>2. QED BY <1>g, <1>s, <2>1 DEF Answered
<1>3. CASE ResolveIp
  <2>1. /\ pc["server"] = "resolve" /\ unread' = unread /\ UNCHANGED <<request, lookup, dial>>
        /\ pc'["server"] \in {"connect", "respond"}
    BY <1>3, <1>i DEF ResolveIp, Dials, Responds, Goto, Typed, Tasks, data
  <2>2. request["server"] = Asked /\ IsSound /\ WasRead /\ WasRead' /\ ~ LookupFailed
    BY <1>i, <2>1 DEF ServerHears, InStep, LookupFailed, WasRead
  <2>3. Truths \subseteq Truths'
    BY <1>g, <2>1, <2>2, TruthsGrow
  <2> DEFINE ip == program.target
  <2>4. /\ ip.family # "domain"
        /\ pc'["server"] = "respond" =>
              ~ target_ip_allowed(ip, allow_private_targets) /\ status' = ConnectionNotAllowed
    BY <1>3, <2>2, <1>i DEF Asked, ResolveIp, Dials, Responds, Resolved, Unresolved,
         Goto, Typed, Tasks
  <2>5. ASSUME pc'["server"] = "respond" PROVE status' \in Truths'
    <3>1. ip \in Addresses
      BY <1>i, <2>2, <2>4, TargetIsSound, Zenon
    <3>2. NonPublic(ip) /\ ~ allow_private_targets
      BY <2>4, <2>5, <3>1, PublicMeansPublic, Zenon DEF target_ip_allowed
    <3>3. Named(ip)' = {ip}
      BY <1>g, <2>4 DEF Named
    <3>4. ConnectionNotAllowed \in Truths'
      BY <1>c, <1>g, <2>2, <3>2, <3>3 DEF Causes
    <3>5. QED BY <2>4, <2>5, <3>4
  <2>6. QED BY <1>s, <2>1, <2>3, <2>5
<1>4. CASE ResolveDomain
  <2>1. /\ pc["server"] = "resolve" /\ unread' = unread /\ UNCHANGED <<request, dial>>
        /\ pc'["server"] \in {"connect", "respond"}
    BY <1>4, <1>i DEF ResolveDomain, Dials, Responds, Goto, Typed, Tasks, data
  <2>2. /\ request["server"] = Asked /\ dialled = <<>> /\ lookup = <<>>
        /\ WasRead /\ WasRead' /\ ~ LookupFailed
    BY <1>i, <2>1 DEF ServerHears, InStep, LookupFailed, WasRead
  <2>3. program.target.family = "domain"
    BY <1>4, <2>2 DEF Asked, ResolveDomain
  <2>4. Truths \subseteq Truths'
    BY <1>g, <2>1, <2>2, TruthsGrow
  <2>5. ASSUME pc'["server"] = "respond" PROVE status' \in Truths'
    <3>1. ASSUME NEW addrs \in Answers, lookup' = addrs,
                 Dials(select_allowed_resolved_addr(addrs, allow_private_targets))
          PROVE  status' \in Truths'
      <4> DEFINE o == select_allowed_resolved_addr(addrs, allow_private_targets)
      <4>1. addrs \in Seq(Addresses)
        BY ProgramsAssumption, Zenon
      <4>2. o.addrs = <<>> /\ status' = o.code /\ dialled' = dialled
        BY <1>i, <2>5, <3>1 DEF Dials, Responds, Goto, Typed, Tasks
      <4>3. \/ /\ o.code = ConnectionNotAllowed /\ addrs # <<>>
               /\ \A ip \in ToSet(addrs) : ~ target_ip_allowed(ip, allow_private_targets)
            \/ o.code = HostUnreachable /\ addrs = <<>>
        <5>1. Len(<<>>) # 1
          OBVIOUS
        <5>2. QED BY <1>i, <4>1, <4>2, <5>1, SelectsAllowed, Zenon DEF Typed
      <4> HIDE DEF o
      <4>4. ASSUME addrs # <<>>,
                   \A ip \in ToSet(addrs) : ~ target_ip_allowed(ip, allow_private_targets)
            PROVE  ConnectionNotAllowed \in Truths'
        <5>1. Named(program.target)' = ToSet(addrs)
          BY <1>g, <2>3, <3>1 DEF Named
        <5>2. \A ip \in ToSet(addrs) : ip \in Addresses
          BY <4>1 DEF ToSet
        <5>3. \A ip \in ToSet(addrs) : NonPublic(ip)
          BY <4>4, <5>2, PublicMeansPublic, Zenon DEF target_ip_allowed
        <5>4. \E ip : ip \in ToSet(addrs)
          <6>1. 1 \in 1..Len(addrs)
            BY <4>1, <4>4, EmptySeq
          <6>2. QED BY <6>1 DEF ToSet
        <5>5. ~ allow_private_targets
          BY <4>4, <5>4, Zenon DEF target_ip_allowed
        <5>6. QED BY <1>c, <1>g, <2>2, <5>1, <5>3, <5>4, <5>5 DEF Causes
      <4>5. ASSUME addrs = <<>> PROVE HostUnreachable \in Truths'
        <5>1. LookupFailed'
          BY <1>g, <2>2, <2>3, <2>5, <3>1, <4>2, <4>5 DEF LookupFailed
        <5>2. QED BY <1>c, <5>1 DEF Causes
      <4>6. QED BY <4>2, <4>3, <4>4, <4>5
    <3>2. ASSUME NEW code \in {HostUnreachable, TtlExpired}, Dials(Unresolved(code)),
                 lookup' = lookup
          PROVE  status' \in Truths'
      <4>1. status' = code /\ dialled' = dialled
        BY <3>2 DEF Dials, Unresolved, Responds
      <4>2. LookupFailed'
        BY <1>g, <2>2, <2>3, <2>5, <3>2, <4>1 DEF LookupFailed
      <4>3. QED BY <1>c, <3>2, <4>1, <4>2 DEF Causes
    <3>3. QED BY <1>4, <3>1, <3>2 DEF ResolveDomain
  <2>6. QED BY <1>s, <2>1, <2>4, <2>5
<1>5. CASE ConnectTarget
  <2>1. /\ pc["server"] = "connect" /\ unread' = unread /\ UNCHANGED <<request, lookup, dialled>>
        /\ pc'["server"] = "respond"
    BY <1>5, <1>i DEF ConnectTarget, Responds, Goto, Typed, Tasks, data
  <2>2. dial = "none" /\ WasRead' = WasRead
    BY <2>1 DEF InStep, WasRead
  <2>3. LookupFailed => LookupFailed'
    BY <1>g, <2>1, <2>2 DEF LookupFailed
  <2>4. Truths \subseteq Truths'
    BY <1>g, <2>1, <2>2, <2>3, TruthsGrow
  <2>5. \/ dial' = "accepted" /\ status' = Succeeded
        \/ \E kind \in ConnectErrors : dial' = kind /\ status' = map_connect_error(kind)
        \/ dial' = "silent" /\ status' = TtlExpired
    BY <1>5 DEF ConnectTarget, Responds
  <2>6. ASSUME NEW kind \in ConnectErrors, dial' = kind
        PROVE  map_connect_error(kind) \in Truths'
    BY <1>c, <2>6 DEF Causes, map_connect_error, ConnectErrors
  <2>7. status' \in Truths'
    BY <1>c, <2>5, <2>6 DEF Causes
  <2>8. QED BY <1>s, <2>1, <2>4, <2>7
<1>6. CASE WriteResponse
  <2>1. /\ pc["server"] = "respond" /\ UNCHANGED <<request, network, data>>
        /\ \/ /\ back' = Response(status)
              /\ pc'["server"] = IF status = Succeeded THEN "relay" ELSE "done"
           \/ /\ IsLost \/ pc["client"] = "done"
              /\ back' = back /\ pc'["server"] = "done"
    BY <1>6, <1>i DEF WriteResponse, Goto, Typed, Tasks, Response
  <2>2. status \in Truths /\ unread' = <<Greeting>> /\ back = <<>> /\ pc["client"] # "relay"
    BY <1>i, <2>1 DEF data, InStep, Answered, ServerHears
  <2>3. Truths \subseteq Truths'
    BY <1>g, <2>1, TruthsLast
  <2>4. pc["client"] = "send" => status = GeneralFailure
    BY <2>1 DEF InStep, Answered
  <2>5. IsLost => GeneralFailure \in Truths'
    BY <1>c, <2>3 DEF Causes, IsLost
  <2>6. CASE back' = Response(status) /\ pc'["server"] = "done" /\ status # Succeeded
    BY <1>g, <1>r, <2>1, <2>2, <2>3, <2>4, <2>6 DEF Answered
  <2>7. CASE back' = Response(status) /\ pc'["server"] = "relay" /\ status = Succeeded
    BY <1>g, <1>r, <2>1, <2>2, <2>3, <2>4, <2>7 DEF Answered
  <2>8. CASE (IsLost \/ pc["client"] = "done") /\ back' = back /\ pc'["server"] = "done"
    BY <1>g, <2>1, <2>2, <2>3, <2>5, <2>8 DEF Answered
  <2>9. QED BY <2>1, <2>6, <2>7, <2>8
<1>7. CASE RelayServer
  <2>1. /\ pc["server"] = "relay" /\ UNCHANGED <<pc, request, network>>
        /\ \/ /\ unread # <<>> /\ unread' = Tail(unread) /\ back' = Append(back, Head(unread))
           \/ UNCHANGED <<unread, back>>
    BY <1>7 DEF RelayServer
  <2>2. Truths \subseteq Truths'
    BY <1>g, <2>1, TruthsLast
  <2>3. ASSUME pc["client"] = "status"
        PROVE  (\/ back = Response(Succeeded) /\ unread = <<Greeting>>
                \/ back = <<"IRPX 1", Succeeded, "reserved", Greeting>> /\ unread = <<>>)'
    <3>1. \/ back = <<"IRPX 1", Succeeded, "reserved">> /\ unread = <<Greeting>>
          \/ back = <<"IRPX 1", Succeeded, "reserved", Greeting>> /\ unread = <<>>
      BY <2>1, <2>3, Zenon DEF Answered, Response
    <3>2. CASE UNCHANGED <<unread, back>>
      BY <3>1, <3>2 DEF Response
    <3>3. CASE unread # <<>> /\ unread' = Tail(unread) /\ back' = Append(back, Head(unread))
      <4>1. back = <<"IRPX 1", Succeeded, "reserved">> /\ unread = <<Greeting>>
        BY <3>1, <3>3
      <4>2. Tail(unread) = <<>> /\ Head(unread) = Greeting
        BY <4>1, OneField
      <4>3. Append(back, Greeting) = <<"IRPX 1", Succeeded, "reserved", Greeting>>
        BY <4>1, FourthField
      <4>4. QED BY <3>3, <4>2, <4>3
    <3>4. QED BY <2>1, <3>2, <3>3
  <2>4. QED BY <1>g, <2>1, <2>2, <2>3 DEF Answered
<1>8. QED BY <1>1, <1>2, <1>3, <1>4, <1>5, <1>6, <1>7 DEF ServerStep

(* The loss of the connection changes nothing but what is true.                   *)
LEMMA LossAnswersNothing == Answered /\ (ConnectionLost \/ UNCHANGED vars) => Answered'
<1> SUFFICES ASSUME Answered, ConnectionLost \/ UNCHANGED vars PROVE Answered'
  OBVIOUS
<1>1. /\ UNCHANGED <<allow_private_targets, program, network, pc, request, method, status>>
      /\ UNCHANGED <<back, reply, unread>> /\ mishaps \subseteq mishaps'
  BY DEF ConnectionLost, Happens, vars, given, data
<1>2. Truths \subseteq Truths' /\ WasRead' = WasRead
  BY <1>1, TruthsLast DEF WasRead
<1>3. QED BY <1>1, <1>2 DEF Answered, Response

--------------------------------------------------------------------------------
(* The client has read as far as the data and no further.                         *)
LEMMA ReadUpToData ==
    ASSUME Typed, NEW l \in Seq(Fields), Len(l) + 8 = program.sends,
           \A i \in 1..Len(l) : l[i] = Stream(program)[i + 8]
    PROVE  l = EarlyData /\ (l = <<>> \/ l = <<Early>>)
<1>1. program.sends \in Nat /\ program.sends <= 9
  BY ProgramFacts
<1>2. /\ l \in Seq(Fields) /\ Len(l) + 8 = program.sends /\ Len(l) \in Nat
      /\ \A i \in 1..Len(l) : l[i] = Stream(program)[i + 8]
  OBVIOUS
<1> DEFINE n == program.sends
           S == Stream(program)
<1>3. Len(l) \in {0, 1} /\ n \in {8, 9}
  <2>1. Len(l) \in Nat /\ Len(l) + 8 = n /\ n \in Nat /\ n <= 9
    BY <1>1, <1>2
  <2>2. \A k, m \in Nat : k + 8 = m /\ m <= 9 => k \in {0, 1} /\ m \in {8, 9}
    OBVIOUS
  <2> HIDE DEF n
  <2>3. QED BY <2>1, <2>2, Zenon
<1>4. \A i \in 9..n : S[i] \in Fields
  BY <1>1 DEF Fields
<1>5. S[9] = Early
  BY DEF Stream
<1> HIDE DEF n, S
<1>6. /\ SubSeq(S, 9, n) \in Seq(Fields)
      /\ Len(SubSeq(S, 9, n)) = IF 9 <= n THEN n - 9 + 1 ELSE 0
      /\ \A i \in 1..n - 9 + 1 : SubSeq(S, 9, n)[i] = S[9 + i - 1]
  <2>1. 9 \in Int /\ n \in Int
    BY <1>3
  <2>2. QED BY <1>4, <2>1, SubSeqProperties
<1>7. Len(l) = Len(SubSeq(S, 9, n))
  BY <1>2, <1>3, <1>6 DEF n
<1>8. \A i \in 1..Len(l) : l[i] = SubSeq(S, 9, n)[i]
  <2> SUFFICES ASSUME NEW i \in 1..Len(l) PROVE l[i] = SubSeq(S, 9, n)[i]
    OBVIOUS
  <2>1. i = 1 /\ Len(l) = 1 /\ n = 9
    BY <1>2, <1>3 DEF n
  <2>2. l[i] = S[i + 8]
    BY <1>2 DEF S
  <2>3. SubSeq(S, 9, n)[1] = S[9]
    BY <1>6, <2>1
  <2>4. QED BY <2>1, <2>2, <2>3
<1>9. l = SubSeq(S, 9, n)
  BY <1>2, <1>6, <1>7, <1>8, SeqEqual
<1>10. l = <<>> \/ l = <<Early>>
  <2>1. CASE Len(l) = 0
    BY <1>2, <2>1, EmptySeq
  <2>2. CASE Len(l) = 1
    <3>1. l[1] = Early
      <4>1. 1 \in 1..Len(l)
        BY <2>2
      <4>2. l[1] = Stream(program)[1 + 8]
        BY <1>2, <4>1
      <4>3. QED BY <1>5, <4>2 DEF S
    <3>2. /\ <<Early>> \in Seq({Early} \cup Fields) /\ Len(<<Early>>) = 1
          /\ <<Early>>[1] = Early /\ l \in Seq({Early} \cup Fields)
      BY <1>2
    <3>3. \A i \in 1..1 : l[i] = <<Early>>[i]
      BY <3>1, <3>2
    <3>4. QED BY <2>2, <3>2, <3>3, SeqEqual
  <2>3. QED BY <1>3, <2>1, <2>2
<1>11. QED BY <1>9, <1>10 DEF EarlyData, n, S

(* Either copy moves the one field of its direction from place to place.          *)
LEMMA NextKept == AskInv /\ InStep /\ InStep' /\ Answered /\ Kept /\ Next => Kept'
<1> SUFFICES ASSUME AskInv, InStep, InStep', Answered, Kept, Next PROVE Kept'
  OBVIOUS
<1>i. Typed /\ ClientAsks /\ ServerHears
  BY DEF AskInv
<1>k. /\ got \in [Tasks -> {<<>>, <<Early>>, <<Greeting>>}]
      /\ pc["client"] # "relay" => got["client"] = <<>> /\ got["server"] = <<>>
      /\ pc["client"] \in {"send", "status"} =>
            local = EarlyData /\ (local = <<>> \/ local = <<Early>>)
      /\ pc["client"] = "relay" =>
            /\ InOnePlace(got["client"], back, unread, <<Greeting>>)
            /\ InOnePlace(got["server"], tunnel, local, EarlyData)
            /\ EarlyData = <<>> \/ EarlyData = <<Early>>
  BY DEF Kept
<1>e. EarlyData' = EarlyData
  <2>1. program' = program
    BY DEF Next, ClientStep, ServerStep, given, Negotiate, ReadConnect, SendRequest, SendFails,
       SendTimesOut, ReadStatus, NoStatus, RelayClient, AcceptStream, ReadRequest, ResolveIp,
       ResolveDomain, ConnectTarget, WriteResponse, RelayServer, ConnectionLost
  <2>2. QED BY <2>1 DEF EarlyData
<1>1. CASE \/ Negotiate \/ AcceptStream \/ ReadRequest \/ ResolveIp \/ ResolveDomain
           \/ ConnectTarget \/ WriteResponse
  <2>1. got' = got /\ pc["client"] # "relay"
    BY <1>1 DEF InStep, data, Negotiate, AcceptStream, ReadRequest, ResolveIp, ResolveDomain,
       ConnectTarget, WriteResponse
  <2>2. \/ pc'["client"] \in {"request", "done"}
        \/ pc'["client"] = pc["client"] /\ local' = local
    <3>1. CASE Negotiate
      BY <1>i, <3>1 DEF Negotiate, Goto, Typed, Tasks
    <3>2. CASE \/ AcceptStream \/ ReadRequest \/ ResolveIp \/ ResolveDomain
               \/ ConnectTarget \/ WriteResponse
      BY <1>i, <3>2 DEF AcceptStream, ReadRequest, ResolveIp, ResolveDomain, ConnectTarget,
         WriteResponse, Goto, Dials, Responds, Typed, Tasks
    <3>3. QED BY <1>1, <3>1, <3>2
  <2>3. QED BY <1>e, <1>k, <2>1, <2>2 DEF Kept
<1>2. CASE ReadConnect
  <2>1. /\ pc["client"] = "request" /\ got' = got
        /\ \/ pc'["client"] = "done"
           \/ pc'["client"] = "send" /\ Len(local) >= 6 /\ local' = Rest(local, 6)
    BY <1>2, <1>i DEF ReadConnect, Goto, Typed, Tasks, data
  <2>2. ASSUME pc'["client"] = "send"
        PROVE  local' = EarlyData' /\ (local' = <<>> \/ local' = <<Early>>)
    <3>1. /\ ReadFields(2) /\ 2 \in Nat /\ 6 \in Nat /\ Len(local) >= 6
          /\ local' = Rest(local, 6) /\ program' = program /\ program.sends \in Nat
      BY <1>2, <1>i, <2>1, <2>2, ProgramFacts DEF ClientAsks, ReadConnect, given
    <3>2. ReadFields(2 + 6)'
      BY <3>1, ReadOn
    <3>3. 2 + 6 = 8
      OBVIOUS
    <3>4. ReadFields(8)'
      BY <3>2, <3>3
    <3>5. /\ local' \in Seq(Fields) /\ Len(local') + 8 = program.sends
          /\ \A i \in 1..Len(local') : local'[i] = Stream(program)[i + 8]
      <4>1. Fields' = Fields /\ Stream(program)' = Stream(program)
        BY <3>1 DEF Fields
      <4>2. QED BY <3>1, <3>4, <4>1 DEF ReadFields
    <3>6. QED BY <1>e, <1>i, <3>5, ReadUpToData
  <2>3. QED BY <1>k, <2>1, <2>2 DEF Kept
<1>3. CASE SendRequest \/ SendFails \/ SendTimesOut \/ NoStatus
  <2>1. /\ pc["client"] \in {"send", "status"} /\ UNCHANGED <<got, local>>
        /\ pc'["client"] \in {"send", "status", "done"}
    BY <1>3, <1>i DEF SendRequest, SendFails, SendTimesOut, NoStatus, Replies, Goto, Typed, Tasks,
       data
  <2>2. QED BY <1>e, <1>k, <2>1 DEF Kept
<1>4. CASE ReadStatus
  <2>1. /\ pc["client"] = "status" /\ UNCHANGED <<got, local, tunnel, unread>>
        /\ pc'["client"] \in {"relay", "done"} /\ pc'["server"] = pc["server"]
        /\ Len(back) >= 3 /\ back' = Rest(back, 3)
    BY <1>4, <1>i DEF ReadStatus, ResponseFields, Goto, Typed, Tasks, data
  <2>2. ASSUME pc'["client"] = "relay"
        PROVE  /\ InOnePlace(got["client"], back, unread, <<Greeting>>)'
               /\ InOnePlace(got["server"], tunnel, local, EarlyData)'
    <3>1. pc["server"] = "relay" /\ tunnel = <<>>
      BY <2>1, <2>2 DEF InStep
    <3>2. \/ back = <<"IRPX 1", Succeeded, "reserved">> /\ unread = <<Greeting>>
          \/ back = <<"IRPX 1", Succeeded, "reserved", Greeting>> /\ unread = <<>>
      BY <2>1, <3>1, Zenon DEF Answered, Response
    <3>3. \/ back' = <<>> /\ unread' = <<Greeting>>
          \/ back' = <<Greeting>> /\ unread' = <<>>
      BY <2>1, <3>1, <3>2, AfterThree
    <3>4. QED BY <1>e, <1>k, <2>1, <3>1, <3>3 DEF InOnePlace
  <2>3. QED BY <1>e, <1>k, <2>1, <2>2 DEF Kept
<1>5. CASE RelayClient
  <2>1. pc["client"] = "relay" /\ UNCHANGED <<pc, unread>>
    BY <1>5 DEF RelayClient
  <2>2. CASE /\ local # <<>> /\ local' = Tail(local) /\ tunnel' = Append(tunnel, Head(local))
             /\ UNCHANGED <<back, got>>
    <3>1. local = <<Early>> /\ EarlyData = <<Early>> /\ got["server"] = <<>> /\ tunnel = <<>>
      BY <1>k, <2>1, <2>2 DEF InOnePlace
    <3>2. local' = <<>> /\ tunnel' = <<Early>>
      BY <2>2, <3>1, OneField
    <3>3. QED BY <1>e, <1>k, <2>1, <2>2, <3>1, <3>2 DEF Kept, InOnePlace
  <2>3. CASE /\ back # <<>> /\ back' = Tail(back) /\ Copied(Head(back), "client")
             /\ UNCHANGED <<local, tunnel>>
    <3>1. back = <<Greeting>> /\ got["client"] = <<>> /\ unread = <<>>
      BY <1>k, <2>1, <2>3 DEF InOnePlace
    <3>2. back' = <<>> /\ got' = [got EXCEPT !["client"] = <<Greeting>>]
      BY <2>3, <3>1, OneField DEF Copied
    <3>3. /\ got' \in [Tasks -> {<<>>, <<Early>>, <<Greeting>>}]
          /\ got'["client"] = <<Greeting>> /\ got'["server"] = got["server"]
      BY <1>k, <3>2 DEF Tasks
    <3>4. QED BY <1>e, <1>k, <2>1, <2>3, <3>1, <3>2, <3>3 DEF Kept, InOnePlace
  <2>4. QED BY <1>5, <2>2, <2>3 DEF RelayClient
<1>6. CASE RelayServer
  <2>1. pc["server"] = "relay" /\ UNCHANGED <<pc, local>>
    BY <1>6 DEF RelayServer
  <2>2. CASE /\ unread # <<>> /\ unread' = Tail(unread) /\ back' = Append(back, Head(unread))
             /\ UNCHANGED <<tunnel, got>>
    <3>1. CASE pc["client"] = "relay"
      <4>1. unread = <<Greeting>> /\ back = <<>> /\ got["client"] = <<>>
        BY <1>k, <2>2, <3>1 DEF InOnePlace
      <4>2. unread' = <<>> /\ back' = <<Greeting>>
        BY <2>2, <4>1, OneField
      <4>3. QED BY <1>e, <1>k, <2>1, <2>2, <3>1, <4>1, <4>2 DEF Kept, InOnePlace
    <3>2. CASE pc["client"] # "relay"
      BY <1>e, <1>k, <2>1, <2>2, <3>2 DEF Kept
    <3>3. QED BY <3>1, <3>2
  <2>3. CASE /\ tunnel # <<>> /\ tunnel' = Tail(tunnel) /\ Copied(Head(tunnel), "server")
             /\ UNCHANGED <<unread, back>>
    <3>1. pc["client"] = "relay"
      BY <2>1, <2>3 DEF InStep
    <3>2. tunnel = <<Early>> /\ EarlyData = <<Early>> /\ got["server"] = <<>> /\ local = <<>>
      BY <1>k, <2>3, <3>1 DEF InOnePlace
    <3>3. tunnel' = <<>> /\ got' = [got EXCEPT !["server"] = <<Early>>]
      BY <2>3, <3>2, OneField DEF Copied
    <3>4. /\ got' \in [Tasks -> {<<>>, <<Early>>, <<Greeting>>}]
          /\ got'["server"] = <<Early>> /\ got'["client"] = got["client"]
      BY <1>k, <3>3 DEF Tasks
    <3>5. QED BY <1>e, <1>k, <2>1, <2>3, <3>1, <3>2, <3>3, <3>4 DEF Kept, InOnePlace
  <2>4. QED BY <1>6, <2>2, <2>3 DEF RelayServer
<1>7. CASE ConnectionLost
  <2>1. UNCHANGED <<pc, local, tunnel, back, unread, got>>
    BY <1>7 DEF ConnectionLost, data
  <2>2. QED BY <1>e, <1>k, <2>1 DEF Kept, InOnePlace
<1>8. QED BY <1>1, <1>2, <1>3, <1>4, <1>5, <1>6, <1>7 DEF Next, ClientStep, ServerStep

--------------------------------------------------------------------------------
(* Nothing has been answered and nothing moved at first...                        *)
LEMMA InitData == Init => DataInv
<1> SUFFICES ASSUME Init PROVE DataInv
  OBVIOUS
<1>1. AskInv
  BY InitAsk
<1>2. InStep
  <2>1. ~ WasRead
    BY DEF Init, Tasks, WasRead
  <2>2. pc["client"] = "methods" /\ pc["server"] = "absent" /\ lookup = <<>> /\ dial = "none"
    BY DEF Init
  <2>3. QED BY <2>1, <2>2 DEF InStep
<1>3. Answered
  BY DEF Init, Answered
<1>4. Kept
  <2>1. got \in [Tasks -> {<<>>, <<Early>>, <<Greeting>>}] /\ \A t \in Tasks : got[t] = <<>>
    BY Zenon DEF Init
  <2>2. QED BY <2>1 DEF Init, Kept, Tasks
<1>5. QED BY <1>1, <1>2, <1>3, <1>4 DEF DataInv, TruthInv

(* ... and every step keeps the invariant.                                        *)
LEMMA NextData == DataInv /\ [Next]_vars => DataInv'
<1> SUFFICES ASSUME DataInv, [Next]_vars PROVE DataInv'
  OBVIOUS
<1>1. AskInv /\ InStep /\ Answered /\ Kept
  BY DEF DataInv, TruthInv
<1>2. AskInv'
  BY <1>1, NextAsk
<1>3. CASE Next
  <2>1. InStep'
    BY <1>1, <1>3, NextInStep
  <2>2. Answered'
    BY <1>1, <1>3, ClientAnswersTruly, ServerAnswersTruly, LossAnswersNothing DEF Next
  <2>3. Kept'
    BY <1>1, <1>3, <2>1, NextKept
  <2>4. QED BY <1>2, <2>1, <2>2, <2>3 DEF DataInv, TruthInv
<1>4. CASE UNCHANGED vars
  <2>1. /\ UNCHANGED <<program, pc, local, request, tunnel, lookup>>
        /\ UNCHANGED <<dial, back, unread, got>>
    BY <1>4 DEF vars, given, network, data
  <2>2. EarlyData' = EarlyData /\ WasRead' = WasRead
    BY <2>1 DEF EarlyData, WasRead
  <2>3. InStep'
    BY <1>1, <2>1, <2>2 DEF InStep
  <2>4. Answered'
    BY <1>1, <1>4, LossAnswersNothing
  <2>5. Kept'
    BY <1>1, <2>1, <2>2 DEF Kept, InOnePlace
  <2>6. QED BY <1>2, <2>3, <2>4, <2>5 DEF DataInv, TruthInv
<1>5. QED BY <1>3, <1>4

(* Whatever code a program is sent stands for what has happened to its request.   *)
THEOREM RepliesAreTrue == Spec => []RepliesTruthfully
<1>1. DataInv => RepliesTruthfully
  BY DEF DataInv, TruthInv, Answered, Truths, RepliesTruthfully
<1>2. QED BY InitData, NextData, <1>1, PTL DEF Spec

(* What is in one place is all there is in the three together.                    *)
LEMMA AddsUp ==
    ASSUME NEW a, NEW b, NEW c, NEW item, NEW x, item = <<>> \/ item = <<x>>,
           InOnePlace(a, b, c, item)
    PROVE  a \o b \o c = item
<1>1. <<>> \in Seq({x}) /\ <<x>> \in Seq({x})
  OBVIOUS
<1>2. \A s \in Seq({x}) : <<>> \o s = s /\ s \o <<>> = s
  BY ConcatEmptySeq
<1>3. QED BY <1>1, <1>2 DEF InOnePlace

(* The data of either side passes the handshake untouched, and none of it is      *)
(* taken for part of the request or of the answer.                                *)
THEOREM DataIsKept == Spec => []DataIsNotTouched
<1>1. DataInv => DataIsNotTouched
  <2> SUFFICES ASSUME DataInv, pc["client"] = "relay" PROVE DataIsNotTouched
    BY DEF DataIsNotTouched
  <2>1. /\ InOnePlace(got["client"], back, unread, <<Greeting>>)
        /\ InOnePlace(got["server"], tunnel, local, EarlyData)
        /\ EarlyData = <<>> \/ EarlyData = <<Early>>
    BY DEF DataInv, Kept
  <2>2. got["client"] \o back \o unread = <<Greeting>>
    BY <2>1, AddsUp
  <2>3. got["server"] \o tunnel \o local = EarlyData
    <3> DEFINE item == EarlyData
    <3>1. /\ InOnePlace(got["server"], tunnel, local, item)
          /\ item = <<>> \/ item = <<Early>>
      BY <2>1
    <3> HIDE DEF item
    <3>2. got["server"] \o tunnel \o local = item
      BY <3>1, AddsUp
    <3>3. QED BY <3>2 DEF item
  <2>4. QED BY <2>2, <2>3 DEF DataIsNotTouched, EarlyData
<1>2. QED BY InitData, NextData, <1>1, PTL DEF Spec
================================================================================
