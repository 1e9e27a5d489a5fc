-------------------------- MODULE OpenAiExchangeProofs --------------------------
(* Proofs about OpenAiExchange, for any number of pieces the provider's body is   *)
(* made of and any window of the stream.                                          *)
EXTENDS OpenAiExchange, SequenceTheorems, TLAPS

Has(s, tokens) == \E i \in 1..Len(s) : s[i] \in tokens
Ends(s) == Has(s, {"end"})
EndsLast(s) == \A i \in 1..Len(s) : s[i] = "end" => i = Len(s)
(* s continues a response of which n tokens came before: the first token of all   *)
(* is a status, and no other one.                                                 *)
Continues(s, n) == \A i \in 1..Len(s) : s[i] \in Statuses <=> i + n = 1

(* The answers given in the provider's stead, the health check's among them.      *)
Refusals == {"200", "400", "408", "501", "503"}
Refusing(s) == Has(s, Refusals)

(* The client still takes tokens from the stream, or will.                        *)
Listens == cpc \notin {"report", "done"}
(* The server has not begun to answer.                                            *)
Untold == spc \in {"absent", "read", "asked", "first"}

(* What is known of the queues and counters at each suspension point.             *)
Stages ==
    /\ cpc \in {"read", "open"} => ~ opened /\ ~ reqFin
    /\ cpc \in {"open", "send", "await", "stream"} \/ opened => kind # "malformed"
    /\ cpc \in {"read", "open", "send", "await"} => local = <<>>
    /\ cpc = "stream" => local # <<>>
    /\ cpc # "report" => report = <<>>
    /\ ~ opened => spc = "absent"
    /\ Untold => down = <<>> /\ chunks = 0 /\ (Listens => local = <<>>)
    /\ spc = "write" <=> out # <<>>
    /\ EndsLast(out)

(* Only a plain request is forwarded, once, after all of it was read.             *)
AskedOnce ==
    /\ spc \in {"absent", "read"} => asked = 0
    /\ asked \in {0, 1}
    /\ asked = 1 => kind = "plain" /\ got = Parts

(* Wherever a refusal is on its way, the provider will not be asked any more.     *)
RefusalsAreFinal ==
    Refusing(local) \/ Refusing(report) \/ Refusing(down) \/ Refusing(out) =>
        asked = 0 /\ (opened => spc \notin {"absent", "read"})

(* What the local peer has and what is on its way to it make one response.        *)
OnTheWay ==
    /\ Continues(down, Len(local)) /\ EndsLast(down)
    /\ Continues(out, Len(local) + Len(down))
    /\ spc = "more" => local # <<>> \/ down # <<>>
    /\ Ends(local) => down = <<>>
    /\ Ends(local) \/ Ends(down) => spc = "done"

InOrder ==
    /\ Continues(local, 0) /\ EndsLast(local)
    /\ Continues(report, Len(local)) /\ EndsLast(report)
    /\ Ends(local) => report = <<>>
    /\ Listens => OnTheWay

(* The response is the provider's, judged by its first token.                     *)
IsProviders(s) == s # <<>> /\ s[1] = "provider"
ProvidersOwn ==
    \/ IsProviders(local)
    \/ local = <<>> /\ IsProviders(down)
    \/ local = <<>> /\ down = <<>> /\ IsProviders(out)

Total == Len(local) + Len(down) + Len(out)

(* Nothing of a provider's response is lost or added between its arrival at the   *)
(* server and the local connection, as long as both tasks go on.                  *)
InTransit ==
    ProvidersOwn =>
        /\ spc = "more" \/ (spc = "write" /\ ~ Ends(out)) => Total = chunks + 1
        /\ Ends(local) \/ Ends(down) \/ Ends(out) => ended /\ Total = chunks + 2
Settled ==
    IsProviders(local) /\ Ends(local) => spc = "done" /\ ended /\ Len(local) = chunks + 2
Counted ==
    /\ Listens => InTransit
    /\ Settled
    /\ cpc = "report" => ~ IsProviders(local) /\ ~ IsProviders(report)

(* A response of the server that has ended leaves something to read.              *)
Heard ==
    /\ downStopped => cpc = "done"
    /\ downFin /\ Listens => lost \/ local # <<>> \/ down # <<>>
    /\ cpc = "report" => local # <<>> \/ report # <<>>
    /\ SilentOnlyWhenTunnelFails

IInv ==
    /\ TypeOK
    /\ Stages
    /\ AskedOnce
    /\ RefusalsAreFinal
    /\ InOrder
    /\ Counted
    /\ Heard

USE DEF localVars, clientVars, request, response, serverVars, provider

--------------------------------------------------------------------------------
(* What taking the first token off a queue leaves...                              *)
LEMMA TailFacts ==
    ASSUME NEW S, NEW s \in Seq(S), s # <<>>
    PROVE  /\ Head(s) = s[1] /\ s[1] \in S
           /\ Len(s) \in Nat \ {0}
           /\ Tail(s) \in Seq(S) /\ Len(Tail(s)) = Len(s) - 1
           /\ Tail(s) = <<>> <=> Len(s) = 1
           /\ \A i \in 1..Len(Tail(s)) : Tail(s)[i] = s[i + 1]
<1>1. /\ Head(s) = s[1] /\ s[1] \in S
      /\ Len(s) \in Nat \ {0}
      /\ Tail(s) \in Seq(S) /\ Len(Tail(s)) = Len(s) - 1
      /\ \A i \in 1..Len(Tail(s)) : Tail(s)[i] = s[i + 1]
  BY SMT
<1>2. Tail(s) = <<>> <=> Len(Tail(s)) = 0
  BY <1>1, EmptySeq
<1>3. QED BY <1>1, <1>2

(* ... and what one more token makes of it.                                       *)
LEMMA AppendFacts ==
    ASSUME NEW S, NEW s \in Seq(S), NEW e \in S
    PROVE  /\ Len(s) \in Nat
           /\ Append(s, e) \in Seq(S) /\ Len(Append(s, e)) = Len(s) + 1
           /\ Append(s, e) # <<>>
           /\ Append(s, e)[Len(s) + 1] = e
           /\ \A i \in 1..Len(s) : Append(s, e)[i] = s[i]
BY SMT

(* An answer of the proxy's own.                                                  *)
LEMMA PlainFacts ==
    ASSUME NEW s \in Statuses \ {"provider"}
    PROVE  /\ Plain(s) \in Seq(Tokens) /\ Plain(s) # <<>> /\ Len(Plain(s)) = 2
           /\ Plain(s)[1] = s /\ Plain(s)[2] = "end"
           /\ Head(Plain(s)) = s
BY DEF Plain, Tokens, Statuses

(* An empty queue, ...                                                            *)
LEMMA EmptyFacts ==
    ASSUME NEW tokens, NEW n
    PROVE  ~ Has(<<>>, tokens) /\ Continues(<<>>, n) /\ EndsLast(<<>>)
BY DEF Has, Continues, EndsLast

(* ... one whose first token is taken, ...                                        *)
LEMMA TailKeeps ==
    ASSUME NEW s \in Seq(Tokens), s # <<>>
    PROVE  /\ \A tokens : Has(s, tokens) <=> Head(s) \in tokens \/ Has(Tail(s), tokens)
           /\ \A n \in Nat : Continues(s, n) =>
                 Continues(Tail(s), n + 1) /\ (Head(s) \in Statuses <=> n = 0)
           /\ EndsLast(s) => EndsLast(Tail(s)) /\ (Head(s) = "end" => Tail(s) = <<>>)
<1> DEFINE r == Tail(s)
<1>1. /\ Head(s) = s[1] /\ Len(s) \in Nat \ {0}
      /\ Len(r) = Len(s) - 1
      /\ r = <<>> <=> Len(s) = 1
      /\ \A i \in 1..Len(r) : r[i] = s[i + 1]
  BY TailFacts
<1> HIDE DEF r
<1>2. ASSUME NEW tokens
      PROVE  Has(s, tokens) <=> s[1] \in tokens \/ Has(r, tokens)
  <2>1. ASSUME NEW i \in 1..Len(s), i # 1 PROVE i - 1 \in 1..Len(r) /\ r[i - 1] = s[i]
    BY <1>1, <2>1
  <2>2. Has(s, tokens) => s[1] \in tokens \/ Has(r, tokens)
    BY <2>1 DEF Has
  <2>3. s[1] \in tokens => Has(s, tokens)
    BY <1>1 DEF Has
  <2>4. Has(r, tokens) => Has(s, tokens)
    <3>1. ASSUME NEW i \in 1..Len(r) PROVE i + 1 \in 1..Len(s) /\ s[i + 1] = r[i]
      BY <1>1, <3>1
    <3>2. QED BY <3>1 DEF Has
  <2>5. QED BY <2>2, <2>3, <2>4
<1>3. ASSUME NEW n \in Nat, Continues(s, n)
      PROVE  Continues(r, n + 1) /\ (s[1] \in Statuses <=> n = 0)
  BY <1>1, <1>3 DEF Continues
<1>4. ASSUME EndsLast(s) PROVE EndsLast(r) /\ (s[1] = "end" => r = <<>>)
  BY <1>1, <1>4 DEF EndsLast
<1>5. \A tokens : Has(s, tokens) <=> Head(s) \in tokens \/ Has(r, tokens)
  BY <1>1, <1>2
<1>6. \A n \in Nat : Continues(s, n) =>
          Continues(r, n + 1) /\ (Head(s) \in Statuses <=> n = 0)
  BY <1>1, <1>3
<1>7. EndsLast(s) => EndsLast(r) /\ (Head(s) = "end" => r = <<>>)
  BY <1>1, <1>4
<1>8. QED BY <1>5, <1>6, <1>7 DEF r

(* ... one with a token more, ...                                                 *)
LEMMA AppendKeeps ==
    ASSUME NEW s \in Seq(Tokens), NEW e \in Tokens
    PROVE  /\ \A tokens : Has(Append(s, e), tokens) <=> Has(s, tokens) \/ e \in tokens
           /\ \A n \in Nat : Continues(s, n) /\ (e \in Statuses <=> n + Len(s) = 0) =>
                 Continues(Append(s, e), n)
           /\ EndsLast(s) /\ ~ Ends(s) => EndsLast(Append(s, e))
<1> DEFINE r == Append(s, e)
<1>1. /\ Len(s) \in Nat /\ Len(r) = Len(s) + 1
      /\ r[Len(s) + 1] = e
      /\ \A i \in 1..Len(s) : r[i] = s[i]
      /\ s = <<>> <=> Len(s) = 0
  BY AppendFacts, EmptySeq
<1> HIDE DEF r
<1>2. ASSUME NEW tokens
      PROVE  Has(r, tokens) <=> Has(s, tokens) \/ e \in tokens
  BY <1>1 DEF Has
<1>3. ASSUME NEW n \in Nat, Continues(s, n), e \in Statuses <=> n + Len(s) = 0
      PROVE  Continues(r, n)
  BY <1>1, <1>3 DEF Continues
<1>4. ASSUME EndsLast(s), ~ Ends(s) PROVE EndsLast(r)
  BY <1>1, <1>4 DEF EndsLast, Ends, Has
<1>5. QED BY <1>2, <1>3, <1>4 DEF r

(* ... and a response of the proxy's own.                                         *)
LEMMA PlainKeeps ==
    ASSUME NEW s \in Statuses \ {"provider"}
    PROVE  /\ \A tokens : Has(Plain(s), tokens) <=> s \in tokens \/ "end" \in tokens
           /\ Continues(Plain(s), 0) /\ EndsLast(Plain(s))
<1> DEFINE r == Plain(s)
<1>1. Len(r) = 2 /\ r[1] = s /\ r[2] = "end"
  BY PlainFacts
<1> HIDE DEF r
<1>2. \A i \in 1..Len(r) : i = 1 \/ i = 2
  BY <1>1
<1>3. "end" \notin Statuses /\ s \in Statuses /\ s # "end"
  BY DEF Statuses
<1>4. ASSUME NEW tokens PROVE Has(r, tokens) <=> s \in tokens \/ "end" \in tokens
  BY <1>1, <1>2 DEF Has
<1>5. Continues(r, 0) /\ EndsLast(r)
  BY <1>1, <1>2, <1>3 DEF Continues, EndsLast
<1>6. QED BY <1>4, <1>5 DEF r

(* The opening, if it has not been written yet, and one more token.               *)
LEMMA OpeningFacts ==
    ASSUME NEW e \in {"data", "end"}
    PROVE  LET s == Opening \o <<e>>
           IN  /\ s \in Seq(Tokens) /\ s # <<>>
               /\ spc = "first" => Len(s) = 2 /\ s[1] = "provider" /\ s[2] = e
               /\ spc # "first" => Len(s) = 1 /\ s[1] = e
<1> DEFINE t == <<e>>
           s == Opening \o t
<1>0. "provider" \in Tokens /\ e \in Tokens
  BY DEF Tokens, Statuses
<1>1. /\ t \in Seq(Tokens) /\ Len(t) = 1 /\ t[1] = e
      /\ Opening \in Seq(Tokens)
      /\ spc = "first" => Len(Opening) = 1 /\ Opening[1] = "provider"
      /\ spc # "first" => Len(Opening) = 0
  <2>1. <<e>> \in Seq(Tokens) /\ Len(<<e>>) = 1 /\ <<e>>[1] = e
    BY <1>0
  <2>2. CASE spc = "first"
    BY <1>0, <2>1, <2>2 DEF Opening
  <2>3. CASE spc # "first"
    BY <2>1, <2>3 DEF Opening
  <2>4. QED BY <2>2, <2>3
<1> HIDE DEF t
<1>2. /\ s \in Seq(Tokens) /\ Len(s) = Len(Opening) + Len(t)
      /\ \A i \in 1..Len(Opening) + Len(t) :
            s[i] = IF i <= Len(Opening) THEN Opening[i] ELSE t[i - Len(Opening)]
  BY <1>1, ConcatProperties
<1> HIDE DEF s
<1>3. s # <<>> /\ s \in Seq(Tokens)
  BY <1>1, <1>2
<1>4. spc = "first" => Len(s) = 2 /\ s[1] = "provider" /\ s[2] = e
  <2> SUFFICES ASSUME spc = "first" PROVE Len(s) = 2 /\ s[1] = "provider" /\ s[2] = e
    OBVIOUS
  <2>0. Len(Opening) = 1 /\ Opening[1] = "provider"
    BY <1>1
  <2>1. Len(s) = 2
    BY <1>1, <1>2, <2>0
  <2>2. s[1] = Opening[1]
    BY <1>1, <1>2, <2>0
  <2>3. s[2] = t[1]
    <3>1. 2 \in 1..Len(Opening) + Len(t) /\ ~ (2 <= Len(Opening)) /\ 2 - Len(Opening) = 1
      BY <1>1, <2>0
    <3>2. QED BY <1>2, <3>1
  <2>4. QED BY <1>1, <2>0, <2>1, <2>2, <2>3
<1>5. spc # "first" => Len(s) = 1 /\ s[1] = e
  BY <1>1, <1>2
<1>6. QED BY <1>3, <1>4, <1>5 DEF s, t

--------------------------------------------------------------------------------
(* A local connection is accepted: nothing is on its way.                         *)
LEMMA InitInvariant == Init => IInv
<1> SUFFICES ASSUME Init PROVE IInv
  OBVIOUS
<1> USE DEF Init
<1>1. TypeOK
  <2>1. <<>> \in Seq(Tokens) /\ Len(<<>>) = 0
    OBVIOUS
  <2>2. 0 \in 0..Parts /\ 0 \in 0..MaxChunks /\ 0 <= Window
    BY BoundsAssumption DEF Parts
  <2>3. {opened, reqFin, reqStopped, downFin, downStopped, lost, ended} \subseteq BOOLEAN
    OBVIOUS
  <2>4. QED BY <2>1, <2>2, <2>3 DEF TypeOK
<1>2. Len(local) = 0 /\ Len(report) = 0 /\ Len(down) = 0 /\ Len(out) = 0
  OBVIOUS
<1>3. Stages /\ AskedOnce
  BY <1>2 DEF Stages, AskedOnce, Untold, Listens, EndsLast, Kinds
<1>4. RefusalsAreFinal
  BY <1>2 DEF RefusalsAreFinal, Refusing, Has
<1>5. InOrder
  BY <1>2 DEF InOrder, OnTheWay, Continues, Ends, Has, EndsLast
<1>6. Counted /\ Heard
  BY DEF Counted, InTransit, Settled, Heard, ProvidersOwn, IsProviders, SilentOnlyWhenTunnelFails
<1>7. QED BY <1>1, <1>3, <1>4, <1>5, <1>6 DEF IInv

(* The queues hold tokens, and no more of them than the window allows, ...        *)
QueuesOK ==
    /\ local \in Seq(Tokens) /\ report \in Seq(Tokens)
    /\ down \in Seq(Tokens) /\ out \in Seq(Tokens)
    /\ Len(down) <= Window

(* Every step takes from and adds to the queues no more than they hold, ...       *)
LEMMA NextQueuesOK == TypeOK /\ Stages /\ [Next]_vars => QueuesOK'
<1> SUFFICES ASSUME TypeOK, Stages, [Next]_vars PROVE QueuesOK'
  OBVIOUS
<1>0. QueuesOK /\ Window \in Nat \ {0}
  BY BoundsAssumption DEF TypeOK, QueuesOK
<1>1. <<>> \in Seq(Tokens)
  OBVIOUS
<1>2. /\ Plain("400") \in Seq(Tokens) /\ Plain("408") \in Seq(Tokens)
      /\ Plain("501") \in Seq(Tokens) /\ Plain("502") \in Seq(Tokens)
      /\ Plain("503") \in Seq(Tokens) /\ Plain("504") \in Seq(Tokens)
      /\ Plain("200") \in Seq(Tokens)
  BY PlainFacts DEF Statuses
<1> USE <1>0, <1>1, <1>2 DEF QueuesOK
<1>3. CASE \/ ReadLocalRequest \/ OpenTunnelStream
           \/ SendPart \/ FinishRequest \/ SendFails \/ SendTimesOut
           \/ ResponseEnds \/ ResponseFails \/ ResponseTimesOut
  BY <1>3 DEF ReadLocalRequest, OpenTunnelStream, SendPart, FinishRequest, SendFails,
         SendTimesOut, ResponseEnds, ResponseFails, ResponseTimesOut, Reports, ClientEnds
<1>4. CASE CopyResponse
  <2>1. down # <<>> => /\ Append(local, Head(down)) \in Seq(Tokens)
                      /\ Tail(down) \in Seq(Tokens) /\ Len(Tail(down)) <= Window
    BY TailFacts, AppendFacts
  <2>2. QED BY <1>4, <2>1 DEF CopyResponse, ClientEnds
<1>5. CASE WriteReport
  <2>1. report # <<>> => /\ Append(local, Head(report)) \in Seq(Tokens)
                        /\ Tail(report) \in Seq(Tokens)
    BY TailFacts, AppendFacts
  <2>2. QED BY <1>5, <2>1 DEF WriteReport, ClientEnds
<1>6. CASE \/ AcceptStream \/ ReadPart \/ ReadFails \/ ReadTimesOut
           \/ ProviderTimesOut \/ ProviderFails \/ ProviderResponds
           \/ ProviderBreaksOff \/ WriteFails
  BY <1>6 DEF AcceptStream, ReadPart, ReadFails, ReadTimesOut, ProviderTimesOut,
         ProviderFails, ProviderResponds, ProviderBreaksOff, WriteFails, Writes,
         DropsRequest, ServerEnds
<1>7. CASE ReadRequest
  <2>1. kind \in {"chunked", "health", "unmappable", "plain"}
    BY <1>7 DEF Kinds, TypeOK, Stages, ReadRequest
  <2>2. QED BY <1>7, <2>1 DEF ReadRequest, Writes, DropsRequest
<1>8. CASE ProviderSendsChunk \/ ProviderEndsBody
  <2>1. out' \in Seq(Tokens)
    BY <1>8, OpeningFacts DEF ProviderSendsChunk, ProviderEndsBody, Writes
  <2>2. QED BY <1>8, <2>1 DEF ProviderSendsChunk, ProviderEndsBody, Writes
<1>9. CASE WriteToken
  <2>1. /\ Append(down, Head(out)) \in Seq(Tokens)
        /\ Len(Append(down, Head(out))) <= Window
        /\ Tail(out) \in Seq(Tokens)
    BY <1>9, TailFacts, AppendFacts DEF WriteToken, Stages
  <2>2. QED BY <1>9, <2>1 DEF WriteToken
<1>10. CASE LocalPeer \/ ConnectionLost \/ UNCHANGED vars
  BY <1>10 DEF LocalPeer, ConnectionLost, vars
<1>11. QED
  BY <1>3, <1>4, <1>5, <1>6, <1>7, <1>8, <1>9, <1>10
  DEF Next, ClientStep, ServerStep, ProviderStep

(* ... and the rest of the state keeps its ranges.                                *)
LEMMA NextTypeOK == TypeOK /\ Stages /\ [Next]_vars => TypeOK'
<1> SUFFICES ASSUME TypeOK, Stages, [Next]_vars PROVE TypeOK'
  OBVIOUS
<1> DEFINE Flags == {opened, reqFin, reqStopped, downFin, downStopped, lost, ended} \subseteq BOOLEAN
           Counts == sent \in 0..Parts /\ got \in 0..sent /\ asked \in Nat /\ chunks \in 0..MaxChunks
           Labels == /\ kind \in Kinds /\ peer \in {"reads", "stalled", "gone"}
                     /\ cpc \in {"read", "open", "send", "await", "stream", "report", "done"}
                     /\ spc \in {"absent", "read", "asked", "first", "more", "write", "done"}
<1>0. QueuesOK' /\ Flags /\ Counts /\ Labels
  BY NextQueuesOK DEF TypeOK
<1>p. QueuesOK' /\ Flags' /\ Counts' /\ Labels' => TypeOK'
  BY DEF TypeOK, QueuesOK
<1> USE <1>0, BoundsAssumption
<1> HIDE DEF Flags, Counts, Labels
<1>1. CASE ClientStep
  <2> USE <1>1 DEF ClientStep, ReadLocalRequest, OpenTunnelStream, SendPart, FinishRequest,
          SendFails, SendTimesOut, CopyResponse, ResponseEnds, ResponseFails,
          ResponseTimesOut, WriteReport, Reports, ClientEnds
  <2>1. Flags'
    BY DEF Flags
  <2>2. Counts'
    BY DEF Counts, Parts
  <2>3. Labels'
    BY DEF Labels
  <2>4. QED BY <1>p, <2>1, <2>2, <2>3
<1>2. CASE ServerStep
  <2> USE <1>2 DEF ServerStep, AcceptStream, ReadPart, ReadRequest, ReadFails, ReadTimesOut,
          ProviderTimesOut, WriteToken, WriteFails, Writes, DropsRequest, ServerEnds
  <2>1. Flags'
    BY DEF Flags
  <2>2. Counts'
    BY DEF Counts, Parts
  <2>3. Labels'
    BY DEF Labels
  <2>4. QED BY <1>p, <2>1, <2>2, <2>3
<1>3. CASE ProviderStep \/ LocalPeer \/ ConnectionLost \/ UNCHANGED vars
  <2> USE <1>3 DEF ProviderStep, ProviderFails, ProviderResponds, ProviderSendsChunk,
          ProviderEndsBody, ProviderBreaksOff, Writes, ServerEnds, LocalPeer,
          ConnectionLost, vars
  <2>1. Flags'
    BY DEF Flags
  <2>2. Counts'
    BY DEF Counts, Parts
  <2>3. Labels'
    BY DEF Labels
  <2>4. QED BY <1>p, <2>1, <2>2, <2>3
<1>4. QED BY <1>1, <1>2, <1>3 DEF Next

(* Every step leads to a point where the queues are as Stages says.               *)
LEMMA NextStages == TypeOK /\ Stages /\ [Next]_vars => Stages'
<1> SUFFICES ASSUME TypeOK, Stages, [Next]_vars PROVE Stages'
  OBVIOUS
<1> USE DEF Stages, Untold, Listens
<1>0. ASSUME UNCHANGED out PROVE EndsLast(out)'
  BY <1>0 DEF EndsLast
<1>1. \A s \in Statuses \ {"provider"} : Plain(s) # <<>> /\ EndsLast(Plain(s))
  <2> SUFFICES ASSUME NEW s \in Statuses \ {"provider"}
               PROVE  Plain(s) # <<>> /\ EndsLast(Plain(s))
    OBVIOUS
  <2>1. Plain(s) # <<>> /\ Len(Plain(s)) = 2 /\ Plain(s)[1] # "end"
    BY PlainFacts DEF Statuses
  <2>2. QED BY <2>1 DEF EndsLast
<1>2. CASE ReadLocalRequest \/ OpenTunnelStream \/ SendPart \/ FinishRequest \/ SendTimesOut
  BY <1>0, <1>2 DEF ReadLocalRequest, OpenTunnelStream, SendPart, FinishRequest,
         SendTimesOut, Reports
<1>3. CASE SendFails \/ ResponseEnds \/ ResponseFails \/ ResponseTimesOut
  BY <1>0, <1>3 DEF SendFails, ResponseEnds, ResponseFails, ResponseTimesOut, Reports,
         ClientEnds
<1>4. CASE CopyResponse
  <2>1. down # <<>> => Append(local, Head(down)) # <<>>
    <3>1. down # <<>> => Head(down) \in Tokens
      BY TailFacts DEF TypeOK
    <3>2. QED BY <3>1, AppendFacts DEF TypeOK
  <2>2. QED BY <1>0, <1>4, <2>1 DEF CopyResponse, ClientEnds
<1>5. CASE WriteReport
  BY <1>0, <1>5 DEF WriteReport, ClientEnds
<1>6. CASE AcceptStream \/ ReadPart \/ ReadFails \/ ReadTimesOut
  BY <1>0, <1>1, <1>6 DEF AcceptStream, ReadPart, ReadFails, ReadTimesOut, Writes,
         DropsRequest, Statuses
<1>7. CASE ReadRequest
  <2>1. kind \in {"chunked", "health", "unmappable", "plain"}
    BY <1>7 DEF Kinds, TypeOK, ReadRequest
  <2>2. QED BY <1>0, <1>1, <1>7, <2>1 DEF ReadRequest, Writes, DropsRequest, Statuses
<1>8. CASE ProviderTimesOut \/ ProviderFails \/ ProviderResponds
  BY <1>0, <1>1, <1>8 DEF ProviderTimesOut, ProviderFails, ProviderResponds, Writes, Statuses
<1>9. CASE ProviderSendsChunk \/ ProviderEndsBody
  <2>1. out' # <<>> /\ EndsLast(out')
    BY <1>9, OpeningFacts DEF ProviderSendsChunk, ProviderEndsBody, Writes, EndsLast
  <2>2. QED BY <1>9, <2>1 DEF ProviderSendsChunk, ProviderEndsBody, Writes
<1>10. CASE ProviderBreaksOff \/ WriteFails
  <2>1. EndsLast(<<>>)
    BY DEF EndsLast
  <2>2. QED
    BY <1>1, <1>10, <2>1 DEF ProviderBreaksOff, WriteFails, Writes, ServerEnds, Statuses
<1>11. CASE WriteToken
  <2>1. /\ Head(out) = out[1] /\ Len(out) \in Nat \ {0}
        /\ Tail(out) = <<>> <=> Len(out) = 1
        /\ EndsLast(Tail(out))
    BY <1>11, TailFacts DEF WriteToken, TypeOK, EndsLast
  <2>2. Head(out) = "end" => Len(out) = 1
    BY <2>1 DEF EndsLast
  <2>3. QED BY <1>11, <2>1, <2>2 DEF WriteToken
<1>12. CASE LocalPeer \/ ConnectionLost \/ UNCHANGED vars
  BY <1>0, <1>12 DEF LocalPeer, ConnectionLost, vars
<1>13. QED
  BY <1>2, <1>3, <1>4, <1>5, <1>6, <1>7, <1>8, <1>9, <1>10, <1>11, <1>12
  DEF Next, ClientStep, ServerStep, ProviderStep

(* Only ReadRequest asks the provider, and leaves "read" for good.                *)
LEMMA NextAskedOnce ==
    TypeOK /\ Stages /\ AskedOnce /\ [Next]_vars => AskedOnce'
<1> SUFFICES ASSUME TypeOK, Stages, AskedOnce, [Next]_vars PROVE AskedOnce'
  OBVIOUS
<1> USE DEF AskedOnce
<1>1. CASE ClientStep
  BY <1>1 DEF ClientStep, ReadLocalRequest, OpenTunnelStream, SendPart, FinishRequest,
         SendFails, SendTimesOut, CopyResponse, ResponseEnds, ResponseFails,
         ResponseTimesOut, WriteReport, Reports, ClientEnds, Parts
<1>2. CASE ServerStep
  BY <1>2 DEF ServerStep, AcceptStream, ReadPart, ReadRequest, ReadFails, ReadTimesOut,
         ProviderTimesOut, WriteToken, WriteFails, Writes, DropsRequest, ServerEnds, Parts,
         TypeOK
<1>3. CASE ProviderStep \/ LocalPeer \/ ConnectionLost \/ UNCHANGED vars
  BY <1>3 DEF ProviderStep, ProviderFails, ProviderResponds, ProviderSendsChunk,
         ProviderEndsBody, ProviderBreaksOff, Writes, ServerEnds, LocalPeer,
         ConnectionLost, vars, Parts
<1>4. QED BY <1>1, <1>2, <1>3 DEF Next

(* A refusal is written only where the provider was not and will not be asked,    *)
(* and what moves it along leads nowhere else.                                    *)
LEMMA NextRefusalsAreFinal ==
    TypeOK /\ Stages /\ AskedOnce /\ RefusalsAreFinal /\ [Next]_vars => RefusalsAreFinal'
<1> SUFFICES ASSUME TypeOK, Stages, AskedOnce, RefusalsAreFinal, [Next]_vars
             PROVE  RefusalsAreFinal'
  OBVIOUS
<1> DEFINE OnItsWay == Refusing(local) \/ Refusing(report) \/ Refusing(down) \/ Refusing(out)
           Closed == asked = 0 /\ (opened => spc \notin {"absent", "read"})
<1>0. OnItsWay => Closed
  BY DEF RefusalsAreFinal
<1>p. (OnItsWay' => Closed') => RefusalsAreFinal'
  BY DEF RefusalsAreFinal
<1>e. ~ Refusing(<<>>)
  BY EmptyFacts DEF Refusing
<1>r. \A s \in Statuses \ {"provider"} : Refusing(Plain(s)) <=> s \in Refusals
  BY PlainKeeps DEF Refusing, Refusals
<1> USE <1>0, <1>e, <1>r DEF Stages, Untold, Listens
<1> HIDE DEF OnItsWay, Closed
<1>1. CASE ReadLocalRequest \/ OpenTunnelStream
  <2>1. local = <<>> /\ report = <<>> /\ down = <<>> /\ out = <<>> /\ asked = 0
    BY <1>1 DEF ReadLocalRequest, OpenTunnelStream, AskedOnce
  <2>2. OnItsWay' => Closed'
    BY <1>1, <2>1 DEF ReadLocalRequest, OpenTunnelStream, Reports, OnItsWay, Closed,
         Statuses, Refusals
  <2>3. QED BY <1>p, <2>2
<1>2. CASE \/ SendPart \/ FinishRequest \/ SendFails \/ SendTimesOut
           \/ ResponseEnds \/ ResponseFails \/ ResponseTimesOut
  <2>1. OnItsWay' => Closed'
    BY <1>2 DEF SendPart, FinishRequest, SendFails, SendTimesOut, ResponseEnds, ResponseFails,
         ResponseTimesOut, Reports, ClientEnds, OnItsWay, Closed, Statuses, Refusals
  <2>2. QED BY <1>p, <2>1
<1>3. CASE CopyResponse
  <2>1. down # <<>> =>
          (Refusing(Append(local, Head(down))) \/ Refusing(Tail(down)) =>
             Refusing(local) \/ Refusing(down))
    BY TailFacts, TailKeeps, AppendKeeps DEF TypeOK, Refusing
  <2>2. OnItsWay' => Closed'
    BY <1>3, <2>1 DEF CopyResponse, ClientEnds, OnItsWay, Closed
  <2>3. QED BY <1>p, <2>2
<1>4. CASE WriteReport
  <2>1. report # <<>> =>
          (Refusing(Append(local, Head(report))) \/ Refusing(Tail(report)) =>
             Refusing(local) \/ Refusing(report))
    BY TailFacts, TailKeeps, AppendKeeps DEF TypeOK, Refusing
  <2>2. OnItsWay' => Closed'
    BY <1>4, <2>1 DEF WriteReport, ClientEnds, OnItsWay, Closed
  <2>3. QED BY <1>p, <2>2
<1>5. CASE AcceptStream \/ ReadFails \/ ReadTimesOut
  <2>1. OnItsWay' => Closed'
    BY <1>5 DEF AcceptStream, ReadFails, ReadTimesOut, Writes, DropsRequest, OnItsWay, Closed,
         AskedOnce
  <2>2. QED BY <1>p, <2>1
<1>6. CASE ReadRequest
  <2>1. kind \in {"chunked", "health", "unmappable", "plain"} /\ opened
    BY <1>6 DEF Kinds, TypeOK, ReadRequest
  <2>2. OnItsWay' => Closed'
    BY <1>6, <2>1 DEF ReadRequest, Writes, DropsRequest, OnItsWay, Closed, AskedOnce
  <2>3. QED BY <1>p, <2>2
<1>7. CASE ProviderTimesOut \/ ProviderFails \/ ProviderBreaksOff \/ WriteFails
  <2>1. OnItsWay' => Closed'
    BY <1>7 DEF ProviderTimesOut, ProviderFails, ProviderBreaksOff, WriteFails, Writes,
         ServerEnds, OnItsWay, Closed, Statuses, Refusals
  <2>2. QED BY <1>p, <2>1
<1>8. CASE ProviderSendsChunk \/ ProviderEndsBody
  <2>1. ~ Refusing(out')
    <3>1. PICK e \in {"data", "end"} : out' = Opening \o <<e>>
      BY <1>8 DEF ProviderSendsChunk, ProviderEndsBody, Writes
    <3>2. QED BY <3>1, OpeningFacts DEF Refusing, Has, Refusals
  <2>2. OnItsWay' => Closed'
    BY <1>8, <2>1 DEF ProviderSendsChunk, ProviderEndsBody, Writes, OnItsWay, Closed
  <2>3. QED BY <1>p, <2>2
<1>9. CASE WriteToken
  <2>1. Refusing(Append(down, Head(out))) \/ Refusing(Tail(out)) =>
          Refusing(down) \/ Refusing(out)
    BY <1>9, TailFacts, TailKeeps, AppendKeeps DEF WriteToken, TypeOK, Refusing
  <2>2. OnItsWay' => Closed'
    BY <1>9, <2>1 DEF WriteToken, OnItsWay, Closed
  <2>3. QED BY <1>p, <2>2
<1>10. CASE ReadPart \/ ProviderResponds \/ LocalPeer \/ ConnectionLost \/ UNCHANGED vars
  <2>1. OnItsWay' => Closed'
    BY <1>10 DEF ReadPart, ProviderResponds, LocalPeer, ConnectionLost, vars, OnItsWay, Closed
  <2>2. QED BY <1>p, <2>1
<1>11. QED
  BY <1>1, <1>2, <1>3, <1>4, <1>5, <1>6, <1>7, <1>8, <1>9, <1>10
  DEF Next, ClientStep, ServerStep, ProviderStep

(* The next token of the response is appended where it belongs.                   *)
LEMMA NextInOrder ==
    TypeOK /\ Stages /\ InOrder /\ [Next]_vars => InOrder'
<1> SUFFICES ASSUME TypeOK, Stages, InOrder, [Next]_vars PROVE InOrder'
  OBVIOUS
<1> DEFINE Arrived == Continues(local, 0) /\ EndsLast(local)
           Reported == /\ Continues(report, Len(local)) /\ EndsLast(report)
                       /\ Ends(local) => report = <<>>
<1>0. Arrived /\ Reported /\ (Listens => OnTheWay)
  BY DEF InOrder
<1>p. Arrived' /\ Reported' /\ (Listens => OnTheWay)' => InOrder'
  BY DEF InOrder
<1>e. /\ ~ Ends(<<>>) /\ EndsLast(<<>>) /\ Len(<<>>) = 0
      /\ \A n \in Nat : Continues(<<>>, n)
  BY EmptyFacts DEF Ends
<1>r. \A s \in Statuses \ {"provider"} : Continues(Plain(s), 0) /\ EndsLast(Plain(s))
  BY PlainKeeps
<1>n. Len(local) \in Nat /\ Len(down) \in Nat /\ Len(report) \in Nat /\ Len(out) \in Nat
  BY DEF TypeOK
<1> USE <1>0, <1>e, <1>r, <1>n DEF Stages, Untold, Listens
<1> HIDE DEF Arrived, Reported
<1>1. ASSUME ReadLocalRequest \/ OpenTunnelStream \/ SendPart \/ FinishRequest \/ SendTimesOut
      PROVE  InOrder'
  <2> USE <1>1 DEF ReadLocalRequest, OpenTunnelStream, SendPart, FinishRequest, SendTimesOut,
                   Reports
  <2>1. Arrived'
    BY DEF Arrived
  <2>2. Reported'
    BY DEF Reported, Statuses
  <2>3. (Listens => OnTheWay)'
    BY DEF OnTheWay
  <2>4. QED BY <1>p, <2>1, <2>2, <2>3
<1>2. ASSUME SendFails \/ ResponseEnds \/ ResponseFails \/ ResponseTimesOut PROVE InOrder'
  <2> USE <1>2 DEF SendFails, ResponseEnds, ResponseFails, ResponseTimesOut, Reports, ClientEnds
  <2>1. Arrived'
    BY DEF Arrived
  <2>2. Reported'
    BY DEF Reported, Statuses
  <2>3. (Listens => OnTheWay)'
    BY DEF OnTheWay
  <2>4. QED BY <1>p, <2>1, <2>2, <2>3
<1>3. ASSUME CopyResponse PROVE InOrder'
  <2> USE <1>3
  <2>1. CASE ClientEnds /\ UNCHANGED local
    BY <1>p, <2>1 DEF ClientEnds, Arrived, Reported
  <2>2. CASE local' = Append(local, Head(down)) /\ down' = Tail(down) /\ cpc' = "stream"
    <3>1. /\ down # <<>> /\ cpc \in {"await", "stream"} /\ UNCHANGED <<report, out, spc>>
          /\ Head(down) \in Tokens
      BY <2>2, TailFacts DEF CopyResponse, TypeOK
    <3>2. /\ OnTheWay /\ ~ Ends(local)
          /\ Len(local') = Len(local) + 1 /\ local' # <<>>
          /\ Len(down') = Len(down) - 1
      BY <2>2, <3>1, TailFacts, AppendFacts DEF OnTheWay, TypeOK
    <3>3. /\ Head(down) \in Statuses <=> Len(local) = 0
          /\ Continues(down', Len(local) + 1)
          /\ EndsLast(down')
          /\ Head(down) = "end" => down' = <<>>
          /\ Ends(down) <=> Head(down) = "end" \/ Ends(down')
      BY <2>2, <3>1, <3>2, TailKeeps DEF OnTheWay, TypeOK, Ends
    <3>4. /\ Arrived'
          /\ Ends(local') <=> Head(down) = "end"
      <4>1. /\ Continues(local', 0) /\ EndsLast(local')
            /\ Ends(local') <=> Head(down) = "end"
        BY <2>2, <3>1, <3>2, <3>3, AppendKeeps DEF Arrived, TypeOK, Ends
      <4>2. QED BY <4>1 DEF Arrived
    <3>5. Reported'
      BY <2>2, <3>1 DEF Reported
    <3>6. OnTheWay'
      BY <2>2, <3>1, <3>2, <3>3, <3>4 DEF OnTheWay
    <3>7. QED BY <1>p, <3>4, <3>5, <3>6
  <2>3. QED BY <2>1, <2>2 DEF CopyResponse
<1>4. ASSUME WriteReport PROVE InOrder'
  <2> USE <1>4
  <2>1. CASE ClientEnds /\ UNCHANGED local
    BY <1>p, <2>1 DEF ClientEnds, Arrived, Reported
  <2>2. CASE /\ report # <<>> /\ local' = Append(local, Head(report)) /\ report' = Tail(report)
             /\ UNCHANGED cpc
    <3>1. /\ ~ Ends(local) /\ Len(local') = Len(local) + 1 /\ Head(report) \in Tokens
      BY <2>2, TailFacts, AppendFacts DEF Reported, TypeOK
    <3>2. /\ Head(report) \in Statuses <=> Len(local) = 0
          /\ Continues(report', Len(local) + 1)
          /\ EndsLast(report')
          /\ Head(report) = "end" => report' = <<>>
      BY <2>2, <3>1, TailKeeps DEF Reported, TypeOK
    <3>3. /\ Continues(local', 0) /\ EndsLast(local')
          /\ Ends(local') <=> Head(report) = "end"
      BY <2>2, <3>1, <3>2, AppendKeeps DEF Arrived, TypeOK, Ends
    <3>4. Arrived' /\ Reported'
      BY <3>1, <3>2, <3>3 DEF Arrived, Reported
    <3>5. ~ Listens'
      BY <2>2 DEF WriteReport
    <3>6. QED BY <1>p, <3>4, <3>5
  <2>3. QED BY <2>1, <2>2 DEF WriteReport
<1>5. ASSUME UNCHANGED <<local, report, cpc>>, (Listens => OnTheWay)' PROVE InOrder'
  <2>1. Arrived' /\ Reported'
    BY <1>5 DEF Arrived, Reported
  <2>2. QED BY <1>5, <1>p, <2>1
<1>6. ASSUME \/ AcceptStream \/ ReadPart \/ ReadFails \/ ReadTimesOut
             \/ ProviderTimesOut \/ ProviderFails \/ ProviderResponds
             \/ ProviderBreaksOff \/ WriteFails
      PROVE  InOrder'
  <2> USE <1>6 DEF AcceptStream, ReadPart, ReadFails, ReadTimesOut, ProviderTimesOut,
          ProviderFails, ProviderResponds, ProviderBreaksOff, WriteFails, Writes,
          DropsRequest, ServerEnds
  <2>1. (Listens => OnTheWay)'
    BY DEF OnTheWay, Statuses
  <2>2. QED BY <1>5, <2>1
<1>7. ASSUME ReadRequest PROVE InOrder'
  <2>1. kind \in {"chunked", "health", "unmappable", "plain"}
    BY <1>7 DEF Kinds, TypeOK, ReadRequest
  <2>2. (Listens => OnTheWay)'
    BY <1>7, <2>1 DEF ReadRequest, Writes, DropsRequest, OnTheWay, Statuses
  <2>3. QED BY <1>5, <1>7, <2>2 DEF ReadRequest
<1>8. ASSUME ProviderSendsChunk \/ ProviderEndsBody PROVE InOrder'
  <2>1. PICK e \in {"data", "end"} : out' = Opening \o <<e>>
    BY <1>8 DEF ProviderSendsChunk, ProviderEndsBody, Writes
  <2>2. CASE spc = "first"
    <3>1. Len(out') = 2 /\ out'[1] = "provider" /\ out'[2] = e
      BY <2>1, <2>2, OpeningFacts
    <3>2. Continues(out', 0)
      BY <3>1 DEF Continues, Statuses
    <3>3. (Listens => OnTheWay)'
      BY <1>8, <2>2, <3>2 DEF ProviderSendsChunk, ProviderEndsBody, Writes, OnTheWay
    <3>4. QED BY <1>5, <1>8, <3>3 DEF ProviderSendsChunk, ProviderEndsBody
  <2>3. CASE spc = "more"
    <3>1. Len(out') = 1 /\ out'[1] = e
      BY <2>1, <2>3, OpeningFacts
    <3>2. \A n \in Nat \ {0} : Continues(out', n)
      BY <3>1 DEF Continues, Statuses
    <3>3. Listens => Len(local) + Len(down) \in Nat \ {0}
      BY <2>3, EmptySeq DEF OnTheWay, TypeOK
    <3>4. (Listens => OnTheWay)'
      BY <1>8, <2>3, <3>2, <3>3 DEF ProviderSendsChunk, ProviderEndsBody, Writes, OnTheWay
    <3>5. QED BY <1>5, <1>8, <3>4 DEF ProviderSendsChunk, ProviderEndsBody
  <2>4. QED BY <1>8, <2>2, <2>3 DEF ProviderSendsChunk, ProviderEndsBody
<1>9. ASSUME WriteToken PROVE InOrder'
  <2> SUFFICES ASSUME Listens PROVE OnTheWay'
    BY <1>5, <1>9 DEF WriteToken
  <2>1. /\ out # <<>> /\ spc = "write" /\ Head(out) \in Tokens
        /\ OnTheWay /\ ~ Ends(local) /\ ~ Ends(down)
        /\ down' = Append(down, Head(out)) /\ out' = Tail(out)
        /\ UNCHANGED <<local, cpc>>
    BY <1>9, TailFacts DEF WriteToken, TypeOK, OnTheWay
  <2>2. /\ Head(out) \in Statuses <=> Len(local) + Len(down) = 0
        /\ Continues(out', Len(local) + Len(down) + 1)
    BY <2>1, TailKeeps DEF OnTheWay, TypeOK
  <2>3. /\ Continues(down', Len(local)) /\ EndsLast(down')
        /\ Ends(down') <=> Head(out) = "end"
        /\ Len(down') = Len(down) + 1 /\ down' # <<>>
    <3>1. Len(down') = Len(down) + 1 /\ down' # <<>>
      BY <2>1, AppendFacts DEF TypeOK
    <3>2. EndsLast(down') /\ (Ends(down') <=> Head(out) = "end")
      BY <2>1, AppendKeeps DEF OnTheWay, TypeOK, Ends
    <3>3. Continues(down', Len(local))
      BY <2>1, <2>2, AppendKeeps DEF OnTheWay, TypeOK
    <3>4. QED BY <3>1, <3>2, <3>3
  <2>4. Head(out) = "end" => spc' = "done"
    BY <1>9 DEF WriteToken
  <2>5. QED BY <2>1, <2>2, <2>3, <2>4 DEF OnTheWay
<1>10. ASSUME LocalPeer \/ ConnectionLost \/ UNCHANGED vars PROVE InOrder'
  <2>1. (Listens => OnTheWay)'
    BY <1>10 DEF LocalPeer, ConnectionLost, vars, OnTheWay
  <2>2. QED BY <1>5, <1>10, <2>1 DEF LocalPeer, ConnectionLost, vars
<1>11. QED
  BY <1>1, <1>2, <1>3, <1>4, <1>6, <1>7, <1>8, <1>9, <1>10
  DEF Next, ClientStep, ServerStep, ProviderStep

(* Whose response a queue begins.                                                 *)
LEMMA FirstToken ==
    ASSUME NEW s \in Seq(Tokens)
    PROVE  /\ IsProviders(s) <=> s # <<>> /\ Head(s) = "provider"
           /\ \A e \in Tokens :
                 IsProviders(Append(s, e)) <=> IsProviders(s) \/ (s = <<>> /\ e = "provider")
<1>1. s # <<>> => Head(s) = s[1]
  BY TailFacts
<1>2. ASSUME NEW e \in Tokens
      PROVE  IsProviders(Append(s, e)) <=> IsProviders(s) \/ (s = <<>> /\ e = "provider")
  <2>1. /\ Append(s, e) # <<>>
        /\ s = <<>> => Append(s, e)[1] = e
        /\ s # <<>> => Append(s, e)[1] = s[1]
    <3>1. /\ Len(s) \in Nat /\ Append(s, e) # <<>> /\ Append(s, e)[Len(s) + 1] = e
          /\ \A i \in 1..Len(s) : Append(s, e)[i] = s[i]
      BY AppendFacts
    <3>2. s # <<>> => 1 \in 1..Len(s)
      BY TailFacts
    <3>3. s = <<>> => Len(s) + 1 = 1
      BY EmptySeq
    <3>4. QED BY <3>1, <3>2, <3>3
  <2>2. QED BY <2>1 DEF IsProviders
<1>3. QED BY <1>1, <1>2 DEF IsProviders

(* A response of the proxy's own is not the provider's.                           *)
LEMMA NotProviders ==
    /\ ~ IsProviders(<<>>)
    /\ \A s \in Statuses \ {"provider"} : ~ IsProviders(Plain(s))
BY PlainFacts DEF IsProviders

(* Taking a token from one queue to the next leaves the count as it is; a piece   *)
(* that arrives adds one to both sides.                                           *)
LEMMA NextCounted ==
    /\ TypeOK /\ Stages /\ InOrder /\ Counted /\ [Next]_vars
    /\ TypeOK' /\ Stages' /\ InOrder'
    => Counted'
<1> SUFFICES ASSUME TypeOK, Stages, InOrder, Counted, [Next]_vars,
                    TypeOK', Stages', InOrder'
             PROVE  Counted'
  OBVIOUS
<1> DEFINE Foreign == cpc = "report" => ~ IsProviders(local) /\ ~ IsProviders(report)
<1>0. (Listens => InTransit) /\ Settled /\ Foreign
  BY DEF Counted
<1>p. (Listens => InTransit)' /\ Settled' /\ Foreign' => Counted'
  BY DEF Counted
<1>n. /\ Len(local) \in Nat /\ Len(down) \in Nat /\ Len(report) \in Nat /\ Len(out) \in Nat
      /\ chunks \in Nat
  BY DEF TypeOK
<1>e. ~ Ends(<<>>) /\ Len(<<>>) = 0 /\ ~ IsProviders(<<>>)
  BY EmptyFacts, NotProviders DEF Ends
<1> USE <1>0, <1>n, <1>e
<1> HIDE DEF Foreign
<1>1. ASSUME UNCHANGED <<local, down, out, spc, chunks, ended>>
      PROVE  (Listens /\ Listens' => InTransit') /\ Settled'
  BY <1>1 DEF InTransit, Settled, ProvidersOwn, Total, Listens
<1>2. ASSUME \/ ReadLocalRequest \/ OpenTunnelStream \/ SendPart \/ FinishRequest
             \/ SendFails \/ SendTimesOut
             \/ ResponseEnds \/ ResponseFails \/ ResponseTimesOut
      PROVE  Counted'
  <2> USE <1>2 DEF ReadLocalRequest, OpenTunnelStream, SendPart, FinishRequest, SendFails,
          SendTimesOut, ResponseEnds, ResponseFails, ResponseTimesOut, Reports, ClientEnds
  <2>1. UNCHANGED <<local, down, out, spc, chunks, ended>> /\ Listens
    BY DEF Listens
  <2>2. Foreign'
    BY NotProviders DEF Foreign, Stages, Statuses
  <2>3. QED BY <1>1, <1>p, <2>1, <2>2
<1>3. ASSUME CopyResponse PROVE Counted'
  <2> USE <1>3
  <2>1. CASE ClientEnds /\ UNCHANGED local
    <3>1. UNCHANGED <<local, down, out, spc, chunks, ended>> /\ cpc' = "done"
      BY <2>1 DEF CopyResponse, ClientEnds
    <3>2. QED BY <1>1, <1>p, <3>1 DEF Foreign, Listens
  <2>2. CASE local' = Append(local, Head(down)) /\ down' = Tail(down) /\ cpc' = "stream"
    <3>1. /\ down # <<>> /\ Head(down) \in Tokens /\ Listens /\ Listens'
          /\ UNCHANGED <<out, spc, chunks, ended>>
      BY <2>2, TailFacts DEF CopyResponse, TypeOK, Listens
    <3>2. /\ local' # <<>>
          /\ Len(local') = Len(local) + 1 /\ Len(down') = Len(down) - 1
      BY <2>2, <3>1, TailFacts, AppendFacts DEF TypeOK
    <3>t. Total' = Total
      BY <3>1, <3>2 DEF Total
    <3>3. Ends(local') \/ Ends(down') <=> Ends(local) \/ Ends(down)
      BY <2>2, <3>1, TailKeeps, AppendKeeps DEF Ends, TypeOK
    <3>4. ProvidersOwn' => ProvidersOwn
      BY <2>2, <3>1, <3>2, FirstToken DEF ProvidersOwn, TypeOK
    <3>5. InTransit'
      BY <3>1, <3>3, <3>4, <3>t DEF InTransit
    <3>6. ASSUME IsProviders(local)', Ends(local)'
          PROVE  spc' = "done" /\ ended' /\ Len(local)' = chunks' + 2
      <4>1. spc' = "done" /\ down' = <<>> /\ out' = <<>>
        BY <3>1, <3>6 DEF InOrder, OnTheWay, Stages
      <4>2. ended' /\ Total' = chunks' + 2
        BY <3>5, <3>6 DEF InTransit, ProvidersOwn
      <4>3. Len(local)' \in Nat
        BY DEF TypeOK
      <4>4. QED BY <4>1, <4>2, <4>3 DEF Total
    <3>7. Settled'
      BY <3>6 DEF Settled
    <3>8. QED BY <1>p, <2>2, <3>5, <3>7 DEF Foreign
  <2>3. QED BY <2>1, <2>2 DEF CopyResponse
<1>4. ASSUME WriteReport PROVE Counted'
  <2> USE <1>4
  <2>1. CASE ClientEnds /\ UNCHANGED local
    <3>1. UNCHANGED <<local, down, out, spc, chunks, ended>> /\ cpc' = "done"
      BY <2>1 DEF WriteReport, ClientEnds
    <3>2. QED BY <1>1, <1>p, <3>1 DEF Foreign, Listens
  <2>2. CASE /\ report # <<>> /\ local' = Append(local, Head(report)) /\ report' = Tail(report)
             /\ UNCHANGED cpc
    <3>1. cpc = "report" /\ cpc' = "report" /\ Head(report) # "provider" /\ Head(report) \in Tokens
      BY <2>2, FirstToken, TailFacts DEF WriteReport, Foreign, TypeOK
    <3>2. ~ IsProviders(local')
      BY <2>2, <3>1, FirstToken DEF Foreign, TypeOK
    <3>3. ~ IsProviders(report')
      <4>1. Len(local') \in Nat \ {0}
        <5>1. local \in Seq(Tokens) /\ Head(report) \in Tokens
          BY <3>1 DEF TypeOK
        <5>2. Len(Append(local, Head(report))) = Len(local) + 1
          BY <5>1, AppendFacts
        <5>3. QED BY <2>2, <5>2
      <4>2. report' \in Seq(Tokens) /\ Continues(report', Len(local'))
        BY DEF TypeOK, InOrder
      <4>3. report' # <<>> => report'[1] \notin Statuses
        BY <4>1, <4>2, TailFacts DEF Continues
      <4>4. QED BY <4>3 DEF IsProviders, Statuses
    <3>4. QED BY <1>p, <3>1, <3>2, <3>3 DEF Foreign, Settled, Listens
  <2>3. QED BY <2>1, <2>2 DEF WriteReport
<1>5. ASSUME UNCHANGED <<local, report, cpc>>, spc # "done", (Listens => InTransit)'
      PROVE  Counted'
  <2>1. Settled'
    BY <1>5 DEF Settled
  <2>2. Foreign'
    BY <1>5 DEF Foreign
  <2>3. QED BY <1>p, <1>5, <2>1, <2>2
<1>6. ASSUME UNCHANGED <<local, report, cpc, down>>, Untold, Stages,
             ~ IsProviders(out')
      PROVE  Counted'
  <2>1. Listens' => ~ ProvidersOwn'
    BY <1>6 DEF ProvidersOwn, Stages, Listens
  <2>2. QED BY <1>5, <1>6, <2>1 DEF InTransit, Untold
<1>7. ASSUME \/ AcceptStream \/ ReadPart \/ ReadRequest \/ ReadFails \/ ReadTimesOut
             \/ ProviderTimesOut \/ ProviderFails \/ ProviderResponds
      PROVE  Counted'
  <2>1. Untold /\ UNCHANGED <<local, report, cpc, down>>
    BY <1>7 DEF Untold, AcceptStream, ReadPart, ReadRequest, ReadFails, ReadTimesOut,
         ProviderTimesOut, ProviderFails, ProviderResponds, DropsRequest
  <2>2. ReadRequest => kind \in {"chunked", "health", "unmappable", "plain"}
    BY DEF Kinds, TypeOK, ReadRequest, Stages
  <2>3. ~ IsProviders(out')
    BY <1>7, <2>1, <2>2, NotProviders DEF Stages, Untold, AcceptStream, ReadPart, ReadRequest,
         ReadFails, ReadTimesOut, ProviderTimesOut, ProviderFails, ProviderResponds, Writes,
         Statuses
  <2>4. QED BY <1>6, <2>1, <2>3
<1>8. ASSUME ProviderSendsChunk \/ ProviderEndsBody PROVE Counted'
  <2>1. PICK e \in {"data", "end"} :
          /\ out' = Opening \o <<e>>
          /\ spc \in {"first", "more"} /\ spc' = "write"
          /\ UNCHANGED <<local, report, cpc, down>>
          /\ e = "data" => chunks' = chunks + 1
          /\ e = "end" => chunks' = chunks /\ ended'
    BY <1>8 DEF ProviderSendsChunk, ProviderEndsBody, Writes
  <2>2. /\ Ends(out') <=> e = "end"
        /\ spc = "first" => Len(out') = 2
        /\ spc = "more" => Len(out') = 1
    BY <2>1, OpeningFacts DEF Ends, Has
  <2>3. ASSUME Listens PROVE ~ Ends(local) /\ ~ Ends(down)
    BY <2>1, <2>3 DEF InOrder, OnTheWay
  <2>4. ASSUME Listens, ProvidersOwn'
        PROVE  Total' = chunks + 2
    <3>1. CASE spc = "first"
      BY <2>1, <2>2, <2>4, <3>1 DEF Stages, Untold, Total
    <3>2. CASE spc = "more"
      <4>1. out = <<>> /\ (local # <<>> \/ down # <<>>)
        BY <2>4, <3>2 DEF Stages, InOrder, OnTheWay
      <4>2. ProvidersOwn
        BY <2>1, <2>4, <4>1 DEF ProvidersOwn
      <4>3. Total = chunks + 1
        BY <2>4, <3>2, <4>2 DEF InTransit
      <4>4. QED BY <2>1, <2>2, <3>2, <4>1, <4>3 DEF Total
    <3>3. QED BY <2>1, <3>1, <3>2
  <2>5. (Listens => InTransit)'
    BY <2>1, <2>2, <2>3, <2>4 DEF InTransit, Listens
  <2>6. QED BY <1>5, <2>1, <2>5
<1>9. ASSUME ProviderBreaksOff \/ WriteFails PROVE Counted'
  <2>1. CASE spc = "first"
    BY <1>6, <1>9, <2>1, NotProviders
    DEF ProviderBreaksOff, WriteFails, Writes, Untold, Statuses
  <2>2. CASE spc # "first"
    <3>1. /\ UNCHANGED <<local, report, cpc, down>> /\ out' = <<>> /\ spc' = "done"
          /\ spc \in {"more", "write"}
      BY <1>9, <2>2 DEF ProviderBreaksOff, WriteFails, ServerEnds
    <3>2. Listens => ~ Ends(local) /\ ~ Ends(down)
      BY <3>1 DEF InOrder, OnTheWay
    <3>3. (Listens => InTransit)'
      BY <3>1, <3>2 DEF InTransit, Listens
    <3>4. QED BY <1>5, <3>1, <3>3
  <2>3. QED BY <2>1, <2>2
<1>10. ASSUME WriteToken PROVE Counted'
  <2>1. /\ out # <<>> /\ spc = "write" /\ Head(out) \in Tokens
        /\ down' = Append(down, Head(out)) /\ out' = Tail(out)
        /\ UNCHANGED <<local, report, cpc, chunks, ended>>
        /\ spc' \in {"done", "more", "write"}
        /\ spc' = "more" => Len(out) = 1 /\ Head(out) # "end"
    BY <1>10, TailFacts DEF WriteToken, TypeOK, Stages
  <2>2. SUFFICES ASSUME Listens PROVE InTransit'
    BY <1>5, <2>1 DEF Listens
  <2>3. Total' = Total /\ down' # <<>>
    BY <2>1, TailFacts, AppendFacts DEF Total, TypeOK
  <2>4. Ends(down') \/ Ends(out') <=> Ends(down) \/ Ends(out)
    BY <2>1, TailKeeps, AppendKeeps DEF Ends, TypeOK
  <2>5. ProvidersOwn' => ProvidersOwn
    BY <2>1, <2>3, FirstToken DEF ProvidersOwn, TypeOK
  <2>6. spc' \in {"more", "write"} => ~ Ends(out) \/ Ends(out')
    <3>1. Head(out) = "end" => spc' = "done"
      BY <1>10 DEF WriteToken
    <3>2. QED BY <2>1, <3>1, TailKeeps DEF Ends, TypeOK
  <2>7. spc' = "more" => ~ Ends(out')
    <3>1. spc' = "more" => out' = <<>>
      BY DEF Stages
    <3>2. QED BY <3>1
  <2>8. QED BY <2>1, <2>2, <2>3, <2>4, <2>5, <2>6, <2>7 DEF InTransit
<1>11. ASSUME LocalPeer \/ ConnectionLost \/ UNCHANGED vars PROVE Counted'
  <2>1. UNCHANGED <<local, down, out, spc, chunks, ended, cpc, report>>
    BY <1>11 DEF LocalPeer, ConnectionLost, vars
  <2>2. QED BY <1>1, <1>p, <2>1 DEF Foreign, Listens
<1>12. QED
  BY <1>2, <1>3, <1>4, <1>7, <1>8, <1>9, <1>10, <1>11
  DEF Next, ClientStep, ServerStep, ProviderStep

(* Nobody ends in silence but where the tunnel has failed.                        *)
LEMMA NextHeard ==
    TypeOK /\ Stages /\ InOrder /\ Heard /\ [Next]_vars => Heard'
<1> SUFFICES ASSUME TypeOK, Stages, InOrder, Heard, [Next]_vars PROVE Heard'
  OBVIOUS
<1> USE DEF Heard, SilentOnlyWhenTunnelFails, Listens, Parts
<1>1. CASE \/ ReadLocalRequest \/ OpenTunnelStream \/ SendPart \/ FinishRequest
           \/ SendFails \/ SendTimesOut
           \/ ResponseEnds \/ ResponseFails \/ ResponseTimesOut
  <2>1. \A s \in Statuses \ {"provider"} : Plain(s) # <<>>
    BY PlainFacts
  <2>2. QED
    BY <1>1, <2>1 DEF ReadLocalRequest, OpenTunnelStream, SendPart, FinishRequest, SendFails,
       SendTimesOut, ResponseEnds, ResponseFails, ResponseTimesOut, Reports, ClientEnds,
       Stages, Statuses
<1>2. CASE CopyResponse
  <2>1. down # <<>> => Append(local, Head(down)) # <<>>
    <3>1. down # <<>> => Head(down) \in Tokens
      BY TailFacts DEF TypeOK
    <3>2. QED BY <3>1, AppendFacts DEF TypeOK
  <2>2. QED BY <1>2, <2>1 DEF CopyResponse, ClientEnds, Stages
<1>3. CASE WriteReport
  <2>1. report # <<>> => Append(local, Head(report)) # <<>>
    <3>1. report # <<>> => Head(report) \in Tokens
      BY TailFacts DEF TypeOK
    <3>2. QED BY <3>1, AppendFacts DEF TypeOK
  <2>2. QED BY <1>3, <2>1 DEF WriteReport, ClientEnds
<1>4. CASE \/ AcceptStream \/ ReadPart \/ ReadRequest \/ ReadFails \/ ReadTimesOut
           \/ ProviderTimesOut \/ ProviderFails \/ ProviderResponds
           \/ ProviderSendsChunk \/ ProviderEndsBody
  BY <1>4 DEF AcceptStream, ReadPart, ReadRequest, ReadFails, ReadTimesOut, ProviderTimesOut,
         ProviderFails, ProviderResponds, ProviderSendsChunk, ProviderEndsBody, Writes,
         DropsRequest
<1>5. CASE ProviderBreaksOff \/ WriteFails
  BY <1>5 DEF ProviderBreaksOff, WriteFails, Writes, ServerEnds, InOrder, OnTheWay
<1>6. CASE WriteToken
  <2>1. Append(down, Head(out)) # <<>>
    <3>1. Head(out) \in Tokens
      BY <1>6, TailFacts DEF WriteToken, Stages, TypeOK
    <3>2. QED BY <3>1, AppendFacts DEF TypeOK
  <2>2. QED BY <1>6, <2>1 DEF WriteToken
<1>7. CASE LocalPeer \/ ConnectionLost \/ UNCHANGED vars
  BY <1>7 DEF LocalPeer, ConnectionLost, vars
<1>8. QED
  BY <1>1, <1>2, <1>3, <1>4, <1>5, <1>6, <1>7
  DEF Next, ClientStep, ServerStep, ProviderStep

(* Every reachable state satisfies the inductive invariant.                       *)
LEMMA Invariant == Spec => []IInv
<1>1. IInv /\ [Next]_vars => IInv'
  BY NextTypeOK, NextStages, NextAskedOnce, NextRefusalsAreFinal, NextInOrder,
     NextCounted, NextHeard DEF IInv
<1>2. QED BY InitInvariant, <1>1, PTL DEF Spec

--------------------------------------------------------------------------------
(* The server never reads what was not sent, the queues hold what they may.       *)
THEOREM TypeCorrect == Spec => []TypeOK
<1>1. QED BY Invariant, PTL DEF IInv

(* The local connection carries one response: after a timeout the client writes a *)
(* 504 only where nothing of the server's response went before it.                *)
THEOREM OneResponse == Spec => []SingleResponse
<1>1. IInv => SingleResponse
  <2> SUFFICES ASSUME IInv, NEW i \in 1..Len(local)
               PROVE  /\ local[i] \in Statuses <=> i = 1
                      /\ local[i] = "end" => i = Len(local)
    BY DEF SingleResponse
  <2>1. Continues(local, 0) /\ EndsLast(local)
    BY DEF IInv, InOrder
  <2>2. QED BY <2>1 DEF Continues, EndsLast
<1>2. QED BY <1>1, Invariant, PTL

(* A response of the provider that ends for the local peer has all its pieces,    *)
(* however slow the client reads and wherever either task fails.                  *)
THEOREM WholeResponse == Spec => []CompleteMeansComplete
<1>1. IInv => CompleteMeansComplete
  <2> SUFFICES ASSUME IInv, Answered({"provider"}), Last(local) = "end"
               PROVE  ended /\ Len(local) = chunks + 2
    BY DEF CompleteMeansComplete
  <2>1. local \in Seq(Tokens) /\ local # <<>>
    BY DEF IInv, TypeOK, Answered
  <2>2. IsProviders(local)
    BY <2>1, FirstToken DEF Answered
  <2>3. Ends(local)
    BY <2>1, TailFacts DEF Ends, Has, Last
  <2>4. QED BY <2>2, <2>3 DEF IInv, Counted, Settled
<1>2. QED BY <1>1, Invariant, PTL

(* The provider gets a request at most once, and never part of one.               *)
THEOREM RequestsAreWhole == Spec => []WholeRequestsOnly
<1>1. IInv => WholeRequestsOnly
  BY DEF IInv, TypeOK, AskedOnce, WholeRequestsOnly, Parts
<1>2. QED BY <1>1, Invariant, PTL

(* It is safe to repeat a request that was refused.                               *)
THEOREM RefusedIsRetryable == Spec => []RefusedMeansNotAsked
<1>1. IInv => RefusedMeansNotAsked
  <2> SUFFICES ASSUME IInv, Answered({"400", "408", "501", "503"}) PROVE asked = 0
    BY DEF RefusedMeansNotAsked
  <2>1. local \in Seq(Tokens) /\ local # <<>>
    BY DEF IInv, TypeOK, Answered
  <2>2. Refusing(local)
    BY <2>1, TailFacts DEF Answered, Refusing, Has, Refusals
  <2>3. QED BY <2>2 DEF IInv, RefusalsAreFinal
<1>2. QED BY <1>1, Invariant, PTL

(* A local peer is left without an answer only when the tunnel failed.            *)
THEOREM AnsweredUnlessTunnelFails == Spec => []SilentOnlyWhenTunnelFails
<1>1. QED BY Invariant, PTL DEF IInv, Heard
================================================================================
