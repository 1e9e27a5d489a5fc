----------------------- MODULE ExchangeRefinementProofs -----------------------
(* OpenAiExchange implements AbstractExchange, for any number of pieces the       *)
(* provider's body is made of and any window of the stream.                       *)
EXTENDS OpenAiExchangeProofs

(* The server waits for the provider only when it has asked it, and no longer     *)
(* when the body has ended; what it still writes then ends the response.          *)
Awaited ==
    /\ spc \in {"asked", "first", "more"} => asked = 1
    /\ spc \notin {"write", "done"} => ~ ended
    /\ spc = "write" /\ ~ Ends(out) => asked = 1 /\ ~ ended

(* An answer of the proxy's own, of which n tokens came before s, is a status and *)
(* an end.                                                                        *)
PlainFrom(s, n) == \A i \in 1..Len(s) : i + n > 1 => s[i] = "end"

OwnAnswers ==
    /\ cpc = "report" => PlainFrom(local, 0) /\ PlainFrom(report, Len(local))
    /\ Listens /\ ~ ProvidersOwn =>
          /\ PlainFrom(local, 0) /\ PlainFrom(down, Len(local))
          /\ PlainFrom(out, Len(local) + Len(down))
          /\ spc = "write" => Total = 2
          /\ spc # "more"

(* The provider's answer is no longer than what has arrived of it.                *)
Arrived ==
    Listens /\ ProvidersOwn =>
        /\ chunks > 0 \/ ended
        /\ ~ Ends(local) /\ ~ Ends(down) /\ ~ Ends(out) => Total <= chunks + 1

RInv == IInv /\ Awaited /\ OwnAnswers /\ Arrived

USE DEF localVars, clientVars, request, response, serverVars, provider

--------------------------------------------------------------------------------
(* What moving a token from the front of one queue to the end of the one before   *)
(* it leaves of an answer of the proxy's own.                                     *)
LEMMA MovesPlain ==
    ASSUME NEW s \in Seq(Tokens), NEW t \in Seq(Tokens), s # <<>>, NEW n \in Nat,
           PlainFrom(t, n), PlainFrom(s, n + Len(t))
    PROVE  /\ PlainFrom(Append(t, Head(s)), n)
           /\ PlainFrom(Tail(s), n + Len(t) + 1)
           /\ n + Len(t) > 0 => Head(s) = "end"
<1> DEFINE e == Head(s)
           r == Append(t, e)
           u == Tail(s)
<1>1. /\ e = s[1] /\ e \in Tokens /\ Len(s) \in Nat \ {0}
      /\ Len(u) = Len(s) - 1
      /\ \A i \in 1..Len(u) : u[i] = s[i + 1]
  BY TailFacts
<1>2. /\ Len(t) \in Nat /\ Len(r) = Len(t) + 1 /\ r[Len(t) + 1] = e
      /\ \A i \in 1..Len(t) : r[i] = t[i]
  BY <1>1, AppendFacts
<1> HIDE DEF e, r, u
<1>3. n + Len(t) > 0 => e = "end"
  <2>1. 1 \in 1..Len(s)
    BY <1>1
  <2>2. n + Len(t) > 0 => 1 + (n + Len(t)) > 1
    BY <1>2
  <2>3. QED BY <1>1, <2>1, <2>2 DEF PlainFrom
<1>4. PlainFrom(r, n)
  BY <1>2, <1>3 DEF PlainFrom
<1>5. PlainFrom(u, n + Len(t) + 1)
  <2> SUFFICES ASSUME NEW i \in 1..Len(u) PROVE u[i] = "end"
    BY DEF PlainFrom
  <2>1. i + 1 \in 1..Len(s) /\ (i + 1) + (n + Len(t)) > 1
    BY <1>1, <1>2
  <2>2. QED BY <1>1, <2>1 DEF PlainFrom
<1>6. QED BY <1>3, <1>4, <1>5 DEF e, r, u

(* It begins that way, and an empty queue is part of any.                         *)
LEMMA PlainIsPlain ==
    /\ \A s \in Statuses \ {"provider"} : PlainFrom(Plain(s), 0)
    /\ \A n : PlainFrom(<<>>, n)
<1>1. ASSUME NEW s \in Statuses \ {"provider"} PROVE PlainFrom(Plain(s), 0)
  BY PlainFacts DEF PlainFrom
<1>2. Len(<<>>) = 0
  OBVIOUS
<1>3. QED BY <1>1, <1>2 DEF PlainFrom

--------------------------------------------------------------------------------
(* The server goes from "read" to "asked" by asking, and comes back to waiting    *)
(* only from a piece of the provider's that is not the last.                      *)
LEMMA NextAwaited == IInv /\ Awaited /\ [Next]_vars => Awaited'
<1> SUFFICES ASSUME TypeOK, Stages, AskedOnce, Awaited, [Next]_vars PROVE Awaited'
  BY DEF IInv
<1> USE DEF Awaited
<1>p. \A s \in Statuses \ {"provider"} : Ends(Plain(s))
  BY PlainKeeps DEF Ends
<1>1. CASE ClientStep \/ LocalPeer \/ ConnectionLost \/ UNCHANGED vars
  <2>1. UNCHANGED <<spc, asked, ended, out>>
    BY <1>1 DEF ClientStep, ReadLocalRequest, OpenTunnelStream, SendPart, FinishRequest,
         SendFails, SendTimesOut, CopyResponse, ResponseEnds, ResponseFails,
         ResponseTimesOut, WriteReport, Reports, ClientEnds, LocalPeer, ConnectionLost, vars
  <2>2. QED BY <2>1 DEF Ends, Has
<1>2. CASE AcceptStream \/ ReadPart \/ ReadFails \/ ReadTimesOut
  BY <1>p, <1>2 DEF AcceptStream, ReadPart, ReadFails, ReadTimesOut, Writes, Statuses
<1>3. CASE ReadRequest
  <2>1. kind \in {"chunked", "health", "unmappable", "plain"}
    BY <1>3 DEF Kinds, TypeOK, ReadRequest, Stages
  <2>2. CASE kind = "plain"
    BY <1>3, <2>2 DEF ReadRequest, AskedOnce
  <2>3. CASE kind # "plain"
    BY <1>p, <1>3, <2>1, <2>3 DEF ReadRequest, Writes, Statuses
  <2>4. QED BY <2>2, <2>3
<1>4. CASE ProviderTimesOut \/ ProviderFails \/ ProviderResponds
  BY <1>p, <1>4 DEF ProviderTimesOut, ProviderFails, ProviderResponds, Writes, Statuses
<1>5. CASE ProviderSendsChunk
  BY <1>5 DEF ProviderSendsChunk, Writes
<1>6. CASE ProviderEndsBody
  <2>1. Ends(Opening \o <<"end">>)
    BY OpeningFacts DEF Ends, Has
  <2>2. QED BY <1>6, <2>1 DEF ProviderEndsBody, Writes
<1>7. CASE ProviderBreaksOff \/ WriteFails
  BY <1>p, <1>7 DEF ProviderBreaksOff, WriteFails, Writes, ServerEnds, Statuses
<1>8. CASE WriteToken
  <2>1. out # <<>> /\ out \in Seq(Tokens) /\ out' = Tail(out) /\ UNCHANGED <<asked, ended>>
    BY <1>8 DEF WriteToken, Stages, TypeOK
  <2>2. Ends(out) <=> Head(out) = "end" \/ Ends(Tail(out))
    BY <2>1, TailKeeps DEF Ends
  <2>3. CASE Head(out) = "end"
    BY <1>8, <2>3 DEF WriteToken
  <2>4. CASE Head(out) # "end" /\ Len(out) = 1
    <3>1. ~ Ends(Tail(out))
      <4>1. Tail(out) = <<>>
        BY <2>1, <2>4, TailFacts
      <4>2. ~ Ends(<<>>)
        BY EmptyFacts DEF Ends
      <4>3. QED BY <4>1, <4>2
    <3>2. asked = 1 /\ ~ ended
      BY <1>8, <2>2, <2>4, <3>1 DEF WriteToken
    <3>3. QED BY <1>8, <2>1, <2>4, <3>2 DEF WriteToken
  <2>5. CASE Head(out) # "end" /\ Len(out) # 1
    BY <1>8, <2>1, <2>2, <2>5 DEF WriteToken
  <2>6. QED BY <2>3, <2>4, <2>5
<1>9. QED
  BY <1>1, <1>2, <1>3, <1>4, <1>5, <1>6, <1>7, <1>8 DEF Next, ServerStep, ProviderStep

(* A piece that arrives is counted before it is written.  What is not written     *)
(* when a write fails leaves the answer shorter, above all by its end.            *)
LEMMA NextArrived == IInv /\ IInv' /\ Arrived /\ [Next]_vars => Arrived'
<1> SUFFICES ASSUME IInv, IInv', Arrived, [Next]_vars PROVE Arrived'
  OBVIOUS
<1>t. /\ TypeOK /\ Stages /\ InOrder /\ Counted
      /\ TypeOK' /\ Stages' /\ InOrder' /\ Counted'
  BY DEF IInv
<1>n. /\ Len(local) \in Nat /\ Len(down) \in Nat /\ Len(out) \in Nat /\ chunks \in Nat
      /\ ended \in BOOLEAN
  BY <1>t DEF TypeOK
<1>e. ~ Ends(<<>>) /\ Len(<<>>) = 0 /\ ~ IsProviders(<<>>)
  BY EmptyFacts, NotProviders DEF Ends
<1> USE <1>t, <1>n, <1>e
<1>1. ASSUME UNCHANGED <<local, down, out, chunks, ended>>, Listens' => Listens
      PROVE  Arrived'
  BY <1>1 DEF Arrived, ProvidersOwn, Total, Ends, Has, IsProviders
<1>2. ASSUME ~ Listens' PROVE Arrived'
  BY <1>2 DEF Arrived
<1>3. ASSUME UNCHANGED <<chunks, ended>>, Listens' => Listens, Total' = Total,
             ProvidersOwn' => ProvidersOwn,
             (Ends(local) \/ Ends(down) \/ Ends(out))' <=> Ends(local) \/ Ends(down) \/ Ends(out)
      PROVE  Arrived'
  BY <1>3 DEF Arrived
<1>4. CASE \/ ReadLocalRequest \/ OpenTunnelStream \/ SendPart \/ FinishRequest
           \/ SendFails \/ SendTimesOut
           \/ ResponseEnds \/ ResponseFails \/ ResponseTimesOut
  <2>1. UNCHANGED <<local, down, out, chunks, ended>> /\ Listens
    BY <1>4 DEF ReadLocalRequest, OpenTunnelStream, SendPart, FinishRequest, SendFails,
         SendTimesOut, ResponseEnds, ResponseFails, ResponseTimesOut, Reports, ClientEnds,
         Listens
  <2>2. QED BY <1>1, <2>1
<1>5. CASE CopyResponse
  <2>1. CASE ClientEnds
    BY <1>2, <2>1 DEF ClientEnds, Listens
  <2>2. CASE local' = Append(local, Head(down)) /\ down' = Tail(down) /\ cpc' = "stream"
    <3>1. /\ down # <<>> /\ Head(down) \in Tokens /\ Listens /\ Listens'
          /\ UNCHANGED <<out, chunks, ended>>
      BY <1>5, <2>2, TailFacts DEF CopyResponse, TypeOK, Listens
    <3>2. /\ local' # <<>>
          /\ Len(local') = Len(local) + 1 /\ Len(down') = Len(down) - 1
      BY <2>2, <3>1, TailFacts, AppendFacts DEF TypeOK
    <3>3. Total' = Total
      BY <3>1, <3>2 DEF Total
    <3>4. Ends(local') \/ Ends(down') <=> Ends(local) \/ Ends(down)
      BY <2>2, <3>1, TailKeeps, AppendKeeps DEF Ends, TypeOK
    <3>5. ProvidersOwn' => ProvidersOwn
      BY <2>2, <3>1, <3>2, FirstToken DEF ProvidersOwn, TypeOK
    <3>6. QED BY <1>3, <3>1, <3>3, <3>4, <3>5
  <2>3. QED BY <1>5, <2>1, <2>2 DEF CopyResponse
<1>6. CASE WriteReport
  BY <1>2, <1>6 DEF WriteReport, ClientEnds, Listens
<1>7. ASSUME Untold, UNCHANGED <<local, down, cpc>>, ~ IsProviders(out') PROVE Arrived'
  BY <1>7 DEF Arrived, ProvidersOwn, Stages, Listens
<1>8. CASE \/ AcceptStream \/ ReadPart \/ ReadRequest \/ ReadFails \/ ReadTimesOut
           \/ ProviderTimesOut \/ ProviderFails \/ ProviderResponds
  <2>1. Untold /\ UNCHANGED <<local, cpc, down>>
    BY <1>8 DEF Untold, AcceptStream, ReadPart, ReadRequest, ReadFails, ReadTimesOut,
         ProviderTimesOut, ProviderFails, ProviderResponds, DropsRequest
  <2>2. ReadRequest => kind \in {"chunked", "health", "unmappable", "plain"}
    BY DEF Kinds, TypeOK, ReadRequest, Stages
  <2>3. ~ IsProviders(out')
    BY <1>8, <2>1, <2>2, NotProviders DEF Stages, Untold, AcceptStream, ReadPart, ReadRequest,
         ReadFails, ReadTimesOut, ProviderTimesOut, ProviderFails, ProviderResponds, Writes,
         Statuses
  <2>4. QED BY <1>7, <2>1, <2>3
<1>9. CASE ProviderSendsChunk
  <2>1. spc' = "write" /\ chunks' = chunks + 1
    BY <1>9 DEF ProviderSendsChunk, Writes
  <2>2. QED BY <2>1 DEF Arrived, Counted, InTransit
<1>10. CASE ProviderEndsBody
  <2>1. Ends(out') /\ ended'
    BY <1>10, OpeningFacts DEF ProviderEndsBody, Writes, Ends, Has
  <2>2. QED BY <2>1 DEF Arrived
<1>11. CASE ProviderBreaksOff \/ WriteFails
  <2>1. CASE spc = "first"
    BY <1>7, <1>11, <2>1, NotProviders
    DEF ProviderBreaksOff, WriteFails, Writes, Untold, Statuses
  <2>2. CASE spc # "first"
    <3>1. /\ UNCHANGED <<local, cpc, down, chunks, ended>> /\ out' = <<>>
      BY <1>11, <2>2 DEF ProviderBreaksOff, WriteFails, ServerEnds
    <3>2. Total' = Total - Len(out) /\ Total \in Nat
      BY <3>1 DEF Total
    <3>3. Ends(out) => Len(out) > 0
      BY DEF Ends, Has
    <3>4. ProvidersOwn' => ProvidersOwn
      BY <3>1 DEF ProvidersOwn
    <3>5. Ends(local') = Ends(local) /\ Ends(down') = Ends(down)
      BY <3>1
    <3>6. QED BY <3>1, <3>2, <3>3, <3>4, <3>5 DEF Arrived, Counted, InTransit, Listens
  <2>3. QED BY <2>1, <2>2
<1>12. CASE WriteToken
  <2>1. /\ out # <<>> /\ Head(out) \in Tokens
        /\ down' = Append(down, Head(out)) /\ out' = Tail(out)
        /\ UNCHANGED <<local, cpc, chunks, ended>>
    BY <1>12, TailFacts DEF WriteToken, TypeOK, Stages
  <2>2. Total' = Total /\ down' # <<>>
    <3>1. down \in Seq(Tokens) /\ out \in Seq(Tokens)
      BY DEF TypeOK
    <3>2. down' # <<>> /\ Len(down') = Len(down) + 1
      BY <2>1, <3>1, AppendFacts
    <3>3. Len(out') = Len(out) - 1
      BY <2>1, <3>1, TailFacts
    <3>4. QED BY <2>1, <3>2, <3>3 DEF Total
  <2>3. Ends(down') \/ Ends(out') <=> Ends(down) \/ Ends(out)
    BY <2>1, TailKeeps, AppendKeeps DEF Ends, TypeOK
  <2>4. ProvidersOwn' => ProvidersOwn
    BY <2>1, <2>2, FirstToken DEF ProvidersOwn, TypeOK
  <2>5. QED BY <1>3, <2>1, <2>2, <2>3, <2>4 DEF Listens
<1>13. CASE LocalPeer \/ ConnectionLost \/ UNCHANGED vars
  <2>1. UNCHANGED <<local, down, out, chunks, ended, cpc>>
    BY <1>13 DEF LocalPeer, ConnectionLost, vars
  <2>2. QED BY <1>1, <2>1 DEF Listens
<1>14. QED
  BY <1>4, <1>5, <1>6, <1>8, <1>9, <1>10, <1>11, <1>12, <1>13
  DEF Next, ClientStep, ServerStep, ProviderStep

(* An answer of the proxy's own is decided as a whole, before anything of another *)
(* one is on its way, and moves as it is.                                         *)
LEMMA NextOwnAnswers == IInv /\ IInv' /\ OwnAnswers /\ [Next]_vars => OwnAnswers'
<1> SUFFICES ASSUME IInv, IInv', OwnAnswers, [Next]_vars PROVE OwnAnswers'
  OBVIOUS
<1>t. TypeOK /\ Stages /\ InOrder /\ TypeOK' /\ Stages'
  BY DEF IInv
<1>n. Len(local) \in Nat /\ Len(down) \in Nat /\ Len(out) \in Nat /\ Len(report) \in Nat
  BY <1>t DEF TypeOK
<1>e. ~ IsProviders(<<>>) /\ (\A n : PlainFrom(<<>>, n)) /\ Len(<<>>) = 0
  BY NotProviders, PlainIsPlain
<1> DEFINE Reported == cpc = "report" => PlainFrom(local, 0) /\ PlainFrom(report, Len(local))
           Served == Listens /\ ~ ProvidersOwn =>
                        /\ PlainFrom(local, 0) /\ PlainFrom(down, Len(local))
                        /\ PlainFrom(out, Len(local) + Len(down))
                        /\ spc = "write" => Total = 2
                        /\ spc # "more"
<1>0. Reported /\ Served
  BY DEF OwnAnswers
<1>q. Reported' /\ Served' => OwnAnswers'
  BY DEF OwnAnswers
<1> USE <1>t, <1>n, <1>e
<1> HIDE DEF Reported, Served
<1>1. ASSUME UNCHANGED <<local, down, out, spc>>, Listens' => Listens
      PROVE  Served'
  BY <1>0, <1>1 DEF Served, ProvidersOwn, Total
<1>2. ASSUME UNCHANGED <<local, report, cpc>> PROVE Reported'
  BY <1>0, <1>2 DEF Reported
<1>3. CASE \/ ReadLocalRequest \/ OpenTunnelStream \/ SendPart \/ FinishRequest
           \/ SendFails \/ SendTimesOut
           \/ ResponseEnds \/ ResponseFails \/ ResponseTimesOut
  <2> USE <1>3 DEF ReadLocalRequest, OpenTunnelStream, SendPart, FinishRequest, SendFails,
          SendTimesOut, ResponseEnds, ResponseFails, ResponseTimesOut, Reports, ClientEnds
  <2>1. UNCHANGED <<local, down, out, spc>> /\ Listens
    BY DEF Listens
  <2>2. cpc' = "report" =>
          local = <<>> /\ \E s \in Statuses \ {"provider"} : report' = Plain(s)
    BY DEF Stages, Statuses
  <2>3. Reported'
    BY <2>1, <2>2, PlainIsPlain DEF Reported
  <2>4. QED BY <1>1, <1>q, <2>1, <2>3
<1>4. CASE CopyResponse
  <2>1. CASE ClientEnds
    BY <1>q, <2>1 DEF ClientEnds, Reported, Served, Listens
  <2>2. CASE local' = Append(local, Head(down)) /\ down' = Tail(down) /\ cpc' = "stream"
    <3>1. /\ down # <<>> /\ Head(down) \in Tokens /\ Listens /\ Listens'
          /\ UNCHANGED <<out, spc>>
      BY <1>4, <2>2, TailFacts DEF CopyResponse, TypeOK, Listens
    <3>2. Len(local') = Len(local) + 1 /\ Len(down') = Len(down) - 1
      BY <2>2, <3>1, TailFacts, AppendFacts DEF TypeOK
    <3>3. ProvidersOwn => ProvidersOwn'
      BY <2>2, <3>1, FirstToken DEF ProvidersOwn, TypeOK
    <3>4. ASSUME ~ ProvidersOwn
          PROVE  /\ PlainFrom(local', 0) /\ PlainFrom(down', Len(local'))
                 /\ PlainFrom(out', Len(local') + Len(down'))
                 /\ spc' = "write" => Total' = 2
                 /\ spc' # "more"
      <4>1. /\ PlainFrom(local, 0) /\ PlainFrom(down, Len(local))
            /\ PlainFrom(out, Len(local) + Len(down))
            /\ spc = "write" => Total = 2
            /\ spc # "more"
        BY <1>0, <3>1, <3>4 DEF Served
      <4>2. PlainFrom(down, 0 + Len(local)) /\ 0 + Len(local) + 1 = Len(local')
        BY <3>2, <4>1
      <4>3. PlainFrom(local', 0) /\ PlainFrom(down', Len(local'))
        BY <2>2, <3>1, <4>1, <4>2, MovesPlain DEF TypeOK
      <4>4. Len(local') + Len(down') = Len(local) + Len(down) /\ Total' = Total
        BY <3>1, <3>2 DEF Total
      <4>5. QED BY <3>1, <4>1, <4>3, <4>4
    <3>5. Served'
      BY <3>3, <3>4 DEF Served
    <3>6. QED BY <1>q, <2>2, <3>5 DEF Reported
  <2>3. QED BY <1>4, <2>1, <2>2 DEF CopyResponse
<1>5. CASE WriteReport
  <2>1. CASE ClientEnds
    BY <1>q, <2>1 DEF ClientEnds, Reported, Served, Listens
  <2>2. CASE /\ report # <<>> /\ local' = Append(local, Head(report)) /\ report' = Tail(report)
             /\ UNCHANGED cpc
    <3>1. /\ cpc = "report" /\ cpc' = "report"
          /\ PlainFrom(local, 0) /\ PlainFrom(report, Len(local))
      BY <1>0, <1>5, <2>2 DEF WriteReport, Reported
    <3>2. Len(local') = Len(local) + 1
      BY <2>2, TailFacts, AppendFacts DEF TypeOK
    <3>3. PlainFrom(report, 0 + Len(local)) /\ 0 + Len(local) + 1 = Len(local')
      BY <3>1, <3>2
    <3>4. PlainFrom(local', 0) /\ PlainFrom(report', Len(local'))
      BY <2>2, <3>1, <3>3, MovesPlain DEF TypeOK
    <3>5. QED BY <1>q, <3>1, <3>4 DEF Reported, Served, Listens
  <2>3. QED BY <1>5, <2>1, <2>2 DEF WriteReport
<1>6. ASSUME Untold, UNCHANGED <<local, report, cpc, down>>,
             \/ out' = <<>> /\ spc' \notin {"write", "more"}
             \/ spc' = "write" /\ \E s \in Statuses \ {"provider"} : out' = Plain(s)
      PROVE  OwnAnswers'
  <2> SUFFICES ASSUME Listens PROVE Served'
    BY <1>2, <1>6, <1>q DEF Served, Listens
  <2>1. local = <<>> /\ down = <<>>
    BY <1>6 DEF Stages
  <2>2. CASE out' = <<>> /\ spc' \notin {"write", "more"}
    BY <1>6, <2>1, <2>2 DEF Served
  <2>3. CASE spc' = "write" /\ \E s \in Statuses \ {"provider"} : out' = Plain(s)
    <3>1. PlainFrom(out', 0) /\ Len(out') = 2
      BY <2>3, PlainIsPlain, PlainFacts
    <3>2. QED BY <1>6, <2>1, <2>3, <3>1 DEF Served, Total
  <2>4. QED BY <1>6, <2>2, <2>3
<1>7. CASE \/ AcceptStream \/ ReadPart \/ ReadRequest \/ ReadFails \/ ReadTimesOut
           \/ ProviderTimesOut \/ ProviderFails \/ ProviderResponds
  <2>1. Untold /\ UNCHANGED <<local, report, cpc, down>> /\ out = <<>>
    BY <1>7 DEF Untold, Stages, AcceptStream, ReadPart, ReadRequest, ReadFails, ReadTimesOut,
         ProviderTimesOut, ProviderFails, ProviderResponds, DropsRequest
  <2>2. ReadRequest => kind \in {"chunked", "health", "unmappable", "plain"}
    BY DEF Kinds, TypeOK, ReadRequest, Stages
  <2>3. \/ out' = <<>> /\ spc' \notin {"write", "more"}
        \/ spc' = "write" /\ \E s \in Statuses \ {"provider"} : out' = Plain(s)
    BY <1>7, <2>1, <2>2 DEF AcceptStream, ReadPart, ReadRequest, ReadFails, ReadTimesOut,
         ProviderTimesOut, ProviderFails, ProviderResponds, Writes, Statuses
  <2>4. QED BY <1>6, <2>1, <2>3
<1>8. CASE ProviderSendsChunk \/ ProviderEndsBody
  <2>1. PICK e \in {"data", "end"} : out' = Opening \o <<e>>
    BY <1>8 DEF ProviderSendsChunk, ProviderEndsBody, Writes
  <2>2. spc \in {"first", "more"} /\ UNCHANGED <<local, report, cpc, down>>
    BY <1>8 DEF ProviderSendsChunk, ProviderEndsBody
  <2>3. ASSUME Listens PROVE ProvidersOwn'
    <3>1. CASE spc = "first"
      <4>1. local = <<>> /\ down = <<>>
        BY <2>3, <3>1 DEF Stages, Untold
      <4>2. out' # <<>> /\ out'[1] = "provider"
        BY <2>1, <3>1, OpeningFacts
      <4>3. QED BY <2>2, <4>1, <4>2 DEF ProvidersOwn, IsProviders
    <3>2. CASE spc = "more"
      <4>1. ProvidersOwn /\ out = <<>>
        BY <1>0, <2>3, <3>2 DEF Served, Stages
      <4>2. QED BY <2>2, <4>1 DEF ProvidersOwn
    <3>3. QED BY <2>2, <3>1, <3>2
  <2>4. QED BY <1>2, <1>q, <2>2, <2>3 DEF Served, Listens
<1>9. CASE ProviderBreaksOff \/ WriteFails
  <2>1. CASE spc = "first"
    <3>1. Untold /\ UNCHANGED <<local, report, cpc, down>> /\ spc' = "write" /\ out' = Plain("502")
      BY <1>9, <2>1 DEF ProviderBreaksOff, WriteFails, Writes, Untold
    <3>2. QED BY <1>6, <3>1 DEF Statuses
  <2>2. CASE spc # "first"
    <3>1. UNCHANGED <<local, report, cpc, down>> /\ out' = <<>> /\ spc' = "done"
      BY <1>9, <2>2 DEF ProviderBreaksOff, WriteFails, ServerEnds
    <3>2. Served'
      <4>1. CASE local = <<>> /\ down = <<>>
        BY <3>1, <4>1 DEF Served
      <4>2. CASE local # <<>> \/ down # <<>>
        <5>1. ProvidersOwn => ProvidersOwn'
          BY <3>1, <4>2 DEF ProvidersOwn
        <5>2. QED BY <1>0, <3>1, <5>1 DEF Served, Listens
      <4>3. QED BY <4>1, <4>2
    <3>3. QED BY <1>2, <1>q, <3>1, <3>2
  <2>3. QED BY <2>1, <2>2
<1>10. CASE WriteToken
  <2>1. /\ out # <<>> /\ spc = "write" /\ Head(out) \in Tokens
        /\ down' = Append(down, Head(out)) /\ out' = Tail(out)
        /\ UNCHANGED <<local, report, cpc>>
        /\ spc' = "more" => Len(out) = 1 /\ Head(out) # "end"
    BY <1>10, TailFacts DEF WriteToken, TypeOK, Stages
  <2>2. Len(down') = Len(down) + 1 /\ Len(out') = Len(out) - 1
    BY <2>1, TailFacts, AppendFacts DEF TypeOK
  <2>3. ProvidersOwn => ProvidersOwn'
    BY <2>1, FirstToken DEF ProvidersOwn, TypeOK
  <2>4. ASSUME Listens, ~ ProvidersOwn
        PROVE  /\ PlainFrom(local', 0) /\ PlainFrom(down', Len(local'))
               /\ PlainFrom(out', Len(local') + Len(down'))
               /\ spc' = "write" => Total' = 2
               /\ spc' # "more"
    <3>1. /\ PlainFrom(local, 0) /\ PlainFrom(down, Len(local))
          /\ PlainFrom(out, Len(local) + Len(down))
          /\ Total = 2
      BY <1>0, <2>1, <2>4 DEF Served
    <3>2. Len(local) + Len(down) + 1 = Len(local) + Len(down')
      BY <2>2
    <3>3. /\ PlainFrom(down', Len(local)) /\ PlainFrom(out', Len(local) + Len(down'))
          /\ Len(local) + Len(down) > 0 => Head(out) = "end"
      BY <2>1, <3>1, <3>2, MovesPlain DEF TypeOK
    <3>4. Total' = Total
      BY <2>1, <2>2 DEF Total
    <3>5. Len(out) = 1 => Len(local) + Len(down) > 0
      BY <3>1 DEF Total
    <3>6. QED BY <2>1, <3>1, <3>3, <3>4, <3>5
  <2>5. Served'
    BY <2>1, <2>3, <2>4 DEF Served, Listens
  <2>6. QED BY <1>2, <1>q, <2>1, <2>5
<1>11. CASE LocalPeer \/ ConnectionLost \/ UNCHANGED vars
  <2>1. UNCHANGED <<local, down, out, spc, cpc, report>>
    BY <1>11 DEF LocalPeer, ConnectionLost, vars
  <2>2. QED BY <1>1, <1>2, <1>q, <2>1 DEF Listens
<1>12. QED
  BY <1>3, <1>4, <1>5, <1>7, <1>8, <1>9, <1>10, <1>11
  DEF Next, ClientStep, ServerStep, ProviderStep

(* What the refinement rests on.                                                  *)
LEMMA RefinementInvariant == Spec => []RInv
<1>1. Init => Awaited /\ OwnAnswers /\ Arrived
  <2> SUFFICES ASSUME Init PROVE Awaited /\ OwnAnswers /\ Arrived
    OBVIOUS
  <2>1. ~ ProvidersOwn
    BY NotProviders DEF Init, ProvidersOwn
  <2>2. QED BY <2>1, PlainIsPlain DEF Init, Awaited, OwnAnswers, Arrived
<1>2. IInv /\ IInv' /\ RInv /\ [Next]_vars => RInv'
  BY NextAwaited, NextOwnAnswers, NextArrived DEF RInv
<1>3. QED BY Invariant, <1>1, <1>2, PTL DEF Spec, RInv

--------------------------------------------------------------------------------
(* What has arrived of the provider's response, token by token.                   *)
LEMMA ProducedFacts ==
    ASSUME TypeOK
    PROVE  /\ Produced \in Seq(Tokens)
           /\ Produced = <<>> <=> chunks = 0 /\ ~ ended
           /\ Produced # <<>> => Len(Produced) = chunks + (IF ended THEN 2 ELSE 1)
           /\ \A i \in 1..Len(Produced) :
                 Produced[i] = CASE i = 1 -> "provider" [] i = chunks + 2 -> "end" [] OTHER -> "data"
<1>1. chunks \in Nat /\ ended \in BOOLEAN
  BY DEF TypeOK
<1>2. CASE chunks = 0 /\ ~ ended
  BY <1>2 DEF Produced
<1>3. CASE ~ (chunks = 0 /\ ~ ended)
  <2> DEFINE n == chunks + (IF ended THEN 2 ELSE 1)
             T(i) == CASE i = 1 -> "provider" [] i = chunks + 2 -> "end" [] OTHER -> "data"
  <2>1. n \in Nat \ {0}
    BY <1>1
  <2>2. Produced = [i \in 1..n |-> T(i)]
    BY <1>3 DEF Produced
  <2>3. \A i \in 1..n : T(i) \in Tokens
    BY DEF Tokens, Statuses
  <2> HIDE DEF n, T
  <2>4. Produced \in Seq(Tokens) /\ Len(Produced) = n /\ \A i \in 1..n : Produced[i] = T(i)
    BY <2>1, <2>2, <2>3
  <2>5. Produced # <<>>
    BY <2>1, <2>4
  <2>6. QED BY <1>3, <2>4, <2>5 DEF n, T
<1>4. QED BY <1>2, <1>3

(* A sequence that agrees with a longer one as far as it goes is a prefix of it.  *)
LEMMA AgreeingPrefix ==
    ASSUME NEW S, NEW s \in Seq(S), NEW t \in Seq(S), Len(s) < Len(t),
           \A i \in 1..Len(s) : s[i] = t[i]
    PROVE  Promise!IsStrictPrefix(s, t)
<1>1. Len(s) \in Nat /\ Len(t) \in Nat
  OBVIOUS
<1>2. SubSeq(s, 1, Len(s)) = SubSeq(t, 1, Len(s))
  <2>1. /\ SubSeq(s, 1, Len(s)) = [i \in 1..Len(s) |-> s[i]]
        /\ SubSeq(t, 1, Len(s)) = [i \in 1..Len(s) |-> t[i]]
    BY <1>1
  <2>2. QED BY <2>1
<1>3. Len(s) <= Len(t) /\ s # t
  BY <1>1
<1>4. Promise!IsPrefix(s, t)
  BY <1>2, <1>3, Zenon DEF Promise!IsPrefix
<1>5. QED BY <1>3, <1>4, Zenon DEF Promise!IsStrictPrefix

(* A step that leaves the answer and the provider alone is a stutter, or closes.  *)
LEMMA NothingNew ==
    ASSUME UNCHANGED <<local, asked, chunks, ended>>, cpc = "done" => cpc' = "done"
    PROVE  [Promise!Next]_(Promise!vars)
<1>1. Produced' = Produced
  BY DEF Produced
<1>2. CASE cpc' = "done" /\ cpc # "done"
  BY <1>1, <1>2 DEF Promise!Next, Promise!Close
<1>3. CASE ~ (cpc' = "done" /\ cpc # "done")
  BY <1>1, <1>3 DEF Promise!vars
<1>4. QED BY <1>2, <1>3

(* The next token of an answer of the proxy's own, from either queue.             *)
LEMMA AnswersItself ==
    ASSUME RInv, NEW s \in Seq(Tokens), s # <<>>,
           PlainFrom(local, 0), ~ Ends(local), ~ IsProviders(local),
           PlainFrom(s, Len(local)), Continues(s, Len(local)),
           local = <<>> => ~ IsProviders(s),
           Refusing(s) => asked = 0,
           cpc # "done", cpc' # "done",
           local' = Append(local, Head(s)), UNCHANGED <<asked, chunks, ended>>
    PROVE  [Promise!Next]_(Promise!vars)
<1>n. local \in Seq(Tokens)
  BY DEF RInv, IInv, TypeOK
<1>1. Len(local) \in Nat
  BY <1>n
<1>2. Head(s) = s[1] /\ Len(s) \in Nat \ {0}
  BY TailFacts
<1>3. Produced' = Produced
  BY DEF Produced
<1>4. CASE local = <<>>
  <2>1. Head(s) \in Statuses \ {"provider"}
    BY <1>2, <1>4 DEF Continues, IsProviders
  <2>2. Head(s) \in Refusals => asked = 0
    BY <1>2 DEF Refusing, Has
  <2>3. local' = <<Head(s)>>
    BY <1>4
  <2>4. \/ asked = 0 /\ Head(s) \in Promise!InItsStead
        \/ Head(s) \in Promise!Failures
    BY <2>1, <2>2 DEF Statuses, Refusals, Promise!InItsStead, Promise!Failures
  <2>5. Promise!AnswerItself
    BY <1>3, <1>4, <2>3, <2>4 DEF Promise!AnswerItself
  <2>6. QED BY <2>5 DEF Promise!Next
<1>5. CASE local # <<>>
  <2>1. Len(local) = 1
    <3>1. ~ Len(local) > 1
      <4>1. SUFFICES ASSUME Len(local) > 1 PROVE FALSE
        OBVIOUS
      <4>2. 2 \in 1..Len(local) /\ 2 + 0 > 1
        BY <1>1, <4>1
      <4>3. local[2] = "end"
        BY <4>2 DEF PlainFrom
      <4>4. QED BY <4>2, <4>3 DEF Ends, Has
    <3>2. Len(local) # 0
      BY <1>n, <1>5, EmptySeq
    <3> DEFINE n == Len(local)
    <3>3. n \in Nat /\ ~ n > 1 /\ n # 0
      BY <1>1, <3>1, <3>2
    <3> HIDE DEF n
    <3>4. n = 1
      BY <3>3
    <3>5. QED BY <3>4 DEF n
  <2>2. local[1] # "provider"
    BY <1>5 DEF IsProviders
  <2>3. Head(s) = "end"
    BY <1>2, <2>1 DEF PlainFrom
  <2>4. Promise!AnswerItself
    BY <1>3, <2>1, <2>2, <2>3 DEF Promise!AnswerItself
  <2>5. QED BY <2>4 DEF Promise!Next
<1>6. QED BY <1>4, <1>5

(* The next token of the provider's answer is the one that arrived in its place.  *)
LEMMA Forwards ==
    ASSUME RInv, CopyResponse, ProvidersOwn,
           local' = Append(local, Head(down)), down' = Tail(down), cpc' = "stream"
    PROVE  [Promise!Next]_(Promise!vars)
<1> DEFINE n == Len(local)
           e == Head(down)
<1>1. /\ TypeOK /\ Stages /\ InOrder /\ Counted /\ OwnAnswers /\ Arrived
      /\ Listens /\ OnTheWay
  BY DEF RInv, IInv, CopyResponse, Listens, InOrder
<1>2. /\ down # <<>> /\ cpc # "done"
      /\ UNCHANGED <<asked, chunks, ended>> /\ Produced' = Produced
  BY DEF CopyResponse, Produced
<1>3. /\ n \in Nat /\ Len(down) \in Nat \ {0} /\ Len(out) \in Nat /\ chunks \in Nat
      /\ ended \in BOOLEAN
      /\ local \in Seq(Tokens) /\ down \in Seq(Tokens) /\ out \in Seq(Tokens)
      /\ e = down[1] /\ e \in Tokens
  BY <1>1, <1>2, TailFacts DEF TypeOK
<1>4. chunks > 0 \/ ended
  BY <1>1 DEF Arrived
<1>5. ~ Ends(local)
  BY <1>1, <1>2 DEF OnTheWay
<1>6. e = "end" => ended /\ n = chunks + 1
  <2> SUFFICES ASSUME e = "end" PROVE ended /\ n = chunks + 1
    OBVIOUS
  <2>1. Ends(down) /\ Len(down) = 1
    <3>1. 1 \in 1..Len(down) /\ down[1] = "end"
      BY <1>3
    <3>2. QED BY <1>1, <3>1 DEF OnTheWay, EndsLast, Ends, Has
  <2>2. Len(out) = 0
    BY <1>1, <2>1 DEF OnTheWay, Stages
  <2>3. ended /\ Total = chunks + 2
    BY <1>1, <2>1 DEF Counted, InTransit
  <2>4. QED BY <1>3, <2>1, <2>2, <2>3 DEF Total
<1>7. e # "end" => n < chunks + 1
  <2> SUFFICES ASSUME e # "end" PROVE n < chunks + 1
    OBVIOUS
  <2>1. CASE Ends(down)
    <3>1. Len(down) > 1
      BY <1>3, <2>1 DEF Ends, Has
    <3>2. Total = chunks + 2
      BY <1>1, <2>1 DEF Counted, InTransit
    <3>3. QED BY <1>3, <3>1, <3>2 DEF Total
  <2>2. CASE Ends(out)
    <3>1. Len(out) > 0
      BY <1>3, <2>2 DEF Ends, Has
    <3>2. Total = chunks + 2
      BY <1>1, <2>2 DEF Counted, InTransit
    <3>3. QED BY <1>3, <3>1, <3>2 DEF Total
  <2>3. CASE ~ Ends(down) /\ ~ Ends(out)
    <3>1. Total <= chunks + 1
      BY <1>1, <1>5, <2>3 DEF Arrived
    <3>2. QED BY <1>3, <3>1 DEF Total
  <2>4. QED BY <2>1, <2>2, <2>3
<1>8. /\ Produced \in Seq(Tokens) /\ n + 1 <= Len(Produced)
      /\ \A i \in 1..Len(Produced) :
            Produced[i] = CASE i = 1 -> "provider" [] i = chunks + 2 -> "end" [] OTHER -> "data"
  BY <1>1, <1>3, <1>4, <1>6, <1>7, ProducedFacts
<1> HIDE DEF n, e
<1>9. ASSUME NEW i \in 1..n PROVE local[i] = Produced[i]
  <2>1. i # chunks + 2 /\ i \in 1..Len(Produced)
    BY <1>3, <1>6, <1>7, <1>8
  <2>2. local # <<>> /\ i \in 1..Len(local) /\ local[i] \in Tokens
    BY <1>3, <1>9 DEF n
  <2>3. local[1] = "provider"
    BY <2>2 DEF ProvidersOwn, IsProviders
  <2>4. local[i] # "end"
    BY <1>5, <2>2 DEF Ends, Has
  <2>5. i # 1 => local[i] \notin Statuses
    <3>1. i + 0 = 1 <=> i = 1
      BY <2>1
    <3>2. QED BY <1>1, <2>2, <3>1 DEF InOrder, Continues
  <2>6. i # 1 => local[i] = "data"
    BY <2>2, <2>4, <2>5 DEF Tokens
  <2>7. QED BY <1>8, <2>1, <2>3, <2>6
<1>10. e = Produced[n + 1]
  <2>1. n + 1 \in 1..Len(Produced) /\ (n + 1 = 1 <=> n = 0) /\ (n + 1 = chunks + 2 <=> e = "end")
    BY <1>3, <1>6, <1>7, <1>8
  <2>2. e \in Statuses <=> n = 0
    <3>1. 1 \in 1..Len(down) /\ (1 + n = 1 <=> n = 0)
      BY <1>3
    <3>2. QED BY <1>1, <1>3, <3>1 DEF OnTheWay, Continues, n
  <2>3. n = 0 => e = "provider"
    <3>1. n = 0 => local = <<>>
      BY <1>3, EmptySeq DEF n
    <3>2. QED BY <1>2, <1>3, <3>1 DEF ProvidersOwn, IsProviders
  <2>4. n # 0 => e = "end" \/ e = "data"
    BY <1>3, <2>2 DEF Tokens
  <2>5. "end" \notin Statuses
    BY DEF Statuses
  <2>6. QED BY <1>8, <2>1, <2>2, <2>3, <2>4, <2>5
<1>11. Promise!IsStrictPrefix(local, Produced)
  <2>1. Len(local) < Len(Produced) /\ \A i \in 1..Len(local) : local[i] = Produced[i]
    BY <1>3, <1>8, <1>9 DEF n
  <2>2. QED BY <1>3, <1>8, <2>1, AgreeingPrefix
<1>12. Promise!Forward
  <2>1. local' = Append(local, Produced[Len(local) + 1])
    BY <1>10 DEF n, e
  <2>2. (cpc # "done")' = (cpc # "done")
    BY <1>2
  <2>3. QED BY <1>2, <1>11, <2>1, <2>2 DEF Promise!Forward
<1>13. QED BY <1>12 DEF Promise!Next

(* What arrives from the provider is added to what had arrived.                   *)
LEMMA Produces ==
    ASSUME RInv, ProviderSendsChunk \/ ProviderEndsBody
    PROVE  [Promise!Next]_(Promise!vars)
<1> DEFINE before == IF Produced = <<>> THEN <<"provider">> ELSE Produced
<1>1. TypeOK /\ Awaited /\ spc \in {"first", "more"} /\ UNCHANGED <<local, asked, cpc>>
  BY DEF RInv, IInv, ProviderSendsChunk, ProviderEndsBody
<1>2. asked = 1 /\ ended = FALSE /\ chunks \in Nat
  BY <1>1 DEF Awaited, TypeOK
<1>3. PICK piece \in {"data", "end"} :
          /\ piece = "data" => chunks' = chunks + 1 /\ ended' = ended
          /\ piece = "end" => chunks' = chunks /\ ended' = TRUE
  BY DEF ProviderSendsChunk, ProviderEndsBody
<1>4. /\ before \in Seq(Tokens) /\ Len(before) = chunks + 1
      /\ \A i \in 1..Len(before) : before[i] = IF i = 1 THEN "provider" ELSE "data"
  <2>1. CASE Produced = <<>>
    <3>1. chunks = 0
      BY <1>1, <2>1, ProducedFacts
    <3>2. "provider" \in Tokens
      BY DEF Tokens, Statuses
    <3>3. QED BY <2>1, <3>1, <3>2
  <2>2. CASE Produced # <<>>
    <3>1. Produced \in Seq(Tokens) /\ Len(Produced) = chunks + 1
      BY <1>1, <1>2, <2>2, ProducedFacts
    <3>2. ASSUME NEW i \in 1..Len(Produced)
          PROVE  Produced[i] = IF i = 1 THEN "provider" ELSE "data"
      <4>1. i # chunks + 2
        BY <1>2, <3>1
      <4>2. QED BY <1>1, <4>1, ProducedFacts
    <3>3. QED BY <2>2, <3>1, <3>2
  <2>3. QED BY <2>1, <2>2
<1>5. Produced' = [i \in 1..chunks + 2 |->
                      CASE i = 1 -> "provider" [] i = chunks + 2 -> piece [] OTHER -> "data"]
  <2>1. CASE piece = "data"
    <3>1. Produced' = [i \in 1..chunks + 2 |->
              CASE i = 1 -> "provider" [] i = chunks + 3 -> "end" [] OTHER -> "data"]
      BY <1>2, <1>3, <2>1 DEF Produced
    <3>2. QED BY <1>2, <2>1, <3>1
  <2>2. CASE piece = "end"
    BY <1>2, <1>3, <2>2 DEF Produced
  <2>3. QED BY <2>1, <2>2
<1> HIDE DEF before
<1>6. Append(before, piece) = Produced'
  <2> DEFINE T(i) == CASE i = 1 -> "provider" [] i = chunks + 2 -> piece [] OTHER -> "data"
             r == Append(before, piece)
  <2>1. piece \in Tokens /\ \A i \in 1..chunks + 2 : T(i) \in Tokens
    BY DEF Tokens, Statuses
  <2>2. /\ r \in Seq(Tokens) /\ Len(r) = chunks + 2 /\ r[chunks + 2] = piece
        /\ \A i \in 1..chunks + 1 : r[i] = before[i]
    <3>1. /\ r \in Seq(Tokens) /\ Len(r) = Len(before) + 1 /\ r[Len(before) + 1] = piece
          /\ \A i \in 1..Len(before) : r[i] = before[i]
      BY <1>4, <2>1, AppendFacts
    <3>2. Len(before) = chunks + 1 /\ Len(before) + 1 = chunks + 2
      BY <1>2, <1>4
    <3>3. QED BY <3>1, <3>2
  <2> HIDE DEF r
  <2>3. ASSUME NEW i \in 1..chunks + 2 PROVE r[i] = T(i)
    <3>1. i # chunks + 2 => i \in 1..chunks + 1
      BY <1>2
    <3>2. chunks + 2 # 1
      BY <1>2
    <3>3. QED BY <1>4, <2>2, <3>1, <3>2
  <2>4. Produced' = [i \in 1..chunks + 2 |-> T(i)]
    BY <1>5
  <2> HIDE DEF T
  <2>5. /\ Produced' \in Seq(Tokens) /\ Len(Produced') = chunks + 2
        /\ \A i \in 1..chunks + 2 : Produced'[i] = T(i)
    BY <1>2, <2>1, <2>4
  <2>6. QED BY <2>2, <2>3, <2>5, SeqEqual DEF r
<1>7. Produced = <<>> \/ Promise!Last(Produced) # "end"
  <2> SUFFICES ASSUME Produced # <<>> PROVE Promise!Last(Produced) # "end"
    OBVIOUS
  <2>1. before = Produced
    BY DEF before
  <2>2. chunks + 1 \in 1..Len(Produced)
    BY <1>2, <1>4, <2>1
  <2>3. QED BY <1>4, <2>1, <2>2 DEF Promise!Last
<1>8. Promise!Produce
  <2>1. Produced' = Append(IF Produced = <<>> THEN <<"provider">> ELSE Produced, piece)
    BY <1>6 DEF before
  <2>2. (cpc # "done")' = (cpc # "done")
    BY <1>1
  <2>3. QED BY <1>1, <1>2, <1>7, <2>1, <2>2 DEF Promise!Produce
<1>9. QED BY <1>8 DEF Promise!Next

(* Every step is one of the abstract exchange, or changes nothing there.          *)
LEMMA StepMaps == RInv /\ [Next]_vars => [Promise!Next]_(Promise!vars)
<1> SUFFICES ASSUME RInv, [Next]_vars PROVE [Promise!Next]_(Promise!vars)
  OBVIOUS
<1>t. TypeOK /\ Stages /\ AskedOnce /\ RefusalsAreFinal /\ InOrder /\ Counted /\ OwnAnswers
  BY DEF RInv, IInv
<1>1. CASE \/ ReadLocalRequest \/ OpenTunnelStream \/ SendPart \/ FinishRequest
           \/ SendFails \/ SendTimesOut
           \/ ResponseEnds \/ ResponseFails \/ ResponseTimesOut
  BY <1>1, NothingNew DEF ReadLocalRequest, OpenTunnelStream, SendPart, FinishRequest,
     SendFails, SendTimesOut, ResponseEnds, ResponseFails, ResponseTimesOut
<1>2. CASE CopyResponse
  <2>1. CASE ClientEnds /\ UNCHANGED local
    BY <1>2, <2>1, NothingNew DEF CopyResponse, ClientEnds
  <2>2. CASE local' = Append(local, Head(down)) /\ down' = Tail(down) /\ cpc' = "stream"
    <3>1. CASE ProvidersOwn
      BY <1>2, <2>2, <3>1, Forwards
    <3>2. CASE ~ ProvidersOwn
      <4>1. /\ down # <<>> /\ down \in Seq(Tokens) /\ Listens /\ OnTheWay
            /\ cpc # "done" /\ cpc' # "done" /\ UNCHANGED <<asked, chunks, ended>>
        BY <1>2, <1>t, <2>2 DEF CopyResponse, Listens, TypeOK, InOrder
      <4>2. PlainFrom(local, 0) /\ PlainFrom(down, Len(local)) /\ Continues(down, Len(local))
        BY <1>t, <3>2, <4>1 DEF OwnAnswers, OnTheWay
      <4>3. ~ Ends(local) /\ ~ IsProviders(local) /\ (local = <<>> => ~ IsProviders(down))
        BY <3>2, <4>1 DEF OnTheWay, ProvidersOwn
      <4>4. Refusing(down) => asked = 0
        BY <1>t DEF RefusalsAreFinal
      <4>5. QED BY <2>2, <4>1, <4>2, <4>3, <4>4, AnswersItself
    <3>3. QED BY <3>1, <3>2
  <2>3. QED BY <1>2, <2>1, <2>2 DEF CopyResponse
<1>3. CASE WriteReport
  <2>1. CASE ClientEnds /\ UNCHANGED local
    BY <1>3, <2>1, NothingNew DEF WriteReport, ClientEnds
  <2>2. CASE report # <<>> /\ local' = Append(local, Head(report)) /\ UNCHANGED cpc
    <3>1. cpc = "report" /\ report \in Seq(Tokens) /\ UNCHANGED <<asked, chunks, ended>>
      BY <1>3, <1>t DEF WriteReport, TypeOK
    <3>2. /\ PlainFrom(local, 0) /\ PlainFrom(report, Len(local)) /\ Continues(report, Len(local))
          /\ ~ Ends(local) /\ ~ IsProviders(local) /\ ~ IsProviders(report)
      BY <1>t, <2>2, <3>1 DEF OwnAnswers, InOrder, Counted
    <3>3. Refusing(report) => asked = 0
      BY <1>t DEF RefusalsAreFinal
    <3>4. QED BY <2>2, <3>1, <3>2, <3>3, AnswersItself
  <2>3. QED BY <1>3, <2>1, <2>2 DEF WriteReport
<1>4. CASE ReadRequest
  <2>1. UNCHANGED <<local, chunks, ended, cpc>>
    BY <1>4 DEF ReadRequest
  <2>2. CASE kind = "plain"
    <3>1. asked = 0 /\ asked' = 1 /\ opened
      BY <1>4, <1>t, <2>2 DEF ReadRequest, AskedOnce, Stages
    <3>2. ~ Refusing(local)
      BY <1>4, <1>t, <3>1 DEF RefusalsAreFinal, ReadRequest
    <3>3. local = <<>> \/ Head(local) \notin Promise!InItsStead
      <4>1. local # <<>> => Head(local) = local[1] /\ 1 \in 1..Len(local)
        BY <1>t, TailFacts DEF TypeOK
      <4>2. QED BY <3>2, <4>1 DEF Refusing, Has, Refusals, Promise!InItsStead
    <3>4. Produced' = Produced
      BY <2>1 DEF Produced
    <3>5. Promise!Ask
      BY <2>1, <3>1, <3>3, <3>4 DEF Promise!Ask
    <3>6. QED BY <3>5 DEF Promise!Next
  <2>3. CASE kind # "plain"
    BY <1>4, <2>1, <2>3, NothingNew DEF ReadRequest
  <2>4. QED BY <2>2, <2>3
<1>5. CASE ProviderSendsChunk \/ ProviderEndsBody
  BY <1>5, Produces
<1>6. CASE \/ AcceptStream \/ ReadPart \/ ReadFails \/ ReadTimesOut
           \/ ProviderTimesOut \/ WriteToken \/ WriteFails
           \/ ProviderFails \/ ProviderResponds \/ ProviderBreaksOff
           \/ LocalPeer \/ ConnectionLost \/ UNCHANGED vars
  BY <1>6, NothingNew DEF AcceptStream, ReadPart, ReadFails, ReadTimesOut, ProviderTimesOut,
     WriteToken, WriteFails, ProviderFails, ProviderResponds, ProviderBreaksOff, LocalPeer,
     ConnectionLost, vars
<1>7. QED
  BY <1>1, <1>2, <1>3, <1>4, <1>5, <1>6 DEF Next, ClientStep, ServerStep, ProviderStep

--------------------------------------------------------------------------------
(* Whatever meets an exchange, the local program is promised and gets the answer  *)
(* of the provider as far as it came, or one of the proxy's own that is true.     *)
THEOREM ExchangeKeepsPromise == Spec => ImplementsAbstractExchange
<1>1. Init => Promise!Init
  BY DEF Init, Promise!Init, Produced
<1>2. QED
  BY <1>1, StepMaps, RefinementInvariant, PTL
  DEF Spec, ImplementsAbstractExchange, Promise!Spec
================================================================================
