------------------------------ MODULE HttpRequest ------------------------------
(* How one HTTP request is read from a byte stream, twice (src/http.rs): by the   *)
(* client from the local program (read_one_local_http_request), which forwards    *)
(* the bytes it has read as they are, and by the server from the tunnel           *)
(* (read_http_request), which asks the provider for the URL the target maps to    *)
(* (ProviderUrl).                                                                 *)
(*                                                                                *)
(* Bytes arrive in pieces of any size and pass through a BufReader.  A request is *)
(* the lines of its head, of which only length and meaning count, the path in its *)
(* first line, and the number of bytes the local program sends after the head:    *)
(* the body, and those of a second request.                                       *)
EXTENDS ProviderUrl, FiniteSets, FiniteSetsExt

CONSTANTS
    Requests,               \* what local programs send, see RequestsAssumption
    Capacity,               \* of a BufReader
    MAX_REQUEST_LINE_BYTES,
    MAX_HEADER_BYTES,
    MAX_HEADER_COUNT,
    MAX_BODY_BYTES

(* A line is a request line, one with a target that is not in origin form, a      *)
(* header, one whose name or value is not allowed, a Content-Length that is a     *)
(* number or not, a Transfer-Encoding with or without "chunked", or blank.        *)
Meanings == {"request", "absolute", "header", "malformed", "length", "no_length",
             "chunked", "identity", "blank"}
Lines == [bytes : Nat \ {0}, is : Meanings, value : Nat]

(* The head ends with the first blank line after the line read as the request     *)
(* line, blank or not.                                                            *)
EndsAtBlankLine(lines) ==
    /\ Len(lines) > 1
    /\ \A i \in 2..Len(lines) : lines[i].is = "blank" <=> i = Len(lines)

ASSUME RequestsAssumption ==
    \A r \in Requests :
          /\ r.lines \in Seq(Lines) /\ EndsAtBlankLine(r.lines)
          /\ r.target \in Seq(Segments) \ {<<>>}
          /\ r.after \in Nat

ASSUME LimitsAssumption ==
    /\ Capacity \in Nat \ {0}
    /\ {MAX_REQUEST_LINE_BYTES, MAX_HEADER_BYTES, MAX_HEADER_COUNT, MAX_BODY_BYTES} \subseteq Nat

Readers == {"client", "server"}

VARIABLES
    request,    \* what the local program sends
    arrived,    \* per reader: bytes of its stream that have arrived
    ended,      \* per reader: no more will
    filled,     \* per reader: bytes its BufReader has taken from the stream
    pos,        \* per reader: bytes it has taken from the BufReader
    verdict,    \* per reader: what it makes of the request
    url         \* what the server makes of the target, NoUrl before it looks

stream == <<arrived, ended>>
reader == <<filled, pos, verdict>>
vars == <<request, stream, reader, url>>

None == "none"
NoUrl == Elsewhere(<<Empty>>)
Verdicts == {"reading", "accepted", "bad_request", "headers_too_large", "payload_too_large",
             "unsupported_chunked"}

Init ==
    /\ request \in Requests
    /\ arrived = [r \in Readers |-> 0] /\ ended = [r \in Readers |-> FALSE]
    /\ filled = [r \in Readers |-> 0] /\ pos = [r \in Readers |-> 0]
    /\ verdict = [r \in Readers |-> "reading"]
    /\ url = NoUrl

--------------------------------------------------------------------------------
(* The head of the request: parse_http_head.  A blank line in front of the        *)
(* request line is skipped by httparse.                                           *)
lines == request.lines
First == IF lines[1].is = "blank" THEN 2 ELSE 1
Headers == SubSeq(lines, First + 1, Len(lines) - 1)
HeadersThat(meanings) == {i \in DOMAIN Headers : Headers[i].is \in meanings}

(* httparse stops at the first thing it cannot parse, or at a header for which    *)
(* there is no room left.                                                         *)
HttparseError ==
    IF lines[First].is \notin {"request", "absolute"} \/ HeadersThat({"malformed"}) \cap 1..MAX_HEADER_COUNT # {}
    THEN "bad_request"
    ELSE IF Len(Headers) > MAX_HEADER_COUNT THEN "headers_too_large" ELSE None

(* Faulty: a second Content-Length replaces the first one.                        *)
LastLengthCounts(i) ==
    CASE Headers[i].is = "no_length" -> "bad_request"
      [] Headers[i].is = "length" /\ Headers[i].value > MAX_BODY_BYTES -> "payload_too_large"
      [] OTHER -> None

(* What is wrong with header i, when nothing was with those before it.            *)
HeaderError(i) ==
    CASE Headers[i].is = "no_length" -> "bad_request"
      [] Headers[i].is = "length" /\ Headers[i].value > MAX_BODY_BYTES -> "payload_too_large"
      [] /\ Headers[i].is = "length" /\ Headers[i].value <= MAX_BODY_BYTES
         /\ \E j \in HeadersThat({"length"}) : j < i /\ Headers[j].value # Headers[i].value
            -> "bad_request"
      [] OTHER -> None

HeadError ==
    LET wrong == {i \in DOMAIN Headers : HeaderError(i) # None} IN
    CASE HttparseError # None -> HttparseError
      [] HttparseError = None /\ lines[First].is = "absolute" -> "bad_request"
      [] OTHER -> IF wrong = {} THEN None ELSE HeaderError(Min(wrong))

(* The last Transfer-Encoding decides.                                            *)
HasChunkedBody ==
    LET encodings == HeadersThat({"chunked", "identity"}) IN
    encodings # {} /\ Headers[Max(encodings)].is = "chunked"

ContentLength ==
    LET lengths == HeadersThat({"length"}) IN
    IF lengths = {} THEN 0 ELSE Headers[Max(lengths)].value

(* The bytes of the stream up to the end of a line, of the head, and of what is   *)
(* read of the request: the body of a chunked one is not.                         *)
EndOfLine[i \in 0..Len(lines)] == IF i = 0 THEN 0 ELSE EndOfLine[i - 1] + lines[i].bytes
EndOfHead == EndOfLine[Len(lines)]
EndOfRequest == EndOfHead + IF HasChunkedBody THEN 0 ELSE ContentLength

--------------------------------------------------------------------------------
(* The reader r gets to byte p of the stream, with q bytes in the buffer or       *)
(* before it, and comes to a verdict or goes on.                                  *)
Advances(r, p, q, v) ==
    /\ pos' = [pos EXCEPT ![r] = p]
    /\ filled' = [filled EXCEPT ![r] = q]
    /\ verdict' = [verdict EXCEPT ![r] = v]

(* Faulty: whether there is more is decided after waiting for it.                 *)
JudgeWhole(r, q) ==
    IF r = "client" /\ (q > EndOfRequest \/ arrived[r] > EndOfRequest)
    THEN "bad_request" ELSE IF ended[r] \/ r = "server" THEN "accepted" ELSE "reading"

(* The whole request has been read.  The client refuses one behind which there is *)
(* more in the buffer.                                                            *)
Judge(r, q) ==
    IF r = "client" /\ q > EndOfRequest THEN "bad_request" ELSE "accepted"

(* The head is complete: parse_http_head, and what follows without a wait.        *)
JudgeHead(r, q) ==
    CASE HeadError # None -> HeadError
      [] HeadError = None /\ HasChunkedBody ->
            IF r = "client" THEN "accepted" ELSE "unsupported_chunked"
      [] OTHER -> IF ContentLength = 0 THEN Judge(r, q) ELSE "reading"

(* Faulty: the buffer takes all that has arrived.                                 *)
FilledWithAll(r) == arrived[r]

(* fill_buf(): an empty buffer is filled with what has arrived.                   *)
Filled(r) == IF pos[r] = filled[r] THEN Min({arrived[r], pos[r] + Capacity}) ELSE filled[r]

(* Faulty: the length that is checked is that of the piece.                       *)
PieceTooLong(i, length, piece) ==
    piece > IF i = 1 THEN MAX_REQUEST_LINE_BYTES ELSE MAX_HEADER_BYTES

(* What has been read of line i would be longer than a line may be.               *)
TooLong(i, length, piece) ==
    length + piece > IF i = 1 THEN MAX_REQUEST_LINE_BYTES ELSE MAX_HEADER_BYTES

(* The lines after the first are longer than all of them may be.                  *)
HeaderBytesExceeded(end) == end - EndOfLine[1] > MAX_HEADER_BYTES

(* One turn of the loop of read_limited_line_bytes, with what read_http_head does *)
(* when the line is complete.                                                     *)
ReadLine(r) ==
    /\ verdict[r] = "reading"
    /\ pos[r] < EndOfHead /\ pos[r] < arrived[r]
    /\ LET i == CHOOSE n \in DOMAIN lines : EndOfLine[n - 1] <= pos[r] /\ pos[r] < EndOfLine[n]
           end == Min({Filled(r), EndOfLine[i]})
           error == IF i = 1 THEN "bad_request" ELSE "headers_too_large"
       IN CASE TooLong(i, pos[r] - EndOfLine[i - 1], end - pos[r]) ->
                  Advances(r, pos[r], Filled(r), error)
            [] OTHER ->
                  Advances(r, end, Filled(r),
                      IF end < EndOfLine[i] THEN "reading"
                      ELSE IF i > 1 /\ HeaderBytesExceeded(end) THEN error
                      ELSE IF end = EndOfHead THEN JudgeHead(r, Filled(r)) ELSE "reading")
    /\ UNCHANGED <<request, stream, url>>

(* read_exact() of the body: a read that would fill the buffer goes past it.      *)
ReadBody(r) ==
    /\ verdict[r] = "reading"
    /\ pos[r] >= EndOfHead /\ pos[r] < arrived[r]
    /\ LET direct == pos[r] = filled[r] /\ EndOfRequest - pos[r] >= Capacity
           end == Min({IF direct THEN arrived[r] ELSE Filled(r), EndOfRequest})
           buffer == IF direct THEN end ELSE Filled(r)
       IN Advances(r, end, buffer, IF end = EndOfRequest THEN Judge(r, buffer) ELSE "reading")
    /\ UNCHANGED <<request, stream, url>>

(* The stream ends before the request: the loop returns an unfinished line, whose *)
(* bytes are counted, and finds nothing behind it.                                *)
EndsEarly(r) ==
    /\ verdict[r] = "reading"
    /\ ended[r] /\ pos[r] = arrived[r]
    /\ Advances(r, pos[r], filled[r],
           IF pos[r] \in EndOfLine[1]..EndOfHead /\ HeaderBytesExceeded(pos[r])
           THEN "headers_too_large" ELSE "bad_request")
    /\ UNCHANGED <<request, stream, url>>

Read(r) == ReadLine(r) \/ ReadBody(r) \/ EndsEarly(r)

(* Faulty: the body is read apart and forgotten.                                  *)
HeadOnly(r) ==
    IF r = "client" THEN EndOfHead + request.after
    ELSE IF verdict["client"] = "accepted" THEN EndOfHead ELSE 0

(* What is sent on a stream: all the local program has to say; then, as raw       *)
(* bytes, all that the client has read of it.                                     *)
Sent(r) ==
    IF r = "client" THEN EndOfHead + request.after
    ELSE IF verdict["client"] = "accepted" THEN pos["client"] ELSE 0

Arrive(r) ==
    /\ verdict[r] = "reading" /\ ~ ended[r]
    /\ \E n \in arrived[r] + 1..Sent(r) : arrived' = [arrived EXCEPT ![r] = n]
    /\ UNCHANGED <<request, ended, reader, url>>

(* The sender closes, after everything or, having failed, before; the local       *)
(* program may as well keep its side open.                                        *)
End(r) ==
    /\ verdict[r] = "reading" /\ ~ ended[r]
    /\ r = "server" => verdict["client"] = "accepted"
    /\ ended' = [ended EXCEPT ![r] = TRUE]
    /\ UNCHANGED <<request, arrived, reader, url>>

(* forward_request_to_provider: the target of the request is looked at only now.  *)
MapTarget ==
    /\ verdict["server"] = "accepted" /\ url = NoUrl
    /\ url' = ProviderRequestUrl(request.target)
    /\ UNCHANGED <<request, stream, reader>>

Next == (\E r \in Readers : Arrive(r) \/ End(r) \/ Read(r)) \/ MapTarget

Spec == Init /\ [][Next]_vars

(* The runtime polls a reader that can go on.  Nobody has to send.                *)
FairSpec == Spec /\ \A r \in Readers : WF_vars(Read(r))

--------------------------------------------------------------------------------
(* Type invariant: among the rest, a BufReader never holds more than its          *)
(* capacity, nor what has not arrived.                                            *)
TypeOK ==
    /\ request \in Requests
    /\ \A r \in Readers :
          /\ arrived[r] \in 0..Sent(r) /\ ended[r] \in BOOLEAN
          /\ pos[r] <= filled[r] /\ filled[r] <= arrived[r]
          /\ filled[r] - pos[r] <= Capacity
          /\ verdict[r] \in Verdicts
    /\ url \in {NoUrl, ProviderRequestUrl(request.target)}

(* What the documentation and the tests ask of a request, and what may be wrong   *)
(* with it.                                                                       *)
TooManyHeaderBytes == EndOfHead - EndOfLine[1] > MAX_HEADER_BYTES
Lengths == {Headers[i].value : i \in HeadersThat({"length"})}
IsSound ==
    /\ lines[First].is = "request" /\ lines[1].bytes <= MAX_REQUEST_LINE_BYTES
    /\ HeadersThat({"malformed", "no_length"}) = {}
    /\ Cardinality(Lengths) <= 1
IsSmall ==
    /\ ~ TooManyHeaderBytes /\ Len(Headers) <= MAX_HEADER_COUNT
    /\ \A n \in Lengths : n <= MAX_BODY_BYTES

(* The verdict on a whole request with nothing behind it, from its lines alone:   *)
(* those that are too long come before what the head says.                        *)
VerdictOnWhole(r) ==
    IF lines[1].bytes > MAX_REQUEST_LINE_BYTES THEN "bad_request"
    ELSE IF TooManyHeaderBytes THEN "headers_too_large"
    ELSE IF HeadError # None THEN HeadError
    ELSE IF r = "server" /\ HasChunkedBody THEN "unsupported_chunked" ELSE "accepted"

(* A verdict depends on the request and not on the pieces in which it arrives     *)
(* (http.rs:98-167, 231, 387), unless it is cut short or there is more behind it: *)
(* what is accepted is sound, within all limits at their exact boundary, and has  *)
(* arrived to its last byte; what is refused has the fault it is refused for, has *)
(* been cut short, or has a second request behind it.                             *)
VerdictIsJustified ==
    \A r \in Readers :
        /\ \/ verdict[r] \in {"reading", VerdictOnWhole(r)}
           \/ ended[r] /\ arrived[r] < EndOfRequest
           \/ r = "client" /\ arrived[r] > EndOfRequest /\ verdict[r] = "bad_request"
        /\ verdict[r] \in {"accepted", "unsupported_chunked"} =>
              IsSound /\ IsSmall /\ EndOfRequest <= arrived[r]
        /\ verdict[r] = "bad_request" =>
              \/ ~ IsSound
              \/ ended[r] /\ arrived[r] < EndOfRequest
              \/ r = "client" /\ arrived[r] > EndOfRequest
        /\ verdict[r] = "headers_too_large" => TooManyHeaderBytes \/ Len(Headers) > MAX_HEADER_COUNT
        /\ verdict[r] = "payload_too_large" => \E n \in Lengths : n > MAX_BODY_BYTES
        /\ verdict[r] = "unsupported_chunked" => r = "server" /\ HasChunkedBody

(* What the client forwards is one request, and to the server the same one: it    *)
(* ends where the client has found its end, with no byte of a second request, and *)
(* unless it is cut off on its way the server takes it, or, chunked, answers that *)
(* it does not (http.rs:77, 375-391).                                             *)
ServerReadsTheSame ==
    verdict["client"] = "accepted" =>
        /\ verdict["server"] \in {"reading", IF HasChunkedBody THEN "unsupported_chunked" ELSE "accepted"}
              \/ (ended["server"] /\ arrived["server"] < Sent("server"))
        /\ verdict["server"] = "accepted" => pos["server"] = pos["client"]

(* A reader that has the whole request comes to its verdict: it never waits for   *)
(* one byte more, or for the end of a stream that its peer keeps open for the     *)
(* answer.                                                                        *)
DecidesWithoutMore ==
    \A r \in Readers : arrived[r] >= EndOfRequest ~> verdict[r] # "reading"

(* The segments of a path whatever its slashes.                                   *)
Names(path) ==
    LET names[i \in 0..Len(path)] ==
            IF i = 0 THEN <<>>
            ELSE IF path[i] = Empty THEN names[i - 1] ELSE Append(names[i - 1], path[i])
    IN names[Len(path)]

(* The relative path is a reference with a scheme, which need not end up below    *)
(* the base.                                                                      *)
HasScheme(path) ==
    LET relative == RelativePath(path) IN
    relative # <<>> /\ relative[1] \in Schemes \cup DOMAIN BehindOwn

(* The base path is neither doubled nor missed (README.md:276, url.rs:33): a      *)
(* local program may put it in front of a path or leave it out, unless it is one  *)
(* that no request may have; and, slashes apart, two paths that differ in         *)
(* anything else are two URLs, unless one of them begins with a scheme (with the  *)
(* base's own, url.rs:39-41 makes "/https:models" and "/models" the same).        *)
BaseMayBeLeftOut ==
    url \notin {NoUrl, Refused} =>
        /\ ~ HasBase(request.target) /\ ~ IsUnsafe(base_path) =>
              ProviderRequestUrl(base_path \o request.target) = url
        /\ \A r \in Requests : ProviderRequestUrl(r.target) = url =>
              LET p == Names(request.target)
                  q == Names(r.target)
                  base == Names(base_path)
              IN \/ p = q \/ p = base \o q \/ q = base \o p
                 \/ HasScheme(request.target) \/ HasScheme(r.target)

================================================================================
