--------------------------- MODULE HttpRequestProofs ---------------------------
(* Proofs about HttpRequest: what a reader makes of a request is justified by the *)
(* request, the two readers of one request agree about it, and no more of a       *)
(* target is lost on its way to the provider than slashes and one base path.      *)
EXTENDS HttpRequest, SequenceTheorems, NaturalsInduction, WellFoundedInduction,
        FiniteSetTheorems, TLAPS

--------------------------------------------------------------------------------
(* Numbers.  A set of numbers has a least one.                                    *)
LEMMA Minimum ==
    ASSUME NEW S \in SUBSET Nat, S # {}
    PROVE  Min(S) \in S /\ \A y \in S : Min(S) <= y
<1>1. \E x \in S : \A y \in S : ~ (<<y, x>> \in OpToRel(<, Nat))
  BY NatLessThanWellFounded, WFMin
<1>2. \A x, y \in S : y < x => <<y, x>> \in OpToRel(<, Nat)
  <2>1. SUFFICES ASSUME NEW x \in S, NEW y \in S, y < x
                 PROVE  <<y, x>> \in OpToRel(<, Nat)
    OBVIOUS
  <2>2. x \in Nat /\ y \in Nat
    OBVIOUS
  <2>3. QED BY <2>1, <2>2, Zenon DEF OpToRel
<1>3. PICK x \in S : \A y \in S : ~ (<<y, x>> \in OpToRel(<, Nat))
  BY <1>1, Zenon
<1>4. \A y \in S : ~ (y < x)
  BY <1>2, <1>3, Zenon
<1>5. \A y \in S : x <= y
  BY <1>4
<1>6. QED BY <1>5 DEF Min

(* A set of numbers up to n has a greatest one.                                   *)
LEMMA Maximum ==
    ASSUME NEW n \in Nat, NEW S \in SUBSET (1..n), S # {}
    PROVE  Max(S) \in S /\ \A y \in S : y <= Max(S)
<1> DEFINE T == {n - x : x \in S}
<1>1. T \in SUBSET Nat /\ T # {}
  <2>1. \A x \in S : x \in 1..n /\ n - x \in Nat
    OBVIOUS
  <2>2. QED BY <2>1
<1>2. Min(T) \in T /\ \A y \in T : Min(T) <= y
  <2> HIDE DEF T
  <2>1. QED BY <1>1, Minimum
<1>3. PICK x \in S : Min(T) = n - x
  BY <1>2
<1>4. \A y \in S : y <= x
  <2>1. SUFFICES ASSUME NEW y \in S PROVE y <= x
    OBVIOUS
  <2>2. n - x <= n - y
    BY <1>2, <1>3
  <2>3. QED BY <2>2
<1>5. \E m \in S : \A y \in S : m >= y
  BY <1>4
<1>6. Max(S) \in S /\ \A y \in S : Max(S) >= y
  BY <1>5 DEF Max
<1>7. S \subseteq Int
  OBVIOUS
<1>8. QED BY <1>6, <1>7

(* Induction up to n: a set with 0 in it, and with every number the one after it. *)
LEMMA Induction ==
    ASSUME NEW n \in Nat, NEW S, 0 \in S, \A i \in 0..n : i \in S /\ i < n => i + 1 \in S
    PROVE  \A i \in 0..n : i \in S
<1> DEFINE T == {i \in 0..n : i \notin S}
<1>1. SUFFICES ASSUME T # {} PROVE FALSE
  OBVIOUS
<1>2. T \in SUBSET Nat
  OBVIOUS
<1>3. Min(T) \in T /\ \A y \in T : Min(T) <= y
  BY <1>1, <1>2, Minimum
<1>4. PICK m \in T : \A y \in T : m <= y
  BY <1>3
<1>5. m \in 0..n /\ m # 0 /\ m \notin S
  BY <1>4
<1>6. m - 1 \in 0..n /\ m - 1 < n /\ m - 1 \notin T
  BY <1>4, <1>5
<1>7. m - 1 \in S
  BY <1>6
<1>8. (m - 1) + 1 \in S
  BY <1>6, <1>7
<1>9. QED BY <1>5, <1>8

(* Steps on T, one per number up to n, and a function that takes them from a on.  *)
StepsIn(n, T) == [1..n -> [T -> T]]
Follows(f, n, T, a, step) ==
    f \in [0..n -> T] /\ f[0] = a /\ \A i \in 1..n : f[i] = step[i][f[i - 1]]

(* A function on 0..n may be defined by its first value and its steps.            *)
LEMMA Recursion ==
    ASSUME NEW n \in Nat, NEW T, NEW a \in T, NEW step \in StepsIn(n, T)
    PROVE  \E f : Follows(f, n, T, a, step)
<1> DEFINE Steps(f, m) == f[0] = a /\ \A i \in 1..m : f[i] = step[i][f[i - 1]]
           S == {m \in 0..n : \E f \in [0..m -> T] : Steps(f, m)}
<1>1. 0 \in S
  <2> DEFINE f == [i \in 0..0 |-> a]
  <2>1. f \in [0..0 -> T] /\ f[0] = a /\ 1..0 = {}
    OBVIOUS
  <2> HIDE DEF f
  <2>2. Steps(f, 0)
    BY <2>1
  <2>3. QED BY <2>1, <2>2
<1>2. ASSUME NEW m \in 0..n, m \in S, m < n PROVE m + 1 \in S
  <2>1. PICK f \in [0..m -> T] : Steps(f, m)
    BY <1>2
  <2> DEFINE g == [i \in 0..(m + 1) |-> IF i = m + 1 THEN step[m + 1][f[m]] ELSE f[i]]
  <2>2. m + 1 \in 1..n /\ f[m] \in T
    BY <1>2
  <2>3. step[m + 1][f[m]] \in T
    BY <2>2 DEF StepsIn
  <2>4. g \in [0..(m + 1) -> T]
    BY <2>3
  <2>5. g[0] = a
    BY <2>1
  <2>6. ASSUME NEW i \in 1..(m + 1) PROVE g[i] = step[i][g[i - 1]]
    <3>1. CASE i = m + 1
      <4>1. g[m] = f[m]
        BY <1>2
      <4>2. QED BY <3>1, <4>1
    <3>2. CASE i # m + 1
      <4>1. i \in 1..m
        BY <3>2
      <4>2. g[i] = f[i] /\ g[i - 1] = f[i - 1]
        BY <4>1
      <4>3. QED BY <2>1, <4>1, <4>2
    <3>3. QED BY <3>1, <3>2
  <2>7. m + 1 \in 0..n
    BY <1>2
  <2> HIDE DEF g
  <2>8. QED BY <2>4, <2>5, <2>6, <2>7
<1>3. n \in S
  <2> HIDE DEF S
  <2>1. \A i \in 0..n : i \in S
    BY <1>1, <1>2, Induction
  <2>2. QED BY <2>1
<1>4. QED BY <1>3 DEF Follows

--------------------------------------------------------------------------------
(* The lines of a request.                                                        *)
LEMMA LinesOK ==
    ASSUME request \in Requests
    PROVE  /\ Len(lines) \in Nat /\ Len(lines) > 1
           /\ \A i \in 1..Len(lines) :
                 lines[i].bytes \in Nat \ {0} /\ lines[i].value \in Nat
           /\ request.after \in Nat
<1>1. lines \in Seq(Lines) /\ Len(lines) > 1 /\ request.after \in Nat
  BY RequestsAssumption DEF EndsAtBlankLine, lines
<1>2. \A l \in Lines : l.bytes \in Nat \ {0} /\ l.value \in Nat
  BY DEF Lines
<1>3. \A i \in 1..Len(lines) : lines[i] \in Lines
  BY <1>1
<1>4. QED BY <1>1, <1>2, <1>3

(* The ends of lines, from the front on.                                          *)
LEMMA EndsExist ==
    ASSUME NEW n \in Nat, NEW b \in [1..n -> Nat]
    PROVE  \E f : f = [i \in 0..n |-> IF i = 0 THEN 0 ELSE f[i - 1] + b[i]]
<1> DEFINE step == [i \in 1..n |-> [x \in Nat |-> x + b[i]]]
<1>1. step \in StepsIn(n, Nat)
  BY DEF StepsIn
<1>2. \E f : Follows(f, n, Nat, 0, step)
  <2> HIDE DEF step
  <2>1. 0 \in Nat
    OBVIOUS
  <2>2. QED BY <1>1, <2>1, Recursion
<1>3. PICK f \in [0..n -> Nat] : f[0] = 0 /\ \A i \in 1..n : f[i] = step[i][f[i - 1]]
  BY <1>2 DEF Follows
<1>4. \A i \in 0..n : f[i] = IF i = 0 THEN 0 ELSE step[i][f[i - 1]]
  <2> HIDE DEF step
  <2>1. \A i \in 0..n : i # 0 => i \in 1..n
    OBVIOUS
  <2>2. QED BY <1>3, <2>1
<1>5. \A i \in 0..n : i # 0 => i \in 1..n /\ f[i - 1] \in Nat
  OBVIOUS
<1>6. \A i \in 1..n, x \in Nat : step[i][x] = x + b[i]
  OBVIOUS
<1> HIDE DEF step
<1>7. \A i \in 0..n : f[i] = IF i = 0 THEN 0 ELSE f[i - 1] + b[i]
  BY <1>4, <1>5, <1>6
<1>8. f = [i \in 0..n |-> f[i]]
  OBVIOUS
<1>9. f = [i \in 0..n |-> IF i = 0 THEN 0 ELSE f[i - 1] + b[i]]
  BY <1>7, <1>8
<1>10. QED BY <1>9

(* The end of a line is the end of the one before it and its bytes.               *)
LEMMA EndOfLineIsSum ==
    ASSUME request \in Requests
    PROVE  /\ EndOfLine[0] = 0
           /\ \A i \in 0..Len(lines) : EndOfLine[i] \in Nat
           /\ \A i \in 1..Len(lines) : EndOfLine[i] = EndOfLine[i - 1] + lines[i].bytes
<1> DEFINE n == Len(lines)
           b == [i \in 1..n |-> lines[i].bytes]
<1>1. n \in Nat /\ b \in [1..n -> Nat]
  BY LinesOK
<1>2. \E f : f = [i \in 0..n |-> IF i = 0 THEN 0 ELSE f[i - 1] + b[i]]
  BY <1>1, EndsExist
<1>3. PICK f : f = [i \in 0..n |-> IF i = 0 THEN 0 ELSE f[i - 1] + b[i]]
  BY <1>2
<1>4. \A i \in 0..n : (IF i = 0 THEN 0 ELSE f[i - 1] + b[i]) =
                       IF i = 0 THEN 0 ELSE f[i - 1] + lines[i].bytes
  OBVIOUS
<1>5. f = [i \in 0..n |-> IF i = 0 THEN 0 ELSE f[i - 1] + lines[i].bytes]
  BY <1>3, <1>4
<1>6. EndOfLine = [i \in 0..n |-> IF i = 0 THEN 0 ELSE EndOfLine[i - 1] + lines[i].bytes]
  BY <1>5, Zenon DEF EndOfLine
<1>7. \A i \in 0..n : EndOfLine[i] = IF i = 0 THEN 0 ELSE EndOfLine[i - 1] + lines[i].bytes
  BY <1>6
<1>8. n \in Nat /\ \A i \in 1..n : lines[i].bytes \in Nat /\ i \in 0..n /\ i # 0
  BY LinesOK
<1> HIDE DEF n
<1>9. EndOfLine[0] = 0
  BY <1>7, <1>8
<1>10. \A i \in 1..n : EndOfLine[i] = EndOfLine[i - 1] + lines[i].bytes
  BY <1>7, <1>8
<1>11. \A i \in 0..n : EndOfLine[i] \in Nat
  <2> DEFINE S == {i \in 0..n : EndOfLine[i] \in Nat}
  <2>1. 0 \in S
    BY <1>8, <1>9
  <2>2. \A i \in 0..n : i \in S /\ i < n => i + 1 \in S
    <3>1. SUFFICES ASSUME NEW i \in 0..n, i \in S, i < n PROVE i + 1 \in S
      OBVIOUS
    <3>2. i + 1 \in 1..n /\ (i + 1) - 1 = i /\ EndOfLine[i] \in Nat
      BY <1>8, <3>1
    <3>3. EndOfLine[i + 1] = EndOfLine[i] + lines[i + 1].bytes
      BY <1>10, <3>2
    <3>4. QED BY <1>8, <3>2, <3>3
  <2> HIDE DEF S
  <2>3. \A i \in 0..n : i \in S
    BY <1>8, <2>1, <2>2, Induction
  <2>4. QED BY <2>3 DEF S
<1>12. QED BY <1>9, <1>10, <1>11 DEF n

(* A line has bytes, so the ends of lines grow.                                   *)
LEMMA EndsGrow ==
    ASSUME request \in Requests, NEW i \in 0..Len(lines), NEW j \in 0..Len(lines), i < j
    PROVE  EndOfLine[i] < EndOfLine[j]
<1> DEFINE n == Len(lines)
           S == {k \in 0..n : i < k => EndOfLine[i] < EndOfLine[k]}
<1>1. n \in Nat /\ \A k \in 1..n : lines[k].bytes \in Nat \ {0}
  BY LinesOK
<1>2. /\ \A k \in 0..n : EndOfLine[k] \in Nat
      /\ \A k \in 1..n : EndOfLine[k] = EndOfLine[k - 1] + lines[k].bytes
  BY EndOfLineIsSum
<1> HIDE DEF n
<1>3. 0 \in S
  BY <1>1 DEF n
<1>4. \A k \in 0..n : k \in S /\ k < n => k + 1 \in S
  <2>1. SUFFICES ASSUME NEW k \in 0..n, i < k => EndOfLine[i] < EndOfLine[k], k < n, i < k + 1
                 PROVE  EndOfLine[i] < EndOfLine[k + 1]
    <3>1. \A k \in 0..n : k < n => k + 1 \in 0..n
      BY <1>1
    <3>2. QED BY <3>1
  <2>2. k + 1 \in 1..n /\ (k + 1) - 1 = k /\ (i = k \/ i < k) /\ i \in 0..n
    BY <1>1, <2>1 DEF n
  <2>3. EndOfLine[k + 1] = EndOfLine[k] + lines[k + 1].bytes
    BY <1>2, <2>2
  <2>4. EndOfLine[k] < EndOfLine[k + 1] /\ EndOfLine[k] \in Nat /\ EndOfLine[k + 1] \in Nat
    BY <1>1, <1>2, <2>2, <2>3
  <2>5. EndOfLine[i] \in Nat /\ (i = k \/ EndOfLine[i] < EndOfLine[k])
    BY <1>2, <2>1, <2>2
  <2>6. QED BY <2>2, <2>4, <2>5
<1> HIDE DEF S
<1>5. \A k \in 0..n : k \in S
  BY <1>1, <1>3, <1>4, Induction
<1>6. QED BY <1>5 DEF S, n

(* Where the head, the first line and the whole request end.                      *)
LEMMA Ends ==
    ASSUME request \in Requests
    PROVE  /\ EndOfHead \in Nat /\ EndOfLine[1] \in Nat
           /\ 0 < EndOfLine[1] /\ EndOfLine[1] < EndOfHead
           /\ EndOfLine[1] = lines[1].bytes
           /\ \A i \in 1..Len(lines) : i > 1 => EndOfLine[1] <= EndOfLine[i - 1]
           /\ \A i \in 1..Len(lines) : EndOfLine[i] <= EndOfHead
<1> DEFINE n == Len(lines)
<1>1. n \in Nat /\ n > 1
  BY LinesOK
<1>2. /\ EndOfLine[0] = 0
      /\ \A k \in 0..n : EndOfLine[k] \in Nat
      /\ \A k \in 1..n : EndOfLine[k] = EndOfLine[k - 1] + lines[k].bytes
  BY EndOfLineIsSum
<1>3. \A i, j \in 0..n : i < j => EndOfLine[i] < EndOfLine[j]
  BY EndsGrow
<1>4. EndOfHead = EndOfLine[n]
  BY DEF EndOfHead
<1> HIDE DEF n
<1>5. 0 \in 0..n /\ 1 \in 0..n /\ 1 \in 1..n /\ n \in 0..n
  BY <1>1
<1>6. EndOfHead \in Nat /\ EndOfLine[1] \in Nat /\ 0 < EndOfLine[1] /\ EndOfLine[1] < EndOfHead
  BY <1>1, <1>2, <1>3, <1>4, <1>5
<1>7. EndOfLine[1] = lines[1].bytes
  <2>1. EndOfLine[1] = EndOfLine[1 - 1] + lines[1].bytes /\ lines[1].bytes \in Nat
    BY <1>2, <1>5, LinesOK DEF n
  <2>2. QED BY <1>2, <2>1
<1>8. ASSUME NEW i \in 1..n, i > 1 PROVE EndOfLine[1] <= EndOfLine[i - 1]
  <2>1. i - 1 \in 0..n /\ (1 = i - 1 \/ 1 < i - 1)
    BY <1>1, <1>8
  <2>2. QED BY <1>2, <1>3, <1>5, <2>1
<1>9. ASSUME NEW i \in 1..n PROVE EndOfLine[i] <= EndOfHead
  <2>1. i \in 0..n /\ (i = n \/ i < n)
    BY <1>1
  <2>2. QED BY <1>2, <1>3, <1>4, <1>5, <2>1
<1>10. QED BY <1>6, <1>7, <1>8, <1>9 DEF n

(* The line with byte p in it.                                                    *)
LineOf(p) == CHOOSE n \in DOMAIN lines : EndOfLine[n - 1] <= p /\ p < EndOfLine[n]

(* A byte of the head is in one line.                                             *)
LEMMA LineOfByte ==
    ASSUME request \in Requests, NEW p \in Nat, p < EndOfHead
    PROVE  LineOf(p) \in 1..Len(lines) /\ EndOfLine[LineOf(p) - 1] <= p /\ p < EndOfLine[LineOf(p)]
<1> DEFINE n == Len(lines)
           S == {i \in 1..n : p < EndOfLine[i]}
<1>1. n \in Nat /\ n > 1 /\ DOMAIN lines = 1..n
  <2>1. lines \in Seq(Lines)
    BY RequestsAssumption DEF lines
  <2>2. QED BY <2>1, LinesOK
<1>2. EndOfLine[0] = 0 /\ EndOfHead = EndOfLine[n] /\ \A k \in 0..n : EndOfLine[k] \in Nat
  BY EndOfLineIsSum DEF EndOfHead
<1> HIDE DEF n
<1>3. S \in SUBSET Nat /\ n \in S
  BY <1>1, <1>2
<1>4. Min(S) \in S /\ \A i \in S : Min(S) <= i
  BY <1>3, Minimum
<1>5. PICK m \in S : \A i \in S : m <= i
  BY <1>4
<1>6. EndOfLine[m - 1] <= p
  <2>1. m \in 1..n /\ m - 1 \in 0..n /\ m - 1 \notin S
    BY <1>1, <1>5
  <2>2. m - 1 = 0 \/ m - 1 \in 1..n
    BY <1>1, <2>1
  <2>3. QED BY <1>2, <2>1, <2>2
<1>7. \E i \in DOMAIN lines : EndOfLine[i - 1] <= p /\ p < EndOfLine[i]
  BY <1>1, <1>5, <1>6
<1>8. /\ LineOf(p) \in DOMAIN lines
      /\ EndOfLine[LineOf(p) - 1] <= p /\ p < EndOfLine[LineOf(p)]
  BY <1>7, Zenon DEF LineOf
<1>9. QED BY <1>1, <1>8 DEF n


--------------------------------------------------------------------------------
(* The head.  The headers are lines.                                              *)
LEMMA HeadersOK ==
    ASSUME request \in Requests
    PROVE  /\ Len(Headers) \in Nat /\ DOMAIN Headers = 1..Len(Headers)
           /\ \A i \in DOMAIN Headers : Headers[i].value \in Nat
<1>1. lines \in Seq(Lines) /\ Len(lines) \in Nat /\ Len(lines) > 1
  BY RequestsAssumption DEF lines, EndsAtBlankLine
<1>2. First \in {1, 2}
  BY DEF First
<1>3. Headers \in Seq(Lines)
  <2>1. \A i \in (First + 1)..(Len(lines) - 1) : lines[i] \in Lines
    BY <1>1, <1>2
  <2>2. First + 1 \in Int /\ Len(lines) - 1 \in Int
    BY <1>1, <1>2
  <2>3. QED BY <1>1, <2>1, <2>2 DEF Headers
<1>4. \A l \in Lines : l.value \in Nat
  BY DEF Lines
<1>5. QED BY <1>3, <1>4

(* Of the headers of some kind, if there are any, there is a last one.            *)
LEMMA LastHeader ==
    ASSUME request \in Requests, NEW meanings, HeadersThat(meanings) # {}
    PROVE  /\ Max(HeadersThat(meanings)) \in DOMAIN Headers
           /\ Headers[Max(HeadersThat(meanings))].is \in meanings
<1>1. Len(Headers) \in Nat /\ HeadersThat(meanings) \in SUBSET (1..Len(Headers))
  BY HeadersOK DEF HeadersThat
<1>2. Max(HeadersThat(meanings)) \in HeadersThat(meanings)
  BY <1>1, Maximum
<1>3. QED BY <1>2 DEF HeadersThat

(* The length of the body is a number, and one of those that are given.           *)
LEMMA ContentLengthOK ==
    ASSUME request \in Requests
    PROVE  /\ ContentLength \in Nat
           /\ EndOfRequest \in Nat /\ EndOfHead <= EndOfRequest
           /\ HasChunkedBody => EndOfRequest = EndOfHead
           /\ ~ HasChunkedBody => EndOfRequest = EndOfHead + ContentLength
<1>1. ContentLength \in Nat
  <2>1. CASE HeadersThat({"length"}) = {}
    BY <2>1 DEF ContentLength
  <2>2. CASE HeadersThat({"length"}) # {}
    BY <2>2, LastHeader, HeadersOK DEF ContentLength
  <2>3. QED BY <2>1, <2>2
<1>2. EndOfHead \in Nat
  BY Ends
<1>3. QED BY <1>1, <1>2 DEF EndOfRequest

(* The lengths of a body that are given are one at most when any two are equal.   *)
LEMMA OneLength ==
    ASSUME request \in Requests
    PROVE  /\ IsFiniteSet(Lengths)
           /\ Cardinality(Lengths) <= 1 <=> \A m, n \in Lengths : m = n
<1> DEFINE I == HeadersThat({"length"})
           f == [i \in I |-> Headers[i].value]
<1>1. IsFiniteSet(I)
  <2>1. Len(Headers) \in Nat /\ I \in SUBSET (1..Len(Headers))
    BY HeadersOK DEF HeadersThat
  <2>2. 1 \in Int /\ Len(Headers) \in Int
    BY <2>1
  <2>3. IsFiniteSet(1..Len(Headers))
    BY <2>2, FS_Interval
  <2>4. QED BY <2>1, <2>3, FS_Subset
<1>2. f \in Surjection(I, Lengths)
  BY DEF Surjection, Lengths
<1>3. IsFiniteSet(Lengths)
  <2> HIDE DEF f, I
  <2>1. QED BY <1>1, <1>2, FS_Surjection
<1>4. Cardinality(Lengths) \in Nat
  BY <1>3, FS_CardinalityType
<1>5. ASSUME \A m, n \in Lengths : m = n PROVE Cardinality(Lengths) <= 1
  <2>1. CASE Lengths = {}
    BY <2>1, FS_EmptySet
  <2>2. CASE Lengths # {}
    <3>1. PICK n : Lengths = {n}
      BY <1>5, <2>2
    <3>2. QED BY <3>1, FS_Singleton
  <2>3. QED BY <2>1, <2>2
<1>6. ASSUME Cardinality(Lengths) <= 1, NEW m \in Lengths, NEW n \in Lengths PROVE m = n
  <2>1. Cardinality(Lengths) # 0
    BY <1>3, FS_EmptySet
  <2>2. Cardinality(Lengths) = 1
    BY <1>4, <1>6, <2>1
  <2>3. \E x : Lengths = {x}
    BY <1>3, <2>2, FS_Singleton
  <2>4. QED BY <2>3
<1>7. QED BY <1>3, <1>5, <1>6


(* What is said of a header is true of the request.                               *)
LEMMA HeaderErrorIsTrue ==
    ASSUME request \in Requests, NEW i \in DOMAIN Headers
    PROVE  /\ HeaderError(i) \in {None, "bad_request", "payload_too_large"}
           /\ HeaderError(i) = "bad_request" => ~ IsSound
           /\ HeaderError(i) = "payload_too_large" => \E n \in Lengths : n > MAX_BODY_BYTES
<1>1. Headers[i].is = "length" => Headers[i].value \in Lengths
  BY DEF Lengths, HeadersThat
<1> Headers[i].value \in Nat /\ MAX_BODY_BYTES \in Nat
  BY HeadersOK, LimitsAssumption
<1>2. CASE Headers[i].is = "no_length"
  <2>1. i \in HeadersThat({"malformed", "no_length"})
    BY <1>2 DEF HeadersThat
  <2>2. HeaderError(i) = "bad_request"
    BY <1>2 DEF HeaderError
  <2>3. QED BY <2>1, <2>2 DEF IsSound, None
<1>3. CASE Headers[i].is = "length" /\ Headers[i].value > MAX_BODY_BYTES
  <2>1. HeaderError(i) = "payload_too_large"
    BY <1>3 DEF HeaderError
  <2>2. \E n \in Lengths : n > MAX_BODY_BYTES
    BY <1>1, <1>3
  <2>3. QED BY <2>1, <2>2 DEF None
<1>4. CASE /\ Headers[i].is = "length" /\ Headers[i].value <= MAX_BODY_BYTES
           /\ \E j \in HeadersThat({"length"}) : j < i /\ Headers[j].value # Headers[i].value
  <2>1. HeaderError(i) = "bad_request"
    BY <1>4 DEF HeaderError
  <2>2. \E m \in Lengths : m # Headers[i].value
    BY <1>4 DEF Lengths
  <2>3. ~ (Cardinality(Lengths) <= 1)
    BY <1>1, <1>4, <2>2, OneLength
  <2>4. QED BY <2>1, <2>3 DEF IsSound, None
<1>5. CASE /\ Headers[i].is # "no_length"
           /\ Headers[i].is = "length" =>
                 /\ Headers[i].value <= MAX_BODY_BYTES
                 /\ ~ \E j \in HeadersThat({"length"}) : j < i /\ Headers[j].value # Headers[i].value
  <2>1. HeaderError(i) = None
    BY <1>5 DEF HeaderError
  <2>2. QED BY <2>1 DEF None
<1>6. QED BY <1>2, <1>3, <1>4, <1>5

(* When nothing is said of any header, none is wrong, and no two lengths differ.  *)
LEMMA NoHeaderError ==
    ASSUME request \in Requests, \A i \in DOMAIN Headers : HeaderError(i) = None
    PROVE  /\ \A i \in DOMAIN Headers : Headers[i].is # "no_length"
           /\ \A n \in Lengths : n <= MAX_BODY_BYTES
           /\ Cardinality(Lengths) <= 1
<1>1. ASSUME NEW i \in DOMAIN Headers
      PROVE  /\ Headers[i].is # "no_length"
             /\ Headers[i].is = "length" =>
                   /\ Headers[i].value <= MAX_BODY_BYTES
                   /\ \A j \in HeadersThat({"length"}) : j < i => Headers[j].value = Headers[i].value
  <2>1. HeaderError(i) = None
    OBVIOUS
  <2>2. Headers[i].value \in Nat /\ MAX_BODY_BYTES \in Nat
    BY HeadersOK, LimitsAssumption
  <2>3. QED BY <2>1, <2>2 DEF HeaderError, None
<1>2. \A n \in Lengths : \E i \in DOMAIN Headers : Headers[i].is = "length" /\ n = Headers[i].value
  BY DEF Lengths, HeadersThat
<1>3. \A n \in Lengths : n <= MAX_BODY_BYTES
  <2>1. MAX_BODY_BYTES \in Nat
    BY LimitsAssumption
  <2>2. QED BY <1>1, <1>2, <2>1, HeadersOK
<1>4. \A m, n \in Lengths : m = n
  <2>1. SUFFICES ASSUME NEW i \in HeadersThat({"length"}), NEW j \in HeadersThat({"length"})
                 PROVE  Headers[i].value = Headers[j].value
    BY DEF Lengths
  <2>2. /\ i \in DOMAIN Headers /\ Headers[i].is = "length"
        /\ j \in DOMAIN Headers /\ Headers[j].is = "length"
    BY DEF HeadersThat
  <2>3. i \in Int /\ j \in Int
    BY <2>2, HeadersOK
  <2>4. i = j \/ i < j \/ j < i
    BY <2>3
  <2>5. QED BY <1>1, <2>2, <2>4
<1>5. QED BY <1>1, <1>3, <1>4, OneLength

(* A head that parse_http_head finds no fault with.                               *)
HeadIsSound ==
    /\ lines[First].is = "request"
    /\ HeadersThat({"malformed", "no_length"}) = {} /\ Cardinality(Lengths) <= 1
    /\ Len(Headers) <= MAX_HEADER_COUNT /\ \A n \in Lengths : n <= MAX_BODY_BYTES

(* What parse_http_head says is true of the request, and it says something of     *)
(* every head that is not sound or too large for a reason of its own.             *)
LEMMA HeadErrorIsTrue ==
    ASSUME request \in Requests
    PROVE  /\ HeadError \in {None, "bad_request", "headers_too_large", "payload_too_large"}
           /\ HeadError = "bad_request" => ~ IsSound
           /\ HeadError = "headers_too_large" => Len(Headers) > MAX_HEADER_COUNT
           /\ HeadError = "payload_too_large" => \E n \in Lengths : n > MAX_BODY_BYTES
           /\ HeadError = None => HeadIsSound
<1> DEFINE wrong == {i \in DOMAIN Headers : HeaderError(i) # None}
<1>1. CASE lines[First].is \notin {"request", "absolute"}
           \/ HeadersThat({"malformed"}) \cap 1..MAX_HEADER_COUNT # {}
  <2>1. HttparseError = "bad_request" /\ HeadError = HttparseError
    BY <1>1 DEF HttparseError, HeadError, None
  <2>2. HeadersThat({"malformed"}) \subseteq HeadersThat({"malformed", "no_length"})
    BY DEF HeadersThat
  <2>3. ~ IsSound
    BY <1>1, <2>2 DEF IsSound
  <2>4. QED BY <2>1, <2>3 DEF None
<1>2. CASE /\ lines[First].is \in {"request", "absolute"}
           /\ HeadersThat({"malformed"}) \cap 1..MAX_HEADER_COUNT = {}
           /\ Len(Headers) > MAX_HEADER_COUNT
  <2>1. HttparseError = "headers_too_large" /\ HeadError = HttparseError
    BY <1>2 DEF HttparseError, HeadError, None
  <2>2. QED BY <1>2, <2>1 DEF None
<1>3. CASE /\ lines[First].is \in {"request", "absolute"}
           /\ HeadersThat({"malformed"}) \cap 1..MAX_HEADER_COUNT = {}
           /\ ~ (Len(Headers) > MAX_HEADER_COUNT)
  <2>1. HttparseError = None
    BY <1>3 DEF HttparseError
  <2>2. CASE lines[First].is = "absolute"
    <3>1. HeadError = "bad_request"
      BY <2>1, <2>2 DEF HeadError
    <3>2. QED BY <2>2, <3>1 DEF IsSound, None
  <2>3. CASE lines[First].is = "request" /\ wrong # {}
    <3>1. wrong \in SUBSET Nat
      BY HeadersOK
    <3>2. Min(wrong) \in wrong
      <4> HIDE DEF wrong
      <4>1. QED BY <2>3, <3>1, Minimum
    <3>3. Min(wrong) \in DOMAIN Headers /\ HeaderError(Min(wrong)) # None
      BY <3>2
    <3>4. HeadError = HeaderError(Min(wrong))
      BY <2>1, <2>3 DEF HeadError
    <3> HIDE DEF wrong
    <3>5. QED BY <3>3, <3>4, HeaderErrorIsTrue DEF None
  <2>4. CASE lines[First].is = "request" /\ wrong = {}
    <3>1. HeadError = None
      BY <2>1, <2>4 DEF HeadError
    <3>2. \A i \in DOMAIN Headers : HeaderError(i) = None
      BY <2>4
    <3>3. HeadersThat({"malformed", "no_length"}) = {}
      <4>1. SUFFICES ASSUME NEW i \in HeadersThat({"malformed", "no_length"}) PROVE FALSE
        OBVIOUS
      <4>2. i \in DOMAIN Headers /\ i \in HeadersThat({"malformed"})
        BY <3>2, NoHeaderError DEF HeadersThat
      <4>3. i \in 1..MAX_HEADER_COUNT
        BY <1>3, <4>2, HeadersOK, LimitsAssumption
      <4>4. QED BY <1>3, <4>2, <4>3
    <3>4. Len(Headers) <= MAX_HEADER_COUNT
      BY <1>3, HeadersOK, LimitsAssumption
    <3>5. HeadIsSound
      BY <2>4, <3>2, <3>3, <3>4, NoHeaderError DEF HeadIsSound
    <3>6. QED BY <3>1, <3>5 DEF None
  <2>5. QED BY <1>3, <2>2, <2>3, <2>4
<1>4. QED BY <1>1, <1>2, <1>3


(* A request that is sound and small has a head nothing is said of, and the other *)
(* way round when its lines are within their limits.                              *)
LEMMA SoundAndSmall ==
    ASSUME request \in Requests
    PROVE  /\ IsSound /\ IsSmall => HeadError = None
           /\ HeadError = None /\ lines[1].bytes <= MAX_REQUEST_LINE_BYTES => IsSound
           /\ HeadError = None /\ ~ TooManyHeaderBytes => IsSmall
<1>1. Len(Headers) \in Nat /\ MAX_HEADER_COUNT \in Nat /\ MAX_BODY_BYTES \in Nat
  BY HeadersOK, LimitsAssumption
<1>2. \A n \in Lengths : n \in Nat
  BY HeadersOK DEF Lengths, HeadersThat
<1>3. IsSound /\ IsSmall => HeadError = None
  BY <1>1, <1>2, HeadErrorIsTrue DEF IsSmall
<1>4. QED BY <1>3, HeadErrorIsTrue DEF HeadIsSound, IsSound, IsSmall


--------------------------------------------------------------------------------
(* The lines that end at or before byte p are within their limits.                *)
LinesAreWithinLimits(p) ==
    \A i \in 1..Len(lines) : EndOfLine[i] <= p =>
        IF i = 1 THEN lines[1].bytes <= MAX_REQUEST_LINE_BYTES
        ELSE ~ HeaderBytesExceeded(EndOfLine[i])

(* What is known of a request of which reader r has read p bytes with verdict v.  *)
Outcome(r, p, v) ==
    /\ v = "reading" =>
          /\ p < EndOfRequest /\ LinesAreWithinLimits(p)
          /\ p >= EndOfHead => HeadError = None /\ ~ HasChunkedBody
    /\ v \in {"accepted", "unsupported_chunked"} =>
          IsSound /\ IsSmall /\ p = EndOfRequest
    /\ v = "unsupported_chunked" => r = "server" /\ HasChunkedBody
    /\ v = "accepted" /\ r = "server" => ~ HasChunkedBody
    /\ v = "bad_request" =>
          \/ ~ IsSound
          \/ ended[r] /\ arrived[r] < EndOfRequest
          \/ r = "client" /\ arrived[r] > EndOfRequest
    /\ v = "headers_too_large" => TooManyHeaderBytes \/ Len(Headers) > MAX_HEADER_COUNT
    /\ v = "payload_too_large" => \E n \in Lengths : n > MAX_BODY_BYTES
    /\ \/ v \in {"reading", VerdictOnWhole(r)}
       \/ ended[r] /\ arrived[r] < EndOfRequest
       \/ r = "client" /\ arrived[r] > EndOfRequest /\ v = "bad_request"

(* The lines of a whole head within their limits.                                 *)
LEMMA HeadIsWithinLimits ==
    ASSUME request \in Requests, NEW p \in Nat, LinesAreWithinLimits(p), EndOfHead <= p
    PROVE  lines[1].bytes <= MAX_REQUEST_LINE_BYTES /\ ~ TooManyHeaderBytes
<1> DEFINE n == Len(lines)
<1>1. n \in Nat /\ n > 1 /\ EndOfHead = EndOfLine[n]
  BY LinesOK DEF EndOfHead
<1>2. EndOfHead \in Nat /\ EndOfLine[1] \in Nat /\ EndOfLine[1] < EndOfHead
  BY Ends
<1>3. EndOfLine[1] <= p /\ EndOfLine[n] <= p
  BY <1>1, <1>2
<1>4. ~ HeaderBytesExceeded(EndOfLine[n])
  BY <1>1, <1>3 DEF LinesAreWithinLimits
<1>5. lines[1].bytes <= MAX_REQUEST_LINE_BYTES
  BY <1>1, <1>3 DEF LinesAreWithinLimits
<1>6. QED BY <1>1, <1>4, <1>5 DEF HeaderBytesExceeded, TooManyHeaderBytes

(* When the head is complete: parse_http_head and what follows.                   *)
LEMMA JudgeHeadIsJustified ==
    ASSUME request \in Requests, NEW r \in Readers, NEW q \in Nat, arrived[r] \in Nat,
           LinesAreWithinLimits(EndOfHead), q <= arrived[r]
    PROVE  JudgeHead(r, q) \in Verdicts /\ Outcome(r, EndOfHead, JudgeHead(r, q))
<1>1. /\ EndOfHead \in Nat /\ EndOfRequest \in Nat /\ ContentLength \in Nat
      /\ HasChunkedBody => EndOfRequest = EndOfHead
      /\ ~ HasChunkedBody => EndOfRequest = EndOfHead + ContentLength
  BY Ends, ContentLengthOK
<1>2. /\ lines[1].bytes <= MAX_REQUEST_LINE_BYTES /\ ~ TooManyHeaderBytes
      /\ ~ (lines[1].bytes > MAX_REQUEST_LINE_BYTES)
  <2>1. lines[1].bytes \in Nat /\ MAX_REQUEST_LINE_BYTES \in Nat
    BY LinesOK, LimitsAssumption
  <2>2. QED BY <1>1, <2>1, HeadIsWithinLimits
<1>3. HeadError = None => IsSound /\ IsSmall
  BY <1>2, SoundAndSmall
<1>4. CASE HeadError # None
  <2>1. JudgeHead(r, q) = HeadError
    BY <1>4 DEF JudgeHead
  <2>2. HeadError \in {"bad_request", "headers_too_large", "payload_too_large"}
    BY <1>4, HeadErrorIsTrue
  <2>3. /\ HeadError = "bad_request" => ~ IsSound
        /\ HeadError = "headers_too_large" => Len(Headers) > MAX_HEADER_COUNT
        /\ HeadError = "payload_too_large" => \E n \in Lengths : n > MAX_BODY_BYTES
    BY HeadErrorIsTrue
  <2>4. VerdictOnWhole(r) = HeadError
    BY <1>2, <1>4 DEF VerdictOnWhole
  <2>5. QED BY <2>1, <2>2, <2>3, <2>4 DEF Outcome, Verdicts
<1>5. CASE HeadError = None /\ HasChunkedBody
  <2>1. JudgeHead(r, q) = IF r = "client" THEN "accepted" ELSE "unsupported_chunked"
    BY <1>5 DEF JudgeHead
  <2>2. VerdictOnWhole(r) = IF r = "server" THEN "unsupported_chunked" ELSE "accepted"
    BY <1>2, <1>5 DEF VerdictOnWhole
  <2>3. QED BY <1>1, <1>3, <1>5, <2>1, <2>2 DEF Outcome, Verdicts, Readers
<1>6. CASE HeadError = None /\ ~ HasChunkedBody /\ ContentLength = 0
  <2>1. JudgeHead(r, q) = Judge(r, q) /\ EndOfRequest = EndOfHead
    BY <1>1, <1>6 DEF JudgeHead
  <2>2. CASE r = "client" /\ q > EndOfRequest
    <3>1. JudgeHead(r, q) = "bad_request"
      BY <2>1, <2>2 DEF Judge
    <3>2. arrived[r] > EndOfRequest
      BY <1>1, <2>2
    <3>3. QED BY <2>2, <3>1, <3>2 DEF Outcome, Verdicts
  <2>3. CASE ~ (r = "client" /\ q > EndOfRequest)
    <3>1. JudgeHead(r, q) = "accepted"
      BY <2>1, <2>3 DEF Judge
    <3>2. VerdictOnWhole(r) = "accepted"
      BY <1>2, <1>6 DEF VerdictOnWhole
    <3>3. QED BY <1>3, <1>6, <2>1, <3>1, <3>2 DEF Outcome, Verdicts
  <2>4. QED BY <2>2, <2>3
<1>7. CASE HeadError = None /\ ~ HasChunkedBody /\ ContentLength # 0
  <2>1. JudgeHead(r, q) = "reading"
    BY <1>7 DEF JudgeHead
  <2>2. EndOfHead < EndOfRequest
    BY <1>1, <1>7
  <2>3. QED BY <1>7, <2>1, <2>2 DEF Outcome, Verdicts
<1>8. QED BY <1>4, <1>5, <1>6, <1>7


--------------------------------------------------------------------------------
(* The buffer.  Of two numbers the smaller one.                                   *)
LEMMA MinOfTwo ==
    ASSUME NEW a \in Nat, NEW b \in Nat
    PROVE  Min({a, b}) = IF a <= b THEN a ELSE b
<1>1. {a, b} \in SUBSET Nat /\ {a, b} # {}
  OBVIOUS
<1>2. Min({a, b}) \in {a, b} /\ \A y \in {a, b} : Min({a, b}) <= y
  BY <1>1, Minimum
<1>3. QED BY <1>2

(* What a reader has taken from its stream has arrived and fits in its buffer.    *)
BufferOK(r) ==
    /\ pos[r] <= filled[r] /\ filled[r] <= arrived[r]
    /\ filled[r] - pos[r] <= Capacity

Types ==
    /\ request \in Requests
    /\ arrived \in [Readers -> Nat] /\ ended \in [Readers -> BOOLEAN]
    /\ filled \in [Readers -> Nat] /\ pos \in [Readers -> Nat]
    /\ verdict \in [Readers -> Verdicts]
    /\ url \in {NoUrl, ProviderRequestUrl(request.target)}

(* The server hears nothing of a request before the client has accepted it.       *)
NothingIsSent ==
    verdict["client"] # "accepted" => verdict["server"] = "reading" /\ ~ ended["server"]

(* The inductive invariant: with the bounds of the buffers and of the streams,    *)
(* what a reader that goes on already knows of the request, and what is true of   *)
(* the request when it has come to a verdict.                                     *)
Inv ==
    /\ Types
    /\ \A r \in Readers : BufferOK(r) /\ arrived[r] <= Sent(r)
    /\ \A r \in Readers : Outcome(r, pos[r], verdict[r])
    /\ NothingIsSent

(* A buffer that may be filled has the next byte in it, and what it had.          *)
LEMMA FilledOK ==
    ASSUME Types, NEW r \in Readers, BufferOK(r), pos[r] < arrived[r]
    PROVE  /\ Filled(r) \in Nat /\ pos[r] < Filled(r)
           /\ Filled(r) <= arrived[r] /\ Filled(r) - pos[r] <= Capacity
<1>1. pos[r] \in Nat /\ filled[r] \in Nat /\ arrived[r] \in Nat /\ Capacity \in Nat \ {0}
  BY LimitsAssumption DEF Types
<1>2. pos[r] <= filled[r] /\ filled[r] <= arrived[r] /\ filled[r] - pos[r] <= Capacity
  BY DEF BufferOK
<1>3. CASE pos[r] = filled[r]
  <2>1. pos[r] + Capacity \in Nat
    BY <1>1
  <2>2. Min({arrived[r], pos[r] + Capacity}) =
           IF arrived[r] <= pos[r] + Capacity THEN arrived[r] ELSE pos[r] + Capacity
    BY <1>1, <2>1, MinOfTwo
  <2>3. QED BY <1>1, <1>3, <2>2 DEF Filled
<1>4. CASE pos[r] # filled[r]
  BY <1>1, <1>2, <1>4 DEF Filled
<1>5. QED BY <1>3, <1>4

(* What is true of a request stays so.                                            *)
LEMMA SameRequest ==
    ASSUME request' = request
    PROVE  /\ EndOfHead' = EndOfHead /\ EndOfRequest' = EndOfRequest
           /\ EndOfLine' = EndOfLine /\ lines' = lines
           /\ HeadError' = HeadError /\ HasChunkedBody' = HasChunkedBody
           /\ IsSound' = IsSound /\ IsSmall' = IsSmall /\ Lengths' = Lengths
           /\ TooManyHeaderBytes' = TooManyHeaderBytes /\ Headers' = Headers
<1>1. lines' = lines /\ EndOfLine' = EndOfLine /\ EndOfHead' = EndOfHead /\ Headers' = Headers
  BY DEF lines, EndOfLine, EndOfHead, Headers, First
<1>2. HasChunkedBody' = HasChunkedBody /\ ContentLength' = ContentLength
  BY DEF HasChunkedBody, ContentLength, HeadersThat, Headers, First, lines
<1>3. EndOfRequest' = EndOfRequest
  BY <1>1, <1>2 DEF EndOfRequest
<1>4. HeadError' = HeadError
  BY DEF HeadError, HeaderError, HttparseError, HeadersThat, Headers, First, lines
<1>5. Lengths' = Lengths /\ TooManyHeaderBytes' = TooManyHeaderBytes
  BY <1>1 DEF Lengths, HeadersThat, Headers, First, lines, TooManyHeaderBytes
<1>6. HeadersThat({"malformed", "no_length"})' = HeadersThat({"malformed", "no_length"})
      /\ First' = First
  BY DEF HeadersThat, Headers, First, lines
<1>7. IsSound' = IsSound
  BY <1>1, <1>5, <1>6, Zenon DEF IsSound
<1>8. IsSmall' = IsSmall
  BY <1>1, <1>5, Zenon DEF IsSmall
<1>9. QED BY <1>1, <1>2, <1>3, <1>4, <1>5, <1>7, <1>8

(* So does what is known of it, for as long as its stream is the same.            *)
LEMMA SameOutcome ==
    ASSUME request' = request, NEW r, NEW p, NEW v,
           v = "reading" \/ (arrived'[r] = arrived[r] /\ ended'[r] = ended[r]),
           Outcome(r, p, v)
    PROVE  Outcome(r, p, v)'
<1>1. /\ EndOfHead' = EndOfHead /\ EndOfRequest' = EndOfRequest
      /\ EndOfLine' = EndOfLine /\ lines' = lines
      /\ HeadError' = HeadError /\ HasChunkedBody' = HasChunkedBody
      /\ IsSound' = IsSound /\ IsSmall' = IsSmall /\ Lengths' = Lengths
      /\ TooManyHeaderBytes' = TooManyHeaderBytes /\ Headers' = Headers
  BY SameRequest
<1>2. LinesAreWithinLimits(p)' = LinesAreWithinLimits(p)
  BY <1>1 DEF LinesAreWithinLimits, HeaderBytesExceeded
<1>3. v # "reading" => arrived'[r] = arrived[r] /\ ended'[r] = ended[r]
  OBVIOUS
<1>4. VerdictOnWhole(r)' = VerdictOnWhole(r)
  BY <1>1 DEF VerdictOnWhole
<1> HIDE DEF LinesAreWithinLimits, VerdictOnWhole
<1>5. QED BY <1>1, <1>2, <1>3, <1>4 DEF Outcome


(* What is known of what a reader has read is known of its new state.             *)
LEMMA OutcomeOfReader ==
    ASSUME NEW r, NEW p, NEW v, pos'[r] = p, verdict'[r] = v, Outcome(r, p, v)'
    PROVE  Outcome(r, pos[r], verdict[r])'
BY DEF Outcome, LinesAreWithinLimits

(* A reader that gets to byte p with q bytes taken from its stream and a verdict  *)
(* that is justified keeps the invariant.                                         *)
LEMMA AdvanceKeepsInv ==
    ASSUME Inv, NEW r \in Readers, verdict[r] = "reading",
           r = "server" => verdict["client"] = "accepted",
           NEW p \in Nat, NEW q \in Nat, NEW v \in Verdicts,
           Advances(r, p, q, v), UNCHANGED <<request, stream, url>>,
           p <= q, q <= arrived[r], q - p <= Capacity, Outcome(r, p, v)
    PROVE  Inv'
<1>1. /\ pos' = [pos EXCEPT ![r] = p] /\ filled' = [filled EXCEPT ![r] = q]
      /\ verdict' = [verdict EXCEPT ![r] = v]
      /\ request' = request /\ arrived' = arrived /\ ended' = ended /\ url' = url
  BY DEF Advances, stream
<1>2. /\ request \in Requests
      /\ arrived \in [Readers -> Nat] /\ ended \in [Readers -> BOOLEAN]
      /\ filled \in [Readers -> Nat] /\ pos \in [Readers -> Nat]
      /\ verdict \in [Readers -> Verdicts]
      /\ url \in {NoUrl, ProviderRequestUrl(request.target)}
  BY DEF Inv, Types
<1>3. /\ pos'[r] = p /\ filled'[r] = q /\ verdict'[r] = v
      /\ \A s \in Readers : s # r =>
            pos'[s] = pos[s] /\ filled'[s] = filled[s] /\ verdict'[s] = verdict[s]
  BY <1>1, <1>2
<1>4. Types'
  <2>1. /\ filled' \in [Readers -> Nat] /\ pos' \in [Readers -> Nat]
        /\ verdict' \in [Readers -> Verdicts]
    BY <1>1, <1>2
  <2>2. {NoUrl, ProviderRequestUrl(request.target)}' = {NoUrl, ProviderRequestUrl(request.target)}
    BY <1>1 DEF NoUrl
  <2>3. QED BY <1>1, <1>2, <2>1, <2>2 DEF Types
<1>5. ASSUME NEW s \in Readers PROVE BufferOK(s)'
  <2>1. CASE s = r
    BY <1>1, <1>3, <2>1 DEF BufferOK
  <2>2. CASE s # r
    BY <1>1, <1>3, <2>2 DEF BufferOK, Inv
  <2>3. QED BY <2>1, <2>2
<1>6. ASSUME NEW s \in Readers PROVE (arrived[s] <= Sent(s))'
  <2>1. arrived[s] <= Sent(s) /\ EndOfHead' = EndOfHead
    BY <1>1, SameRequest DEF Inv
  <2>2. "client" \in Readers /\ "server" \in Readers /\ (s # "client" => s = "server")
    BY DEF Readers
  <2>3. CASE s = "client"
    BY <1>1, <2>1, <2>3 DEF Sent
  <2>4. CASE s = "server" /\ r = "server"
    <3>1. verdict'["client"] = verdict["client"] /\ pos'["client"] = pos["client"]
      BY <1>3, <2>2, <2>4
    <3>2. QED BY <1>1, <2>1, <2>4, <3>1 DEF Sent
  <2>5. CASE s = "server" /\ r = "client"
    <3>1. arrived["server"] <= 0 /\ arrived["server"] \in Nat
      BY <1>2, <2>1, <2>2, <2>5 DEF Sent
    <3>2. pos'["client"] \in Nat
      BY <1>3, <2>5
    <3>3. QED BY <1>1, <2>5, <3>1, <3>2 DEF Sent
  <2>6. r = "client" \/ r = "server"
    BY DEF Readers
  <2>7. QED BY <2>2, <2>3, <2>4, <2>5, <2>6
<1>7. ASSUME NEW s \in Readers PROVE Outcome(s, pos[s], verdict[s])'
  <2>1. PICK k, w : k = pos'[s] /\ w = verdict'[s]
    OBVIOUS
  <2>2. Outcome(s, k, w)
    <3>1. CASE s = r
      BY <1>3, <2>1, <3>1
    <3>2. CASE s # r
      <4>1. Outcome(s, pos[s], verdict[s]) /\ k = pos[s] /\ w = verdict[s]
        BY <1>3, <2>1, <3>2 DEF Inv
      <4>2. QED BY <4>1
    <3>3. QED BY <3>1, <3>2
  <2>3. Outcome(s, k, w)'
    BY <1>1, <2>2, SameOutcome
  <2>4. QED BY <2>1, <2>3, OutcomeOfReader
<1>8. NothingIsSent'
  <2>1. "client" \in Readers /\ "server" \in Readers
    BY DEF Readers
  <2>2. CASE r = "client"
    <3>1. verdict["server"] = "reading" /\ ~ ended["server"]
      BY <2>2 DEF Inv, NothingIsSent
    <3>2. verdict'["server"] = verdict["server"]
      BY <1>3, <2>1, <2>2
    <3>3. QED BY <1>1, <3>1, <3>2 DEF NothingIsSent
  <2>3. CASE r = "server"
    <3>1. verdict'["client"] = "accepted"
      BY <1>3, <2>1, <2>3
    <3>2. QED BY <3>1 DEF NothingIsSent
  <2>4. QED BY <2>2, <2>3 DEF Readers
<1>9. QED BY <1>4, <1>5, <1>6, <1>7, <1>8 DEF Inv


(* A server that has something to read is sent it by a client.                    *)
LEMMA ServerIsSent ==
    ASSUME Inv, NEW r \in Readers, pos[r] < arrived[r] \/ ended[r]
    PROVE  r = "server" => verdict["client"] = "accepted"
<1>1. SUFFICES ASSUME r = "server", verdict["client"] # "accepted" PROVE FALSE
  OBVIOUS
<1>2. arrived[r] <= 0 /\ pos[r] \in Nat /\ arrived[r] \in Nat
  BY <1>1 DEF Inv, Types, Sent
<1>3. ended[r]
  BY <1>2
<1>4. QED BY <1>1, <1>3 DEF Inv, NothingIsSent

(* A turn of the loop over a line keeps the invariant.                            *)
LEMMA ReadLineKeepsInv ==
    ASSUME Inv, NEW r \in Readers, ReadLine(r)
    PROVE  Inv'
<1> DEFINE i == LineOf(pos[r])
           f == Filled(r)
           end == Min({f, EndOfLine[i]})
           error == IF i = 1 THEN "bad_request" ELSE "headers_too_large"
<1>1. /\ request \in Requests
      /\ pos[r] \in Nat /\ arrived[r] \in Nat
      /\ BufferOK(r) /\ Outcome(r, pos[r], "reading") /\ Types
  BY DEF Inv, Types, ReadLine
<1>2. verdict[r] = "reading" /\ pos[r] < EndOfHead /\ pos[r] < arrived[r]
  BY DEF ReadLine
<1>3. r = "server" => verdict["client"] = "accepted"
  BY <1>2, ServerIsSent
<1>4. /\ i \in 1..Len(lines) /\ EndOfLine[i - 1] <= pos[r] /\ pos[r] < EndOfLine[i]
  BY <1>1, <1>2, LineOfByte
<1>5. /\ f \in Nat /\ pos[r] < f /\ f <= arrived[r] /\ f - pos[r] <= Capacity
  BY <1>1, <1>2, FilledOK
<1>6. /\ EndOfLine[0] = 0
      /\ \A k \in 0..Len(lines) : EndOfLine[k] \in Nat
      /\ \A k, l \in 0..Len(lines) : k < l => EndOfLine[k] < EndOfLine[l]
  BY <1>1, EndOfLineIsSum, EndsGrow
<1>7. Len(lines) \in Nat /\ Len(lines) > 1 /\ EndOfHead = EndOfLine[Len(lines)]
  BY <1>1, LinesOK DEF EndOfHead
<1>8. /\ EndOfHead \in Nat /\ EndOfLine[1] \in Nat /\ EndOfLine[1] = lines[1].bytes
      /\ i > 1 => EndOfLine[1] <= EndOfLine[i - 1]
      /\ EndOfLine[i] <= EndOfHead
      /\ EndOfRequest \in Nat /\ EndOfHead <= EndOfRequest
  BY <1>1, <1>4, Ends, ContentLengthOK
<1>9. EndOfLine[i] \in Nat /\ EndOfLine[i - 1] \in Nat
  <2> HIDE DEF i
  <2>1. i \in 0..Len(lines) /\ i - 1 \in 0..Len(lines)
    BY <1>4, <1>7
  <2>2. QED BY <1>6, <2>1
<1>10. /\ end \in Nat /\ pos[r] < end /\ end <= f /\ end <= EndOfLine[i]
       /\ end = f \/ end = EndOfLine[i]
  <2>1. end = IF f <= EndOfLine[i] THEN f ELSE EndOfLine[i]
    BY <1>5, <1>9, MinOfTwo
  <2> HIDE DEF end, f, i
  <2>2. QED BY <1>4, <1>5, <1>9, <2>1
<1>11. MAX_REQUEST_LINE_BYTES \in Nat /\ MAX_HEADER_BYTES \in Nat
  BY LimitsAssumption
<1>12. UNCHANGED <<request, stream, url>>
  BY DEF ReadLine
<1>13. ReadLine(r) =>
          \/ /\ TooLong(i, pos[r] - EndOfLine[i - 1], end - pos[r])
             /\ Advances(r, pos[r], f, error)
          \/ /\ ~ TooLong(i, pos[r] - EndOfLine[i - 1], end - pos[r])
             /\ Advances(r, end, f,
                   IF end < EndOfLine[i] THEN "reading"
                   ELSE IF i > 1 /\ HeaderBytesExceeded(end) THEN error
                   ELSE IF end = EndOfHead THEN JudgeHead(r, f) ELSE "reading")
  BY DEF ReadLine, LineOf
<1> HIDE DEF i, f, end
<1>14. \A k \in 1..Len(lines) : EndOfLine[k] < EndOfLine[i] => EndOfLine[k] <= pos[r]
  <2>1. SUFFICES ASSUME NEW k \in 1..Len(lines), EndOfLine[k] < EndOfLine[i]
                 PROVE  EndOfLine[k] <= pos[r]
    OBVIOUS
  <2>2. k \in 0..Len(lines) /\ i \in 0..Len(lines) /\ i - 1 \in 0..Len(lines)
    BY <1>4, <1>7
  <2>3. ~ (i < k) /\ i # k
    BY <1>6, <2>1, <2>2
  <2>4. k = i - 1 \/ k < i - 1
    BY <2>2, <2>3
  <2>5. EndOfLine[k] <= EndOfLine[i - 1] /\ EndOfLine[k] \in Nat
    BY <1>6, <1>9, <2>2, <2>4
  <2>6. QED BY <1>1, <1>4, <1>9, <2>5
<1>15. LinesAreWithinLimits(pos[r])
  BY <1>1 DEF Outcome
<1>16. CASE TooLong(i, pos[r] - EndOfLine[i - 1], end - pos[r])
  <2>1. Advances(r, pos[r], f, error)
    BY <1>13, <1>16
  <2>2. end - EndOfLine[i - 1] > IF i = 1 THEN MAX_REQUEST_LINE_BYTES ELSE MAX_HEADER_BYTES
    BY <1>1, <1>9, <1>10, <1>16 DEF TooLong
  <2>3. i = 1 => ~ IsSound
    BY <1>6, <1>8, <1>9, <1>10, <1>11, <2>2 DEF IsSound
  <2>4. i # 1 => TooManyHeaderBytes
    BY <1>4, <1>8, <1>9, <1>10, <1>11, <2>2 DEF TooManyHeaderBytes
  <2>5. Outcome(r, pos[r], error) /\ error \in Verdicts
    <3>1. i = 1 => lines[1].bytes > MAX_REQUEST_LINE_BYTES
      BY <1>6, <1>8, <1>9, <1>10, <1>11, <2>2
    <3>2. i # 1 => lines[1].bytes <= MAX_REQUEST_LINE_BYTES
      BY <1>1, <1>4, <1>7, <1>8, <1>9, <1>15 DEF LinesAreWithinLimits
    <3>3. VerdictOnWhole(r) = error
      BY <1>8, <1>11, <2>4, <3>1, <3>2 DEF VerdictOnWhole
    <3>4. QED BY <2>3, <2>4, <3>3 DEF Outcome, Verdicts
  <2>6. pos[r] <= f
    BY <1>1, <1>5
  <2> HIDE DEF error
  <2>7. QED BY <1>1, <1>2, <1>3, <1>5, <1>12, <2>1, <2>5, <2>6, AdvanceKeepsInv
<1>17. CASE ~ TooLong(i, pos[r] - EndOfLine[i - 1], end - pos[r])
  <2> DEFINE v == IF end < EndOfLine[i] THEN "reading"
                  ELSE IF i > 1 /\ HeaderBytesExceeded(end) THEN error
                  ELSE IF end = EndOfHead THEN JudgeHead(r, f) ELSE "reading"
  <2>1. Advances(r, end, f, v)
    BY <1>13, <1>17
  <2>2. end - EndOfLine[i - 1] <= IF i = 1 THEN MAX_REQUEST_LINE_BYTES ELSE MAX_HEADER_BYTES
    BY <1>1, <1>9, <1>10, <1>11, <1>17 DEF TooLong
  <2>3. v \in Verdicts /\ Outcome(r, end, v)
    <3>1. CASE end < EndOfLine[i]
      <4>1. \A k \in 1..Len(lines) : EndOfLine[k] <= end => EndOfLine[k] <= pos[r]
        <5>1. \A k \in 1..Len(lines) : EndOfLine[k] \in Nat
          BY <1>6, <1>7
        <5>2. QED BY <1>9, <1>10, <1>14, <3>1, <5>1
      <4>2. LinesAreWithinLimits(end)
        BY <1>15, <4>1 DEF LinesAreWithinLimits
      <4>3. end < EndOfHead /\ end < EndOfRequest /\ ~ (end >= EndOfHead)
        BY <1>8, <1>9, <1>10, <3>1
      <4>4. QED BY <3>1, <4>2, <4>3 DEF Outcome, Verdicts
    <3>2. CASE end = EndOfLine[i] /\ i > 1 /\ HeaderBytesExceeded(end)
      <4>1. TooManyHeaderBytes
        BY <1>8, <1>9, <1>11, <3>2 DEF TooManyHeaderBytes, HeaderBytesExceeded
      <4>2. v = "headers_too_large"
        BY <1>9, <3>2
      <4>3. lines[1].bytes <= MAX_REQUEST_LINE_BYTES
        BY <1>1, <1>4, <1>7, <1>8, <1>9, <1>15, <3>2 DEF LinesAreWithinLimits
      <4>4. VerdictOnWhole(r) = "headers_too_large"
        BY <1>8, <1>11, <4>1, <4>3 DEF VerdictOnWhole
      <4>5. QED BY <4>1, <4>2, <4>4 DEF Outcome, Verdicts
    <3>3. CASE end = EndOfLine[i] /\ ~ (i > 1 /\ HeaderBytesExceeded(end))
      <4>1. LinesAreWithinLimits(end)
        <5>1. SUFFICES ASSUME NEW k \in 1..Len(lines), EndOfLine[k] <= end
                       PROVE  IF k = 1 THEN lines[1].bytes <= MAX_REQUEST_LINE_BYTES
                              ELSE ~ HeaderBytesExceeded(EndOfLine[k])
          BY DEF LinesAreWithinLimits
        <5>2. CASE EndOfLine[k] < EndOfLine[i]
          BY <1>14, <1>15, <5>2 DEF LinesAreWithinLimits
        <5>3. CASE k = i /\ i = 1
          <6>1. EndOfLine[1] - EndOfLine[0] <= MAX_REQUEST_LINE_BYTES
            BY <2>2, <3>3, <5>3
          <6>2. QED BY <1>6, <1>8, <5>3, <6>1
        <5>4. CASE k = i /\ i # 1
          BY <1>4, <3>3, <5>4
        <5>5. EndOfLine[k] < EndOfLine[i] \/ k = i
          <6>1. k \in 0..Len(lines) /\ i \in 0..Len(lines)
            BY <1>4, <1>7
          <6>2. EndOfLine[k] \in Nat /\ (k < i \/ k = i \/ i < k)
            BY <1>6, <6>1
          <6>3. QED BY <1>6, <1>9, <3>3, <5>1, <6>1, <6>2
        <5>6. QED BY <5>2, <5>3, <5>4, <5>5
      <4>2. CASE end = EndOfHead
        <5>1. v = JudgeHead(r, f)
          BY <1>9, <3>3, <4>2
        <5>2. JudgeHead(r, f) \in Verdicts /\ Outcome(r, EndOfHead, JudgeHead(r, f))
          BY <1>1, <1>5, <4>1, <4>2, JudgeHeadIsJustified
        <5> HIDE DEF v
        <5>3. QED BY <4>2, <5>1, <5>2
      <4>3. CASE end # EndOfHead
        <5>1. v = "reading"
          BY <1>9, <3>3, <4>3
        <5>2. end < EndOfHead /\ end < EndOfRequest /\ ~ (end >= EndOfHead)
          BY <1>8, <1>9, <3>3, <4>3
        <5>3. QED BY <4>1, <5>1, <5>2 DEF Outcome, Verdicts
      <4>4. QED BY <4>2, <4>3
    <3>4. QED BY <1>9, <1>10, <3>1, <3>2, <3>3
  <2>4. f - end <= Capacity
    <3>1. Capacity \in Nat
      BY LimitsAssumption
    <3>2. QED BY <1>1, <1>5, <1>10, <3>1
  <2> HIDE DEF v
  <2>5. QED BY <1>2, <1>3, <1>5, <1>10, <1>12, <2>1, <2>3, <2>4, AdvanceKeepsInv
<1>18. QED BY <1>16, <1>17


(* A read of the body keeps the invariant.                                        *)
LEMMA ReadBodyKeepsInv ==
    ASSUME Inv, NEW r \in Readers, ReadBody(r)
    PROVE  Inv'
<1> DEFINE direct == pos[r] = filled[r] /\ EndOfRequest - pos[r] >= Capacity
           got == IF direct THEN arrived[r] ELSE Filled(r)
           end == Min({got, EndOfRequest})
           buffer == IF direct THEN end ELSE Filled(r)
           v == IF end = EndOfRequest THEN Judge(r, buffer) ELSE "reading"
<1>1. /\ request \in Requests /\ Types
      /\ pos[r] \in Nat /\ arrived[r] \in Nat
      /\ BufferOK(r) /\ Outcome(r, pos[r], "reading")
  BY DEF Inv, Types, ReadBody
<1>2. verdict[r] = "reading" /\ pos[r] >= EndOfHead /\ pos[r] < arrived[r]
  BY DEF ReadBody
<1>3. r = "server" => verdict["client"] = "accepted"
  BY <1>2, ServerIsSent
<1>4. EndOfHead \in Nat /\ EndOfRequest \in Nat /\ Capacity \in Nat
  BY <1>1, Ends, ContentLengthOK, LimitsAssumption
<1>5. /\ pos[r] < EndOfRequest /\ LinesAreWithinLimits(pos[r])
      /\ HeadError = None /\ ~ HasChunkedBody
  BY <1>1, <1>2 DEF Outcome
<1>6. IsSound /\ IsSmall /\ VerdictOnWhole(r) = "accepted"
  <2>1. lines[1].bytes <= MAX_REQUEST_LINE_BYTES /\ ~ TooManyHeaderBytes
    BY <1>1, <1>2, <1>4, <1>5, HeadIsWithinLimits
  <2>2. VerdictOnWhole(r) = "accepted"
    <3>1. lines[1].bytes \in Nat /\ MAX_REQUEST_LINE_BYTES \in Nat
      BY <1>1, LinesOK, LimitsAssumption
    <3>2. QED BY <1>5, <2>1, <3>1 DEF VerdictOnWhole
  <2>3. QED BY <1>1, <1>5, <2>1, <2>2, SoundAndSmall
<1>7. /\ Filled(r) \in Nat /\ pos[r] < Filled(r)
      /\ Filled(r) <= arrived[r] /\ Filled(r) - pos[r] <= Capacity
  BY <1>1, <1>2, FilledOK
<1>8. got \in Nat /\ pos[r] < got /\ got <= arrived[r]
  BY <1>1, <1>2, <1>7
<1>9. end = IF got <= EndOfRequest THEN got ELSE EndOfRequest
  <2> HIDE DEF got
  <2>1. QED BY <1>4, <1>8, MinOfTwo
<1>10. end \in Nat /\ pos[r] < end /\ end <= got /\ end <= EndOfRequest
  <2> HIDE DEF got, end
  <2>1. QED BY <1>1, <1>4, <1>5, <1>8, <1>9
<1>11. Advances(r, end, buffer, v) /\ UNCHANGED <<request, stream, url>>
  BY DEF ReadBody
<1>12. buffer \in Nat /\ end <= buffer /\ buffer <= arrived[r] /\ buffer - end <= Capacity
  <2>1. CASE direct
    <3>1. buffer = end
      BY <2>1
    <3> HIDE DEF end, buffer, got
    <3>2. QED BY <1>1, <1>4, <1>8, <1>10, <3>1
  <2>2. CASE ~ direct
    <3>1. buffer = Filled(r) /\ got = Filled(r)
      BY <2>2
    <3> HIDE DEF end, buffer, got
    <3>2. QED BY <1>1, <1>4, <1>7, <1>10, <3>1
  <2>3. QED BY <2>1, <2>2
<1>13. v \in Verdicts /\ Outcome(r, end, v)
  <2> HIDE DEF end, buffer
  <2>1. CASE end # EndOfRequest
    <3>1. v = "reading"
      BY <2>1
    <3>2. end < EndOfRequest /\ LinesAreWithinLimits(end)
      <4>1. \A k \in 1..Len(lines) : EndOfLine[k] <= pos[r]
        <5>1. \A k \in 1..Len(lines) : EndOfLine[k] <= EndOfHead /\ EndOfLine[k] \in Nat
          <6>1. \A k \in 1..Len(lines) : k \in 0..Len(lines)
            BY <1>1, LinesOK
          <6>2. QED BY <1>1, <6>1, Ends, EndOfLineIsSum
        <5>2. QED BY <1>1, <1>2, <1>4, <5>1
      <4>2. LinesAreWithinLimits(end)
        BY <1>5, <4>1 DEF LinesAreWithinLimits
      <4>3. QED BY <1>4, <1>10, <2>1, <4>2
    <3>3. QED BY <1>5, <3>1, <3>2 DEF Outcome, Verdicts
  <2>2. CASE end = EndOfRequest
    <3>1. v = Judge(r, buffer)
      BY <2>2
    <3>2. CASE r = "client" /\ buffer > EndOfRequest
      <4>1. v = "bad_request" /\ arrived[r] > EndOfRequest
        BY <1>1, <1>4, <1>12, <3>1, <3>2 DEF Judge
      <4>2. QED BY <3>2, <4>1 DEF Outcome, Verdicts
    <3>3. CASE ~ (r = "client" /\ buffer > EndOfRequest)
      <4>1. v = "accepted"
        BY <3>1, <3>3 DEF Judge
      <4>2. QED BY <1>5, <1>6, <2>2, <4>1 DEF Outcome, Verdicts
    <3>4. QED BY <3>2, <3>3
  <2>3. QED BY <2>1, <2>2
<1> HIDE DEF end, buffer, v
<1>14. QED BY <1>2, <1>3, <1>10, <1>11, <1>12, <1>13, AdvanceKeepsInv

(* A stream that ends before the request keeps the invariant.                     *)
LEMMA EndsEarlyKeepsInv ==
    ASSUME Inv, NEW r \in Readers, EndsEarly(r)
    PROVE  Inv'
<1> DEFINE early == pos[r] \in EndOfLine[1]..EndOfHead /\ HeaderBytesExceeded(pos[r])
           v == IF early THEN "headers_too_large" ELSE "bad_request"
<1>1. /\ request \in Requests
      /\ pos[r] \in Nat /\ filled[r] \in Nat /\ arrived[r] \in Nat
      /\ BufferOK(r) /\ Outcome(r, pos[r], "reading")
  BY DEF Inv, Types, EndsEarly
<1>2. verdict[r] = "reading" /\ ended[r] /\ pos[r] = arrived[r]
  BY DEF EndsEarly
<1>3. r = "server" => verdict["client"] = "accepted"
  BY <1>2, ServerIsSent
<1>4. Advances(r, pos[r], filled[r], v) /\ UNCHANGED <<request, stream, url>>
  BY DEF EndsEarly
<1>5. arrived[r] < EndOfRequest
  BY <1>1, <1>2 DEF Outcome
<1>6. v \in Verdicts /\ Outcome(r, pos[r], v)
  <2>1. CASE early
    <3>1. EndOfHead \in Nat /\ EndOfLine[1] \in Nat /\ MAX_HEADER_BYTES \in Nat
      BY <1>1, Ends, LimitsAssumption
    <3>2. TooManyHeaderBytes
      BY <1>1, <2>1, <3>1 DEF TooManyHeaderBytes, HeaderBytesExceeded
    <3>3. v = "headers_too_large"
      BY <2>1
    <3>4. QED BY <1>2, <1>5, <3>2, <3>3 DEF Outcome, Verdicts
  <2>2. CASE ~ early
    <3>1. v = "bad_request"
      BY <2>2
    <3>2. QED BY <1>2, <1>5, <3>1 DEF Outcome, Verdicts
  <2>3. QED BY <2>1, <2>2
<1>7. pos[r] <= filled[r] /\ filled[r] <= arrived[r] /\ filled[r] - pos[r] <= Capacity
  BY <1>1 DEF BufferOK
<1> HIDE DEF v
<1>8. QED BY <1>1, <1>2, <1>3, <1>4, <1>6, <1>7, AdvanceKeepsInv

(* What happens on a stream keeps the invariant.                                  *)
LEMMA StreamKeepsInv ==
    ASSUME Inv, NEW r \in Readers, Arrive(r) \/ End(r)
    PROVE  Inv'
<1>1. /\ request \in Requests
      /\ arrived \in [Readers -> Nat] /\ ended \in [Readers -> BOOLEAN]
      /\ filled \in [Readers -> Nat] /\ pos \in [Readers -> Nat]
      /\ verdict \in [Readers -> Verdicts]
      /\ url \in {NoUrl, ProviderRequestUrl(request.target)}
  BY DEF Inv, Types
<1>2. /\ request' = request /\ filled' = filled /\ pos' = pos
      /\ verdict' = verdict /\ url' = url /\ verdict[r] = "reading"
  BY DEF Arrive, End, reader
<1>3. Sent(r) \in Nat
  <2>1. EndOfHead \in Nat /\ request.after \in Nat /\ "client" \in Readers
    BY <1>1, Ends, LinesOK DEF Readers
  <2>2. QED BY <1>1, <2>1 DEF Sent
<1>4. /\ arrived' \in [Readers -> Nat] /\ ended' \in [Readers -> BOOLEAN]
      /\ \A s \in Readers : s # r => arrived'[s] = arrived[s] /\ ended'[s] = ended[s]
      /\ arrived[r] <= arrived'[r] /\ arrived'[r] <= Sent(r)
      /\ r = "server" /\ ended'[r] => verdict["client"] = "accepted"
  <2>1. CASE Arrive(r)
    <3>1. PICK n \in arrived[r] + 1..Sent(r) : arrived' = [arrived EXCEPT ![r] = n]
      BY <2>1 DEF Arrive
    <3>2. ended' = ended /\ ~ ended[r]
      BY <2>1 DEF Arrive
    <3>3. n \in Nat /\ arrived[r] <= n /\ n <= Sent(r)
      BY <1>1, <1>3
    <3>4. QED BY <1>1, <3>1, <3>2, <3>3
  <2>2. CASE End(r)
    <3>1. ended' = [ended EXCEPT ![r] = TRUE] /\ arrived' = arrived
          /\ (r = "server" => verdict["client"] = "accepted")
      BY <2>2 DEF End
    <3>2. arrived[r] <= Sent(r)
      BY DEF Inv
    <3>3. QED BY <1>1, <3>1, <3>2
  <2>3. QED BY <2>1, <2>2
<1>5. Types'
  <2>1. {NoUrl, ProviderRequestUrl(request.target)}' = {NoUrl, ProviderRequestUrl(request.target)}
    BY <1>2 DEF NoUrl
  <2>2. QED BY <1>1, <1>2, <1>4, <2>1 DEF Types
<1>6. ASSUME NEW s \in Readers PROVE BufferOK(s)' /\ (arrived[s] <= Sent(s))'
  <2>1. BufferOK(s) /\ arrived[s] <= Sent(s) /\ EndOfHead' = EndOfHead
    BY <1>2, SameRequest DEF Inv
  <2>2. Sent(s)' = Sent(s)
    BY <1>2, <2>1 DEF Sent
  <2>3. CASE s = r
    BY <1>1, <1>2, <1>4, <2>1, <2>2, <2>3 DEF BufferOK
  <2>4. CASE s # r
    BY <1>2, <1>4, <2>1, <2>2, <2>4 DEF BufferOK
  <2>5. QED BY <2>3, <2>4
<1>7. ASSUME NEW s \in Readers PROVE Outcome(s, pos[s], verdict[s])'
  <2>1. PICK k, w : k = pos[s] /\ w = verdict[s]
    OBVIOUS
  <2>2. Outcome(s, k, w)
    BY <2>1 DEF Inv
  <2>3. w = "reading" \/ (arrived'[s] = arrived[s] /\ ended'[s] = ended[s])
    BY <1>2, <1>4, <2>1
  <2>4. Outcome(s, k, w)'
    BY <1>2, <2>2, <2>3, SameOutcome
  <2>5. QED BY <1>2, <2>1, <2>4, OutcomeOfReader
<1>8. NothingIsSent'
  <2>1. CASE r = "server"
    BY <1>2, <1>4, <2>1 DEF NothingIsSent, Inv
  <2>2. CASE r # "server"
    <3>1. ended'["server"] = ended["server"]
      BY <1>4, <2>2 DEF Readers
    <3>2. QED BY <1>2, <3>1 DEF NothingIsSent, Inv
  <2>3. QED BY <2>1, <2>2
<1>9. QED BY <1>5, <1>6, <1>7, <1>8 DEF Inv


(* The look at the target keeps the invariant.                                    *)
LEMMA MapTargetKeepsInv ==
    ASSUME Inv, MapTarget
    PROVE  Inv'
<1>1. /\ request' = request /\ arrived' = arrived /\ ended' = ended
      /\ filled' = filled /\ pos' = pos /\ verdict' = verdict
      /\ url' = ProviderRequestUrl(request.target)
  BY DEF MapTarget, stream, reader
<1>2. Types'
  <2>1. ProviderRequestUrl(request.target)' = ProviderRequestUrl(request.target)
    BY <1>1
  <2>2. QED BY <1>1, <2>1 DEF Inv, Types
<1>3. ASSUME NEW s \in Readers PROVE BufferOK(s)' /\ (arrived[s] <= Sent(s))'
  <2>1. BufferOK(s) /\ arrived[s] <= Sent(s) /\ EndOfHead' = EndOfHead
    BY <1>1, SameRequest DEF Inv
  <2>2. QED BY <1>1, <2>1 DEF BufferOK, Sent
<1>4. ASSUME NEW s \in Readers PROVE Outcome(s, pos[s], verdict[s])'
  <2>1. PICK k, w : k = pos[s] /\ w = verdict[s]
    OBVIOUS
  <2>2. Outcome(s, k, w)
    BY <2>1 DEF Inv
  <2>3. Outcome(s, k, w)'
    BY <1>1, <2>2, SameOutcome
  <2>4. QED BY <1>1, <2>1, <2>3, OutcomeOfReader
<1>5. NothingIsSent'
  BY <1>1 DEF NothingIsSent, Inv
<1>6. QED BY <1>2, <1>3, <1>4, <1>5 DEF Inv

(* Nothing is known of a request before it is read.                               *)
LEMMA InitInv == Init => Inv
<1> SUFFICES ASSUME Init PROVE Inv
  OBVIOUS
<1>1. request \in Requests
  BY DEF Init
<1>2. /\ \A r \in Readers : arrived[r] = 0 /\ ~ ended[r] /\ filled[r] = 0
            /\ pos[r] = 0 /\ verdict[r] = "reading"
      /\ Capacity \in Nat
  BY LimitsAssumption DEF Init
<1>3. Types
  BY DEF Init, Types, Verdicts
<1>4. EndOfHead \in Nat /\ EndOfRequest \in Nat /\ 0 < EndOfHead /\ EndOfHead <= EndOfRequest
  BY <1>1, Ends, ContentLengthOK
<1>5. ASSUME NEW r \in Readers PROVE BufferOK(r) /\ arrived[r] <= Sent(r)
  <2>1. request.after \in Nat /\ "client" \in Readers
    BY <1>1, LinesOK DEF Readers
  <2>2. Sent(r) \in Nat
    BY <1>2, <1>4, <2>1 DEF Sent
  <2>3. QED BY <1>2, <2>2 DEF BufferOK
<1>6. ASSUME NEW r \in Readers PROVE Outcome(r, pos[r], verdict[r])
  <2>1. LinesAreWithinLimits(0)
    <3>1. \A i \in 1..Len(lines) : EndOfLine[i] \in Nat /\ 0 < EndOfLine[i]
      <4>1. Len(lines) \in Nat /\ EndOfLine[0] = 0 /\ \A i \in 0..Len(lines) : EndOfLine[i] \in Nat
        BY <1>1, LinesOK, EndOfLineIsSum
      <4>2. \A i \in 1..Len(lines) : 0 \in 0..Len(lines) /\ i \in 0..Len(lines) /\ 0 < i
        BY <4>1
      <4>3. QED BY <1>1, <4>1, <4>2, EndsGrow
    <3>2. QED BY <3>1 DEF LinesAreWithinLimits
  <2>2. Outcome(r, 0, "reading")
    BY <1>4, <2>1 DEF Outcome
  <2>3. QED BY <1>2, <2>2
<1>7. NothingIsSent
  <2>1. "client" \in Readers /\ "server" \in Readers
    BY DEF Readers
  <2>2. QED BY <1>2, <2>1 DEF NothingIsSent
<1>8. QED BY <1>3, <1>5, <1>6, <1>7 DEF Inv

(* The invariant holds in every state of every behaviour.                         *)
THEOREM Invariant == Spec => []Inv
<1>1. Inv /\ [Next]_vars => Inv'
  <2> SUFFICES ASSUME Inv, [Next]_vars PROVE Inv'
    OBVIOUS
  <2>1. ASSUME NEW r \in Readers, Arrive(r) \/ End(r) PROVE Inv'
    BY <2>1, StreamKeepsInv
  <2>2. ASSUME NEW r \in Readers, Read(r) PROVE Inv'
    BY <2>2, ReadLineKeepsInv, ReadBodyKeepsInv, EndsEarlyKeepsInv DEF Read
  <2>3. CASE MapTarget
    BY <2>3, MapTargetKeepsInv
  <2>4. CASE UNCHANGED vars
    <3>1. /\ request' = request /\ arrived' = arrived /\ ended' = ended
          /\ filled' = filled /\ pos' = pos /\ verdict' = verdict /\ url' = url
      BY <2>4 DEF vars, stream, reader
    <3>2. Types'
      <4>1. {NoUrl, ProviderRequestUrl(request.target)}' = {NoUrl, ProviderRequestUrl(request.target)}
        BY <3>1 DEF NoUrl
      <4>2. QED BY <3>1, <4>1 DEF Inv, Types
    <3>3. ASSUME NEW s \in Readers PROVE BufferOK(s)' /\ (arrived[s] <= Sent(s))'
      <4>1. BufferOK(s) /\ arrived[s] <= Sent(s) /\ EndOfHead' = EndOfHead
        BY <3>1, SameRequest DEF Inv
      <4>2. QED BY <3>1, <4>1 DEF BufferOK, Sent
    <3>4. ASSUME NEW s \in Readers PROVE Outcome(s, pos[s], verdict[s])'
      <4>1. PICK k, w : k = pos[s] /\ w = verdict[s]
        OBVIOUS
      <4>2. Outcome(s, k, w)
        BY <4>1 DEF Inv
      <4>3. Outcome(s, k, w)'
        BY <3>1, <4>2, SameOutcome
      <4>4. QED BY <3>1, <4>1, <4>3, OutcomeOfReader
    <3>5. NothingIsSent'
      BY <3>1 DEF NothingIsSent, Inv
    <3>6. QED BY <3>2, <3>3, <3>4, <3>5 DEF Inv
  <2>5. QED BY <2>1, <2>2, <2>3, <2>4 DEF Next
<1>2. QED BY InitInv, <1>1, PTL DEF Spec

--------------------------------------------------------------------------------
(* A BufReader never holds more than its capacity, nor what has not arrived       *)
(* (http.rs, read_limited_line_bytes and read_exact).                             *)
THEOREM TypeCorrectness == Spec => []TypeOK
<1>1. Inv => TypeOK
  <2> SUFFICES ASSUME Inv PROVE TypeOK
    OBVIOUS
  <2>1. ASSUME NEW r \in Readers
        PROVE  /\ arrived[r] \in 0..Sent(r) /\ ended[r] \in BOOLEAN
               /\ pos[r] <= filled[r] /\ filled[r] <= arrived[r]
               /\ filled[r] - pos[r] <= Capacity
               /\ verdict[r] \in Verdicts
    <3>1. EndOfHead \in Nat /\ request.after \in Nat /\ "client" \in Readers
      BY Ends, LinesOK DEF Readers, Inv, Types
    <3>2. Sent(r) \in Nat /\ arrived[r] \in Nat /\ arrived[r] <= Sent(r)
      BY <3>1 DEF Sent, Inv, Types
    <3>3. BufferOK(r) /\ ended[r] \in BOOLEAN /\ verdict[r] \in Verdicts
      BY DEF Inv, Types
    <3>4. QED BY <3>2, <3>3 DEF BufferOK
  <2>2. QED BY <2>1 DEF TypeOK, Inv, Types
<1>2. QED BY Invariant, <1>1, PTL

(* What is accepted is sound, within all limits and there to its last byte; what  *)
(* is refused has the fault it is refused for, was cut short or has more behind   *)
(* it, in whatever pieces it came (http.rs, read_one_local_http_request and       *)
(* read_http_request).                                                            *)
THEOREM VerdictsAreJustified == Spec => []VerdictIsJustified
<1>1. Inv => VerdictIsJustified
  <2> SUFFICES ASSUME Inv PROVE VerdictIsJustified
    OBVIOUS
  <2>1. ASSUME NEW r \in Readers
        PROVE  /\ verdict[r] \in {"accepted", "unsupported_chunked"} =>
                     IsSound /\ IsSmall /\ EndOfRequest <= arrived[r]
               /\ verdict[r] = "bad_request" =>
                     \/ ~ IsSound
                     \/ ended[r] /\ arrived[r] < EndOfRequest
                     \/ r = "client" /\ arrived[r] > EndOfRequest
               /\ verdict[r] = "headers_too_large" =>
                     TooManyHeaderBytes \/ Len(Headers) > MAX_HEADER_COUNT
               /\ verdict[r] = "payload_too_large" => \E n \in Lengths : n > MAX_BODY_BYTES
               /\ verdict[r] = "unsupported_chunked" => r = "server" /\ HasChunkedBody
               /\ \/ verdict[r] \in {"reading", VerdictOnWhole(r)}
                  \/ ended[r] /\ arrived[r] < EndOfRequest
                  \/ r = "client" /\ arrived[r] > EndOfRequest /\ verdict[r] = "bad_request"
    <3>1. Outcome(r, pos[r], verdict[r]) /\ BufferOK(r)
      BY DEF Inv
    <3>2. pos[r] \in Nat /\ filled[r] \in Nat /\ arrived[r] \in Nat
      BY DEF Inv, Types
    <3>3. pos[r] <= arrived[r]
      BY <3>1, <3>2 DEF BufferOK
    <3>4. QED BY <3>1, <3>3 DEF Outcome
  <2>2. QED BY <2>1 DEF VerdictIsJustified
<1>2. QED BY Invariant, <1>1, PTL

(* What the client forwards is one request, and the server reads the same one     *)
(* (http.rs, read_one_local_http_request; server_handler.rs).                     *)
THEOREM OneRequestIsForwarded == Spec => []ServerReadsTheSame
<1>1. Inv => ServerReadsTheSame
  <2> SUFFICES ASSUME Inv, verdict["client"] = "accepted"
               PROVE  /\ \/ verdict["server"] \in
                              {"reading", IF HasChunkedBody THEN "unsupported_chunked" ELSE "accepted"}
                         \/ ended["server"] /\ arrived["server"] < Sent("server")
                      /\ verdict["server"] = "accepted" => pos["server"] = pos["client"]
    BY DEF ServerReadsTheSame
  <2>1. /\ Outcome("client", pos["client"], verdict["client"])
        /\ Outcome("server", pos["server"], verdict["server"])
        /\ verdict["server"] \in Verdicts /\ request \in Requests
    BY DEF Inv, Types, Readers
  <2>2. IsSound /\ IsSmall /\ pos["client"] = EndOfRequest
    BY <2>1 DEF Outcome
  <2>3. Sent("server") = EndOfRequest
    BY <2>2 DEF Sent
  <2>4. verdict["server"] # "headers_too_large" /\ verdict["server"] # "payload_too_large"
    <3>1. Len(Headers) \in Nat /\ MAX_HEADER_COUNT \in Nat /\ MAX_BODY_BYTES \in Nat
      BY <2>1, HeadersOK, LimitsAssumption
    <3>2. \A n \in Lengths : n \in Nat
      BY <2>1, HeadersOK DEF Lengths, HeadersThat
    <3>3. QED BY <2>1, <2>2, <3>1, <3>2 DEF Outcome, IsSmall
  <2>5. CASE verdict["server"] = "bad_request"
    BY <2>1, <2>2, <2>3, <2>5 DEF Outcome
  <2>6. CASE verdict["server"] = "unsupported_chunked"
    BY <2>1, <2>6 DEF Outcome
  <2>7. CASE verdict["server"] = "accepted"
    BY <2>1, <2>2, <2>7 DEF Outcome
  <2>8. QED BY <2>1, <2>4, <2>5, <2>6, <2>7 DEF Verdicts
<1>2. QED BY Invariant, <1>1, PTL


--------------------------------------------------------------------------------
(* Paths.                                                                         *)
Paths == Seq(Segments)

(* The segments from some place on.                                               *)
LEMMA Suffix ==
    ASSUME NEW s \in Paths, NEW n \in 0..Len(s)
    PROVE  /\ SubSeq(s, n + 1, Len(s)) \in Paths
           /\ Len(SubSeq(s, n + 1, Len(s))) = Len(s) - n
           /\ \A i \in 1..Len(s) - n : SubSeq(s, n + 1, Len(s))[i] = s[n + i]
<1>1. Len(s) \in Nat /\ \A i \in n + 1..Len(s) : s[i] \in Segments
  BY DEF Paths
<1>2. n + 1 \in Int /\ Len(s) \in Int
  BY <1>1
<1>3. SubSeq(s, n + 1, Len(s)) \in Paths
  BY <1>1, <1>2, SubSeqProperties DEF Paths
<1>4. Len(SubSeq(s, n + 1, Len(s))) = Len(s) - n
  BY <1>1, <1>2 DEF Paths
<1>5. QED BY <1>1, <1>2, <1>3, <1>4 DEF Paths

(* And the segments up to some place.                                             *)
LEMMA Prefix ==
    ASSUME NEW s \in Paths, NEW n \in 0..Len(s)
    PROVE  /\ SubSeq(s, 1, n) \in Paths /\ Len(SubSeq(s, 1, n)) = n
           /\ \A i \in 1..n : SubSeq(s, 1, n)[i] = s[i]
<1>1. Len(s) \in Nat /\ \A i \in 1..n : s[i] \in Segments
  BY DEF Paths
<1>2. n \in Int /\ 1 \in Int
  BY <1>1
<1>3. SubSeq(s, 1, n) \in Paths
  BY <1>1, <1>2, SubSeqProperties DEF Paths
<1>4. Len(SubSeq(s, 1, n)) = n
  BY <1>1, <1>2 DEF Paths
<1>5. QED BY <1>1, <1>2, <1>3, <1>4 DEF Paths

(* Two paths after each other.                                                    *)
LEMMA Concat ==
    ASSUME NEW s \in Paths, NEW t \in Paths
    PROVE  /\ s \o t \in Paths /\ Len(s \o t) = Len(s) + Len(t)
           /\ \A i \in 1..Len(s) : (s \o t)[i] = s[i]
           /\ \A i \in 1..Len(t) : (s \o t)[Len(s) + i] = t[i]
           /\ Len(s) \in Nat /\ Len(t) \in Nat
<1>1. Len(s) \in Nat /\ Len(t) \in Nat
  BY DEF Paths
<1>2. s \o t \in Paths /\ Len(s \o t) = Len(s) + Len(t)
  BY DEF Paths
<1>3. \A i \in 1..Len(s) + Len(t) :
         (s \o t)[i] = IF i <= Len(s) THEN s[i] ELSE t[i - Len(s)]
  BY ConcatProperties DEF Paths
<1>4. \A i \in 1..Len(s) : (s \o t)[i] = s[i]
  BY <1>1, <1>3
<1>5. ASSUME NEW i \in 1..Len(t) PROVE (s \o t)[Len(s) + i] = t[i]
  <2>1. /\ Len(s) + i \in 1..Len(s) + Len(t) /\ ~ (Len(s) + i <= Len(s))
        /\ (Len(s) + i) - Len(s) = i
    BY <1>1
  <2>2. QED BY <1>3, <2>1
<1>6. QED BY <1>1, <1>2, <1>4, <1>5

(* A path is what is up to some place and what is behind it.                      *)
LEMMA SplitPath ==
    ASSUME NEW s \in Paths, NEW n \in 0..Len(s)
    PROVE  s = SubSeq(s, 1, n) \o SubSeq(s, n + 1, Len(s))
<1> DEFINE a == SubSeq(s, 1, n)
           b == SubSeq(s, n + 1, Len(s))
<1>1. /\ a \in Paths /\ Len(a) = n /\ \A i \in 1..n : a[i] = s[i]
      /\ b \in Paths /\ Len(b) = Len(s) - n /\ \A i \in 1..Len(s) - n : b[i] = s[n + i]
  BY Prefix, Suffix
<1>2. Len(s) \in Nat
  BY DEF Paths
<1> HIDE DEF a, b
<1>3. /\ a \o b \in Paths /\ Len(a \o b) = Len(s)
      /\ \A i \in 1..n : (a \o b)[i] = a[i]
      /\ \A i \in 1..Len(s) - n : (a \o b)[n + i] = b[i]
  <2>1. /\ a \o b \in Paths /\ Len(a \o b) = Len(a) + Len(b)
        /\ \A i \in 1..Len(a) : (a \o b)[i] = a[i]
        /\ \A i \in 1..Len(b) : (a \o b)[Len(a) + i] = b[i]
    BY <1>1, Concat
  <2>2. n + (Len(s) - n) = Len(s)
    BY <1>2
  <2>3. QED BY <1>1, <2>1, <2>2
<1>4. ASSUME NEW i \in 1..Len(s) PROVE (a \o b)[i] = s[i]
  <2>1. CASE i <= n
    <3>1. i \in 1..n
      BY <1>2, <2>1
    <3>2. QED BY <1>1, <1>3, <3>1
  <2>2. CASE n < i
    <3>1. i - n \in 1..Len(s) - n /\ n + (i - n) = i
      BY <1>2, <2>2
    <3>2. (a \o b)[n + (i - n)] = b[i - n] /\ b[i - n] = s[n + (i - n)]
      BY <1>1, <1>3, <3>1
    <3>3. QED BY <3>1, <3>2
  <2>3. i <= n \/ n < i
    BY <1>2
  <2>4. QED BY <2>1, <2>2, <2>3
<1>5. s = a \o b
  BY <1>3, <1>4, SeqEqual DEF Paths
<1>6. QED BY <1>5 DEF a, b

(* No slash is in front.                                                          *)
IsTrimmed(s) == s = <<>> \/ s[1] # Empty

(* TrimStart takes the empty segments off the front.                              *)
LEMMA TrimStartOK ==
    ASSUME NEW s \in Paths
    PROVE  /\ TrimStart(s) \in Paths /\ IsTrimmed(TrimStart(s))
           /\ IsTrimmed(s) => TrimStart(s) = s
           /\ \E n \in 0..Len(s) :
                 TrimStart(s) = SubSeq(s, n + 1, Len(s)) /\ \A i \in 1..n : s[i] = Empty
<1> DEFINE N == {i \in 1..Len(s) : s[i] # Empty}
<1>1. Len(s) \in Nat /\ DOMAIN s = 1..Len(s)
  BY DEF Paths
<1>2. \E n \in 0..Len(s) :
         (\A i \in 1..n : s[i] = Empty) /\ (n < Len(s) => s[n + 1] # Empty)
  <2>1. CASE N = {}
    BY <1>1, <2>1
  <2>2. CASE N # {}
    <3>1. N \in SUBSET Nat
      BY <1>1
    <3>2. Min(N) \in N /\ \A i \in N : Min(N) <= i
      <4> HIDE DEF N
      <4>1. QED BY <2>2, <3>1, Minimum
    <3>3. PICK m \in N : \A i \in N : m <= i
      BY <3>2
    <3>4. m - 1 \in 0..Len(s) /\ (m - 1) + 1 = m /\ s[m] # Empty
      BY <1>1
    <3>5. \A i \in 1..(m - 1) : i \in 1..Len(s) /\ ~ (m <= i)
      BY <1>1
    <3>6. \A i \in 1..(m - 1) : s[i] = Empty
      BY <3>3, <3>5
    <3>7. QED BY <3>4, <3>6
  <2>3. QED BY <2>1, <2>2
<1>3. PICK n \in 0..Len(s) :
         (\A i \in 1..n : s[i] = Empty) /\ (n < Len(s) => s[n + 1] # Empty)
  BY <1>2
<1>4. Slashes(s) = 1..n
  <2>1. ASSUME NEW i \in 1..n PROVE i \in Slashes(s)
    BY <1>1, <1>3 DEF Slashes
  <2>2. ASSUME NEW i \in Slashes(s) PROVE i \in 1..n
    <3>1. i \in 1..Len(s) /\ \A j \in 1..i : s[j] = Empty
      BY <1>1 DEF Slashes
    <3>2. n < i => n < Len(s) /\ n + 1 \in 1..i
      BY <1>1, <3>1
    <3>3. ~ (n < i)
      BY <1>3, <3>1, <3>2
    <3>4. QED BY <1>1, <3>1, <3>3
  <2>3. QED BY <2>1, <2>2
<1>5. Cardinality(Slashes(s)) = n
  <2>1. 1 \in Int /\ n \in Int /\ n >= 0
    BY <1>1
  <2>2. Cardinality(1..n) = IF 1 > n THEN 0 ELSE n - 1 + 1
    BY <2>1, FS_Interval
  <2>3. QED BY <1>4, <2>1, <2>2
<1>6. TrimStart(s) = SubSeq(s, n + 1, Len(s))
  BY <1>5 DEF TrimStart
<1>7. /\ TrimStart(s) \in Paths /\ Len(TrimStart(s)) = Len(s) - n
      /\ \A i \in 1..Len(s) - n : TrimStart(s)[i] = s[n + i]
  BY <1>6, Suffix
<1>8. IsTrimmed(TrimStart(s))
  <2>1. CASE n < Len(s)
    <3>1. 1 \in 1..Len(s) - n
      BY <1>1, <2>1
    <3>2. QED BY <1>3, <1>7, <2>1, <3>1 DEF IsTrimmed
  <2>2. CASE ~ (n < Len(s))
    <3>1. Len(TrimStart(s)) = 0
      <4>1. \A k \in Nat : \A l \in 0..k : ~ (l < k) => k - l = 0
        OBVIOUS
      <4>2. Len(s) - n = 0
        BY <1>1, <2>2, <4>1
      <4>3. QED BY <1>7, <4>2
    <3>2. TrimStart(s) = <<>>
      BY <1>7, <3>1, EmptySeq DEF Paths
    <3>3. QED BY <3>2 DEF IsTrimmed
  <2>3. QED BY <2>1, <2>2
<1>9. ASSUME IsTrimmed(s) PROVE TrimStart(s) = s
  <2>1. n = 0
    <3>1. s = <<>> => Len(s) = 0
      OBVIOUS
    <3>2. n > 0 => 1 \in 1..n
      BY <1>1
    <3>3. QED BY <1>1, <1>3, <1>9, <3>1, <3>2 DEF IsTrimmed
  <2>2. SubSeq(s, 1, Len(s)) = s
    BY SubSeqFull DEF Paths
  <2>3. QED BY <1>6, <2>1, <2>2
<1>10. QED BY <1>3, <1>6, <1>7, <1>8, <1>9

(* A path from its end to its front.                                              *)
LEMMA ReverseOK ==
    ASSUME NEW s \in Paths
    PROVE  /\ Reverse(s) \in Paths /\ Len(Reverse(s)) = Len(s) /\ Len(s) \in Nat
           /\ \A i \in 1..Len(s) : Reverse(s)[i] = s[(Len(s) - i) + 1]
<1>1. Len(s) \in Nat /\ \A i \in 1..Len(s) : (Len(s) - i) + 1 \in 1..Len(s)
  BY DEF Paths
<1>2. \A i \in 1..Len(s) : s[(Len(s) - i) + 1] \in Segments
  BY <1>1 DEF Paths
<1>3. QED BY <1>1, <1>2 DEF Reverse, Paths

(* The base path is a path without slashes at its front.                          *)
LEMMA BasePathOK == base_path \in Paths /\ IsTrimmed(base_path)
<1> DEFINE x == TrimStart(Base)
           y == TrimStart(Reverse(x))
<1>1. Base \in Paths
  BY SegmentsAssumption DEF Paths
<1>2. x \in Paths /\ IsTrimmed(x)
  BY <1>1, TrimStartOK
<1> HIDE DEF x
<1>3. /\ Reverse(x) \in Paths /\ Len(Reverse(x)) = Len(x) /\ Len(x) \in Nat
      /\ \A i \in 1..Len(x) : Reverse(x)[i] = x[(Len(x) - i) + 1]
  BY <1>2, ReverseOK
<1>4. y \in Paths /\ \E n \in 0..Len(Reverse(x)) : y = SubSeq(Reverse(x), n + 1, Len(Reverse(x)))
  BY <1>3, TrimStartOK
<1>5. PICK n \in 0..Len(x) : y = SubSeq(Reverse(x), n + 1, Len(Reverse(x)))
  BY <1>3, <1>4
<1> HIDE DEF y
<1>6. Len(y) = Len(x) - n /\ \A i \in 1..Len(x) - n : y[i] = Reverse(x)[n + i]
  BY <1>3, <1>5, Suffix
<1>7. /\ Reverse(y) \in Paths /\ Len(Reverse(y)) = Len(y) /\ Len(y) \in Nat
      /\ \A i \in 1..Len(y) : Reverse(y)[i] = y[(Len(y) - i) + 1]
  BY <1>4, ReverseOK
<1>8. base_path = Reverse(y)
  BY DEF base_path, x, y
<1>9. IsTrimmed(Reverse(y))
  <2>1. CASE Len(y) = 0
    BY <1>7, <2>1, EmptySeq DEF IsTrimmed, Paths
  <2>2. CASE Len(y) > 0
    <3>1. 1 \in 1..Len(y) /\ (Len(y) - 1) + 1 = Len(y) /\ Len(y) \in 1..Len(x) - n
      BY <1>3, <1>6, <1>7, <2>2
    <3>2. Reverse(y)[1] = y[Len(y)]
      BY <1>7, <3>1
    <3>3. y[Len(y)] = Reverse(x)[n + Len(y)] /\ n + Len(y) = Len(x)
      BY <1>3, <1>6, <3>1
    <3>4. Len(x) \in 1..Len(x) /\ (Len(x) - Len(x)) + 1 = 1
      BY <1>3, <1>6, <3>1
    <3>5. Reverse(x)[Len(x)] = x[1]
      BY <1>3, <3>4
    <3>6. x # <<>>
      BY <3>4
    <3>7. QED BY <1>2, <3>2, <3>3, <3>5, <3>6 DEF IsTrimmed
  <2>3. QED BY <1>7, <2>1, <2>2
<1>10. QED BY <1>7, <1>8, <1>9


--------------------------------------------------------------------------------
(* A function that collects the names of s, segment by segment.                   *)
Collects(f, s) ==
    /\ f \in [0..Len(s) -> Paths] /\ f[0] = <<>>
    /\ \A i \in 1..Len(s) : f[i] = IF s[i] = Empty THEN f[i - 1] ELSE Append(f[i - 1], s[i])

(* The names of a path, from its front on.                                        *)
LEMMA NamesCollected ==
    ASSUME NEW s \in Paths
    PROVE  \E f : Collects(f, s) /\ Names(s) = f[Len(s)]
<1> DEFINE n == Len(s)
           step == [i \in 1..n |-> [x \in Paths |-> IF s[i] = Empty THEN x ELSE Append(x, s[i])]]
<1>1. n \in Nat /\ <<>> \in Paths /\ \A i \in 1..n : s[i] \in Segments
  BY DEF Paths
<1>2. \A x \in Paths, e \in Segments : Append(x, e) \in Paths
  BY DEF Paths
<1>3. step \in StepsIn(n, Paths)
  <2> HIDE DEF n
  <2>1. QED BY <1>1, <1>2 DEF StepsIn
<1>4. \A i \in 1..n, x \in Paths : step[i][x] = IF s[i] = Empty THEN x ELSE Append(x, s[i])
  OBVIOUS
<1> HIDE DEF n, step
<1>5. PICK f : Follows(f, n, Paths, <<>>, step)
  BY <1>1, <1>3, Recursion
<1>6. f \in [0..n -> Paths] /\ f[0] = <<>> /\ \A i \in 1..n : f[i] = step[i][f[i - 1]]
  BY <1>5 DEF Follows
<1>7. \A i \in 1..n : i \in 0..n /\ i - 1 \in 0..n /\ i # 0 /\ f[i - 1] \in Paths
  BY <1>1, <1>6
<1>8. \A i \in 1..n : f[i] = IF s[i] = Empty THEN f[i - 1] ELSE Append(f[i - 1], s[i])
  BY <1>4, <1>6, <1>7
<1>9. \A i \in 0..n : f[i] = IF i = 0 THEN <<>>
                             ELSE IF s[i] = Empty THEN f[i - 1] ELSE Append(f[i - 1], s[i])
  <2>1. \A i \in 0..n : i # 0 => i \in 1..n
    BY <1>1
  <2>2. QED BY <1>6, <1>8, <2>1
<1>10. f = [i \in 0..n |-> f[i]]
  BY <1>6
<1>11. f = [i \in 0..n |-> IF i = 0 THEN <<>>
                           ELSE IF s[i] = Empty THEN f[i - 1] ELSE Append(f[i - 1], s[i])]
  BY <1>9, <1>10
<1> DEFINE g == CHOOSE names : names = [i \in 0..Len(s) |->
                    IF i = 0 THEN <<>>
                    ELSE IF s[i] = Empty THEN names[i - 1] ELSE Append(names[i - 1], s[i])]
<1>12. g = [i \in 0..n |-> IF i = 0 THEN <<>>
                           ELSE IF s[i] = Empty THEN g[i - 1] ELSE Append(g[i - 1], s[i])]
  BY <1>11, Zenon DEF n
<1>13. Names(s) = g[Len(s)]
  BY Zenon DEF Names
<1> HIDE DEF g
<1>14. \A i \in 0..n : g[i] = IF i = 0 THEN <<>>
                              ELSE IF s[i] = Empty THEN g[i - 1] ELSE Append(g[i - 1], s[i])
  BY <1>12
<1>15. g[0] = <<>> /\ \A i \in 1..n : g[i] = IF s[i] = Empty THEN g[i - 1] ELSE Append(g[i - 1], s[i])
  <2>1. 0 \in 0..n
    BY <1>1
  <2>2. QED BY <1>7, <1>14, <2>1
<1>16. \A i \in 0..n : g[i] \in Paths
  <2> DEFINE S == {i \in 0..n : g[i] \in Paths}
  <2>1. 0 \in S
    BY <1>1, <1>15
  <2>2. \A i \in 0..n : i \in S /\ i < n => i + 1 \in S
    <3>1. SUFFICES ASSUME NEW i \in 0..n, i \in S, i < n PROVE i + 1 \in S
      OBVIOUS
    <3>2. i + 1 \in 1..n /\ (i + 1) - 1 = i /\ g[i] \in Paths
      BY <1>1, <3>1
    <3>3. g[i + 1] = IF s[i + 1] = Empty THEN g[i] ELSE Append(g[i], s[i + 1])
      BY <1>15, <3>2
    <3>4. QED BY <1>1, <1>2, <3>2, <3>3
  <2> HIDE DEF S
  <2>3. \A i \in 0..n : i \in S
    BY <1>1, <2>1, <2>2, Induction
  <2>4. QED BY <2>3 DEF S
<1>17. g \in [0..n -> Paths]
  <2>1. g = [i \in 0..n |-> g[i]]
    BY <1>12
  <2>2. QED BY <1>16, <2>1
<1>18. QED BY <1>13, <1>15, <1>17 DEF Collects, n

(* The names of two paths after each other are those of the one and of the other. *)
LEMMA NamesOfConcat ==
    ASSUME NEW s \in Paths, NEW t \in Paths
    PROVE  /\ Names(s \o t) = Names(s) \o Names(t)
           /\ Names(s) \in Paths /\ Names(t) \in Paths
<1> DEFINE m == Len(s)
           n == Len(t)
           u == s \o t
<1>1. /\ m \in Nat /\ n \in Nat /\ u \in Paths /\ Len(u) = m + n
      /\ \A i \in 1..m : u[i] = s[i]
      /\ \A i \in 1..n : u[m + i] = t[i]
  BY Concat
<1> HIDE DEF m, n, u
<1>2. PICK f : Collects(f, s) /\ Names(s) = f[m]
  BY NamesCollected DEF m
<1>3. PICK g : Collects(g, t) /\ Names(t) = g[n]
  BY NamesCollected DEF n
<1>4. PICK h : Collects(h, u) /\ Names(u) = h[m + n]
  BY <1>1, NamesCollected
<1>5. /\ f \in [0..m -> Paths] /\ f[0] = <<>>
      /\ \A i \in 1..m : f[i] = IF s[i] = Empty THEN f[i - 1] ELSE Append(f[i - 1], s[i])
  BY <1>2 DEF Collects, m
<1>6. /\ g \in [0..n -> Paths] /\ g[0] = <<>>
      /\ \A i \in 1..n : g[i] = IF t[i] = Empty THEN g[i - 1] ELSE Append(g[i - 1], t[i])
  BY <1>3 DEF Collects, n
<1>7. /\ h[0] = <<>>
      /\ \A i \in 1..m + n : h[i] = IF u[i] = Empty THEN h[i - 1] ELSE Append(h[i - 1], u[i])
  BY <1>1, <1>4 DEF Collects
<1>8. \A i \in 0..m : h[i] = f[i]
  <2> DEFINE S == {i \in 0..m : h[i] = f[i]}
  <2>1. 0 \in S
    BY <1>1, <1>5, <1>7
  <2>2. \A i \in 0..m : i \in S /\ i < m => i + 1 \in S
    <3>1. SUFFICES ASSUME NEW i \in 0..m, h[i] = f[i], i < m PROVE h[i + 1] = f[i + 1]
      BY <1>1
    <3>2. i + 1 \in 1..m /\ (i + 1) - 1 = i /\ i + 1 \in 1..m + n
      BY <1>1, <3>1
    <3>3. u[i + 1] = s[i + 1]
      BY <1>1, <3>2
    <3>4. f[i + 1] = IF s[i + 1] = Empty THEN f[i] ELSE Append(f[i], s[i + 1])
      BY <1>5, <3>2
    <3>5. h[i + 1] = IF u[i + 1] = Empty THEN h[i] ELSE Append(h[i], u[i + 1])
      BY <1>7, <3>2
    <3>6. QED BY <3>1, <3>3, <3>4, <3>5
  <2> HIDE DEF S
  <2>3. \A i \in 0..m : i \in S
    BY <1>1, <2>1, <2>2, Induction
  <2>4. QED BY <2>3 DEF S
<1>9. h[m] = f[m] /\ f[m] \in Paths
  BY <1>1, <1>5, <1>8
<1>10. \A i \in 0..n : h[m + i] = f[m] \o g[i]
  <2> DEFINE S == {i \in 0..n : h[m + i] = f[m] \o g[i]}
  <2>1. 0 \in S
    <3>1. f[m] \o <<>> = f[m]
      BY <1>9, ConcatEmptySeq DEF Paths
    <3>2. m + 0 = m /\ 0 \in 0..n
      BY <1>1
    <3>3. QED BY <1>6, <1>9, <3>1, <3>2
  <2>2. \A i \in 0..n : i \in S /\ i < n => i + 1 \in S
    <3>1. SUFFICES ASSUME NEW i \in 0..n, h[m + i] = f[m] \o g[i], i < n
                   PROVE  h[m + (i + 1)] = f[m] \o g[i + 1]
      <4>1. \A i \in 0..n : i < n => i + 1 \in 0..n
        BY <1>1
      <4>2. QED BY <4>1
    <3>2. /\ i + 1 \in 1..n /\ (i + 1) - 1 = i
          /\ m + (i + 1) \in 1..m + n /\ (m + (i + 1)) - 1 = m + i
      BY <1>1, <3>1
    <3>3. u[m + (i + 1)] = t[i + 1] /\ t[i + 1] \in Segments /\ g[i] \in Paths
      <4>1. u[m + (i + 1)] = t[i + 1] /\ g[i] \in Paths
        BY <1>1, <1>6, <3>2
      <4>2. \A k \in 1..n : t[k] \in Segments
        BY DEF Paths, n
      <4>3. QED BY <3>2, <4>1, <4>2
    <3>4. g[i + 1] = IF t[i + 1] = Empty THEN g[i] ELSE Append(g[i], t[i + 1])
      BY <1>6, <3>2
    <3>5. h[m + (i + 1)] = IF u[m + (i + 1)] = Empty THEN h[m + i]
                           ELSE Append(h[m + i], u[m + (i + 1)])
      BY <1>7, <3>2
    <3>6. \A x, y \in Paths, e \in Segments : Append(x \o y, e) = x \o Append(y, e)
      <4>1. SUFFICES ASSUME NEW x \in Paths, NEW y \in Paths, NEW e \in Segments
                     PROVE  Append(x \o y, e) = x \o Append(y, e)
        OBVIOUS
      <4>2. /\ <<e>> \in Paths /\ x \o y \in Paths
            /\ Append(x \o y, e) = (x \o y) \o <<e>> /\ Append(y, e) = y \o <<e>>
        <5>1. <<e>> \in Paths
          BY DEF Paths
        <5>2. x \o y \in Paths
          BY Concat
        <5>3. \A z \in Paths : Append(z, e) = z \o <<e>>
          BY AppendIsConcat DEF Paths
        <5>4. QED BY <5>1, <5>2, <5>3
      <4>3. (x \o y) \o <<e>> = x \o (y \o <<e>>)
        BY <4>2, ConcatAssociative DEF Paths
      <4>4. QED BY <4>2, <4>3
    <3>7. QED BY <1>9, <3>1, <3>3, <3>4, <3>5, <3>6
  <2> HIDE DEF S
  <2>3. \A i \in 0..n : i \in S
    BY <1>1, <2>1, <2>2, Induction
  <2>4. QED BY <2>3 DEF S
<1>11. h[m + n] = f[m] \o g[n] /\ f[m] \in Paths /\ g[n] \in Paths
  BY <1>1, <1>6, <1>9, <1>10
<1>12. QED BY <1>2, <1>3, <1>4, <1>11 DEF u

(* Slashes have no names.                                                         *)
LEMMA NamesOfSlashes ==
    ASSUME NEW s \in Paths, \A i \in 1..Len(s) : s[i] = Empty
    PROVE  Names(s) = <<>>
<1>1. PICK f : Collects(f, s) /\ Names(s) = f[Len(s)]
  BY NamesCollected
<1>2. /\ Len(s) \in Nat /\ f[0] = <<>>
      /\ \A i \in 1..Len(s) : f[i] = IF s[i] = Empty THEN f[i - 1] ELSE Append(f[i - 1], s[i])
  BY <1>1 DEF Collects, Paths
<1> DEFINE S == {i \in 0..Len(s) : f[i] = <<>>}
<1>3. 0 \in S
  BY <1>2
<1>4. \A i \in 0..Len(s) : i \in S /\ i < Len(s) => i + 1 \in S
  <2>1. SUFFICES ASSUME NEW i \in 0..Len(s), f[i] = <<>>, i < Len(s) PROVE f[i + 1] = <<>>
    BY <1>2
  <2>2. i + 1 \in 1..Len(s) /\ (i + 1) - 1 = i
    BY <1>2, <2>1
  <2>3. QED BY <1>2, <2>1, <2>2
<1> HIDE DEF S
<1>5. \A i \in 0..Len(s) : i \in S
  BY <1>2, <1>3, <1>4, Induction
<1>6. Len(s) \in 0..Len(s)
  BY <1>2
<1>7. QED BY <1>1, <1>5, <1>6 DEF S

(* So none is lost with the slashes at the front.                                 *)
LEMMA NamesOfTrimmed ==
    ASSUME NEW s \in Paths
    PROVE  Names(TrimStart(s)) = Names(s) /\ Names(s) \in Paths
<1>1. PICK n \in 0..Len(s) :
         TrimStart(s) = SubSeq(s, n + 1, Len(s)) /\ \A i \in 1..n : s[i] = Empty
  BY TrimStartOK
<1> DEFINE a == SubSeq(s, 1, n)
           b == TrimStart(s)
<1>2. s = a \o b
  BY <1>1, SplitPath
<1>3. a \in Paths /\ Len(a) = n /\ \A i \in 1..n : a[i] = s[i]
  BY Prefix
<1>4. b \in Paths
  BY TrimStartOK
<1> HIDE DEF a, b
<1>5. Names(a) = <<>>
  BY <1>1, <1>3, NamesOfSlashes
<1>6. Names(s) = Names(a) \o Names(b) /\ Names(b) \in Paths
  BY <1>2, <1>3, <1>4, NamesOfConcat
<1>7. <<>> \o Names(b) = Names(b)
  BY <1>6, ConcatEmptySeq DEF Paths
<1>8. QED BY <1>5, <1>6, <1>7 DEF b


--------------------------------------------------------------------------------
(* A path with the base path in front goes on with what is behind that.           *)
LEMMA BehindBase ==
    ASSUME NEW s \in Paths, HasBase(s)
    PROVE  /\ SubSeq(s, Len(base_path) + 1, Len(s)) \in Paths
           /\ s = base_path \o SubSeq(s, Len(base_path) + 1, Len(s))
<1> DEFINE b == base_path
<1>1. b \in Paths /\ Len(b) \in Nat /\ Len(s) \in Nat
  BY BasePathOK DEF Paths
<1>2. Len(b) <= Len(s) /\ SubSeq(b, 1, Len(b)) = SubSeq(s, 1, Len(b))
  BY DEF HasBase, IsPrefix
<1> HIDE DEF b
<1>3. Len(b) \in 0..Len(s)
  BY <1>1, <1>2
<1>4. SubSeq(b, 1, Len(b)) = b
  BY <1>1, SubSeqFull DEF Paths
<1>5. s = SubSeq(s, 1, Len(b)) \o SubSeq(s, Len(b) + 1, Len(s))
  BY <1>3, SplitPath
<1>6. SubSeq(s, Len(b) + 1, Len(s)) \in Paths
  BY <1>3, Suffix
<1>7. QED BY <1>2, <1>4, <1>5, <1>6 DEF b

(* And the base path in front of a path is found there.                           *)
LEMMA BaseInFront ==
    ASSUME NEW s \in Paths, base_path # <<>>
    PROVE  /\ HasBase(base_path \o s)
           /\ SubSeq(base_path \o s, Len(base_path) + 1, Len(base_path \o s)) = s
<1> DEFINE b == base_path
           u == b \o s
<1>1. b \in Paths
  BY BasePathOK
<1> HIDE DEF b
<1>2. /\ Len(b) \in Nat /\ Len(s) \in Nat /\ u \in Paths /\ Len(u) = Len(b) + Len(s)
      /\ \A i \in 1..Len(b) : u[i] = b[i]
      /\ \A i \in 1..Len(s) : u[Len(b) + i] = s[i]
  BY <1>1, Concat
<1> HIDE DEF u
<1>3. Len(b) \in 0..Len(u) /\ Len(b) <= Len(u) /\ Len(u) - Len(b) = Len(s)
  BY <1>2
<1>4. /\ SubSeq(u, 1, Len(b)) \in Paths /\ Len(SubSeq(u, 1, Len(b))) = Len(b)
      /\ \A i \in 1..Len(b) : SubSeq(u, 1, Len(b))[i] = u[i]
  BY <1>2, <1>3, Prefix
<1>5. SubSeq(u, 1, Len(b)) = b
  <2>1. \A i \in 1..Len(b) : SubSeq(u, 1, Len(b))[i] = b[i]
    BY <1>2, <1>4
  <2>2. QED BY <1>1, <1>4, <2>1, SeqEqual DEF Paths
<1>6. SubSeq(b, 1, Len(b)) = b
  BY <1>1, SubSeqFull DEF Paths
<1>7. HasBase(u)
  BY <1>3, <1>5, <1>6 DEF HasBase, IsPrefix, b
<1>8. /\ SubSeq(u, Len(b) + 1, Len(u)) \in Paths
      /\ Len(SubSeq(u, Len(b) + 1, Len(u))) = Len(s)
      /\ \A i \in 1..Len(s) : SubSeq(u, Len(b) + 1, Len(u))[i] = u[Len(b) + i]
  <2>1. /\ Len(SubSeq(u, Len(b) + 1, Len(u))) = Len(u) - Len(b)
        /\ SubSeq(u, Len(b) + 1, Len(u)) \in Paths
        /\ \A i \in 1..Len(u) - Len(b) : SubSeq(u, Len(b) + 1, Len(u))[i] = u[Len(b) + i]
    BY <1>2, <1>3, Suffix
  <2>2. QED BY <1>3, <2>1
<1>9. SubSeq(u, Len(b) + 1, Len(u)) = s
  <2>1. \A i \in 1..Len(s) : SubSeq(u, Len(b) + 1, Len(u))[i] = s[i]
    BY <1>2, <1>8
  <2>2. QED BY <1>8, <2>1, SeqEqual DEF Paths
<1>10. QED BY <1>7, <1>9 DEF b, u

(* What is joined to the base has no slashes at its front, and all the names of   *)
(* the path, but those of one base path.                                          *)
LEMMA RelativePathOK ==
    ASSUME NEW s \in Paths
    PROVE  LET a == RelativePath(s)
           IN  /\ a \in Paths /\ IsTrimmed(a) /\ Names(a) \in Paths
               /\ Names(s) = Names(a) \/ Names(s) = Names(base_path) \o Names(a)
<1> DEFINE w == TrimStart(s)
           rest == SubSeq(w, Len(base_path) + 1, Len(w))
           a == RelativePath(s)
<1>1. w \in Paths /\ IsTrimmed(w) /\ Names(w) = Names(s) /\ Names(s) \in Paths
  BY TrimStartOK, NamesOfTrimmed
<1>2. a = IF HasBase(w) THEN TrimStart(rest) ELSE w
  BY DEF RelativePath
<1> HIDE DEF w, a
<1>3. CASE ~ HasBase(w)
  BY <1>1, <1>2, <1>3 DEF a
<1>4. CASE HasBase(w)
  <2>1. rest \in Paths /\ w = base_path \o rest
    BY <1>1, <1>4, BehindBase
  <2> HIDE DEF rest
  <2>2. /\ TrimStart(rest) \in Paths /\ IsTrimmed(TrimStart(rest))
        /\ Names(TrimStart(rest)) = Names(rest) /\ Names(rest) \in Paths
    BY <2>1, TrimStartOK, NamesOfTrimmed
  <2>3. Names(w) = Names(base_path) \o Names(rest)
    BY <2>1, BasePathOK, NamesOfConcat
  <2>4. QED BY <1>1, <1>2, <1>4, <2>2, <2>3 DEF a
<1>5. QED BY <1>3, <1>4

(* Two of them without a scheme are two URLs.                                     *)
WithoutScheme(relative) ==
    relative = <<>> \/ relative[1] \notin Schemes \cup DOMAIN BehindOwn

LEMMA JoinIsInjective ==
    ASSUME NEW a \in Paths, NEW b \in Paths, IsTrimmed(a), IsTrimmed(b),
           WithoutScheme(a), WithoutScheme(b), Join(a) = Join(b)
    PROVE  a = b
<1> DEFINE Rest(s) == IF s = <<>> THEN <<Empty>> ELSE s
<1>1. /\ Join(a) = [ours |-> TRUE, path |-> Directory \o Rest(a)]
      /\ Join(b) = [ours |-> TRUE, path |-> Directory \o Rest(b)]
  BY DEF Join, WithoutScheme, InDirectory, Ours
<1>2. Rest(a) \in Paths /\ Rest(b) \in Paths
  BY SegmentsAssumption DEF Paths
<1>3. Directory \in Paths
  <2>1. Base \in Paths /\ Base # <<>>
    BY SegmentsAssumption DEF Paths
  <2>2. Len(Base) \in Nat /\ Len(Base) - 1 \in 0..Len(Base)
    BY <2>1, EmptySeq DEF Paths
  <2>3. SubSeq(Base, 1, Len(Base) - 1) \in Paths
    BY <2>1, <2>2, Prefix
  <2>4. QED BY <2>1, <2>3 DEF Directory, Front
<1> HIDE DEF Rest
<1>4. Directory \o Rest(a) = Directory \o Rest(b)
  <2>1. \A x : [ours |-> TRUE, path |-> x].path = x
    OBVIOUS
  <2>2. /\ Join(a).path = Directory \o Rest(a)
        /\ Join(b).path = Directory \o Rest(b)
    BY <1>1, <2>1, Zenon
  <2>3. QED BY <2>2, Zenon
<1>5. Rest(a) = Rest(b)
  BY <1>2, <1>3, <1>4, ConcatSimplifications DEF Paths
<1>6. \A s \in Paths : IsTrimmed(s) => s # <<Empty>>
  <2>1. \A s \in Paths : s = <<Empty>> => s[1] = Empty /\ s # <<>>
    OBVIOUS
  <2>2. QED BY <2>1 DEF IsTrimmed
<1>7. QED BY <1>5, <1>6 DEF Rest

(* A base path in front of a path that has none in front is taken off again.      *)
LEMMA BaseIsTakenOff ==
    ASSUME NEW s \in Paths, s # <<>>, ProviderRequestUrl(s) # Refused,
           ~ HasBase(s), ~ IsUnsafe(base_path)
    PROVE  ProviderRequestUrl(base_path \o s) = ProviderRequestUrl(s)
<1> DEFINE b == base_path
           u == b \o s
<1>1. /\ b \in Paths /\ IsTrimmed(b) /\ Len(s) \in Nat /\ Len(s) # 0
      /\ DOMAIN s = 1..Len(s) /\ DOMAIN b = 1..Len(b)
  BY BasePathOK, EmptySeq DEF Paths
<1> HIDE DEF b
<1>2. CASE b = <<>>
  BY <1>2, ConcatEmptySeq DEF Paths, b
<1>3. CASE b # <<>>
  <2>1. /\ Len(b) \in Nat /\ Len(b) # 0 /\ u \in Paths /\ Len(u) = Len(b) + Len(s)
        /\ \A i \in 1..Len(b) : u[i] = b[i]
        /\ \A i \in 1..Len(s) : u[Len(b) + i] = s[i]
    BY <1>1, <1>3, Concat, EmptySeq DEF Paths
  <2>2. HasBase(u) /\ SubSeq(u, Len(b) + 1, Len(u)) = s
    BY <1>3, BaseInFront DEF b
  <2> HIDE DEF u
  <2>3. ~ (Len(s) > 1 /\ s[1] = Empty) /\ ~ IsUnsafe(s) /\ ProviderRequestUrl(s) = Join(RelativePath(s))
    BY DEF ProviderRequestUrl
  <2>4. u[1] # Empty /\ IsTrimmed(u)
    <3>1. 1 \in 1..Len(b)
      BY <2>1
    <3>2. u[1] = b[1] /\ b[1] # Empty
      BY <1>1, <1>3, <2>1, <3>1 DEF IsTrimmed
    <3>3. QED BY <3>2 DEF IsTrimmed
  <2>5. ~ IsUnsafe(u)
    <3>1. SUFFICES ASSUME NEW i \in DOMAIN u PROVE u[i] \notin DotSegments \cup Undecodable
      BY DEF IsUnsafe
    <3>2. i \in 1..Len(b) + Len(s)
      BY <2>1 DEF Paths
    <3>3. CASE i <= Len(b)
      <4>1. i \in 1..Len(b)
        BY <2>1, <3>2, <3>3
      <4>2. b[i] \notin DotSegments \cup Undecodable
        BY <1>1, <4>1 DEF IsUnsafe, b
      <4>3. QED BY <2>1, <4>1, <4>2
    <3>4. CASE Len(b) < i
      <4>1. i - Len(b) \in 1..Len(s) /\ Len(b) + (i - Len(b)) = i
        BY <1>1, <2>1, <3>2, <3>4
      <4>2. s[i - Len(b)] \notin DotSegments \cup Undecodable
        BY <1>1, <2>3, <4>1 DEF IsUnsafe
      <4>3. u[Len(b) + (i - Len(b))] = s[i - Len(b)]
        BY <2>1, <4>1
      <4>4. QED BY <4>1, <4>2, <4>3
    <3>5. i <= Len(b) \/ Len(b) < i
      BY <2>1, <3>2
    <3>6. QED BY <3>3, <3>4, <3>5
  <2>6. ProviderRequestUrl(u) = Join(RelativePath(u))
    BY <2>4, <2>5 DEF ProviderRequestUrl
  <2>7. RelativePath(u) = TrimStart(s)
    <3>1. TrimStart(u) = u
      BY <2>1, <2>4, TrimStartOK
    <3>2. QED BY <2>2, <3>1 DEF RelativePath, b
  <2>8. RelativePath(s) = TrimStart(s)
    <3>1. CASE IsTrimmed(s)
      <4>1. TrimStart(s) = s
        BY <3>1, TrimStartOK
      <4>2. QED BY <4>1 DEF RelativePath
    <3>2. CASE ~ IsTrimmed(s)
      <4>1. Len(s) = 1 /\ s[1] = Empty
        BY <1>1, <2>3, <3>2 DEF IsTrimmed
      <4>2. PICK n \in 0..1 : TrimStart(s) = SubSeq(s, n + 1, 1) /\ \A i \in 1..n : s[i] = Empty
        BY <4>1, TrimStartOK
      <4>3. n # 0
        <5>1. SubSeq(s, 1, Len(s)) = s
          BY SubSeqFull DEF Paths
        <5>2. n = 0 => TrimStart(s) = s
          BY <4>1, <4>2, <5>1
        <5>3. QED BY <3>2, <5>2, TrimStartOK
      <4>4. n = 1
        BY <4>3
      <4>5. TrimStart(s) = <<>>
        <5>1. SubSeq(s, 2, 1) = <<>>
          BY SubSeqEmpty
        <5>2. QED BY <4>2, <4>4, <5>1
      <4>6. ~ HasBase(<<>>)
        <5>1. Len(b) > 0 /\ Len(<<>>) = 0
          BY <2>1
        <5>2. ~ (Len(b) <= Len(<<>>))
          BY <2>1, <5>1
        <5>3. QED BY <5>2 DEF HasBase, IsPrefix, b
      <4>7. QED BY <4>5, <4>6 DEF RelativePath
    <3>3. QED BY <3>1, <3>2
  <2>9. QED BY <2>3, <2>6, <2>7, <2>8 DEF u, b
<1>4. QED BY <1>2, <1>3

(* Two paths that are one URL and begin with no scheme have the same names, but   *)
(* for one base path.                                                             *)
LEMMA SameUrl ==
    ASSUME NEW s \in Paths, NEW t \in Paths,
           ProviderRequestUrl(s) # Refused, ProviderRequestUrl(s) = ProviderRequestUrl(t),
           ~ HasScheme(s), ~ HasScheme(t)
    PROVE  LET p == Names(s)
               q == Names(t)
               base == Names(base_path)
           IN  p = q \/ p = base \o q \/ q = base \o p
<1>1. /\ ProviderRequestUrl(s) = Join(RelativePath(s))
      /\ ProviderRequestUrl(t) = Join(RelativePath(t))
  BY DEF ProviderRequestUrl
<1>2. /\ RelativePath(s) \in Paths /\ IsTrimmed(RelativePath(s))
      /\ RelativePath(t) \in Paths /\ IsTrimmed(RelativePath(t))
  BY RelativePathOK
<1>3. RelativePath(s) = RelativePath(t)
  <2>1. WithoutScheme(RelativePath(s)) /\ WithoutScheme(RelativePath(t))
    BY DEF HasScheme, WithoutScheme
  <2>2. QED BY <1>1, <1>2, <2>1, JoinIsInjective
<1>4. /\ Names(s) = Names(RelativePath(s))
         \/ Names(s) = Names(base_path) \o Names(RelativePath(s))
      /\ Names(t) = Names(RelativePath(t))
         \/ Names(t) = Names(base_path) \o Names(RelativePath(t))
  BY RelativePathOK
<1>5. QED BY <1>3, <1>4

(* The base path is neither doubled nor missed: a local program may put it in     *)
(* front of a path or leave it out, and no two other paths without a scheme are   *)
(* one URL (url.rs, provider_request_url_from_base).                              *)
THEOREM BasePathMayBeLeftOut == Spec => []BaseMayBeLeftOut
<1>1. Inv => BaseMayBeLeftOut
  <2> SUFFICES ASSUME Inv, url \notin {NoUrl, Refused} PROVE BaseMayBeLeftOut
    BY DEF BaseMayBeLeftOut
  <2>1. request \in Requests /\ url = ProviderRequestUrl(request.target) /\ url # Refused
    BY DEF Inv, Types
  <2>2. \A r \in Requests : r.target \in Paths /\ r.target # <<>>
    BY RequestsAssumption DEF Paths
  <2>3. ~ HasBase(request.target) /\ ~ IsUnsafe(base_path) =>
           ProviderRequestUrl(base_path \o request.target) = url
    BY <2>1, <2>2, BaseIsTakenOff
  <2>4. ASSUME NEW r \in Requests, ProviderRequestUrl(r.target) = url
        PROVE  LET p == Names(request.target)
                   q == Names(r.target)
                   base == Names(base_path)
               IN  \/ p = q \/ p = base \o q \/ q = base \o p
                   \/ HasScheme(request.target) \/ HasScheme(r.target)
    BY <2>1, <2>2, <2>4, SameUrl
  <2>5. QED BY <2>3, <2>4 DEF BaseMayBeLeftOut
<1>2. QED BY Invariant, <1>1, PTL
================================================================================
