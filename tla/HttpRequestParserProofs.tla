---------------------- MODULE HttpRequestParserProofs ----------------------
(***************************************************************************)
(* Proofs about HttpRequestParser, for any stream of any bytes: a request  *)
(* inherits nothing from the one before it on the connection, and consists *)
(* of bytes that were received.  Neither is inductive: the parser keeps    *)
(* its buffers from one request to the next, so one has to know in which   *)
(* states which of its fields are in use, and how far a body has come.     *)
(* Nothing is claimed of what follows an overrun; which streams have none  *)
(* is a theorem of its own (NoOverrunTheorem).                             *)
(***************************************************************************)
EXTENDS HttpRequestParser, SequenceTheorems, WellFoundedInduction, TLAPS

\* The bytes the parser has read.
Received == {Bytes(stream)[i] : i \in 1..read}

InRequestLine == {"REQUEST_METHOD", "REQUEST_GAP1", "REQUEST_URI", "REQUEST_GAP2",
                  "REQUEST_VERSION", "REQUEST_CR_SEEN"}
InHeaders == {"HEADER_FIELD_NAME", "HEADER_GAP1", "HEADER_FIELD_CONTENT", "HEADER_CR_SEEN",
              "END_CR_SEEN"}
BetweenChunks == {"READING_CHUNK_SIZE", "READING_CHUNK_EXTENSION", "CHUNK_SIZE_CR_SEEN",
                  "CHUNK_DATA_CR_SEEN", "READING_CHUNK_TRAILER", "CHUNK_TRAILER_CR_SEEN"}
States == InRequestLine \cup InHeaders \cup BetweenChunks
          \cup {"READING_FIXED_BODY", "READING_CHUNK_DATA"}
          \cup {"OVERRUN", "OVERFLOW", "NO_STORAGE"}

\* Requests and parsers over a set of bytes.
Requests(R) ==
    [method : Seq(R), uri : Seq(R), headers : Seq(Seq(R) \X Seq(R)), isWebSocket : BOOLEAN,
     keepAlive : BOOLEAN, content : Seq(R)]
\* S: the texts, H: the headers, Q: the queues.
ParserRecords(S, H, Q) ==
    [state : States, rc : Nat, method : S, methodLength : Nat, uri : S,
     versionLength : Nat, name : S, value : S, headers : H, isChunked : BOOLEAN,
     isWebSocket : BOOLEAN, keepAlive : BOOLEAN, length : Int, chunkSize : Nat,
     remaining : Int, content : S, queue : Q]
Parsers(R) == ParserRecords(Seq(R), Seq(Seq(R) \X Seq(R)), Seq(Requests(R)))

\* Before the headers of a request, the parser has none of another one's.
Fresh(q) ==
    /\ q.headers = <<>> /\ q.length = -1
    /\ ~q.isChunked /\ ~q.isWebSocket /\ ~q.keepAlive
    /\ q.state \in {"REQUEST_METHOD", "REQUEST_GAP1"} => q.uri = <<>>

\* What there is of the body is in its place.
BodySoFar(q) ==
    /\ q.state = "READING_FIXED_BODY" => q.remaining > 0 /\ Len(q.content) = q.length - q.remaining
    /\ q.state = "READING_CHUNK_DATA" => q.remaining >= 0 /\ Len(q.content) = q.length - q.remaining
    /\ q.state \in BetweenChunks => Len(q.content) = q.length

Sound(q) ==
    /\ q.methodLength <= Len(q.method)
    /\ q.state \in InRequestLine => Fresh(q)
    /\ BodySoFar(q)

ParserInv == read \in Nat /\ p \in Parsers(Received) /\ Sound(p)

-----------------------------------------------------------------------------
(* What is proved. *)

\* A new request has nothing of the one before it to inherit
\* (resetParserAndEnqueue, c/httpserver.c:2058-2071).
NothingLeftOver == p.state \in InRequestLine => Fresh(p)

\* The body so far has the length the next byte is stored by
\* (content[length - remaining], c/httpserver.c:2338-2341, 2383-2421).
BodyInPlace ==
    /\ p.state = "READING_FIXED_BODY" =>
          p.remaining \in 1..p.length /\ Len(p.content) = p.length - p.remaining
    /\ p.state = "READING_CHUNK_DATA" =>
          p.remaining \in 0..p.length /\ Len(p.content) = p.length - p.remaining
    /\ p.state \in BetweenChunks => Len(p.content) = p.length

\* The requests consist of bytes that were received (enqueueLastRequest,
\* c/httpserver.c:2019-2036).
RequestsAsReceived == p.queue \in Seq(Requests(Received))

-----------------------------------------------------------------------------
(* Sequences, and a byte put over what a buffer holds. *)

LEMMA WiderSequences ==
    ASSUME NEW R, NEW T, R \subseteq T, NEW s \in Seq(R)
    PROVE  s \in Seq(T)
OBVIOUS

\* What a function of numbers from 1 is.
LEMMA AsSequence ==
    ASSUME NEW R, NEW n \in Nat, NEW f, f \in [1..n -> R]
    PROVE  f \in Seq(R) /\ Len(f) = n
OBVIOUS

LEMMA PutWithin ==
    ASSUME NEW R, NEW s \in Seq(R), NEW k \in 0..Len(s), NEW b \in R
    PROVE  /\ Put(s, k, b) \in Seq(R)
           /\ Len(Put(s, k, b)) = IF k < Len(s) THEN Len(s) ELSE Len(s) + 1
<1> DEFINE n == IF k < Len(s) THEN Len(s) ELSE k + 1
<1>1. n \in Nat /\ Len(s) \in Nat
  OBVIOUS
<1>2. Put(s, k, b) = [i \in 1..n |-> IF i = k + 1 THEN b ELSE s[i]]
  BY DEF Put
<1>3. \A i \in 1..n : (IF i = k + 1 THEN b ELSE s[i]) \in R
  OBVIOUS
<1>4. Put(s, k, b) \in [1..n -> R]
  <2> HIDE DEF n
  <2> QED BY <1>2, <1>3
<1>5. Put(s, k, b) \in Seq(R) /\ Len(Put(s, k, b)) = n
  <2> HIDE DEF n
  <2> QED BY <1>1, <1>4, AsSequence
<1> QED BY <1>5

LEMMA Beginning ==
    ASSUME NEW R, NEW s \in Seq(R), NEW n \in Nat, n <= Len(s)
    PROVE  SubSeq(s, 1, n) \in Seq(R)
<1>1. \A i \in 1..n : s[i] \in R
  OBVIOUS
<1> QED BY <1>1, SubSeqProperties

LEMMA Digit ==
    ASSUME NEW d \in Range(HexDigits)
    PROVE  Value(d) \in 0..3
<1>1. \E i \in 1..Len(HexDigits) : HexDigits[i] = d
  BY DEF Range, HexDigits
<1>2. (CHOOSE i \in 1..Len(HexDigits) : HexDigits[i] = d) \in 1..4
  BY <1>1 DEF HexDigits
<1> QED BY <1>2 DEF Value

LEMMA Smallest ==
    ASSUME NEW T, T \subseteq Nat, T # {}
    PROVE  \E x \in T : \A y \in T : x <= y
<1>1. PICK x \in T : \A y \in T : ~(<<y, x>> \in OpToRel(<, Nat))
  BY WFMin, NatLessThanWellFounded
<1>2. \A y \in T : ~(y < x)
  BY <1>1 DEF OpToRel
<1> QED BY <1>2

\* The recursion of atoi, as far as k.
Counts(text, k, f) ==
    /\ f \in [0..k -> Nat]
    /\ f[0] = 0
    /\ \A i \in 1..k :
          f[i] = IF \A j \in 1..i : text[j] \in Range(HexDigits)
                 THEN 10 * f[i - 1] + Value(text[i]) ELSE f[i - 1]

LEMMA CountsSome ==
    ASSUME NEW text, NEW n \in Nat
    PROVE  \E f : Counts(text, n, f)
<1> DEFINE T == {k \in Nat : ~\E f : Counts(text, k, f)}
<1>1. ASSUME T # {} PROVE FALSE
  <2>0. T \subseteq Nat
    OBVIOUS
  <2>1. PICK k \in T : \A y \in T : k <= y
    <3> HIDE DEF T
    <3> QED BY <1>1, <2>0, Smallest
  <2>2. k \in Nat /\ ~\E f : Counts(text, k, f)
    BY <2>1
  <2>3. k # 0
    <3>1. Counts(text, 0, [i \in 0..0 |-> 0])
      BY DEF Counts
    <3> QED BY <2>2, <3>1
  <2>4. k - 1 \in Nat /\ k - 1 \notin T
    BY <2>1, <2>2, <2>3
  <2>5. PICK f : Counts(text, k - 1, f)
    BY <2>4
  <2> DEFINE last == IF \A j \in 1..k : text[j] \in Range(HexDigits)
                     THEN 10 * f[k - 1] + Value(text[k]) ELSE f[k - 1]
             g == [i \in 0..k |-> IF i = k THEN last ELSE f[i]]
  <2>6. f \in [0..(k - 1) -> Nat] /\ f[k - 1] \in Nat
    BY <2>4, <2>5 DEF Counts
  <2>7. last \in Nat
    <3>1. CASE \A j \in 1..k : text[j] \in Range(HexDigits)
      <4>1. Value(text[k]) \in 0..3
        BY <2>2, <2>3, <3>1, Digit
      <4> QED BY <2>6, <3>1, <4>1
    <3>2. CASE ~\A j \in 1..k : text[j] \in Range(HexDigits)
      BY <2>6, <3>2
    <3> QED BY <3>1, <3>2
  <2>8. g \in [0..k -> Nat] /\ g[k] = last /\ \A i \in 0..(k - 1) : g[i] = f[i]
    <3> HIDE DEF last
    <3>1. \A i \in 0..k : (IF i = k THEN last ELSE f[i]) \in Nat
      BY <2>2, <2>6, <2>7
    <3> QED BY <2>2, <3>1
  <2>9. Counts(text, k, g)
    <3> HIDE DEF g
    <3>1. g[0] = 0
      BY <2>3, <2>4, <2>5, <2>8 DEF Counts
    <3>2. ASSUME NEW i \in 1..k
          PROVE  g[i] = IF \A j \in 1..i : text[j] \in Range(HexDigits)
                        THEN 10 * g[i - 1] + Value(text[i]) ELSE g[i - 1]
      <4>1. CASE i = k
        <5>1. g[i - 1] = f[k - 1]
          BY <2>4, <2>8, <4>1
        <5> QED BY <2>8, <4>1, <5>1
      <4>2. CASE i # k
        <5>1. i \in 1..(k - 1) /\ i \in 0..(k - 1) /\ i - 1 \in 0..(k - 1)
          BY <2>2, <4>2
        <5>2. g[i] = f[i] /\ g[i - 1] = f[i - 1]
          BY <2>8, <5>1
        <5> QED BY <2>5, <5>1, <5>2 DEF Counts
      <4> QED BY <4>1, <4>2
    <3> QED BY <2>8, <3>1, <3>2 DEF Counts
  <2> QED BY <2>2, <2>9
<1> QED BY <1>1

LEMMA NumberType ==
    ASSUME NEW R, NEW text \in Seq(R)
    PROVE  atoi(text) \in Nat
<1> DEFINE n == Len(text)
           Rec(f) == [i \in 0..n |->
                        IF i = 0 THEN 0
                        ELSE IF \A j \in 1..i : text[j] \in Range(HexDigits)
                             THEN 10 * f[i - 1] + Value(text[i]) ELSE f[i - 1]]
           f == CHOOSE h : h = Rec(h)
<1>1. n \in Nat
  OBVIOUS
<1>2. PICK g : Counts(text, n, g)
  BY <1>1, CountsSome
<1>3. g = Rec(g)
  <2>1. g \in [0..n -> Nat] /\ \A i \in 0..n : g[i] = Rec(g)[i]
    <3>1. ASSUME NEW i \in 0..n PROVE g[i] = Rec(g)[i]
      <4>1. CASE i = 0
        BY <1>2, <4>1 DEF Counts
      <4>2. CASE i # 0
        BY <1>1, <1>2, <4>2 DEF Counts
      <4> QED BY <4>1, <4>2
    <3> QED BY <1>2, <3>1 DEF Counts
  <2> QED BY <2>1
<1>4. f = Rec(f)
  <2> HIDE DEF Rec
  <2> QED BY <1>3, Zenon
<1>5. atoi(text) = f[n]
  BY DEF atoi
<1> DEFINE T == {i \in 0..n : f[i] # g[i]}
<1> HIDE DEF f
<1>6. ASSUME T # {} PROVE FALSE
  <2>0. T \subseteq Nat
    BY <1>1
  <2>1. PICK x \in T : \A y \in T : x <= y
    <3> HIDE DEF T
    <3> QED BY <1>6, <2>0, Smallest
  <2>2. x \in 0..n /\ f[x] # g[x]
    BY <2>1
  <2>3. x # 0
    BY <1>3, <1>4, <2>2
  <2>4. x - 1 \in 0..n /\ f[x - 1] = g[x - 1]
    BY <1>1, <2>1, <2>2, <2>3
  <2>5. f[x] = Rec(f)[x] /\ g[x] = Rec(g)[x]
    <3> HIDE DEF Rec
    <3> QED BY <1>3, <1>4
  <2> QED BY <2>2, <2>3, <2>4, <2>5
<1>7. f[n] = g[n]
  BY <1>1, <1>6
<1> QED BY <1>1, <1>2, <1>5, <1>7 DEF Counts

-----------------------------------------------------------------------------
(* One byte more. *)

LEMMA MoreBytes ==
    ASSUME read \in Nat, NEW q, Becomes(q), read < Len(Bytes(stream))
    PROVE  Received \subseteq Received' /\ Byte \in Received' /\ read' \in Nat
<1>1. read' = read + 1 /\ stream' = stream
  BY DEF Becomes
<1> DEFINE B == Bytes(stream)
<1>2. Received = {B[i] : i \in 1..read} /\ Received' = {B[i] : i \in 1..(read + 1)}
      /\ Byte = B[read + 1]
  BY <1>1 DEF Received, Byte
<1> HIDE DEF B
<1> QED BY <1>1, <1>2

LEMMA Fields ==
    ASSUME NEW R, NEW q \in Parsers(R)
    PROVE  /\ q.method \in Seq(R) /\ q.methodLength \in Nat /\ q.uri \in Seq(R)
           /\ q.versionLength \in Nat
           /\ q.name \in Seq(R) /\ q.value \in Seq(R) /\ q.headers \in Seq(Seq(R) \X Seq(R))
           /\ q.length \in Int /\ q.chunkSize \in Nat /\ q.remaining \in Int
           /\ q.content \in Seq(R) /\ q.queue \in Seq(Requests(R))
<1> DEFINE S == Seq(R)
           H == Seq(Seq(R) \X Seq(R))
           Q == Seq(Requests(R))
<1>1. q \in ParserRecords(S, H, Q)
  BY DEF Parsers
<1> HIDE DEF S, H, Q
<1>2. /\ q.method \in S /\ q.methodLength \in Nat /\ q.uri \in S
      /\ q.versionLength \in Nat
      /\ q.name \in S /\ q.value \in S /\ q.headers \in H
      /\ q.length \in Int /\ q.chunkSize \in Nat /\ q.remaining \in Int
      /\ q.content \in S /\ q.queue \in Q
  BY <1>1 DEF ParserRecords
<1> QED BY <1>2 DEF S, H, Q

LEMMA WiderParsers ==
    ASSUME NEW R, NEW T, R \subseteq T, NEW q \in Parsers(R)
    PROVE  q \in Parsers(T)
<1>1. \A s \in Seq(R) : s \in Seq(T)
  BY WiderSequences
<1>2. Seq(R) \X Seq(R) \subseteq Seq(T) \X Seq(T)
  BY <1>1
<1>3. Seq(Seq(R) \X Seq(R)) \subseteq Seq(Seq(T) \X Seq(T))
  <2> DEFINE A == Seq(R) \X Seq(R)
             B == Seq(T) \X Seq(T)
  <2>1. A \subseteq B
    BY <1>2
  <2> HIDE DEF A, B
  <2>2. \A s \in Seq(A) : s \in Seq(B)
    BY <2>1, WiderSequences
  <2> QED BY <2>2 DEF A, B
<1>4. Requests(R) \subseteq Requests(T)
  BY <1>1, <1>3 DEF Requests
<1>5. Seq(Requests(R)) \subseteq Seq(Requests(T))
  <2> DEFINE A == Requests(R)
             B == Requests(T)
  <2>1. A \subseteq B
    BY <1>4
  <2> HIDE DEF A, B
  <2>2. \A s \in Seq(A) : s \in Seq(B)
    BY <2>1, WiderSequences
  <2> QED BY <2>2 DEF A, B
<1> QED BY <1>1, <1>3, <1>5 DEF Parsers, ParserRecords

\* A step makes a parser over the bytes received so far and the next one.
LEMMA StepTo ==
    ASSUME ParserInv, NEW state, In(state), NEW q, Becomes(q),
           p \in Parsers(Received') /\ Byte \in Received' => q \in Parsers(Received') /\ Sound(q)
    PROVE  ParserInv'
<1>1. read \in Nat /\ read < Len(Bytes(stream)) /\ p \in Parsers(Received)
  BY DEF ParserInv, In
<1>2. Received \subseteq Received' /\ Byte \in Received' /\ read' \in Nat
  BY <1>1, MoreBytes
<1>3. p \in Parsers(Received')
  BY <1>1, <1>2, WiderParsers
<1>4. p' = q /\ q \in Parsers(Received') /\ Sound(q)
  BY <1>2, <1>3 DEF Becomes
<1>5. Sound(p)'
  BY <1>4 DEF Sound, Fresh, BodySoFar
<1> QED BY <1>2, <1>4, <1>5 DEF ParserInv

LEMMA Rejected ==
    ASSUME ParserInv, NEW state, In(state), NEW rc \in Nat, Reject(rc)
    PROVE  ParserInv'
<1> DEFINE q == [p EXCEPT !.rc = rc]
<1>1. ASSUME p \in Parsers(Received') PROVE q \in Parsers(Received') /\ Sound(q)
  <2>1. q \in Parsers(Received')
    BY <1>1 DEF Parsers, ParserRecords
  <2>2. /\ q.methodLength = p.methodLength /\ q.method = p.method /\ q.state = p.state
        /\ q.headers = p.headers /\ q.length = p.length /\ q.isChunked = p.isChunked
        /\ q.isWebSocket = p.isWebSocket /\ q.keepAlive = p.keepAlive /\ q.uri = p.uri
        /\ q.remaining = p.remaining /\ q.content = p.content
    BY <1>1 DEF Parsers, ParserRecords
  <2>3. Sound(q)
    <3> HIDE DEF q
    <3> QED BY <2>2 DEF ParserInv, Sound, Fresh, BodySoFar
  <2> QED BY <2>1, <2>3
<1>2. Becomes(q)
  BY DEF Reject
<1> HIDE DEF q
<1> QED BY <1>1, <1>2, StepTo

\* The byte is skipped.
LEMMA Skipped ==
    ASSUME ParserInv, NEW state, In(state), Becomes(p)
    PROVE  ParserInv'
<1>1. Sound(p)
  BY DEF ParserInv
<1> QED BY <1>1, StepTo

\* The state changes, nothing else.
LEMMA Moved ==
    ASSUME ParserInv, NEW s \in States, In(s),
           NEW t \in States \ {"READING_FIXED_BODY", "READING_CHUNK_DATA"},
           Becomes([p EXCEPT !.state = t]),
           t \in InRequestLine => s \in InRequestLine,
           t \in {"REQUEST_METHOD", "REQUEST_GAP1"} => s \in {"REQUEST_METHOD", "REQUEST_GAP1"},
           t \in BetweenChunks =>
               s \in BetweenChunks \/ (s = "READING_CHUNK_DATA" /\ p.remaining <= 0)
    PROVE  ParserInv'
<1> DEFINE q == [p EXCEPT !.state = t]
<1>1. ASSUME p \in Parsers(Received') PROVE q \in Parsers(Received') /\ Sound(q)
  <2>1. q \in Parsers(Received')
    BY <1>1 DEF Parsers, ParserRecords
  <2>2. /\ q.methodLength = p.methodLength /\ q.method = p.method /\ q.state = t
        /\ q.headers = p.headers /\ q.length = p.length /\ q.isChunked = p.isChunked
        /\ q.isWebSocket = p.isWebSocket /\ q.keepAlive = p.keepAlive /\ q.uri = p.uri
        /\ q.remaining = p.remaining /\ q.content = p.content
    BY <1>1 DEF Parsers, ParserRecords
  <2>3. p.state = s /\ Sound(p) /\ p.remaining \in Int /\ p.length \in Int
    BY <1>1, Fields DEF ParserInv, In
  <2>4. q.state \in InRequestLine => Fresh(q)
    <3> HIDE DEF q
    <3> QED BY <2>2, <2>3 DEF Sound, Fresh
  <2>5. BodySoFar(q)
    <3>1. ASSUME t \in BetweenChunks PROVE Len(p.content) = p.length
      <4>1. CASE s \in BetweenChunks
        BY <2>3, <4>1 DEF Sound, BodySoFar
      <4>2. CASE s = "READING_CHUNK_DATA" /\ p.remaining <= 0
        <5>1. p.remaining = 0 /\ Len(p.content) = p.length - p.remaining
          BY <2>3, <4>2 DEF Sound, BodySoFar
        <5> QED BY <2>3, <5>1
      <4> QED BY <3>1, <4>1, <4>2
    <3> HIDE DEF q
    <3> QED BY <2>2, <3>1 DEF BodySoFar
  <2>6. q.methodLength <= Len(q.method)
    BY <2>2, <2>3 DEF Sound
  <2> QED BY <2>1, <2>4, <2>5, <2>6 DEF Sound
<1> HIDE DEF q
<1> QED BY <1>1, StepTo DEF q

\* The program ends, or what it does is undefined.
LEMMA Ended ==
    ASSUME ParserInv, NEW s \in States, In(s),
           NEW t \in {"OVERRUN", "OVERFLOW", "NO_STORAGE"}, Ends(t)
    PROVE  ParserInv'
BY Moved DEF Ends, States, InRequestLine, BetweenChunks

\* The version is counted, in a state of the request line.
LEMMA VersionStored ==
    ASSUME ParserInv, NEW s \in {"REQUEST_GAP2", "REQUEST_VERSION"}, In(s), NEW n,
           Becomes([p EXCEPT !.versionLength = n, !.state = "REQUEST_VERSION"]),
           p.versionLength \in Nat => n \in Nat
    PROVE  ParserInv'
<1> DEFINE q == [p EXCEPT !.versionLength = n, !.state = "REQUEST_VERSION"]
<1>1. ASSUME p \in Parsers(Received')
      PROVE  q \in Parsers(Received') /\ Sound(q)
  <2>1. n \in Nat
    BY <1>1 DEF Parsers, ParserRecords
  <2>2. q \in Parsers(Received')
    BY <1>1, <2>1 DEF Parsers, ParserRecords, States, InRequestLine
  <2>3. /\ q.methodLength = p.methodLength /\ q.method = p.method /\ q.state = "REQUEST_VERSION"
        /\ q.headers = p.headers /\ q.length = p.length /\ q.isChunked = p.isChunked
        /\ q.isWebSocket = p.isWebSocket /\ q.keepAlive = p.keepAlive
    BY <1>1 DEF Parsers, ParserRecords
  <2>4. p.state \in InRequestLine /\ Sound(p)
    BY DEF ParserInv, In, InRequestLine
  <2> HIDE DEF q
  <2>5. Fresh(q) /\ BodySoFar(q)
    BY <2>3, <2>4 DEF Sound, Fresh, BodySoFar, BetweenChunks
  <2> QED BY <2>2, <2>3, <2>4, <2>5 DEF Sound
<1> HIDE DEF q
<1> QED BY <1>1, StepTo DEF q

\* In the headers nothing of Sound depends on what is stored.
LEMMA InHeadersSound ==
    ASSUME NEW q, q.state \in InHeaders, q.methodLength <= Len(q.method)
    PROVE  Sound(q)
BY DEF Sound, BodySoFar, InHeaders, InRequestLine, BetweenChunks

-----------------------------------------------------------------------------
(* The request line. *)

LEMMA StepRequestMethod == ASSUME ParserInv, RequestMethod PROVE ParserInv'
<1>0. In("REQUEST_METHOD") /\ "REQUEST_METHOD" \in States
  BY DEF RequestMethod, States, InRequestLine
<1>1. CASE Becomes([p EXCEPT !.state = "REQUEST_GAP1"])
  BY <1>0, <1>1, Moved DEF States, InRequestLine, BetweenChunks
<1>2. CASE Becomes([p EXCEPT !.method = Put(@, p.methodLength, Byte), !.methodLength = @ + 1])
  <2> DEFINE q == [p EXCEPT !.method = Put(@, p.methodLength, Byte), !.methodLength = @ + 1]
  <2>1. ASSUME p \in Parsers(Received'), Byte \in Received'
        PROVE  q \in Parsers(Received') /\ Sound(q)
    <3>1. p.method \in Seq(Received') /\ p.methodLength \in Nat
      BY <2>1 DEF Parsers, ParserRecords
    <3>2. p.methodLength \in 0..Len(p.method) /\ p.state = "REQUEST_METHOD" /\ Sound(p)
      BY <1>0, <3>1 DEF ParserInv, Sound, In
    <3> DEFINE m == Put(p.method, p.methodLength, Byte)
    <3>3. m \in Seq(Received') /\ Len(m) = IF p.methodLength < Len(p.method) THEN Len(p.method)
                                           ELSE Len(p.method) + 1
      BY <2>1, <3>1, <3>2, PutWithin
    <3>4. q = [p EXCEPT !.method = m, !.methodLength = @ + 1]
      OBVIOUS
    <3> HIDE DEF m, q
    <3>5. q \in Parsers(Received')
      <4> DEFINE R == Received'
                 l == p.methodLength + 1
      <4>1. m \in Seq(R) /\ p \in Parsers(R) /\ l \in Nat
        BY <2>1, <3>1, <3>3
      <4>2. q = [p EXCEPT !.method = m, !.methodLength = l]
        BY <3>4
      <4> HIDE DEF R, l
      <4>3. q \in Parsers(R)
        BY <4>1, <4>2 DEF Parsers, ParserRecords
      <4> QED BY <4>3 DEF R
    <3>6. /\ q.methodLength = p.methodLength + 1 /\ q.method = m /\ q.state = p.state
          /\ q.headers = p.headers /\ q.length = p.length /\ q.isChunked = p.isChunked
          /\ q.isWebSocket = p.isWebSocket /\ q.keepAlive = p.keepAlive /\ q.uri = p.uri
      BY <2>1, <3>4 DEF Parsers, ParserRecords
    <3>7. q.methodLength <= Len(q.method)
      BY <3>1, <3>2, <3>3, <3>6
    <3>8. Fresh(q)
      BY <3>2, <3>6 DEF Sound, Fresh, InRequestLine
    <3>9. BodySoFar(q)
      BY <3>2, <3>6 DEF BodySoFar, BetweenChunks
    <3> QED BY <3>5, <3>7, <3>8, <3>9 DEF Sound
  <2> HIDE DEF q
  <2> QED BY <1>0, <1>2, <2>1, StepTo DEF q
<1>3. CASE Reject(405) \/ Reject(400)
  BY <1>0, <1>3, Rejected
<1> QED BY <1>1, <1>2, <1>3 DEF RequestMethod

\* The URI is put together.
LEMMA UriStored ==
    ASSUME ParserInv, NEW s \in {"REQUEST_GAP1", "REQUEST_URI"}, In(s), NEW u,
           Becomes([p EXCEPT !.uri = u, !.state = "REQUEST_URI"]),
           p \in Parsers(Received') /\ Byte \in Received' => u \in Seq(Received')
    PROVE  ParserInv'
<1> DEFINE q == [p EXCEPT !.uri = u, !.state = "REQUEST_URI"]
<1>1. ASSUME p \in Parsers(Received'), Byte \in Received'
      PROVE  q \in Parsers(Received') /\ Sound(q)
  <2>1. u \in Seq(Received')
    BY <1>1
  <2>2. q \in Parsers(Received')
    BY <1>1, <2>1 DEF Parsers, ParserRecords, States, InRequestLine
  <2>3. /\ q.methodLength = p.methodLength /\ q.method = p.method /\ q.state = "REQUEST_URI"
        /\ q.headers = p.headers /\ q.length = p.length /\ q.isChunked = p.isChunked
        /\ q.isWebSocket = p.isWebSocket /\ q.keepAlive = p.keepAlive
    BY <1>1 DEF Parsers, ParserRecords
  <2>4. p.state \in InRequestLine /\ Sound(p)
    BY DEF ParserInv, In, InRequestLine
  <2> HIDE DEF q
  <2>5. Fresh(q) /\ BodySoFar(q)
    BY <2>3, <2>4 DEF Sound, Fresh, BodySoFar, BetweenChunks
  <2> QED BY <2>2, <2>3, <2>4, <2>5 DEF Sound
<1> HIDE DEF q
<1> QED BY <1>1, StepTo DEF q

LEMMA StepRequestLine ==
    ASSUME ParserInv, RequestGap1 \/ RequestUri \/ RequestGap2 \/ RequestVersion
    PROVE  ParserInv'
<1>1. CASE RequestGap1
  <2>0. In("REQUEST_GAP1")
    BY <1>1 DEF RequestGap1
  <2>1. CASE Becomes(p)
    BY <2>0, <2>1, Skipped
  <2>2. CASE Becomes([p EXCEPT !.uri = <<Byte>>, !.state = "REQUEST_URI"])
    <3> DEFINE u == <<Byte>>
    <3>1. Byte \in Received' => u \in Seq(Received')
      OBVIOUS
    <3>2. Becomes([p EXCEPT !.uri = u, !.state = "REQUEST_URI"])
      BY <2>2
    <3> HIDE DEF u
    <3> QED BY <2>0, <3>1, <3>2, UriStored
  <2> QED BY <1>1, <2>1, <2>2 DEF RequestGap1
<1>2. CASE RequestUri
  <2>0. In("REQUEST_URI") /\ "REQUEST_URI" \in States
    BY <1>2 DEF RequestUri, States, InRequestLine
  <2>1. CASE Reject(400)
    BY <2>0, <2>1, Rejected
  <2>2. CASE Becomes([p EXCEPT !.state = "REQUEST_GAP2"])
    BY <2>0, <2>2, Moved DEF States, InRequestLine, BetweenChunks
  <2>3. CASE Becomes([p EXCEPT !.uri = Append(@, Byte)])
    <3> DEFINE u == Append(p.uri, Byte)
    <3>1. p \in Parsers(Received') /\ Byte \in Received' => u \in Seq(Received')
      BY DEF Parsers, ParserRecords
    <3>2. [p EXCEPT !.uri = Append(@, Byte)] = [p EXCEPT !.uri = u, !.state = "REQUEST_URI"]
      <4>1. p.state = "REQUEST_URI" /\ p \in Parsers(Received)
        BY <2>0 DEF In, ParserInv
      <4>2. [p EXCEPT !.uri = u] = [p EXCEPT !.uri = u, !.state = "REQUEST_URI"]
        <5> HIDE DEF u
        <5> QED BY <4>1 DEF Parsers, ParserRecords
      <4> QED BY <4>2
    <3> HIDE DEF u
    <3> QED BY <2>0, <2>3, <3>1, <3>2, UriStored
  <2>4. CASE Ends("OVERRUN")
    BY <2>0, <2>4, Ended
  <2> QED BY <1>2, <2>1, <2>2, <2>3, <2>4 DEF RequestUri
<1>3. CASE RequestGap2
  <2>0. In("REQUEST_GAP2") /\ "REQUEST_GAP2" \in States
    BY <1>3 DEF RequestGap2, States, InRequestLine
  <2>1. CASE Reject(400)
    BY <2>0, <2>1, Rejected
  <2>2. CASE Becomes(p)
    BY <2>0, <2>2, Skipped
  <2>3. CASE Becomes([p EXCEPT !.versionLength = 1, !.state = "REQUEST_VERSION"])
    <3>1. 1 \in Nat
      OBVIOUS
    <3> QED BY <2>0, <2>3, <3>1, VersionStored
  <2> QED BY <1>3, <2>1, <2>2, <2>3 DEF RequestGap2
<1>4. CASE RequestVersion
  <2>0. In("REQUEST_VERSION") /\ "REQUEST_VERSION" \in States
    BY <1>4 DEF RequestVersion, States, InRequestLine
  <2>1. CASE Reject(400)
    BY <2>0, <2>1, Rejected
  <2>2. CASE Becomes([p EXCEPT !.versionLength = @ + 1])
    <3> DEFINE n == p.versionLength + 1
    <3>1. [p EXCEPT !.versionLength = @ + 1] = [p EXCEPT !.versionLength = n, !.state = "REQUEST_VERSION"]
      <4>1. p.state = "REQUEST_VERSION" /\ p \in Parsers(Received)
        BY <2>0 DEF In, ParserInv
      <4>2. [p EXCEPT !.versionLength = n] = [p EXCEPT !.versionLength = n, !.state = "REQUEST_VERSION"]
        <5> HIDE DEF n
        <5> QED BY <4>1 DEF Parsers, ParserRecords
      <4> QED BY <4>2
    <3>2. p.versionLength \in Nat => n \in Nat
      OBVIOUS
    <3> HIDE DEF n
    <3> QED BY <2>0, <2>2, <3>1, <3>2, VersionStored
  <2>3. CASE Becomes([p EXCEPT !.state = "REQUEST_CR_SEEN"])
    BY <2>0, <2>3, Moved DEF States, InRequestLine, BetweenChunks
  <2>4. CASE Ends("OVERRUN")
    BY <2>0, <2>4, Ended
  <2> QED BY <1>4, <2>1, <2>2, <2>3, <2>4 DEF RequestVersion
<1> QED BY <1>1, <1>2, <1>3, <1>4

-----------------------------------------------------------------------------
(* The headers. *)

LEMMA WithinHeaders ==
    ASSUME ParserInv, NEW s, In(s), NEW q, Becomes(q),
           p \in Parsers(Received') /\ Byte \in Received' =>
              /\ q \in Parsers(Received')
              /\ q.state \in InHeaders /\ q.method = p.method /\ q.methodLength = p.methodLength
    PROVE  ParserInv'
<1>1. p.methodLength <= Len(p.method)
  BY DEF ParserInv, Sound
<1>2. ASSUME p \in Parsers(Received'), Byte \in Received'
      PROVE  q \in Parsers(Received') /\ Sound(q)
  BY <1>1, <1>2, InHeadersSound
<1> QED BY <1>2, StepTo

\* The fields of the header being read change, and the state.
LEMMA HeaderStored ==
    ASSUME ParserInv, NEW s, In(s), NEW t \in InHeaders, NEW n, NEW v,
           Becomes([p EXCEPT !.name = n, !.value = v, !.state = t]),
           p \in Parsers(Received') /\ Byte \in Received' =>
              n \in Seq(Received') /\ v \in Seq(Received')
    PROVE  ParserInv'
<1> DEFINE q == [p EXCEPT !.name = n, !.value = v, !.state = t]
<1>1. ASSUME p \in Parsers(Received'), Byte \in Received'
      PROVE  /\ q \in Parsers(Received')
             /\ q.state \in InHeaders /\ q.method = p.method /\ q.methodLength = p.methodLength
  <2> DEFINE R == Received'
  <2>1. n \in Seq(R) /\ v \in Seq(R) /\ p \in Parsers(R) /\ t \in States
    BY <1>1 DEF States
  <2> HIDE DEF R
  <2>2. q \in Parsers(R) /\ q.state = t /\ q.method = p.method /\ q.methodLength = p.methodLength
    BY <2>1 DEF Parsers, ParserRecords
  <2> QED BY <2>2 DEF R
<1> HIDE DEF q
<1> QED BY <1>1, WithinHeaders DEF q

LEMMA SameFields ==
    ASSUME ParserInv
    PROVE  /\ \A n, t : [p EXCEPT !.name = n, !.state = t]
                        = [p EXCEPT !.name = n, !.value = p.value, !.state = t]
           /\ \A v, t : [p EXCEPT !.value = v, !.state = t]
                        = [p EXCEPT !.name = p.name, !.value = v, !.state = t]
           /\ \A t : [p EXCEPT !.state = t]
                     = [p EXCEPT !.name = p.name, !.value = p.value, !.state = t]
           /\ \A n : [p EXCEPT !.name = n]
                     = [p EXCEPT !.name = n, !.value = p.value, !.state = p.state]
           /\ \A v : [p EXCEPT !.value = v]
                     = [p EXCEPT !.name = p.name, !.value = v, !.state = p.state]
<1> DEFINE R == Received
<1>1. p \in Parsers(R)
  BY DEF ParserInv
<1> HIDE DEF R
<1> QED BY <1>1 DEF Parsers, ParserRecords

LEMMA StepHeaderName == ASSUME ParserInv, RequestCRSeen \/ HeaderFieldName PROVE ParserInv'
<1>1. CASE RequestCRSeen
  <2>0. In("REQUEST_CR_SEEN")
    BY <1>1 DEF RequestCRSeen
  <2>1. CASE Reject(400)
    BY <2>0, <2>1, Rejected
  <2>2. CASE Becomes([p EXCEPT !.name = <<>>, !.state = "HEADER_FIELD_NAME"])
    <3> DEFINE n == <<>>
    <3>1. Becomes([p EXCEPT !.name = n, !.value = p.value, !.state = "HEADER_FIELD_NAME"])
      BY <2>2, SameFields
    <3>2. p \in Parsers(Received') => n \in Seq(Received') /\ p.value \in Seq(Received')
      BY DEF Parsers, ParserRecords
    <3> HIDE DEF n
    <3> QED BY <2>0, <3>1, <3>2, HeaderStored DEF InHeaders
  <2> QED BY <1>1, <2>1, <2>2 DEF RequestCRSeen
<1>2. CASE HeaderFieldName
  <2>0. In("HEADER_FIELD_NAME") /\ p.state = "HEADER_FIELD_NAME" /\ "HEADER_FIELD_NAME" \in InHeaders
    BY <1>2 DEF HeaderFieldName, In, InHeaders
  <2>1. CASE Reject(400)
    BY <2>0, <2>1, Rejected
  <2>2. ASSUME NEW t \in {"END_CR_SEEN", "HEADER_GAP1"}, Becomes([p EXCEPT !.state = t])
        PROVE  ParserInv'
    <3>1. Becomes([p EXCEPT !.name = p.name, !.value = p.value, !.state = t])
      BY <2>2, SameFields
    <3>2. p \in Parsers(Received') => p.name \in Seq(Received') /\ p.value \in Seq(Received')
      BY DEF Parsers, ParserRecords
    <3> QED BY <2>0, <3>1, <3>2, HeaderStored DEF InHeaders
  <2>3. CASE Becomes([p EXCEPT !.name = Append(@, Byte)])
    <3> DEFINE n == Append(p.name, Byte)
    <3>1. Becomes([p EXCEPT !.name = n, !.value = p.value, !.state = p.state])
      BY <2>3, SameFields
    <3>2. p \in Parsers(Received') /\ Byte \in Received' =>
             n \in Seq(Received') /\ p.value \in Seq(Received')
      BY DEF Parsers, ParserRecords
    <3> HIDE DEF n
    <3> QED BY <2>0, <3>1, <3>2, HeaderStored
  <2>4. CASE Ends("OVERRUN")
    BY <2>0, <2>4, Ended DEF States
  <2> QED BY <1>2, <2>1, <2>2, <2>3, <2>4 DEF HeaderFieldName
<1> QED BY <1>1, <1>2

LEMMA AddedHeader ==
    ASSUME NEW R, NEW q \in Parsers(R)
    PROVE  LET r == AddRequestHeader(q)
           IN  /\ r \in Parsers(R)
               /\ r.state = q.state /\ r.method = q.method /\ r.methodLength = q.methodLength
<1>1. q.name \in Seq(R) /\ q.value \in Seq(R)
  BY DEF Parsers, ParserRecords
<1>2. atoi(q.value) \in Nat
  BY <1>1, NumberType
<1> DEFINE h == Append(q.headers, <<q.name, q.value>>)
<1>3. h \in Seq(Seq(R) \X Seq(R))
  <2> DEFINE P == Seq(R) \X Seq(R)
             x == <<q.name, q.value>>
  <2>1. q.headers \in Seq(P) /\ x \in P
    BY <1>1 DEF Parsers, ParserRecords
  <2> HIDE DEF P, x
  <2>2. Append(q.headers, x) \in Seq(P)
    BY <2>1
  <2> QED BY <2>2 DEF P, x
<1>4. PICK c \in BOOLEAN, w \in BOOLEAN, k \in BOOLEAN, l \in Int :
         AddRequestHeader(q) = [q EXCEPT !.headers = h, !.isChunked = c, !.length = l,
                                         !.isWebSocket = w, !.keepAlive = k]
  <2> DEFINE Is(known) == IsPrefix(q.name, known)
             encoding == Is(<<"Transfer-", "Encoding">>)
             length == ~encoding /\ Is(<<"Content-", "Length">>)
             type == ~encoding /\ ~length /\ Is(<<"Content-", "Type">>)
             upgrade == Is(<<"Upgrade">>)
             connection == ~length /\ ~type /\ Is(<<"Connection">>)
             c == q.isChunked \/ (encoding /\ IsPrefix(q.value, <<"chunked">>))
             l == IF length THEN atoi(q.value) ELSE q.length
             w == q.isWebSocket \/ (upgrade /\ IsPrefix(q.value, <<"websocket">>))
             k == q.keepAlive \/ (connection /\ IsPrefix(q.value, <<"Keep-", "Alive">>))
  <2>1. AddRequestHeader(q) = [q EXCEPT !.headers = h, !.isChunked = c, !.length = l,
                                        !.isWebSocket = w, !.keepAlive = k]
    BY DEF AddRequestHeader
  <2>2. c \in BOOLEAN /\ w \in BOOLEAN /\ k \in BOOLEAN
    OBVIOUS
  <2>3. l \in Int
    <3>1. q.length \in Int
      BY DEF Parsers, ParserRecords
    <3> QED BY <1>2, <3>1
  <2> HIDE DEF c, l, w, k, h
  <2> QED BY <2>1, <2>2, <2>3
<1> DEFINE r == [q EXCEPT !.headers = h, !.isChunked = c, !.length = l,
                          !.isWebSocket = w, !.keepAlive = k]
<1>5. /\ r \in Parsers(R)
      /\ r.state = q.state /\ r.method = q.method /\ r.methodLength = q.methodLength
  <2> HIDE DEF h
  <2> QED BY <1>3 DEF Parsers, ParserRecords
<1> HIDE DEF r, h
<1> QED BY <1>4, <1>5 DEF r

LEMMA StepHeaderValue ==
    ASSUME ParserInv, HeaderGap1 \/ HeaderFieldContent \/ HeaderCRSeen
    PROVE  ParserInv'
<1>1. CASE HeaderGap1
  <2>0. In("HEADER_GAP1")
    BY <1>1 DEF HeaderGap1
  <2>1. CASE Becomes(p)
    BY <2>0, <2>1, Skipped
  <2>2. CASE Becomes([p EXCEPT !.state = "HEADER_CR_SEEN"])
    <3>1. Becomes([p EXCEPT !.name = p.name, !.value = p.value, !.state = "HEADER_CR_SEEN"])
      BY <2>2, SameFields
    <3>2. p \in Parsers(Received') => p.name \in Seq(Received') /\ p.value \in Seq(Received')
      BY DEF Parsers, ParserRecords
    <3> QED BY <2>0, <3>1, <3>2, HeaderStored DEF InHeaders
  <2>3. CASE Becomes([p EXCEPT !.value = <<Byte>>, !.state = "HEADER_FIELD_CONTENT"])
    <3> DEFINE v == <<Byte>>
    <3>1. Becomes([p EXCEPT !.name = p.name, !.value = v, !.state = "HEADER_FIELD_CONTENT"])
      BY <2>3, SameFields
    <3>2. p \in Parsers(Received') /\ Byte \in Received' =>
             p.name \in Seq(Received') /\ v \in Seq(Received')
      BY DEF Parsers, ParserRecords
    <3> HIDE DEF v
    <3> QED BY <2>0, <3>1, <3>2, HeaderStored DEF InHeaders
  <2>4. CASE Reject(400)
    BY <2>0, <2>4, Rejected
  <2> QED BY <1>1, <2>1, <2>2, <2>3, <2>4 DEF HeaderGap1
<1>2. CASE HeaderFieldContent
  <2>0. In("HEADER_FIELD_CONTENT") /\ p.state = "HEADER_FIELD_CONTENT"
        /\ "HEADER_FIELD_CONTENT" \in InHeaders
    BY <1>2 DEF HeaderFieldContent, In, InHeaders
  <2>1. CASE Becomes(AddRequestHeader([p EXCEPT !.state = "HEADER_CR_SEEN"]))
    <3> DEFINE q == [p EXCEPT !.state = "HEADER_CR_SEEN"]
               r == AddRequestHeader(q)
    <3>1. ASSUME p \in Parsers(Received')
          PROVE  /\ r \in Parsers(Received')
                 /\ r.state \in InHeaders /\ r.method = p.method /\ r.methodLength = p.methodLength
      <4> DEFINE R == Received'
      <4>1. p \in Parsers(R)
        BY <3>1
      <4> HIDE DEF R
      <4>2. q \in Parsers(R) /\ q.state = "HEADER_CR_SEEN" /\ q.method = p.method
            /\ q.methodLength = p.methodLength
        BY <4>1 DEF Parsers, ParserRecords, States, InHeaders
      <4> HIDE DEF q
      <4>3. r \in Parsers(R) /\ r.state = q.state /\ r.method = q.method
            /\ r.methodLength = q.methodLength
        BY <4>2, AddedHeader
      <4> QED BY <4>2, <4>3 DEF R, InHeaders
    <3>2. Becomes(r)
      BY <2>1
    <3> HIDE DEF r
    <3> QED BY <2>0, <3>1, <3>2, WithinHeaders
  <2>2. CASE Becomes([p EXCEPT !.value = Append(@, Byte)])
    <3> DEFINE v == Append(p.value, Byte)
    <3>1. Becomes([p EXCEPT !.name = p.name, !.value = v, !.state = p.state])
      BY <2>2, SameFields
    <3>2. p \in Parsers(Received') /\ Byte \in Received' =>
             p.name \in Seq(Received') /\ v \in Seq(Received')
      BY DEF Parsers, ParserRecords
    <3> HIDE DEF v
    <3> QED BY <2>0, <3>1, <3>2, HeaderStored
  <2>3. CASE Reject(400) \/ Reject(413)
    BY <2>0, <2>3, Rejected
  <2>4. CASE Ends("OVERFLOW") \/ Ends("NO_STORAGE")
    BY <2>0, <2>4, Ended DEF States
  <2> QED BY <1>2, <2>1, <2>2, <2>3, <2>4 DEF HeaderFieldContent
<1>3. CASE HeaderCRSeen
  <2>0. In("HEADER_CR_SEEN")
    BY <1>3 DEF HeaderCRSeen
  <2>1. CASE Becomes([p EXCEPT !.name = <<>>, !.value = <<>>, !.state = "HEADER_FIELD_NAME"])
    <3> DEFINE n == <<>>
    <3>1. Becomes([p EXCEPT !.name = n, !.value = n, !.state = "HEADER_FIELD_NAME"])
      BY <2>1
    <3>2. n \in Seq(Received')
      OBVIOUS
    <3> HIDE DEF n
    <3> QED BY <2>0, <3>1, <3>2, HeaderStored DEF InHeaders
  <2>2. CASE Reject(400)
    BY <2>0, <2>2, Rejected
  <2> QED BY <1>3, <2>1, <2>2 DEF HeaderCRSeen
<1> QED BY <1>1, <1>2, <1>3

-----------------------------------------------------------------------------
(* The end of a request. *)

LEMMA Enqueued ==
    ASSUME NEW R, NEW q \in Parsers(R), q.methodLength <= Len(q.method),
           q.length > 0 => q.length <= Len(q.content)
    PROVE  ResetAndEnqueue(q) \in Parsers(R) /\ Sound(ResetAndEnqueue(q))
<1>1. /\ q.method \in Seq(R) /\ q.methodLength \in Nat /\ q.length \in Int /\ q.content \in Seq(R)
      /\ q.queue \in Seq(Requests(R))
  BY DEF Parsers, ParserRecords
<1>2. SubSeq(q.method, 1, q.methodLength) \in Seq(R)
  BY <1>1, Beginning
<1> DEFINE c == IF q.length > 0 THEN SubSeq(q.content, 1, q.length) ELSE <<>>
<1>3. c \in Seq(R)
  <2>1. CASE q.length > 0
    <3>1. q.length \in Nat
      BY <1>1, <2>1
    <3> QED BY <1>1, <2>1, <3>1, Beginning
  <2>2. CASE ~(q.length > 0)
    BY <2>2
  <2> QED BY <2>1, <2>2
<1> DEFINE a == LastRequest(q)
<1>4. a \in Requests(R)
  <2> DEFINE m == SubSeq(q.method, 1, q.methodLength)
  <2>1. a = [method |-> m, uri |-> q.uri, headers |-> q.headers, isWebSocket |-> q.isWebSocket,
             keepAlive |-> q.keepAlive, content |-> c]
    BY DEF LastRequest
  <2>2. m \in Seq(R)
    BY <1>2
  <2> HIDE DEF m, c, a
  <2> QED BY <1>3, <2>1, <2>2 DEF Parsers, ParserRecords, Requests
<1> DEFINE t == Append(q.queue, a)
<1>5. t \in Seq(Requests(R))
  <2> DEFINE Q == Requests(R)
  <2>1. q.queue \in Seq(Q) /\ a \in Q
    BY <1>1, <1>4
  <2> HIDE DEF Q, a
  <2> QED BY <2>1 DEF Q
<1> DEFINE e == <<>>
           r == [q EXCEPT !.queue = t, !.headers = e, !.methodLength = 0,
                   !.uri = e, !.versionLength = 0, !.name = e, !.value = e, !.isChunked = FALSE,
                   !.isWebSocket = FALSE, !.length = -1, !.keepAlive = FALSE,
                   !.state = "REQUEST_METHOD"]
<1>6. ResetAndEnqueue(q) = r
  BY DEF ResetAndEnqueue
<1>7. e \in Seq(R) /\ e \in Seq(Seq(R) \X Seq(R))
  OBVIOUS
<1>8. "REQUEST_METHOD" \in States
  BY DEF States, InRequestLine
<1>9. r \in Parsers(R)
  <2> DEFINE S == Seq(R)
             H == Seq(Seq(R) \X Seq(R))
             Q == Seq(Requests(R))
  <2>1. /\ q \in ParserRecords(S, H, Q) /\ t \in Q /\ e \in H /\ e \in S
        /\ "REQUEST_METHOD" \in States /\ 0 \in Nat /\ -1 \in Int
    BY <1>5, <1>7, <1>8 DEF Parsers
  <2> HIDE DEF S, H, Q, t, e, a
  <2>2. r \in ParserRecords(S, H, Q)
    BY <2>1 DEF ParserRecords
  <2> QED BY <2>2 DEF Parsers, S, H, Q
<1>10. /\ r.methodLength = 0 /\ r.method = q.method /\ r.state = "REQUEST_METHOD"
       /\ r.headers = <<>> /\ r.length = -1 /\ r.isChunked = FALSE /\ r.isWebSocket = FALSE
       /\ r.keepAlive = FALSE /\ r.uri = <<>>
  <2> HIDE DEF t, a
  <2> QED BY DEF Parsers, ParserRecords
<1> HIDE DEF r
<1>11. 0 <= Len(q.method)
  BY <1>1
<1>12. Sound(r)
  BY <1>10, <1>11 DEF Sound, Fresh, BodySoFar, BetweenChunks
<1> QED BY <1>6, <1>9, <1>12

\* One more byte of the body, in its place.
LEMMA Stored ==
    ASSUME NEW R, NEW q \in Parsers(R), Byte \in R,
           q.remaining > 0, Len(q.content) = q.length - q.remaining
    PROVE  LET r == Store(q)
           IN  /\ r \in Parsers(R)
               /\ r.state = q.state /\ r.method = q.method /\ r.methodLength = q.methodLength
               /\ r.length = q.length /\ r.remaining = q.remaining - 1
               /\ Len(r.content) = r.length - r.remaining
<1>1. q.content \in Seq(R) /\ q.length \in Int /\ q.remaining \in Int
  BY DEF Parsers, ParserRecords
<1> DEFINE k == q.length - q.remaining
           c == Put(q.content, k, Byte)
           l == q.remaining - 1
           r == [q EXCEPT !.content = c, !.remaining = l]
<1>2. k \in 0..Len(q.content) /\ ~(k < Len(q.content))
  BY <1>1
<1>3. c \in Seq(R) /\ Len(c) = Len(q.content) + 1
  <2> HIDE DEF k
  <2> QED BY <1>1, <1>2, PutWithin
<1>4. l \in Int
  BY <1>1
<1>5. Store(q) = r
  BY DEF Store
<1>6. /\ r \in Parsers(R)
      /\ r.state = q.state /\ r.method = q.method /\ r.methodLength = q.methodLength
      /\ r.length = q.length /\ r.remaining = l /\ r.content = c
  <2> HIDE DEF c, l
  <2> QED BY <1>3, <1>4 DEF Parsers, ParserRecords
<1>7. Len(c) = q.length - l
  <2> HIDE DEF c
  <2> QED BY <1>1, <1>3
<1> HIDE DEF r, c
<1> QED BY <1>5, <1>6, <1>7

LEMMA WithinBody ==
    ASSUME ParserInv, NEW s, In(s), NEW q, Becomes(q),
           p \in Parsers(Received') /\ Byte \in Received' =>
              /\ q \in Parsers(Received') /\ BodySoFar(q)
              /\ q.state \in BetweenChunks \cup {"READING_FIXED_BODY", "READING_CHUNK_DATA"}
              /\ q.method = p.method /\ q.methodLength = p.methodLength
    PROVE  ParserInv'
<1>1. p.methodLength <= Len(p.method)
  BY DEF ParserInv, Sound
<1>2. ASSUME p \in Parsers(Received'), Byte \in Received'
      PROVE  q \in Parsers(Received') /\ Sound(q)
  BY <1>1, <1>2 DEF Sound, InRequestLine, BetweenChunks
<1> QED BY <1>2, StepTo

LEMMA Finished ==
    ASSUME ParserInv, NEW s \in States, In(s), Finish(p),
           p.length > 0 => p.length <= Len(p.content)
    PROVE  ParserInv'
<1>1. p.methodLength <= Len(p.method)
  BY DEF ParserInv, Sound
<1>2. p \in Parsers(Received') => ResetAndEnqueue(p) \in Parsers(Received') /\ Sound(ResetAndEnqueue(p))
  BY <1>1, Enqueued
<1>3. CASE Becomes(ResetAndEnqueue(p))
  BY <1>2, <1>3, StepTo
<1>4. CASE Ends("NO_STORAGE")
  BY <1>4, Ended
<1> QED BY <1>3, <1>4 DEF Finish

LEMMA StepEndCRSeen == ASSUME ParserInv, EndCRSeen PROVE ParserInv'
<1>0. In("END_CR_SEEN") /\ "END_CR_SEEN" \in States
  BY DEF EndCRSeen, States, InHeaders
<1>1. CASE Becomes([p EXCEPT !.state = "READING_CHUNK_SIZE", !.chunkSize = 0, !.length = 0, !.content = <<>>])
  <2> DEFINE e == <<>>
             q == [p EXCEPT !.state = "READING_CHUNK_SIZE", !.chunkSize = 0, !.length = 0, !.content = e]
  <2>1. ASSUME p \in Parsers(Received')
        PROVE  /\ q \in Parsers(Received')
               /\ q.state = "READING_CHUNK_SIZE" /\ q.content = <<>> /\ q.length = 0
               /\ q.method = p.method /\ q.methodLength = p.methodLength
    <3> DEFINE S == Seq(Received')
               H == Seq(Seq(Received') \X Seq(Received'))
               Q == Seq(Requests(Received'))
    <3>1. /\ p \in ParserRecords(S, H, Q) /\ e \in S
          /\ "READING_CHUNK_SIZE" \in States /\ 0 \in Nat /\ 0 \in Int
      BY <2>1 DEF Parsers, States, BetweenChunks
    <3> HIDE DEF S, H, Q, e
    <3>2. q \in ParserRecords(S, H, Q)
      BY <3>1 DEF ParserRecords
    <3>3. /\ q.state = "READING_CHUNK_SIZE" /\ q.content = e /\ q.length = 0
          /\ q.method = p.method /\ q.methodLength = p.methodLength
      BY <3>1 DEF ParserRecords
    <3> QED BY <3>2, <3>3 DEF Parsers, S, H, Q, e
  <2>2. Becomes(q)
    BY <1>1
  <2> HIDE DEF q
  <2> QED BY <1>0, <2>1, <2>2, WithinBody DEF BodySoFar, BetweenChunks
<1>2. CASE p.length <= 0 /\ Finish(p)
  <2>1. p.length \in Int
    BY Fields DEF ParserInv
  <2>2. ~(p.length > 0)
    BY <1>2, <2>1
  <2> QED BY <1>0, <1>2, <2>2, Finished
<1>3. CASE p.length > 0 /\ Becomes([p EXCEPT !.state = "READING_FIXED_BODY", !.content = <<>>, !.remaining = p.length])
  <2> DEFINE e == <<>>
             q == [p EXCEPT !.state = "READING_FIXED_BODY", !.content = e, !.remaining = p.length]
  <2>1. ASSUME p \in Parsers(Received')
        PROVE  /\ q \in Parsers(Received')
               /\ q.state = "READING_FIXED_BODY" /\ q.content = <<>> /\ q.length = p.length
               /\ q.remaining = p.length /\ p.length \in Int
               /\ q.method = p.method /\ q.methodLength = p.methodLength
    <3> DEFINE R == Received'
    <3>1. p \in Parsers(R) /\ e \in Seq(R) /\ "READING_FIXED_BODY" \in States
      BY <2>1 DEF States
    <3> HIDE DEF R, e
    <3>2. /\ q \in Parsers(R)
          /\ q.state = "READING_FIXED_BODY" /\ q.content = e /\ q.length = p.length
          /\ q.remaining = p.length /\ p.length \in Int
          /\ q.method = p.method /\ q.methodLength = p.methodLength
      BY <3>1 DEF Parsers, ParserRecords
    <3> QED BY <3>2 DEF R, e
  <2>2. Becomes(q)
    BY <1>3
  <2>3. ASSUME p \in Parsers(Received') PROVE BodySoFar(q)
    <3>1. Len(<<>>) = p.length - p.length
      BY <2>1, <2>3
    <3> HIDE DEF q
    <3> QED BY <1>3, <2>1, <2>3, <3>1 DEF BodySoFar, BetweenChunks
  <2> HIDE DEF q
  <2> QED BY <1>0, <2>1, <2>2, <2>3, WithinBody
<1>4. CASE Reject(400)
  BY <1>0, <1>4, Rejected
<1>5. CASE Ends("NO_STORAGE")
  BY <1>0, <1>5, Ended
<1> QED BY <1>1, <1>2, <1>3, <1>4, <1>5 DEF EndCRSeen

LEMMA StepReadingFixedBody == ASSUME ParserInv, ReadingFixedBody PROVE ParserInv'
<1>0. In("READING_FIXED_BODY") /\ p.state = "READING_FIXED_BODY" /\ "READING_FIXED_BODY" \in States
  BY DEF ReadingFixedBody, In, States
<1>1. p.remaining > 0 /\ Len(p.content) = p.length - p.remaining /\ p.methodLength <= Len(p.method)
  BY <1>0 DEF ParserInv, Sound, BodySoFar
<1> DEFINE r == Store(p)
<1>2. ASSUME p \in Parsers(Received'), Byte \in Received'
      PROVE  /\ r \in Parsers(Received')
             /\ r.state = p.state /\ r.method = p.method /\ r.methodLength = p.methodLength
             /\ r.length = p.length /\ r.remaining = p.remaining - 1
             /\ Len(r.content) = r.length - r.remaining
             /\ p.length \in Int /\ p.remaining \in Int
  <2>1. p.length \in Int /\ p.remaining \in Int
    BY <1>2 DEF Parsers, ParserRecords
  <2> QED BY <1>1, <1>2, <2>1, Stored
<1> HIDE DEF r
<1>3. CASE p.remaining <= 1 /\ Becomes(ResetAndEnqueue(r))
  <2>1. Becomes(ResetAndEnqueue(r))
    BY <1>3
  <2>2. ASSUME p \in Parsers(Received'), Byte \in Received'
        PROVE  ResetAndEnqueue(r) \in Parsers(Received') /\ Sound(ResetAndEnqueue(r))
    <3>1. r \in Parsers(Received') /\ r.methodLength <= Len(r.method)
      BY <1>1, <1>2, <2>2
    <3>2. Len(r.content) = r.length
      BY <1>1, <1>2, <1>3, <2>2
    <3>3. r.length > 0 => r.length <= Len(r.content)
      BY <1>2, <2>2, <3>2
    <3> QED BY <3>1, <3>3, Enqueued
  <2> QED BY <1>0, <2>1, <2>2, StepTo
<1>4. CASE p.remaining > 1 /\ Becomes(r)
  <2>1. Becomes(r)
    BY <1>4
  <2>2. ASSUME p \in Parsers(Received'), Byte \in Received'
        PROVE  BodySoFar(r)
    <3>1. r.remaining > 0
      BY <1>2, <1>4, <2>2
    <3> QED BY <1>0, <1>2, <2>2, <3>1 DEF BodySoFar, BetweenChunks
  <2> QED BY <1>0, <1>2, <2>1, <2>2, WithinBody
<1>5. CASE Ends("NO_STORAGE")
  BY <1>0, <1>5, Ended
<1> QED BY <1>3, <1>4, <1>5 DEF ReadingFixedBody, Finish, r

-----------------------------------------------------------------------------
(* A chunked body. *)

LEMMA StepReadingChunkSize == ASSUME ParserInv, ReadingChunkSize PROVE ParserInv'
<1>0. In("READING_CHUNK_SIZE") /\ "READING_CHUNK_SIZE" \in States /\ p.state = "READING_CHUNK_SIZE"
  BY DEF ReadingChunkSize, In, States, BetweenChunks
<1>1. CASE Hex /\ Becomes([p EXCEPT !.chunkSize = 16 * @ + Value(Byte)])
  <2> DEFINE n == 16 * p.chunkSize + Value(Byte)
             q == [p EXCEPT !.chunkSize = n]
  <2>1. Value(Byte) \in 0..3
    BY <1>1, Digit DEF Hex
  <2>2. ASSUME p \in Parsers(Received')
        PROVE  /\ q \in Parsers(Received')
               /\ q.state = p.state /\ q.method = p.method /\ q.methodLength = p.methodLength
               /\ q.length = p.length /\ q.content = p.content
    <3>1. n \in Nat
      <4>1. p.chunkSize \in Nat
        BY <2>2, Fields
      <4> QED BY <2>1, <4>1
    <3> HIDE DEF n
    <3> QED BY <2>2, <3>1 DEF Parsers, ParserRecords
  <2>3. Becomes(q)
    BY <1>1
  <2>4. Len(p.content) = p.length
    BY <1>0 DEF ParserInv, Sound, BodySoFar, BetweenChunks
  <2> HIDE DEF q
  <2> QED BY <1>0, <2>2, <2>3, <2>4, WithinBody DEF BodySoFar, BetweenChunks
<1>2. CASE Reject(400)
  BY <1>0, <1>2, Rejected
<1>3. ASSUME NEW t \in {"CHUNK_SIZE_CR_SEEN", "READING_CHUNK_EXTENSION"},
             Becomes([p EXCEPT !.state = t])
      PROVE  ParserInv'
  BY <1>0, <1>3, Moved DEF States, InRequestLine, BetweenChunks
<1> QED BY <1>1, <1>2, <1>3 DEF ReadingChunkSize

LEMMA StepChunkSizeCRSeen == ASSUME ParserInv, ChunkSizeCRSeen PROVE ParserInv'
<1>0. In("CHUNK_SIZE_CR_SEEN") /\ "CHUNK_SIZE_CR_SEEN" \in States /\ p.state = "CHUNK_SIZE_CR_SEEN"
  BY DEF ChunkSizeCRSeen, In, States, BetweenChunks
<1>1. CASE Becomes([p EXCEPT !.state = "READING_CHUNK_TRAILER"])
  BY <1>0, <1>1, Moved DEF States, InRequestLine, BetweenChunks
<1>2. CASE Becomes([p EXCEPT !.length = @ + p.chunkSize, !.remaining = p.chunkSize,
                             !.state = "READING_CHUNK_DATA"])
  <2> DEFINE l == p.length + p.chunkSize
             c == p.chunkSize
             q == [p EXCEPT !.length = l, !.remaining = c, !.state = "READING_CHUNK_DATA"]
  <2>1. Becomes(q)
    BY <1>2
  <2>2. Len(p.content) = p.length
    BY <1>0 DEF ParserInv, Sound, BodySoFar, BetweenChunks
  <2>3. ASSUME p \in Parsers(Received')
        PROVE  /\ q \in Parsers(Received') /\ BodySoFar(q) /\ q.state = "READING_CHUNK_DATA"
               /\ q.method = p.method /\ q.methodLength = p.methodLength
    <3>1. p.length \in Int /\ c \in Nat /\ l \in Int
      <4>1. p.length \in Int /\ c \in Nat
        BY <2>3, Fields
      <4> QED BY <4>1
    <3>2. c >= 0 /\ Len(p.content) = l - c
      BY <2>2, <3>1
    <3>3. "READING_CHUNK_DATA" \in States
      BY DEF States
    <3> HIDE DEF l, c
    <3>4. q \in Parsers(Received')
      <4> DEFINE S == Seq(Received')
                 H == Seq(Seq(Received') \X Seq(Received'))
                 Q == Seq(Requests(Received'))
      <4>1. p \in ParserRecords(S, H, Q) /\ c \in Int
        BY <2>3, <3>1 DEF Parsers
      <4> HIDE DEF S, H, Q
      <4>2. q \in ParserRecords(S, H, Q)
        BY <3>1, <3>3, <4>1 DEF ParserRecords
      <4> QED BY <4>2 DEF Parsers, S, H, Q
    <3>5. /\ q.state = "READING_CHUNK_DATA" /\ q.length = l /\ q.remaining = c
          /\ q.method = p.method /\ q.methodLength = p.methodLength /\ q.content = p.content
      BY <2>3 DEF Parsers, ParserRecords
    <3> HIDE DEF q
    <3> QED BY <3>2, <3>4, <3>5 DEF BodySoFar, BetweenChunks
  <2> HIDE DEF q
  <2> QED BY <1>0, <2>1, <2>3, WithinBody
<1>3. CASE Reject(400)
  BY <1>0, <1>3, Rejected
<1>4. CASE Reject(500)
  BY <1>0, <1>4, Rejected
<1>5. CASE Ends("NO_STORAGE") \/ Ends("OVERFLOW")
  BY <1>0, <1>5, Ended
<1> QED BY <1>1, <1>2, <1>3, <1>4, <1>5 DEF ChunkSizeCRSeen

LEMMA StepReadingChunkData == ASSUME ParserInv, ReadingChunkData PROVE ParserInv'
<1>0. In("READING_CHUNK_DATA") /\ "READING_CHUNK_DATA" \in States /\ p.state = "READING_CHUNK_DATA"
  BY DEF ReadingChunkData, In, States
<1>1. CASE p.remaining > 0 /\ Becomes(Store(p))
  <2> DEFINE r == Store(p)
  <2>1. Len(p.content) = p.length - p.remaining
    BY <1>0 DEF ParserInv, Sound, BodySoFar
  <2>2. ASSUME p \in Parsers(Received'), Byte \in Received'
        PROVE  /\ r \in Parsers(Received') /\ BodySoFar(r) /\ r.state = "READING_CHUNK_DATA"
               /\ r.method = p.method /\ r.methodLength = p.methodLength
    <3>1. p.remaining \in Int
      BY <2>2, Fields
    <3>2. /\ r \in Parsers(Received')
          /\ r.state = p.state /\ r.method = p.method /\ r.methodLength = p.methodLength
          /\ r.length = p.length /\ r.remaining = p.remaining - 1
          /\ Len(r.content) = r.length - r.remaining
      BY <1>1, <2>1, <2>2, Stored
    <3> HIDE DEF r
    <3>3. r.remaining >= 0
      BY <1>1, <3>1, <3>2
    <3> QED BY <1>0, <3>2, <3>3 DEF BodySoFar, BetweenChunks
  <2> HIDE DEF r
  <2> QED BY <1>0, <1>1, <2>2, WithinBody DEF r
<1>2. CASE p.remaining <= 0 /\ Becomes([p EXCEPT !.state = "CHUNK_DATA_CR_SEEN"])
  BY <1>0, <1>2, Moved DEF States, InRequestLine, BetweenChunks
<1>3. CASE Reject(400)
  BY <1>0, <1>3, Rejected
<1> QED BY <1>1, <1>2, <1>3 DEF ReadingChunkData

LEMMA StepChunkDataCRSeen == ASSUME ParserInv, ChunkDataCRSeen PROVE ParserInv'
<1>0. In("CHUNK_DATA_CR_SEEN") /\ p.state = "CHUNK_DATA_CR_SEEN"
  BY DEF ChunkDataCRSeen, In
<1>1. CASE Becomes([p EXCEPT !.chunkSize = 0, !.state = "READING_CHUNK_SIZE"])
  <2> DEFINE q == [p EXCEPT !.chunkSize = 0, !.state = "READING_CHUNK_SIZE"]
  <2>1. Becomes(q)
    BY <1>1
  <2>2. Len(p.content) = p.length
    BY <1>0 DEF ParserInv, Sound, BodySoFar, BetweenChunks
  <2>3. ASSUME p \in Parsers(Received')
        PROVE  /\ q \in Parsers(Received') /\ q.state = "READING_CHUNK_SIZE"
               /\ q.method = p.method /\ q.methodLength = p.methodLength
               /\ q.length = p.length /\ q.content = p.content
    <3>1. "READING_CHUNK_SIZE" \in States
      BY DEF States, BetweenChunks
    <3> QED BY <2>3, <3>1 DEF Parsers, ParserRecords
  <2> HIDE DEF q
  <2> QED BY <1>0, <2>1, <2>2, <2>3, WithinBody DEF BodySoFar, BetweenChunks
<1>2. CASE Reject(400)
  BY <1>0, <1>2, Rejected
<1> QED BY <1>1, <1>2 DEF ChunkDataCRSeen

LEMMA StepAroundChunks ==
    ASSUME ParserInv, ReadingChunkExtension \/ ReadingChunkTrailer \/ ChunkTrailerCRSeen
    PROVE  ParserInv'
<1>1. CASE ReadingChunkExtension
  <2>0. In("READING_CHUNK_EXTENSION") /\ "READING_CHUNK_EXTENSION" \in States
    BY <1>1 DEF ReadingChunkExtension, States, BetweenChunks
  <2>1. CASE Becomes(p)
    BY <2>0, <2>1, Skipped
  <2>2. CASE Becomes([p EXCEPT !.state = "CHUNK_SIZE_CR_SEEN"])
    BY <2>0, <2>2, Moved DEF States, InRequestLine, BetweenChunks
  <2> QED BY <1>1, <2>1, <2>2 DEF ReadingChunkExtension
<1>2. CASE ReadingChunkTrailer
  <2>0. In("READING_CHUNK_TRAILER") /\ "READING_CHUNK_TRAILER" \in States
    BY <1>2 DEF ReadingChunkTrailer, States, BetweenChunks
  <2>1. CASE Becomes([p EXCEPT !.state = "CHUNK_TRAILER_CR_SEEN"])
    BY <2>0, <2>1, Moved DEF States, InRequestLine, BetweenChunks
  <2>2. CASE Reject(400)
    BY <2>0, <2>2, Rejected
  <2> QED BY <1>2, <2>1, <2>2 DEF ReadingChunkTrailer
<1>3. CASE ChunkTrailerCRSeen
  <2>0. In("CHUNK_TRAILER_CR_SEEN") /\ p.state = "CHUNK_TRAILER_CR_SEEN"
        /\ "CHUNK_TRAILER_CR_SEEN" \in States
    BY <1>3 DEF ChunkTrailerCRSeen, In, States, BetweenChunks
  <2>1. CASE Finish(p)
    <3>1. Len(p.content) = p.length
      BY <2>0 DEF ParserInv, Sound, BodySoFar, BetweenChunks
    <3>2. p.length \in Int
      BY Fields DEF ParserInv
    <3>3. p.length > 0 => p.length <= Len(p.content)
      BY <3>1, <3>2
    <3> QED BY <2>0, <2>1, <3>3, Finished
  <2>2. CASE Reject(400)
    BY <2>0, <2>2, Rejected
  <2> QED BY <1>3, <2>1, <2>2 DEF ChunkTrailerCRSeen
<1> QED BY <1>1, <1>2, <1>3

-----------------------------------------------------------------------------
(* The arrays without a test: what is in them was read without a break, so   *)
(* that a stream in which nothing is that long without one is safe.          *)

Separators == {" ", "CR", "LF"}

\* Wherever one looks, there is a separator within that many bytes.
Spaced(room) ==
    \A i \in 0..(Len(Bytes(stream)) - room) :
        \E j \in 1..room : Bytes(stream)[i + j] \in Separators

Unbounded == {"REQUEST_URI", "REQUEST_VERSION", "HEADER_FIELD_NAME"}

\* How many of the bytes read last are in the array being filled; the first
\* byte of a URI may be a separator.
Token(q) ==
    IF q.rc # 0 \/ q.state \notin Unbounded THEN 0
    ELSE IF q.state = "REQUEST_URI" THEN Len(q.uri) - 1
    ELSE IF q.state = "REQUEST_VERSION" THEN q.versionLength
    ELSE Len(q.name)

RunInv ==
    /\ p.state # "OVERRUN"
    /\ Token(p) \in 0..read
    /\ \A k \in 1..Token(p) : Bytes(stream)[read + 1 - k] \notin Separators

LEMMA TokenRestarts ==
    ASSUME read \in Nat, NEW q, Becomes(q), Token(q) = 0, q.state # "OVERRUN"
    PROVE  RunInv'
<1>1. p' = q /\ read' \in Nat
  BY DEF Becomes
<1>2. Token(p)' = 0 /\ (p.state # "OVERRUN")'
  BY <1>1 DEF Token, Unbounded
<1>3. Token(p)' \in 0..read' /\ 1..Token(p)' = {}
  BY <1>1, <1>2
<1> QED BY <1>2, <1>3 DEF RunInv

LEMMA TokenGrows ==
    ASSUME read \in Nat, RunInv, NEW q, Becomes(q), Token(q) = Token(p) + 1,
           q.state # "OVERRUN", Byte \notin Separators
    PROVE  RunInv'
<1> DEFINE B == Bytes(stream)
<1>1. p' = q /\ read' = read + 1 /\ Bytes(stream)' = B /\ Token(p)' = Token(p) + 1
  BY DEF Becomes, Bytes, Token, Unbounded
<1>2. B[read + 1] \notin Separators
  BY DEF Byte
<1>3. Token(p) \in 0..read /\ \A k \in 1..Token(p) : B[read + 1 - k] \notin Separators
  BY DEF RunInv
<1> HIDE DEF B
<1>4. ASSUME NEW k \in 1..(Token(p) + 1) PROVE B[read' + 1 - k] \notin Separators
  <2>1. CASE k = 1
    <3>1. read' + 1 - k = read + 1
      BY <1>1, <2>1
    <3> QED BY <1>2, <3>1
  <2>2. CASE k # 1
    <3>1. k - 1 \in 1..Token(p) /\ read' + 1 - k = read + 1 - (k - 1)
      BY <1>1, <1>3, <2>2
    <3> QED BY <1>3, <3>1
  <2> QED BY <2>1, <2>2
<1>5. Token(p) + 1 \in 0..read'
  BY <1>1, <1>3
<1>6. q.state # "OVERRUN"
  OBVIOUS
<1> QED BY <1>1, <1>4, <1>5, <1>6 DEF RunInv, B

\* The array could not have been full.
LEMMA RoomLeft ==
    ASSUME read \in Nat, RunInv, read < Len(Bytes(stream)), Byte \notin Separators,
           NEW room \in Nat \ {0}, Spaced(room)
    PROVE  Token(p) + 1 < room
<1> DEFINE B == Bytes(stream)
<1>1. Token(p) \in 0..read /\ \A k \in 1..Token(p) : B[read + 1 - k] \notin Separators
  BY DEF RunInv
<1>2. B[read + 1] \notin Separators /\ Len(B) \in Nat
  BY DEF Byte
<1>3. \A i \in 0..(Len(B) - room) : \E j \in 1..room : B[i + j] \in Separators
  BY DEF Spaced
<1>4. read < Len(B)
  OBVIOUS
<1> HIDE DEF B
<1>5. ASSUME Token(p) + 1 >= room PROVE FALSE
  <2>1. read + 1 - room \in 0..(Len(B) - room)
    BY <1>1, <1>2, <1>4, <1>5
  <2>2. PICK j \in 1..room : B[read + 1 - room + j] \in Separators
    BY <1>3, <2>1
  <2>3. CASE j = room
    <3>1. read + 1 - room + j = read + 1
      BY <2>3
    <3> QED BY <1>2, <2>2, <3>1
  <2>4. CASE j # room
    <3>1. room - j \in 1..Token(p) /\ read + 1 - room + j = read + 1 - (room - j)
      BY <1>1, <1>5, <2>4
    <3> QED BY <1>1, <2>2, <3>1
  <2> QED BY <2>3, <2>4
<1> QED BY <1>1, <1>5

LEMMA NoToken ==
    ASSUME NEW q, q.rc # 0 \/ q.state \notin Unbounded
    PROVE  Token(q) = 0
BY DEF Token

\* A step to a state that fills no array, or a refusal.
LEMMA StepElsewhere ==
    ASSUME ParserInv, NEW s, In(s), NEW q, Becomes(q),
           q.rc # 0 \/ q.state \notin Unbounded, q.state # "OVERRUN"
    PROVE  RunInv'
BY TokenRestarts, NoToken DEF ParserInv

LEMMA RefusedElsewhere ==
    ASSUME ParserInv, RunInv, NEW s, In(s), NEW rc \in Nat \ {0}, Reject(rc)
    PROVE  RunInv'
<1> DEFINE q == [p EXCEPT !.rc = rc]
<1>1. q.rc = rc /\ q.state = p.state
  BY DEF ParserInv, Parsers, ParserRecords
<1>2. Becomes(q) /\ q.state # "OVERRUN" /\ q.rc # 0
  BY <1>1 DEF Reject, RunInv
<1> HIDE DEF q
<1> QED BY <1>2, StepElsewhere

LEMMA MovedElsewhere ==
    ASSUME ParserInv, NEW s, In(s), NEW t, Becomes([p EXCEPT !.state = t]),
           t \notin Unbounded \cup {"OVERRUN"}
    PROVE  RunInv'
<1> DEFINE q == [p EXCEPT !.state = t]
<1>1. q.state = t
  BY DEF ParserInv, Parsers, ParserRecords
<1> HIDE DEF q
<1>2. Becomes(q)
  BY DEF q
<1> QED BY <1>1, <1>2, StepElsewhere

LEMMA SkippedElsewhere ==
    ASSUME ParserInv, RunInv, NEW s, In(s), s \notin Unbounded, Becomes(p)
    PROVE  RunInv'
BY StepElsewhere DEF In, RunInv

LEMMA RunRequestLine ==
    ASSUME ParserInv, RunInv, NEW room \in Nat \ {0}, Spaced(room),
           UriRoom \in Nat, VersionRoom \in Nat, room <= UriRoom, room <= VersionRoom,
           RequestMethod \/ RequestGap1 \/ RequestUri \/ RequestGap2 \/ RequestVersion
    PROVE  RunInv'
<1>0. read \in Nat /\ p \in Parsers(Received)
  BY DEF ParserInv
<1>a. ASSUME NEW s, In(s) PROVE p.rc = 0 /\ p.state = s /\ read < Len(Bytes(stream))
  BY <1>a DEF In
<1>1. CASE RequestMethod
  <2>0. In("REQUEST_METHOD") /\ p.state = "REQUEST_METHOD"
    BY <1>1 DEF RequestMethod, In
  <2>1. CASE Becomes([p EXCEPT !.state = "REQUEST_GAP1"])
    BY <2>0, <2>1, MovedElsewhere DEF Unbounded
  <2>2. CASE Becomes([p EXCEPT !.method = Put(@, p.methodLength, Byte), !.methodLength = @ + 1])
    <3> DEFINE m == Put(p.method, p.methodLength, Byte)
               l == p.methodLength + 1
               q == [p EXCEPT !.method = m, !.methodLength = l]
    <3>1. q.state = p.state
      <4> HIDE DEF m, l
      <4> QED BY <1>0 DEF Parsers, ParserRecords
    <3>2. Becomes(q)
      BY <2>2
    <3> HIDE DEF q
    <3> QED BY <2>0, <3>1, <3>2, StepElsewhere DEF Unbounded
  <2>3. CASE Reject(405) \/ Reject(400)
    BY <2>0, <2>3, RefusedElsewhere
  <2> QED BY <1>1, <2>1, <2>2, <2>3 DEF RequestMethod
<1>2. CASE RequestGap1
  <2>0. In("REQUEST_GAP1") /\ p.state = "REQUEST_GAP1"
    BY <1>2 DEF RequestGap1, In
  <2>1. CASE Becomes(p)
    BY <2>0, <2>1, SkippedElsewhere DEF Unbounded
  <2>2. CASE Becomes([p EXCEPT !.uri = <<Byte>>, !.state = "REQUEST_URI"])
    <3> DEFINE u == <<Byte>>
               q == [p EXCEPT !.uri = u, !.state = "REQUEST_URI"]
    <3>1. q.state = "REQUEST_URI" /\ q.uri = u
      <4> HIDE DEF u
      <4> QED BY <1>0 DEF Parsers, ParserRecords
    <3>2. Becomes(q)
      BY <2>2
    <3>3. Len(u) = 1
      OBVIOUS
    <3> HIDE DEF q, u
    <3>4. Token(q) = 0
      BY <3>1, <3>3 DEF Token, Unbounded
    <3> QED BY <1>0, <3>1, <3>2, <3>4, TokenRestarts
  <2> QED BY <1>2, <2>1, <2>2 DEF RequestGap1
<1>3. CASE RequestUri
  <2>0. In("REQUEST_URI") /\ p.state = "REQUEST_URI" /\ p.rc = 0 /\ read < Len(Bytes(stream))
    BY <1>3 DEF RequestUri, In
  <2>1. CASE Reject(400)
    BY <2>0, <2>1, RefusedElsewhere
  <2>2. CASE Becomes([p EXCEPT !.state = "REQUEST_GAP2"])
    BY <2>0, <2>2, MovedElsewhere DEF Unbounded
  <2>3. Token(p) = Len(p.uri) - 1 /\ Len(p.uri) \in Nat
    BY <1>0, <2>0, Fields DEF Token, Unbounded
  <2>4. CASE Byte \notin {"CR", "LF", " "} /\ Becomes([p EXCEPT !.uri = Append(@, Byte)])
    <3> DEFINE u == Append(p.uri, Byte)
               q == [p EXCEPT !.uri = u]
    <3>1. q.state = p.state /\ q.rc = p.rc /\ q.uri = u
      <4> HIDE DEF u
      <4> QED BY <1>0 DEF Parsers, ParserRecords
    <3>2. Becomes(q)
      BY <2>4
    <3>3. Len(u) = Len(p.uri) + 1
      BY <1>0, Fields
    <3> HIDE DEF q, u
    <3>4. Token(q) = Token(p) + 1
      BY <2>0, <2>3, <3>1, <3>3 DEF Token, Unbounded
    <3> QED BY <1>0, <2>0, <2>4, <3>1, <3>2, <3>4, TokenGrows DEF Separators
  <2>5. CASE Byte \notin {"CR", "LF", " "} /\ Len(p.uri) >= UriRoom
    <3>1. Token(p) + 1 < room
      BY <1>0, <2>0, <2>5, RoomLeft DEF Separators
    <3> DEFINE n == Len(p.uri)
    <3>2. n \in Nat /\ n - 1 + 1 < room /\ n >= UriRoom
      BY <2>3, <2>5, <3>1
    <3> HIDE DEF n
    <3>3. FALSE
      BY <3>2
    <3> QED BY <3>3
  <2> QED BY <1>3, <2>1, <2>2, <2>4, <2>5 DEF RequestUri
<1>4. CASE RequestGap2
  <2>0. In("REQUEST_GAP2") /\ p.state = "REQUEST_GAP2" /\ p.rc = 0
    BY <1>4 DEF RequestGap2, In
  <2>1. CASE Reject(400)
    BY <2>0, <2>1, RefusedElsewhere
  <2>2. CASE Becomes(p)
    BY <2>0, <2>2, SkippedElsewhere DEF Unbounded
  <2>3. CASE /\ Byte \notin {"CR", "LF", " "}
             /\ Becomes([p EXCEPT !.versionLength = 1, !.state = "REQUEST_VERSION"])
    <3> DEFINE l == 1
               q == [p EXCEPT !.versionLength = l, !.state = "REQUEST_VERSION"]
    <3>1. q.state = "REQUEST_VERSION" /\ q.versionLength = l /\ q.rc = p.rc
      <4> HIDE DEF l
      <4> QED BY <1>0 DEF Parsers, ParserRecords
    <3>2. Becomes(q)
      BY <2>3
    <3>3. Token(p) = 0
      BY <2>0 DEF Token, Unbounded
    <3>4. Token(q) = Token(p) + 1
      <4> HIDE DEF q
      <4> QED BY <2>0, <3>1, <3>3 DEF Token, Unbounded
    <3> HIDE DEF q
    <3> QED BY <1>0, <2>3, <3>1, <3>2, <3>4, TokenGrows DEF Separators
  <2> QED BY <1>4, <2>1, <2>2, <2>3 DEF RequestGap2
<1>5. CASE RequestVersion
  <2>0. In("REQUEST_VERSION") /\ p.state = "REQUEST_VERSION" /\ p.rc = 0 /\ read < Len(Bytes(stream))
    BY <1>5 DEF RequestVersion, In
  <2>1. CASE Reject(400)
    BY <2>0, <2>1, RefusedElsewhere
  <2>2. CASE Becomes([p EXCEPT !.state = "REQUEST_CR_SEEN"])
    BY <2>0, <2>2, MovedElsewhere DEF Unbounded
  <2>3. Token(p) = p.versionLength /\ p.versionLength \in Nat
    BY <1>0, <2>0, Fields DEF Token, Unbounded
  <2>4. CASE Printable /\ Becomes([p EXCEPT !.versionLength = @ + 1])
    <3> DEFINE l == p.versionLength + 1
               q == [p EXCEPT !.versionLength = l]
    <3>1. q.state = p.state /\ q.rc = p.rc /\ q.versionLength = l
      <4> HIDE DEF l
      <4> QED BY <1>0 DEF Parsers, ParserRecords
    <3>2. Becomes(q)
      BY <2>4
    <3> HIDE DEF q
    <3>4. Token(q) = Token(p) + 1
      BY <2>0, <2>3, <3>1 DEF Token, Unbounded
    <3> QED BY <1>0, <2>0, <2>4, <3>1, <3>2, <3>4, TokenGrows DEF Separators, Printable
  <2>5. CASE Printable /\ p.versionLength >= VersionRoom
    <3>1. Token(p) + 1 < room
      BY <1>0, <2>0, <2>5, RoomLeft DEF Separators, Printable
    <3> QED BY <2>3, <2>5, <3>1
  <2> QED BY <1>5, <2>1, <2>2, <2>4, <2>5 DEF RequestVersion
<1> QED BY <1>1, <1>2, <1>3, <1>4, <1>5

LEMMA RunHeaderName ==
    ASSUME ParserInv, RunInv, NEW room \in Nat \ {0}, Spaced(room),
           NameRoom \in Nat, room <= NameRoom, HeaderFieldName
    PROVE  RunInv'
<1>0. /\ In("HEADER_FIELD_NAME") /\ p.state = "HEADER_FIELD_NAME" /\ p.rc = 0
      /\ read < Len(Bytes(stream)) /\ read \in Nat /\ p \in Parsers(Received)
  BY DEF HeaderFieldName, In, ParserInv
<1>1. CASE Reject(400)
  BY <1>0, <1>1, RefusedElsewhere
<1>2. CASE \E t \in {"END_CR_SEEN", "HEADER_GAP1"} : Becomes([p EXCEPT !.state = t])
  BY <1>0, <1>2, MovedElsewhere DEF Unbounded
<1>3. Token(p) = Len(p.name) /\ Len(p.name) \in Nat
  BY <1>0, Fields DEF Token, Unbounded
<1>4. CASE Printable /\ Becomes([p EXCEPT !.name = Append(@, Byte)])
  <2> DEFINE n == Append(p.name, Byte)
             q == [p EXCEPT !.name = n]
  <2>1. q.state = p.state /\ q.rc = p.rc /\ q.name = n
    <3> HIDE DEF n
    <3> QED BY <1>0 DEF Parsers, ParserRecords
  <2>2. Becomes(q)
    BY <1>4
  <2>3. Len(n) = Len(p.name) + 1
    BY <1>0, Fields
  <2> HIDE DEF q, n
  <2>4. Token(q) = Token(p) + 1
    BY <1>0, <1>3, <2>1, <2>3 DEF Token, Unbounded
  <2> QED BY <1>0, <1>4, <2>1, <2>2, <2>4, TokenGrows DEF Separators, Printable
<1>5. CASE Printable /\ Len(p.name) >= NameRoom
  <2>1. Token(p) + 1 < room
    BY <1>0, <1>5, RoomLeft DEF Separators, Printable
  <2> DEFINE n == Len(p.name)
  <2>2. n \in Nat /\ n + 1 < room /\ n >= NameRoom
    BY <1>3, <1>5, <2>1
  <2> HIDE DEF n
  <2>3. FALSE
    BY <2>2
  <2> QED BY <2>3
<1> QED BY <1>1, <1>2, <1>4, <1>5 DEF HeaderFieldName

LEMMA RunHeaders ==
    ASSUME ParserInv, RunInv,
           RequestCRSeen \/ HeaderGap1 \/ HeaderFieldContent \/ HeaderCRSeen
    PROVE  RunInv'
<1>0. p \in Parsers(Received) /\ read \in Nat
  BY DEF ParserInv
<1> DEFINE e == <<>>
<1>1. ASSUME NEW v, Becomes([p EXCEPT !.name = e, !.value = v, !.state = "HEADER_FIELD_NAME"])
      PROVE  RunInv'
  <2> DEFINE q == [p EXCEPT !.name = e, !.value = v, !.state = "HEADER_FIELD_NAME"]
  <2>1. q.state = "HEADER_FIELD_NAME" /\ q.name = e
    <3> HIDE DEF e
    <3> QED BY <1>0 DEF Parsers, ParserRecords
  <2>2. Becomes(q) /\ Len(e) = 0
    BY <1>1
  <2> HIDE DEF q, e
  <2>3. Token(q) = 0
    BY <2>1, <2>2 DEF Token, Unbounded
  <2> QED BY <1>0, <2>1, <2>2, <2>3, TokenRestarts
<1>2. CASE RequestCRSeen
  <2>0. In("REQUEST_CR_SEEN")
    BY <1>2 DEF RequestCRSeen
  <2>1. CASE Reject(400)
    BY <2>0, <2>1, RefusedElsewhere
  <2>2. CASE Becomes([p EXCEPT !.name = <<>>, !.state = "HEADER_FIELD_NAME"])
    <3>1. Becomes([p EXCEPT !.name = e, !.value = p.value, !.state = "HEADER_FIELD_NAME"])
      BY <2>2, SameFields
    <3> QED BY <1>1, <3>1
  <2> QED BY <1>2, <2>1, <2>2 DEF RequestCRSeen
<1>3. CASE HeaderCRSeen
  <2>0. In("HEADER_CR_SEEN")
    BY <1>3 DEF HeaderCRSeen
  <2>1. CASE Reject(400)
    BY <2>0, <2>1, RefusedElsewhere
  <2>2. CASE Becomes([p EXCEPT !.name = <<>>, !.value = <<>>, !.state = "HEADER_FIELD_NAME"])
    BY <1>1, <2>2
  <2> QED BY <1>3, <2>1, <2>2 DEF HeaderCRSeen
<1>4. ASSUME NEW s, In(s), NEW v, NEW t, t \notin Unbounded \cup {"OVERRUN"},
             Becomes([p EXCEPT !.value = v, !.state = t])
      PROVE  RunInv'
  <2> DEFINE q == [p EXCEPT !.value = v, !.state = t]
  <2>1. q.state = t
    BY <1>0 DEF Parsers, ParserRecords
  <2>2. Becomes(q)
    BY <1>4
  <2> HIDE DEF q
  <2> QED BY <1>4, <2>1, <2>2, StepElsewhere
<1>5. CASE HeaderGap1
  <2>0. In("HEADER_GAP1") /\ "HEADER_GAP1" \notin Unbounded
    BY <1>5 DEF HeaderGap1, Unbounded
  <2>1. CASE Becomes(p)
    BY <2>0, <2>1, SkippedElsewhere
  <2>2. CASE Becomes([p EXCEPT !.state = "HEADER_CR_SEEN"])
    BY <2>0, <2>2, MovedElsewhere DEF Unbounded
  <2>3. CASE Becomes([p EXCEPT !.value = <<Byte>>, !.state = "HEADER_FIELD_CONTENT"])
    BY <1>4, <2>0, <2>3 DEF Unbounded
  <2>4. CASE Reject(400)
    BY <2>0, <2>4, RefusedElsewhere
  <2> QED BY <1>5, <2>1, <2>2, <2>3, <2>4 DEF HeaderGap1
<1>6. CASE HeaderFieldContent
  <2>0. /\ In("HEADER_FIELD_CONTENT") /\ p.state = "HEADER_FIELD_CONTENT"
        /\ "HEADER_FIELD_CONTENT" \notin Unbounded
    BY <1>6 DEF HeaderFieldContent, In, Unbounded
  <2>1. CASE Becomes(AddRequestHeader([p EXCEPT !.state = "HEADER_CR_SEEN"]))
    <3> DEFINE q == [p EXCEPT !.state = "HEADER_CR_SEEN"]
               r == AddRequestHeader(q)
    <3>1. q \in Parsers(Received) /\ q.state = "HEADER_CR_SEEN"
      BY <1>0 DEF Parsers, ParserRecords, States, InHeaders
    <3> HIDE DEF q
    <3>2. r.state = "HEADER_CR_SEEN"
      BY <3>1, AddedHeader
    <3>3. Becomes(r)
      BY <2>1 DEF q
    <3> HIDE DEF r
    <3> QED BY <2>0, <3>2, <3>3, StepElsewhere DEF Unbounded
  <2>2. CASE Becomes([p EXCEPT !.value = Append(@, Byte)])
    <3> DEFINE v == Append(p.value, Byte)
               q == [p EXCEPT !.value = v]
    <3>1. q.state = p.state
      <4> HIDE DEF v
      <4> QED BY <1>0 DEF Parsers, ParserRecords
    <3>2. Becomes(q)
      BY <2>2
    <3> HIDE DEF q
    <3> QED BY <2>0, <3>1, <3>2, StepElsewhere DEF Unbounded
  <2>3. CASE Reject(400) \/ Reject(413)
    BY <2>0, <2>3, RefusedElsewhere
  <2>4. CASE Ends("OVERFLOW") \/ Ends("NO_STORAGE")
    BY <2>0, <2>4, MovedElsewhere DEF Ends, Unbounded
  <2> QED BY <1>6, <2>1, <2>2, <2>3, <2>4 DEF HeaderFieldContent
<1> QED BY <1>2, <1>3, <1>5, <1>6

LEMMA AfterRequest ==
    ASSUME NEW R, NEW q \in Parsers(R)
    PROVE  ResetAndEnqueue(q).state = "REQUEST_METHOD"
<1> DEFINE t == Append(q.queue, LastRequest(q))
           e == <<>>
<1>1. ResetAndEnqueue(q) =
         [q EXCEPT !.queue = t, !.headers = e, !.methodLength = 0,
                   !.uri = e, !.versionLength = 0, !.name = e, !.value = e, !.isChunked = FALSE,
                   !.isWebSocket = FALSE, !.length = -1, !.keepAlive = FALSE,
                   !.state = "REQUEST_METHOD"]
  BY DEF ResetAndEnqueue
<1> HIDE DEF t, e
<1> QED BY <1>1 DEF Parsers, ParserRecords

LEMMA FinishedElsewhere ==
    ASSUME ParserInv, NEW s, In(s), NEW R, NEW q \in Parsers(R), Finish(q)
    PROVE  RunInv'
<1>1. CASE Becomes(ResetAndEnqueue(q))
  BY <1>1, AfterRequest, StepElsewhere DEF Unbounded
<1>2. CASE Ends("NO_STORAGE")
  BY <1>2, MovedElsewhere DEF Ends, Unbounded
<1> QED BY <1>1, <1>2 DEF Finish

LEMMA RunBody ==
    ASSUME ParserInv, RunInv,
           EndCRSeen \/ ReadingFixedBody \/ ReadingChunkData
    PROVE  RunInv'
<1>0. p \in Parsers(Received) /\ read \in Nat
  BY DEF ParserInv
<1>2. Store(p).state = p.state
  <2> DEFINE c == Put(p.content, p.length - p.remaining, Byte)
             l == p.remaining - 1
  <2>1. Store(p) = [p EXCEPT !.content = c, !.remaining = l]
    BY DEF Store
  <2> HIDE DEF c, l
  <2> QED BY <1>0, <2>1 DEF Parsers, ParserRecords
<1>3. CASE EndCRSeen
  <2>0. In("END_CR_SEEN")
    BY <1>3 DEF EndCRSeen
  <2> DEFINE e == <<>>
  <2>1. CASE Becomes([p EXCEPT !.state = "READING_CHUNK_SIZE", !.chunkSize = 0, !.length = 0, !.content = <<>>])
    <3> DEFINE q == [p EXCEPT !.state = "READING_CHUNK_SIZE", !.chunkSize = 0, !.length = 0, !.content = e]
    <3>1. q.state = "READING_CHUNK_SIZE"
      <4> HIDE DEF e
      <4> QED BY <1>0 DEF Parsers, ParserRecords
    <3>2. Becomes(q)
      BY <2>1
    <3> HIDE DEF q
    <3> QED BY <2>0, <3>1, <3>2, StepElsewhere DEF Unbounded
  <2>2. CASE Finish(p)
    BY <1>0, <2>0, <2>2, FinishedElsewhere
  <2>3. CASE Becomes([p EXCEPT !.state = "READING_FIXED_BODY", !.content = <<>>, !.remaining = p.length])
    <3> DEFINE q == [p EXCEPT !.state = "READING_FIXED_BODY", !.content = e, !.remaining = p.length]
    <3>1. q.state = "READING_FIXED_BODY"
      <4> HIDE DEF e
      <4> QED BY <1>0 DEF Parsers, ParserRecords
    <3>2. Becomes(q)
      BY <2>3
    <3> HIDE DEF q
    <3> QED BY <2>0, <3>1, <3>2, StepElsewhere DEF Unbounded
  <2>4. CASE Ends("NO_STORAGE")
    BY <2>0, <2>4, MovedElsewhere DEF Ends, Unbounded
  <2>5. CASE Reject(400)
    BY <2>0, <2>5, RefusedElsewhere
  <2> QED BY <1>3, <2>1, <2>2, <2>3, <2>4, <2>5 DEF EndCRSeen
<1>4. CASE ReadingFixedBody
  <2>0. In("READING_FIXED_BODY") /\ p.state = "READING_FIXED_BODY"
    BY <1>4 DEF ReadingFixedBody, In
  <2>1. CASE Becomes(Store(p))
    BY <1>2, <2>0, <2>1, StepElsewhere DEF Unbounded
  <2>2. CASE p.remaining <= 1 /\ Becomes(ResetAndEnqueue(Store(p)))
    <3>1. p.remaining > 0 /\ Len(p.content) = p.length - p.remaining
      BY <2>0 DEF ParserInv, Sound, BodySoFar
    <3>3. Store(p) \in Parsers(Received')
      <4>1. p \in Parsers(Received') /\ Byte \in Received'
        <5>1. read < Len(Bytes(stream))
          BY <2>0 DEF In
        <5>2. Received \subseteq Received' /\ Byte \in Received'
          BY <1>0, <2>2, <5>1, MoreBytes
        <5> QED BY <1>0, <5>2, WiderParsers
      <4> QED BY <3>1, <4>1, Stored
    <3>4. ResetAndEnqueue(Store(p)).state = "REQUEST_METHOD"
      BY <3>3, AfterRequest
    <3> QED BY <2>0, <2>2, <3>4, StepElsewhere DEF Unbounded
  <2>3. CASE Ends("NO_STORAGE")
    BY <2>0, <2>3, MovedElsewhere DEF Ends, Unbounded
  <2> QED BY <1>4, <2>1, <2>2, <2>3 DEF ReadingFixedBody, Finish
<1>5. CASE ReadingChunkData
  <2>0. In("READING_CHUNK_DATA") /\ p.state = "READING_CHUNK_DATA"
    BY <1>5 DEF ReadingChunkData, In
  <2>1. CASE Becomes(Store(p))
    BY <1>2, <2>0, <2>1, StepElsewhere DEF Unbounded
  <2>2. CASE Becomes([p EXCEPT !.state = "CHUNK_DATA_CR_SEEN"])
    BY <2>0, <2>2, MovedElsewhere DEF Unbounded
  <2>3. CASE Reject(400)
    BY <2>0, <2>3, RefusedElsewhere
  <2> QED BY <1>5, <2>1, <2>2, <2>3 DEF ReadingChunkData
<1> QED BY <1>3, <1>4, <1>5

LEMMA RunChunks ==
    ASSUME ParserInv, RunInv,
           ReadingChunkSize \/ ReadingChunkExtension \/ ChunkSizeCRSeen \/ ChunkDataCRSeen
           \/ ReadingChunkTrailer \/ ChunkTrailerCRSeen
    PROVE  RunInv'
<1>0. p \in Parsers(Received)
  BY DEF ParserInv
<1>1. CASE ReadingChunkSize
  <2>0. In("READING_CHUNK_SIZE") /\ p.state = "READING_CHUNK_SIZE"
    BY <1>1 DEF ReadingChunkSize, In
  <2>1. CASE Becomes([p EXCEPT !.chunkSize = 16 * @ + Value(Byte)])
    <3> DEFINE n == 16 * p.chunkSize + Value(Byte)
               q == [p EXCEPT !.chunkSize = n]
    <3>1. q.state = p.state
      <4> HIDE DEF n
      <4> QED BY <1>0 DEF Parsers, ParserRecords
    <3>2. Becomes(q)
      BY <2>1
    <3> HIDE DEF q
    <3> QED BY <2>0, <3>1, <3>2, StepElsewhere DEF Unbounded
  <2>2. CASE Reject(400)
    BY <2>0, <2>2, RefusedElsewhere
  <2>3. CASE \E t \in {"CHUNK_SIZE_CR_SEEN", "READING_CHUNK_EXTENSION"} : Becomes([p EXCEPT !.state = t])
    BY <2>0, <2>3, MovedElsewhere DEF Unbounded
  <2> QED BY <1>1, <2>1, <2>2, <2>3 DEF ReadingChunkSize
<1>2. CASE ReadingChunkExtension
  <2>0. In("READING_CHUNK_EXTENSION")
    BY <1>2 DEF ReadingChunkExtension
  <2>1. CASE Becomes(p)
    BY <2>0, <2>1, SkippedElsewhere DEF Unbounded
  <2>2. CASE Becomes([p EXCEPT !.state = "CHUNK_SIZE_CR_SEEN"])
    BY <2>0, <2>2, MovedElsewhere DEF Unbounded
  <2> QED BY <1>2, <2>1, <2>2 DEF ReadingChunkExtension
<1>3. CASE ChunkSizeCRSeen
  <2>0. In("CHUNK_SIZE_CR_SEEN")
    BY <1>3 DEF ChunkSizeCRSeen
  <2>1. CASE Becomes([p EXCEPT !.state = "READING_CHUNK_TRAILER"])
    BY <2>0, <2>1, MovedElsewhere DEF Unbounded
  <2>2. CASE Becomes([p EXCEPT !.length = @ + p.chunkSize, !.remaining = p.chunkSize,
                               !.state = "READING_CHUNK_DATA"])
    <3> DEFINE l == p.length + p.chunkSize
               q == [p EXCEPT !.length = l, !.remaining = p.chunkSize, !.state = "READING_CHUNK_DATA"]
    <3>1. q.state = "READING_CHUNK_DATA"
      <4> HIDE DEF l
      <4> QED BY <1>0 DEF Parsers, ParserRecords
    <3>2. Becomes(q)
      BY <2>2
    <3> HIDE DEF q
    <3> QED BY <2>0, <3>1, <3>2, StepElsewhere DEF Unbounded
  <2>3. CASE Reject(400) \/ Reject(500)
    BY <2>0, <2>3, RefusedElsewhere
  <2>4. CASE Ends("NO_STORAGE") \/ Ends("OVERFLOW")
    BY <2>0, <2>4, MovedElsewhere DEF Ends, Unbounded
  <2> QED BY <1>3, <2>1, <2>2, <2>3, <2>4 DEF ChunkSizeCRSeen
<1>4. CASE ChunkDataCRSeen
  <2>0. In("CHUNK_DATA_CR_SEEN")
    BY <1>4 DEF ChunkDataCRSeen
  <2>1. CASE Becomes([p EXCEPT !.chunkSize = 0, !.state = "READING_CHUNK_SIZE"])
    <3> DEFINE q == [p EXCEPT !.chunkSize = 0, !.state = "READING_CHUNK_SIZE"]
    <3>1. q.state = "READING_CHUNK_SIZE"
      BY <1>0 DEF Parsers, ParserRecords
    <3>2. Becomes(q)
      BY <2>1
    <3> HIDE DEF q
    <3> QED BY <2>0, <3>1, <3>2, StepElsewhere DEF Unbounded
  <2>2. CASE Reject(400)
    BY <2>0, <2>2, RefusedElsewhere
  <2> QED BY <1>4, <2>1, <2>2 DEF ChunkDataCRSeen
<1>5. CASE ReadingChunkTrailer
  <2>0. In("READING_CHUNK_TRAILER")
    BY <1>5 DEF ReadingChunkTrailer
  <2>1. CASE Becomes([p EXCEPT !.state = "CHUNK_TRAILER_CR_SEEN"])
    BY <2>0, <2>1, MovedElsewhere DEF Unbounded
  <2>2. CASE Reject(400)
    BY <2>0, <2>2, RefusedElsewhere
  <2> QED BY <1>5, <2>1, <2>2 DEF ReadingChunkTrailer
<1>6. CASE ChunkTrailerCRSeen
  <2>0. In("CHUNK_TRAILER_CR_SEEN")
    BY <1>6 DEF ChunkTrailerCRSeen
  <2>1. CASE Finish(p)
    BY <1>0, <2>0, <2>1, FinishedElsewhere
  <2>2. CASE Reject(400)
    BY <2>0, <2>2, RefusedElsewhere
  <2> QED BY <1>6, <2>1, <2>2 DEF ChunkTrailerCRSeen
<1> QED BY <1>1, <1>2, <1>3, <1>4, <1>5, <1>6

LEMMA StreamStays == ASSUME Next PROVE stream' = stream
<1>0. ASSUME NEW q, Becomes(q) PROVE stream' = stream
  BY <1>0 DEF Becomes
<1>1. ASSUME NEW t, Ends(t) \/ Reject(t) PROVE stream' = stream
  BY <1>0, <1>1 DEF Ends, Reject
<1>2. ASSUME NEW q, Finish(q) PROVE stream' = stream
  BY <1>0, <1>1, <1>2 DEF Finish
<1>3. CASE RequestMethod \/ RequestGap1 \/ RequestUri \/ RequestGap2 \/ RequestVersion
           \/ RequestCRSeen
  BY <1>0, <1>1, <1>3, Zenon DEF RequestMethod, RequestGap1, RequestUri, RequestGap2,
     RequestVersion, RequestCRSeen
<1>4. CASE HeaderFieldName \/ HeaderGap1 \/ HeaderFieldContent \/ HeaderCRSeen
  BY <1>0, <1>1, <1>4, Zenon DEF HeaderFieldName, HeaderGap1, HeaderFieldContent, HeaderCRSeen
<1>5. CASE EndCRSeen \/ ReadingFixedBody \/ ReadingChunkData
  BY <1>0, <1>1, <1>2, <1>5, Zenon DEF EndCRSeen, ReadingFixedBody, ReadingChunkData
<1>6. CASE ReadingChunkSize \/ ReadingChunkExtension \/ ChunkSizeCRSeen \/ ChunkDataCRSeen
           \/ ReadingChunkTrailer \/ ChunkTrailerCRSeen
  BY <1>0, <1>1, <1>2, <1>6, Zenon DEF ReadingChunkSize, ReadingChunkExtension, ChunkSizeCRSeen,
     ChunkDataCRSeen, ReadingChunkTrailer, ChunkTrailerCRSeen
<1> QED BY <1>3, <1>4, <1>5, <1>6 DEF Next

-----------------------------------------------------------------------------
(* The theorems. *)

LEMMA InvStep == ParserInv /\ [Next]_vars => ParserInv'
<1>1. CASE ParserInv /\ UNCHANGED vars
  BY <1>1 DEF ParserInv, Received, Bytes, vars
<1>2. CASE ParserInv /\ Next
  BY <1>2, StepRequestMethod, StepRequestLine, StepHeaderName, StepHeaderValue, StepEndCRSeen,
     StepReadingFixedBody, StepReadingChunkSize, StepChunkSizeCRSeen, StepReadingChunkData,
     StepChunkDataCRSeen, StepAroundChunks DEF Next
<1> QED BY <1>1, <1>2

LEMMA InvInit == Init => ParserInv
<1> SUFFICES ASSUME Init PROVE ParserInv
  OBVIOUS
<1> DEFINE S == Seq(Received)
           H == Seq(Seq(Received) \X Seq(Received))
           Q == Seq(Requests(Received))
           e == <<>>
<1>1. e \in S /\ e \in H /\ e \in Q /\ "REQUEST_METHOD" \in States
  BY DEF States, InRequestLine
<1>2. read \in Nat /\ p = NewParser /\ 0 \in Nat /\ -1 \in Int /\ 0 \in Int
  BY DEF Init
<1>3. NewParser \in ParserRecords(S, H, Q)
  <2> HIDE DEF S, H, Q
  <2> QED BY <1>1, <1>2 DEF NewParser, ParserRecords
<1>4. Sound(NewParser)
  <2>1. 0 <= Len(<<>>)
    OBVIOUS
  <2> QED BY <2>1 DEF NewParser, Sound, Fresh, BodySoFar, BetweenChunks
<1> QED BY <1>2, <1>3, <1>4 DEF ParserInv, Parsers

\* The parser's fields have the types the states use them with, and what a
\* state relies on is there: the method's length is within its buffer, the body
\* is as long as what has been read of it, and nothing of an earlier request is
\* left when the next one begins (the loop of processHttpFragment,
\* c/httpserver.c:2058-2421).
THEOREM ParserInvariant == Spec => []ParserInv
<1>1. Init => ParserInv
  BY InvInit
<1>2. ParserInv /\ [Next]_vars => ParserInv'
  BY InvStep
<1> QED BY <1>1, <1>2, PTL DEF Spec

\* While the request line is read there is nothing of the requests before it on
\* the connection that the new one could inherit: no header, no chunked or
\* keep-alive or web socket mark, no length of a body (resetParserAndEnqueue,
\* c/httpserver.c:2058-2071).
THEOREM NothingLeftOverTheorem == Spec => []NothingLeftOver
<1>1. ParserInv => NothingLeftOver
  BY DEF ParserInv, Sound, NothingLeftOver
<1> QED BY <1>1, ParserInvariant, PTL

\* A byte of a body goes to the place after the bytes of the body before it, and
\* that place is within the length announced or, of a chunked body, gathered so
\* far; between two chunks the body is complete to that length (c/httpserver.c
\* 2338-2341, 2383-2421).
THEOREM BodyInPlaceTheorem == Spec => []BodyInPlace
<1>1. ParserInv => BodyInPlace
  <2> SUFFICES ASSUME ParserInv PROVE BodyInPlace
    OBVIOUS
  <2>1. p.length \in Int /\ p.remaining \in Int /\ p.content \in Seq(Received)
    BY Fields DEF ParserInv
  <2>2. Len(p.content) \in Nat
    BY <2>1
  <2>3. BodySoFar(p)
    BY DEF ParserInv, Sound
  <2>4. ASSUME Len(p.content) = p.length - p.remaining, p.remaining >= 0
        PROVE  p.remaining \in 0..p.length
    BY <2>1, <2>2, <2>4
  <2>5. p.remaining > 0 => p.remaining >= 0 /\ p.remaining # 0
    BY <2>1
  <2>6. p.remaining \in 0..p.length /\ p.remaining # 0 => p.remaining \in 1..p.length
    BY <2>1
  <2> QED BY <2>3, <2>4, <2>5, <2>6 DEF BodySoFar, BodyInPlace
<1> QED BY <1>1, ParserInvariant, PTL

\* The URI, the version and the name of a header are stored without a test of
\* the arrays' ends (c/httpserver.c:2212, 2231, 2264).  The parser overruns none
\* of them when the stream has a space, a CR or an LF within any that many bytes
\* as the smallest of them has room for: only a text without any can do it, and
\* no run of shorter texts, on however many requests of the connection.
THEOREM NoOverrunTheorem ==
    ASSUME NEW room \in Nat \ {0}, UriRoom \in Nat, VersionRoom \in Nat, NameRoom \in Nat,
           room <= UriRoom, room <= VersionRoom, room <= NameRoom
    PROVE  Spec => [](Spaced(room) => p.state # "OVERRUN")
<1> DEFINE RoomInv == Spaced(room) => RunInv
<1>1. Init => RoomInv
  <2>1. ASSUME Init PROVE RunInv
    <3>1. p.state = "REQUEST_METHOD" /\ read = 0
      BY <2>1 DEF Init, NewParser
    <3>2. Token(p) = 0
      BY <3>1, NoToken DEF Unbounded
    <3>3. Token(p) \in 0..read /\ 1..Token(p) = {}
      BY <3>1, <3>2
    <3> QED BY <3>1, <3>3 DEF RunInv
  <2> QED BY <2>1
<1>2. ParserInv /\ RoomInv /\ [Next]_vars => RoomInv'
  <2> SUFFICES ASSUME ParserInv, RoomInv, [Next]_vars, Spaced(room)' PROVE RunInv'
    OBVIOUS
  <2>1. CASE UNCHANGED vars
    <3>1. Spaced(room)
      BY <2>1 DEF Spaced, Bytes, vars
    <3>2. RunInv
      BY <3>1
    <3>3. p' = p /\ read' = read /\ stream' = stream
      BY <2>1 DEF vars
    <3> HIDE DEF RoomInv
    <3>4. (RunInv <=> RunInv')
      BY <3>3 DEF RunInv, Token, Unbounded, Bytes
    <3> QED BY <3>2, <3>4
  <2>2. CASE Next
    <3>1. stream' = stream
      BY <2>2, StreamStays
    <3>2. Spaced(room)
      BY <3>1 DEF Spaced, Bytes
    <3>3. RunInv
      BY <3>2
    <3> HIDE DEF RoomInv
    <3> QED BY <2>2, <3>2, <3>3, RunRequestLine, RunHeaderName, RunHeaders, RunBody, RunChunks
        DEF Next
  <2> QED BY <2>1, <2>2
<1>3. RoomInv => (Spaced(room) => p.state # "OVERRUN")
  BY DEF RunInv
<1> HIDE DEF RoomInv
<1> QED BY <1>1, <1>2, <1>3, ParserInvariant, PTL DEF Spec

\* Whatever is sent, the requests that leave the parser consist of bytes that
\* were received: no text of them has a byte of a buffer that was never written
\* (enqueueLastRequest copies each buffer by its length, c/httpserver.c:2019-2036).
THEOREM RequestsAsReceivedTheorem == Spec => []RequestsAsReceived
<1>1. ParserInv => RequestsAsReceived
  BY Fields DEF ParserInv, RequestsAsReceived
<1> QED BY <1>1, ParserInvariant, PTL
=============================================================================
