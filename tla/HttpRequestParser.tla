------------------------- MODULE HttpRequestParser -------------------------
(***************************************************************************)
(* The request parser of a connection: processHttpFragment of              *)
(* c/httpserver.c.                                                         *)
(*                                                                         *)
(* Whatever a read of the socket brings goes through the parser one byte   *)
(* after another; its state is kept from one read to the next, and from    *)
(* one request of the connection to the next, most of it in buffers that   *)
(* are not cleared.  A byte stands here for what the parser tells apart: a *)
(* separator, or a lexeme, which takes as much room as a byte.             *)
(*                                                                         *)
(* Three states are not the code's, and nothing follows them: OVERRUN, a   *)
(* byte was stored beyond an array; OVERFLOW, an int went beyond its range *)
(* (the behaviour of the program is undefined from there on); NO_STORAGE,  *)
(* the heap of the conversation had no room and the program stored through *)
(* location 0.                                                             *)
(***************************************************************************)
EXTENDS Integers, Sequences, FiniteSets, SequencesExt

CONSTANTS
    Streams,        \* what clients send on one connection: sequences of messages, each
                    \* with its bytes, the request it stands for, or NoRequest,
                    \* and the length of the version it names
    Methods,        \* the methods of HTTP 1.1
    NoRequest,      \* a message that is not a request
    MaxMethod,      \* MAX_HTTP_METHOD_NAME
    MaxValue,       \* MAX_HTTP_FIELD_VALUE
    MaxChunk,       \* MAX_HTTP_CHUNK
    UriRoom,        \* the sizes of the arrays uri, version and headerName
    VersionRoom,
    NameRoom,
    IntMax          \* INT_MAX

VARIABLES
    stream,     \* the messages sent
    read,       \* the number of bytes the parser has read
    p           \* the parser

vars == <<stream, read, p>>

\* makeHttpRequestParser: memset, then the first state and no length.
NewParser ==
    [state |-> "REQUEST_METHOD", rc |-> 0, method |-> <<>>, methodLength |-> 0, uri |-> <<>>,
     versionLength |-> 0, name |-> <<>>, value |-> <<>>, headers |-> <<>>, isChunked |-> FALSE, isWebSocket |-> FALSE,
     keepAlive |-> FALSE, length |-> -1, chunkSize |-> 0, remaining |-> 0, content |-> <<>>,
     queue |-> <<>>]

Init ==
    /\ stream \in Streams
    /\ read = 0
    /\ p = NewParser

-----------------------------------------------------------------------------
(* The bytes.                                                              *)

Bytes(messages) == FlattenSeq([i \in 1..Len(messages) |-> messages[i].bytes])
Byte == Bytes(stream)[read + 1]

Whitespace == Byte = " "
Printable == Byte \notin {" ", "CR", "LF", "octet"}    \* "octet": anything beyond ASCII

HexDigits == <<"0", "1", "2", "3">>     \* the digits used
Hex == Byte \in Range(HexDigits)
Value(digit) == (CHOOSE i \in 1..Len(HexDigits) : HexDigits[i] = digit) - 1

\* The number the digits make that a text begins with.
atoi(text) ==
    LET n[i \in 0..Len(text)] ==
            IF i = 0 THEN 0
            ELSE IF \A j \in 1..i : text[j] \in Range(HexDigits)
                 THEN 10 * n[i - 1] + Value(text[i]) ELSE n[i - 1]
    IN n[Len(text)]

Becomes(parser) == p' = parser /\ read' = read + 1 /\ UNCHANGED stream

\* processHttpFragment returns 0: the connection is answered with the reason
\* code and read no more.
Reject(rc) == Becomes([p EXCEPT !.rc = rc])

Ends(outcome) == Becomes([p EXCEPT !.state = outcome])

In(state) == p.rc = 0 /\ read < Len(Bytes(stream)) /\ p.state = state

-----------------------------------------------------------------------------
(* The request line.                                                       *)

\* The names are compared on their own length only, with whatever the buffer
\* holds: what an earlier, longer method left there counts.
MethodIsValid == \E m \in Methods : IsPrefix(m, p.method)

\* A byte put in the method's buffer over what was there.
Put(buffer, length, byte) ==
    [i \in 1..(IF length < Len(buffer) THEN Len(buffer) ELSE length + 1) |->
        IF i = length + 1 THEN byte ELSE buffer[i]]

RequestMethod ==
    LET ends == Whitespace /\ p.methodLength >= 1 /\ MethodIsValid
    IN /\ In("REQUEST_METHOD")
       /\ \/ ends /\ Becomes([p EXCEPT !.state = "REQUEST_GAP1"])
          \/ /\ Printable /\ p.methodLength < MaxMethod
             /\ Becomes([p EXCEPT !.method = Put(@, p.methodLength, Byte), !.methodLength = @ + 1])
          \/ Printable /\ p.methodLength >= MaxMethod /\ Reject(405)
          \/ ~Printable /\ ~ends /\ Reject(400)

\* A CR or LF here is not refused: it is not white space, so it begins the URI.
RequestGap1 ==
    /\ In("REQUEST_GAP1")
    /\ \/ Whitespace /\ Becomes(p)
       \/ ~Whitespace /\ Becomes([p EXCEPT !.uri = <<Byte>>, !.state = "REQUEST_URI"])

RequestUri ==
    /\ In("REQUEST_URI")
    /\ \/ Byte \in {"CR", "LF"} /\ Reject(400)
       \/ Whitespace /\ Becomes([p EXCEPT !.state = "REQUEST_GAP2"])
       \/ /\ Byte \notin {"CR", "LF", " "} /\ Len(p.uri) < UriRoom
          /\ Becomes([p EXCEPT !.uri = Append(@, Byte)])
       \/ Byte \notin {"CR", "LF", " "} /\ Len(p.uri) >= UriRoom /\ Ends("OVERRUN")

RequestGap2 ==
    /\ In("REQUEST_GAP2")
    /\ \/ Byte \in {"CR", "LF"} /\ Reject(400)
       \/ Whitespace /\ Becomes(p)
       \/ /\ Byte \notin {"CR", "LF", " "}
          /\ Becomes([p EXCEPT !.versionLength = 1, !.state = "REQUEST_VERSION"])

\* The version is stored and looked at no more.
RequestVersion ==
    /\ In("REQUEST_VERSION")
    /\ \/ Byte = "CR" /\ Becomes([p EXCEPT !.state = "REQUEST_CR_SEEN"])
       \/ /\ Printable /\ p.versionLength < VersionRoom
          /\ Becomes([p EXCEPT !.versionLength = @ + 1])
       \/ Printable /\ p.versionLength >= VersionRoom /\ Ends("OVERRUN")
       \/ Byte # "CR" /\ ~Printable /\ Reject(400)

RequestCRSeen ==
    /\ In("REQUEST_CR_SEEN")
    /\ \/ Byte = "LF" /\ Becomes([p EXCEPT !.name = <<>>, !.state = "HEADER_FIELD_NAME"])
       \/ Byte # "LF" /\ Reject(400)

-----------------------------------------------------------------------------
(* The headers.                                                            *)

HeaderFieldName ==
    LET first == p.name = <<>>
    IN /\ In("HEADER_FIELD_NAME")
       /\ \/ Byte = "CR" /\ first /\ Becomes([p EXCEPT !.state = "END_CR_SEEN"])
          \/ Byte = ":" /\ ~first /\ Becomes([p EXCEPT !.state = "HEADER_GAP1"])
          \/ /\ Byte # ":" /\ Printable /\ Len(p.name) < NameRoom
             /\ Becomes([p EXCEPT !.name = Append(@, Byte)])
          \/ Byte # ":" /\ Printable /\ Len(p.name) >= NameRoom /\ Ends("OVERRUN")
          \/ Byte = "CR" /\ ~first /\ Reject(400)
          \/ Byte = ":" /\ first /\ Reject(400)
          \/ Byte # "CR" /\ ~Printable /\ Reject(400)

\* A field with no value is dropped.
HeaderGap1 ==
    /\ In("HEADER_GAP1")
    /\ \/ Whitespace /\ Becomes(p)
       \/ Byte = "CR" /\ Becomes([p EXCEPT !.state = "HEADER_CR_SEEN"])
       \/ Printable /\ Becomes([p EXCEPT !.value = <<Byte>>, !.state = "HEADER_FIELD_CONTENT"])
       \/ ~Whitespace /\ Byte # "CR" /\ ~Printable /\ Reject(400)

\* addRequestHeader: a name or a value is compared on its own length only, so
\* the beginning of a known one is taken for it.
AddRequestHeader(parser) ==
    LET n == parser.name
        v == parser.value
        Is(known) == IsPrefix(n, known)
        encoding == Is(<<"Transfer-", "Encoding">>)
        length == ~encoding /\ Is(<<"Content-", "Length">>)
        type == ~encoding /\ ~length /\ Is(<<"Content-", "Type">>)
        upgrade == Is(<<"Upgrade">>)
        connection == ~length /\ ~type /\ Is(<<"Connection">>)
    IN [parser EXCEPT
          !.headers = Append(@, <<n, v>>),
          !.isChunked = @ \/ (encoding /\ IsPrefix(v, <<"chunked">>)),
          !.length = IF length THEN atoi(v) ELSE @,
          !.isWebSocket = @ \/ (upgrade /\ IsPrefix(v, <<"websocket">>)),
          !.keepAlive = @ \/ (connection /\ IsPrefix(v, <<"Keep-", "Alive">>))]

HeaderFieldContent ==
    LET added == AddRequestHeader([p EXCEPT !.state = "HEADER_CR_SEEN"])
    IN /\ In("HEADER_FIELD_CONTENT")
       /\ \/ Byte = "CR" /\ added.length <= IntMax /\ Becomes(added)
          \/ Byte = "CR" /\ added.length > IntMax /\ Ends("OVERFLOW")    \* in atoi
          \/ Byte = "CR" /\ Ends("NO_STORAGE")
          \/ Byte = "LF" /\ Reject(400)
          \/ /\ Byte \notin {"CR", "LF"} /\ Len(p.value) < MaxValue
             /\ Becomes([p EXCEPT !.value = Append(@, Byte)])
          \/ Byte \notin {"CR", "LF"} /\ Len(p.value) >= MaxValue /\ Reject(413)

HeaderCRSeen ==
    /\ In("HEADER_CR_SEEN")
    /\ \/ Byte = "LF" /\ Becomes([p EXCEPT !.name = <<>>, !.value = <<>>, !.state = "HEADER_FIELD_NAME"])
       \/ Byte # "LF" /\ Reject(400)

-----------------------------------------------------------------------------
(* The end of a request.                                                   *)

\* enqueueLastRequest: the body is there when its length is not 0.
LastRequest(parser) ==
    [method |-> SubSeq(parser.method, 1, parser.methodLength), uri |-> parser.uri,
     headers |-> parser.headers, isWebSocket |-> parser.isWebSocket, keepAlive |-> parser.keepAlive,
     content |-> IF parser.length > 0 THEN SubSeq(parser.content, 1, parser.length) ELSE <<>>]

\* Faulty: isChunked is not among what is reset.
ResetAndEnqueueStillChunked(parser) ==
    [parser EXCEPT !.queue = Append(@, LastRequest(parser)), !.headers = <<>>, !.methodLength = 0,
                   !.uri = <<>>, !.versionLength = 0, !.name = <<>>, !.value = <<>>,
                   !.isWebSocket = FALSE, !.length = -1, !.keepAlive = FALSE, !.state = "REQUEST_METHOD"]

\* resetParserAndEnqueue.  The method's buffer, the content and the chunk size
\* stay as they are.
ResetAndEnqueue(parser) ==
    [parser EXCEPT !.queue = Append(@, LastRequest(parser)), !.headers = <<>>, !.methodLength = 0,
                   !.uri = <<>>, !.versionLength = 0, !.name = <<>>, !.value = <<>>, !.isChunked = FALSE,
                   !.isWebSocket = FALSE, !.length = -1, !.keepAlive = FALSE, !.state = "REQUEST_METHOD"]

Finish(parser) == Becomes(ResetAndEnqueue(parser)) \/ Ends("NO_STORAGE")

EndCRSeen ==
    /\ In("END_CR_SEEN")
    /\ \/ /\ Byte = "LF" /\ p.isChunked
          /\ Becomes([p EXCEPT !.state = "READING_CHUNK_SIZE", !.chunkSize = 0, !.length = 0, !.content = <<>>])
       \/ Byte = "LF" /\ ~p.isChunked /\ p.length <= 0 /\ Finish(p)
       \/ /\ Byte = "LF" /\ ~p.isChunked /\ p.length > 0
          /\ \/ Becomes([p EXCEPT !.state = "READING_FIXED_BODY", !.content = <<>>, !.remaining = p.length])
             \/ Ends("NO_STORAGE")
       \/ Byte # "LF" /\ Reject(400)

\* The byte goes to content[length - remaining].
Store(parser) ==
    [parser EXCEPT !.content = Put(@, parser.length - parser.remaining, Byte), !.remaining = @ - 1]

ReadingFixedBody ==
    /\ In("READING_FIXED_BODY")
    /\ \/ p.remaining <= 1 /\ Finish(Store(p))
       \/ p.remaining > 1 /\ Becomes(Store(p))

-----------------------------------------------------------------------------
(* A chunked body.                                                         *)

\* Faulty: the digits are gathered without the test against overflow.
ReadingChunkSizeUntested ==
    /\ In("READING_CHUNK_SIZE")
    /\ \/ Hex /\ Becomes([p EXCEPT !.chunkSize = 16 * @ + Value(Byte)])
       \/ Byte = "CR" /\ Becomes([p EXCEPT !.state = "CHUNK_SIZE_CR_SEEN"])
       \/ Byte = ";" /\ Becomes([p EXCEPT !.state = "READING_CHUNK_EXTENSION"])
       \/ ~Hex /\ Byte \notin {"CR", ";"} /\ Reject(400)

ReadingChunkSize ==
    LET fits == p.chunkSize <= (MaxChunk - Value(Byte)) \div 16
    IN /\ In("READING_CHUNK_SIZE")
       /\ \/ Hex /\ fits /\ Becomes([p EXCEPT !.chunkSize = 16 * @ + Value(Byte)])
          \/ Hex /\ ~fits /\ Reject(400)
          \/ Byte = "CR" /\ Becomes([p EXCEPT !.state = "CHUNK_SIZE_CR_SEEN"])
          \/ Byte = ";" /\ Becomes([p EXCEPT !.state = "READING_CHUNK_EXTENSION"])
          \/ ~Hex /\ Byte \notin {"CR", ";"} /\ Reject(400)

ReadingChunkExtension ==
    /\ In("READING_CHUNK_EXTENSION")
    /\ \/ Byte = "CR" /\ Becomes([p EXCEPT !.state = "CHUNK_SIZE_CR_SEEN"])
       \/ Byte # "CR" /\ Becomes(p)

\* The body so far is copied to a place with room for the chunk; the sum of the
\* sizes is not tested.
ChunkSizeCRSeen ==
    LET data == Byte = "LF" /\ p.chunkSize # 0
        fits == p.length + p.chunkSize <= IntMax
    IN /\ In("CHUNK_SIZE_CR_SEEN")
       /\ \/ Byte = "LF" /\ p.chunkSize = 0 /\ Becomes([p EXCEPT !.state = "READING_CHUNK_TRAILER"])
          \/ /\ data /\ fits
             /\ \/ Becomes([p EXCEPT !.length = @ + p.chunkSize, !.remaining = p.chunkSize,
                                     !.state = "READING_CHUNK_DATA"])
                \/ Reject(500)
                \/ Ends("NO_STORAGE")
          \/ data /\ ~fits /\ Ends("OVERFLOW")
          \/ Byte # "LF" /\ Reject(400)

ReadingChunkData ==
    /\ In("READING_CHUNK_DATA")
    /\ \/ p.remaining > 0 /\ Becomes(Store(p))
       \/ p.remaining <= 0 /\ Byte = "CR" /\ Becomes([p EXCEPT !.state = "CHUNK_DATA_CR_SEEN"])
       \/ p.remaining <= 0 /\ Byte # "CR" /\ Reject(400)

ChunkDataCRSeen ==
    /\ In("CHUNK_DATA_CR_SEEN")
    /\ \/ Byte = "LF" /\ Becomes([p EXCEPT !.chunkSize = 0, !.state = "READING_CHUNK_SIZE"])
       \/ Byte # "LF" /\ Reject(400)

ReadingChunkTrailer ==
    /\ In("READING_CHUNK_TRAILER")
    /\ \/ Byte = "CR" /\ Becomes([p EXCEPT !.state = "CHUNK_TRAILER_CR_SEEN"])
       \/ Byte # "CR" /\ Reject(400)

ChunkTrailerCRSeen ==
    /\ In("CHUNK_TRAILER_CR_SEEN")
    /\ \/ Byte = "LF" /\ Finish(p)
       \/ Byte # "LF" /\ Reject(400)

-----------------------------------------------------------------------------
(* One turn of the loop of processHttpFragment.  Where a read ends makes no *)
(* difference: nothing is kept outside p.                                   *)
Next ==
    \/ RequestMethod \/ RequestGap1 \/ RequestUri \/ RequestGap2 \/ RequestVersion \/ RequestCRSeen
    \/ HeaderFieldName \/ HeaderGap1 \/ HeaderFieldContent \/ HeaderCRSeen
    \/ EndCRSeen \/ ReadingFixedBody
    \/ ReadingChunkSize \/ ReadingChunkExtension \/ ChunkSizeCRSeen \/ ReadingChunkData
    \/ ChunkDataCRSeen \/ ReadingChunkTrailer \/ ChunkTrailerCRSeen

Spec == Init /\ [][Next]_vars

-----------------------------------------------------------------------------
(* Properties.                                                             *)

EndOf(i) == Len(Bytes(SubSeq(stream, 1, i)))

\* A request that is within the arrays and the integers of the parser.
Fits(message) ==
    /\ message.request # NoRequest
    /\ Len(message.request.uri) <= UriRoom /\ message.version <= VersionRoom
    /\ \A i \in 1..Len(message.request.headers) : Len(message.request.headers[i][1]) <= NameRoom
    /\ Len(message.request.content) <= IntMax

\* The messages before the first one that is not such a request.
Good ==
    CHOOSE i \in 0..Len(stream) :
        /\ \A j \in 1..i : Fits(stream[j])
        /\ i < Len(stream) => ~Fits(stream[i + 1])

\* The requests the parser has made are those that were sent and are wholly
\* read, each with its own headers, flags and body, whatever came before it on
\* the connection; and as long as they are within its arrays and integers, it
\* overruns none and refuses none but for want of storage (processHttpFragment,
\* c/httpserver.c:2137-2451).
RequestsAsSent ==
    LET whole == Cardinality({i \in 1..Good : EndOf(i) <= read})
        sent == [i \in 1..whole |-> stream[i].request]
    IN /\ IF p.state = "NO_STORAGE" THEN IsPrefix(p.queue, sent) ELSE p.queue = sent
       /\ read <= EndOf(Good) =>
             p.rc \in {0, 500} /\ p.state \notin {"OVERRUN", "OVERFLOW"}

\* A message that is not a request is refused before it has been read to its
\* end, unless the program has ended; and a chunk size that is too large before
\* its digits make more than MAX_HTTP_CHUNK (c/httpserver.c:2358).  A method
\* that is taken for another is the matter of MethodsDefined.
MalformedRefused ==
    /\ \A i \in 1..Len(stream) :
          i > Good /\ stream[i].request = NoRequest /\ EndOf(i) <= read => p.rc # 0
    /\ p.chunkSize <= MaxChunk

\* "reject METHODs not defined in HTTP 1.1" (c/httpserver.c:2176).
MethodsDefined == \A i \in 1..Len(p.queue) : p.queue[i].method \in Methods
=============================================================================
