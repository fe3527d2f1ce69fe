--------------------------- MODULE MCHttpMessages ---------------------------
(* What clients send in the small instances of HttpRequestParser and WebSocket *)
(* (MCConversations): how it is written, and what it stands for.              *)
EXTENDS Integers, Sequences, SequencesExt

NoRequest == [method |-> <<>>]

Line == <<"CR", "LF">>
Digit(n) == <<"0", "1", "2", "3">>[n + 1]
Hexadecimal(n) == IF n < 4 THEN <<Digit(n)>> ELSE <<Digit(n \div 16), Digit(n % 16)>>

Get == <<"GE", "T">>
Keep == <<"Keep-", "Alive">>
Accept == <<<<"Accept">>, <<"any">>>>                   \* a header of no consequence
KeepAlive == <<<<"Connection">>, Keep>>
Close == <<<<"Connection">>, <<"close">>>>
Upgrade == <<<<"Upgrade">>, <<"websocket">>>>
Chunked == <<<<"Transfer-", "Encoding">>, <<"chunked">>>>
Length(n) == <<<<"Content-", "Length">>, <<Digit(n)>>>>
Type == <<<<"Content-", "Type">>, <<"text", " ", "x">>>>
Empty == <<<<"Accept">>, <<>>>>                         \* dropped by the parser

Slash == <<"/", "a">>
Version == <<"HTTP/1.1">>

HeadOf(method, uri, version, headers) ==
    method \o <<" ">> \o uri \o <<" ">> \o version \o Line
    \o FlattenSeq([i \in 1..Len(headers) |-> headers[i][1] \o <<":", " ">> \o headers[i][2] \o Line])
    \o Line
RequestHead(method, headers) == HeadOf(method, Slash, Version, headers)

Chunk(data) == Hexadecimal(Len(data)) \o Line \o data \o Line
LastChunk == <<"0">> \o Line \o Line

Means(method, uri, headers, content) ==
    [method |-> method, uri |-> uri, headers |-> SelectSeq(headers, LAMBDA h : h # Empty),
     isWebSocket |-> Contains(headers, Upgrade), keepAlive |-> Contains(headers, KeepAlive),
     content |-> content]

Message(bytes, request) == [bytes |-> bytes, request |-> request, version |-> Len(Version)]
Broken(bytes) == Message(bytes, NoRequest)

\* A request with no body, with a body of a given length, with a body in chunks.
Plain(method, headers) == Message(RequestHead(method, headers), Means(method, Slash, headers, <<>>))

Fixed(method, headers, data) ==
    LET all == Append(headers, Length(Len(data)))
    IN Message(RequestHead(method, all) \o data, Means(method, Slash, all, data))

InChunks(method, headers, chunks) ==
    LET all == <<Chunked>> \o headers
    IN Message(RequestHead(method, all) \o FlattenSeq([i \in 1..Len(chunks) |-> Chunk(chunks[i])]) \o LastChunk,
               Means(method, Slash, all, FlattenSeq(chunks)))

\* A request with texts of given lengths.
Long(uri, version, name) ==
    LET headers == <<<<[i \in 1..name |-> "N"], <<"v">>>>>>
    IN [bytes |-> HeadOf(Get, [i \in 1..uri |-> "/"], [i \in 1..version |-> "V"], headers),
        request |-> Means(Get, [i \in 1..uri |-> "/"], headers, <<>>),
        version |-> version]

Put == <<"PU", "T">>
Methods == {Get, Put}
Xs(n) == [i \in 1..n |-> "x"]

Requests == {
    Plain(Get, <<Accept, KeepAlive>>),
    Plain(Get, <<Close, Upgrade, Empty>>),
    Fixed(Put, <<Type>>, <<"CR", "LF", "x">>),
    Fixed(Put, <<KeepAlive>>, <<>>),
    InChunks(Put, <<KeepAlive>>, <<<<"x", "CR">>, <<"LF", "0", "CR">>>>),
    InChunks(Put, <<Length(2)>>, <<Xs(16)>>),           \* as large as a chunk can be
    InChunks(Put, <<>>, <<>>),
    Long(3, 2, 4)}                                      \* as long as the arrays

\* Too long for an array by one, or too large for an int by one.
TooLarge == {
    Long(4, 2, 4), Long(3, 3, 4), Long(3, 2, 5),
    InChunks(Put, <<>>, <<Xs(16), Xs(1)>>),

    Broken(RequestHead(Put, <<<<<<"Content-", "Length">>, <<"2", "0">>>>>>))}

Malformed == {
    Broken(<<"GE", "x", " ">>),                         \* no method of this name
    Broken(<<" ">>),
    Broken(<<"octet">>),
    Broken(<<"PU", "T", "PU", "T", "x">>),              \* longer than any method may be
    Broken(Get \o <<" ", "CR", "LF">>),                 \* no URI
    Broken(Get \o <<" ", "/", "CR">>),                  \* no version
    Broken(Get \o <<" ", " ", "/", " ", " ", "CR">>),
    Broken(Get \o <<" ", "/", " ", "HTTP/1.1", "LF">>),
    Broken(Get \o <<" ", "/", " ", "HTTP/1.1", "CR", "x">>),
    Broken(Get \o <<" ", "/", " ", "HTTP/1.1">> \o Line \o <<"Accept", "CR">>),
    Broken(Get \o <<" ", "/", " ", "HTTP/1.1">> \o Line \o <<"Accept", " ">>),
    Broken(Get \o <<" ", "/", " ", "HTTP/1.1">> \o Line \o <<":">>),
    Broken(Get \o <<" ", "/", " ", "HTTP/1.1">> \o Line \o <<"Accept", ":", " ", "octet">>),
    Broken(Get \o <<" ", "/", " ", "HTTP/1.1">> \o Line \o <<"Accept", ":", "x", "LF">>),
    Broken(Get \o <<" ", "/", " ", "HTTP/1.1">> \o Line \o <<"Accept", ":", "x", "CR", "x">>),
    Broken(Get \o <<" ", "/", " ", "HTTP/1.1">> \o Line \o <<"Accept", ":", "x", "x", "x", "x">>),
    Broken(Get \o <<" ", "/", " ", "HTTP/1.1">> \o Line \o <<"CR", "x">>),
    Broken(RequestHead(Put, <<Chunked>>) \o <<"x">>),          \* no chunk size
    Broken(RequestHead(Put, <<Chunked>>) \o Chunk(Xs(17)) \o LastChunk),
    Broken(RequestHead(Put, <<Chunked>>) \o <<"1", ";", "x", "CR", "x">>),
    Broken(RequestHead(Put, <<Chunked>>) \o <<"1">> \o Line \o <<"x", "x">>),
    Broken(RequestHead(Put, <<Chunked>>) \o <<"1">> \o Line \o <<"x", "CR", "x">>),
    Broken(RequestHead(Put, <<Chunked>>) \o <<"0">> \o Line \o <<"x">>),   \* a trailer
    Broken(RequestHead(Put, <<Chunked>>) \o <<"0">> \o Line \o <<"CR", "x">>)}

MCStreams ==
    {<<m, n>> : m \in Requests, n \in Requests \cup Malformed \cup TooLarge}
    \cup {<<m>> : m \in Malformed}
    \cup {<<a, b, a>> : a \in {InChunks(Put, <<Length(2)>>, <<<<"x">>>>)}, b \in Requests}
    \cup {<<Broken(<<"GE", " ">>)>>}

\* The beginning of a method, where the buffer holds the rest of it from the
\* request before.
MCStaleStreams == {<<Plain(Get, <<>>), Broken(RequestHead(<<"GE">>, <<>>))>>}

-----------------------------------------------------------------------------
(* What clients send on a web socket, in the small instance of WebSocket: no   *)
(* control frame in the middle of a message.                                   *)

Frame(fin, control, mask, data) ==
    [fin |-> fin, control |-> control, mask |-> mask, data |-> data]
Mask == <<1, 0, 1, 1>>

MCConversations == {
    <<Frame(TRUE, FALSE, Mask, <<1, 0>>), Frame(TRUE, FALSE, Mask, <<0, 1, 1, 0, 1, 1>>),
      Frame(TRUE, FALSE, Mask, <<1>>)>>,
    <<Frame(FALSE, FALSE, Mask, <<1, 0>>), Frame(TRUE, FALSE, Mask, <<0, 1, 1>>),
      Frame(TRUE, TRUE, Mask, <<0, 0>>), Frame(TRUE, FALSE, Mask, <<1>>)>>,
    <<Frame(FALSE, FALSE, <<>>, <<1, 1, 0, 1>>), Frame(FALSE, FALSE, Mask, <<>>),
      Frame(FALSE, FALSE, Mask, <<1, 0, 0, 1, 1, 1>>), Frame(TRUE, FALSE, <<>>, <<0>>),
      Frame(TRUE, TRUE, Mask, <<>>)>>}
=============================================================================
