----------------------------- MODULE WebSocket -----------------------------
(***************************************************************************)
(* A web socket of the HTTP server: the read machine that turns what each  *)
(* read of the socket brings into frames and messages, and the work        *)
(* elements through which the server hands messages to their handler and   *)
(* answers (c/httpserver.c).                                               *)
(*                                                                         *)
(* The main task reads the socket, then empties the work queue, and reads  *)
(* again (stcBaseMainLoop); everything here is done by it.                 *)
(***************************************************************************)
EXTENDS Integers, Sequences, SequencesExt, FiniteSets

CONSTANTS
    Conversations,  \* what clients send: sequences of frames [fin, control, mask, data],
                    \* mask being the four mask bytes or <<>>
    Short, Medium,  \* the longest payloads with their length in the second byte (125) and
                    \* in two bytes (65535)
    BigEndian,      \* whether the byte order of the system is that of the network
    BufferSize,     \* of the buffer a payload begins with (256)
    Reads,          \* how many bytes a read may bring
    Utf8,           \* the byte each character of a text becomes
    FrameSize       \* the size of the frames of the JSON printer

\* Where a mask is applied to them, bytes are 0 or 1.
FrameSet ==
    {f \in [fin : BOOLEAN, control : BOOLEAN, mask : {<<>>} \cup [1..4 -> {0, 1}],
             data : Seq(Nat)] :
        f.mask # <<>> => f.data \in Seq({0, 1})}

\* The second byte has seven bits for the length, two of whose values say how
\* many bytes after it have the length.
ASSUME SocketAssumption ==
    /\ Conversations \subseteq Seq(FrameSet)
    /\ Short \in Nat /\ Short < 126
    /\ Medium \in Nat
    /\ BigEndian \in BOOLEAN
    /\ BufferSize \in Nat \ {0} /\ FrameSize \in Nat
    /\ Reads \subseteq Nat
    /\ {"[", "]"} \subseteq DOMAIN Utf8 /\ \A c \in DOMAIN Utf8 : Utf8[c] \in Nat

VARIABLES
    frames,         \* the frames the client sends
    taken,          \* the number of bytes read
    machine,        \* the read machine
    inbox,          \* its queue of messages
    work,           \* the work elements of the conversation
    printer,        \* the JSON printer: its buffer, and whether it ever split a text
    handled,        \* the messages handled
    written,        \* the bytes written to the client
    shouldClose,    \* of the conversation
    overrun         \* the read machine has stored outside its buffer: what the
                    \* program does from there on is undefined

socketVars ==
    <<frames, taken, machine, inbox, work, printer, handled, written, shouldClose,
      overrun>>

Xor(a, b) == (a + b) % 2

-----------------------------------------------------------------------------
(* The encoding of frames (RFC 6455).                                      *)

LengthLength(n) == IF n > Medium THEN 8 ELSE IF n > Short THEN 2 ELSE 0
LengthCode(n) == CASE LengthLength(n) = 8 -> 127 [] LengthLength(n) = 2 -> 126 [] OTHER -> n

\* A length in the order of the network; lengths are ints, so that of eight bytes
\* the first four are 0.
LengthBytes(n) ==
    CASE LengthLength(n) = 8 ->
             <<0, 0, 0, 0, n \div 16777216, (n \div 65536) % 256, (n \div 256) % 256, n % 256>>
      [] LengthLength(n) = 2 -> <<n \div 256, n % 256>>
      [] OTHER -> <<>>

EncodeWith(frame, lengthBytes) ==
    <<[fin |-> frame.fin, control |-> frame.control],
      [masked |-> frame.mask # <<>>, length |-> LengthCode(Len(frame.data))]>>
    \o lengthBytes \o frame.mask
    \o [i \in 1..Len(frame.data) |->
          IF frame.mask = <<>> THEN frame.data[i]
          ELSE Xor(frame.data[i], frame.mask[((i - 1) % 4) + 1])]

Encode(frame) == EncodeWith(frame, LengthBytes(Len(frame.data)))

Stream(fs) == FlattenSeq([i \in 1..Len(fs) |-> Encode(fs[i])])

\* A number of several bytes lies in memory in the order of the system.
Native(bytes) == IF BigEndian THEN bytes ELSE Reverse(bytes)

\* The number in bytes of the network's order.
Number(b) ==
    IF Len(b) = 2 THEN 256 * b[1] + b[2]
    ELSE 256 * (256 * (256 * (256 * (256 * (256 * (256 * b[1] + b[2]) + b[3]) + b[4]) + b[5])
                       + b[6]) + b[7]) + b[8]

\* addNewWSFrame: the frames of a server are not masked, and their lengths are
\* copied as they lie in memory.
AddNewWSFrame(control, isLastFrame, data) ==
    EncodeWith([fin |-> isLastFrame, control |-> control, mask |-> <<>>, data |-> data],
               Native(LengthBytes(Len(data))))

-----------------------------------------------------------------------------
(* The read machine.                                                       *)

NewReadMachine ==
    [header |-> <<>>, headerNeed |-> 0, payloadLengthLength |-> 0, payloadLength |-> 0,
     payload |-> <<>>, maskBytes |-> <<>>, maskModulus |-> 0, message |-> <<>>]

\* What readMachineAdvance works on: the machine, its queue, the work it has
\* enqueued, its local shouldClose and whether it has completed a frame.
Progress(m, queue) ==
    [m |-> m, inbox |-> queue, work |-> <<>>, shouldClose |-> FALSE, ready |-> FALSE]

\* The first two bytes tell the length of the header.
BeginHeader(p, header) ==
    LET code == header[2].length
        lengths == CASE code = 127 -> 8 [] code = 126 -> 2
                     [] OTHER -> p.m.payloadLengthLength
        m == [p.m EXCEPT !.header = header,
                         !.payloadLengthLength = lengths,
                         !.headerNeed = 2 + (IF header[2].masked THEN 4 ELSE 0) + lengths]
    IN [p EXCEPT !.shouldClose = header[1].control, !.m = m]

\* The last byte of the header: the length of the payload, taken from memory as
\* it came, and the mask.
EndHeader(p) ==
    LET header == p.m.header
        lengths == p.m.payloadLengthLength
        m == [p.m EXCEPT !.payloadLength =
                             IF lengths = 0 THEN header[2].length
                             ELSE Number(Native(SubSeq(header, 3, lengths + 2))),
                         !.maskBytes = IF header[2].masked
                                       THEN SubSeq(header, lengths + 3, lengths + 6) ELSE @]
    IN [p EXCEPT !.m = m]

HeaderRead(m) == m.headerNeed > 0 /\ Len(m.header) = m.headerNeed

\* Faulty: the position in the mask is that of the frame before.
ClearFrameAllButModulus(m) ==
    [m EXCEPT !.header = <<>>, !.headerNeed = 0, !.payload = <<>>, !.payloadLength = 0,
              !.payloadLengthLength = 0]

ClearFrame(m) ==
    [m EXCEPT !.header = <<>>, !.headerNeed = 0, !.payload = <<>>, !.payloadLength = 0,
              !.payloadLengthLength = 0, !.maskModulus = 0]

\* The last byte of a frame: addWSFrame, and with the last frame of a message
\* wsMessageClose, if shouldClose, and enqueueInputMessage.
EndFrame(p) ==
    LET message == Append(p.m.message, p.m.payload)
        fin == p.m.header[1].fin
        m == [ClearFrame(p.m) EXCEPT !.message = IF fin THEN <<>> ELSE message]
        close == IF fin /\ p.shouldClose
                 THEN <<[code |-> "CLOSE_HANDSHAKE",
                         buffer |-> AddNewWSFrame(TRUE, TRUE, message[1])]>>
                 ELSE <<>>
    IN [p EXCEPT !.m = m,
                 !.inbox = IF fin THEN Append(@, FlattenSeq(message)) ELSE @,
                 !.work = @ \o close,
                 !.ready = TRUE]

WhenComplete(p) ==
    IF HeaderRead(p.m) /\ Len(p.m.payload) = p.m.payloadLength THEN EndFrame(p) ELSE p

AddToHeader(p, byte) ==
    LET header == Append(p.m.header, byte)
        q == IF Len(header) = 2 THEN BeginHeader(p, header) ELSE [p EXCEPT !.m.header = header]
    IN WhenComplete(IF HeaderRead(q.m) THEN EndHeader(q) ELSE q)

AddToPayload(p, byte) ==
    LET masked == p.m.header[2].masked
        b == IF masked THEN Xor(byte, p.m.maskBytes[p.m.maskModulus + 1]) ELSE byte
        m == [p.m EXCEPT !.payload = Append(@, b),
                         !.maskModulus = IF masked THEN (@ + 1) % 4 ELSE @]
    IN WhenComplete([p EXCEPT !.m = m])

AdvanceByte(p, byte) ==
    IF HeaderRead(p.m) THEN AddToPayload(p, byte) ELSE AddToHeader(p, byte)

ReadMachineAdvance(p, bytes) ==
    LET after[i \in 0..Len(bytes)] ==
            IF i = 0 THEN p ELSE AdvanceByte(after[i - 1], bytes[i])
    IN after[Len(bytes)]

\* The size of the buffer with that many bytes of a payload: a write that finds
\* no room doubles it (writeToBigBuffer).
BufferRoom(length) ==
    LET room[n \in 0..length] ==
            IF n = 0 THEN BufferSize
            ELSE IF n <= room[n - 1] THEN room[n - 1] ELSE 2 * room[n - 1]
    IN room[length]

\* A length of eight bytes is taken for a signed one.
NegativeLength(m) ==
    m.payloadLengthLength = 8 /\ Native(SubSeq(m.header, 3, 10))[1] >= 128

\* A read makes the machine store outside its buffer.  What it brings of a payload
\* that is not masked is one write, from where the payload stood before the read,
\* and the buffer is doubled once for it, whether that makes room or not; bytes
\* with a mask are written one by one.
Overruns(m, bytes) ==
    \E i \in 0..Len(bytes) :
        LET after == ReadMachineAdvance(Progress(m, <<>>), SubSeq(bytes, 1, i)).m
            length == Len(after.payload)
            start == IF length > i THEN length - i ELSE 0
        IN /\ HeaderRead(after)
           /\ \/ NegativeLength(after)
              \/ /\ i < Len(bytes) /\ ~after.header[2].masked
                 /\ length + 1 > 2 * BufferRoom(start)

\* A read that ends in the middle of a header returns FALSE, also when it has
\* completed a message before.
HasMessage(p) == p.ready /\ (p.m.header = <<>> \/ HeaderRead(p.m))

-----------------------------------------------------------------------------
(* The conversation.                                                       *)

\* makeWSSession.
SocketInitWith(fs) ==
    /\ frames = fs
    /\ taken = 0
    /\ machine = NewReadMachine
    /\ inbox = <<>>
    /\ work = <<>>
    /\ printer = [text |-> <<>>, split |-> FALSE]
    /\ handled = <<>>
    /\ written = <<>>
    /\ shouldClose = FALSE
    /\ overrun = FALSE

SocketInit == \E fs \in Conversations : SocketInitWith(fs)

MessageReceived == [code |-> "MESSAGE_RECEIVED", buffer |-> <<>>]

\* doWSReadWork, when the socket has bytes to read and the conversation is to
\* go on (handlePeerSocketRead).
DoWSReadWork(n) ==
    LET bytes == SubSeq(Stream(frames), taken + 1, taken + n)
        p == ReadMachineAdvance(Progress(machine, inbox), bytes)
    IN /\ work = <<>> /\ ~shouldClose
       /\ taken + n <= Len(Stream(frames))
       /\ ~Overruns(machine, bytes)
       /\ taken' = taken + n
       /\ machine' = p.m
       /\ inbox' = p.inbox
       /\ work' = IF HasMessage(p) THEN Append(p.work, MessageReceived) ELSE p.work
       /\ UNCHANGED <<frames, printer, handled, written, shouldClose, overrun>>

ReadOverruns(n) ==
    /\ work = <<>> /\ ~shouldClose
    /\ taken + n <= Len(Stream(frames))
    /\ Overruns(machine, SubSeq(Stream(frames), taken + 1, taken + n))
    /\ overrun' = TRUE
    /\ UNCHANGED <<frames, taken, machine, inbox, work, printer, handled, written, shouldClose>>

\* The stream of the client has ended: the read brings nothing.
ReadNothing ==
    /\ work = <<>> /\ ~shouldClose
    /\ taken = Len(Stream(frames))
    /\ shouldClose' = TRUE
    /\ UNCHANGED <<frames, taken, machine, inbox, work, printer, handled, written, overrun>>

\* wsMessageEnqueue: the frame is the first outputFramePos characters of the
\* buffer, converted.
MessageEnqueue(isLastFrame, text) ==
    [code |-> "OUTPUT",
     buffer |-> AddNewWSFrame(FALSE, isLastFrame, [i \in 1..Len(text) |-> Utf8[text[i]]])]

\* wsJsonWriteCallback: a text that does not fit sends the frame with what was
\* there before, and what does not fit begins the next frame.
JsonWrite(jp, text) ==
    LET remaining == FrameSize - Len(jp.text)
    IN IF Len(text) < remaining
       THEN [jp EXCEPT !.text = @ \o text]
       ELSE [text |-> SubSeq(text, remaining + 1, Len(text)), split |-> TRUE,
             work |-> Append(jp.work, MessageEnqueue(FALSE, jp.text))]

\* Faulty: the text printed stays in the buffer.
FlushJsonOnly(jp) == [jp EXCEPT !.work = Append(@, MessageEnqueue(TRUE, jp.text))]

\* flushWSJsonPrinting.
FlushJson(jp) ==
    [jp EXCEPT !.work = Append(@, MessageEnqueue(TRUE, jp.text)), !.text = <<>>]

\* The handler of the application: it prints the message between brackets.
Character(byte) == CHOOSE c \in DOMAIN Utf8 : Utf8[c] = byte
Text(message) == [i \in 1..Len(message) |-> Character(message[i])]
OnMessage(jp, message) ==
    FlushJson(JsonWrite(JsonWrite(JsonWrite(jp, <<"[">>), Text(message)), <<"]">>))

\* HTTP_WS_MESSAGE_RECEIVED: the handler gets every message of the queue.
HandleMessages ==
    LET after[i \in 0..Len(inbox)] ==
            IF i = 0 THEN [text |-> printer.text, split |-> printer.split, work |-> <<>>]
            ELSE OnMessage(after[i - 1], inbox[i])
        jp == after[Len(inbox)]
    IN /\ work # <<>> /\ Head(work).code = "MESSAGE_RECEIVED"
       /\ handled' = handled \o inbox
       /\ inbox' = <<>>
       /\ printer' = [text |-> jp.text, split |-> jp.split]
       /\ work' = Tail(work) \o jp.work
       /\ UNCHANGED <<frames, taken, machine, written, shouldClose, overrun>>

\* HTTP_WS_CLOSE_HANDSHAKE and HTTP_WS_OUTPUT.
WriteOutput ==
    /\ work # <<>> /\ Head(work).code \in {"CLOSE_HANDSHAKE", "OUTPUT"}
    /\ written' = written \o Head(work).buffer
    /\ shouldClose' = (shouldClose \/ Head(work).code = "CLOSE_HANDSHAKE")
    /\ work' = Tail(work)
    /\ UNCHANGED <<frames, taken, machine, inbox, printer, handled, overrun>>

SocketNext ==
    /\ ~overrun
    /\ \/ \E n \in Reads : DoWSReadWork(n) \/ ReadOverruns(n)
       \/ ReadNothing \/ HandleMessages \/ WriteOutput

SocketSpec == SocketInit /\ [][SocketNext]_socketVars

-----------------------------------------------------------------------------
(* What a client may count on.                                             *)

\* The messages of a sequence of frames: each ends with a frame that has FIN, so
\* the frames of the n-th message are those with n - 1 such frames before them.
EndsBefore(fs, i) == Cardinality({j \in 1..(i - 1) : fs[j].fin})
FramesOf(fs, n) == {i \in 1..Len(fs) : EndsBefore(fs, i) = n - 1}
FirstOf(fs, n) == CHOOSE i \in FramesOf(fs, n) : \A j \in FramesOf(fs, n) : i <= j
Message(fs, n) ==
    FlattenSeq([j \in 1..Cardinality(FramesOf(fs, n)) |-> fs[FirstOf(fs, n) + j - 1].data])
Messages(fs) == [n \in 1..EndsBefore(fs, Len(fs) + 1) |-> Message(fs, n)]

\* What the read machine makes of bytes, as a client reads them where the order of
\* the system is that of the network.
Decoded(bytes) == ReadMachineAdvance(Progress(NewReadMachine, <<>>), bytes).inbox

Ended == work = <<>> /\ shouldClose

\* The length is in the second byte, or the order of its bytes is the system's.
Ordered(frame) == BigEndian \/ LengthLength(Len(frame.data)) = 0

\* Where the lengths of the frames are read as they were meant: however the stream
\* is cut into reads, the handler is given the messages the client has sent,
\* unmasked, whole and in their order, as nothing of a frame stays in the machine
\* for the next; and a client that masks its frames makes no buffer overrun
\* (readMachineAdvance, writeToBigBuffer, c/httpserver.c:563-577, 705-859).
MessagesAsSent ==
    (\A i \in 1..Len(frames) : Ordered(frames[i])) =>
        /\ (\A i \in 1..Len(frames) : frames[i].mask # <<>>) => ~overrun
        /\ ~overrun => IsPrefix(handled \o inbox, Messages(frames))
        /\ ~overrun /\ Ended /\ (\A i \in 1..Len(frames) : ~frames[i].control) =>
               handled = Messages(frames)

\* What control frames have as their payload.
ControlTexts(fs) == {fs[i].data : i \in {j \in 1..Len(fs) : fs[j].control}}

\* What the handler answers, and what there is of that among texts a client reads.
Echo(message) == <<Utf8["["]>> \o message \o <<Utf8["]"]>>
Echoes(messages) == [i \in 1..Len(messages) |-> Echo(messages[i])]
Answer(fs, text) == IF text \in ControlTexts(fs) THEN <<>> ELSE <<text>>
Answers(fs, texts) == FlattenSeq([i \in 1..Len(texts) |-> Answer(fs, texts[i])])

\* No control frame is in the middle of a message or has a payload that begins like
\* an answer of the handler, and every payload is a text.
Orderly(fs) ==
    \A i \in 1..Len(fs) :
        /\ \A j \in 1..Len(fs[i].data) : \E c \in DOMAIN Utf8 : Utf8[c] = fs[i].data[j]
        /\ fs[i].control =>
               /\ fs[i].fin
               /\ i > 1 => fs[i - 1].fin
               /\ fs[i].data # <<>> => fs[i].data[1] # Utf8["["]

\* The echo of a message fits the frame of the printer, with a byte to spare.
Fits(message) == Len(message) + 2 < FrameSize

\* Where the order of the bytes is that of the network, what the server writes is
\* whole frames that a client reads as they were meant: besides answers to control
\* frames with their payload, the echoes of the messages handled in their order, up
\* to any moment, and all of them at the end, as long as they fit the frame of the
\* printer (addNewWSFrame, wsJsonWriteCallback, wsMessageClose, c/httpserver.c:650-703,
\* 921-992).
AnswersAsWritten ==
    LET answers == Answers(frames, Decoded(written))
    IN /\ BigEndian /\ ~overrun /\ Orderly(frames)
       /\ \A i \in 1..Len(handled) : Fits(handled[i])
       => /\ IsPrefix(answers, Echoes(handled))
          /\ Ended => answers = Echoes(handled)
=============================================================================
