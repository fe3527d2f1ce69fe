-------------------------- MODULE WebSocketProofs --------------------------
(***************************************************************************)
(* What holds of WebSocket however the stream of a client is cut into      *)
(* reads, where the lengths of its frames are read as they were meant      *)
(* (Ordered) and nothing has been stored outside the buffer of a payload:  *)
(* the handler is given the messages sent, unmasked, whole and in their    *)
(* order, and the client the answers to them that fit the printer's frame. *)
(* Masked frames never make the buffer overrun (NoOverrun).                *)
(*                                                                         *)
(* MachineInv says of every number of bytes read which frame the machine   *)
(* is in and what it must hold there (Within), and that the messages       *)
(* handed over are those of the frames that are complete.  A byte takes    *)
(* the machine from one such state to the next (ByteAdvances), so a read   *)
(* of any length does (ReadAdvances).                                      *)
(*                                                                         *)
(* AnswerInv says that what has been written and what waits to be written  *)
(* are the frames of one sequence (Answered), whose payloads, but for the  *)
(* answers to control frames, are the echoes of the messages handled.  A   *)
(* client reads these frames with the read machine, so ReadAdvances also   *)
(* says what it makes of them (DecodedIs).                                 *)
(***************************************************************************)
EXTENDS WebSocket, SequenceTheorems, FiniteSetTheorems, WellFoundedInduction, TLAPS

-----------------------------------------------------------------------------
(* The read machine within a frame.                                        *)

\* The frames whose lengths are read as they were meant.
OrderedFrames == {f \in FrameSet : Ordered(f)}

\* The length of the header of a frame.
Need(f) == 2 + LengthLength(Len(f.data)) + Len(f.mask)

Machine(header, need, lengths, length, payload, mask, modulus, message) ==
    [header |-> header, headerNeed |-> need, payloadLengthLength |-> lengths,
     payloadLength |-> length, payload |-> payload, maskBytes |-> mask,
     maskModulus |-> modulus, message |-> message]

\* Between two frames nothing is left of the first but its mask, and the parts of
\* the message that is not complete.
Between(mask, message) == Machine(<<>>, 0, 0, 0, <<>>, mask, 0, message)

\* After o bytes of f, all of them of the header.
InHeader(f, o, mask, message) ==
    Machine(SubSeq(Encode(f), 1, o), IF o = 1 THEN 0 ELSE Need(f),
            IF o = 1 THEN 0 ELSE LengthLength(Len(f.data)), 0, <<>>, mask, 0, message)

\* After the header of f and n bytes of its payload.
InPayload(f, n, mask, message) ==
    Machine(SubSeq(Encode(f), 1, Need(f)), Need(f), LengthLength(Len(f.data)), Len(f.data),
            SubSeq(f.data, 1, n), mask, IF f.mask = <<>> THEN 0 ELSE n % 4, message)

\* After o bytes of f, fewer than it has.
Within(f, o, m, mask, message) ==
    \/ o = 0 /\ m = Between(mask, message)
    \/ o \in 1..(Need(f) - 1) /\ m = InHeader(f, o, mask, message)
    \/ /\ o - Need(f) \in 0..(Len(f.data) - 1)
       /\ f.mask # <<>> => mask = f.mask
       /\ m = InPayload(f, o - Need(f), mask, message)

-----------------------------------------------------------------------------
(* The invariant.                                                          *)

\* The bytes of the first k frames.
Sent(fs, k) == Stream(SubSeq(fs, 1, k))

\* The message is gathered from the frames after the last one with FIN.
Gathered(fs, k, message) ==
    \E b \in 0..k :
        /\ b = 0 \/ fs[b].fin
        /\ \A j \in (b + 1)..k : ~fs[j].fin
        /\ message = [j \in 1..(k - b) |-> fs[b + j].data]

\* The messages that end among the first k frames.
EndedIn(fs, k) == SubSeq(Messages(fs), 1, EndsBefore(fs, k + 1))

\* i bytes are the first k frames and o bytes of the next; the messages among
\* these frames are complete.
ReadAs(fs, i, m, got, k, o) ==
    /\ k \in 0..Len(fs) /\ o \in Nat
    /\ i = Len(Sent(fs, k)) + o
    /\ \E mask : IF k = Len(fs) THEN o = 0 /\ m = Between(mask, m.message)
                                ELSE Within(fs[k + 1], o, m, mask, m.message)
    /\ Gathered(fs, k, m.message)
    /\ got = EndedIn(fs, k)

Reading(fs, i, m, got) == \E k, o : ReadAs(fs, i, m, got, k, o)

HasControl(fs) == \E j \in 1..Len(fs) : fs[j].control

\* Only a control frame is answered by a close frame.
ClosesJustly(fs, elements) ==
    \E W : /\ elements \in Seq(W)
           /\ \A w \in W : w.code = "CLOSE_HANDSHAKE" => HasControl(fs)

\* No control frame is in the middle of a message.
Apart(fs) ==
    \A j \in 1..Len(fs) : fs[j].control => fs[j].fin /\ (j > 1 => fs[j - 1].fin)

\* The frames of the server, and the work elements with them.
Reply(control, data) == [fin |-> TRUE, control |-> control, mask |-> <<>>, data |-> data]
Element(f) ==
    [code |-> IF f.control THEN "CLOSE_HANDSHAKE" ELSE "OUTPUT", buffer |-> Encode(f)]
Closings(fs) ==
    {[code |-> "CLOSE_HANDSHAKE", buffer |-> AddNewWSFrame(TRUE, TRUE, data)] :
        data \in ControlTexts(fs)}

Codes == {Utf8[c] : c \in DOMAIN Utf8}
Readable(fs) == \A j \in 1..Len(fs) : fs[j].data \in Seq(Codes)

Texts(fs) == {Message(fs, n) : n \in 1..EndsBefore(fs, Len(fs) + 1)}

\* Whoever has messages to handle will be told, unless a frame has begun.
Told(queue, m, elements) ==
    queue # <<>> /\ m.header = <<>> =>
        \E j \in 1..Len(elements) : elements[j].code = "MESSAGE_RECEIVED"

MachineInv ==
    /\ frames \in Seq(OrderedFrames)
    /\ taken \in 0..Len(Stream(frames))
    /\ handled \in Seq(Texts(frames)) /\ inbox \in Seq(Texts(frames))
    /\ Readable(frames) => handled \in Seq(Seq(Codes)) /\ inbox \in Seq(Seq(Codes))
    /\ Reading(frames, taken, machine, handled \o inbox)
    /\ ClosesJustly(frames, work)
    /\ Told(inbox, machine, work)
    /\ shouldClose \in BOOLEAN
    /\ shouldClose => taken = Len(Stream(frames)) \/ HasControl(frames)

-----------------------------------------------------------------------------
(* The concatenation of sequences (FlattenSeq).                            *)

LEMMA Smallest ==
    ASSUME NEW T, T \subseteq Nat, T # {}
    PROVE  \E x \in T : \A y \in T : x <= y
<1>1. PICK x \in T : \A y \in T : ~(<<y, x>> \in OpToRel(<, Nat))
  BY WFMin, NatLessThanWellFounded
<1>2. \A y \in T : ~(y < x)
  BY <1>1 DEF OpToRel
<1> QED BY <1>2

\* The recursion of FlattenSeq.
Flat(s, n, g) == g = [i \in 1..n |-> IF i = 1 THEN s[i] ELSE g[i - 1] \o s[i]]

LEMMA FlatAt ==
    ASSUME NEW s, NEW n \in Nat, NEW g, Flat(s, n, g), NEW i \in 1..n
    PROVE  g[i] = IF i = 1 THEN s[i] ELSE g[i - 1] \o s[i]
BY Zenon DEF Flat

LEMMA FlatSome ==
    ASSUME NEW s, NEW n \in Nat
    PROVE  \E g : Flat(s, n, g)
<1> DEFINE T == {k \in Nat : ~\E g : Flat(s, k, g)}
<1>1. ASSUME T # {} PROVE FALSE
  <2>0. T \subseteq Nat
    OBVIOUS
  <2>1. PICK k \in T : \A y \in T : k <= y
    <3> HIDE DEF T
    <3> QED BY <1>1, <2>0, Smallest
  <2>2. k \in Nat /\ ~\E g : Flat(s, k, g)
    BY <2>1
  <2>3. k # 0
    <3>1. Flat(s, 0, [i \in 1..0 |-> 0])
      BY DEF Flat
    <3> QED BY <2>2, <3>1
  <2>4. k - 1 \in Nat /\ k - 1 \notin T
    BY <2>1, <2>2, <2>3
  <2>5. PICK g : Flat(s, k - 1, g)
    BY <2>4
  <2> DEFINE last == IF k = 1 THEN s[k] ELSE g[k - 1] \o s[k]
             h == [i \in 1..k |-> IF i = k THEN last ELSE g[i]]
  <2>6. h[k] = last /\ \A i \in 1..(k - 1) : h[i] = g[i]
    <3> HIDE DEF last
    <3> QED BY <2>2, <2>3
  <2>7. \A i \in 1..(k - 1) : g[i] = IF i = 1 THEN s[i] ELSE g[i - 1] \o s[i]
    BY <2>5 DEF Flat
  <2>8. ASSUME NEW i \in 1..k
        PROVE  h[i] = IF i = 1 THEN s[i] ELSE h[i - 1] \o s[i]
    <3>1. CASE i = k
      <4>1. CASE k = 1
        BY <2>6, <3>1, <4>1
      <4>2. CASE k # 1
        <5>1. k - 1 \in 1..(k - 1)
          BY <2>2, <2>3, <4>2
        <5>2. h[k - 1] = g[k - 1]
          BY <2>6, <5>1
        <5> QED BY <2>6, <3>1, <4>2, <5>2
      <4> QED BY <4>1, <4>2
    <3>2. CASE i # k
      <4>1. i \in 1..(k - 1) /\ (i # 1 => i - 1 \in 1..(k - 1))
        BY <2>2, <3>2
      <4>2. h[i] = g[i] /\ (i # 1 => h[i - 1] = g[i - 1])
        BY <2>6, <4>1
      <4>3. g[i] = IF i = 1 THEN s[i] ELSE g[i - 1] \o s[i]
        BY <2>7, <4>1
      <4> QED BY <4>2, <4>3
    <3> QED BY <3>1, <3>2
  <2>9. h = [i \in 1..k |-> h[i]]
    BY DEF h
  <2>10. Flat(s, k, h)
    <3> HIDE DEF h
    <3>1. [i \in 1..k |-> h[i]] = [i \in 1..k |-> IF i = 1 THEN s[i] ELSE h[i - 1] \o s[i]]
      BY <2>8
    <3> QED BY <2>9, <3>1 DEF Flat
  <2> QED BY <2>2, <2>10
<1> QED BY <1>1

\* FlattenSeq has the recursion it asks for.
LEMMA FlattenIs ==
    ASSUME NEW s, Len(s) \in Nat, Len(s) # 0
    PROVE  \E g : Flat(s, Len(s), g) /\ FlattenSeq(s) = g[Len(s)]
<1> DEFINE g == CHOOSE g : g = [i \in 1..Len(s) |-> IF i = 1 THEN s[i] ELSE g[i - 1] \o s[i]]
<1>1. \E h : h = [i \in 1..Len(s) |-> IF i = 1 THEN s[i] ELSE h[i - 1] \o s[i]]
  BY FlatSome DEF Flat
<1>2. g = [i \in 1..Len(s) |-> IF i = 1 THEN s[i] ELSE g[i - 1] \o s[i]]
  BY <1>1
<1>3. FlattenSeq(s) = g[Len(s)]
  BY DEF FlattenSeq
<1>4. Flat(s, Len(s), g)
  BY <1>2 DEF Flat
<1> QED BY <1>3, <1>4

Agree(s, t, n) == \A i \in 1..n : s[i] = t[i]

LEMMA FlatAgree ==
    ASSUME NEW s, NEW t, NEW n \in Nat, NEW m \in Nat, n <= m, NEW g, NEW h,
           Flat(s, n, g), Flat(t, m, h), Agree(s, t, n)
    PROVE  Agree(g, h, n)
<1> DEFINE T == {i \in Nat : i \in 1..n /\ g[i] # h[i]}
<1>1. ASSUME T # {} PROVE FALSE
  <2>0. T \subseteq Nat
    OBVIOUS
  <2>1. PICK k \in T : \A y \in T : k <= y
    <3> HIDE DEF T
    <3> QED BY <1>1, <2>0, Smallest
  <2>2. k \in 1..n /\ k \in 1..m /\ g[k] # h[k]
    BY <2>1
  <2>3. g[k] = IF k = 1 THEN s[k] ELSE g[k - 1] \o s[k]
    BY <2>2 DEF Flat
  <2>4. h[k] = IF k = 1 THEN t[k] ELSE h[k - 1] \o t[k]
    BY <2>2 DEF Flat
  <2>5. s[k] = t[k]
    BY <2>2 DEF Agree
  <2>6. CASE k = 1
    BY <2>2, <2>3, <2>4, <2>5, <2>6
  <2>7. CASE k # 1
    <3>1. k - 1 \in 1..n /\ k - 1 \notin T
      BY <2>1, <2>2, <2>7
    <3>2. g[k - 1] = h[k - 1]
      BY <3>1
    <3> QED BY <2>2, <2>3, <2>4, <2>5, <2>7, <3>2
  <2> QED BY <2>6, <2>7
<1> QED BY <1>1 DEF Agree

LEMMA FlatType ==
    ASSUME NEW S, NEW s \in Seq(Seq(S)), NEW g, Flat(s, Len(s), g)
    PROVE  \A i \in 1..Len(s) : g[i] \in Seq(S)
<1> DEFINE T == {i \in Nat : i \in 1..Len(s) /\ g[i] \notin Seq(S)}
<1>1. ASSUME T # {} PROVE FALSE
  <2>0. T \subseteq Nat
    OBVIOUS
  <2>1. PICK k \in T : \A y \in T : k <= y
    <3> HIDE DEF T
    <3> QED BY <1>1, <2>0, Smallest
  <2>2. k \in 1..Len(s) /\ g[k] \notin Seq(S)
    BY <2>1
  <2>3. g[k] = IF k = 1 THEN s[k] ELSE g[k - 1] \o s[k]
    BY <2>2 DEF Flat
  <2>4. s[k] \in Seq(S)
    BY <2>2
  <2>5. CASE k = 1
    BY <2>2, <2>3, <2>4, <2>5
  <2>6. CASE k # 1
    <3>1. k - 1 \in 1..Len(s) /\ k - 1 \notin T
      BY <2>1, <2>2, <2>6
    <3>2. g[k - 1] \in Seq(S)
      BY <3>1
    <3>3. g[k - 1] \o s[k] \in Seq(S)
      BY <2>4, <3>2, ConcatProperties
    <3> QED BY <2>2, <2>3, <2>6, <3>3
  <2> QED BY <2>5, <2>6
<1> QED BY <1>1

LEMMA FlattenType ==
    ASSUME NEW S, NEW s \in Seq(Seq(S))
    PROVE  FlattenSeq(s) \in Seq(S)
<1>0. Len(s) \in Nat
  OBVIOUS
<1>1. CASE Len(s) = 0
  <2>1. s = <<>>
    BY <1>1, EmptySeq
  <2>2. FlattenSeq(s) = s
    BY <1>1 DEF FlattenSeq
  <2>3. <<>> \in Seq(S)
    BY EmptySeq
  <2> QED BY <2>1, <2>2, <2>3
<1>2. CASE Len(s) # 0
  <2>1. PICK g : Flat(s, Len(s), g) /\ FlattenSeq(s) = g[Len(s)]
    BY <1>0, <1>2, FlattenIs
  <2>2. Len(s) \in 1..Len(s)
    BY <1>0, <1>2
  <2> QED BY <2>1, <2>2, FlatType
<1> QED BY <1>1, <1>2

LEMMA FlattenAppend ==
    ASSUME NEW S, NEW s \in Seq(Seq(S)), NEW e \in Seq(S)
    PROVE  FlattenSeq(Append(s, e)) = FlattenSeq(s) \o e
<1> DEFINE t == Append(s, e)
           n == Len(s)
           k == n + 1
<1>1. Len(s) = n /\ n \in Nat /\ k \in Nat /\ k # 0 /\ n <= k /\ k - 1 = n /\ (n = 0 <=> k = 1)
  OBVIOUS
<1>2. Len(t) = k /\ t[k] = e /\ Agree(s, t, n)
  BY DEF Agree
<1> HIDE DEF t, n, k
<1>3. PICK h : Flat(t, k, h) /\ FlattenSeq(t) = h[k]
  BY <1>1, <1>2, FlattenIs
<1>4. h[k] = IF k = 1 THEN t[k] ELSE h[k - 1] \o t[k]
  <2>1. k \in 1..k
    BY <1>1
  <2> QED BY <1>3, <2>1, Zenon DEF Flat
<1>5. CASE n = 0
  <2>1. FlattenSeq(s) = <<>>
    <3>1. s = <<>>
      BY <1>1, <1>5, EmptySeq
    <3>2. FlattenSeq(s) = s
      BY <1>1, <1>5 DEF FlattenSeq
    <3> QED BY <3>1, <3>2
  <2>2. <<>> \o e = e
    OBVIOUS
  <2>3. h[k] = e
    BY <1>1, <1>2, <1>4, <1>5
  <2> QED BY <1>3, <2>1, <2>2, <2>3 DEF t
<1>6. CASE n # 0
  <2>1. PICK g : Flat(s, n, g) /\ FlattenSeq(s) = g[n]
    BY <1>1, <1>6, FlattenIs
  <2>2. Agree(g, h, n)
    BY <1>1, <1>2, <1>3, <2>1, FlatAgree
  <2>3. g[n] = h[n]
    <3>1. n \in 1..n
      BY <1>1, <1>6
    <3> QED BY <2>2, <3>1 DEF Agree
  <2>4. h[k] = h[n] \o e
    BY <1>1, <1>2, <1>4, <1>6
  <2> QED BY <1>3, <2>1, <2>3, <2>4 DEF t
<1> QED BY <1>5, <1>6

-----------------------------------------------------------------------------
(* What a frame is on the wire.                                            *)

Bytes == [fin : BOOLEAN, control : BOOLEAN] \cup [masked : BOOLEAN, length : Nat] \cup Nat

\* Where the parts of a concatenation are.
Joined(c, a, b) ==
    /\ Len(c) = Len(a) + Len(b)
    /\ \A i \in 1..Len(a) : c[i] = a[i]
    /\ \A i \in 1..Len(b) : c[Len(a) + i] = b[i]

LEMMA Parts ==
    ASSUME NEW S, NEW a \in Seq(S), NEW b \in Seq(S)
    PROVE  a \o b \in Seq(S) /\ Joined(a \o b, a, b)
<1>1. Len(a) \in Nat /\ Len(b) \in Nat
  OBVIOUS
<1>2. a \o b \in Seq(S) /\ Len(a \o b) = Len(a) + Len(b)
  OBVIOUS
<1>3. ASSUME NEW i \in 1..Len(a) PROVE (a \o b)[i] = a[i]
  OBVIOUS
<1>4. ASSUME NEW i \in 1..Len(b) PROVE (a \o b)[Len(a) + i] = b[i]
  <2>1. Len(a) + i \in 1..(Len(a) + Len(b)) /\ Len(a) + i > Len(a) /\ Len(a) + i - Len(a) = i
    BY <1>1
  <2> QED BY <1>1, <2>1
<1> QED BY <1>2, <1>3, <1>4 DEF Joined

LEMMA TupleType ==
    ASSUME NEW S, NEW n \in Nat, NEW a \in [1..n -> S]
    PROVE  a \in Seq(S) /\ Len(a) = n
OBVIOUS

LEMMA MaskType ==
    ASSUME NEW f \in OrderedFrames
    PROVE  /\ f.mask \in Seq({0, 1}) /\ f.data \in Seq(Nat) /\ Len(f.data) \in Nat
           /\ f.mask # <<>> => f.data \in Seq({0, 1})
           /\ f.fin \in BOOLEAN /\ f.control \in BOOLEAN
           /\ f.mask = <<>> => Len(f.mask) = 0
           /\ f.mask # <<>> => Len(f.mask) = 4
<1>1. /\ f.mask \in {<<>>} \cup [1..4 -> {0, 1}] /\ f.data \in Seq(Nat)
      /\ f.mask # <<>> => f.data \in Seq({0, 1})
      /\ f.fin \in BOOLEAN /\ f.control \in BOOLEAN
  BY DEF OrderedFrames, FrameSet
<1>2. Len(f.data) \in Nat
  BY <1>1
<1>3. CASE f.mask = <<>>
  BY <1>1, <1>2, <1>3
<1>4. CASE f.mask # <<>>
  <2>1. f.mask \in [1..4 -> {0, 1}]
    BY <1>1, <1>4
  <2>2. 4 \in Nat
    OBVIOUS
  <2>3. f.mask \in Seq({0, 1}) /\ Len(f.mask) = 4
    BY <2>1, <2>2, TupleType
  <2> QED BY <1>1, <1>2, <1>4, <2>3
<1> QED BY <1>3, <1>4

LEMMA LengthType ==
    ASSUME NEW n \in Nat
    PROVE  /\ LengthLength(n) \in {0, 2, 8}
           /\ LengthBytes(n) \in Seq(Nat) /\ Len(LengthBytes(n)) = LengthLength(n)
           /\ LengthCode(n) \in Nat
           /\ LengthLength(n) = 0 => LengthCode(n) = n /\ n < 126
           /\ LengthLength(n) = 2 => LengthCode(n) = 126
           /\ LengthLength(n) = 8 => LengthCode(n) = 127
<1>1. LengthLength(n) \in {0, 2, 8}
  BY DEF LengthLength
<1>2. /\ n \div 16777216 \in Nat /\ n \div 65536 \in Nat /\ n \div 256 \in Nat
      /\ (n \div 65536) % 256 \in Nat /\ (n \div 256) % 256 \in Nat /\ n % 256 \in Nat
  OBVIOUS
<1>6. LengthLength(n) = 0 => n < 126
  BY SocketAssumption DEF LengthLength
<1>7. CASE LengthLength(n) = 0
  <2>1. LengthBytes(n) = <<>>
    BY <1>7 DEF LengthBytes
  <2> QED BY <1>6, <1>7, <2>1 DEF LengthCode
<1>8. CASE LengthLength(n) = 2
  <2>1. LengthBytes(n) = <<n \div 256, n % 256>>
    BY <1>8 DEF LengthBytes
  <2>2. LengthBytes(n) \in Seq(Nat) /\ Len(LengthBytes(n)) = 2
    BY <1>2, <2>1
  <2> QED BY <1>8, <2>2 DEF LengthCode
<1>9. CASE LengthLength(n) = 8
  <2> DEFINE a == n \div 16777216
             b == (n \div 65536) % 256
             c == (n \div 256) % 256
             d == n % 256
  <2>1. LengthBytes(n) = <<0, 0, 0, 0, a, b, c, d>>
    BY <1>9 DEF LengthBytes
  <2>2. a \in Nat /\ b \in Nat /\ c \in Nat /\ d \in Nat
    BY <1>2
  <2> HIDE DEF a, b, c, d
  <2>3. LengthBytes(n) \in Seq(Nat) /\ Len(LengthBytes(n)) = 8
    BY <2>1, <2>2
  <2> QED BY <1>9, <2>3 DEF LengthCode
<1> QED BY <1>1, <1>7, <1>8, <1>9

\* A length in several bytes is read as it was meant where the order of the system
\* is that of the network.
LEMMA LengthRead ==
    ASSUME NEW n \in Nat, BigEndian, LengthLength(n) # 0
    PROVE  Number(Native(LengthBytes(n))) = n
<1>1. Native(LengthBytes(n)) = LengthBytes(n)
  BY DEF Native
<1> DEFINE a == n \div 16777216
           b == (n \div 65536) % 256
           c == (n \div 256) % 256
           d == n % 256
<1>2. a \in Nat /\ b \in Nat /\ c \in Nat /\ d \in Nat
  OBVIOUS
<1>3. n = 256 * (n \div 256) + d
  OBVIOUS
<1>4. n \div 256 = 256 * (n \div 65536) + c
  <2>1. (n \div 256) \div 256 = n \div 65536
    OBVIOUS
  <2>2. n \div 256 \in Nat
    OBVIOUS
  <2>3. n \div 256 = 256 * ((n \div 256) \div 256) + c
    BY <2>2
  <2> QED BY <2>1, <2>3
<1>5. n \div 65536 = 256 * a + b
  <2>1. (n \div 65536) \div 256 = a
    OBVIOUS
  <2>2. n \div 65536 \in Nat
    OBVIOUS
  <2>3. n \div 65536 = 256 * ((n \div 65536) \div 256) + b
    BY <2>2
  <2> QED BY <2>1, <2>3
<1>6. CASE LengthLength(n) = 2
  <2> DEFINE e == n \div 256
  <2>1. LengthBytes(n) = <<e, d>>
    BY <1>6 DEF LengthBytes
  <2> HIDE DEF e, d
  <2>2. Number(<<e, d>>) = 256 * e + d
    BY DEF Number
  <2> QED BY <1>1, <1>3, <2>1, <2>2 DEF e
<1>7. CASE LengthLength(n) = 8
  <2>1. LengthBytes(n) = <<0, 0, 0, 0, a, b, c, d>>
    BY <1>7 DEF LengthBytes
  <2>2. n = 256 * (256 * (256 * a + b) + c) + d
    BY <1>3, <1>4, <1>5
  <2> HIDE DEF a, b, c, d
  <2>3. Number(<<0, 0, 0, 0, a, b, c, d>>) = 256 * (256 * (256 * a + b) + c) + d
    BY <1>2 DEF Number
  <2> QED BY <1>1, <2>1, <2>2, <2>3
<1>8. LengthLength(n) \in {0, 2, 8}
  BY LengthType
<1> QED BY <1>6, <1>7, <1>8

LEMMA NeedType ==
    ASSUME NEW f \in OrderedFrames
    PROVE  /\ Need(f) \in Nat /\ Need(f) >= 2 /\ Len(f.data) \in Nat
           /\ Need(f) = 2 + LengthLength(Len(f.data)) + Len(f.mask)
           /\ LengthLength(Len(f.data)) \in {0, 2, 8} /\ Len(f.mask) \in {0, 4}
<1>1. Len(f.data) \in Nat /\ Len(f.mask) \in {0, 4}
  BY MaskType
<1>2. LengthLength(Len(f.data)) \in {0, 2, 8}
  BY <1>1, LengthType
<1>3. Need(f) = 2 + LengthLength(Len(f.data)) + Len(f.mask)
  BY DEF Need
<1> QED BY <1>1, <1>2, <1>3

\* Where the length, the mask and the payload of a frame are.
LengthAt(f) ==
    \A i \in 1..LengthLength(Len(f.data)) : Encode(f)[2 + i] = LengthBytes(Len(f.data))[i]
MaskAt(f) ==
    \A i \in 1..Len(f.mask) : Encode(f)[LengthLength(Len(f.data)) + 2 + i] = f.mask[i]
DataAt(f) ==
    \A i \in 1..Len(f.data) :
        Encode(f)[Need(f) + i] = IF f.mask = <<>> THEN f.data[i]
                                 ELSE Xor(f.data[i], f.mask[((i - 1) % 4) + 1])

LEMMA EncodeIs ==
    ASSUME NEW f \in OrderedFrames
    PROVE  /\ Encode(f) \in Seq(Bytes)
           /\ Len(Encode(f)) = Need(f) + Len(f.data)
           /\ Encode(f)[1] = [fin |-> f.fin, control |-> f.control]
           /\ Encode(f)[2] = [masked |-> f.mask # <<>>, length |-> LengthCode(Len(f.data))]
           /\ LengthAt(f)
           /\ MaskAt(f)
           /\ DataAt(f)
<1> DEFINE n == Len(f.data)
           L == LengthLength(n)
           first == [fin |-> f.fin, control |-> f.control]
           second == [masked |-> f.mask # <<>>, length |-> LengthCode(n)]
           a == <<first, second>>
           b == LengthBytes(n)
           d == [i \in 1..n |-> IF f.mask = <<>> THEN f.data[i]
                                ELSE Xor(f.data[i], f.mask[((i - 1) % 4) + 1])]
<1>1. f.mask \in Seq({0, 1}) /\ f.data \in Seq(Nat) /\ n \in Nat
  BY MaskType
<1>2. L \in {0, 2, 8} /\ b \in Seq(Nat) /\ Len(b) = L /\ LengthCode(n) \in Nat
  BY <1>1, LengthType
<1>3. a \in Seq(Bytes) /\ Len(a) = 2 /\ a[1] = first /\ a[2] = second
  <2>1. first \in [fin : BOOLEAN, control : BOOLEAN]
    BY MaskType
  <2>2. second \in [masked : BOOLEAN, length : Nat]
    BY <1>2
  <2>3. first \in Bytes /\ second \in Bytes
    BY <2>1, <2>2 DEF Bytes
  <2> HIDE DEF first, second
  <2> QED BY <2>3
<1>4. b \in Seq(Bytes)
  BY <1>2 DEF Bytes
<1>5. f.mask \in Seq(Bytes)
  BY <1>1 DEF Bytes
<1>6. d \in Seq(Bytes) /\ Len(d) = n
      /\ \A i \in 1..n : d[i] = IF f.mask = <<>> THEN f.data[i]
                                ELSE Xor(f.data[i], f.mask[((i - 1) % 4) + 1])
  <2>1. ASSUME NEW i \in 1..n
        PROVE  (IF f.mask = <<>> THEN f.data[i]
                ELSE Xor(f.data[i], f.mask[((i - 1) % 4) + 1])) \in Nat
    <3>1. f.data[i] \in Nat
      BY <1>1
    <3>2. CASE f.mask = <<>>
      BY <3>1, <3>2
    <3>3. CASE f.mask # <<>>
      <4>1. Len(f.mask) = 4 /\ f.data \in Seq({0, 1})
        BY <3>3, MaskType
      <4>0. f.data[i] \in {0, 1}
        BY <1>1, <4>1
      <4>2. ((i - 1) % 4) + 1 \in 1..4
        BY <1>1
      <4>3. f.mask[((i - 1) % 4) + 1] \in {0, 1}
        BY <1>1, <4>1, <4>2
      <4> HIDE DEF n
      <4> QED BY <3>3, <4>0, <4>3 DEF Xor
    <3> QED BY <3>2, <3>3
  <2>2. d \in [1..n -> Nat]
    BY <2>1
  <2>3. d \in Seq(Nat) /\ Len(d) = n
    <3> HIDE DEF d, n
    <3> QED BY <1>1, <2>2, TupleType
  <2>4. \A i \in 1..n : d[i] = IF f.mask = <<>> THEN f.data[i]
                                ELSE Xor(f.data[i], f.mask[((i - 1) % 4) + 1])
    BY Zenon
  <2> HIDE DEF d
  <2>5. d \in Seq(Bytes)
    BY <2>3 DEF Bytes
  <2> QED BY <2>3, <2>4, <2>5
<1>7. Encode(f) = a \o b \o f.mask \o d
  BY DEF Encode, EncodeWith
<1>8. Need(f) = 2 + L + Len(f.mask)
  BY DEF Need
<1>9. L \in Nat /\ Len(f.mask) \in Nat
  BY <1>1, <1>2
<1> DEFINE ab == a \o b
           abm == ab \o f.mask
<1> HIDE DEF a, b, d, L, first, second, Bytes
<1>10. ab \in Seq(Bytes) /\ Joined(ab, a, b) /\ Len(ab) = 2 + L
  <2>1. ab \in Seq(Bytes) /\ Joined(ab, a, b)
    BY <1>3, <1>4, Parts
  <2> QED BY <1>2, <1>3, <2>1 DEF Joined
<1> HIDE DEF ab
<1>11. abm \in Seq(Bytes) /\ Joined(abm, ab, f.mask) /\ Len(abm) = Need(f)
  <2>1. abm \in Seq(Bytes) /\ Joined(abm, ab, f.mask)
    BY <1>5, <1>10, Parts
  <2> QED BY <1>8, <1>10, <2>1 DEF Joined
<1>12. Encode(f) = abm \o d
  BY <1>7 DEF ab
<1> HIDE DEF abm
<1>13. Encode(f) \in Seq(Bytes) /\ Joined(Encode(f), abm, d) /\ Len(Encode(f)) = Need(f) + n
  <2>1. Encode(f) \in Seq(Bytes) /\ Joined(Encode(f), abm, d)
    BY <1>6, <1>11, <1>12, Parts
  <2> QED BY <1>6, <1>11, <2>1 DEF Joined
<1>14. ASSUME NEW i \in 1..(2 + L) PROVE Encode(f)[i] = ab[i]
  <2>0. Len(ab) = 2 + L /\ Len(abm) = 2 + L + Len(f.mask)
    BY <1>8, <1>10, <1>11
  <2>1. \A j, k, l \in Nat : j \in 1..k => j \in 1..(k + l)
    OBVIOUS
  <2>2. i \in Nat /\ i \in 1..(2 + L) /\ 2 + L \in Nat
    BY <1>9
  <2>3. i \in 1..Len(ab)
    BY <2>0, <2>2
  <2>4. i \in 1..Len(abm)
    BY <1>9, <2>0, <2>1, <2>2
  <2>5. abm[i] = ab[i]
    BY <1>11, <2>3 DEF Joined
  <2>6. Encode(f)[i] = abm[i]
    BY <1>13, <2>4 DEF Joined
  <2> QED BY <2>5, <2>6
<1>15. Encode(f)[1] = first /\ Encode(f)[2] = second
  <2>1. 1 \in 1..(2 + L) /\ 2 \in 1..(2 + L) /\ 1 \in 1..Len(a) /\ 2 \in 1..Len(a)
    BY <1>3, <1>9
  <2>2. ab[1] = a[1] /\ ab[2] = a[2]
    BY <1>10, <2>1 DEF Joined
  <2> QED BY <1>3, <1>14, <2>1, <2>2
<1>16. ASSUME NEW i \in 1..L PROVE Encode(f)[2 + i] = b[i]
  <2>1. 2 + i \in 1..(2 + L) /\ i \in 1..Len(b) /\ Len(a) + i = 2 + i
    BY <1>2, <1>3, <1>9
  <2>2. ab[Len(a) + i] = b[i]
    BY <1>10, <2>1 DEF Joined
  <2>3. Encode(f)[2 + i] = ab[2 + i]
    BY <1>14, <2>1
  <2> QED BY <2>1, <2>2, <2>3
<1>21. LengthAt(f)
  BY <1>16 DEF LengthAt, L, b
<1>17. ASSUME NEW i \in 1..Len(f.mask) PROVE Encode(f)[L + 2 + i] = f.mask[i]
  <2>1. Len(ab) + i \in 1..Len(abm) /\ L + 2 + i = Len(ab) + i
    BY <1>8, <1>9, <1>10, <1>11
  <2>2. Encode(f)[Len(ab) + i] = abm[Len(ab) + i]
    BY <1>13, <2>1 DEF Joined
  <2>3. abm[Len(ab) + i] = f.mask[i]
    BY <1>11 DEF Joined
  <2> QED BY <2>1, <2>2, <2>3
<1>18. ASSUME NEW i \in 1..n
       PROVE  Encode(f)[Need(f) + i] = IF f.mask = <<>> THEN f.data[i]
                                       ELSE Xor(f.data[i], f.mask[((i - 1) % 4) + 1])
  <2>1. Encode(f)[Len(abm) + i] = d[i]
    BY <1>6, <1>13 DEF Joined
  <2> QED BY <1>6, <1>11, <2>1
<1>19. MaskAt(f)
  BY <1>17 DEF MaskAt, L
<1>20. DataAt(f)
  BY <1>18 DEF DataAt
<1> QED BY <1>13, <1>15, <1>19, <1>20, <1>21 DEF first, second, L

-----------------------------------------------------------------------------
(* What a byte does to the machine.                                        *)

Read(m, queue, elements, close, ready) ==
    [m |-> m, inbox |-> queue, work |-> elements, shouldClose |-> close, ready |-> ready]

LEMMA OneMore ==
    ASSUME NEW S, NEW s \in Seq(S), NEW o \in Nat, o < Len(s)
    PROVE  /\ Append(SubSeq(s, 1, o), s[o + 1]) = SubSeq(s, 1, o + 1)
           /\ SubSeq(s, 1, o) \in Seq(S) /\ Len(SubSeq(s, 1, o)) = o
           /\ Len(SubSeq(s, 1, o + 1)) = o + 1
           /\ \A i \in 1..(o + 1) : SubSeq(s, 1, o + 1)[i] = s[i]
OBVIOUS

LEMMA HeaderOf ==
    ASSUME NEW header, NEW need, NEW lengths, NEW length, NEW payload, NEW mask, NEW modulus,
           NEW message, NEW queue, NEW elements, NEW close, NEW ready
    PROVE  LET p == Read(Machine(header, need, lengths, length, payload, mask, modulus, message),
                         queue, elements, close, ready)
           IN /\ p.m.header = header /\ p.m.headerNeed = need
              /\ p.m.payloadLengthLength = lengths /\ p.m.payloadLength = length
              /\ p.m.payload = payload /\ p.m.maskBytes = mask
              /\ p.m.maskModulus = modulus /\ p.m.message = message
              /\ p.inbox = queue /\ p.work = elements /\ p.shouldClose = close
              /\ p.ready = ready
BY DEF Read, Machine

WithHeader(p, header) == [p EXCEPT !.m.header = header]

\* A byte of the header other than the second.
LEMMA Added ==
    ASSUME NEW p, NEW byte, NEW header, header = Append(p.m.header, byte), Len(header) # 2,
           ~HeaderRead(p.m)
    PROVE  AdvanceByte(p, byte) =
               WhenComplete(IF HeaderRead(WithHeader(p, header).m)
                            THEN EndHeader(WithHeader(p, header)) ELSE WithHeader(p, header))
<1>1. AdvanceByte(p, byte) = AddToHeader(p, byte)
  BY DEF AdvanceByte
<1> QED BY <1>1, Zenon DEF AddToHeader, WithHeader

LEMMA FirstByte ==
    ASSUME NEW f \in OrderedFrames, NEW mask, NEW message, NEW q, NEW w, NEW c, NEW r
    PROVE  AdvanceByte(Read(Between(mask, message), q, w, c, r), Encode(f)[1])
           = Read(InHeader(f, 1, mask, message), q, w, c, r)
<1> DEFINE e == Encode(f)
           p == Read(Between(mask, message), q, w, c, r)
           t == Read(InHeader(f, 1, mask, message), q, w, c, r)
<1>1. e \in Seq(Bytes) /\ 0 < Len(e)
  <2>1. Len(f.data) \in Nat /\ Need(f) \in Nat /\ Need(f) >= 2
    BY NeedType
  <2>2. e \in Seq(Bytes) /\ Len(e) = Need(f) + Len(f.data)
    BY EncodeIs
  <2> QED BY <2>1, <2>2
<1>2. Append(<<>>, e[1]) = SubSeq(e, 1, 1) /\ Len(SubSeq(e, 1, 1)) = 1
  <2> HIDE DEF e
  <2> QED BY <1>1
<1> HIDE DEF e
<1>3. p.m.header = <<>> /\ p.m.headerNeed = 0
  BY HeaderOf DEF Between
<1>4. t.m.headerNeed = 0
  BY HeaderOf DEF InHeader
<1>5. WithHeader(p, SubSeq(e, 1, 1)) = t
  <2> DEFINE h == SubSeq(e, 1, 1)
  <2>1. t = Read(Machine(h, 0, 0, 0, <<>>, mask, 0, message), q, w, c, r)
    BY DEF InHeader, e
  <2> HIDE DEF t, h
  <2>2. WithHeader(p, h) = t
    BY <2>1 DEF Between, WithHeader, Read, Machine
  <2> QED BY <2>2 DEF h
<1> HIDE DEF p, t
<1>6. ~HeaderRead(p.m)
  BY <1>3 DEF HeaderRead
<1>7. ~HeaderRead(t.m)
  BY <1>4 DEF HeaderRead
<1>8. AdvanceByte(p, e[1]) = WhenComplete(t)
  <2> DEFINE h == SubSeq(e, 1, 1)
  <2>1. h = Append(p.m.header, e[1])
    BY <1>2, <1>3, Zenon
  <2>3. Len(h) # 2
    BY <1>2
  <2> HIDE DEF h
  <2>2. AdvanceByte(p, e[1]) =
            WhenComplete(IF HeaderRead(WithHeader(p, h).m)
                         THEN EndHeader(WithHeader(p, h)) ELSE WithHeader(p, h))
    BY <1>6, <2>1, <2>3, Added
  <2> QED BY <1>5, <1>7, <2>2, Zenon DEF h
<1>9. WhenComplete(t) = t
  BY <1>7 DEF WhenComplete
<1> QED BY <1>8, <1>9 DEF e, p, t

LEMMA BeginIs ==
    ASSUME NEW p, NEW h, NEW h0, NEW mask, NEW message, NEW q, NEW w, NEW c, NEW r, NEW lengths,
           p = Read(Machine(h0, 0, 0, 0, <<>>, mask, 0, message), q, w, c, r),
           lengths = CASE h[2].length = 127 -> 8 [] h[2].length = 126 -> 2 [] OTHER -> 0
    PROVE  BeginHeader(p, h) =
               Read(Machine(h, 2 + (IF h[2].masked THEN 4 ELSE 0) + lengths, lengths, 0, <<>>,
                            mask, 0, message), q, w, h[1].control, r)
<1> DEFINE need == 2 + (IF h[2].masked THEN 4 ELSE 0) + lengths
           close == h[1].control
<1>1. p.m.payloadLengthLength = 0
  BY HeaderOf
<1>2. p.m = Machine(h0, 0, 0, 0, <<>>, mask, 0, message)
  BY DEF Read
<1> DEFINE m == [p.m EXCEPT !.header = h, !.payloadLengthLength = lengths, !.headerNeed = need]
<1>3. BeginHeader(p, h) = [p EXCEPT !.shouldClose = close, !.m = m]
  BY <1>1 DEF BeginHeader
<1> HIDE DEF need, close
<1>4. m = Machine(h, need, lengths, 0, <<>>, mask, 0, message)
  <2> DEFINE m1 == [p.m EXCEPT !.header = h]
             m2 == [m1 EXCEPT !.payloadLengthLength = lengths]
             m3 == [m2 EXCEPT !.headerNeed = need]
  <2>1. m1 = Machine(h, 0, 0, 0, <<>>, mask, 0, message)
    BY <1>2 DEF Machine
  <2> HIDE DEF m1
  <2>2. m2 = Machine(h, 0, lengths, 0, <<>>, mask, 0, message)
    BY <2>1 DEF Machine
  <2> HIDE DEF m2
  <2>3. m3 = Machine(h, need, lengths, 0, <<>>, mask, 0, message)
    BY <2>2 DEF Machine
  <2> QED BY <2>3, Zenon DEF m2, m1
<1> HIDE DEF m
<1>5. [p EXCEPT !.shouldClose = close, !.m = m] = Read(m, q, w, close, r)
  <2> DEFINE p1 == [p EXCEPT !.shouldClose = close]
             p2 == [p1 EXCEPT !.m = m]
  <2>1. p1 = Read(p.m, q, w, close, r)
    BY <1>2 DEF Read
  <2> HIDE DEF p1
  <2>2. p2 = Read(m, q, w, close, r)
    BY <2>1 DEF Read
  <2> QED BY <2>2, Zenon DEF p1
<1> QED BY <1>3, <1>4, <1>5 DEF need, close

\* The second byte of a frame.
LEMMA Begun ==
    ASSUME NEW p, NEW byte, NEW header, header = Append(p.m.header, byte), Len(header) = 2,
           ~HeaderRead(p.m)
    PROVE  AdvanceByte(p, byte) =
               WhenComplete(IF HeaderRead(BeginHeader(p, header).m)
                            THEN EndHeader(BeginHeader(p, header)) ELSE BeginHeader(p, header))
<1>1. AdvanceByte(p, byte) = AddToHeader(p, byte)
  BY DEF AdvanceByte
<1> QED BY <1>1, Zenon DEF AddToHeader

\* The machine when it has the last byte of the header, and when it has not.
HeaderAt(f, p, o) ==
    IF o = Need(f) THEN WhenComplete(EndHeader(p)) ELSE p

LEMMA SecondByte ==
    ASSUME NEW f \in OrderedFrames, NEW mask, NEW message, NEW q, NEW w, NEW c, NEW r
    PROVE  AdvanceByte(Read(InHeader(f, 1, mask, message), q, w, c, r), Encode(f)[2])
           = HeaderAt(f, Read(InHeader(f, 2, mask, message), q, w, f.control, r), 2)
<1> DEFINE e == Encode(f)
           n == Len(f.data)
           L == LengthLength(n)
           p == Read(InHeader(f, 1, mask, message), q, w, c, r)
           t == Read(InHeader(f, 2, mask, message), q, w, f.control, r)
           h == SubSeq(e, 1, 2)
           h0 == SubSeq(e, 1, 1)
<1>1. e \in Seq(Bytes) /\ 1 < Len(e) /\ 1 \in Nat
  <2>1. n \in Nat /\ Need(f) \in Nat /\ Need(f) >= 2
    BY NeedType
  <2>2. e \in Seq(Bytes) /\ Len(e) = Need(f) + n
    BY EncodeIs
  <2> QED BY <2>1, <2>2
<1>2. Append(h0, e[2]) = h /\ Len(h) = 2 /\ Len(h0) = 1 /\ h[1] = e[1] /\ h[2] = e[2]
  <2> HIDE DEF e
  <2> QED BY <1>1
<1>3. e[1] = [fin |-> f.fin, control |-> f.control]
      /\ e[2] = [masked |-> f.mask # <<>>, length |-> LengthCode(n)]
  BY EncodeIs
<1>4. h[1].control = f.control /\ h[2].masked = (f.mask # <<>>) /\ h[2].length = LengthCode(n)
  <2> HIDE DEF e, h
  <2> QED BY <1>2, <1>3
<1>5. L = CASE h[2].length = 127 -> 8 [] h[2].length = 126 -> 2 [] OTHER -> 0
  <2>1. n \in Nat /\ L \in {0, 2, 8}
    BY NeedType
  <2>2. /\ L = 0 => LengthCode(n) = n /\ n < 126
        /\ L = 2 => LengthCode(n) = 126
        /\ L = 8 => LengthCode(n) = 127
    BY <2>1, LengthType
  <2> HIDE DEF h, L, n
  <2>3. CASE L = 0
    BY <1>4, <2>1, <2>2, <2>3
  <2>4. CASE L = 2
    BY <1>4, <2>1, <2>2, <2>4
  <2>5. CASE L = 8
    BY <1>4, <2>1, <2>2, <2>5
  <2> QED BY <2>1, <2>3, <2>4, <2>5
<1>6. Need(f) = 2 + (IF h[2].masked THEN 4 ELSE 0) + L
  <2>1. Need(f) = 2 + L + Len(f.mask) /\ L \in {0, 2, 8}
    BY NeedType
  <2>2. Len(f.mask) = IF f.mask # <<>> THEN 4 ELSE 0
    BY MaskType
  <2>3. Len(f.mask) = IF h[2].masked THEN 4 ELSE 0
    <3> HIDE DEF h
    <3> QED BY <1>4, <2>2
  <2> HIDE DEF h, L
  <2> QED BY <2>1, <2>3
<1>7. p = Read(Machine(h0, 0, 0, 0, <<>>, mask, 0, message), q, w, c, r)
  BY DEF InHeader
<1>8. t = Read(Machine(h, Need(f), L, 0, <<>>, mask, 0, message), q, w, f.control, r)
  BY DEF InHeader
<1> HIDE DEF e, h, h0, p, t, L, n
<1>9. BeginHeader(p, h) = t
  BY <1>4, <1>5, <1>6, <1>7, <1>8, BeginIs
<1>10. p.m.header = h0 /\ p.m.headerNeed = 0 /\ t.m.header = h /\ t.m.headerNeed = Need(f)
  BY <1>7, <1>8, HeaderOf
<1>11. ~HeaderRead(p.m)
  BY <1>10 DEF HeaderRead
<1>12. HeaderRead(t.m) <=> 2 = Need(f)
  <2>1. Need(f) \in Nat /\ Need(f) >= 2
    BY NeedType
  <2>2. Need(f) > 0
    BY <2>1
  <2>3. t.m.headerNeed > 0 /\ Len(t.m.header) = 2
    BY <1>2, <1>10, <2>2
  <2> QED BY <1>10, <2>3 DEF HeaderRead
<1>13. AdvanceByte(p, e[2]) =
           WhenComplete(IF HeaderRead(BeginHeader(p, h).m)
                        THEN EndHeader(BeginHeader(p, h)) ELSE BeginHeader(p, h))
  <2>1. h = Append(p.m.header, e[2]) /\ Len(h) = 2
    BY <1>2, <1>10
  <2> QED BY <1>11, <2>1, Begun
<1>14. CASE 2 = Need(f)
  BY <1>9, <1>12, <1>13, <1>14, Zenon DEF HeaderAt, p, e, t
<1>15. CASE 2 # Need(f)
  <2>1. AdvanceByte(p, e[2]) = WhenComplete(t)
    BY <1>9, <1>12, <1>13, <1>15, Zenon
  <2>2. WhenComplete(t) = t
    BY <1>12, <1>15, Zenon DEF WhenComplete
  <2> QED BY <1>15, <2>1, <2>2, Zenon DEF HeaderAt, p, e, t
<1> QED BY <1>14, <1>15

LEMMA HeaderByte ==
    ASSUME NEW f \in OrderedFrames, NEW mask, NEW message, NEW q, NEW w, NEW c, NEW r,
           NEW o \in 2..(Need(f) - 1)
    PROVE  AdvanceByte(Read(InHeader(f, o, mask, message), q, w, c, r), Encode(f)[o + 1])
           = HeaderAt(f, Read(InHeader(f, o + 1, mask, message), q, w, c, r), o + 1)
<1> DEFINE e == Encode(f)
           L == LengthLength(Len(f.data))
           p == Read(InHeader(f, o, mask, message), q, w, c, r)
           t == Read(InHeader(f, o + 1, mask, message), q, w, c, r)
           h == SubSeq(e, 1, o + 1)
           h0 == SubSeq(e, 1, o)
<1>0. Need(f) \in Nat /\ Need(f) >= 2 /\ o \in Nat /\ o >= 2 /\ o < Need(f) /\ o # 1 /\ o + 1 # 1
  <2>1. Need(f) \in Nat /\ Need(f) >= 2
    BY NeedType
  <2> QED BY <2>1
<1>1. e \in Seq(Bytes) /\ o < Len(e)
  <2>1. Len(f.data) \in Nat
    BY NeedType
  <2>2. e \in Seq(Bytes) /\ Len(e) = Need(f) + Len(f.data)
    BY EncodeIs
  <2> QED BY <1>0, <2>1, <2>2
<1>2. Append(h0, e[o + 1]) = h /\ Len(h) = o + 1 /\ Len(h0) = o
  <2> HIDE DEF e
  <2> QED BY <1>0, <1>1, OneMore
<1>3. p = Read(Machine(h0, Need(f), L, 0, <<>>, mask, 0, message), q, w, c, r)
  BY <1>0 DEF InHeader
<1>4. t = Read(Machine(h, Need(f), L, 0, <<>>, mask, 0, message), q, w, c, r)
  BY <1>0 DEF InHeader
<1> HIDE DEF e, h, h0, p, t, L
<1>5. WithHeader(p, h) = t
  BY <1>3, <1>4 DEF WithHeader, Read, Machine
<1>6. p.m.header = h0 /\ p.m.headerNeed = Need(f) /\ t.m.header = h /\ t.m.headerNeed = Need(f)
  BY <1>3, <1>4, HeaderOf
<1>7. ~HeaderRead(p.m)
  BY <1>0, <1>2, <1>6 DEF HeaderRead
<1>8. HeaderRead(t.m) <=> o + 1 = Need(f)
  BY <1>0, <1>2, <1>6 DEF HeaderRead
<1>9. AdvanceByte(p, e[o + 1]) =
          WhenComplete(IF HeaderRead(WithHeader(p, h).m)
                       THEN EndHeader(WithHeader(p, h)) ELSE WithHeader(p, h))
  <2>1. h = Append(p.m.header, e[o + 1])
    BY <1>2, <1>6, Zenon
  <2>2. Len(h) # 2
    BY <1>0, <1>2
  <2> QED BY <1>7, <2>1, <2>2, Added
<1>10. CASE o + 1 = Need(f)
  BY <1>5, <1>8, <1>9, <1>10, Zenon DEF HeaderAt, p, e, t
<1>11. CASE o + 1 # Need(f)
  <2>1. AdvanceByte(p, e[o + 1]) = WhenComplete(t)
    BY <1>5, <1>8, <1>9, <1>11, Zenon
  <2>2. WhenComplete(t) = t
    BY <1>8, <1>11, Zenon DEF WhenComplete
  <2> QED BY <1>11, <2>1, <2>2, Zenon DEF HeaderAt, p, e, t
<1> QED BY <1>10, <1>11

\* The bytes of the length in the header of a frame.
LEMMA HeaderLength ==
    ASSUME NEW f \in OrderedFrames
    PROVE  SubSeq(SubSeq(Encode(f), 1, Need(f)), 3, LengthLength(Len(f.data)) + 2)
           = LengthBytes(Len(f.data))
<1> DEFINE e == Encode(f)
           n == Len(f.data)
           L == LengthLength(n)
           h == SubSeq(e, 1, Need(f))
           b == LengthBytes(n)
<1>0. /\ Need(f) \in Nat /\ n \in Nat /\ Need(f) = 2 + L + Len(f.mask)
      /\ L \in {0, 2, 8} /\ Len(f.mask) \in {0, 4}
  BY NeedType
<1>1. e \in Seq(Bytes) /\ Len(e) = Need(f) + n /\ LengthAt(f)
  BY EncodeIs
<1>2. h \in Seq(Bytes) /\ Len(h) = Need(f) /\ \A i \in 1..Need(f) : h[i] = e[i]
  <2> HIDE DEF e
  <2>1. Need(f) <= Len(e) /\ 1 \in Nat
    BY <1>0, <1>1
  <2> QED BY <1>0, <1>1, <2>1
<1>3. b \in Seq(Nat) /\ Len(b) = L
  BY <1>0, LengthType
<1>4. \A i \in 1..L : e[2 + i] = b[i]
  BY <1>1, Zenon DEF LengthAt
<1>5. L \in Nat /\ Need(f) \in Nat /\ L + 2 <= Need(f)
  BY <1>0
<1> HIDE DEF h, e, L, b, n
<1>6. SubSeq(h, 3, L + 2) \in Seq(Bytes) /\ Len(SubSeq(h, 3, L + 2)) = L
  <2> DEFINE m == L + 2
  <2>1. m \in Nat /\ 3 <= m + 1 /\ m <= Len(h) /\ m - 3 + 1 = L /\ Len(h) \in Nat
    BY <1>2, <1>5
  <2> HIDE DEF m
  <2>2. SubSeq(h, 3, m) \in Seq(Bytes) /\ Len(SubSeq(h, 3, m)) = m - 3 + 1
    BY <1>2, <2>1
  <2> QED BY <2>1, <2>2 DEF m
<1>7. ASSUME NEW i \in 1..L PROVE SubSeq(h, 3, L + 2)[i] = b[i]
  <2>1. SubSeq(h, 3, L + 2)[i] = h[3 + i - 1]
    BY <1>0, <1>2, <1>5
  <2>2. 3 + i - 1 = 2 + i /\ 2 + i \in 1..Need(f)
    BY <1>5
  <2> QED BY <1>2, <1>4, <2>1, <2>2
<1>8. b \in Seq(Bytes)
  BY <1>3 DEF Bytes
<1>9. SubSeq(h, 3, L + 2) = b
  BY <1>3, <1>6, <1>7, <1>8, SeqEqual
<1> QED BY <1>9 DEF h, e, L, b, n

\* The end of a header: the length of the payload and the mask are known.
LEMMA HeaderEnds ==
    ASSUME NEW f \in OrderedFrames, NEW mask, NEW message, NEW q, NEW w, NEW c, NEW r
    PROVE  EndHeader(Read(InHeader(f, Need(f), mask, message), q, w, c, r))
           = Read(InPayload(f, 0, IF f.mask = <<>> THEN mask ELSE f.mask, message), q, w, c, r)
<1> DEFINE e == Encode(f)
           n == Len(f.data)
           L == LengthLength(n)
           h == SubSeq(e, 1, Need(f))
           p == Read(InHeader(f, Need(f), mask, message), q, w, c, r)
           new == IF f.mask = <<>> THEN mask ELSE f.mask
           t == Read(InPayload(f, 0, new, message), q, w, c, r)
<1>0. /\ Need(f) \in Nat /\ Need(f) >= 2 /\ n \in Nat /\ Need(f) = 2 + L + Len(f.mask)
      /\ L \in {0, 2, 8} /\ Len(f.mask) \in {0, 4}
  BY NeedType
<1>1. /\ e \in Seq(Bytes) /\ Len(e) = Need(f) + n
      /\ e[2] = [masked |-> f.mask # <<>>, length |-> LengthCode(n)]
  BY EncodeIs
<1>2. h \in Seq(Bytes) /\ Len(h) = Need(f) /\ \A i \in 1..Need(f) : h[i] = e[i]
  <2> HIDE DEF e
  <2>1. Need(f) <= Len(e) /\ 1 \in Nat
    BY <1>0, <1>1
  <2> QED BY <1>0, <1>1, <2>1
<1>3. p = Read(Machine(h, Need(f), L, 0, <<>>, mask, 0, message), q, w, c, r)
  BY <1>0 DEF InHeader
<1>4. t = Read(Machine(h, Need(f), L, n, <<>>, new, 0, message), q, w, c, r)
  <2>1. SubSeq(f.data, 1, 0) = <<>>
    BY MaskType
  <2>2. (IF f.mask = <<>> THEN 0 ELSE 0 % 4) = 0
    OBVIOUS
  <2> QED BY <2>1, <2>2, Zenon DEF InPayload
<1>5. p.m.header = h /\ p.m.payloadLengthLength = L /\ p.m.maskBytes = mask
  <2> HIDE DEF p, h, L, t, e, new
  <2> QED BY <1>3, HeaderOf
<1>13. p.m = Machine(h, Need(f), L, 0, <<>>, mask, 0, message)
  <2> HIDE DEF p
  <2> QED BY <1>3 DEF Read
<1>6. h[2].masked = (f.mask # <<>>) /\ h[2].length = LengthCode(n)
  <2>1. h[2] = e[2]
    BY <1>0, <1>2
  <2> HIDE DEF h, e
  <2> QED BY <1>1, <2>1
<1> DEFINE given == IF L = 0 THEN h[2].length ELSE Number(Native(SubSeq(h, 3, L + 2)))
<1>7. given = n
  <2>1. CASE L = 0
    <3>1. LengthCode(n) = n
      BY <1>0, <2>1, LengthType
    <3> QED BY <1>6, <2>1, <3>1
  <2>2. CASE L # 0
    <3>1. BigEndian
      BY <2>2 DEF OrderedFrames, Ordered
    <3>2. Number(Native(LengthBytes(n))) = n
      BY <1>0, <2>2, <3>1, LengthRead
    <3>3. SubSeq(h, 3, L + 2) = LengthBytes(n)
      BY HeaderLength
    <3> HIDE DEF h, L, n
    <3> QED BY <2>2, <3>2, <3>3
  <2> QED BY <2>1, <2>2
<1>8. (IF h[2].masked THEN SubSeq(h, L + 3, L + 6) ELSE mask) = new
  <2>1. CASE f.mask = <<>>
    BY <1>6, <2>1
  <2>2. CASE f.mask # <<>>
    <3>1. f.mask \in Seq({0, 1}) /\ Len(f.mask) = 4
      BY <2>2, MaskType
    <3>0. MaskAt(f)
      BY EncodeIs
    <3>2. \A i \in 1..4 : e[L + 2 + i] = f.mask[i]
      BY <3>0, <3>1, Zenon DEF MaskAt
    <3> HIDE DEF h, e, L
    <3>3. Need(f) = L + 6 /\ L \in Nat
      BY <1>0, <3>1
    <3>4. ASSUME NEW i \in 1..4 PROVE h[L + 2 + i] = f.mask[i]
      <4>1. L + 2 + i \in 1..Need(f)
        BY <3>3
      <4> QED BY <1>2, <3>2, <4>1
    <3>5. SubSeq(h, L + 3, L + 6) \in Seq(Bytes) /\ Len(SubSeq(h, L + 3, L + 6)) = 4
      BY <1>2, <3>3
    <3>6. ASSUME NEW i \in 1..4 PROVE SubSeq(h, L + 3, L + 6)[i] = f.mask[i]
      <4>1. SubSeq(h, L + 3, L + 6)[i] = h[L + 3 + i - 1]
        BY <1>2, <3>3
      <4>2. L + 3 + i - 1 = L + 2 + i
        BY <3>3
      <4> QED BY <3>4, <4>1, <4>2
    <3>7. f.mask \in Seq(Bytes)
      BY <3>1 DEF Bytes
    <3>8. SubSeq(h, L + 3, L + 6) = f.mask
      BY <3>1, <3>5, <3>6, <3>7, SeqEqual
    <3> QED BY <1>6, <2>2, <3>8
  <2> QED BY <2>1, <2>2
<1> DEFINE m == [p.m EXCEPT !.payloadLength = given,
                            !.maskBytes = IF h[2].masked THEN SubSeq(h, L + 3, L + 6) ELSE @]
<1>9. EndHeader(p) = [p EXCEPT !.m = m]
  <2> HIDE DEF p, h, L
  <2> QED BY <1>5, Zenon DEF EndHeader
<1>10. m = Machine(h, Need(f), L, n, <<>>, new, 0, message)
  <2> HIDE DEF p, h, L, n, new, m, given
  <2>1. m = [p.m EXCEPT !.payloadLength = n, !.maskBytes = new]
    BY <1>5, <1>7, <1>8, Zenon DEF m
  <2> DEFINE m1 == [p.m EXCEPT !.payloadLength = n]
             m2 == [m1 EXCEPT !.maskBytes = new]
  <2>2. m1 = Machine(h, Need(f), L, n, <<>>, mask, 0, message)
    BY <1>13 DEF Machine
  <2> HIDE DEF m1
  <2>3. m2 = Machine(h, Need(f), L, n, <<>>, new, 0, message)
    BY <2>2 DEF Machine
  <2> QED BY <2>1, <2>3, Zenon DEF m1
<1>11. [p EXCEPT !.m = m] = Read(m, q, w, c, r)
  <2> HIDE DEF m
  <2> QED BY <1>3 DEF Read
<1>12. EndHeader(p) = t
  <2> HIDE DEF m, p, t, h, L, new, given
  <2> QED BY <1>4, <1>9, <1>10, <1>11, Zenon
<1> QED BY <1>12

LEMMA XorTwice ==
    ASSUME NEW a \in {0, 1}, NEW b \in {0, 1}
    PROVE  Xor(Xor(a, b), b) = a
BY DEF Xor

\* A byte of the payload, with the mask taken off.
LEMMA PayloadByte ==
    ASSUME NEW f \in OrderedFrames, NEW mask, NEW message, NEW q, NEW w, NEW c, NEW r,
           NEW j \in 0..(Len(f.data) - 1), f.mask # <<>> => mask = f.mask
    PROVE  AdvanceByte(Read(InPayload(f, j, mask, message), q, w, c, r), Encode(f)[Need(f) + j + 1])
           = WhenComplete(Read(InPayload(f, j + 1, mask, message), q, w, c, r))
<1> DEFINE e == Encode(f)
           n == Len(f.data)
           L == LengthLength(n)
           h == SubSeq(e, 1, Need(f))
           byte == e[Need(f) + j + 1]
           Modulus(k) == IF f.mask = <<>> THEN 0 ELSE k % 4
           p == Read(InPayload(f, j, mask, message), q, w, c, r)
           t == Read(InPayload(f, j + 1, mask, message), q, w, c, r)
<1>0. Need(f) \in Nat /\ Need(f) >= 2 /\ n \in Nat /\ j \in Nat /\ j + 1 \in 1..n
  <2>1. Need(f) \in Nat /\ Need(f) >= 2 /\ n \in Nat
    BY NeedType
  <2> QED BY <2>1
<1>1. /\ e \in Seq(Bytes) /\ Len(e) = Need(f) + n /\ DataAt(f)
      /\ e[2] = [masked |-> f.mask # <<>>, length |-> LengthCode(n)]
  BY EncodeIs
<1>2. Len(h) = Need(f) /\ h[2] = e[2]
  <2> HIDE DEF e
  <2>1. Need(f) <= Len(e) /\ 1 \in Nat /\ 2 \in 1..Need(f)
    BY <1>0, <1>1
  <2> QED BY <1>0, <1>1, <2>1
<1>3. p.m = Machine(h, Need(f), L, n, SubSeq(f.data, 1, j), mask, Modulus(j), message)
  BY DEF InPayload, Read
<1>4. t.m = Machine(h, Need(f), L, n, SubSeq(f.data, 1, j + 1), mask, Modulus(j + 1), message)
  BY DEF InPayload, Read
<1>5. /\ p.m.header = h /\ p.m.headerNeed = Need(f) /\ p.m.payload = SubSeq(f.data, 1, j)
      /\ p.m.maskBytes = mask /\ p.m.maskModulus = Modulus(j)
  <2> HIDE DEF p, h, L, t, e, n, Modulus
  <2> QED BY <1>3 DEF Machine
<1>6. HeaderRead(p.m)
  <2> HIDE DEF p, h
  <2> QED BY <1>0, <1>2, <1>5 DEF HeaderRead
<1>7. p.m.header[2].masked = (f.mask # <<>>)
  <2> HIDE DEF p, h, e
  <2> QED BY <1>1, <1>2, <1>5
<1>8. (IF p.m.header[2].masked THEN Xor(byte, p.m.maskBytes[p.m.maskModulus + 1]) ELSE byte)
      = f.data[j + 1]
  <2>1. byte = IF f.mask = <<>> THEN f.data[j + 1]
               ELSE Xor(f.data[j + 1], f.mask[(j % 4) + 1])
    <3>1. e[Need(f) + (j + 1)] = IF f.mask = <<>> THEN f.data[j + 1]
                                 ELSE Xor(f.data[j + 1], f.mask[((j + 1 - 1) % 4) + 1])
      <4>1. j + 1 \in 1..Len(f.data) /\ DataAt(f)
        BY <1>0, <1>1
      <4> DEFINE i == j + 1
      <4>2. i \in 1..Len(f.data)
        BY <4>1
      <4> HIDE DEF i
      <4>3. e[Need(f) + i] = IF f.mask = <<>> THEN f.data[i]
                             ELSE Xor(f.data[i], f.mask[((i - 1) % 4) + 1])
        BY <4>1, <4>2, Zenon DEF DataAt
      <4> QED BY <4>3 DEF i
    <3>2. Need(f) + (j + 1) = Need(f) + j + 1 /\ j + 1 - 1 = j
      BY <1>0
    <3> QED BY <3>1, <3>2
  <2> HIDE DEF byte, p
  <2>2. CASE f.mask = <<>>
    BY <1>7, <2>1, <2>2
  <2>3. CASE f.mask # <<>>
    <3>1. f.mask \in Seq({0, 1}) /\ Len(f.mask) = 4 /\ f.data \in Seq({0, 1})
      BY <2>3, MaskType
    <3>2. (j % 4) + 1 \in 1..4
      BY <1>0
    <3>3. f.data[j + 1] \in {0, 1} /\ f.mask[(j % 4) + 1] \in {0, 1}
      BY <1>0, <3>1, <3>2
    <3>4. p.m.maskBytes[p.m.maskModulus + 1] = f.mask[(j % 4) + 1]
      BY <1>5, <2>3
    <3>5. Xor(Xor(f.data[j + 1], f.mask[(j % 4) + 1]), f.mask[(j % 4) + 1]) = f.data[j + 1]
      BY <3>3, XorTwice
    <3> QED BY <1>7, <2>1, <2>3, <3>4, <3>5
  <2> QED BY <2>2, <2>3
<1>9. Append(p.m.payload, f.data[j + 1]) = SubSeq(f.data, 1, j + 1)
  <2>1. f.data \in Seq(Nat) /\ j < Len(f.data)
    BY <1>0, MaskType
  <2>2. Append(SubSeq(f.data, 1, j), f.data[j + 1]) = SubSeq(f.data, 1, j + 1)
    BY <1>0, <2>1, OneMore
  <2> QED BY <1>5, <2>2
<1>10. (IF p.m.header[2].masked THEN (p.m.maskModulus + 1) % 4 ELSE p.m.maskModulus)
       = Modulus(j + 1)
  <2> HIDE DEF p
  <2>1. CASE f.mask = <<>>
    BY <1>5, <1>7, <2>1
  <2>2. CASE f.mask # <<>>
    <3>1. ((j % 4) + 1) % 4 = (j + 1) % 4
      BY <1>0
    <3> QED BY <1>5, <1>7, <2>2, <3>1
  <2> QED BY <2>1, <2>2
<1> DEFINE m == [p.m EXCEPT !.payload = SubSeq(f.data, 1, j + 1), !.maskModulus = Modulus(j + 1)]
<1>11. AddToPayload(p, byte) = WhenComplete([p EXCEPT !.m = m])
  <2> HIDE DEF p, byte, Modulus
  <2>1. [p.m EXCEPT !.payload = Append(@, IF p.m.header[2].masked
                                          THEN Xor(byte, p.m.maskBytes[p.m.maskModulus + 1])
                                          ELSE byte),
                    !.maskModulus = IF p.m.header[2].masked THEN (@ + 1) % 4 ELSE @] = m
    BY <1>8, <1>9, <1>10, Zenon
  <2> HIDE DEF m
  <2> QED BY <2>1, Zenon DEF AddToPayload
<1>12. m = t.m
  <2> HIDE DEF p, h, L, n, t, Modulus
  <2> DEFINE s == SubSeq(f.data, 1, j + 1)
             s0 == SubSeq(f.data, 1, j)
             mod == Modulus(j + 1)
             mod0 == Modulus(j)
             need == Need(f)
             m1 == [p.m EXCEPT !.payload = s]
             m2 == [m1 EXCEPT !.maskModulus = mod]
  <2>1. p.m = Machine(h, need, L, n, s0, mask, mod0, message)
    BY <1>3
  <2> HIDE DEF s, s0, mod, mod0, need, m
  <2>2. m1 = Machine(h, need, L, n, s, mask, mod0, message)
    BY <2>1 DEF Machine
  <2> HIDE DEF m1
  <2>3. m2 = Machine(h, need, L, n, s, mask, mod, message)
    BY <2>2 DEF Machine
  <2> QED BY <1>4, <2>3, Zenon DEF m, m1, s, mod, need
<1>13. [p EXCEPT !.m = t.m] = t
  <2> DEFINE old == InPayload(f, j, mask, message)
             new == InPayload(f, j + 1, mask, message)
  <2>1. p = Read(old, q, w, c, r) /\ t = Read(new, q, w, c, r)
    OBVIOUS
  <2> HIDE DEF p, t, old, new
  <2> QED BY <2>1 DEF Read
<1>14. AdvanceByte(p, byte) = AddToPayload(p, byte)
  BY <1>6, Zenon DEF AdvanceByte
<1>15. AdvanceByte(p, byte) = WhenComplete(t)
  <2> HIDE DEF p, t, m, byte
  <2> QED BY <1>11, <1>12, <1>13, <1>14, Zenon
<1> QED BY <1>15

LEMMA Complete ==
    ASSUME NEW f \in OrderedFrames, NEW mask, NEW message, NEW q, NEW w, NEW c, NEW r,
           NEW j \in 0..Len(f.data)
    PROVE  LET p == Read(InPayload(f, j, mask, message), q, w, c, r)
           IN WhenComplete(p) = IF j = Len(f.data) THEN EndFrame(p) ELSE p
<1> DEFINE e == Encode(f)
           n == Len(f.data)
           h == SubSeq(e, 1, Need(f))
           s == SubSeq(f.data, 1, j)
           p == Read(InPayload(f, j, mask, message), q, w, c, r)
<1>0. Need(f) \in Nat /\ Need(f) >= 2 /\ n \in Nat /\ j \in Nat
  BY NeedType
<1>1. e \in Seq(Bytes) /\ Len(e) = Need(f) + n /\ f.data \in Seq(Nat)
  BY EncodeIs, MaskType
<1>2. Len(h) = Need(f) /\ Len(s) = j
  <2> HIDE DEF e
  <2>1. Need(f) <= Len(e) /\ 1 \in Nat
    BY <1>0, <1>1
  <2> QED BY <1>0, <1>1, <2>1
<1>3. p.m.header = h /\ p.m.headerNeed = Need(f) /\ p.m.payload = s /\ p.m.payloadLength = n
  <2>1. p.m = Machine(h, Need(f), LengthLength(n), n, s, mask,
                      IF f.mask = <<>> THEN 0 ELSE j % 4, message)
    BY DEF InPayload, Read
  <2> HIDE DEF p, h, s, e, n
  <2> QED BY <2>1 DEF Machine
<1> HIDE DEF p, h, s, e
<1>4. HeaderRead(p.m)
  BY <1>0, <1>2, <1>3 DEF HeaderRead
<1>5. Len(p.m.payload) = p.m.payloadLength <=> j = n
  BY <1>2, <1>3
<1>6. WhenComplete(p) = IF j = n THEN EndFrame(p) ELSE p
  BY <1>4, <1>5, Zenon DEF WhenComplete
<1> QED BY <1>6 DEF p

Closing(message) ==
    <<[code |-> "CLOSE_HANDSHAKE", buffer |-> AddNewWSFrame(TRUE, TRUE, message[1])]>>

\* After the last byte of f.
AfterFrame(f, mask, message, q, w, c) ==
    LET whole == Append(message, f.data)
    IN Read(Between(mask, IF f.fin THEN <<>> ELSE whole),
            IF f.fin THEN Append(q, FlattenSeq(whole)) ELSE q,
            w \o (IF f.fin /\ c THEN Closing(whole) ELSE <<>>), c, TRUE)

LEMMA FrameEnds ==
    ASSUME NEW f \in OrderedFrames, NEW mask, NEW message, NEW q, NEW w, NEW c, NEW r
    PROVE  EndFrame(Read(InPayload(f, Len(f.data), mask, message), q, w, c, r))
           = AfterFrame(f, mask, message, q, w, c)
<1> DEFINE e == Encode(f)
           n == Len(f.data)
           L == LengthLength(n)
           h == SubSeq(e, 1, Need(f))
           s == SubSeq(f.data, 1, n)
           need == Need(f)
           mod == IF f.mask = <<>> THEN 0 ELSE n % 4
           p == Read(InPayload(f, n, mask, message), q, w, c, r)
           whole == Append(message, f.data)
           left == IF f.fin THEN <<>> ELSE whole
           close == IF f.fin /\ c THEN Closing(whole) ELSE <<>>
           queue == IF f.fin THEN Append(q, FlattenSeq(whole)) ELSE q
<1>0. need \in Nat /\ need >= 2 /\ n \in Nat
  BY NeedType
<1>1. /\ e \in Seq(Bytes) /\ Len(e) = need + n /\ f.data \in Seq(Nat)
      /\ e[1] = [fin |-> f.fin, control |-> f.control]
  BY EncodeIs, MaskType
<1>2. h[1] = e[1] /\ s = f.data
  <2> HIDE DEF e, need
  <2>1. need <= Len(e) /\ 1 \in 1..need
    BY <1>0, <1>1
  <2>2. h[1] = e[1]
    BY <1>0, <1>1, <2>1 DEF need
  <2>3. s = f.data
    BY <1>1
  <2> QED BY <2>2, <2>3
<1>3. p.m = Machine(h, need, L, n, s, mask, mod, message)
  BY DEF InPayload, Read
<1>4. p = Read(p.m, q, w, c, r)
  BY DEF Read
<1>5. p.inbox = q /\ p.work = w /\ p.shouldClose = c
  BY DEF Read
<1> HIDE DEF p, h, s, L, need, mod, e, n
<1>6. p.m.header = h /\ p.m.payload = f.data /\ p.m.message = message
  BY <1>2, <1>3 DEF Machine
<1>7. p.m.header[1].fin = f.fin
  BY <1>1, <1>2, <1>6
<1>8. Append(p.m.message, p.m.payload) = whole
  BY <1>6
<1> HIDE DEF whole
<1> DEFINE m == [ClearFrame(p.m) EXCEPT !.message = left]
<1>9. m = Between(mask, left)
  <2> HIDE DEF left
  <2> DEFINE m1 == [p.m EXCEPT !.header = <<>>]
             m2 == [m1 EXCEPT !.headerNeed = 0]
             m3 == [m2 EXCEPT !.payload = <<>>]
             m4 == [m3 EXCEPT !.payloadLength = 0]
             m5 == [m4 EXCEPT !.payloadLengthLength = 0]
             m6 == [m5 EXCEPT !.maskModulus = 0]
             m7 == [m6 EXCEPT !.message = left]
  <2>1. m1 = Machine(<<>>, need, L, n, s, mask, mod, message)
    BY <1>3 DEF Machine
  <2> HIDE DEF m1
  <2>2. m2 = Machine(<<>>, 0, L, n, s, mask, mod, message)
    BY <2>1 DEF Machine
  <2> HIDE DEF m2
  <2>3. m3 = Machine(<<>>, 0, L, n, <<>>, mask, mod, message)
    BY <2>2 DEF Machine
  <2> HIDE DEF m3
  <2>4. m4 = Machine(<<>>, 0, L, 0, <<>>, mask, mod, message)
    BY <2>3 DEF Machine
  <2> HIDE DEF m4
  <2>5. m5 = Machine(<<>>, 0, 0, 0, <<>>, mask, mod, message)
    BY <2>4 DEF Machine
  <2> HIDE DEF m5
  <2>6. m6 = Machine(<<>>, 0, 0, 0, <<>>, mask, 0, message)
    BY <2>5 DEF Machine
  <2>7. m6 = ClearFrame(p.m)
    BY Zenon DEF ClearFrame, m1, m2, m3, m4, m5
  <2> HIDE DEF m6
  <2>8. m7 = Machine(<<>>, 0, 0, 0, <<>>, mask, 0, left)
    BY <2>6 DEF Machine
  <2> QED BY <2>7, <2>8, Zenon DEF Between
<1>10. EndFrame(p) = [p EXCEPT !.m = m, !.inbox = queue, !.work = w \o close, !.ready = TRUE]
  <2>1. EndFrame(p) =
          [p EXCEPT !.m = [ClearFrame(p.m) EXCEPT !.message = IF f.fin THEN <<>> ELSE whole],
                    !.inbox = IF f.fin THEN Append(@, FlattenSeq(whole)) ELSE @,
                    !.work = @ \o (IF f.fin /\ c THEN Closing(whole) ELSE <<>>),
                    !.ready = TRUE]
    BY <1>5, <1>7, <1>8, Zenon DEF EndFrame, Closing
  <2> QED BY <1>5, <2>1, Zenon
<1> HIDE DEF m, close, queue
<1>11. [p EXCEPT !.m = m, !.inbox = queue, !.work = w \o close, !.ready = TRUE]
       = Read(m, queue, w \o close, c, TRUE)
  <2> DEFINE elements == w \o close
             pm == p.m
             p1 == [p EXCEPT !.m = m]
             p2 == [p1 EXCEPT !.inbox = queue]
             p3 == [p2 EXCEPT !.work = elements]
             done == TRUE
             p4 == [p3 EXCEPT !.ready = done]
  <2>0. p = Read(pm, q, w, c, r)
    BY <1>4
  <2> HIDE DEF pm, elements, done
  <2>1. p1 = Read(m, q, w, c, r)
    BY <2>0 DEF Read
  <2> HIDE DEF p1
  <2>2. p2 = Read(m, queue, w, c, r)
    BY <2>1 DEF Read
  <2> HIDE DEF p2
  <2>3. p3 = Read(m, queue, elements, c, r)
    BY <2>2 DEF Read
  <2> HIDE DEF p3
  <2>4. p4 = Read(m, queue, elements, c, done)
    BY <2>3 DEF Read
  <2> QED BY <2>4, Zenon DEF p1, p2, p3, elements, done
<1>12. EndFrame(p) = Read(Between(mask, left), queue, w \o close, c, TRUE)
  BY <1>9, <1>10, <1>11, Zenon
<1> QED BY <1>12, Zenon DEF AfterFrame, p, n, left, queue, close, whole

\* Where p is when it has read o bytes of f, having begun it with the message, the
\* queue q and the work elements w.
Onward(f, o, p, message, q, w, c, r) ==
    \E mask : IF o < Len(Encode(f))
              THEN \E m : p = Read(m, q, w, c, r) /\ Within(f, o, m, mask, message)
              ELSE p = AfterFrame(f, mask, message, q, w, c)

LEMMA PayloadGoesOn ==
    ASSUME NEW f \in OrderedFrames, NEW mask, NEW message, NEW q, NEW w, NEW c, NEW r,
           NEW j \in 0..Len(f.data), f.mask # <<>> => mask = f.mask
    PROVE  Onward(f, Need(f) + j, WhenComplete(Read(InPayload(f, j, mask, message), q, w, c, r)),
                  message, q, w, c, r)
<1> DEFINE n == Len(f.data)
           m == InPayload(f, j, mask, message)
           p == Read(m, q, w, c, r)
           o == Need(f) + j
<1>0. Need(f) \in Nat /\ n \in Nat /\ j \in Nat /\ j <= n /\ Len(Encode(f)) = Need(f) + n
  <2>1. Need(f) \in Nat /\ n \in Nat /\ Len(Encode(f)) = Need(f) + n
    BY NeedType, EncodeIs
  <2> QED BY <2>1
<1>1. WhenComplete(p) = IF j = n THEN EndFrame(p) ELSE p
  BY Complete
<1>2. CASE j = n
  <2>1. WhenComplete(p) = AfterFrame(f, mask, message, q, w, c)
    BY <1>1, <1>2, FrameEnds
  <2>2. ~(o < Len(Encode(f)))
    BY <1>0, <1>2
  <2> HIDE DEF p, o
  <2> QED BY <2>1, <2>2, Zenon DEF Onward, p, o, m
<1>3. CASE j # n
  <2>1. WhenComplete(p) = p
    BY <1>1, <1>3, Zenon
  <2>2. o < Len(Encode(f)) /\ o - Need(f) = j /\ j \in 0..(n - 1)
    BY <1>0, <1>3
  <2>3. Within(f, o, m, mask, message)
    <3> HIDE DEF o, m, n
    <3>1. m = InPayload(f, o - Need(f), mask, message)
      BY <2>2 DEF m
    <3> QED BY <2>2, <3>1 DEF Within, n
  <2> HIDE DEF p, o, m
  <2>4. Onward(f, o, p, message, q, w, c, r)
    BY <2>2, <2>3 DEF Onward, p
  <2> QED BY <2>1, <2>4 DEF p, o, m
<1> QED BY <1>2, <1>3

LEMMA HeaderGoesOn ==
    ASSUME NEW f \in OrderedFrames, NEW mask, NEW message, NEW q, NEW w, NEW c, NEW r,
           NEW o \in 2..Need(f)
    PROVE  Onward(f, o, HeaderAt(f, Read(InHeader(f, o, mask, message), q, w, c, r), o),
                  message, q, w, c, r)
<1> DEFINE m == InHeader(f, o, mask, message)
           p == Read(m, q, w, c, r)
           new == IF f.mask = <<>> THEN mask ELSE f.mask
<1>0. Need(f) \in Nat /\ Len(f.data) \in Nat /\ o \in Nat /\ o <= Need(f) /\ o >= 2
      /\ Len(Encode(f)) = Need(f) + Len(f.data)
  <2>1. Need(f) \in Nat /\ Len(f.data) \in Nat /\ Len(Encode(f)) = Need(f) + Len(f.data)
    BY NeedType, EncodeIs
  <2> QED BY <2>1
<1>1. CASE o = Need(f)
  <2>1. HeaderAt(f, p, o) = WhenComplete(Read(InPayload(f, 0, new, message), q, w, c, r))
    <3>1. HeaderAt(f, p, o) = WhenComplete(EndHeader(p))
      BY <1>1 DEF HeaderAt
    <3>2. EndHeader(p) = Read(InPayload(f, 0, new, message), q, w, c, r)
      BY <1>1, HeaderEnds
    <3> QED BY <3>1, <3>2, Zenon
  <2>2. f.mask # <<>> => new = f.mask
    OBVIOUS
  <2>3. 0 \in 0..Len(f.data) /\ Need(f) + 0 = o
    BY <1>0, <1>1
  <2> HIDE DEF new, p
  <2>4. Onward(f, Need(f) + 0, WhenComplete(Read(InPayload(f, 0, new, message), q, w, c, r)),
               message, q, w, c, r)
    BY <2>2, <2>3, PayloadGoesOn
  <2> QED BY <2>1, <2>3, <2>4 DEF p
<1>2. CASE o # Need(f)
  <2>1. HeaderAt(f, p, o) = p
    BY <1>2 DEF HeaderAt
  <2>2. o < Len(Encode(f)) /\ o \in 1..(Need(f) - 1)
    BY <1>0, <1>2
  <2>3. Within(f, o, m, mask, message)
    BY <2>2 DEF Within
  <2> HIDE DEF m
  <2>4. Onward(f, o, p, message, q, w, c, r)
    BY <2>2, <2>3 DEF Onward
  <2> QED BY <2>1, <2>4 DEF m
<1> QED BY <1>1, <1>2

\* Every byte of a frame takes the machine to where it must be after it.
LEMMA ByteInFrame ==
    ASSUME NEW f \in OrderedFrames, NEW m, NEW mask, NEW message, NEW q, NEW w, NEW c, NEW r,
           NEW o \in Nat, o < Len(Encode(f)), Within(f, o, m, mask, message)
    PROVE  Onward(f, o + 1, AdvanceByte(Read(m, q, w, c, r), Encode(f)[o + 1]),
                  message, q, w, IF o = 1 THEN f.control ELSE c, r)
<1> DEFINE p == AdvanceByte(Read(m, q, w, c, r), Encode(f)[o + 1])
<1>0. Need(f) \in Nat /\ Need(f) >= 2 /\ Len(f.data) \in Nat
      /\ Len(Encode(f)) = Need(f) + Len(f.data)
  BY NeedType, EncodeIs
<1>1. CASE o = 0
  <2>1. m = Between(mask, message)
    BY <1>0, <1>1 DEF Within
  <2>2. p = Read(InHeader(f, 1, mask, message), q, w, c, r)
    BY <1>1, <2>1, FirstByte
  <2>3. 1 < Len(Encode(f)) /\ 1 \in 1..(Need(f) - 1)
    BY <1>0
  <2>4. Within(f, 1, InHeader(f, 1, mask, message), mask, message)
    BY <2>3 DEF Within
  <2> DEFINE m1 == InHeader(f, 1, mask, message)
  <2> HIDE DEF p, m1
  <2>5. Onward(f, 1, p, message, q, w, c, r)
    BY <2>2, <2>3, <2>4 DEF Onward, m1
  <2> QED BY <1>1, <2>5 DEF p
<1>2. CASE o = 1
  <2>1. m = InHeader(f, 1, mask, message)
    BY <1>0, <1>2 DEF Within
  <2>2. p = HeaderAt(f, Read(InHeader(f, 2, mask, message), q, w, f.control, r), 2)
    BY <1>2, <2>1, SecondByte
  <2>3. 2 \in 2..Need(f) /\ o + 1 = 2
    BY <1>0, <1>2
  <2>4. Onward(f, 2, HeaderAt(f, Read(InHeader(f, 2, mask, message), q, w, f.control, r), 2),
               message, q, w, f.control, r)
    BY <2>3, HeaderGoesOn
  <2> HIDE DEF p
  <2> QED BY <2>2, <2>3, <2>4 DEF p
<1>3. CASE o \in 2..(Need(f) - 1)
  <2>1. m = InHeader(f, o, mask, message)
    BY <1>0, <1>3 DEF Within
  <2>2. p = HeaderAt(f, Read(InHeader(f, o + 1, mask, message), q, w, c, r), o + 1)
    BY <1>3, <2>1, HeaderByte
  <2>3. o + 1 \in 2..Need(f)
    BY <1>0, <1>3
  <2>4. Onward(f, o + 1, HeaderAt(f, Read(InHeader(f, o + 1, mask, message), q, w, c, r), o + 1),
               message, q, w, c, r)
    BY <2>3, HeaderGoesOn
  <2>5. (IF o = 1 THEN f.control ELSE c) = c
    BY <1>3
  <2> HIDE DEF p
  <2>6. Onward(f, o + 1, p, message, q, w, c, r)
    BY <2>2, <2>4
  <2> QED BY <2>5, <2>6, Zenon DEF p
<1>4. CASE o >= Need(f)
  <2> DEFINE j == o - Need(f)
  <2>1. j \in 0..(Len(f.data) - 1) /\ m = InPayload(f, j, mask, message)
        /\ (f.mask # <<>> => mask = f.mask)
    BY <1>0, <1>4 DEF Within
  <2>2. Need(f) + j + 1 = o + 1 /\ Need(f) + (j + 1) = o + 1 /\ j + 1 \in 0..Len(f.data)
    BY <1>0, <1>4, <2>1
  <2> HIDE DEF j
  <2>3. AdvanceByte(Read(InPayload(f, j, mask, message), q, w, c, r), Encode(f)[Need(f) + j + 1])
        = WhenComplete(Read(InPayload(f, j + 1, mask, message), q, w, c, r))
    BY <2>1, PayloadByte
  <2>4. p = WhenComplete(Read(InPayload(f, j + 1, mask, message), q, w, c, r))
    BY <2>1, <2>2, <2>3
  <2>5. Onward(f, Need(f) + (j + 1),
               WhenComplete(Read(InPayload(f, j + 1, mask, message), q, w, c, r)),
               message, q, w, c, r)
    BY <2>1, <2>2, PayloadGoesOn
  <2>6. (IF o = 1 THEN f.control ELSE c) = c
    BY <1>0, <1>4
  <2> HIDE DEF p
  <2>7. Onward(f, o + 1, p, message, q, w, c, r)
    BY <2>2, <2>4, <2>5
  <2> QED BY <2>6, <2>7, Zenon DEF p
<1> QED BY <1>0, <1>1, <1>2, <1>3, <1>4

-----------------------------------------------------------------------------
(* The stream of the client.                                               *)

Encodings(fs, k) == [i \in 1..Len(SubSeq(fs, 1, k)) |-> Encode(SubSeq(fs, 1, k)[i])]

LEMMA EncodingsAre ==
    ASSUME NEW fs \in Seq(OrderedFrames), NEW k \in 0..Len(fs)
    PROVE  /\ Encodings(fs, k) = [i \in 1..k |-> Encode(fs[i])]
           /\ Encodings(fs, k) \in Seq(Seq(Bytes)) /\ Len(Encodings(fs, k)) = k
           /\ Sent(fs, k) = FlattenSeq(Encodings(fs, k))
           /\ Sent(fs, k) \in Seq(Bytes)
<1> DEFINE s == SubSeq(fs, 1, k)
           e == [i \in 1..k |-> Encode(fs[i])]
<1>1. k \in Nat /\ k <= Len(fs)
  OBVIOUS
<1>2. s \in Seq(OrderedFrames) /\ Len(s) = k /\ \A i \in 1..k : s[i] = fs[i]
  BY <1>1
<1>3. Encodings(fs, k) = e
  <2>1. Encodings(fs, k) = [i \in 1..Len(s) |-> Encode(s[i])]
    BY DEF Encodings
  <2> HIDE DEF s
  <2>2. [i \in 1..Len(s) |-> Encode(s[i])] = [i \in 1..k |-> Encode(s[i])]
    BY <1>2
  <2>3. \A i \in 1..k : Encode(s[i]) = Encode(fs[i])
    BY <1>2, Zenon
  <2>4. [i \in 1..k |-> Encode(s[i])] = e
    BY <2>3
  <2> QED BY <2>1, <2>2, <2>4
<1>4. e \in Seq(Seq(Bytes)) /\ Len(e) = k
  <2>1. \A i \in 1..k : Encode(fs[i]) \in Seq(Bytes)
    <3> TAKE i \in 1..k
    <3>1. fs[i] \in OrderedFrames
      BY <1>1
    <3> QED BY <3>1, EncodeIs
  <2>2. e \in [1..k -> Seq(Bytes)]
    BY <2>1, Zenon
  <2> HIDE DEF e
  <2> QED BY <1>1, <2>2, TupleType
<1>5. Sent(fs, k) = FlattenSeq(Encodings(fs, k))
  BY Zenon DEF Sent, Stream, Encodings
<1> HIDE DEF e
<1>6. Sent(fs, k) \in Seq(Bytes)
  BY <1>3, <1>4, <1>5, FlattenType
<1> QED BY <1>3, <1>4, <1>5, <1>6 DEF e

LEMMA SentGrows ==
    ASSUME NEW fs \in Seq(OrderedFrames), NEW k \in 0..(Len(fs) - 1)
    PROVE  /\ fs[k + 1] \in OrderedFrames
           /\ Sent(fs, k + 1) \in Seq(Bytes) /\ Sent(fs, k) \in Seq(Bytes)
           /\ Sent(fs, k + 1) = Sent(fs, k) \o Encode(fs[k + 1])
           /\ Joined(Sent(fs, k + 1), Sent(fs, k), Encode(fs[k + 1]))
<1> DEFINE e == Encode(fs[k + 1])
           a == Encodings(fs, k)
           b == Encodings(fs, k + 1)
<1>1. k \in 0..Len(fs) /\ k + 1 \in 0..Len(fs) /\ k + 1 \in 1..Len(fs) /\ k \in Nat
  OBVIOUS
<1>2. fs[k + 1] \in OrderedFrames
  BY <1>1
<1>3. e \in Seq(Bytes)
  BY <1>2, EncodeIs
<1>4. /\ a = [i \in 1..k |-> Encode(fs[i])] /\ a \in Seq(Seq(Bytes)) /\ Len(a) = k
      /\ Sent(fs, k) = FlattenSeq(a) /\ Sent(fs, k) \in Seq(Bytes)
  BY <1>1, EncodingsAre
<1>5. /\ b = [i \in 1..(k + 1) |-> Encode(fs[i])] /\ b \in Seq(Seq(Bytes)) /\ Len(b) = k + 1
      /\ Sent(fs, k + 1) = FlattenSeq(b) /\ Sent(fs, k + 1) \in Seq(Bytes)
  BY <1>1, EncodingsAre
<1>6. b = Append(a, e)
  <2> HIDE DEF a, b, e
  <2>1. Append(a, e) \in Seq(Seq(Bytes)) /\ Len(Append(a, e)) = k + 1
    BY <1>3, <1>4
  <2>2. ASSUME NEW i \in 1..(k + 1) PROVE Append(a, e)[i] = b[i]
    <3>1. b[i] = Encode(fs[i])
      BY <1>5
    <3>2. CASE i = k + 1
      <4>1. Append(a, e)[i] = e
        BY <1>3, <1>4, <3>2
      <4> QED BY <3>1, <3>2, <4>1 DEF e
    <3>3. CASE i # k + 1
      <4>1. i \in 1..k
        BY <1>1, <3>3
      <4>2. Append(a, e)[i] = a[i]
        BY <1>3, <1>4, <4>1
      <4>3. a[i] = Encode(fs[i])
        BY <1>4, <4>1
      <4> QED BY <3>1, <4>2, <4>3
    <3> QED BY <3>2, <3>3
  <2>3. \A i \in 1..Len(b) : b[i] = Append(a, e)[i]
    BY <1>5, <2>2
  <2> QED BY <1>5, <2>1, <2>3, SeqEqual
<1> HIDE DEF a, b, e
<1>7. Sent(fs, k + 1) = Sent(fs, k) \o e
  BY <1>3, <1>4, <1>5, <1>6, FlattenAppend
<1>8. Joined(Sent(fs, k) \o e, Sent(fs, k), e)
  BY <1>3, <1>4, Parts
<1> QED BY <1>2, <1>4, <1>5, <1>7, <1>8 DEF e

LEMMA SentEnds ==
    ASSUME NEW fs \in Seq(OrderedFrames)
    PROVE  Sent(fs, 0) = <<>> /\ Sent(fs, Len(fs)) = Stream(fs) /\ Stream(fs) \in Seq(Bytes)
<1>1. 0 \in 0..Len(fs) /\ Len(fs) \in 0..Len(fs)
  OBVIOUS
<1>2. Sent(fs, Len(fs)) = Stream(fs)
  <2>1. SubSeq(fs, 1, Len(fs)) = fs
    OBVIOUS
  <2> QED BY <2>1 DEF Sent
<1>3. Sent(fs, Len(fs)) \in Seq(Bytes)
  BY <1>1, EncodingsAre
<1>4. Sent(fs, 0) = <<>>
  <2>1. Encodings(fs, 0) \in Seq(Seq(Bytes)) /\ Len(Encodings(fs, 0)) = 0
        /\ Sent(fs, 0) = FlattenSeq(Encodings(fs, 0))
    BY <1>1, EncodingsAre
  <2>2. FlattenSeq(Encodings(fs, 0)) = Encodings(fs, 0)
    BY <2>1 DEF FlattenSeq
  <2> QED BY <2>1, <2>2, EmptySeq
<1> QED BY <1>2, <1>3, <1>4

\* What was sent first stays where it is.
Begins(s, t) == Len(s) <= Len(t) /\ \A i \in 1..Len(s) : t[i] = s[i]

LEMMA SentStays ==
    ASSUME NEW fs \in Seq(OrderedFrames), NEW k \in 0..Len(fs)
    PROVE  \A n \in k..Len(fs) : Begins(Sent(fs, k), Sent(fs, n))
<1> DEFINE T == {n \in Nat : n \in k..Len(fs) /\ ~Begins(Sent(fs, k), Sent(fs, n))}
<1>0. k \in Nat /\ Len(fs) \in Nat
  OBVIOUS
<1>1. ASSUME T # {} PROVE FALSE
  <2>0. T \subseteq Nat
    OBVIOUS
  <2>1. PICK n \in T : \A y \in T : n <= y
    <3> HIDE DEF T
    <3> QED BY <1>1, <2>0, Smallest
  <2>2. n \in k..Len(fs) /\ ~Begins(Sent(fs, k), Sent(fs, n))
    BY <2>1
  <2>3. Sent(fs, k) \in Seq(Bytes)
    BY EncodingsAre
  <2>4. n # k
    <3>1. Len(Sent(fs, k)) \in Nat
      BY <2>3
    <3>2. Begins(Sent(fs, k), Sent(fs, k))
      BY <3>1 DEF Begins
    <3> QED BY <2>2, <3>2
  <2> DEFINE j == n - 1
  <2>5. j \in k..Len(fs) /\ j \in 0..(Len(fs) - 1) /\ j + 1 = n /\ j \notin T
    BY <1>0, <2>1, <2>2, <2>4
  <2>6. Begins(Sent(fs, k), Sent(fs, j))
    BY <1>0, <2>5
  <2> HIDE DEF j, T
  <2> DEFINE a == Sent(fs, k)
             b == Sent(fs, j)
             c == Sent(fs, n)
             e == Encode(fs[j + 1])
  <2>7. b \in Seq(Bytes) /\ c \in Seq(Bytes) /\ Joined(c, b, e) /\ fs[j + 1] \in OrderedFrames
    BY <2>5, SentGrows
  <2>8. e \in Seq(Bytes)
    BY <2>7, EncodeIs
  <2>9. a \in Seq(Bytes) /\ Begins(a, b) /\ ~Begins(a, c)
    BY <2>2, <2>3, <2>6
  <2> HIDE DEF a, b, c, e
  <2>10. Len(a) \in Nat /\ Len(b) \in Nat /\ Len(c) \in Nat /\ Len(e) \in Nat
    BY <2>7, <2>8, <2>9
  <2>11. Len(c) = Len(b) + Len(e) /\ Len(a) <= Len(b)
    BY <2>7, <2>9 DEF Joined, Begins
  <2>12. Len(a) <= Len(c)
    BY <2>10, <2>11
  <2>13. ASSUME NEW i \in 1..Len(a) PROVE c[i] = a[i]
    <3>1. i \in 1..Len(b)
      BY <2>10, <2>11
    <3>2. b[i] = a[i]
      BY <2>9 DEF Begins
    <3>3. c[i] = b[i]
      BY <2>7, <3>1 DEF Joined
    <3> QED BY <3>2, <3>3
  <2> QED BY <2>9, <2>12, <2>13 DEF Begins
<1>2. T = {}
  BY <1>1
<1> QED
  <2> TAKE n \in k..Len(fs)
  <2>1. n \in Nat
    BY <1>0
  <2> QED BY <1>2, <2>1

LEMMA StreamAt ==
    ASSUME NEW fs \in Seq(OrderedFrames), NEW k \in 0..(Len(fs) - 1),
           NEW o \in 0..(Len(Encode(fs[k + 1])) - 1)
    PROVE  /\ Stream(fs)[Len(Sent(fs, k)) + o + 1] = Encode(fs[k + 1])[o + 1]
           /\ Len(Sent(fs, k)) + o < Len(Stream(fs))
           /\ Len(Sent(fs, k + 1)) = Len(Sent(fs, k)) + Len(Encode(fs[k + 1]))
<1> DEFINE a == Sent(fs, k)
           b == Sent(fs, k + 1)
           s == Stream(fs)
           e == Encode(fs[k + 1])
<1>1. a \in Seq(Bytes) /\ b \in Seq(Bytes) /\ Joined(b, a, e) /\ fs[k + 1] \in OrderedFrames
  BY SentGrows
<1>2. e \in Seq(Bytes)
  BY <1>1, EncodeIs
<1>3. s \in Seq(Bytes) /\ s = Sent(fs, Len(fs))
  BY SentEnds
<1>4. Begins(b, s)
  <2>1. k + 1 \in 0..Len(fs) /\ Len(fs) \in (k + 1)..Len(fs)
    OBVIOUS
  <2> QED BY <1>3, <2>1, SentStays
<1>5. Len(a) \in Nat /\ Len(b) \in Nat /\ Len(e) \in Nat /\ Len(s) \in Nat
  BY <1>1, <1>2, <1>3
<1>6. o \in Nat /\ o + 1 \in 1..Len(e)
  BY <1>5
<1> HIDE DEF a, b, s, e
<1>7. Len(b) = Len(a) + Len(e) /\ Len(b) <= Len(s)
  BY <1>1, <1>4 DEF Joined, Begins
<1>8. Len(a) + (o + 1) \in 1..Len(b) /\ Len(a) + (o + 1) = Len(a) + o + 1
  BY <1>5, <1>6, <1>7
<1>9. b[Len(a) + (o + 1)] = e[o + 1]
  BY <1>1, <1>6 DEF Joined
<1>10. s[Len(a) + (o + 1)] = b[Len(a) + (o + 1)]
  BY <1>4, <1>8 DEF Begins
<1>11. Len(a) + o < Len(s)
  BY <1>5, <1>6, <1>7
<1> QED BY <1>7, <1>8, <1>9, <1>10, <1>11 DEF a, b, s, e

-----------------------------------------------------------------------------
(* The messages of the client.                                             *)

EndsIn(fs, i) == {j \in 1..(i - 1) : fs[j].fin}

LEMMA EndsFinite ==
    ASSUME NEW fs, NEW i \in Nat
    PROVE  /\ IsFiniteSet(EndsIn(fs, i)) /\ EndsBefore(fs, i) = Cardinality(EndsIn(fs, i))
           /\ EndsBefore(fs, i) \in Nat
<1>1. i - 1 \in Int /\ 1 \in Int
  OBVIOUS
<1>2. IsFiniteSet(1..(i - 1))
  BY <1>1, FS_Interval
<1>3. EndsIn(fs, i) \subseteq 1..(i - 1)
  BY DEF EndsIn
<1>4. IsFiniteSet(EndsIn(fs, i))
  BY <1>2, <1>3, FS_Subset
<1>5. EndsBefore(fs, i) = Cardinality(EndsIn(fs, i))
  BY Zenon DEF EndsBefore, EndsIn
<1> QED BY <1>4, <1>5, FS_CardinalityType

LEMMA EndsStart ==
    ASSUME NEW fs
    PROVE  EndsBefore(fs, 1) = 0
<1>1. EndsIn(fs, 1) = {}
  BY DEF EndsIn
<1>2. EndsBefore(fs, 1) = Cardinality(EndsIn(fs, 1))
  BY EndsFinite
<1> QED BY <1>1, <1>2, FS_EmptySet

LEMMA EndsStep ==
    ASSUME NEW fs, NEW i \in Nat, i > 0
    PROVE  /\ fs[i].fin => EndsBefore(fs, i + 1) = EndsBefore(fs, i) + 1
           /\ ~fs[i].fin => EndsBefore(fs, i + 1) = EndsBefore(fs, i)
<1>1. IsFiniteSet(EndsIn(fs, i)) /\ EndsBefore(fs, i) = Cardinality(EndsIn(fs, i))
      /\ EndsBefore(fs, i + 1) = Cardinality(EndsIn(fs, i + 1))
  BY EndsFinite
<1>2. CASE fs[i].fin
  <2>1. EndsIn(fs, i + 1) = EndsIn(fs, i) \cup {i}
    BY <1>2 DEF EndsIn
  <2>2. i \notin EndsIn(fs, i)
    BY DEF EndsIn
  <2>3. Cardinality(EndsIn(fs, i) \cup {i}) = Cardinality(EndsIn(fs, i)) + 1
    BY <1>1, <2>2, FS_AddElement
  <2> QED BY <1>1, <1>2, <2>1, <2>3
<1>3. CASE ~fs[i].fin
  <2>1. EndsIn(fs, i + 1) = EndsIn(fs, i)
    BY <1>3 DEF EndsIn
  <2> QED BY <1>1, <1>3, <2>1
<1> QED BY <1>2, <1>3

LEMMA EndsMonotone ==
    ASSUME NEW fs, NEW i \in Nat, NEW j \in Nat, i <= j
    PROVE  EndsBefore(fs, i) <= EndsBefore(fs, j)
<1>1. EndsIn(fs, i) \subseteq EndsIn(fs, j)
  BY DEF EndsIn
<1>2. IsFiniteSet(EndsIn(fs, j)) /\ EndsBefore(fs, i) = Cardinality(EndsIn(fs, i))
      /\ EndsBefore(fs, j) = Cardinality(EndsIn(fs, j))
  BY EndsFinite
<1> QED BY <1>1, <1>2, FS_Subset

LEMMA EndsSame ==
    ASSUME NEW fs, NEW i \in Nat, NEW j \in Nat, i <= j, i > 0,
           \A l \in i..(j - 1) : ~fs[l].fin
    PROVE  EndsBefore(fs, i) = EndsBefore(fs, j)
<1>1. EndsIn(fs, i) = EndsIn(fs, j)
  BY DEF EndsIn
<1>2. EndsBefore(fs, i) = Cardinality(EndsIn(fs, i))
      /\ EndsBefore(fs, j) = Cardinality(EndsIn(fs, j))
  BY EndsFinite
<1> QED BY <1>1, <1>2

\* The frames gathered since the last one with FIN are those of the next message.
LEMMA FramesOfNext ==
    ASSUME NEW fs \in Seq(OrderedFrames), NEW k \in 0..(Len(fs) - 1), NEW b \in 0..k,
           b = 0 \/ fs[b].fin, \A j \in (b + 1)..k : ~fs[j].fin, fs[k + 1].fin,
           NEW n, n = EndsBefore(fs, k + 1) + 1
    PROVE  FramesOf(fs, n) = (b + 1)..(k + 1)
<1>0. k \in Nat /\ b \in Nat /\ b <= k /\ Len(fs) \in Nat /\ k + 1 \in Nat /\ k + 2 \in Nat
      /\ k + 1 <= Len(fs) /\ k + 1 > 0 /\ k + 1 + 1 = k + 2
  OBVIOUS
<1>1. EndsBefore(fs, k + 1) \in Nat
  BY <1>0, EndsFinite
<1>2. n - 1 = EndsBefore(fs, k + 1)
  BY <1>1
<1>3. ASSUME NEW i \in 1..Len(fs), i \in (b + 1)..(k + 1)
      PROVE  EndsBefore(fs, i) = n - 1
  <2>1. i \in Nat /\ i <= k + 1 /\ i > 0 /\ k + 1 \in Nat
    BY <1>0, <1>3
  <2>2. \A l \in i..(k + 1 - 1) : ~fs[l].fin
    BY <1>0, <1>3
  <2>3. EndsBefore(fs, i) = EndsBefore(fs, k + 1)
    BY <2>1, <2>2, EndsSame
  <2> QED BY <1>2, <2>3
<1>4. ASSUME NEW i \in 1..Len(fs), i <= b
      PROVE  EndsBefore(fs, i) # n - 1
  <2>1. i \in Nat /\ b > 0 /\ fs[b].fin /\ b + 1 \in Nat /\ b + 1 <= k + 1
    BY <1>0, <1>4
  <2>2. EndsBefore(fs, i) <= EndsBefore(fs, b)
    BY <1>0, <1>4, <2>1, EndsMonotone
  <2>3. EndsBefore(fs, b + 1) = EndsBefore(fs, b) + 1
    BY <1>0, <2>1, EndsStep
  <2>4. EndsBefore(fs, b + 1) <= EndsBefore(fs, k + 1)
    BY <1>0, <2>1, EndsMonotone
  <2>5. EndsBefore(fs, i) \in Nat /\ EndsBefore(fs, b) \in Nat /\ EndsBefore(fs, b + 1) \in Nat
    BY <1>0, <2>1, EndsFinite
  <2> QED BY <1>1, <1>2, <2>2, <2>3, <2>4, <2>5
<1>5. ASSUME NEW i \in 1..Len(fs), i > k + 1
      PROVE  EndsBefore(fs, i) # n - 1
  <2>1. i \in Nat /\ k + 2 <= i
    BY <1>0, <1>5
  <2>2. EndsBefore(fs, k + 2) <= EndsBefore(fs, i)
    BY <1>0, <2>1, EndsMonotone
  <2>3. EndsBefore(fs, k + 2) = EndsBefore(fs, k + 1) + 1
    <3>1. EndsBefore(fs, k + 1 + 1) = EndsBefore(fs, k + 1) + 1
      BY <1>0, EndsStep
    <3> QED BY <1>0, <3>1
  <2>4. EndsBefore(fs, i) \in Nat
    BY <2>1, EndsFinite
  <2> QED BY <1>1, <1>2, <2>2, <2>3, <2>4
<1>6. \A i \in 1..Len(fs) : EndsBefore(fs, i) = n - 1 <=> i \in (b + 1)..(k + 1)
  <2> TAKE i \in 1..Len(fs)
  <2>1. i \in Nat /\ (i \in (b + 1)..(k + 1) \/ i <= b \/ i > k + 1)
    BY <1>0
  <2>2. CASE i \in (b + 1)..(k + 1)
    BY <1>3, <2>2
  <2>3. CASE i <= b
    BY <1>0, <1>4, <2>1, <2>3
  <2>4. CASE i > k + 1
    BY <1>0, <1>5, <2>1, <2>4
  <2> QED BY <2>1, <2>2, <2>3, <2>4
<1>7. FramesOf(fs, n) = {i \in 1..Len(fs) : i \in (b + 1)..(k + 1)}
  BY <1>6 DEF FramesOf
<1>8. (b + 1)..(k + 1) \subseteq 1..Len(fs)
  BY <1>0
<1> QED BY <1>7, <1>8

LEMMA MessageIs ==
    ASSUME NEW fs \in Seq(OrderedFrames), NEW k \in 0..(Len(fs) - 1), NEW b \in 0..k,
           b = 0 \/ fs[b].fin, \A j \in (b + 1)..k : ~fs[j].fin, fs[k + 1].fin
    PROVE  Message(fs, EndsBefore(fs, k + 1) + 1)
           = FlattenSeq([j \in 1..(k + 1 - b) |-> fs[b + j].data])
<1> DEFINE n == EndsBefore(fs, k + 1) + 1
<1>0. k \in Nat /\ b \in Nat /\ b <= k
  OBVIOUS
<1>1. FramesOf(fs, n) = (b + 1)..(k + 1)
  BY FramesOfNext
<1>2. FirstOf(fs, n) = b + 1
  <2> HIDE DEF n
  <2>1. FirstOf(fs, n) = CHOOSE i \in (b + 1)..(k + 1) : \A j \in (b + 1)..(k + 1) : i <= j
    BY <1>1 DEF FirstOf
  <2>2. b + 1 \in (b + 1)..(k + 1) /\ \A j \in (b + 1)..(k + 1) : b + 1 <= j
    BY <1>0
  <2>3. \A i \in (b + 1)..(k + 1) : (\A j \in (b + 1)..(k + 1) : i <= j) => i = b + 1
    BY <1>0
  <2> QED BY <2>1, <2>2, <2>3
<1>3. Cardinality(FramesOf(fs, n)) = k + 1 - b
  <2>1. b + 1 \in Int /\ k + 1 \in Int /\ ~(b + 1 > k + 1) /\ k + 1 - (b + 1) + 1 = k + 1 - b
    BY <1>0
  <2>2. Cardinality((b + 1)..(k + 1)) = k + 1 - (b + 1) + 1
    BY <2>1, FS_Interval
  <2> QED BY <1>1, <2>1, <2>2
<1> HIDE DEF n
<1> DEFINE s == [j \in 1..Cardinality(FramesOf(fs, n)) |-> fs[FirstOf(fs, n) + j - 1].data]
           t == [j \in 1..(k + 1 - b) |-> fs[b + j].data]
<1>4. s = t
  <2>1. s = [j \in 1..(k + 1 - b) |-> fs[b + 1 + j - 1].data]
    BY <1>2, <1>3
  <2>2. \A j \in 1..(k + 1 - b) : b + 1 + j - 1 = b + j
    BY <1>0
  <2> QED BY <2>1, <2>2
<1>5. Message(fs, n) = FlattenSeq(s)
  BY DEF Message
<1> HIDE DEF s, t
<1>6. Message(fs, n) = FlattenSeq(t)
  BY <1>4, <1>5
<1> QED BY <1>6 DEF n, t

LEMMA MessagesType ==
    ASSUME NEW fs \in Seq(OrderedFrames)
    PROVE  /\ Messages(fs) \in Seq(Texts(fs))
           /\ Len(Messages(fs)) = EndsBefore(fs, Len(fs) + 1)
           /\ \A n \in 1..Len(Messages(fs)) : Messages(fs)[n] = Message(fs, n)
<1> DEFINE m == EndsBefore(fs, Len(fs) + 1)
<1>1. m \in Nat
  BY EndsFinite
<1>2. \A n \in 1..m : Message(fs, n) \in Texts(fs)
  BY DEF Texts
<1>3. Messages(fs) = [n \in 1..m |-> Message(fs, n)]
  BY DEF Messages
<1> HIDE DEF m
<1>4. Messages(fs) \in [1..m -> Texts(fs)]
  BY <1>2, <1>3, Zenon
<1>5. Messages(fs) \in Seq(Texts(fs)) /\ Len(Messages(fs)) = m
  BY <1>1, <1>4, TupleType
<1>6. \A n \in 1..m : Messages(fs)[n] = Message(fs, n)
  BY <1>3, Zenon
<1> QED BY <1>5, <1>6 DEF m

LEMMA NextMessage ==
    ASSUME NEW fs \in Seq(OrderedFrames), NEW k \in 0..(Len(fs) - 1), fs[k + 1].fin
    PROVE  LET text == Message(fs, EndsBefore(fs, k + 1) + 1)
           IN text \in Texts(fs) /\ EndedIn(fs, k + 1) = Append(EndedIn(fs, k), text)
<1> DEFINE n == EndsBefore(fs, k + 1)
           m == EndsBefore(fs, Len(fs) + 1)
<1>0. k \in Nat /\ k + 1 \in Nat /\ k + 1 > 0 /\ k + 2 \in Nat /\ k + 1 + 1 = k + 2
      /\ k + 2 <= Len(fs) + 1 /\ Len(fs) + 1 \in Nat
  OBVIOUS
<1>1. n \in Nat /\ m \in Nat
  BY <1>0, EndsFinite
<1>2. EndsBefore(fs, k + 1 + 1) = n + 1
  BY <1>0, EndsStep
<1>3. EndsBefore(fs, k + 2) <= m
  BY <1>0, EndsMonotone
<1>4. n + 1 <= m
  BY <1>0, <1>2, <1>3
<1>5. Messages(fs) \in Seq(Texts(fs)) /\ Len(Messages(fs)) = m
  BY MessagesType
<1>6. n < Len(Messages(fs)) /\ n + 1 \in 1..Len(Messages(fs))
  BY <1>1, <1>4, <1>5
<1>7. Messages(fs)[n + 1] = Message(fs, n + 1)
  BY <1>6, MessagesType
<1>8. Append(SubSeq(Messages(fs), 1, n), Messages(fs)[n + 1]) = SubSeq(Messages(fs), 1, n + 1)
  BY <1>1, <1>5, <1>6, OneMore
<1>9. Messages(fs)[n + 1] \in Texts(fs)
  BY <1>5, <1>6
<1> HIDE DEF n
<1>10. EndedIn(fs, k + 1) = SubSeq(Messages(fs), 1, n + 1)
  BY <1>2 DEF EndedIn
<1>11. EndedIn(fs, k) = SubSeq(Messages(fs), 1, n)
  BY DEF EndedIn, n
<1> QED BY <1>7, <1>8, <1>9, <1>10, <1>11 DEF n

LEMMA NoMessage ==
    ASSUME NEW fs \in Seq(OrderedFrames), NEW k \in 0..(Len(fs) - 1), ~fs[k + 1].fin
    PROVE  EndedIn(fs, k + 1) = EndedIn(fs, k)
<1>1. k + 1 \in Nat /\ k + 1 > 0
  OBVIOUS
<1>2. EndsBefore(fs, k + 1 + 1) = EndsBefore(fs, k + 1)
  BY <1>1, EndsStep
<1> QED BY <1>2 DEF EndedIn

\* What a frame adds to the message that is gathered.
LEMMA GatheredOn ==
    ASSUME NEW fs \in Seq(OrderedFrames), NEW k \in 0..(Len(fs) - 1), NEW message,
           Gathered(fs, k, message)
    PROVE  LET whole == Append(message, fs[k + 1].data)
           IN /\ fs[k + 1].fin => /\ FlattenSeq(whole) = Message(fs, EndsBefore(fs, k + 1) + 1)
                                  /\ Gathered(fs, k + 1, <<>>)
              /\ ~fs[k + 1].fin => Gathered(fs, k + 1, whole)
<1> DEFINE d == fs[k + 1].data
           whole == Append(message, d)
<1>0. k \in Nat /\ k + 1 \in 1..Len(fs) /\ k + 1 \in 0..(k + 1) /\ k + 1 - 1 = k
  OBVIOUS
<1>1. PICK b \in 0..k : /\ b = 0 \/ fs[b].fin
                        /\ \A j \in (b + 1)..k : ~fs[j].fin
                        /\ message = [j \in 1..(k - b) |-> fs[b + j].data]
  BY DEF Gathered
<1>2. b \in Nat /\ k - b \in Nat /\ k + 1 - b \in Nat /\ k + 1 - b = k - b + 1
  BY <1>0
<1> DEFINE t == [j \in 1..(k + 1 - b) |-> fs[b + j].data]
           S == Seq(Nat)
<1>3. ASSUME NEW j \in 1..(k + 1 - b) PROVE fs[b + j].data \in S
  <2>1. b + j \in 1..Len(fs)
    BY <1>0, <1>2
  <2>2. fs[b + j] \in OrderedFrames
    BY <2>1
  <2> QED BY <2>2, MaskType
<1>4. t \in Seq(S) /\ Len(t) = k + 1 - b
  <2>1. t \in [1..(k + 1 - b) -> S]
    BY <1>3, Zenon
  <2> HIDE DEF t, S
  <2> QED BY <1>2, <2>1, TupleType
<1>5. message \in Seq(S) /\ Len(message) = k - b
  <2>1. \A j \in 1..(k - b) : j \in 1..(k + 1 - b)
    BY <1>2
  <2>2. message \in [1..(k - b) -> S]
    BY <1>1, <1>3, <2>1, Zenon
  <2> HIDE DEF S
  <2> QED BY <1>2, <2>2, TupleType
<1>6. d \in S
  <2>1. k + 1 - b \in 1..(k + 1 - b) /\ b + (k + 1 - b) = k + 1
    BY <1>0, <1>2
  <2>2. fs[b + (k + 1 - b)].data \in S
    BY <1>3, <2>1
  <2> QED BY <2>1, <2>2
<1>7. whole = t
  <2> HIDE DEF S, d, t
  <2>1. whole \in Seq(S) /\ Len(whole) = k + 1 - b
    BY <1>2, <1>5, <1>6
  <2>2. ASSUME NEW j \in 1..(k + 1 - b) PROVE t[j] = whole[j]
    <3>1. t[j] = fs[b + j].data
      BY DEF t
    <3>2. CASE j = k + 1 - b
      <4>1. whole[j] = d /\ b + j = k + 1
        BY <1>0, <1>2, <1>5, <1>6, <3>2
      <4> QED BY <3>1, <4>1 DEF d
    <3>3. CASE j # k + 1 - b
      <4>1. j \in 1..(k - b)
        BY <1>2, <3>3
      <4>2. whole[j] = message[j]
        BY <1>5, <1>6, <4>1
      <4>3. message[j] = fs[b + j].data
        BY <1>1, <4>1
      <4> QED BY <3>1, <4>2, <4>3
    <3> QED BY <3>2, <3>3
  <2>3. \A j \in 1..Len(t) : t[j] = whole[j]
    BY <1>4, <2>2
  <2>4. t = whole
    BY <1>4, <2>1, <2>3, SeqEqual
  <2> QED BY <2>4
<1>8. ASSUME fs[k + 1].fin
      PROVE  FlattenSeq(whole) = Message(fs, EndsBefore(fs, k + 1) + 1)
             /\ Gathered(fs, k + 1, <<>>)
  <2>1. Message(fs, EndsBefore(fs, k + 1) + 1) = FlattenSeq(t)
    BY <1>1, <1>8, MessageIs
  <2>2. [j \in 1..(k + 1 - (k + 1)) |-> fs[k + 1 + j].data] = <<>>
    <3>1. 1..(k + 1 - (k + 1)) = {}
      BY <1>0
    <3> QED BY <3>1
  <2>3. \A j \in (k + 1 + 1)..(k + 1) : ~fs[j].fin
    BY <1>0
  <2>4. Gathered(fs, k + 1, <<>>)
    BY <1>0, <1>8, <2>2, <2>3 DEF Gathered
  <2> QED BY <1>7, <2>1, <2>4
<1>9. ASSUME ~fs[k + 1].fin
      PROVE  Gathered(fs, k + 1, whole)
  <2>1. b \in 0..(k + 1)
    BY <1>0
  <2>2. \A j \in (b + 1)..(k + 1) : ~fs[j].fin
    BY <1>0, <1>1, <1>9
  <2> HIDE DEF whole
  <2>3. whole = [j \in 1..(k + 1 - b) |-> fs[b + j].data]
    BY <1>7
  <2> QED BY <1>1, <2>1, <2>2, <2>3 DEF Gathered
<1> QED BY <1>8, <1>9

-----------------------------------------------------------------------------
(* A byte of the stream.                                                   *)

LEMMA WithinIs ==
    ASSUME NEW f \in OrderedFrames, NEW o \in Nat, NEW m, NEW mask, NEW message,
           Within(f, o, m, mask, message)
    PROVE  /\ o < Len(Encode(f)) /\ m.message = message
           /\ o > 0 => m.header # <<>>
<1>0. /\ Need(f) \in Nat /\ Need(f) >= 2 /\ Len(f.data) \in Nat
      /\ Encode(f) \in Seq(Bytes) /\ Len(Encode(f)) = Need(f) + Len(f.data)
  BY NeedType, EncodeIs
<1>1. CASE o = 0 /\ m = Between(mask, message)
  <2>1. m.message = message
    BY <1>1 DEF Between, Machine
  <2> QED BY <1>0, <1>1, <2>1
<1>2. CASE o \in 1..(Need(f) - 1) /\ m = InHeader(f, o, mask, message)
  <2>1. m.message = message /\ m.header = SubSeq(Encode(f), 1, o)
    BY <1>2 DEF InHeader, Machine
  <2>2. o < Len(Encode(f))
    BY <1>0, <1>2
  <2>3. Len(SubSeq(Encode(f), 1, o)) = o
    BY <1>0, <2>2, OneMore
  <2> QED BY <2>1, <2>2, <2>3
<1>3. CASE o - Need(f) \in 0..(Len(f.data) - 1) /\ m = InPayload(f, o - Need(f), mask, message)
  <2>1. m.message = message /\ m.header = SubSeq(Encode(f), 1, Need(f))
    BY <1>3 DEF InPayload, Machine
  <2>2. o < Len(Encode(f)) /\ Need(f) < Len(Encode(f))
    BY <1>0, <1>3
  <2>3. Len(SubSeq(Encode(f), 1, Need(f))) = Need(f)
    BY <1>0, <2>2, OneMore
  <2> QED BY <1>0, <2>1, <2>2, <2>3
<1> QED BY <1>1, <1>2, <1>3 DEF Within

LEMMA JustlyBoth ==
    ASSUME NEW fs, NEW a, NEW b, ClosesJustly(fs, a), ClosesJustly(fs, b)
    PROVE  ClosesJustly(fs, a \o b)
<1>1. PICK A : a \in Seq(A) /\ \A w \in A : w.code = "CLOSE_HANDSHAKE" => HasControl(fs)
  BY DEF ClosesJustly
<1>2. PICK B : b \in Seq(B) /\ \A w \in B : w.code = "CLOSE_HANDSHAKE" => HasControl(fs)
  BY DEF ClosesJustly
<1> DEFINE W == A \cup B
<1>3. a \in Seq(W) /\ b \in Seq(W) /\ \A w \in W : w.code = "CLOSE_HANDSHAKE" => HasControl(fs)
  BY <1>1, <1>2
<1> HIDE DEF W
<1>4. a \o b \in Seq(W)
  BY <1>3, Parts
<1> QED BY <1>3, <1>4 DEF ClosesJustly

LEMMA JustlyNone ==
    ASSUME NEW fs
    PROVE  ClosesJustly(fs, <<>>)
<1> DEFINE W == {}
<1>1. <<>> \in Seq(W) /\ \A w \in W : w.code = "CLOSE_HANDSHAKE" => HasControl(fs)
  OBVIOUS
<1> HIDE DEF W
<1> QED BY <1>1 DEF ClosesJustly

LEMMA JustlyOne ==
    ASSUME NEW fs, NEW x, x.code = "CLOSE_HANDSHAKE" => HasControl(fs)
    PROVE  ClosesJustly(fs, <<x>>)
<1>1. <<x>> \in Seq({x}) /\ \A w \in {x} : w.code = "CLOSE_HANDSHAKE" => HasControl(fs)
  OBVIOUS
<1> QED BY <1>1 DEF ClosesJustly

\* What the read machine may have put into its queue and into that of the base.
Queued(fs, q) == q \in Seq(Texts(fs)) /\ (Readable(fs) => q \in Seq(Seq(Codes)))
Enqueued(fs, w) == ClosesJustly(fs, w) /\ (Apart(fs) => w \in Seq(Closings(fs)))

\* Where readMachineAdvance is after the first i bytes of the stream.
Sound(fs, i, p, before) ==
    \E m, q, w, c, r, k, o :
        /\ p = Read(m, q, w, c, r)
        /\ ReadAs(fs, i, m, before \o q, k, o)
        /\ Queued(fs, q)
        /\ Enqueued(fs, w)
        /\ c \in BOOLEAN
        /\ c => HasControl(fs)
        /\ c /\ o >= 2 => fs[k + 1].control

\* It has completed a frame unless it is within one.
Rests(p) == p.m.header = <<>> => p.ready

LEMMA WithinFrame ==
    ASSUME NEW fs \in Seq(OrderedFrames), NEW i \in Nat, NEW k \in 0..(Len(fs) - 1), NEW o \in Nat,
           i = Len(Sent(fs, k)) + o, NEW m, NEW mask, NEW message, NEW got,
           Within(fs[k + 1], o, m, mask, message), Gathered(fs, k, message), got = EndedIn(fs, k)
    PROVE  ReadAs(fs, i, m, got, k, o)
<1>1. fs[k + 1] \in OrderedFrames /\ k \in 0..Len(fs) /\ k # Len(fs)
  OBVIOUS
<1>2. m.message = message
  BY <1>1, WithinIs
<1> QED BY <1>1, <1>2 DEF ReadAs

LEMMA BetweenFrames ==
    ASSUME NEW fs \in Seq(OrderedFrames), NEW k \in 0..Len(fs), NEW i, i = Len(Sent(fs, k)),
           NEW mask, NEW message, NEW got, Gathered(fs, k, message), got = EndedIn(fs, k)
    PROVE  ReadAs(fs, i, Between(mask, message), got, k, 0)
<1> DEFINE m == Between(mask, message)
<1>1. m.message = message
  BY DEF Between, Machine
<1>2. i = Len(Sent(fs, k)) + 0
  <2>1. Sent(fs, k) \in Seq(Bytes)
    BY EncodingsAre
  <2>2. Len(Sent(fs, k)) \in Nat
    BY <2>1
  <2> QED BY <2>2
<1>3. k # Len(fs) => Within(fs[k + 1], 0, m, mask, message)
  BY DEF Within
<1> HIDE DEF m
<1>4. m = Between(mask, m.message)
  BY <1>1 DEF m
<1>5. ReadAs(fs, i, m, got, k, 0)
  BY <1>1, <1>2, <1>3, <1>4 DEF ReadAs
<1> QED BY <1>5 DEF m

LEMMA FrameLength ==
    ASSUME NEW f \in OrderedFrames
    PROVE  Len(Encode(f)) \in Nat /\ Len(Encode(f)) >= 2
<1>1. Need(f) \in Nat /\ Need(f) >= 2 /\ Len(f.data) \in Nat
      /\ Len(Encode(f)) = Need(f) + Len(f.data)
  BY NeedType, EncodeIs
<1> QED BY <1>1

\* A control frame that is not in the middle of a message is all of its message.
LEMMA ApartAlone ==
    ASSUME NEW fs \in Seq(OrderedFrames), NEW k \in 0..(Len(fs) - 1), NEW message,
           Gathered(fs, k, message), Apart(fs), fs[k + 1].control
    PROVE  message = <<>>
<1>1. PICK b \in 0..k : /\ b = 0 \/ fs[b].fin
                        /\ \A j \in (b + 1)..k : ~fs[j].fin
                        /\ message = [j \in 1..(k - b) |-> fs[b + j].data]
  BY DEF Gathered
<1>2. k + 1 \in 1..Len(fs) /\ k + 1 - 1 = k
  OBVIOUS
<1>3. k + 1 > 1 => fs[k].fin
  BY <1>2 DEF Apart
<1>4. b = k
  <2>1. ASSUME b # k PROVE FALSE
    <3>1. k \in (b + 1)..k /\ k + 1 > 1
      BY <2>1
    <3> QED BY <1>1, <1>3, <3>1
  <2> QED BY <2>1
<1>5. 1..(k - b) = {}
  BY <1>4
<1>6. [j \in 1..(k - b) |-> fs[b + j].data] = <<>>
  BY <1>5
<1> QED BY <1>1, <1>6

LEMMA GatheredReadable ==
    ASSUME NEW fs \in Seq(OrderedFrames), NEW k \in 0..(Len(fs) - 1), NEW message,
           Gathered(fs, k, message), Readable(fs)
    PROVE  FlattenSeq(Append(message, fs[k + 1].data)) \in Seq(Codes)
<1>1. PICK b \in 0..k : message = [j \in 1..(k - b) |-> fs[b + j].data]
  BY DEF Gathered
<1> DEFINE S == Seq(Codes)
<1>2. k + 1 \in 1..Len(fs) /\ k - b \in Nat
  OBVIOUS
<1>3. \A j \in 1..(k - b) : b + j \in 1..Len(fs)
  OBVIOUS
<1>4. fs[k + 1].data \in S /\ \A j \in 1..(k - b) : fs[b + j].data \in S
  BY <1>2, <1>3 DEF Readable
<1> HIDE DEF S
<1>5. message \in [1..(k - b) -> S]
  BY <1>1, <1>4
<1>6. message \in Seq(S)
  BY <1>2, <1>5, TupleType
<1>7. Append(message, fs[k + 1].data) \in Seq(S)
  BY <1>4, <1>6
<1> QED BY <1>7, FlattenType DEF S

LEMMA ElementClose ==
    ASSUME BigEndian, NEW data
    PROVE  Element(Reply(TRUE, data)) = [code |-> "CLOSE_HANDSHAKE",
                                         buffer |-> AddNewWSFrame(TRUE, TRUE, data)]
<1>1. Reply(TRUE, data).control = TRUE
  BY DEF Reply
<1>2. Encode(Reply(TRUE, data)) = AddNewWSFrame(TRUE, TRUE, data)
  <2>1. Native(LengthBytes(Len(data))) = LengthBytes(Len(data))
    BY DEF Native
  <2>2. Reply(TRUE, data).data = data
    BY DEF Reply
  <2> QED BY <2>1, <2>2, Zenon DEF AddNewWSFrame, Encode, Reply
<1> QED BY <1>1, <1>2 DEF Element

LEMMA ByteAdvances ==
    ASSUME NEW fs \in Seq(OrderedFrames), NEW i \in Nat, i < Len(Stream(fs)), NEW p, NEW before,
           before \in Seq(Texts(fs)), Sound(fs, i, p, before)
    PROVE  LET next == AdvanceByte(p, Stream(fs)[i + 1])
           IN Sound(fs, i + 1, next, before) /\ Rests(next)
<1> DEFINE next == AdvanceByte(p, Stream(fs)[i + 1])
<1>1. PICK m, q, w, c, r, k, o : /\ p = Read(m, q, w, c, r)
                                 /\ ReadAs(fs, i, m, before \o q, k, o)
                                 /\ Queued(fs, q)
                                 /\ Enqueued(fs, w)
                                 /\ c \in BOOLEAN
                                 /\ c => HasControl(fs)
                                 /\ c /\ o >= 2 => fs[k + 1].control
  BY Zenon DEF Sound
<1>2. ReadAs(fs, i, m, before \o q, k, o)
  BY <1>1
<1> DEFINE message == m.message
           f == fs[k + 1]
           got == before \o q
<1>3. k \in 0..Len(fs) /\ o \in Nat /\ i = Len(Sent(fs, k)) + o /\ Gathered(fs, k, message)
      /\ got = EndedIn(fs, k)
  BY <1>2 DEF ReadAs
<1>4. k # Len(fs)
  <2>1. ASSUME k = Len(fs) PROVE FALSE
    <3>1. o = 0 /\ Sent(fs, k) = Stream(fs) /\ Stream(fs) \in Seq(Bytes)
      BY <1>2, <2>1, SentEnds DEF ReadAs
    <3>2. Len(Stream(fs)) \in Nat
      BY <3>1
    <3> QED BY <1>3, <3>1, <3>2
  <2> QED BY <2>1
<1>5. k \in 0..(Len(fs) - 1) /\ k + 1 \in 0..Len(fs) /\ k + 1 \in 1..Len(fs)
  BY <1>3, <1>4
<1>6. PICK mask : Within(f, o, m, mask, message)
  BY <1>2, <1>4 DEF ReadAs
<1>7. f \in OrderedFrames
  BY <1>5
<1> HIDE DEF f, message, got, next
<1>8. o < Len(Encode(f)) /\ Encode(f) \in Seq(Bytes)
  BY <1>3, <1>6, <1>7, WithinIs, EncodeIs
<1>9. Len(Encode(f)) \in Nat /\ o \in 0..(Len(Encode(f)) - 1)
  BY <1>3, <1>8
<1>10. /\ Stream(fs)[i + 1] = Encode(f)[o + 1]
       /\ Len(Sent(fs, k + 1)) = Len(Sent(fs, k)) + Len(Encode(f))
  BY <1>3, <1>5, <1>9, StreamAt DEF f
<1> DEFINE close == IF o = 1 THEN f.control ELSE c
<1>11. Onward(f, o + 1, next, message, q, w, close, r)
  <2>1. Onward(f, o + 1, AdvanceByte(Read(m, q, w, c, r), Encode(f)[o + 1]),
               message, q, w, close, r)
    BY <1>3, <1>6, <1>7, <1>8, ByteInFrame
  <2>2. next = AdvanceByte(Read(m, q, w, c, r), Encode(f)[o + 1])
    BY <1>1, <1>10 DEF next
  <2> HIDE DEF close
  <2> QED BY <2>1, <2>2
<1>12. close \in BOOLEAN /\ (close => HasControl(fs)) /\ (close /\ o + 1 >= 2 => f.control)
  <2>1. f.control \in BOOLEAN
    BY <1>7, MaskType
  <2>2. f.control => HasControl(fs)
    BY <1>5 DEF HasControl, f
  <2>3. CASE o = 1
    BY <2>1, <2>2, <2>3
  <2>4. CASE o # 1
    <3>1. o + 1 >= 2 => o >= 2
      BY <1>3, <2>4
    <3> QED BY <1>1, <2>4, <3>1 DEF f
  <2> QED BY <2>3, <2>4
<1> HIDE DEF close
<1>13. Len(Sent(fs, k)) \in Nat /\ i + 1 = Len(Sent(fs, k)) + (o + 1) /\ o + 1 \in Nat
  <2>1. Sent(fs, k) \in Seq(Bytes)
    BY <1>3, EncodingsAre
  <2>2. Len(Sent(fs, k)) \in Nat
    BY <2>1
  <2> QED BY <1>3, <2>2
<1>14. PICK new : IF o + 1 < Len(Encode(f))
                  THEN \E m2 : next = Read(m2, q, w, close, r) /\ Within(f, o + 1, m2, new, message)
                  ELSE next = AfterFrame(f, new, message, q, w, close)
  BY <1>11 DEF Onward
<1>15. CASE o + 1 < Len(Encode(f))
  <2>1. PICK m2 : next = Read(m2, q, w, close, r) /\ Within(f, o + 1, m2, new, message)
    BY <1>14, <1>15
  <2>2. ReadAs(fs, i + 1, m2, got, k, o + 1)
    <3>1. i + 1 \in Nat
      OBVIOUS
    <3> QED BY <1>3, <1>5, <1>13, <2>1, <3>1, WithinFrame DEF f
  <2>3. Sound(fs, i + 1, next, before)
    BY <1>1, <1>12, <2>1, <2>2, Zenon DEF Sound, got, f
  <2>4. m2.header # <<>>
    <3>1. o + 1 > 0
      BY <1>3
    <3> QED BY <1>7, <1>13, <2>1, <3>1, WithinIs
  <2>5. next.m = m2
    BY <2>1 DEF Read
  <2> QED BY <2>3, <2>4, <2>5 DEF Rests, next
<1>16. CASE ~(o + 1 < Len(Encode(f)))
  <2> DEFINE whole == Append(message, f.data)
             left == IF f.fin THEN <<>> ELSE whole
             text == FlattenSeq(whole)
             queue == IF f.fin THEN Append(q, text) ELSE q
             answer == IF f.fin /\ close THEN Closing(whole) ELSE <<>>
  <2>1. next = Read(Between(new, left), queue, w \o answer, close, TRUE)
    BY <1>14, <1>16, Zenon DEF AfterFrame
  <2>2. i + 1 = Len(Sent(fs, k + 1))
    BY <1>9, <1>10, <1>13, <1>16
  <2>3. /\ f.fin => text = Message(fs, EndsBefore(fs, k + 1) + 1) /\ Gathered(fs, k + 1, <<>>)
        /\ ~f.fin => Gathered(fs, k + 1, whole)
    BY <1>3, <1>5, GatheredOn DEF f
  <2>4. ClosesJustly(fs, answer) /\ (Apart(fs) => answer \in Seq(Closings(fs)))
    <3>1. CASE f.fin /\ close
      <4>1. HasControl(fs) /\ f.control
        <5>1. o + 1 >= 2
          BY <1>3, <1>7, <1>9, <1>16, FrameLength
        <5> QED BY <1>12, <3>1, <5>1
      <4> DEFINE x == [code |-> "CLOSE_HANDSHAKE", buffer |-> AddNewWSFrame(TRUE, TRUE, whole[1])]
      <4>2. answer = <<x>>
        BY <3>1 DEF Closing
      <4>3. ASSUME Apart(fs) PROVE x \in Closings(fs)
        <5>1. message = <<>>
          BY <1>3, <1>5, <4>1, <4>3, ApartAlone DEF f
        <5>2. whole[1] = f.data
          BY <5>1
        <5> HIDE DEF whole
        <5>3. f.data \in ControlTexts(fs)
          BY <1>5, <4>1 DEF ControlTexts, f
        <5> QED BY <5>2, <5>3 DEF Closings
      <4> HIDE DEF x, answer
      <4>4. ClosesJustly(fs, answer)
        BY <4>1, <4>2, JustlyOne
      <4>5. Apart(fs) => <<x>> \in Seq(Closings(fs))
        BY <4>3
      <4> QED BY <4>2, <4>4, <4>5
    <3>2. CASE ~(f.fin /\ close)
      <4>1. answer = <<>>
        BY <3>2
      <4>2. <<>> \in Seq(Closings(fs))
        OBVIOUS
      <4> QED BY <4>1, <4>2, JustlyNone
    <3> QED BY <3>1, <3>2
  <2>5. Enqueued(fs, w \o answer)
    <3> HIDE DEF answer
    <3> DEFINE S == Closings(fs)
    <3>1. ClosesJustly(fs, w) /\ (Apart(fs) => w \in Seq(S))
      BY <1>1 DEF Enqueued
    <3>2. ClosesJustly(fs, w \o answer)
      BY <2>4, <3>1, JustlyBoth
    <3>3. Apart(fs) => answer \in Seq(S)
      BY <2>4
    <3> HIDE DEF S
    <3>4. Apart(fs) => w \o answer \in Seq(S)
      BY <3>1, <3>3, Parts
    <3> QED BY <3>2, <3>4 DEF Enqueued, S
  <2>11. Readable(fs) => text \in Seq(Codes)
    BY <1>3, <1>5, GatheredReadable DEF f
  <2> HIDE DEF text, whole, answer
  <2>6. Gathered(fs, k + 1, left)
    BY <2>3
  <2>12. q \in Seq(Texts(fs)) /\ (Readable(fs) => q \in Seq(Seq(Codes)))
    BY <1>1 DEF Queued
  <2>7. queue \in Seq(Texts(fs)) /\ before \o queue = EndedIn(fs, k + 1)
    <3>1. CASE f.fin
      <4>1. text \in Texts(fs) /\ EndedIn(fs, k + 1) = Append(EndedIn(fs, k), text)
        BY <1>5, <2>3, <3>1, NextMessage DEF f
      <4>2. queue = Append(q, text) /\ queue \in Seq(Texts(fs))
        BY <2>12, <3>1, <4>1
      <4>3. before \o Append(q, text) = Append(before \o q, text)
        <5> DEFINE S == Texts(fs)
        <5>1. before \in Seq(S) /\ q \in Seq(S) /\ text \in S
          BY <2>12, <4>1
        <5> HIDE DEF S
        <5> QED BY <5>1
      <4> QED BY <1>3, <4>1, <4>2, <4>3 DEF got
    <3>2. CASE ~f.fin
      <4>1. EndedIn(fs, k + 1) = EndedIn(fs, k)
        BY <1>5, <3>2, NoMessage DEF f
      <4> QED BY <1>3, <2>12, <3>2, <4>1 DEF got
    <3> QED BY <3>1, <3>2
  <2>13. Readable(fs) => queue \in Seq(Seq(Codes))
    <3> DEFINE S == Seq(Codes)
    <3> HIDE DEF S
    <3>1. Readable(fs) => q \in Seq(S) /\ text \in S
      BY <2>11, <2>12 DEF S
    <3>2. Readable(fs) => queue \in Seq(S)
      BY <3>1
    <3> QED BY <3>2 DEF S
  <2> HIDE DEF left, queue
  <2>8. ReadAs(fs, i + 1, Between(new, left), before \o queue, k + 1, 0)
    BY <1>5, <2>2, <2>6, <2>7, BetweenFrames
  <2>14. Queued(fs, queue)
    BY <2>7, <2>13 DEF Queued
  <2>15. ~(0 >= 2)
    OBVIOUS
  <2>9. Sound(fs, i + 1, next, before)
    BY <1>12, <2>1, <2>5, <2>8, <2>14, <2>15, Zenon DEF Sound
  <2>10. next.ready
    BY <2>1 DEF Read
  <2> QED BY <2>9, <2>10 DEF Rests, next
<1> QED BY <1>15, <1>16

-----------------------------------------------------------------------------
(* A read of any number of bytes.                                          *)

\* The recursion of readMachineAdvance.
Advances(p, bytes, n, g) ==
    g = [i \in 0..n |-> IF i = 0 THEN p ELSE AdvanceByte(g[i - 1], bytes[i])]

LEMMA AdvancesAt ==
    ASSUME NEW p, NEW bytes, NEW n \in Nat, NEW g, Advances(p, bytes, n, g), NEW i \in 0..n
    PROVE  g[i] = IF i = 0 THEN p ELSE AdvanceByte(g[i - 1], bytes[i])
BY Zenon DEF Advances

LEMMA AdvancesSome ==
    ASSUME NEW p, NEW bytes, NEW n \in Nat
    PROVE  \E g : Advances(p, bytes, n, g)
<1> DEFINE T == {k \in Nat : ~\E g : Advances(p, bytes, k, g)}
<1>1. ASSUME T # {} PROVE FALSE
  <2>0. T \subseteq Nat
    OBVIOUS
  <2>1. PICK k \in T : \A y \in T : k <= y
    <3> HIDE DEF T
    <3> QED BY <1>1, <2>0, Smallest
  <2>2. k \in Nat /\ ~\E g : Advances(p, bytes, k, g)
    BY <2>1
  <2>3. k # 0
    <3> DEFINE g == [i \in 0..0 |-> p]
    <3>1. \A i \in 0..0 : i = 0
      OBVIOUS
    <3>2. [i \in 0..0 |-> IF i = 0 THEN p ELSE AdvanceByte(g[i - 1], bytes[i])] = g
      BY <3>1
    <3>3. Advances(p, bytes, 0, g)
      BY <3>2 DEF Advances
    <3> HIDE DEF g
    <3> QED BY <2>2, <3>3
  <2>4. k - 1 \in Nat /\ k - 1 \notin T
    BY <2>1, <2>2, <2>3
  <2>5. PICK g : Advances(p, bytes, k - 1, g)
    BY <2>4
  <2> DEFINE last == AdvanceByte(g[k - 1], bytes[k])
             h == [i \in 0..k |-> IF i = k THEN last ELSE g[i]]
  <2>6. h[k] = last /\ \A i \in 0..(k - 1) : h[i] = g[i]
    <3> HIDE DEF last
    <3> QED BY <2>2, <2>3
  <2>7. \A i \in 0..(k - 1) : g[i] = IF i = 0 THEN p ELSE AdvanceByte(g[i - 1], bytes[i])
    BY <2>5 DEF Advances
  <2>8. ASSUME NEW i \in 0..k
        PROVE  h[i] = IF i = 0 THEN p ELSE AdvanceByte(h[i - 1], bytes[i])
    <3>1. CASE i = k
      <4>1. k - 1 \in 0..(k - 1)
        BY <2>4
      <4>2. h[k - 1] = g[k - 1]
        BY <2>6, <4>1
      <4> HIDE DEF h
      <4> QED BY <2>3, <2>6, <3>1, <4>2 DEF last
    <3>2. CASE i # k
      <4>1. i \in 0..(k - 1) /\ (i # 0 => i - 1 \in 0..(k - 1))
        BY <2>2, <3>2
      <4>2. h[i] = g[i] /\ (i # 0 => h[i - 1] = g[i - 1])
        BY <2>6, <4>1
      <4>3. g[i] = IF i = 0 THEN p ELSE AdvanceByte(g[i - 1], bytes[i])
        BY <2>7, <4>1
      <4> HIDE DEF h
      <4> QED BY <4>2, <4>3
    <3> QED BY <3>1, <3>2
  <2>9. h = [i \in 0..k |-> h[i]]
    BY DEF h
  <2>10. Advances(p, bytes, k, h)
    <3> HIDE DEF h
    <3>1. [i \in 0..k |-> h[i]]
          = [i \in 0..k |-> IF i = 0 THEN p ELSE AdvanceByte(h[i - 1], bytes[i])]
      BY <2>8
    <3> QED BY <2>9, <3>1 DEF Advances
  <2> QED BY <2>2, <2>10
<1> QED BY <1>1

LEMMA AdvanceIs ==
    ASSUME NEW p, NEW bytes, Len(bytes) \in Nat
    PROVE  \E g : Advances(p, bytes, Len(bytes), g)
                  /\ ReadMachineAdvance(p, bytes) = g[Len(bytes)]
<1> DEFINE g == CHOOSE g : g = [i \in 0..Len(bytes) |->
                                  IF i = 0 THEN p ELSE AdvanceByte(g[i - 1], bytes[i])]
<1>1. \E h : h = [i \in 0..Len(bytes) |-> IF i = 0 THEN p ELSE AdvanceByte(h[i - 1], bytes[i])]
  <2>1. PICK h : Advances(p, bytes, Len(bytes), h)
    BY AdvancesSome
  <2> QED BY <2>1 DEF Advances
<1>2. g = [i \in 0..Len(bytes) |-> IF i = 0 THEN p ELSE AdvanceByte(g[i - 1], bytes[i])]
  BY <1>1
<1>3. ReadMachineAdvance(p, bytes) = g[Len(bytes)]
  BY DEF ReadMachineAdvance
<1>4. Advances(p, bytes, Len(bytes), g)
  BY <1>2 DEF Advances
<1> QED BY <1>3, <1>4

\* A read of n bytes after the first i takes the machine from p to next.
ReadOf(fs, i, n, before, p, next) ==
    /\ fs \in Seq(OrderedFrames) /\ i \in Nat /\ n \in Nat /\ i + n <= Len(Stream(fs))
    /\ before \in Seq(Texts(fs)) /\ Sound(fs, i, p, before)
    /\ next = ReadMachineAdvance(p, SubSeq(Stream(fs), i + 1, i + n))

LEMMA ReadAdvances ==
    ASSUME NEW fs, NEW i, NEW n, NEW before, NEW p, NEW next, ReadOf(fs, i, n, before, p, next)
    PROVE  Sound(fs, i + n, next, before) /\ (n > 0 => Rests(next)) /\ (n = 0 => next = p)
<1>0. /\ fs \in Seq(OrderedFrames) /\ i \in Nat /\ n \in Nat /\ i + n <= Len(Stream(fs))
      /\ before \in Seq(Texts(fs)) /\ Sound(fs, i, p, before)
      /\ next = ReadMachineAdvance(p, SubSeq(Stream(fs), i + 1, i + n))
  BY DEF ReadOf
<1> DEFINE s == Stream(fs)
           bytes == SubSeq(s, i + 1, i + n)
<1>1. s \in Seq(Bytes)
  BY <1>0, SentEnds
<1>2. Len(bytes) = n /\ \A j \in 1..n : bytes[j] = s[i + j]
  <2>1. Len(s) \in Nat /\ i + n <= Len(s) /\ i + 1 \in 1..(Len(s) + 1) /\ i + n \in 0..Len(s)
    BY <1>0, <1>1
  <2> HIDE DEF s
  <2>2. bytes \in Seq(Bytes)
    BY <1>1, <2>1
  <2>3. Len(bytes) = n
    BY <1>0, <1>1, <2>1
  <2>4. ASSUME NEW j \in 1..n PROVE bytes[j] = s[i + j]
    <3>1. bytes[j] = s[i + 1 + j - 1]
      <4> DEFINE a == i + 1
                 b == i + n
      <4>1. a \in 1..(Len(s) + 1) /\ b \in 0..Len(s) /\ j \in 1..(b - a + 1)
        BY <1>0, <2>1
      <4> HIDE DEF a, b
      <4>2. SubSeq(s, a, b)[j] = s[a + j - 1]
        BY <1>1, <2>1, <4>1
      <4> QED BY <4>2 DEF a, b
    <3>2. i + 1 + j - 1 = i + j
      BY <1>0
    <3> QED BY <3>1, <3>2
  <2> QED BY <2>3, <2>4
<1> HIDE DEF bytes, s
<1>3. PICK g : Advances(p, bytes, n, g) /\ ReadMachineAdvance(p, bytes) = g[n]
  BY <1>0, <1>2, AdvanceIs
<1> DEFINE T == {j \in Nat : j \in 0..n /\ ~(Sound(fs, i + j, g[j], before)
                                             /\ (j > 0 => Rests(g[j])))}
<1>4. ASSUME T # {} PROVE FALSE
  <2>0. T \subseteq Nat
    OBVIOUS
  <2>1. PICK j \in T : \A y \in T : j <= y
    <3> HIDE DEF T
    <3> QED BY <1>4, <2>0, Smallest
  <2>2. j \in 0..n /\ ~(Sound(fs, i + j, g[j], before) /\ (j > 0 => Rests(g[j])))
    BY <2>1
  <2>3. j # 0
    <3>1. 0 \in 0..n /\ i + 0 = i
      BY <1>0
    <3>2. g[0] = p
      <4>1. Advances(p, bytes, n, g)
        BY <1>3
      <4>2. g[0] = IF 0 = 0 THEN p ELSE AdvanceByte(g[0 - 1], bytes[0])
        BY <3>1, <4>1, Zenon DEF Advances
      <4> QED BY <4>2
    <3> QED BY <1>0, <2>2, <3>1, <3>2
  <2> DEFINE l == j - 1
  <2>4. l \in 0..n /\ l \in Nat /\ l + 1 = j /\ l \notin T /\ j \in 1..n
    BY <1>0, <2>1, <2>2, <2>3
  <2>5. Sound(fs, i + l, g[l], before)
    BY <2>4
  <2> HIDE DEF l, T
  <2>6. g[j] = AdvanceByte(g[l], bytes[j])
    <3>1. g[j] = IF j = 0 THEN p ELSE AdvanceByte(g[j - 1], bytes[j])
      BY <1>0, <1>3, <2>2, AdvancesAt
    <3> QED BY <2>3, <3>1 DEF l
  <2>7. bytes[j] = Stream(fs)[i + l + 1] /\ i + l + 1 = i + j
    <3>1. i + l + 1 = i + j
      BY <1>0, <2>4
    <3> QED BY <1>0, <1>2, <2>4, <3>1 DEF s
  <2>8. i + l \in Nat /\ i + l < Len(Stream(fs))
    <3>1. Len(Stream(fs)) \in Nat
      BY <1>1 DEF s
    <3> QED BY <1>0, <2>4, <3>1
  <2>9. Sound(fs, i + l + 1, AdvanceByte(g[l], Stream(fs)[i + l + 1]), before)
        /\ Rests(AdvanceByte(g[l], Stream(fs)[i + l + 1]))
    BY <1>0, <2>5, <2>8, ByteAdvances
  <2> QED BY <2>2, <2>6, <2>7, <2>9
<1>5. n \in 0..n /\ n \notin T
  BY <1>0, <1>4
<1>6. Sound(fs, i + n, g[n], before) /\ (n > 0 => Rests(g[n]))
  BY <1>0, <1>5
<1>7. n = 0 => g[n] = p
  <2>1. Advances(p, bytes, n, g) /\ n \in 0..n
    BY <1>3, <1>5
  <2>2. g[n] = IF n = 0 THEN p ELSE AdvanceByte(g[n - 1], bytes[n])
    BY <2>1, Zenon DEF Advances
  <2> QED BY <2>2
<1> QED BY <1>0, <1>3, <1>6, <1>7 DEF bytes, s

-----------------------------------------------------------------------------
(* What the handler of the messages prints.                                *)

LEMMA JustlyAppend ==
    ASSUME NEW fs, NEW a, NEW x, ClosesJustly(fs, a), x.code = "CLOSE_HANDSHAKE" => HasControl(fs)
    PROVE  ClosesJustly(fs, Append(a, x))
<1>1. PICK W : a \in Seq(W) /\ \A w \in W : w.code = "CLOSE_HANDSHAKE" => HasControl(fs)
  BY DEF ClosesJustly
<1> DEFINE V == W \cup {x}
<1>2. \A w \in V : w.code = "CLOSE_HANDSHAKE" => HasControl(fs)
  BY <1>1
<1>3. a \in Seq(V) /\ x \in V
  BY <1>1
<1> HIDE DEF V
<1>4. Append(a, x) \in Seq(V)
  BY <1>3
<1> QED BY <1>2, <1>4 DEF ClosesJustly

LEMMA JustlyTail ==
    ASSUME NEW fs, NEW a, ClosesJustly(fs, a), a # <<>>
    PROVE  ClosesJustly(fs, Tail(a)) /\ (Head(a).code = "CLOSE_HANDSHAKE" => HasControl(fs))
<1>1. PICK W : a \in Seq(W) /\ \A w \in W : w.code = "CLOSE_HANDSHAKE" => HasControl(fs)
  BY DEF ClosesJustly
<1>2. Tail(a) \in Seq(W) /\ Head(a) \in W
  BY <1>1, HeadTailProperties
<1> QED BY <1>1, <1>2 DEF ClosesJustly

\* The printer with the work elements it has enqueued.
Printer(text, split, elements) == [text |-> text, split |-> split, work |-> elements]
Prints(fs, jp) ==
    \E text, split, elements : jp = Printer(text, split, elements) /\ ClosesJustly(fs, elements)

LEMMA OutputCode ==
    ASSUME NEW last, NEW text
    PROVE  MessageEnqueue(last, text).code # "CLOSE_HANDSHAKE"
BY DEF MessageEnqueue

LEMMA JsonWritePrints ==
    ASSUME NEW fs, NEW jp, NEW text, Prints(fs, jp)
    PROVE  Prints(fs, JsonWrite(jp, text))
<1>1. PICK t, s, w : jp = Printer(t, s, w) /\ ClosesJustly(fs, w)
  BY DEF Prints
<1>2. jp.work = w
  BY <1>1 DEF Printer
<1> DEFINE r == FrameSize - Len(jp.text)
           e == MessageEnqueue(FALSE, jp.text)
           rest == SubSeq(text, r + 1, Len(text))
           more == jp.text \o text
<1>3. ClosesJustly(fs, Append(w, e))
  BY <1>1, OutputCode, JustlyAppend
<1>4. CASE Len(text) < r
  <2>1. JsonWrite(jp, text) = [jp EXCEPT !.text = more]
    BY <1>4 DEF JsonWrite
  <2> HIDE DEF more
  <2>2. [jp EXCEPT !.text = more] = Printer(more, s, w)
    BY <1>1 DEF Printer
  <2> QED BY <1>1, <2>1, <2>2 DEF Prints
<1>5. CASE ~(Len(text) < r)
  <2>1. JsonWrite(jp, text) = Printer(rest, TRUE, Append(w, e))
    <3>1. JsonWrite(jp, text) = [text |-> rest, split |-> TRUE, work |-> Append(jp.work, e)]
      BY <1>5, Zenon DEF JsonWrite
    <3> QED BY <1>2, <3>1, Zenon DEF Printer
  <2> HIDE DEF rest, e
  <2> QED BY <1>3, <2>1, Zenon DEF Prints
<1> QED BY <1>4, <1>5

LEMMA FlushJsonPrints ==
    ASSUME NEW fs, NEW jp, Prints(fs, jp)
    PROVE  Prints(fs, FlushJson(jp))
<1>1. PICK t, s, w : jp = Printer(t, s, w) /\ ClosesJustly(fs, w)
  BY DEF Prints
<1>2. jp.work = w
  BY <1>1 DEF Printer
<1> DEFINE e == MessageEnqueue(TRUE, jp.text)
           all == Append(w, e)
           p1 == [jp EXCEPT !.work = all]
           p2 == [p1 EXCEPT !.text = <<>>]
<1>3. ClosesJustly(fs, all)
  BY <1>1, OutputCode, JustlyAppend
<1>4. FlushJson(jp) = p2
  BY <1>2 DEF FlushJson
<1> HIDE DEF all
<1>5. p1 = Printer(t, s, all)
  BY <1>1 DEF Printer
<1> HIDE DEF p1
<1>6. p2 = Printer(<<>>, s, all)
  BY <1>5 DEF Printer
<1> HIDE DEF p2
<1> QED BY <1>3, <1>4, <1>6 DEF Prints

LEMMA OnMessagePrints ==
    ASSUME NEW fs, NEW jp, NEW message, Prints(fs, jp)
    PROVE  Prints(fs, OnMessage(jp, message))
<1>1. Prints(fs, JsonWrite(jp, <<"[">>))
  BY JsonWritePrints
<1>2. Prints(fs, JsonWrite(JsonWrite(jp, <<"[">>), Text(message)))
  BY <1>1, JsonWritePrints
<1>3. Prints(fs, JsonWrite(JsonWrite(JsonWrite(jp, <<"[">>), Text(message)), <<"]">>))
  BY <1>2, JsonWritePrints
<1> QED BY <1>3, FlushJsonPrints DEF OnMessage

\* The recursion of HandleMessages.
Handles(start, queue, n, g) ==
    g = [i \in 0..n |-> IF i = 0 THEN start ELSE OnMessage(g[i - 1], queue[i])]

LEMMA HandlesSome ==
    ASSUME NEW start, NEW queue, NEW n \in Nat
    PROVE  \E g : Handles(start, queue, n, g)
<1> DEFINE T == {k \in Nat : ~\E g : Handles(start, queue, k, g)}
<1>1. ASSUME T # {} PROVE FALSE
  <2>0. T \subseteq Nat
    OBVIOUS
  <2>1. PICK k \in T : \A y \in T : k <= y
    <3> HIDE DEF T
    <3> QED BY <1>1, <2>0, Smallest
  <2>2. k \in Nat /\ ~\E g : Handles(start, queue, k, g)
    BY <2>1
  <2>3. k # 0
    <3> DEFINE g == [i \in 0..0 |-> start]
    <3>1. \A i \in 0..0 : i = 0
      OBVIOUS
    <3>2. [i \in 0..0 |-> IF i = 0 THEN start ELSE OnMessage(g[i - 1], queue[i])] = g
      BY <3>1
    <3>3. Handles(start, queue, 0, g)
      BY <3>2 DEF Handles
    <3> HIDE DEF g
    <3> QED BY <2>2, <3>3
  <2>4. k - 1 \in Nat /\ k - 1 \notin T
    BY <2>1, <2>2, <2>3
  <2>5. PICK g : Handles(start, queue, k - 1, g)
    BY <2>4
  <2> DEFINE last == OnMessage(g[k - 1], queue[k])
             h == [i \in 0..k |-> IF i = k THEN last ELSE g[i]]
  <2>6. h[k] = last /\ \A i \in 0..(k - 1) : h[i] = g[i]
    <3> HIDE DEF last
    <3> QED BY <2>2, <2>3
  <2>7. \A i \in 0..(k - 1) : g[i] = IF i = 0 THEN start ELSE OnMessage(g[i - 1], queue[i])
    BY <2>5 DEF Handles
  <2>8. ASSUME NEW i \in 0..k
        PROVE  h[i] = IF i = 0 THEN start ELSE OnMessage(h[i - 1], queue[i])
    <3>1. CASE i = k
      <4>1. k - 1 \in 0..(k - 1)
        BY <2>4
      <4>2. h[k - 1] = g[k - 1]
        BY <2>6, <4>1
      <4> HIDE DEF h
      <4> QED BY <2>3, <2>6, <3>1, <4>2 DEF last
    <3>2. CASE i # k
      <4>1. i \in 0..(k - 1) /\ (i # 0 => i - 1 \in 0..(k - 1))
        BY <2>2, <3>2
      <4>2. h[i] = g[i] /\ (i # 0 => h[i - 1] = g[i - 1])
        BY <2>6, <4>1
      <4>3. g[i] = IF i = 0 THEN start ELSE OnMessage(g[i - 1], queue[i])
        BY <2>7, <4>1
      <4> HIDE DEF h
      <4> QED BY <4>2, <4>3
    <3> QED BY <3>1, <3>2
  <2>9. h = [i \in 0..k |-> h[i]]
    BY DEF h
  <2>10. Handles(start, queue, k, h)
    <3> HIDE DEF h
    <3>1. [i \in 0..k |-> h[i]]
          = [i \in 0..k |-> IF i = 0 THEN start ELSE OnMessage(h[i - 1], queue[i])]
      BY <2>8
    <3> QED BY <2>9, <3>1 DEF Handles
  <2> QED BY <2>2, <2>10
<1> QED BY <1>1

LEMMA HandlesPrints ==
    ASSUME NEW fs, NEW start, NEW queue, NEW n \in Nat, NEW g,
           Handles(start, queue, n, g), Prints(fs, start)
    PROVE  Prints(fs, g[n])
<1> DEFINE T == {j \in Nat : j \in 0..n /\ ~Prints(fs, g[j])}
<1>1. ASSUME T # {} PROVE FALSE
  <2>0. T \subseteq Nat
    OBVIOUS
  <2>1. PICK j \in T : \A y \in T : j <= y
    <3> HIDE DEF T
    <3> QED BY <1>1, <2>0, Smallest
  <2>2. j \in 0..n /\ ~Prints(fs, g[j])
    BY <2>1
  <2>3. g[j] = IF j = 0 THEN start ELSE OnMessage(g[j - 1], queue[j])
    BY <2>2, Zenon DEF Handles
  <2>4. j # 0
    BY <2>2, <2>3
  <2>5. j - 1 \in 0..n /\ j - 1 \in Nat /\ j - 1 \notin T
    BY <2>1, <2>2, <2>4
  <2>6. Prints(fs, g[j - 1])
    BY <2>5
  <2> QED BY <2>2, <2>3, <2>4, <2>6, OnMessagePrints
<1>2. n \in 0..n /\ n \notin T
  BY <1>1
<1> QED BY <1>2

-----------------------------------------------------------------------------
(* The invariant holds at first and every step keeps it.                   *)

LEMMA ReadStart ==
    ASSUME NEW fs \in Seq(OrderedFrames)
    PROVE  ReadAs(fs, 0, NewReadMachine, <<>>, 0, 0)
<1>1. Sent(fs, 0) = <<>>
  BY SentEnds
<1>2. Gathered(fs, 0, <<>>)
  BY DEF Gathered
<1>3. EndedIn(fs, 0) = <<>>
  <2>1. EndsBefore(fs, 0 + 1) = 0
    BY EndsStart
  <2> DEFINE S == Texts(fs)
             ms == Messages(fs)
  <2>2. ms \in Seq(S)
    BY MessagesType
  <2> HIDE DEF S, ms
  <2>3. SubSeq(ms, 1, 0) = <<>>
    BY <2>2
  <2> QED BY <2>1, <2>3 DEF EndedIn, ms
<1>4. 0 \in 0..Len(fs) /\ 0 = Len(Sent(fs, 0))
  BY <1>1
<1>5. ReadAs(fs, 0, Between(<<>>, <<>>), <<>>, 0, 0)
  BY <1>2, <1>3, <1>4, BetweenFrames
<1>6. NewReadMachine = Between(<<>>, <<>>)
  BY DEF NewReadMachine, Between, Machine
<1> QED BY <1>5, <1>6

LEMMA MachineInit ==
    ASSUME SocketInit, \A i \in 1..Len(frames) : Ordered(frames[i])
    PROVE  MachineInv
<1>1. PICK fs \in Conversations : SocketInitWith(fs)
  BY DEF SocketInit
<1>2. /\ frames = fs /\ taken = 0 /\ machine = NewReadMachine /\ inbox = <<>> /\ work = <<>>
      /\ handled = <<>> /\ shouldClose = FALSE
  BY <1>1 DEF SocketInitWith
<1>3. fs \in Seq(OrderedFrames)
  <2>1. fs \in Seq(FrameSet)
    BY SocketAssumption
  <2>2. \A i \in 1..Len(fs) : Ordered(fs[i])
    BY <1>2
  <2>3. \A i \in 1..Len(fs) : fs[i] \in FrameSet /\ Ordered(fs[i])
    BY <2>1, <2>2
  <2>4. \A i \in 1..Len(fs) : fs[i] \in OrderedFrames
    BY <2>3 DEF OrderedFrames
  <2> HIDE DEF OrderedFrames
  <2> QED BY <2>1, <2>4
<1> DEFINE T == Texts(fs)
<1>4. <<>> \in Seq(T) /\ <<>> \o <<>> = <<>>
  OBVIOUS
<1>5. Len(Stream(fs)) \in Nat
  BY <1>3, SentEnds
<1>8. machine = NewReadMachine
  BY <1>2
<1>9. Reading(fs, 0, NewReadMachine, <<>>)
  BY <1>3, ReadStart DEF Reading
<1>10. Told(<<>>, machine, <<>>) /\ ClosesJustly(fs, <<>>)
  BY JustlyNone DEF Told
<1>11. handled \o inbox = <<>>
  BY <1>2
<1>12. 0 \in 0..Len(Stream(fs))
  BY <1>5
<1>13. handled \in Seq(Texts(frames)) /\ inbox \in Seq(Texts(frames))
  BY <1>2, <1>4
<1>14. Reading(frames, taken, machine, handled \o inbox)
  BY <1>2, <1>8, <1>9, <1>11
<1>15. handled \in Seq(Seq(Codes)) /\ inbox \in Seq(Seq(Codes))
  <2> DEFINE S == Seq(Codes)
  <2> HIDE DEF S
  <2>1. <<>> \in Seq(S)
    OBVIOUS
  <2> QED BY <1>2, <2>1 DEF S
<1> QED BY <1>2, <1>3, <1>10, <1>12, <1>13, <1>14, <1>15 DEF MachineInv

\* What readMachineAdvance makes of the next n bytes.
AfterRead(n) ==
    ReadMachineAdvance(Progress(machine, inbox), SubSeq(Stream(frames), taken + 1, taken + n))

LEMMA ReadSound ==
    ASSUME MachineInv, NEW n \in Reads, DoWSReadWork(n)
    PROVE  /\ Sound(frames, taken + n, AfterRead(n), handled)
           /\ n > 0 => Rests(AfterRead(n))
           /\ n = 0 => AfterRead(n) = Read(machine, inbox, <<>>, FALSE, FALSE)
<1> DEFINE p0 == Progress(machine, inbox)
           p == AfterRead(n)
<1>1. /\ work = <<>> /\ taken + n <= Len(Stream(frames))
  BY DEF DoWSReadWork
<1>2. /\ frames \in Seq(OrderedFrames) /\ taken \in Nat /\ n \in Nat
      /\ handled \in Seq(Texts(frames)) /\ inbox \in Seq(Texts(frames))
      /\ Readable(frames) => handled \in Seq(Seq(Codes)) /\ inbox \in Seq(Seq(Codes))
      /\ Reading(frames, taken, machine, handled \o inbox)
  BY SocketAssumption DEF MachineInv
<1>3. p0 = Read(machine, inbox, <<>>, FALSE, FALSE)
  BY DEF Progress, Read
<1> HIDE DEF p0
<1>4. Sound(frames, taken, p0, handled)
  <2>1. Enqueued(frames, <<>>)
    <3>1. <<>> \in Seq(Closings(frames))
      OBVIOUS
    <3> QED BY <3>1, JustlyNone DEF Enqueued
  <2>2. Queued(frames, inbox)
    BY <1>2 DEF Queued
  <2>3. PICK k, o : ReadAs(frames, taken, machine, handled \o inbox, k, o)
    BY <1>2 DEF Reading
  <2> QED BY <1>3, <2>1, <2>2, <2>3, Zenon DEF Sound
<1>0. p = ReadMachineAdvance(p0, SubSeq(Stream(frames), taken + 1, taken + n))
  BY DEF AfterRead, p0
<1> HIDE DEF p
<1>5. Sound(frames, taken + n, p, handled) /\ (n > 0 => Rests(p)) /\ (n = 0 => p = p0)
  <2>1. /\ frames \in Seq(OrderedFrames) /\ taken \in Nat /\ n \in Nat
        /\ taken + n <= Len(Stream(frames)) /\ handled \in Seq(Texts(frames))
    BY <1>1, <1>2
  <2>2. ReadOf(frames, taken, n, handled, p0, p)
    BY <1>0, <1>4, <2>1 DEF ReadOf
  <2> QED BY <2>2, ReadAdvances
<1> QED BY <1>3, <1>5 DEF p

LEMMA DoWSReadWorkInv ==
    ASSUME MachineInv, NEW n \in Reads, DoWSReadWork(n)
    PROVE  MachineInv'
<1> DEFINE p == AfterRead(n)
<1>1. /\ work = <<>> /\ ~shouldClose /\ taken + n <= Len(Stream(frames))
      /\ taken' = taken + n /\ machine' = p.m /\ inbox' = p.inbox
      /\ work' = IF HasMessage(p) THEN Append(p.work, MessageReceived) ELSE p.work
      /\ frames' = frames /\ handled' = handled /\ shouldClose' = shouldClose
  BY DEF DoWSReadWork, AfterRead
<1>2. /\ frames \in Seq(OrderedFrames) /\ taken \in Nat /\ Len(Stream(frames)) \in Nat /\ n \in Nat
      /\ handled \in Seq(Texts(frames)) /\ inbox \in Seq(Texts(frames))
      /\ Readable(frames) => handled \in Seq(Seq(Codes)) /\ inbox \in Seq(Seq(Codes))
      /\ Reading(frames, taken, machine, handled \o inbox)
      /\ Told(inbox, machine, <<>>) /\ shouldClose \in BOOLEAN
  <2>1. frames \in Seq(OrderedFrames) /\ taken \in 0..Len(Stream(frames))
    BY DEF MachineInv
  <2>2. Len(Stream(frames)) \in Nat
    BY <2>1, SentEnds
  <2> QED BY <1>1, <2>1, <2>2, SocketAssumption DEF MachineInv
<1>5. /\ Sound(frames, taken + n, p, handled) /\ (n > 0 => Rests(p))
      /\ n = 0 => p = Read(machine, inbox, <<>>, FALSE, FALSE)
  BY ReadSound
<1> HIDE DEF p
<1>6. PICK m, q, w, c, r :
          /\ p = Read(m, q, w, c, r)
          /\ Reading(frames, taken + n, m, handled \o q)
          /\ Queued(frames, q)
          /\ ClosesJustly(frames, w)
  BY <1>5, Zenon DEF Sound, Reading, Enqueued
<1>7. p.m = m /\ p.inbox = q /\ p.work = w
  BY <1>6 DEF Read
<1>8. ClosesJustly(frames, work')
  <2>1. MessageReceived.code # "CLOSE_HANDSHAKE"
    BY DEF MessageReceived
  <2>2. ClosesJustly(frames, Append(w, MessageReceived))
    BY <1>6, <2>1, JustlyAppend
  <2> QED BY <1>1, <1>6, <1>7, <2>2
<1>9. Told(inbox', machine', work')
  <2>1. CASE n = 0
    <3>1. p = Read(machine, inbox, <<>>, FALSE, FALSE)
      BY <1>5, <2>1
    <3>2. ~p.ready /\ p.m = machine /\ p.inbox = inbox /\ p.work = <<>>
      BY <3>1 DEF Read
    <3>3. ~HasMessage(p)
      BY <3>2 DEF HasMessage
    <3>4. work' = <<>> /\ machine' = machine /\ inbox' = inbox
      BY <1>1, <3>2, <3>3
    <3> QED BY <1>2, <3>4
  <2>2. CASE n # 0
    <3> SUFFICES ASSUME p.m.header = <<>>
                 PROVE  \E j \in 1..Len(work') : work'[j].code = "MESSAGE_RECEIVED"
      BY <1>1 DEF Told
    <3>1. HasMessage(p)
      BY <1>2, <1>5, <2>2 DEF Rests, HasMessage
    <3>2. work' = Append(w, MessageReceived)
      BY <1>1, <1>7, <3>1
    <3>3. PICK W : w \in Seq(W)
      BY <1>6 DEF ClosesJustly
    <3>4. Len(w) + 1 \in 1..Len(Append(w, MessageReceived))
          /\ Append(w, MessageReceived)[Len(w) + 1] = MessageReceived
      BY <3>3
    <3>5. MessageReceived.code = "MESSAGE_RECEIVED"
      BY DEF MessageReceived
    <3> QED BY <3>2, <3>4, <3>5
  <2> QED BY <2>1, <2>2
<1>10. taken + n \in 0..Len(Stream(frames))
  BY <1>1, <1>2
<1>11. Reading(frames, taken', machine', handled \o inbox')
  BY <1>1, <1>6, <1>7
<1>12. inbox' \in Seq(Texts(frames)) /\ (Readable(frames) => inbox' \in Seq(Seq(Codes)))
  BY <1>1, <1>6, <1>7 DEF Queued
<1> QED BY <1>1, <1>2, <1>8, <1>9, <1>10, <1>11, <1>12 DEF MachineInv

LEMMA ReadNothingInv ==
    ASSUME MachineInv, ReadNothing
    PROVE  MachineInv'
<1>1. /\ taken = Len(Stream(frames)) /\ shouldClose' = TRUE /\ frames' = frames /\ taken' = taken
      /\ machine' = machine /\ inbox' = inbox /\ work' = work /\ handled' = handled
  BY DEF ReadNothing
<1>2. Len(Stream(frames)) = Len(Stream(frames'))
  BY <1>1
<1> QED BY <1>1, <1>2 DEF MachineInv

LEMMA HandlesIs ==
    ASSUME HandleMessages, Len(inbox) \in Nat
    PROVE  \E g : /\ Handles(Printer(printer.text, printer.split, <<>>), inbox, Len(inbox), g)
                  /\ work' = Tail(work) \o g[Len(inbox)].work
                  /\ printer' = [text |-> g[Len(inbox)].text, split |-> g[Len(inbox)].split]
<1> DEFINE start == [text |-> printer.text, split |-> printer.split, work |-> <<>>]
           after == CHOOSE g : g = [i \in 0..Len(inbox) |->
                                      IF i = 0 THEN start ELSE OnMessage(g[i - 1], inbox[i])]
<1>1. /\ work' = Tail(work) \o after[Len(inbox)].work
      /\ printer' = [text |-> after[Len(inbox)].text, split |-> after[Len(inbox)].split]
  BY DEF HandleMessages
<1>2. Handles(start, inbox, Len(inbox), after)
  <2>1. PICK h : Handles(start, inbox, Len(inbox), h)
    BY HandlesSome
  <2> HIDE DEF start
  <2>2. \E g : g = [i \in 0..Len(inbox) |->
                      IF i = 0 THEN start ELSE OnMessage(g[i - 1], inbox[i])]
    BY <2>1 DEF Handles
  <2>3. after = [i \in 0..Len(inbox) |->
                   IF i = 0 THEN start ELSE OnMessage(after[i - 1], inbox[i])]
    BY <2>2
  <2> QED BY <2>3 DEF Handles
<1>3. start = Printer(printer.text, printer.split, <<>>)
  BY DEF Printer
<1> HIDE DEF after, start
<1> QED BY <1>1, <1>2, <1>3

LEMMA HandleMessagesInv ==
    ASSUME MachineInv, HandleMessages
    PROVE  MachineInv'
<1> DEFINE start == Printer(printer.text, printer.split, <<>>)
<1>0. inbox \in Seq(Texts(frames))
  BY DEF MachineInv
<1>3. Len(inbox) \in Nat
  BY <1>0
<1>4. PICK after : /\ Handles(start, inbox, Len(inbox), after)
                   /\ work' = Tail(work) \o after[Len(inbox)].work
  BY <1>3, HandlesIs
<1> DEFINE jp == after[Len(inbox)]
<1>1. /\ work # <<>> /\ handled' = handled \o inbox /\ inbox' = <<>>
      /\ work' = Tail(work) \o jp.work
      /\ frames' = frames /\ taken' = taken /\ machine' = machine /\ shouldClose' = shouldClose
  BY <1>4 DEF HandleMessages
<1>2. /\ frames \in Seq(OrderedFrames) /\ taken \in 0..Len(Stream(frames))
      /\ handled \in Seq(Texts(frames)) /\ inbox \in Seq(Texts(frames))
      /\ Reading(frames, taken, machine, handled \o inbox)
      /\ ClosesJustly(frames, work) /\ shouldClose \in BOOLEAN
      /\ shouldClose => taken = Len(Stream(frames)) \/ HasControl(frames)
  BY DEF MachineInv
<1>5. Prints(frames, start)
  <2>1. ClosesJustly(frames, <<>>)
    BY JustlyNone
  <2> QED BY <2>1 DEF Prints
<1>6. Prints(frames, jp)
  <2> HIDE DEF start
  <2> QED BY <1>3, <1>4, <1>5, HandlesPrints
<1>7. ClosesJustly(frames, jp.work)
  <2> HIDE DEF jp
  <2>1. PICK t, s, w : jp = Printer(t, s, w) /\ ClosesJustly(frames, w)
    BY <1>6 DEF Prints
  <2>2. jp.work = w
    BY <2>1 DEF Printer
  <2> QED BY <2>1, <2>2
<1> HIDE DEF jp
<1>8. ClosesJustly(frames, work')
  <2>1. ClosesJustly(frames, Tail(work))
    BY <1>1, <1>2, JustlyTail
  <2>2. ClosesJustly(frames, Tail(work) \o jp.work)
    BY <1>7, <2>1, JustlyBoth
  <2> QED BY <1>1, <2>2
<1>9. (handled \o inbox) \o <<>> = handled \o inbox
      /\ handled \o inbox \in Seq(Texts(frames)) /\ <<>> \in Seq(Texts(frames))
  BY <1>2
<1>10. Told(<<>>, machine, work')
  BY DEF Told
<1>11. Reading(frames, taken', machine', handled' \o inbox')
  BY <1>1, <1>2, <1>9
<1>12. handled' \in Seq(Texts(frames)) /\ inbox' \in Seq(Texts(frames))
  BY <1>1, <1>9
<1>14. Readable(frames) => handled' \in Seq(Seq(Codes)) /\ inbox' \in Seq(Seq(Codes))
  <2> DEFINE S == Seq(Codes)
  <2>1. Readable(frames) => handled \in Seq(S) /\ inbox \in Seq(S)
    BY DEF MachineInv
  <2> HIDE DEF S
  <2>2. Readable(frames) => handled \o inbox \in Seq(S) /\ <<>> \in Seq(S)
    BY <2>1
  <2> QED BY <1>1, <2>2 DEF S
<1>13. Told(inbox', machine', work')
  BY <1>1, <1>10
<1> QED BY <1>1, <1>2, <1>8, <1>11, <1>12, <1>13, <1>14 DEF MachineInv

LEMMA WriteOutputInv ==
    ASSUME MachineInv, WriteOutput
    PROVE  MachineInv'
<1>1. /\ work # <<>> /\ Head(work).code \in {"CLOSE_HANDSHAKE", "OUTPUT"}
      /\ shouldClose' = (shouldClose \/ Head(work).code = "CLOSE_HANDSHAKE")
      /\ work' = Tail(work) /\ frames' = frames /\ taken' = taken /\ machine' = machine
      /\ inbox' = inbox /\ handled' = handled
  BY DEF WriteOutput
<1>2. /\ frames \in Seq(OrderedFrames) /\ taken \in 0..Len(Stream(frames))
      /\ handled \in Seq(Texts(frames)) /\ inbox \in Seq(Texts(frames))
      /\ Reading(frames, taken, machine, handled \o inbox)
      /\ ClosesJustly(frames, work) /\ Told(inbox, machine, work) /\ shouldClose \in BOOLEAN
      /\ shouldClose => taken = Len(Stream(frames)) \/ HasControl(frames)
  BY DEF MachineInv
<1>3. ClosesJustly(frames, Tail(work)) /\ (Head(work).code = "CLOSE_HANDSHAKE" => HasControl(frames))
  BY <1>1, <1>2, JustlyTail
<1>4. Told(inbox, machine, Tail(work))
  <2> SUFFICES ASSUME inbox # <<>>, machine.header = <<>>
               PROVE  \E j \in 1..Len(Tail(work)) : Tail(work)[j].code = "MESSAGE_RECEIVED"
    BY DEF Told
  <2>1. PICK j \in 1..Len(work) : work[j].code = "MESSAGE_RECEIVED"
    BY <1>2 DEF Told
  <2>2. PICK W : work \in Seq(W)
    BY <1>2 DEF ClosesJustly
  <2>3. j # 1
    <3>1. Head(work) = work[1]
      BY <1>1, <2>2
    <3> QED BY <1>1, <2>1, <3>1
  <2>4. j - 1 \in 1..Len(Tail(work)) /\ Tail(work)[j - 1] = work[j]
    <3>1. Len(Tail(work)) = Len(work) - 1 /\ Len(work) \in Nat
      BY <1>1, <2>2
    <3>2. j - 1 \in 1..(Len(work) - 1) /\ j - 1 + 1 = j
      BY <2>3, <3>1
    <3>3. Tail(work)[j - 1] = work[j - 1 + 1]
      BY <1>1, <2>2, <3>1, <3>2
    <3> QED BY <3>1, <3>2, <3>3
  <2> QED BY <2>1, <2>4
<1> QED BY <1>1, <1>2, <1>3, <1>4 DEF MachineInv

LEMMA MachineStep ==
    ASSUME MachineInv, [SocketNext]_socketVars, ~overrun'
    PROVE  MachineInv'
<1>1. ASSUME NEW n \in Reads, DoWSReadWork(n) PROVE MachineInv'
  BY <1>1, DoWSReadWorkInv
<1>2. CASE ReadNothing
  BY <1>2, ReadNothingInv
<1>3. CASE HandleMessages
  BY <1>3, HandleMessagesInv
<1>4. CASE WriteOutput
  BY <1>4, WriteOutputInv
<1>5. CASE UNCHANGED socketVars
  BY <1>5 DEF socketVars, MachineInv
<1>6. ASSUME NEW n \in Reads, ReadOverruns(n) PROVE FALSE
  BY <1>6 DEF ReadOverruns
<1> QED BY <1>1, <1>2, <1>3, <1>4, <1>5, <1>6 DEF SocketNext

-----------------------------------------------------------------------------
(* The messages the handler is given.                                      *)

LEMMA Beginning ==
    ASSUME NEW S, NEW s \in Seq(S), NEW n \in 0..Len(s)
    PROVE  /\ IsPrefix(SubSeq(s, 1, n), s)
           /\ n = Len(s) => SubSeq(s, 1, n) = s
<1> DEFINE t == SubSeq(s, 1, n)
<1>1. t \in Seq(S) /\ Len(t) = n /\ n <= Len(s)
  OBVIOUS
<1>2. SubSeq(t, 1, Len(t)) = t
  <2> HIDE DEF t
  <2> QED BY <1>1
<1>3. SubSeq(t, 1, Len(t)) = SubSeq(s, 1, Len(t))
  <2>1. SubSeq(s, 1, Len(t)) = t
    BY <1>1
  <2> QED BY <1>2, <2>1
<1>4. IsPrefix(t, s)
  <2> HIDE DEF t
  <2> QED BY <1>1, <1>3 DEF IsPrefix
<1>5. n = Len(s) => t = s
  OBVIOUS
<1> QED BY <1>4, <1>5

\* When the whole stream has been read, the machine is between two frames.
LEMMA AllRead ==
    ASSUME NEW fs \in Seq(OrderedFrames), NEW m, NEW got, NEW k, NEW o,
           ReadAs(fs, Len(Stream(fs)), m, got, k, o)
    PROVE  k = Len(fs) /\ m.header = <<>>
<1>1. k \in 0..Len(fs) /\ o \in Nat /\ Len(Stream(fs)) = Len(Sent(fs, k)) + o
  BY DEF ReadAs
<1>2. PICK mask : IF k = Len(fs) THEN o = 0 /\ m = Between(mask, m.message)
                                 ELSE Within(fs[k + 1], o, m, mask, m.message)
  BY DEF ReadAs
<1>3. CASE k # Len(fs)
  <2>1. k \in 0..(Len(fs) - 1) /\ fs[k + 1] \in OrderedFrames
    BY <1>1, <1>3
  <2>2. Within(fs[k + 1], o, m, mask, m.message)
    BY <1>2, <1>3
  <2>3. o < Len(Encode(fs[k + 1]))
    BY <1>1, <2>1, <2>2, WithinIs
  <2>4. Encode(fs[k + 1]) \in Seq(Bytes)
    BY <2>1, EncodeIs
  <2>5. Len(Encode(fs[k + 1])) \in Nat
    BY <2>4
  <2>6. o \in 0..(Len(Encode(fs[k + 1])) - 1)
    BY <1>1, <2>3, <2>5
  <2>7. Len(Sent(fs, k)) + o < Len(Stream(fs))
    BY <2>1, <2>6, StreamAt
  <2>8. Stream(fs) \in Seq(Bytes)
    BY SentEnds
  <2>9. Len(Stream(fs)) \in Nat
    BY <2>8
  <2> QED BY <1>1, <2>7, <2>9
<1>4. CASE k = Len(fs)
  <2>1. m = Between(mask, m.message)
    BY <1>2, <1>4
  <2> DEFINE message == m.message
  <2>2. m = Between(mask, message)
    BY <2>1
  <2> HIDE DEF message
  <2>3. m.header = <<>>
    BY <2>2 DEF Between, Machine
  <2> QED BY <1>4, <2>3
<1> QED BY <1>3, <1>4

LEMMA MachineSent ==
    ASSUME MachineInv
    PROVE  /\ IsPrefix(handled \o inbox, Messages(frames))
           /\ Ended /\ (\A i \in 1..Len(frames) : ~frames[i].control) =>
                 handled = Messages(frames)
<1> DEFINE all == Messages(frames)
<1>1. /\ frames \in Seq(OrderedFrames) /\ Reading(frames, taken, machine, handled \o inbox)
      /\ handled \in Seq(Texts(frames)) /\ Told(inbox, machine, work)
      /\ shouldClose => taken = Len(Stream(frames)) \/ HasControl(frames)
  BY DEF MachineInv
<1>2. PICK k, o : ReadAs(frames, taken, machine, handled \o inbox, k, o)
  BY <1>1 DEF Reading
<1>3. k \in 0..Len(frames) /\ handled \o inbox = EndedIn(frames, k)
  BY <1>2 DEF ReadAs
<1> DEFINE e == EndsBefore(frames, k + 1)
<1>4. all \in Seq(Texts(frames)) /\ Len(all) = EndsBefore(frames, Len(frames) + 1)
  BY <1>1, MessagesType
<1> HIDE DEF all
<1>5. e \in 0..Len(all) /\ (k = Len(frames) => e = Len(all))
  <2>1. k + 1 \in Nat /\ Len(frames) + 1 \in Nat /\ k + 1 <= Len(frames) + 1
    BY <1>1, <1>3
  <2>2. e <= EndsBefore(frames, Len(frames) + 1)
    BY <2>1, EndsMonotone
  <2>3. e \in Nat /\ EndsBefore(frames, Len(frames) + 1) \in Nat
    BY <2>1, EndsFinite
  <2>4. k = Len(frames) => e = EndsBefore(frames, Len(frames) + 1)
    OBVIOUS
  <2> HIDE DEF e
  <2> QED BY <1>4, <2>2, <2>3, <2>4
<1>6. handled \o inbox = SubSeq(all, 1, e)
  BY <1>3 DEF EndedIn, all
<1> HIDE DEF e
<1>7. IsPrefix(SubSeq(all, 1, e), all) /\ (e = Len(all) => SubSeq(all, 1, e) = all)
  BY <1>4, <1>5, Beginning
<1>8. ASSUME Ended, \A i \in 1..Len(frames) : ~frames[i].control
      PROVE  handled = all
  <2>1. work = <<>> /\ taken = Len(Stream(frames))
    BY <1>1, <1>8 DEF Ended, HasControl
  <2>2. ReadAs(frames, Len(Stream(frames)), machine, handled \o inbox, k, o)
    BY <1>2, <2>1
  <2>3. k = Len(frames) /\ machine.header = <<>>
    BY <1>1, <2>2, AllRead
  <2>4. inbox = <<>>
    BY <1>1, <2>1, <2>3 DEF Told
  <2>5. handled \o inbox = handled
    BY <1>1, <2>4
  <2> QED BY <1>5, <1>6, <1>7, <2>3, <2>5
<1>9. IsPrefix(handled \o inbox, all)
  BY <1>6, <1>7
<1> QED BY <1>8, <1>9 DEF all

-----------------------------------------------------------------------------
(* What the handler answers.                                               *)

\* A printer that has printed text and enqueued elements, unless it has split a
\* text, which it has if it had before (was).
Printed(jp, was, text, elements) ==
    \E t, s, w : /\ jp = Printer(t, s, w) /\ s \in BOOLEAN
                 /\ was => s
                 /\ ~s => t = text /\ w = elements

LEMMA JsonWritePrinted ==
    ASSUME NEW jp, NEW was \in BOOLEAN, NEW text, NEW elements, NEW more,
           Printed(jp, was, text, elements)
    PROVE  Printed(JsonWrite(jp, more), was, text \o more, elements)
<1>1. PICK t, s, w : /\ jp = Printer(t, s, w) /\ s \in BOOLEAN
                     /\ was => s
                     /\ ~s => t = text /\ w = elements
  BY DEF Printed
<1>2. jp.text = t /\ jp.work = w
  BY <1>1 DEF Printer
<1> DEFINE r == FrameSize - Len(jp.text)
           rest == SubSeq(more, r + 1, Len(more))
           all == Append(jp.work, MessageEnqueue(FALSE, jp.text))
           whole == t \o more
<1>3. CASE Len(more) < r
  <2>1. JsonWrite(jp, more) = [jp EXCEPT !.text = whole]
    BY <1>2, <1>3 DEF JsonWrite
  <2>2. ~s => whole = text \o more
    BY <1>1
  <2> HIDE DEF whole
  <2>3. [jp EXCEPT !.text = whole] = Printer(whole, s, w)
    BY <1>1 DEF Printer
  <2> QED BY <1>1, <2>1, <2>2, <2>3 DEF Printed
<1>4. CASE ~(Len(more) < r)
  <2>1. JsonWrite(jp, more) = Printer(rest, TRUE, all)
    BY <1>4, Zenon DEF JsonWrite, Printer
  <2> HIDE DEF rest, all
  <2> QED BY <2>1 DEF Printed
<1> QED BY <1>3, <1>4

LEMMA FlushJsonPrinted ==
    ASSUME NEW jp, NEW was \in BOOLEAN, NEW text, NEW elements, Printed(jp, was, text, elements)
    PROVE  Printed(FlushJson(jp), was, <<>>, Append(elements, MessageEnqueue(TRUE, text)))
<1>1. PICK t, s, w : /\ jp = Printer(t, s, w) /\ s \in BOOLEAN
                     /\ was => s
                     /\ ~s => t = text /\ w = elements
  BY DEF Printed
<1>2. jp.work = w /\ jp.text = t
  BY <1>1 DEF Printer
<1> DEFINE all == Append(w, MessageEnqueue(TRUE, t))
           p1 == [jp EXCEPT !.work = all]
           p2 == [p1 EXCEPT !.text = <<>>]
<1>3. FlushJson(jp) = p2
  BY <1>2 DEF FlushJson
<1>4. ~s => all = Append(elements, MessageEnqueue(TRUE, text))
  BY <1>1
<1> HIDE DEF all
<1>5. p1 = Printer(t, s, all)
  BY <1>1 DEF Printer
<1> HIDE DEF p1
<1>6. p2 = Printer(<<>>, s, all)
  BY <1>5 DEF Printer
<1> HIDE DEF p2
<1> QED BY <1>1, <1>3, <1>4, <1>6 DEF Printed

Bracketed(message) == ((<<>> \o <<"[">>) \o Text(message)) \o <<"]">>

LEMMA OnMessagePrinted ==
    ASSUME NEW jp, NEW was \in BOOLEAN, NEW elements, NEW message,
           Printed(jp, was, <<>>, elements)
    PROVE  Printed(OnMessage(jp, message), was, <<>>,
                   Append(elements, MessageEnqueue(TRUE, Bracketed(message))))
<1> DEFINE a == <<"[">>
           b == Text(message)
           c == <<"]">>
<1> HIDE DEF a, b, c
<1>1. Printed(JsonWrite(jp, a), was, <<>> \o a, elements)
  BY JsonWritePrinted
<1>2. Printed(JsonWrite(JsonWrite(jp, a), b), was, (<<>> \o a) \o b, elements)
  BY <1>1, JsonWritePrinted
<1>3. Printed(JsonWrite(JsonWrite(JsonWrite(jp, a), b), c), was, ((<<>> \o a) \o b) \o c, elements)
  BY <1>2, JsonWritePrinted
<1>4. Printed(FlushJson(JsonWrite(JsonWrite(JsonWrite(jp, a), b), c)), was, <<>>,
              Append(elements, MessageEnqueue(TRUE, ((<<>> \o a) \o b) \o c)))
  BY <1>3, FlushJsonPrinted
<1> QED BY <1>4, Zenon DEF OnMessage, Bracketed, a, b, c

\* The frames a server sends: whole and not masked.
ServerFrames == {f \in OrderedFrames : f.fin /\ f.mask = <<>>}

LEMMA ReplyType ==
    ASSUME BigEndian, NEW control \in BOOLEAN, NEW data \in Seq(Nat)
    PROVE  Reply(control, data) \in ServerFrames /\ Reply(control, data).data = data
<1> DEFINE r == Reply(control, data)
<1>1. r.fin = TRUE /\ r.mask = <<>> /\ r.data = data
  BY DEF Reply
<1>2. r \in [fin : BOOLEAN, control : BOOLEAN, mask : {<<>>} \cup [1..4 -> {0, 1}],
             data : Seq(Nat)]
  BY DEF Reply
<1> HIDE DEF r
<1>3. r \in OrderedFrames
  BY <1>1, <1>2 DEF OrderedFrames, Ordered, FrameSet
<1>4. r \in ServerFrames
  BY <1>1, <1>3 DEF ServerFrames
<1> QED BY <1>1, <1>4 DEF r

LEMMA CodesNat == Codes \subseteq Nat
BY SocketAssumption DEF Codes

LEMMA Wider ==
    ASSUME NEW S, NEW T, S \subseteq T, NEW s \in Seq(S)
    PROVE  s \in Seq(T)
OBVIOUS

LEMMA Longer ==
    ASSUME NEW S, NEW s \in Seq(S), NEW x
    PROVE  Append(s, x) # <<>>
<1>1. Len(Append(s, x)) = Len(s) + 1 /\ Len(s) \in Nat
  OBVIOUS
<1>2. Len(Append(s, x)) # 0
  BY <1>1
<1> QED BY <1>2

LEMMA Coded ==
    ASSUME NEW b \in Codes
    PROVE  Character(b) \in DOMAIN Utf8 /\ Utf8[Character(b)] = b
<1>1. \E c \in DOMAIN Utf8 : Utf8[c] = b
  BY DEF Codes
<1> QED BY <1>1 DEF Character

\* What the handler prints of a message is its echo on the wire.
LEMMA EchoIs ==
    ASSUME BigEndian, NEW message \in Seq(Codes)
    PROVE  /\ MessageEnqueue(TRUE, Bracketed(message)) = Element(Reply(FALSE, Echo(message)))
           /\ Echo(message) \in Seq(Nat) /\ Echo(message) # <<>>
           /\ Echo(message)[1] = Utf8["["]
<1> DEFINE n == Len(message)
           t == Bracketed(message)
           u == [i \in 1..Len(t) |-> Utf8[t[i]]]
           e == Echo(message)
           x == Text(message)
           D == DOMAIN Utf8
<1>1. n \in Nat
  OBVIOUS
<1>2. {"[", "]"} \subseteq D /\ Utf8["["] \in Nat /\ Utf8["]"] \in Nat
  BY SocketAssumption
<1>3. x \in Seq(D) /\ Len(x) = n /\ \A i \in 1..n : Utf8[x[i]] = message[i]
  <2>1. \A i \in 1..n : Character(message[i]) \in D /\ Utf8[Character(message[i])] = message[i]
    BY Coded
  <2>2. x = [i \in 1..n |-> Character(message[i])]
    BY DEF Text
  <2> HIDE DEF x, D
  <2>3. x \in [1..n -> D]
    BY <2>1, <2>2
  <2>4. \A i \in 1..n : x[i] = Character(message[i])
    BY <2>2
  <2> QED BY <1>1, <2>1, <2>3, <2>4, TupleType
<1>4. e \in Seq(Nat) /\ Len(e) = n + 2 /\ e[1] = Utf8["["] /\ e[n + 2] = Utf8["]"]
      /\ \A i \in 1..n : e[i + 1] = message[i]
  <2> DEFINE a == <<Utf8["["]>>
             c == <<Utf8["]"]>>
  <2>1. message \in Seq(Nat) /\ a \in Seq(Nat) /\ c \in Seq(Nat)
    <3>1. message \in Seq(Nat)
      BY CodesNat, Wider
    <3>2. a \in Seq(Nat) /\ c \in Seq(Nat)
      BY <1>2
    <3> QED BY <3>1, <3>2
  <2>2. Len(a) = 1 /\ a[1] = Utf8["["] /\ Len(c) = 1 /\ c[1] = Utf8["]"]
    OBVIOUS
  <2>3. e = (a \o message) \o c
    BY DEF Echo
  <2> HIDE DEF a, c, e, n
  <2>4. Len(message) = n
    BY DEF n
  <2>5. a \o message \in Seq(Nat) /\ Joined(a \o message, a, message)
    BY <2>1, Parts
  <2>6. (a \o message) \o c \in Seq(Nat) /\ Joined((a \o message) \o c, a \o message, c)
    BY <2>1, <2>5, Parts
  <2>7. Len(a \o message) = n + 1
    BY <1>1, <2>2, <2>4, <2>5 DEF Joined
  <2>8. e \in Seq(Nat) /\ Len(e) = n + 2
    BY <1>1, <2>2, <2>3, <2>6, <2>7 DEF Joined
  <2>9. \A i \in 1..(n + 1) : e[i] = (a \o message)[i]
    BY <2>3, <2>6, <2>7 DEF Joined
  <2>10. e[n + 2] = c[1]
    <3>1. 1 \in 1..Len(c) /\ n + 1 + 1 = n + 2
      BY <1>1, <2>2
    <3> QED BY <2>3, <2>6, <2>7, <3>1 DEF Joined
  <2>11. e[1] = a[1]
    <3>1. 1 \in 1..(n + 1) /\ 1 \in 1..Len(a)
      BY <1>1, <2>2
    <3> QED BY <2>5, <2>9, <3>1 DEF Joined
  <2>12. ASSUME NEW i \in 1..n PROVE e[i + 1] = message[i]
    <3>1. i + 1 \in 1..(n + 1) /\ i \in 1..Len(message) /\ i + 1 = Len(a) + i
      BY <1>1, <2>2, <2>4
    <3>2. e[i + 1] = (a \o message)[i + 1]
      BY <2>9, <3>1
    <3>3. (a \o message)[Len(a) + i] = message[i]
      BY <2>5, <3>1 DEF Joined
    <3> QED BY <3>1, <3>2, <3>3
  <2> QED BY <2>2, <2>8, <2>10, <2>11, <2>12
<1>5. t \in Seq(D) /\ Len(t) = n + 2 /\ t[1] = "[" /\ t[n + 2] = "]"
      /\ \A i \in 1..n : t[i + 1] = x[i]
  <2> DEFINE a == <<>> \o <<"[">>
             c == <<"]">>
  <2>1. a = <<"[">>
    OBVIOUS
  <2>2. a \in Seq(D) /\ c \in Seq(D)
    BY <1>2, <2>1
  <2>3. Len(a) = 1 /\ a[1] = "[" /\ Len(c) = 1 /\ c[1] = "]"
    BY <2>1
  <2>4. t = (a \o x) \o c
    BY DEF Bracketed
  <2> HIDE DEF a, c, t, x, n, D
  <2>5. a \o x \in Seq(D) /\ Joined(a \o x, a, x)
    BY <1>3, <2>2, Parts
  <2>6. (a \o x) \o c \in Seq(D) /\ Joined((a \o x) \o c, a \o x, c)
    BY <2>2, <2>5, Parts
  <2>7. Len(a \o x) = n + 1
    BY <1>1, <1>3, <2>3, <2>5 DEF Joined
  <2>8. t \in Seq(D) /\ Len(t) = n + 2
    BY <1>1, <2>3, <2>4, <2>6, <2>7 DEF Joined
  <2>9. \A i \in 1..(n + 1) : t[i] = (a \o x)[i]
    BY <2>4, <2>6, <2>7 DEF Joined
  <2>10. t[n + 2] = c[1]
    <3>1. 1 \in 1..Len(c) /\ n + 1 + 1 = n + 2
      BY <1>1, <2>3
    <3> QED BY <2>4, <2>6, <2>7, <3>1 DEF Joined
  <2>11. t[1] = a[1]
    <3>1. 1 \in 1..(n + 1) /\ 1 \in 1..Len(a)
      BY <1>1, <2>3
    <3> QED BY <2>5, <2>9, <3>1 DEF Joined
  <2>12. ASSUME NEW i \in 1..n PROVE t[i + 1] = x[i]
    <3>1. i + 1 \in 1..(n + 1) /\ i \in 1..Len(x) /\ i + 1 = Len(a) + i
      BY <1>1, <1>3, <2>3
    <3>2. t[i + 1] = (a \o x)[i + 1]
      BY <2>9, <3>1
    <3>3. (a \o x)[Len(a) + i] = x[i]
      BY <2>5, <3>1 DEF Joined
    <3> QED BY <3>1, <3>2, <3>3
  <2> QED BY <2>3, <2>8, <2>10, <2>11, <2>12
<1>6. u = e
  <2> HIDE DEF t, e, x, n, D
  <2>1. u = [i \in 1..(n + 2) |-> Utf8[t[i]]]
    BY <1>5
  <2>2. ASSUME NEW i \in 1..(n + 2) PROVE Utf8[t[i]] = e[i]
    <3>1. CASE i = 1
      BY <1>4, <1>5, <3>1
    <3>2. CASE i = n + 2
      BY <1>4, <1>5, <3>2
    <3>3. CASE i # 1 /\ i # n + 2
      <4> DEFINE j == i - 1
      <4>1. j \in 1..n /\ j + 1 = i
        BY <1>1, <3>3
      <4> HIDE DEF j
      <4>2. t[i] = x[j] /\ e[i] = message[j] /\ Utf8[x[j]] = message[j]
        BY <1>3, <1>4, <1>5, <4>1
      <4> QED BY <4>2
    <3> QED BY <3>1, <3>2, <3>3
  <2>3. [i \in 1..(n + 2) |-> Utf8[t[i]]] = [i \in 1..(n + 2) |-> e[i]]
    BY <2>2, Zenon
  <2>4. e = [i \in 1..(n + 2) |-> e[i]]
    BY <1>1, <1>4
  <2> QED BY <2>1, <2>3, <2>4
<1>7. MessageEnqueue(TRUE, t) = [code |-> "OUTPUT", buffer |-> AddNewWSFrame(FALSE, TRUE, e)]
  <2> HIDE DEF t, e
  <2> QED BY <1>6, Zenon DEF MessageEnqueue
<1>8. Element(Reply(FALSE, e)) = [code |-> "OUTPUT", buffer |-> AddNewWSFrame(FALSE, TRUE, e)]
  <2> HIDE DEF e
  <2>1. Reply(FALSE, e).control = FALSE
    BY DEF Reply
  <2>2. Encode(Reply(FALSE, e)) = AddNewWSFrame(FALSE, TRUE, e)
    <3>1. Native(LengthBytes(Len(e))) = LengthBytes(Len(e))
      BY DEF Native
    <3>2. Reply(FALSE, e).data = e
      BY DEF Reply
    <3> QED BY <3>1, <3>2, Zenon DEF AddNewWSFrame, Encode, Reply
  <2> QED BY <2>1, <2>2 DEF Element
<1>9. e # <<>>
  <2> HIDE DEF e
  <2> QED BY <1>1, <1>4
<1> QED BY <1>4, <1>7, <1>8, <1>9
-----------------------------------------------------------------------------
(* What the server has sent and is about to send.                          *)

AnswersTo(fs, rs) == [i \in 1..Len(rs) |-> Answer(fs, rs[i].data)]

\* The frames rs of the server have been written up to the n-th, and the others
\* wait in elements; besides those with the payload of a control frame of fs, they
\* are the echoes of the messages.
Answered(fs, messages, bytes, elements, rs, n) ==
    /\ rs \in Seq(ServerFrames) /\ n \in 0..Len(rs)
    /\ bytes = Sent(rs, n)
    /\ elements \in Seq({Element(f) : f \in ServerFrames}) /\ Len(elements) = Len(rs) - n
    /\ \A j \in 1..Len(elements) : elements[j] = Element(rs[n + j])
    /\ FlattenSeq(AnswersTo(fs, rs)) = Echoes(messages)

Serving(fs, messages, bytes, elements) ==
    \E rs, n : Answered(fs, messages, bytes, elements, rs, n)

AnswerInv ==
    /\ printer.split \in BOOLEAN
    /\ ~printer.split => printer.text = <<>>
    /\ Orderly(frames) /\ (\A i \in 1..Len(handled) : Fits(handled[i])) => ~printer.split
    /\ Orderly(frames) /\ ~printer.split =>
           \E elements : /\ Serving(frames, handled, written, elements)
                         /\ work = elements \/ work = Append(elements, MessageReceived)

LEMMA OrderlyIs ==
    ASSUME NEW fs \in Seq(OrderedFrames), Orderly(fs)
    PROVE  /\ Apart(fs) /\ Readable(fs)
           /\ \A data \in ControlTexts(fs) :
                data \in Seq(Nat) /\ (data # <<>> => data[1] # Utf8["["])
<1>1. Apart(fs)
  BY DEF Orderly, Apart
<1>2. Readable(fs)
  <2> SUFFICES ASSUME NEW j \in 1..Len(fs) PROVE fs[j].data \in Seq(Codes)
    BY DEF Readable
  <2> DEFINE data == fs[j].data
  <2>1. fs[j] \in OrderedFrames
    OBVIOUS
  <2>2. data \in Seq(Nat)
    BY <2>1, MaskType
  <2>3. \A i \in 1..Len(data) : data[i] \in Codes
    BY DEF Orderly, Codes
  <2> HIDE DEF data
  <2>4. data = [i \in 1..Len(data) |-> data[i]] /\ Len(data) \in Nat
    BY <2>2
  <2>5. data \in [1..Len(data) -> Codes]
    BY <2>3, <2>4
  <2> QED BY <2>4, <2>5, TupleType DEF data
<1>3. ASSUME NEW data \in ControlTexts(fs)
      PROVE  data \in Seq(Nat) /\ (data # <<>> => data[1] # Utf8["["])
  <2>1. PICK j \in 1..Len(fs) : fs[j].control /\ data = fs[j].data
    BY DEF ControlTexts
  <2>2. fs[j] \in OrderedFrames
    OBVIOUS
  <2> QED BY <2>1, <2>2, MaskType DEF Orderly
<1> QED BY <1>1, <1>2, <1>3

LEMMA EchoAnswer ==
    ASSUME BigEndian, NEW fs \in Seq(OrderedFrames), Orderly(fs), NEW message \in Seq(Codes)
    PROVE  Answer(fs, Echo(message)) = <<Echo(message)>>
<1> DEFINE e == Echo(message)
<1>1. e # <<>> /\ e[1] = Utf8["["]
  BY EchoIs
<1> HIDE DEF e
<1>2. e \notin ControlTexts(fs)
  BY <1>1, OrderlyIs
<1> QED BY <1>2 DEF Answer, e

LEMMA AnswersType ==
    ASSUME NEW fs, NEW rs \in Seq(ServerFrames)
    PROVE  /\ AnswersTo(fs, rs) \in Seq(Seq(Seq(Nat))) /\ Len(AnswersTo(fs, rs)) = Len(rs)
           /\ \A i \in 1..Len(rs) : AnswersTo(fs, rs)[i] = Answer(fs, rs[i].data)
<1> DEFINE S == Seq(Seq(Nat))
           a == AnswersTo(fs, rs)
<1>1. ASSUME NEW i \in 1..Len(rs) PROVE Answer(fs, rs[i].data) \in S
  <2>1. rs[i] \in OrderedFrames
    BY DEF ServerFrames
  <2>2. rs[i].data \in Seq(Nat)
    BY <2>1, MaskType
  <2> QED BY <2>2 DEF Answer
<1>2. a = [i \in 1..Len(rs) |-> Answer(fs, rs[i].data)]
  BY DEF AnswersTo
<1> HIDE DEF S, a
<1>3. a \in [1..Len(rs) -> S]
  BY <1>1, <1>2
<1>4. Len(rs) \in Nat
  OBVIOUS
<1>5. a \in Seq(S) /\ Len(a) = Len(rs)
  BY <1>3, <1>4, TupleType
<1> QED BY <1>2, <1>5 DEF a, S

LEMMA AnswersMore ==
    ASSUME NEW fs, NEW rs \in Seq(ServerFrames), NEW r \in ServerFrames
    PROVE  FlattenSeq(AnswersTo(fs, Append(rs, r)))
           = FlattenSeq(AnswersTo(fs, rs)) \o Answer(fs, r.data)
<1> DEFINE S == Seq(Nat)
           a == AnswersTo(fs, rs)
           b == AnswersTo(fs, Append(rs, r))
           x == Answer(fs, r.data)
           n == Len(rs)
<1>1. n \in Nat /\ Append(rs, r) \in Seq(ServerFrames) /\ Len(Append(rs, r)) = n + 1
      /\ Append(rs, r)[n + 1] = r /\ \A i \in 1..n : Append(rs, r)[i] = rs[i]
  OBVIOUS
<1>2. a \in Seq(Seq(S)) /\ Len(a) = n /\ \A i \in 1..n : a[i] = Answer(fs, rs[i].data)
  BY AnswersType
<1>3. b \in Seq(Seq(S)) /\ Len(b) = n + 1
      /\ \A i \in 1..(n + 1) : b[i] = Answer(fs, Append(rs, r)[i].data)
  <2> DEFINE all == Append(rs, r)
  <2>1. all \in Seq(ServerFrames) /\ Len(all) = n + 1
    BY <1>1
  <2> HIDE DEF all, n
  <2> QED BY <2>1, AnswersType DEF all
<1>4. n + 1 \in 1..(n + 1) /\ \A i \in 1..n : i \in 1..(n + 1)
  BY <1>1
<1>5. b[n + 1] = x /\ \A i \in 1..n : b[i] = a[i]
  <2> HIDE DEF a, b, n
  <2>1. b[n + 1] = x
    BY <1>1, <1>3, <1>4
  <2>2. ASSUME NEW i \in 1..n PROVE b[i] = a[i]
    BY <1>1, <1>2, <1>3, <1>4, Zenon
  <2> QED BY <2>1, <2>2
<1>6. x \in Seq(S)
  <2> HIDE DEF b, n
  <2> QED BY <1>3, <1>4, <1>5
<1> HIDE DEF a, b, x, n, S
<1>7. b = Append(a, x)
  <2>1. Append(a, x) \in Seq(Seq(S)) /\ Len(Append(a, x)) = n + 1
    BY <1>1, <1>2, <1>6
  <2>2. ASSUME NEW i \in 1..Len(b) PROVE b[i] = Append(a, x)[i]
    BY <1>1, <1>2, <1>3, <1>5, <1>6
  <2> QED BY <1>3, <2>1, <2>2, SeqEqual
<1> QED BY <1>2, <1>6, <1>7, FlattenAppend DEF a, b, x

LEMMA AnsweredMore ==
    ASSUME NEW fs, NEW messages, NEW bytes, NEW elements, NEW rs, NEW n, NEW r \in ServerFrames,
           Answered(fs, messages, bytes, elements, rs, n), NEW more,
           Echoes(messages) \o Answer(fs, r.data) = Echoes(more)
    PROVE  Serving(fs, more, bytes, Append(elements, Element(r)))
<1> DEFINE all == Append(rs, r)
           E == {Element(f) : f \in ServerFrames}
           x == Element(r)
           new == Append(elements, x)
<1>1. /\ rs \in Seq(ServerFrames) /\ n \in 0..Len(rs) /\ bytes = Sent(rs, n)
      /\ elements \in Seq(E) /\ Len(elements) = Len(rs) - n
      /\ \A j \in 1..Len(elements) : elements[j] = Element(rs[n + j])
      /\ FlattenSeq(AnswersTo(fs, rs)) = Echoes(messages)
  BY Zenon DEF Answered
<1>2. all \in Seq(ServerFrames) /\ Len(all) = Len(rs) + 1 /\ n \in 0..Len(all)
      /\ all[Len(rs) + 1] = r /\ \A i \in 1..Len(rs) : all[i] = rs[i]
  BY <1>1
<1>3. x \in E
  OBVIOUS
<1> HIDE DEF E, x
<1>4. new \in Seq(E) /\ Len(new) = Len(elements) + 1 /\ new[Len(elements) + 1] = x
      /\ \A j \in 1..Len(elements) : new[j] = elements[j]
  BY <1>1, <1>3
<1>5. bytes = Sent(all, n)
  <2>1. SubSeq(all, 1, n) = SubSeq(rs, 1, n)
    BY <1>1
  <2> QED BY <1>1, <2>1, Zenon DEF Sent
<1>6. FlattenSeq(AnswersTo(fs, all)) = Echoes(more)
  BY <1>1, AnswersMore
<1> HIDE DEF all, new
<1>7. Len(new) = Len(all) - n
  BY <1>1, <1>2, <1>4
<1>8. ASSUME NEW j \in 1..Len(new) PROVE new[j] = Element(all[n + j])
  <2>1. CASE j = Len(elements) + 1
    <3>1. n + j = Len(rs) + 1
      BY <1>1, <2>1
    <3> QED BY <1>2, <1>4, <2>1, <3>1 DEF x
  <2>2. CASE j # Len(elements) + 1
    <3>1. j \in 1..Len(elements) /\ n + j \in 1..Len(rs)
      BY <1>1, <1>4, <2>2
    <3>2. new[j] = Element(rs[n + j]) /\ all[n + j] = rs[n + j]
      BY <1>1, <1>2, <1>4, <3>1
    <3> QED BY <3>2
  <2> QED BY <2>1, <2>2
<1>9. Answered(fs, more, bytes, new, all, n)
  BY <1>2, <1>4, <1>5, <1>6, <1>7, <1>8 DEF Answered, E
<1>10. Serving(fs, more, bytes, new)
  BY <1>9, Zenon DEF Serving
<1> QED BY <1>10 DEF new, x

LEMMA AnsweredWritten ==
    ASSUME NEW fs, NEW messages, NEW bytes, NEW elements, elements # <<>>,
           Serving(fs, messages, bytes, elements)
    PROVE  Serving(fs, messages, bytes \o Head(elements).buffer, Tail(elements))
<1>1. PICK rs, n : Answered(fs, messages, bytes, elements, rs, n)
  BY Zenon DEF Serving
<1> DEFINE E == {Element(f) : f \in ServerFrames}
<1>2. /\ rs \in Seq(ServerFrames) /\ n \in 0..Len(rs) /\ bytes = Sent(rs, n)
      /\ elements \in Seq(E) /\ Len(elements) = Len(rs) - n
      /\ \A j \in 1..Len(elements) : elements[j] = Element(rs[n + j])
      /\ FlattenSeq(AnswersTo(fs, rs)) = Echoes(messages)
  BY <1>1, Zenon DEF Answered
<1> HIDE DEF E
<1>3. Len(elements) \in Nat /\ Len(elements) >= 1 /\ n \in 0..(Len(rs) - 1) /\ n + 1 \in 0..Len(rs)
      /\ 1 \in 1..Len(elements)
  BY <1>2
<1>4. Head(elements) = Element(rs[n + 1])
  BY <1>2, <1>3
<1>5. Head(elements).buffer = Encode(rs[n + 1])
  BY <1>4 DEF Element
<1>6. rs \in Seq(OrderedFrames)
  <2>1. ServerFrames \subseteq OrderedFrames
    BY DEF ServerFrames
  <2> QED BY <1>2, <2>1, Wider
<1>7. Sent(rs, n + 1) = bytes \o Head(elements).buffer
  BY <1>2, <1>3, <1>5, <1>6, SentGrows
<1> DEFINE t == Tail(elements)
<1>8. t \in Seq(E) /\ Len(t) = Len(elements) - 1 /\ \A j \in 1..Len(t) : t[j] = elements[j + 1]
  BY <1>2, <1>3
<1> HIDE DEF t
<1>9. Len(t) = Len(rs) - (n + 1)
  BY <1>2, <1>3, <1>8
<1>10. ASSUME NEW j \in 1..Len(t) PROVE t[j] = Element(rs[n + 1 + j])
  <2>1. j + 1 \in 1..Len(elements) /\ n + (j + 1) = n + 1 + j
    BY <1>3, <1>8
  <2> QED BY <1>2, <1>8, <2>1
<1>11. Answered(fs, messages, bytes \o Head(elements).buffer, t, rs, n + 1)
  <2> DEFINE bs == bytes \o Head(elements).buffer
             l == n + 1
  <2> HIDE DEF bs
  <2> QED BY <1>2, <1>3, <1>7, <1>8, <1>9, <1>10 DEF Answered, E, bs
<1> QED BY <1>11, Zenon DEF Serving, t
-----------------------------------------------------------------------------
(* Every step keeps the answers.                                           *)

\* The answers to control frames are not answers of the handler.
LEMMA ClosingsServed ==
    ASSUME BigEndian, NEW fs \in Seq(OrderedFrames), Orderly(fs), NEW messages \in Seq(Seq(Codes)), NEW bytes,
           Serving(fs, messages, bytes, <<>>), NEW w \in Seq(Closings(fs))
    PROVE  Serving(fs, messages, bytes, w)
<1> DEFINE T == {j \in Nat : j \in 0..Len(w) /\ ~Serving(fs, messages, bytes, SubSeq(w, 1, j))}
           S == Closings(fs)
<1>1. ASSUME T # {} PROVE FALSE
  <2>0. T \subseteq Nat
    OBVIOUS
  <2>1. PICK j \in T : \A y \in T : j <= y
    <3> HIDE DEF T
    <3> QED BY <1>1, <2>0, Smallest
  <2>2. j \in 0..Len(w) /\ ~Serving(fs, messages, bytes, SubSeq(w, 1, j))
    BY <2>1
  <2>3. j # 0
    <3>1. SubSeq(w, 1, 0) = <<>>
      OBVIOUS
    <3> QED BY <2>2, <3>1
  <2> DEFINE l == j - 1
  <2>4. l \in 0..Len(w) /\ l \in Nat /\ l + 1 = j /\ l \notin T /\ j \in 1..Len(w) /\ l < Len(w)
    BY <2>1, <2>2, <2>3
  <2>5. Serving(fs, messages, bytes, SubSeq(w, 1, l))
    BY <2>4
  <2> HIDE DEF l, T, S
  <2>6. w \in Seq(S) /\ w[j] \in S
    BY <2>4 DEF S
  <2>7. Append(SubSeq(w, 1, l), w[j]) = SubSeq(w, 1, j)
    BY <2>4, <2>6, OneMore
  <2>8. PICK data \in ControlTexts(fs) : w[j] = Element(Reply(TRUE, data))
    BY <2>6, ElementClose DEF S, Closings
  <2> DEFINE r == Reply(TRUE, data)
  <2>9. r \in ServerFrames /\ r.data = data
    BY OrderlyIs, ReplyType
  <2>10. Echoes(messages) \o Answer(fs, r.data) = Echoes(messages)
    <3>1. Answer(fs, r.data) = <<>>
      BY <2>9 DEF Answer
    <3>2. Len(messages) \in Nat
      OBVIOUS
    <3>3. Echoes(messages) \in Seq({Echo(messages[i]) : i \in 1..Len(messages)})
      BY <3>2 DEF Echoes
    <3> DEFINE V == {Echo(messages[i]) : i \in 1..Len(messages)}
    <3>4. Echoes(messages) \in Seq(V)
      BY <3>3
    <3> HIDE DEF V
    <3>5. Echoes(messages) \o <<>> = Echoes(messages)
      BY <3>4
    <3> QED BY <3>1, <3>5
  <2> HIDE DEF r
  <2>11. PICK rs, n : Answered(fs, messages, bytes, SubSeq(w, 1, l), rs, n)
    BY <2>5, Zenon DEF Serving
  <2>12. Serving(fs, messages, bytes, Append(SubSeq(w, 1, l), Element(r)))
    BY <2>9, <2>10, <2>11, AnsweredMore
  <2> QED BY <2>2, <2>7, <2>8, <2>12 DEF r
<1>2. Len(w) \in Nat /\ Len(w) \in 0..Len(w) /\ SubSeq(w, 1, Len(w)) = w
  OBVIOUS
<1>3. Len(w) \notin T
  BY <1>1
<1> QED BY <1>2, <1>3

\* The printer after the messages have been handled.
HandledBy(fs, messages, bytes, was, jp) ==
    \E elements :
        /\ Printed(jp, was, <<>>, elements)
        /\ Orderly(fs) /\ ~was => messages \in Seq(Seq(Codes)) /\ Serving(fs, messages, bytes, elements)

LEMMA EchoesMore ==
    ASSUME BigEndian, NEW messages \in Seq(Seq(Codes)), NEW message \in Seq(Codes)
    PROVE  Echoes(messages) \o <<Echo(message)>> = Echoes(Append(messages, message))
<1> DEFINE all == Append(messages, message)
           S == Seq(Nat)
           n == Len(messages)
           C == Seq(Codes)
<1>1. all \in Seq(C) /\ Len(all) = n + 1 /\ all[n + 1] = message
      /\ \A i \in 1..n : all[i] = messages[i]
  OBVIOUS
<1>2. n \in Nat
  OBVIOUS
<1>3. \A i \in 1..n : messages[i] \in C
  OBVIOUS
<1>4. \A i \in 1..(n + 1) : all[i] \in C
  BY <1>1, <1>2, <1>3
<1>5. \A m \in C : Echo(m) \in S
  BY EchoIs
<1> DEFINE a == Echoes(messages)
           b == Echoes(all)
           e == Echo(message)
<1>6. a = [i \in 1..n |-> Echo(messages[i])]
  BY DEF Echoes
<1>7. b = [i \in 1..(n + 1) |-> Echo(all[i])]
  BY <1>1 DEF Echoes
<1>8. message \in C
  OBVIOUS
<1> HIDE DEF all, S, n, a, b, e, C
<1>9. a \in [1..n -> S] /\ \A i \in 1..n : a[i] = Echo(messages[i])
  BY <1>3, <1>5, <1>6
<1>10. b \in [1..(n + 1) -> S] /\ \A i \in 1..(n + 1) : b[i] = Echo(all[i])
  BY <1>4, <1>5, <1>7
<1>11. a \in Seq(S) /\ Len(a) = n /\ b \in Seq(S) /\ Len(b) = n + 1 /\ e \in S
  BY <1>2, <1>5, <1>8, <1>9, <1>10, TupleType DEF e
<1>12. /\ a \o <<e>> = Append(a, e)
       /\ Append(a, e) \in Seq(S) /\ Len(Append(a, e)) = n + 1 /\ Append(a, e)[n + 1] = e
       /\ \A i \in 1..n : Append(a, e)[i] = a[i]
  BY <1>2, <1>11
<1>13. ASSUME NEW i \in 1..Len(b) PROVE b[i] = (a \o <<e>>)[i]
  <2>1. CASE i = n + 1
    <3>1. (a \o <<e>>)[i] = e
      BY <1>12, <2>1
    <3>2. b[i] = Echo(message)
      BY <1>1, <1>10, <1>11, <2>1
    <3> QED BY <3>1, <3>2 DEF e
  <2>2. CASE i # n + 1
    <3>1. i \in 1..n
      BY <1>2, <1>11, <2>2
    <3>2. (a \o <<e>>)[i] = a[i]
      BY <1>12, <3>1
    <3>3. b[i] = Echo(messages[i])
      BY <1>1, <1>10, <1>11, <3>1
    <3> QED BY <1>9, <3>1, <3>2, <3>3
  <2> QED BY <2>1, <2>2
<1>14. a \o <<e>> \in Seq(S) /\ Len(a \o <<e>>) = Len(b)
  BY <1>11, <1>12
<1> QED BY <1>11, <1>13, <1>14, SeqEqual DEF a, b, e, all

LEMMA HandlesOne ==
    ASSUME BigEndian, NEW fs \in Seq(OrderedFrames), NEW messages, NEW bytes, NEW was \in BOOLEAN, NEW jp,
           NEW message, HandledBy(fs, messages, bytes, was, jp),
           Orderly(fs) => message \in Seq(Codes)
    PROVE  HandledBy(fs, Append(messages, message), bytes, was, OnMessage(jp, message))
<1>1. PICK elements :
          /\ Printed(jp, was, <<>>, elements)
          /\ Orderly(fs) /\ ~was => messages \in Seq(Seq(Codes)) /\ Serving(fs, messages, bytes, elements)
  BY DEF HandledBy
<1> DEFINE more == Append(elements, MessageEnqueue(TRUE, Bracketed(message)))
           all == Append(messages, message)
<1>2. Printed(OnMessage(jp, message), was, <<>>, more)
  BY <1>1, OnMessagePrinted
<1>3. ASSUME Orderly(fs), ~was
      PROVE  all \in Seq(Seq(Codes)) /\ Serving(fs, all, bytes, more)
  <2> DEFINE S == Seq(Codes)
  <2>1. messages \in Seq(S) /\ message \in S /\ Serving(fs, messages, bytes, elements)
    BY <1>1, <1>3
  <2>2. all \in Seq(S)
    <3> HIDE DEF S
    <3> QED BY <2>1
  <2> DEFINE e == Echo(message)
             r == Reply(FALSE, e)
  <2>3. e \in Seq(Nat) /\ MessageEnqueue(TRUE, Bracketed(message)) = Element(r)
    BY <2>1, EchoIs
  <2>4. Answer(fs, e) = <<e>>
    BY <1>3, <2>1, EchoAnswer
  <2>5. Echoes(messages) \o <<e>> = Echoes(all)
    BY <2>1, EchoesMore
  <2> HIDE DEF e, all
  <2>6. r \in ServerFrames /\ r.data = e
    BY <2>3, ReplyType
  <2> HIDE DEF r
  <2>7. Echoes(messages) \o Answer(fs, r.data) = Echoes(all)
    BY <2>4, <2>5, <2>6
  <2>8. PICK rs, n : Answered(fs, messages, bytes, elements, rs, n)
    BY <2>1, Zenon DEF Serving
  <2>9. Serving(fs, all, bytes, Append(elements, Element(r)))
    BY <2>6, <2>7, <2>8, AnsweredMore
  <2> QED BY <2>2, <2>3, <2>9
<1> HIDE DEF more, all
<1>4. HandledBy(fs, all, bytes, was, OnMessage(jp, message))
  BY <1>2, <1>3 DEF HandledBy
<1> QED BY <1>4 DEF all

\* The handler is given the whole queue after the messages.
HandlesAll(fs, messages, bytes, queue, was, start, n, g) ==
    /\ fs \in Seq(OrderedFrames) /\ was \in BOOLEAN
    /\ messages \in Seq(Texts(fs)) /\ queue \in Seq(Texts(fs)) /\ n = Len(queue)
    /\ Orderly(fs) => queue \in Seq(Seq(Codes))
    /\ HandledBy(fs, messages, bytes, was, start)
    /\ Handles(start, queue, n, g)

LEMMA HandlesAnswered ==
    ASSUME BigEndian, NEW fs, NEW messages, NEW bytes, NEW queue, NEW was, NEW start, NEW n, NEW g,
           HandlesAll(fs, messages, bytes, queue, was, start, n, g)
    PROVE  HandledBy(fs, messages \o queue, bytes, was, g[n])
<1> DEFINE S == Texts(fs)
           so(j) == messages \o SubSeq(queue, 1, j)
           T == {j \in Nat : j \in 0..n /\ ~HandledBy(fs, so(j), bytes, was, g[j])}
<1>0. /\ fs \in Seq(OrderedFrames) /\ was \in BOOLEAN
      /\ messages \in Seq(S) /\ queue \in Seq(S) /\ n = Len(queue)
      /\ Orderly(fs) => queue \in Seq(Seq(Codes))
      /\ HandledBy(fs, messages, bytes, was, start)
      /\ Handles(start, queue, n, g)
  BY DEF HandlesAll
<1> HIDE DEF S
<1>1. n \in Nat
  BY <1>0
<1>2. ASSUME T # {} PROVE FALSE
  <2>0. T \subseteq Nat
    OBVIOUS
  <2>1. PICK j \in T : \A y \in T : j <= y
    <3> HIDE DEF T
    <3> QED BY <1>2, <2>0, Smallest
  <2>2. j \in 0..n /\ ~HandledBy(fs, so(j), bytes, was, g[j])
    BY <2>1
  <2>3. g[j] = IF j = 0 THEN start ELSE OnMessage(g[j - 1], queue[j])
    BY <1>0, <2>2, Zenon DEF Handles
  <2>4. j # 0
    <3>1. so(0) = messages
      BY <1>0
    <3> QED BY <1>0, <2>2, <2>3, <3>1
  <2> DEFINE l == j - 1
  <2>5. l \in 0..n /\ l \in Nat /\ l + 1 = j /\ l \notin T /\ j \in 1..n /\ l < n
    BY <1>1, <2>1, <2>2, <2>4
  <2>6. HandledBy(fs, so(l), bytes, was, g[l])
    BY <2>5
  <2> DEFINE message == queue[j]
  <2>7. Orderly(fs) => message \in Seq(Codes)
    BY <1>0, <2>5
  <2>8. Append(so(l), message) = so(j)
    <3> HIDE DEF l, T, message
    <3>1. Append(SubSeq(queue, 1, l), message) = SubSeq(queue, 1, j)
      BY <1>0, <2>5, OneMore DEF message
    <3>2. SubSeq(queue, 1, l) \in Seq(S) /\ message \in S
      BY <1>0, <1>1, <2>5 DEF message
    <3> DEFINE q == SubSeq(queue, 1, l)
    <3>3. q \in Seq(S)
      BY <3>2
    <3> HIDE DEF q
    <3>5. messages \in Seq(S) /\ message \in S
      BY <1>0, <3>2
    <3>4. Append(messages \o q, message) = messages \o Append(q, message)
      BY <3>3, <3>5
    <3> QED BY <3>1, <3>4 DEF q
  <2>9. g[j] = OnMessage(g[l], message)
    BY <2>3, <2>4
  <2> HIDE DEF l, T, message, so
  <2>10. HandledBy(fs, Append(so(l), message), bytes, was, OnMessage(g[l], message))
    BY <1>0, <2>6, <2>7, HandlesOne
  <2> QED BY <2>2, <2>8, <2>9, <2>10
<1>3. n \in 0..n /\ n \notin T
  BY <1>1, <1>2
<1>4. so(n) = messages \o queue
  <2>1. SubSeq(queue, 1, n) = queue
    BY <1>0
  <2> QED BY <2>1
<1>5. HandledBy(fs, so(n), bytes, was, g[n])
  BY <1>1, <1>3
<1> HIDE DEF so
<1> QED BY <1>4, <1>5
\* At first nothing is to be answered.
LEMMA InitAnswers == SocketInit => AnswerInv
<1> SUFFICES ASSUME SocketInit PROVE AnswerInv
  OBVIOUS
<1>1. /\ printer = [text |-> <<>>, split |-> FALSE] /\ work = <<>> /\ handled = <<>>
      /\ written = <<>>
  BY DEF SocketInit, SocketInitWith
<1>2. printer.text = <<>> /\ printer.split = FALSE
  BY <1>1
<1> DEFINE E == {Element(f) : f \in ServerFrames}
<1>3. <<>> \in Seq(ServerFrames) /\ <<>> \in Seq(OrderedFrames) /\ <<>> \in Seq(E) /\ Len(<<>>) = 0
  OBVIOUS
<1>4. Sent(<<>>, 0) = <<>>
  BY <1>3, SentEnds
<1>5. FlattenSeq(AnswersTo(frames, <<>>)) = Echoes(<<>>)
  <2>1. AnswersTo(frames, <<>>) = <<>> /\ Echoes(<<>>) = <<>>
    BY DEF AnswersTo, Echoes
  <2>2. FlattenSeq(<<>>) = <<>>
    BY DEF FlattenSeq
  <2> QED BY <2>1, <2>2
<1>6. Answered(frames, <<>>, <<>>, <<>>, <<>>, 0)
  <2> HIDE DEF E
  <2> QED BY <1>3, <1>4, <1>5 DEF Answered, E
<1>7. Serving(frames, <<>>, <<>>, <<>>)
  BY <1>6, Zenon DEF Serving
<1> QED BY <1>1, <1>2, <1>7 DEF AnswerInv

\* The work elements with frames are not those that tell of messages.
LEMMA NothingWaits ==
    ASSUME NEW fs, NEW messages, NEW bytes, NEW elements, Serving(fs, messages, bytes, elements)
    PROVE  /\ \E E : elements \in Seq(E)
           /\ elements # <<>> => Head(elements).code \in {"CLOSE_HANDSHAKE", "OUTPUT"}
<1>1. PICK rs, n : Answered(fs, messages, bytes, elements, rs, n)
  BY Zenon DEF Serving
<1> DEFINE E == {Element(f) : f \in ServerFrames}
<1>2. elements \in Seq(E)
  BY <1>1 DEF Answered
<1>3. \A e \in E : e.code \in {"CLOSE_HANDSHAKE", "OUTPUT"}
  BY DEF Element
<1> HIDE DEF E
<1>4. elements # <<>> => Head(elements) \in E
  BY <1>2
<1> QED BY <1>2, <1>3, <1>4

LEMMA ReadAnswers ==
    ASSUME BigEndian, MachineInv, AnswerInv, NEW n \in Reads, DoWSReadWork(n)
    PROVE  AnswerInv'
<1> DEFINE p == AfterRead(n)
<1>1. /\ work = <<>>
      /\ work' = IF HasMessage(p) THEN Append(p.work, MessageReceived) ELSE p.work
      /\ frames' = frames /\ handled' = handled /\ printer' = printer /\ written' = written
  BY DEF DoWSReadWork, AfterRead
<1>2. frames \in Seq(OrderedFrames) /\ (Readable(frames) => handled \in Seq(Seq(Codes)))
  BY DEF MachineInv
<1>3. Sound(frames, taken + n, p, handled)
  BY ReadSound
<1> HIDE DEF p
<1>4. Enqueued(frames, p.work)
  <2>1. PICK m, q, w, c, r : p = Read(m, q, w, c, r) /\ Enqueued(frames, w)
    BY <1>3, Zenon DEF Sound
  <2>2. p.work = w
    BY <2>1 DEF Read
  <2> QED BY <2>1, <2>2
<1>5. ASSUME Orderly(frames), ~printer.split
      PROVE  Serving(frames, handled, written, p.work)
  <2>1. PICK elements : /\ Serving(frames, handled, written, elements)
                        /\ work = elements \/ work = Append(elements, MessageReceived)
    BY <1>5 DEF AnswerInv
  <2>2. elements = <<>>
    <3>1. PICK E : elements \in Seq(E)
      BY <2>1, NothingWaits
    <3>2. Append(elements, MessageReceived) # <<>>
      BY <3>1, Longer
    <3> QED BY <1>1, <2>1, <3>2
  <2>3. handled \in Seq(Seq(Codes)) /\ p.work \in Seq(Closings(frames))
    BY <1>2, <1>4, <1>5, OrderlyIs DEF Enqueued
  <2> QED BY <1>2, <1>5, <2>1, <2>2, <2>3, ClosingsServed
<1>6. work' = p.work \/ work' = Append(p.work, MessageReceived)
  BY <1>1
<1>7. /\ printer.split \in BOOLEAN /\ (~printer.split => printer.text = <<>>)
      /\ Orderly(frames) /\ (\A i \in 1..Len(handled) : Fits(handled[i])) => ~printer.split
  BY DEF AnswerInv
<1> QED BY <1>1, <1>5, <1>6, <1>7 DEF AnswerInv

\* A text that fits is printed whole.
LEMMA JsonWriteFits ==
    ASSUME NEW t, NEW split, NEW w, NEW text, Len(t) \in Nat, Len(text) \in Nat,
           Len(t) + Len(text) < FrameSize
    PROVE  JsonWrite(Printer(t, split, w), text) = Printer(t \o text, split, w)
<1> DEFINE jp == Printer(t, split, w)
           more == t \o text
<1>1. jp.text = t
  BY DEF Printer
<1>2. Len(text) < FrameSize - Len(t)
  BY SocketAssumption
<1>3. JsonWrite(jp, text) = [jp EXCEPT !.text = more]
  <2> HIDE DEF jp
  <2>1. [jp EXCEPT !.text = @ \o text] = [jp EXCEPT !.text = more]
    BY <1>1
  <2> QED BY <1>1, <1>2, <2>1 DEF JsonWrite
<1> HIDE DEF more
<1>4. [jp EXCEPT !.text = more] = Printer(more, split, w)
  BY DEF Printer
<1> QED BY <1>3, <1>4 DEF more

LEMMA OnMessageFits ==
    ASSUME NEW split, NEW w, NEW message \in Seq(Codes), Fits(message)
    PROVE  \E v : OnMessage(Printer(<<>>, split, w), message) = Printer(<<>>, split, v)
<1> DEFINE text == Text(message)
           C == {Character(message[i]) : i \in 1..Len(message)} \cup {"[", "]"}
           one == <<"[">>
           two == one \o text
           all == two \o <<"]">>
           e == MessageEnqueue(TRUE, all)
           v == Append(w, e)
<1>1. Len(message) \in Nat /\ Len(message) + 2 < FrameSize
  BY DEF Fits
<1>2. text \in Seq(C) /\ Len(text) = Len(message)
  <2>1. text \in [1..Len(message) -> C]
    BY DEF Text
  <2> HIDE DEF text, C
  <2> QED BY <1>1, <2>1, TupleType
<1>3. "[" \in C /\ "]" \in C
  OBVIOUS
<1> HIDE DEF text, C
<1>4. /\ one \in Seq(C) /\ <<>> \o one = one /\ Len(one) = 1 /\ Len(<<>>) = 0
      /\ two \in Seq(C) /\ Len(two) = 1 + Len(message) /\ Len(<<"]">>) = 1
  BY <1>2, <1>3
<1> HIDE DEF one, two
<1>5. JsonWrite(Printer(<<>>, split, w), <<"[">>) = Printer(one, split, w)
  <2>1. 0 + 1 < FrameSize
    BY <1>1, SocketAssumption
  <2>2. JsonWrite(Printer(<<>>, split, w), one) = Printer(<<>> \o one, split, w)
    <3>1. Len(<<>>) \in Nat /\ Len(one) \in Nat /\ Len(<<>>) + Len(one) < FrameSize
      BY <1>4, <2>1
    <3> QED BY <3>1, JsonWriteFits
  <2> QED BY <1>4, <2>2 DEF one
<1>6. JsonWrite(Printer(one, split, w), text) = Printer(two, split, w)
  <2>1. 1 + Len(message) < FrameSize
    BY <1>1, SocketAssumption
  <2>2. Len(one) \in Nat /\ Len(text) \in Nat /\ Len(one) + Len(text) < FrameSize
    BY <1>1, <1>2, <1>4, <2>1
  <2> QED BY <2>2, JsonWriteFits DEF two
<1>7. JsonWrite(Printer(two, split, w), <<"]">>) = Printer(all, split, w)
  <2>1. Len(two) + 1 < FrameSize /\ Len(two) \in Nat
    BY <1>1, <1>4, SocketAssumption
  <2> QED BY <1>4, <2>1, JsonWriteFits
<1> DEFINE jp == Printer(all, split, w)
<1>8. FlushJson(jp) = Printer(<<>>, split, v)
  <2>1. jp.text = all /\ jp.work = w
    BY DEF Printer
  <2> DEFINE p1 == [jp EXCEPT !.work = v]
  <2>2. FlushJson(jp) = [p1 EXCEPT !.text = <<>>]
    BY <2>1 DEF FlushJson
  <2> HIDE DEF v, all
  <2>3. p1 = Printer(all, split, v)
    BY DEF Printer
  <2> HIDE DEF p1
  <2>4. [p1 EXCEPT !.text = <<>>] = Printer(<<>>, split, v)
    BY <2>3 DEF Printer
  <2> QED BY <2>2, <2>4
<1>9. OnMessage(Printer(<<>>, split, w), message) = FlushJson(jp)
  BY <1>5, <1>6, <1>7, Zenon DEF OnMessage, text
<1> QED BY <1>8, <1>9

LEMMA HandlesFit ==
    ASSUME NEW queue, NEW n \in Nat, n = Len(queue), NEW g,
           \A i \in 1..Len(queue) : Fits(queue[i]) /\ queue[i] \in Seq(Codes),
           Handles(Printer(<<>>, FALSE, <<>>), queue, n, g)
    PROVE  \E v : g[n] = Printer(<<>>, FALSE, v)
<1> DEFINE Good(j) == \E v : g[j] = Printer(<<>>, FALSE, v)
           T == {j \in Nat : j \in 0..n /\ ~Good(j)}
<1> HIDE DEF Good
<1>1. ASSUME T # {} PROVE FALSE
  <2>0. T \subseteq Nat
    OBVIOUS
  <2>1. PICK j \in T : \A y \in T : j <= y
    <3> HIDE DEF T
    <3> QED BY <1>1, <2>0, Smallest
  <2>2. j \in 0..n /\ ~Good(j)
    BY <2>1
  <2>3. g[j] = IF j = 0 THEN Printer(<<>>, FALSE, <<>>) ELSE OnMessage(g[j - 1], queue[j])
    BY <2>2, Zenon DEF Handles
  <2>4. j # 0
    <3>1. j = 0 => Good(j)
      BY <2>3 DEF Good
    <3> QED BY <2>2, <3>1
  <2>5. j - 1 \in 0..n /\ j - 1 \in Nat /\ j - 1 \notin T /\ j \in 1..Len(queue)
    BY <2>1, <2>2, <2>4
  <2>6. PICK w : g[j - 1] = Printer(<<>>, FALSE, w)
    BY <2>5 DEF Good
  <2>7. \E v : OnMessage(Printer(<<>>, FALSE, w), queue[j]) = Printer(<<>>, FALSE, v)
    BY <2>5, OnMessageFits
  <2>8. Good(j)
    BY <2>3, <2>4, <2>6, <2>7 DEF Good
  <2> QED BY <2>2, <2>8
<1>2. n \in 0..n /\ n \notin T
  BY <1>1
<1>3. Good(n)
  BY <1>2
<1> QED BY <1>3 DEF Good

LEMMA HandleAnswers ==
    ASSUME BigEndian, MachineInv, AnswerInv, HandleMessages
    PROVE  AnswerInv'
<1> DEFINE start == Printer(printer.text, printer.split, <<>>)
           n == Len(inbox)
           was == printer.split
<1>1. /\ work # <<>> /\ Head(work).code = "MESSAGE_RECEIVED" /\ handled' = handled \o inbox
      /\ frames' = frames /\ written' = written
  BY DEF HandleMessages
<1>2. /\ frames \in Seq(OrderedFrames)
      /\ handled \in Seq(Texts(frames)) /\ inbox \in Seq(Texts(frames))
      /\ Readable(frames) => handled \in Seq(Seq(Codes)) /\ inbox \in Seq(Seq(Codes))
  BY DEF MachineInv
<1>3. n \in Nat
  BY <1>2
<1>4. was \in BOOLEAN /\ (~was => printer.text = <<>>)
  BY DEF AnswerInv
<1>5. PICK g : /\ Handles(start, inbox, n, g)
               /\ work' = Tail(work) \o g[n].work
               /\ printer' = [text |-> g[n].text, split |-> g[n].split]
  BY <1>3, HandlesIs
<1>6. ASSUME Orderly(frames), ~was
      PROVE  /\ handled \in Seq(Seq(Codes)) /\ inbox \in Seq(Seq(Codes))
             /\ Serving(frames, handled, written, <<>>)
             /\ Tail(work) = <<>>
  <2>1. PICK elements : /\ Serving(frames, handled, written, elements)
                        /\ work = elements \/ work = Append(elements, MessageReceived)
    BY <1>6 DEF AnswerInv
  <2>2. PICK E : elements \in Seq(E)
    BY <2>1, NothingWaits
  <2>3. elements = <<>>
    <3>1. ASSUME elements # <<>> PROVE FALSE
      <4>1. Head(work) = Head(elements)
        BY <2>1, <2>2, <3>1
      <4> QED BY <1>1, <2>1, <3>1, <4>1, NothingWaits
    <3> QED BY <3>1
  <2>4. Tail(work) = <<>>
    <3>1. work = Append(<<>>, MessageReceived)
      BY <1>1, <2>1, <2>3
    <3>2. work = <<MessageReceived>>
      BY <3>1
    <3> QED BY <3>2
  <2> QED BY <1>2, <1>6, <2>1, <2>3, <2>4, OrderlyIs
<1>7. Printed(start, was, <<>>, <<>>)
  BY <1>4 DEF Printed
<1>8. HandledBy(frames, handled, written, was, start)
  BY <1>6, <1>7 DEF HandledBy
<1> HIDE DEF start, n, was
<1>9. HandlesAll(frames, handled, written, inbox, was, start, n, g)
  <2>1. Orderly(frames) => inbox \in Seq(Seq(Codes))
    BY <1>2, OrderlyIs
  <2> QED BY <1>2, <1>4, <1>5, <1>8, <2>1 DEF HandlesAll, n
<1>10. HandledBy(frames, handled \o inbox, written, was, g[n])
  BY <1>9, HandlesAnswered
<1>11. PICK elements :
           /\ Printed(g[n], was, <<>>, elements)
           /\ Orderly(frames) /\ ~was => Serving(frames, handled \o inbox, written, elements)
  BY <1>10 DEF HandledBy
<1>12. PICK t, s, w : /\ g[n] = Printer(t, s, w) /\ s \in BOOLEAN
                      /\ was => s
                      /\ ~s => t = <<>> /\ w = elements
  BY <1>11, Zenon DEF Printed
<1>13. printer'.text = t /\ printer'.split = s /\ work' = Tail(work) \o w
  <2>1. g[n].text = t /\ g[n].split = s /\ g[n].work = w
    BY <1>12 DEF Printer
  <2> QED BY <1>5, <2>1
<1>14. ASSUME Orderly(frames), ~s
       PROVE  Serving(frames, handled \o inbox, written, work')
  <2>1. ~was /\ w = elements /\ Serving(frames, handled \o inbox, written, elements)
    BY <1>11, <1>12, <1>14
  <2>2. PICK E : elements \in Seq(E)
    BY <2>1, NothingWaits
  <2>3. <<>> \o elements = elements
    BY <2>2
  <2> QED BY <1>6, <1>13, <1>14, <2>1, <2>3
<1>16. ASSUME Orderly(frames), \A i \in 1..Len(handled') : Fits(handled'[i]) PROVE ~s
  <2> DEFINE T == Seq(Codes)
  <2>1. handled \in Seq(T) /\ inbox \in Seq(T) /\ handled' = handled \o inbox
    BY <1>1, <1>2, <1>16, OrderlyIs
  <2> HIDE DEF T
  <2>3. \A i \in 1..Len(handled) : Fits(handled[i])
    <3> SUFFICES ASSUME NEW i \in 1..Len(handled) PROVE Fits(handled[i])
      OBVIOUS
    <3>1. i \in 1..Len(handled') /\ handled'[i] = handled[i]
      BY <2>1
    <3> QED BY <1>16, <3>1
  <2>4. ASSUME NEW i \in 1..Len(inbox) PROVE Fits(inbox[i]) /\ inbox[i] \in Seq(Codes)
    <3>1. Joined(handled \o inbox, handled, inbox)
      BY <2>1, Parts
    <3>2. Len(handled) + i \in 1..Len(handled') /\ handled'[Len(handled) + i] = inbox[i]
      BY <2>1, <3>1 DEF Joined
    <3>3. inbox[i] \in T
      BY <2>1
    <3> QED BY <1>16, <3>2, <3>3 DEF T
  <2>5. ~was /\ start = Printer(<<>>, FALSE, <<>>)
    BY <1>4, <1>16, <2>3 DEF AnswerInv, start, was
  <2>6. \E v : g[n] = Printer(<<>>, FALSE, v)
    BY <1>3, <1>5, <2>4, <2>5, HandlesFit DEF n
  <2> QED BY <1>12, <2>6 DEF Printer
<1>15. AnswerInv' = ( /\ printer'.split \in BOOLEAN
                      /\ ~printer'.split => printer'.text = <<>>
                      /\ Orderly(frames') /\ (\A i \in 1..Len(handled') : Fits(handled'[i])) =>
                           ~printer'.split
                      /\ Orderly(frames') /\ ~printer'.split =>
                           \E es : /\ Serving(frames', handled', written', es)
                                   /\ work' = es \/ work' = Append(es, MessageReceived) )
  BY DEF AnswerInv
<1> QED BY <1>1, <1>12, <1>13, <1>14, <1>15, <1>16

LEMMA WriteAnswers ==
    ASSUME AnswerInv, WriteOutput
    PROVE  AnswerInv'
<1>1. /\ work # <<>> /\ Head(work).code \in {"CLOSE_HANDSHAKE", "OUTPUT"}
      /\ written' = written \o Head(work).buffer
      /\ work' = Tail(work) /\ frames' = frames /\ handled' = handled /\ printer' = printer
  BY DEF WriteOutput
<1>2. ASSUME Orderly(frames), ~printer.split
      PROVE  \E es : /\ Serving(frames, handled, written', es)
                     /\ work' = es \/ work' = Append(es, MessageReceived)
  <2>1. PICK elements : /\ Serving(frames, handled, written, elements)
                        /\ work = elements \/ work = Append(elements, MessageReceived)
    BY <1>2 DEF AnswerInv
  <2>2. PICK E : elements \in Seq(E)
    BY <2>1, NothingWaits
  <2>3. elements # <<>>
    <3>1. ASSUME elements = <<>> PROVE FALSE
      <4>1. Head(work) = MessageReceived
        BY <1>1, <2>1, <3>1
      <4> QED BY <1>1, <4>1 DEF MessageReceived
    <3> QED BY <3>1
  <2>4. Head(work) = Head(elements)
    BY <2>1, <2>2, <2>3
  <2>5. Tail(work) = Tail(elements) \/ Tail(work) = Append(Tail(elements), MessageReceived)
    <3> DEFINE V == E \cup {MessageReceived}
    <3>1. elements \in Seq(V) /\ MessageReceived \in V
      BY <2>2
    <3> HIDE DEF V
    <3>2. Tail(Append(elements, MessageReceived)) = Append(Tail(elements), MessageReceived)
      BY <2>3, <3>1
    <3> QED BY <2>1, <3>2
  <2>6. Serving(frames, handled, written', Tail(elements))
    BY <1>1, <2>1, <2>3, <2>4, AnsweredWritten
  <2> QED BY <1>1, <2>5, <2>6
<1>3. /\ printer.split \in BOOLEAN /\ (~printer.split => printer.text = <<>>)
      /\ Orderly(frames) /\ (\A i \in 1..Len(handled) : Fits(handled[i])) => ~printer.split
  BY DEF AnswerInv
<1> QED BY <1>1, <1>2, <1>3 DEF AnswerInv

LEMMA StepAnswers ==
    ASSUME BigEndian, MachineInv, AnswerInv, [SocketNext]_socketVars, ~overrun'
    PROVE  AnswerInv'
<1>1. ASSUME NEW n \in Reads, DoWSReadWork(n) PROVE AnswerInv'
  BY <1>1, ReadAnswers
<1>2. CASE ReadNothing
  BY <1>2 DEF ReadNothing, AnswerInv
<1>3. CASE HandleMessages
  BY <1>3, HandleAnswers
<1>4. CASE WriteOutput
  BY <1>4, WriteAnswers
<1>5. CASE UNCHANGED socketVars
  BY <1>5 DEF socketVars, AnswerInv
<1>6. ASSUME NEW n \in Reads, ReadOverruns(n) PROVE FALSE
  BY <1>6 DEF ReadOverruns
<1> QED BY <1>1, <1>2, <1>3, <1>4, <1>5, <1>6 DEF SocketNext

-----------------------------------------------------------------------------
(* What a client reads of it.                                              *)

\* The message of a frame that is a whole message is its payload.
LEMMA WholeFrames ==
    ASSUME NEW fs \in Seq(OrderedFrames), \A j \in 1..Len(fs) : fs[j].fin
    PROVE  EndedIn(fs, Len(fs)) = [i \in 1..Len(fs) |-> fs[i].data]
<1> DEFINE all(k) == [i \in 1..k |-> fs[i].data]
           T == {k \in Nat : k \in 0..Len(fs) /\ EndedIn(fs, k) # all(k)}
<1>1. ASSUME T # {} PROVE FALSE
  <2>0. T \subseteq Nat
    OBVIOUS
  <2>1. PICK j \in T : \A y \in T : j <= y
    <3> HIDE DEF T
    <3> QED BY <1>1, <2>0, Smallest
  <2>2. j \in 0..Len(fs) /\ EndedIn(fs, j) # all(j)
    BY <2>1
  <2>3. j # 0
    <3>1. EndedIn(fs, 0) = <<>>
      <4>1. EndsBefore(fs, 0 + 1) = 0
        BY EndsStart
      <4> DEFINE S == Texts(fs)
                 ms == Messages(fs)
      <4>2. ms \in Seq(S)
        BY MessagesType
      <4> HIDE DEF S, ms
      <4>3. SubSeq(ms, 1, 0) = <<>>
        BY <4>2
      <4> QED BY <4>1, <4>3 DEF EndedIn, ms
    <3>2. all(0) = <<>>
      OBVIOUS
    <3> QED BY <2>2, <3>1, <3>2
  <2> DEFINE k == j - 1
             d == fs[k + 1].data
  <2>4. k \in 0..(Len(fs) - 1) /\ k \in Nat /\ k + 1 = j /\ k \notin T /\ k \in 0..Len(fs)
        /\ k + 1 \in 1..Len(fs)
    BY <2>1, <2>2, <2>3
  <2>5. EndedIn(fs, k) = all(k)
    BY <2>4
  <2>6. fs[k + 1].fin /\ (k = 0 \/ fs[k].fin)
    BY <2>4
  <2> HIDE DEF k, T, all, d
  <2>7. Gathered(fs, k, <<>>)
    <3>1. (k + 1)..k = {} /\ 1..(k - k) = {} /\ k \in 0..k
      BY <2>4
    <3>2. [i \in 1..(k - k) |-> fs[k + i].data] = <<>>
      BY <3>1
    <3> QED BY <2>6, <3>1, <3>2 DEF Gathered
  <2>8. FlattenSeq(Append(<<>>, d)) = Message(fs, EndsBefore(fs, k + 1) + 1)
    BY <2>4, <2>6, <2>7, GatheredOn DEF d
  <2>9. FlattenSeq(Append(<<>>, d)) = d
    <3> DEFINE S == Nat
    <3>1. fs[k + 1] \in OrderedFrames
      BY <2>4
    <3>2. d \in Seq(S)
      BY <3>1, MaskType DEF d
    <3> HIDE DEF S
    <3>3. <<>> \in Seq(Seq(S))
      OBVIOUS
    <3>4. FlattenSeq(Append(<<>>, d)) = FlattenSeq(<<>>) \o d
      BY <3>2, <3>3, FlattenAppend
    <3>5. FlattenSeq(<<>>) = <<>>
      BY DEF FlattenSeq
    <3>6. <<>> \o d = d
      BY <3>2
    <3> QED BY <3>4, <3>5, <3>6
  <2>10. EndedIn(fs, k + 1) = Append(EndedIn(fs, k), d)
    BY <2>4, <2>6, <2>8, <2>9, NextMessage
  <2>11. Append(all(k), d) = all(k + 1)
    <3> DEFINE S == {fs[i].data : i \in 1..Len(fs)}
               a == all(k)
               b == all(k + 1)
    <3>1. a = [i \in 1..k |-> fs[i].data] /\ b = [i \in 1..(k + 1) |-> fs[i].data]
      BY DEF all
    <3>2. d \in S /\ (\A i \in 1..(k + 1) : fs[i].data \in S) /\ \A i \in 1..k : i \in 1..(k + 1)
      BY <2>4 DEF d
    <3> HIDE DEF S, a, b
    <3>3. a \in [1..k -> S] /\ \A i \in 1..k : a[i] = fs[i].data
      BY <3>1, <3>2
    <3>4. b \in [1..(k + 1) -> S] /\ \A i \in 1..(k + 1) : b[i] = fs[i].data
      BY <3>1, <3>2
    <3>5. a \in Seq(S) /\ Len(a) = k /\ b \in Seq(S) /\ Len(b) = k + 1
      BY <2>4, <3>3, <3>4, TupleType
    <3>6. Append(a, d) \in Seq(S) /\ Len(Append(a, d)) = k + 1 /\ Append(a, d)[k + 1] = d
          /\ \A i \in 1..k : Append(a, d)[i] = a[i]
      BY <2>4, <3>2, <3>5
    <3>7. ASSUME NEW i \in 1..Len(b) PROVE b[i] = Append(a, d)[i]
      <4>1. CASE i = k + 1
        BY <3>4, <3>5, <3>6, <4>1 DEF d
      <4>2. CASE i # k + 1
        <5>1. i \in 1..k
          BY <2>4, <3>5, <4>2
        <5> QED BY <3>2, <3>3, <3>4, <3>6, <5>1
      <4> QED BY <4>1, <4>2
    <3> QED BY <3>5, <3>6, <3>7, SeqEqual DEF a, b
  <2> QED BY <2>2, <2>4, <2>5, <2>10, <2>11
<1>2. Len(fs) \in Nat /\ Len(fs) \in 0..Len(fs) /\ Len(fs) \notin T
  BY <1>1
<1> QED BY <1>2

\* A client reads the payloads of whole frames.
LEMMA DecodedIs ==
    ASSUME NEW fs \in Seq(OrderedFrames), \A j \in 1..Len(fs) : fs[j].fin
    PROVE  Decoded(Stream(fs)) = [i \in 1..Len(fs) |-> fs[i].data]
<1> DEFINE s == Stream(fs)
           n == Len(s)
           p == Progress(NewReadMachine, <<>>)
           next == ReadMachineAdvance(p, s)
<1>1. s \in Seq(Bytes)
  BY SentEnds
<1>2. n \in Nat
  BY <1>1
<1>3. SubSeq(s, 0 + 1, 0 + n) = s
  <2> HIDE DEF s
  <2> QED BY <1>1
<1>4. Sound(fs, 0, p, <<>>)
  <2>1. p = Read(NewReadMachine, <<>>, <<>>, FALSE, FALSE)
    BY DEF Progress, Read
  <2>2. <<>> \o <<>> = <<>> /\ <<>> \in Seq(Texts(fs)) /\ <<>> \in Seq(Seq(Codes))
        /\ <<>> \in Seq(Closings(fs))
    OBVIOUS
  <2>3. ReadAs(fs, 0, NewReadMachine, <<>> \o <<>>, 0, 0)
    BY <2>2, ReadStart
  <2>4. Queued(fs, <<>>) /\ Enqueued(fs, <<>>)
    BY <2>2, JustlyNone DEF Queued, Enqueued
  <2> HIDE DEF p
  <2> QED BY <2>1, <2>3, <2>4, Zenon DEF Sound
<1>5. ReadOf(fs, 0, n, <<>>, p, next)
  <2>1. <<>> \in Seq(Texts(fs)) /\ 0 \in Nat /\ 0 + n <= n
    BY <1>2
  <2> HIDE DEF p
  <2> QED BY <1>2, <1>3, <1>4, <2>1 DEF ReadOf
<1> HIDE DEF next, p
<1>6. Sound(fs, 0 + n, next, <<>>) /\ 0 + n = n
  BY <1>2, <1>5, ReadAdvances
<1>7. PICK m, q, w, c, r, k, o :
          /\ next = Read(m, q, w, c, r)
          /\ ReadAs(fs, n, m, <<>> \o q, k, o)
          /\ Queued(fs, q)
  BY <1>6, Zenon DEF Sound
<1>8. q = EndedIn(fs, Len(fs))
  <2>1. k = Len(fs)
    BY <1>7, AllRead
  <2>2. <<>> \o q = EndedIn(fs, k)
    BY <1>7 DEF ReadAs
  <2> DEFINE S == Texts(fs)
  <2>3. q \in Seq(S)
    BY <1>7 DEF Queued
  <2> HIDE DEF S
  <2>4. <<>> \o q = q
    BY <2>3
  <2> QED BY <2>1, <2>2, <2>4
<1>9. next.inbox = q
  BY <1>7 DEF Read
<1>10. Decoded(s) = next.inbox
  BY DEF Decoded, next, p
<1> QED BY <1>8, <1>9, <1>10, WholeFrames DEF s

LEMMA AnswersRead ==
    ASSUME NEW fs, NEW rs \in Seq(ServerFrames)
    PROVE  Answers(fs, Decoded(Stream(rs))) = FlattenSeq(AnswersTo(fs, rs))
<1> DEFINE texts == [i \in 1..Len(rs) |-> rs[i].data]
<1>1. rs \in Seq(OrderedFrames) /\ \A j \in 1..Len(rs) : rs[j].fin
  <2>1. ServerFrames \subseteq OrderedFrames
    BY DEF ServerFrames
  <2>2. rs \in Seq(OrderedFrames)
    BY <2>1, Wider
  <2> QED BY <2>2 DEF ServerFrames
<1>2. Decoded(Stream(rs)) = texts
  BY <1>1, DecodedIs
<1>3. Len(texts) = Len(rs) /\ \A i \in 1..Len(rs) : texts[i] = rs[i].data
  OBVIOUS
<1> HIDE DEF texts
<1>4. [i \in 1..Len(texts) |-> Answer(fs, texts[i])] = [i \in 1..Len(rs) |-> Answer(fs, rs[i].data)]
  <2>1. [i \in 1..Len(texts) |-> Answer(fs, texts[i])] = [i \in 1..Len(rs) |-> Answer(fs, texts[i])]
    BY <1>3
  <2>2. \A i \in 1..Len(rs) : Answer(fs, texts[i]) = Answer(fs, rs[i].data)
    BY <1>3, Zenon
  <2> QED BY <2>1, <2>2
<1>5. Answers(fs, texts) = FlattenSeq(AnswersTo(fs, rs))
  BY <1>4, Zenon DEF Answers, AnswersTo
<1> QED BY <1>2, <1>5

\* What has been answered first comes first.
LEMMA AnswersBegin ==
    ASSUME NEW fs, NEW rs \in Seq(ServerFrames), NEW n \in 0..Len(rs)
    PROVE  IsPrefix(FlattenSeq(AnswersTo(fs, SubSeq(rs, 1, n))), FlattenSeq(AnswersTo(fs, rs)))
<1> DEFINE S == Seq(Nat)
           a(k) == FlattenSeq(AnswersTo(fs, SubSeq(rs, 1, k)))
           Goes(k) == \E rest \in Seq(S) : a(k) = a(n) \o rest
           T == {k \in Nat : k \in n..Len(rs) /\ ~Goes(k)}
<1>1. ASSUME NEW k \in 0..Len(rs) PROVE a(k) \in Seq(S)
  <2>1. SubSeq(rs, 1, k) \in Seq(ServerFrames)
    OBVIOUS
  <2> DEFINE x == AnswersTo(fs, SubSeq(rs, 1, k))
  <2>2. x \in Seq(Seq(S))
    BY <2>1, AnswersType
  <2> HIDE DEF x, S
  <2>3. FlattenSeq(x) \in Seq(S)
    BY <2>2, FlattenType
  <2> QED BY <2>3 DEF x
<1> HIDE DEF S
<1>2. ASSUME T # {} PROVE FALSE
  <2>0. T \subseteq Nat
    OBVIOUS
  <2>1. PICK j \in T : \A y \in T : j <= y
    <3> HIDE DEF T
    <3> QED BY <1>2, <2>0, Smallest
  <2>2. j \in n..Len(rs) /\ ~Goes(j)
    BY <2>1
  <2>3. j # n
    <3> HIDE DEF a
    <3>1. a(n) = a(n) \o <<>> /\ <<>> \in Seq(S)
      BY <1>1
    <3> QED BY <2>2, <3>1
  <2> DEFINE k == j - 1
             r == rs[j]
             x == Answer(fs, r.data)
  <2>4. k \in n..Len(rs) /\ k \in Nat /\ k + 1 = j /\ k \notin T /\ k \in 0..Len(rs)
        /\ j \in 1..Len(rs) /\ k < Len(rs)
    <3>1. n \in Nat /\ Len(rs) \in Nat
      OBVIOUS
    <3> HIDE DEF T, Goes
    <3>2. k \in n..Len(rs) /\ k \in Nat /\ k + 1 = j /\ k \in 0..Len(rs)
          /\ j \in 1..Len(rs) /\ k < Len(rs)
      BY <2>2, <2>3, <3>1
    <3>3. ~(j <= k)
      BY <2>2, <3>1
    <3> QED BY <2>1, <3>2, <3>3
  <2>5. Goes(k)
    BY <2>4
  <2>6. r \in ServerFrames
    BY <2>4
  <2> HIDE DEF k, T, r
  <2>7. a(j) = a(k) \o x
    <3>1. Append(SubSeq(rs, 1, k), r) = SubSeq(rs, 1, j)
      BY <2>4, OneMore DEF r
    <3>2. SubSeq(rs, 1, k) \in Seq(ServerFrames)
      BY <2>4
    <3>3. FlattenSeq(AnswersTo(fs, Append(SubSeq(rs, 1, k), r)))
          = FlattenSeq(AnswersTo(fs, SubSeq(rs, 1, k))) \o Answer(fs, r.data)
      BY <2>6, <3>2, AnswersMore
    <3> QED BY <3>1, <3>3
  <2>8. x \in Seq(S)
    <3>1. r \in OrderedFrames
      BY <2>6 DEF ServerFrames
    <3>2. r.data \in S
      BY <3>1, MaskType DEF S
    <3> QED BY <3>2 DEF Answer
  <2> HIDE DEF a, x
  <2>9. PICK rest \in Seq(S) : a(k) = a(n) \o rest
    BY <2>5
  <2>10. rest \o x \in Seq(S) /\ (a(n) \o rest) \o x = a(n) \o (rest \o x)
    BY <1>1, <2>8
  <2> QED BY <2>2, <2>7, <2>9, <2>10
<1>3. Len(rs) \in Nat /\ Len(rs) \in n..Len(rs) /\ Len(rs) \in 0..Len(rs)
  OBVIOUS
<1>4. Goes(Len(rs))
  BY <1>2, <1>3
<1>5. a(Len(rs)) = FlattenSeq(AnswersTo(fs, rs))
  <2>1. SubSeq(rs, 1, Len(rs)) = rs
    OBVIOUS
  <2> QED BY <2>1
<1> HIDE DEF a
<1>6. PICK rest \in Seq(S) : a(Len(rs)) = a(n) \o rest
  BY <1>4
<1>7. a(n) \in Seq(S)
  BY <1>1
<1>8. IsPrefix(a(n), a(n) \o rest)
  <2> DEFINE b == a(n)
             c == b \o rest
  <2>1. b \in Seq(S) /\ rest \in Seq(S)
    BY <1>7
  <2> HIDE DEF b, c
  <2>2. c \in Seq(S) /\ Joined(c, b, rest)
    BY <2>1, Parts DEF c
  <2>3. Len(b) \in Nat /\ Len(rest) \in Nat /\ Len(b) <= Len(c)
    BY <2>1, <2>2 DEF Joined
  <2>4. SubSeq(b, 1, Len(b)) = SubSeq(c, 1, Len(b))
    <3> DEFINE u == SubSeq(b, 1, Len(b))
               v == SubSeq(c, 1, Len(b))
    <3>1. u \in Seq(S) /\ Len(u) = Len(b) /\ v \in Seq(S) /\ Len(v) = Len(b)
      BY <2>1, <2>2, <2>3
    <3>2. ASSUME NEW i \in 1..Len(b) PROVE u[i] = v[i]
      <4>1. u[i] = b[i] /\ v[i] = c[i]
        BY <2>1, <2>2, <2>3
      <4>2. c[i] = b[i]
        BY <2>2 DEF Joined
      <4> QED BY <4>1, <4>2
    <3> HIDE DEF u, v
    <3>3. \A i \in 1..Len(u) : u[i] = v[i]
      BY <3>1, <3>2
    <3>4. u = v
      BY <3>1, <3>3, SeqEqual
    <3> QED BY <3>4 DEF u, v
  <2>5. IsPrefix(b, c)
    BY <2>3, <2>4 DEF IsPrefix
  <2> QED BY <2>5 DEF b, c
<1> QED BY <1>5, <1>6, <1>8 DEF a

LEMMA AnswersSent ==
    ASSUME AnswerInv, Orderly(frames), \A i \in 1..Len(handled) : Fits(handled[i])
    PROVE  LET answers == Answers(frames, Decoded(written))
           IN /\ IsPrefix(answers, Echoes(handled))
              /\ Ended => answers = Echoes(handled)
<1>1. PICK elements : /\ Serving(frames, handled, written, elements)
                      /\ work = elements \/ work = Append(elements, MessageReceived)
  <2>1. ~printer.split
    BY DEF AnswerInv
  <2> QED BY <2>1 DEF AnswerInv
<1>2. PICK rs, n : Answered(frames, handled, written, elements, rs, n)
  BY <1>1, Zenon DEF Serving
<1>3. /\ rs \in Seq(ServerFrames) /\ n \in 0..Len(rs) /\ written = Sent(rs, n)
      /\ Len(elements) = Len(rs) - n
      /\ FlattenSeq(AnswersTo(frames, rs)) = Echoes(handled)
  BY <1>2, Zenon DEF Answered
<1> DEFINE answers == Answers(frames, Decoded(written))
           ws == SubSeq(rs, 1, n)
<1>4. ws \in Seq(ServerFrames)
  BY <1>3
<1>5. written = Stream(ws)
  BY <1>3 DEF Sent
<1>6. answers = FlattenSeq(AnswersTo(frames, ws))
  <2> HIDE DEF ws
  <2> QED BY <1>4, <1>5, AnswersRead
<1>7. IsPrefix(answers, Echoes(handled))
  <2> HIDE DEF answers
  <2> QED BY <1>3, <1>6, AnswersBegin
<1>8. ASSUME Ended PROVE answers = Echoes(handled)
  <2>1. elements = <<>>
    <3>1. PICK E : elements \in Seq(E)
      BY <1>1, NothingWaits
    <3>2. Append(elements, MessageReceived) # <<>>
      BY <3>1, Longer
    <3> QED BY <1>1, <1>8, <3>2 DEF Ended
  <2>2. n = Len(rs)
    BY <1>3, <2>1
  <2>3. ws = rs
    BY <1>3, <2>2
  <2> HIDE DEF ws, answers
  <2> QED BY <1>3, <1>6, <2>3
<1> QED BY <1>7, <1>8

-----------------------------------------------------------------------------
(* The buffer of a payload.                                                *)

\* A client that masks its frames makes no buffer overrun: its bytes are written
\* one by one, and no length of eight bytes is negative.
LEMMA NoOverrun ==
    ASSUME MachineInv, \A j \in 1..Len(frames) : frames[j].mask # <<>>,
           NEW n \in Reads, taken + n <= Len(Stream(frames))
    PROVE  ~Overruns(machine, SubSeq(Stream(frames), taken + 1, taken + n))
<1> DEFINE s == Stream(frames)
           bytes == SubSeq(s, taken + 1, taken + n)
           got == handled \o inbox
           p0 == Progress(machine, <<>>)
<1>1. /\ frames \in Seq(OrderedFrames) /\ taken \in Nat /\ n \in Nat
      /\ handled \in Seq(Texts(frames)) /\ inbox \in Seq(Texts(frames))
      /\ Reading(frames, taken, machine, got)
  BY SocketAssumption DEF MachineInv
<1>2. s \in Seq(Bytes) /\ Len(s) \in Nat
  BY <1>1, SentEnds
<1>3. got \in Seq(Texts(frames)) /\ got \o <<>> = got
  BY <1>1
<1> HIDE DEF s, got
<1>4. Len(bytes) = n
  BY <1>1, <1>2 DEF s
<1>5. Sound(frames, taken, p0, got)
  <2>1. Enqueued(frames, <<>>)
    <3>1. <<>> \in Seq(Closings(frames))
      OBVIOUS
    <3> QED BY <3>1, JustlyNone DEF Enqueued
  <2>2. Queued(frames, <<>>)
    <3> DEFINE C == Seq(Codes)
    <3>1. <<>> \in Seq(Texts(frames)) /\ <<>> \in Seq(C)
      OBVIOUS
    <3> QED BY <3>1 DEF Queued
  <2>3. PICK k, o : ReadAs(frames, taken, machine, got \o <<>>, k, o)
    BY <1>1, <1>3 DEF Reading
  <2>4. p0 = Read(machine, <<>>, <<>>, FALSE, FALSE)
    BY DEF Progress, Read
  <2> HIDE DEF p0
  <2> QED BY <2>1, <2>2, <2>3, <2>4, Zenon DEF Sound
<1> HIDE DEF p0, bytes
<1>6. ASSUME NEW i \in 0..n
      PROVE  LET after == ReadMachineAdvance(p0, SubSeq(bytes, 1, i)).m
             IN HeaderRead(after) => ~NegativeLength(after) /\ after.header[2].masked
  <2> DEFINE p == ReadMachineAdvance(p0, SubSeq(bytes, 1, i))
  <2>1. SubSeq(bytes, 1, i) = SubSeq(s, taken + 1, taken + i)
    <3>1. i \in Nat /\ i <= n /\ taken + n <= Len(s)
      BY <1>1 DEF s
    <3>2. /\ SubSeq(bytes, 1, i) \in Seq(Bytes) /\ Len(SubSeq(bytes, 1, i)) = i
          /\ SubSeq(s, taken + 1, taken + i) \in Seq(Bytes)
          /\ Len(SubSeq(s, taken + 1, taken + i)) = i
      BY <1>1, <1>2, <3>1 DEF bytes
    <3>3. \A j \in 1..i : SubSeq(bytes, 1, i)[j] = SubSeq(s, taken + 1, taken + i)[j]
      BY <1>1, <1>2, <3>1 DEF bytes
    <3> QED BY <3>2, <3>3, SeqEqual
  <2>2. ReadOf(frames, taken, i, got, p0, p)
    <3>1. i \in Nat /\ taken + i <= Len(s)
      BY <1>1, <1>2 DEF s
    <3> QED BY <1>1, <1>3, <1>5, <2>1, <3>1 DEF ReadOf, s
  <2> HIDE DEF p
  <2>3. Sound(frames, taken + i, p, got)
    BY <2>2, ReadAdvances
  <2>4. PICK m, q, w, c, r, k, o : p = Read(m, q, w, c, r)
                                   /\ ReadAs(frames, taken + i, m, got \o q, k, o)
    BY <2>3, Zenon DEF Sound
  <2>5. p.m = m
    BY <2>4 DEF Read
  <2>6. /\ k \in 0..Len(frames) /\ o \in Nat
        /\ \E mask : IF k = Len(frames) THEN o = 0 /\ m = Between(mask, m.message)
                      ELSE Within(frames[k + 1], o, m, mask, m.message)
    BY <2>4, Zenon DEF ReadAs
  <2> DEFINE message == m.message
  <2>7. PICK mask : IF k = Len(frames) THEN o = 0 /\ m = Between(mask, message)
                    ELSE Within(frames[k + 1], o, m, mask, message)
    BY <2>6
  <2> HIDE DEF message
  <2> SUFFICES ASSUME HeaderRead(m) PROVE ~NegativeLength(m) /\ m.header[2].masked
    BY <2>5 DEF p
  <2>8. m # Between(mask, message)
    <3>1. ASSUME m = Between(mask, message) PROVE FALSE
      <4>1. m.headerNeed = 0
        BY <3>1 DEF Between, Machine
      <4> QED BY <4>1 DEF HeaderRead
    <3> QED BY <3>1
  <2> DEFINE f == frames[k + 1]
  <2>9. k + 1 \in 1..Len(frames) /\ f \in OrderedFrames /\ f.mask # <<>>
    BY <1>1, <2>6, <2>7, <2>8
  <2>10. Within(f, o, m, mask, message)
    BY <2>7, <2>8
  <2> HIDE DEF f
  <2> DEFINE e == Encode(f)
             h == SubSeq(e, 1, Need(f))
             L == LengthLength(Len(f.data))
  <2>11. /\ Need(f) \in Nat /\ Need(f) >= 2 /\ Len(f.data) \in Nat /\ L \in {0, 2, 8}
         /\ e \in Seq(Bytes) /\ Len(e) = Need(f) + Len(f.data)
         /\ e[2] = [masked |-> f.mask # <<>>, length |-> LengthCode(Len(f.data))]
    BY <2>9, NeedType, EncodeIs
  <2>12. ~(o \in 1..(Need(f) - 1) /\ m = InHeader(f, o, mask, message))
    <3>1. ASSUME o \in 1..(Need(f) - 1), m = InHeader(f, o, mask, message) PROVE FALSE
      <4>1. /\ m.header = SubSeq(e, 1, o)
            /\ m.headerNeed = IF o = 1 THEN 0 ELSE Need(f)
        BY <3>1 DEF InHeader, Machine
      <4> HIDE DEF e
      <4>2. Len(SubSeq(e, 1, o)) = o
        BY <2>11, <3>1
      <4> QED BY <2>11, <3>1, <4>1, <4>2 DEF HeaderRead
    <3> QED BY <3>1
  <2>13. m = InPayload(f, o - Need(f), mask, message)
    BY <2>8, <2>10, <2>12, Zenon DEF Within
  <2>14. m.header = h /\ m.payloadLengthLength = L
    BY <2>13 DEF InPayload, Machine
  <2>15. h[2].masked
    <3> HIDE DEF e
    <3>1. h[2] = e[2]
      BY <2>11
    <3> HIDE DEF h
    <3>2. h[2].masked = (f.mask # <<>>)
      BY <2>11, <3>1
    <3> QED BY <2>9, <3>2
  <2>16. ASSUME L = 8 PROVE Native(SubSeq(h, 3, 10))[1] = 0
    <3>1. SubSeq(h, 3, L + 2) = LengthBytes(Len(f.data))
      BY <2>9, HeaderLength
    <3>2. LengthBytes(Len(f.data))[1] = 0
      BY <2>16 DEF LengthBytes
    <3>3. BigEndian
      BY <2>9, <2>16 DEF OrderedFrames, Ordered
    <3>4. L + 2 = 10
      BY <2>16
    <3> HIDE DEF h, L
    <3> QED BY <3>1, <3>2, <3>3, <3>4 DEF Native
  <2> HIDE DEF h, L
  <2> QED BY <2>14, <2>15, <2>16 DEF NegativeLength
<1>7. ASSUME Overruns(machine, bytes) PROVE FALSE
  <2>1. PICK i \in 0..Len(bytes) :
            LET after == ReadMachineAdvance(p0, SubSeq(bytes, 1, i)).m
            IN /\ HeaderRead(after)
               /\ NegativeLength(after) \/ ~after.header[2].masked
    BY <1>7, Zenon DEF Overruns, p0
  <2> QED BY <1>4, <1>6, <2>1
<1> QED BY <1>7 DEF bytes, s

-----------------------------------------------------------------------------
(* The theorems.                                                           *)

\* Where the lengths of the frames are read as they were meant.
SocketInv ==
    /\ frames \in Seq(FrameSet)
    /\ (\A i \in 1..Len(frames) : Ordered(frames[i])) =>
           /\ (\A i \in 1..Len(frames) : frames[i].mask # <<>>) => ~overrun
           /\ ~overrun => MachineInv

LEMMA InitInv == SocketInit => SocketInv
<1> SUFFICES ASSUME SocketInit PROVE SocketInv
  OBVIOUS
<1>1. frames \in Seq(FrameSet) /\ overrun = FALSE
  BY SocketAssumption DEF SocketInit, SocketInitWith
<1> QED BY <1>1, MachineInit DEF SocketInv

LEMMA StepInv == SocketInv /\ [SocketNext]_socketVars => SocketInv'
<1> SUFFICES ASSUME SocketInv, [SocketNext]_socketVars PROVE SocketInv'
  OBVIOUS
<1>1. frames' = frames
  BY DEF SocketNext, socketVars, DoWSReadWork, ReadOverruns, ReadNothing, HandleMessages,
         WriteOutput
<1>2. ASSUME \A i \in 1..Len(frames) : Ordered(frames[i]), ~overrun' PROVE MachineInv'
  <2>1. ~overrun
    BY <1>2 DEF SocketNext, socketVars
  <2> QED BY <1>2, <2>1, MachineStep DEF SocketInv
<1>3. ASSUME \A i \in 1..Len(frames) : Ordered(frames[i]),
             \A i \in 1..Len(frames) : frames[i].mask # <<>>
      PROVE  ~overrun'
  <2>1. ~overrun /\ MachineInv
    BY <1>3 DEF SocketInv
  <2>2. ASSUME NEW n \in Reads, ReadOverruns(n) PROVE FALSE
    BY <1>3, <2>1, <2>2, NoOverrun DEF ReadOverruns
  <2>3. CASE UNCHANGED socketVars
    BY <2>1, <2>3 DEF socketVars
  <2>4. CASE SocketNext
    BY <2>1, <2>2, <2>4 DEF SocketNext, DoWSReadWork, ReadNothing, HandleMessages, WriteOutput
  <2> QED BY <2>3, <2>4
<1>4. frames' \in Seq(FrameSet)
  BY <1>1 DEF SocketInv
<1> QED BY <1>1, <1>2, <1>3, <1>4 DEF SocketInv

LEMMA InvSent == SocketInv => MessagesAsSent
BY MachineSent DEF SocketInv, MessagesAsSent

\* Where the order of the bytes is that of the network, every frame is ordered.
ServedInv == BigEndian /\ ~overrun => MachineInv /\ AnswerInv

LEMMA ServedInit == SocketInit => ServedInv
<1> SUFFICES ASSUME SocketInit, BigEndian PROVE MachineInv /\ AnswerInv
  BY DEF ServedInv
<1>1. \A i \in 1..Len(frames) : Ordered(frames[i])
  BY DEF Ordered
<1> QED BY <1>1, MachineInit, InitAnswers

LEMMA ServedStep == ServedInv /\ [SocketNext]_socketVars => ServedInv'
<1> SUFFICES ASSUME ServedInv, [SocketNext]_socketVars, BigEndian, ~overrun'
             PROVE  MachineInv' /\ AnswerInv'
  BY DEF ServedInv
<1>1. ~overrun
  BY DEF SocketNext, socketVars
<1>2. MachineInv /\ AnswerInv
  BY <1>1 DEF ServedInv
<1> QED BY <1>2, MachineStep, StepAnswers

LEMMA InvAnswers == ServedInv => AnswersAsWritten
BY AnswersSent DEF ServedInv, AnswersAsWritten

\* Whatever frames a client sends whose lengths are in the second byte, or are in
\* the order of the system: after every step of the conversation that has stored
\* nothing outside its buffer, the read machine holds what the bytes read so far
\* have told it of the frame it is in, and nothing of the frames before but the
\* parts of a message that goes on; the messages queued or handled are those whose
\* last frame is complete; and whoever waits for a message is told of it.  If the
\* frames are masked, no step stores outside the buffer (readMachineAdvance,
\* writeToBigBuffer, doWSReadWork).
THEOREM SocketInvariant == SocketSpec => []SocketInv
<1>1. SocketInit => SocketInv
  BY InitInv
<1>2. SocketInv /\ [SocketNext]_socketVars => SocketInv'
  BY StepInv
<1> QED BY <1>1, <1>2, PTL DEF SocketSpec

\* However the stream is cut into reads, and whatever frames it has, masked or not,
\* of lengths that are read as they were meant: no masked frame makes the payload
\* outgrow its buffer, and as long as no frame without a mask does, the handler is
\* given the messages the client has sent, unmasked, whole and in their order, and
\* all of them when the conversation ends without a control frame
\* (readMachineAdvance, writeToBigBuffer, addWSFrame, enqueueInputMessage).
THEOREM MessagesAsSentTheorem == SocketSpec => []MessagesAsSent
BY SocketInvariant, InvSent, PTL

\* Where the order of the bytes is that of the network, and as long as the messages
\* handled fit the frame of the printer: whatever messages a client sends whose bytes
\* are those of characters, with no control frame in the middle of a message or with a
\* payload that begins like an answer, what the server has written at any moment is
\* whole frames, in which a client reads, besides the answers to its control frames,
\* the echoes of the messages handled, in their order and none twice, and all of them
\* when the conversation ends (addNewWSFrame, wsJsonWriteCallback,
\* flushWSJsonPrinting, wsMessageClose).
THEOREM AnswersAsWrittenTheorem == SocketSpec => []AnswersAsWritten
<1>1. SocketInit => ServedInv
  BY ServedInit
<1>2. ServedInv /\ [SocketNext]_socketVars => ServedInv'
  BY ServedStep
<1> QED BY <1>1, <1>2, InvAnswers, PTL DEF SocketSpec
=============================================================================
