---------------------------- MODULE StreamProofs ----------------------------
(***************************************************************************)
(* What the wire protocol and the server make of a stream of bytes, for    *)
(* any clients, any scripts of lines and messages, any cuts of the stream  *)
(* into Reads and any buffer below 64 KB (the code has 4096 bytes): a      *)
(* message that is handled is one that the client wrote.                   *)
(***************************************************************************)
EXTENDS ServerProofs

(***************************************************************************)
(* The protocol                                                            *)
(***************************************************************************)

\* binary.BigEndian.Uint32 takes back what PutUint32 has put.
LEMMA Uint32RoundTrip ==
    ASSUME NEW n \in Nat, n < 256 * 256 * 256 * 256
    PROVE  Uint32(PutUint32(n)) = n
<1> DEFINE a == n \div (256 * 256 * 256)
           b == n \div (256 * 256)
           c == n \div 256
<1>1. a \in Nat /\ b \in Nat /\ c \in Nat
  OBVIOUS
<1>2. a < 256 /\ n = 256 * c + (n % 256) /\ c = 256 * b + (c % 256) /\ b = 256 * a + (b % 256)
  OBVIOUS
<1>3. a % 256 = a
  BY <1>1, <1>2
<1> QED
  BY <1>1, <1>2, <1>3 DEF Uint32, PutUint32

\* DecodeMessage of the bytes of one message.
LEMMA WholeMessage ==
    ASSUME NEW e \in Seq(Bytes), IsMessage(e)
    PROVE  /\ Uint32(SubSeq(e, 2, 5)) = Len(e) - 5
           /\ DecodeMessage(e) = Message(e[1], SubSeq(e, 6, Len(e)))
<1>1. Len(e) - 5 \in Nat /\ Len(e) - 5 < 256 * 256 * 256 * 256 /\ Len(e) \in Nat
  BY DEF IsMessage
<1>2. Uint32(SubSeq(e, 2, 5)) = Len(e) - 5
  BY <1>1, Uint32RoundTrip, ZenonT(30) DEF IsMessage
<1> QED
  BY <1>1, <1>2 DEF DecodeMessage, IsMessage

\* The zeroes in what a client writes: all in the length of a message, whose two
\* higher bytes are zeroes.
LEMMA ZeroInHeader ==
    ASSUME NEW e \in Seq(Bytes), IsLine(e) \/ IsMessage(e)
    PROVE  /\ Len(e) >= 1 /\ e[1] # 0
           /\ IsMessage(e) => Len(e) >= 5 /\ e[2] = 0 /\ e[3] = 0
           /\ \A k \in 1 .. Len(e) : e[k] = 0 => IsMessage(e) /\ k \in 2 .. 5
<1>1. CASE IsLine(e)
  <2>1. Len(e) >= 1 /\ \A k \in 1 .. Len(e) : e[k] # 0
    BY <1>1 DEF IsLine, Text
  <2>2. e[1] # 0 /\ \A k \in 1 .. Len(e) : e[k] # 0
    BY <2>1
  <2>3. IsMessage(e) => FALSE
    <3> SUFFICES ASSUME IsMessage(e) PROVE FALSE
      OBVIOUS
    <3>1. SubSeq(e, 2, 5)[1] = e[2] /\ Len(e) \in Nat /\ Len(e) >= 5 /\ Len(e) - 5 < 256 * 256
      BY DEF IsMessage
    <3>2. PutUint32(Len(e) - 5)[1] = 0
      BY <3>1 DEF PutUint32
    <3> QED
      BY <3>1, <3>2, <2>2 DEF IsMessage
  <2> QED
    BY <2>1, <2>2, <2>3
<1>2. CASE IsMessage(e)
  <2>1. Len(e) \in Nat /\ Len(e) >= 5 /\ Len(e) - 5 < 256 * 256 /\ SubSeq(e, 2, 5) = PutUint32(Len(e) - 5)
    BY <1>2 DEF IsMessage
  <2>2. SubSeq(e, 2, 5)[1] = e[2] /\ SubSeq(e, 2, 5)[2] = e[3]
    BY <2>1
  <2>3. PutUint32(Len(e) - 5)[1] = 0 /\ PutUint32(Len(e) - 5)[2] = 0
    BY <2>1 DEF PutUint32
  <2>4. e[1] # 0 /\ \A k \in 6 .. Len(e) : e[k] # 0
    BY <1>2 DEF IsMessage, Text
  <2> QED
    BY <1>2, <2>1, <2>2, <2>3, <2>4
<1> QED
  BY <1>1, <1>2

\* What EncodeMessage writes.
LEMMA EncodedMessage ==
    ASSUME NEW type \in Bytes, NEW payload \in Seq(Bytes)
    PROVE  /\ EncodeMessage(type, payload) \in Seq(Bytes)
           /\ Len(EncodeMessage(type, payload)) = 5 + Len(payload)
           /\ EncodeMessage(type, payload)[1] = type
           /\ \A i \in 1 .. 4 : EncodeMessage(type, payload)[1 + i] = PutUint32(Len(payload))[i]
           /\ \A i \in 1 .. Len(payload) : EncodeMessage(type, payload)[5 + i] = payload[i]
<1> DEFINE len == PutUint32(Len(payload))
           head == <<type>> \o len
<1>1. len \in Seq(Bytes) /\ Len(len) = 4
  <2> DEFINE byte(k) == (Len(payload) \div k) % 256
  <2>1. Len(payload) \in Nat
    OBVIOUS
  <2>2. /\ byte(256 * 256 * 256) \in Bytes /\ byte(256 * 256) \in Bytes /\ byte(256) \in Bytes
        /\ Len(payload) % 256 \in Bytes
    BY <2>1, ByteIs
  <2>3. len = <<byte(256 * 256 * 256), byte(256 * 256), byte(256), Len(payload) % 256>>
    BY DEF PutUint32
  <2> HIDE DEF byte
  <2> QED
    BY <2>2, <2>3
<1>2. <<type>> \in Seq(Bytes) /\ Len(<<type>>) = 1 /\ <<type>>[1] = type
  OBVIOUS
<1> HIDE DEF len
<1>3. /\ head \in Seq(Bytes) /\ Len(head) = 5
      /\ head[1] = type /\ \A i \in 1 .. 4 : head[1 + i] = len[i]
  <2>1. /\ head \in Seq(Bytes) /\ Len(head) = Len(<<type>>) + Len(len)
        /\ \A i \in 1 .. Len(<<type>>) : head[i] = <<type>>[i]
        /\ \A i \in 1 .. Len(len) : head[Len(<<type>>) + i] = len[i]
    BY <1>1, <1>2, Concat, Zenon
  <2> QED
    BY <1>1, <1>2, <2>1
<1>4. EncodeMessage(type, payload) = head \o payload
  BY DEF EncodeMessage, len
<1> HIDE DEF head
<1>5. /\ head \o payload \in Seq(Bytes) /\ Len(head \o payload) = 5 + Len(payload)
      /\ \A i \in 1 .. 5 : (head \o payload)[i] = head[i]
      /\ \A i \in 1 .. Len(payload) : (head \o payload)[5 + i] = payload[i]
  <2>1. /\ head \o payload \in Seq(Bytes) /\ Len(head \o payload) = Len(head) + Len(payload)
        /\ \A i \in 1 .. Len(head) : (head \o payload)[i] = head[i]
        /\ \A i \in 1 .. Len(payload) : (head \o payload)[Len(head) + i] = payload[i]
    BY <1>3, Concat, Zenon
  <2> QED
    BY <1>3, <2>1
<1> QED
  BY <1>3, <1>4, <1>5 DEF len

\* DecodeMessage takes back from a buffer the message that EncodeMessage wrote to
\* its front, whatever follows, and from a piece of it cut off at the end nothing.
THEOREM FramingRoundTrip ==
    ASSUME NEW type \in Bytes, NEW payload \in Seq(Bytes), Len(payload) < 256 * 256 * 256 * 256,
           NEW data \in Seq(Bytes)
    PROVE  LET msg == EncodeMessage(type, payload)
           IN /\ (Len(data) >= Len(msg) /\ \A i \in 1 .. Len(msg) : data[i] = msg[i])
                   => DecodeMessage(data) = Message(type, payload)
              /\ (Len(data) < Len(msg) /\ \A i \in 1 .. Len(data) : data[i] = msg[i])
                   => DecodeMessage(data) = Invalid
<1> DEFINE msg == EncodeMessage(type, payload)
           len == PutUint32(Len(payload))
<1>1. /\ msg \in Seq(Bytes) /\ Len(msg) = 5 + Len(payload) /\ msg[1] = type
      /\ \A i \in 1 .. 4 : msg[1 + i] = len[i]
      /\ \A i \in 1 .. Len(payload) : msg[5 + i] = payload[i]
  BY EncodedMessage
<1>2. Len(payload) \in Nat
  OBVIOUS
<1> HIDE DEF msg
<1>3. ASSUME Len(data) >= 5, \A i \in 1 .. 5 : data[i] = msg[i]
      PROVE  Uint32(SubSeq(data, 2, 5)) = Len(payload)
  <2>1. \A i \in 1 .. 4 : SubSeq(data, 2, 5)[i] = len[i]
    BY <1>1, <1>3
  <2>2. Uint32(SubSeq(data, 2, 5)) = Uint32(len)
    BY <2>1 DEF Uint32
  <2> QED
    BY <2>2, <1>2, Uint32RoundTrip
<1>4. ASSUME Len(data) >= Len(msg), \A i \in 1 .. Len(msg) : data[i] = msg[i]
      PROVE  DecodeMessage(data) = Message(type, payload)
  <2>1. Uint32(SubSeq(data, 2, 5)) = Len(payload)
    BY <1>1, <1>3, <1>4
  <2>2. SubSeq(data, 6, 5 + Len(payload)) = payload
    <3> DEFINE got == SubSeq(data, 6, 5 + Len(payload))
    <3>1. /\ got \in Seq(Bytes) /\ Len(got) = Len(payload)
          /\ \A i \in 1 .. Len(payload) : got[i] = data[5 + i]
      BY <1>1, <1>2, <1>4
    <3>2. \A i \in 1 .. Len(payload) : data[5 + i] = payload[i]
      BY <1>1, <1>2, <1>4
    <3> HIDE DEF got
    <3>3. got = payload
      BY <3>1, <3>2, SameElements, Zenon
    <3> QED
      BY <3>3 DEF got
  <2>3. ~(Len(data) < 5) /\ ~(Len(data) < 5 + Len(payload)) /\ data[1] = type
    BY <1>1, <1>2, <1>4
  <2> QED
    BY <2>1, <2>2, <2>3, Zenon DEF DecodeMessage
<1>5. ASSUME Len(data) < Len(msg), \A i \in 1 .. Len(data) : data[i] = msg[i]
      PROVE  DecodeMessage(data) = Invalid
  <2>1. CASE Len(data) < 5
    BY <2>1 DEF DecodeMessage
  <2>2. CASE Len(data) >= 5
    <3>1. Uint32(SubSeq(data, 2, 5)) = Len(payload)
      BY <1>3, <1>5, <2>2
    <3> QED
      BY <1>1, <1>5, <2>2, <3>1 DEF DecodeMessage
  <2> QED
    BY <2>1, <2>2
<1> QED
  BY <1>4, <1>5 DEF msg

(***************************************************************************)
(* The stream of one client                                                *)
(***************************************************************************)

\* e is at o + 1 .. o + Len(e) of w.
Holds(w, o, e) == \A k \in 1 .. Len(e) : w[o + k] = e[k]

\* A byte of an element, where it is in the stream.
LEMMA HoldsAt ==
    ASSUME NEW w, NEW o, NEW e, Holds(w, o, e), NEW k \in 1 .. Len(e)
    PROVE  w[o + k] = e[k]
  BY DEF Holds

\* What the first n elements of s make when they are written one after the other:
\* element i is at b[i] + 1 .. b[i + 1] of w.
Covers(w, s, n, b) ==
    /\ b \in [1 .. n + 1 -> Nat]
    /\ b[1] = 0 /\ b[n + 1] = Len(w)
    /\ \A i \in 1 .. n : b[i + 1] = b[i] + Len(s[i])
    /\ \A i \in 1 .. n : Holds(w, b[i], s[i])
    /\ \A i, j \in 1 .. n + 1 : i < j => b[i] < b[j]
    /\ \A p \in 1 .. Len(w) : \E i \in 1 .. n : b[i] < p /\ p <= b[i + 1]

\* Where element i is in the stream.
LEMMA CoveredElement ==
    ASSUME NEW w \in Seq(Bytes), NEW s \in Script, NEW n \in 0 .. Len(s), NEW b,
           Covers(w, s, n, b), NEW i \in 1 .. n
    PROVE  /\ b[i] \in Nat /\ b[i + 1] \in Nat /\ b[i + 1] = b[i] + Len(s[i]) /\ b[i + 1] <= Len(w)
           /\ Holds(w, b[i], s[i])
           /\ s[i] \in Seq(Bytes) /\ Len(s[i]) \in Nat /\ Len(s[i]) >= 1
           /\ IsLine(s[i]) \/ IsMessage(s[i])
<1>1. n \in Nat /\ i \in 1 .. Len(s) /\ i \in 1 .. n + 1 /\ i + 1 \in 1 .. n + 1 /\ n + 1 \in 1 .. n + 1
  BY DEF Script
<1>2. b[i] \in Nat /\ b[i + 1] \in Nat /\ b[i + 1] = b[i] + Len(s[i])
  BY <1>1 DEF Covers
<1>3. Holds(w, b[i], s[i])
  BY DEF Covers
<1>4. b[i + 1] <= Len(w)
  <2>1. CASE i + 1 = n + 1
    BY <1>1, <2>1 DEF Covers
  <2>2. CASE i + 1 < n + 1
    <3>1. b[i + 1] < b[n + 1] /\ b[n + 1] = Len(w)
      BY <1>1, <2>2 DEF Covers
    <3> QED
      BY <3>1, <1>2
  <2> QED
    BY <1>1, <2>1, <2>2
<1> QED
  BY <1>1, <1>2, <1>3, <1>4, ScriptElement

\* A zero at q with another one behind it and none in front of it is the second byte
\* of the element it is in.
LEMMA ZeroPair ==
    ASSUME NEW w \in Seq(Bytes), NEW e \in Seq(Bytes), IsLine(e) \/ IsMessage(e),
           NEW o \in Nat, Holds(w, o, e),
           NEW q \in Nat, o < q, q <= o + Len(e),
           w[q - 1] # 0, w[q] = 0, w[q + 1] = 0, q # o + Len(e)
    PROVE  IsMessage(e) /\ q = o + 2
<1> DEFINE k == q - o
<1>1. Len(e) \in Nat /\ k \in 1 .. Len(e) /\ k + 1 \in 1 .. Len(e) /\ o + k = q /\ o + (k + 1) = q + 1
  OBVIOUS
<1>2. e[k] = 0 /\ e[k + 1] = 0
  <2>1. w[o + k] = e[k] /\ w[o + (k + 1)] = e[k + 1]
    <3> HIDE DEF k
    <3> QED
      BY <1>1, HoldsAt
  <2> QED
    BY <1>1, <2>1
<1>3. IsMessage(e) /\ k \in 2 .. 5 /\ k + 1 \in 2 .. 5 /\ Len(e) >= 5 /\ e[2] = 0 /\ e[3] = 0
  BY <1>1, <1>2, ZeroInHeader, SMTT(20)
<1>4. w[o + 2] = 0 /\ w[o + 3] = 0
  <2>1. 2 \in 1 .. Len(e) /\ 3 \in 1 .. Len(e)
    BY <1>1, <1>3
  <2> QED
    BY <1>3, <2>1, HoldsAt
<1>5. k # 3
  BY <1>1, <1>4
<1>6. k # 4
  BY <1>1, <1>4
<1> QED
  BY <1>1, <1>3, <1>5, <1>6

\* A byte that is not 0 followed by two that are is where a message starts.
LEMMA FrameStart ==
    ASSUME NEW w \in Seq(Bytes), NEW s \in Script, NEW n \in 0 .. Len(s), NEW b,
           Covers(w, s, n, b),
           NEW p \in 1 .. Len(w) - 2, w[p] # 0, w[p + 1] = 0, w[p + 2] = 0
    PROVE  \E i \in 1 .. n : p = b[i] + 1 /\ IsMessage(s[i])
<1>1. Len(w) \in Nat /\ Len(s) \in Nat /\ n \in Nat /\ p + 1 \in 1 .. Len(w) /\ p \in Nat
  BY DEF Script
<1>2. PICK i \in 1 .. n : b[i] < p + 1 /\ p + 1 <= b[i + 1]
  BY <1>1, Zenon DEF Covers
<1> DEFINE e == s[i]
           o == b[i]
           q == p + 1
<1>3. /\ o \in Nat /\ b[i + 1] = o + Len(e) /\ b[i + 1] <= Len(w)
      /\ Holds(w, o, e)
      /\ e \in Seq(Bytes) /\ Len(e) \in Nat
      /\ IsLine(e) \/ IsMessage(e)
  BY CoveredElement
<1>4. q \in Nat /\ o < q /\ q <= o + Len(e)
  BY <1>1, <1>2, <1>3
<1>5. q # o + Len(e)
  <2> SUFFICES ASSUME p + 1 = b[i + 1] PROVE FALSE
    BY <1>3
  <2>1. i # n
    BY <1>1 DEF Covers
  <2>2. i + 1 \in 1 .. n
    BY <1>1, <2>1
  <2> DEFINE j == i + 1
  <2>3. j \in 1 .. n
    BY <2>2
  <2> HIDE DEF j
  <2>4. Len(s[j]) \in Nat /\ Len(s[j]) >= 1 /\ s[j] \in Seq(Bytes) /\ (IsLine(s[j]) \/ IsMessage(s[j]))
        /\ Holds(w, b[j], s[j])
    BY <2>3, CoveredElement
  <2>5. w[b[j] + 1] = s[j][1]
    BY <2>4, HoldsAt
  <2>6. s[j][1] # 0
    BY <2>4, ZeroInHeader
  <2>7. b[j] + 1 = p + 2
    BY <1>1 DEF j
  <2> QED
    BY <2>5, <2>6, <2>7
<1>6. w[q - 1] # 0 /\ w[q] = 0 /\ w[q + 1] = 0
  <2>1. q - 1 = p /\ q + 1 = p + 2
    BY <1>1
  <2> QED
    BY <2>1
<1> HIDE DEF e, o, q
<1>7. IsMessage(e) /\ q = o + 2
  BY <1>3, <1>4, <1>5, <1>6, ZeroPair, Zenon
<1>8. p = b[i] + 1
  BY <1>1, <1>3, <1>7, SMTT(20) DEF o, q
<1> QED
  BY <1>7, <1>8 DEF e

\* A buffer read at r that is taken for a message holds a message of the client that
\* starts there, and all of it.
LEMMA ReadAtFrame ==
    ASSUME NEW w \in Seq(Bytes), NEW s \in Script, NEW n \in 0 .. Len(s), NEW b,
           Covers(w, s, n, b),
           NEW r \in 0 .. Len(w), NEW data \in Seq(Bytes), Len(data) <= BufSize,
           r + Len(data) <= Len(w),
           Holds(w, r, data),
           DecodeMessage(data).ok, data[1] # 0
    PROVE  \E i \in 1 .. n : /\ b[i] = r /\ b[i + 1] <= r + Len(data)
                             /\ DecodeMessage(s[i]) = DecodeMessage(data)
<1> DEFINE len == Uint32(SubSeq(data, 2, 5))
<1>1. /\ Len(data) >= 5 /\ data[2] = 0 /\ data[3] = 0 /\ Len(data) >= 5 + len
      /\ DecodeMessage(data) = Message(data[1], SubSeq(data, 6, 5 + len))
  BY DecodedHeader
<1>2. r + 1 \in 1 .. Len(w) - 2 /\ w[r + 1] # 0 /\ w[r + 1 + 1] = 0 /\ w[r + 1 + 2] = 0
  <2>1. Len(data) \in Nat /\ 1 \in 1 .. Len(data) /\ 2 \in 1 .. Len(data) /\ 3 \in 1 .. Len(data)
    BY <1>1
  <2>2. w[r + 1] = data[1] /\ w[r + 2] = data[2] /\ w[r + 3] = data[3]
    BY <2>1, HoldsAt
  <2>3. r + 1 + 1 = r + 2 /\ r + 1 + 2 = r + 3 /\ r + 1 \in 1 .. Len(w) - 2
    BY <1>1, <2>1
  <2> QED
    BY <1>1, <2>2, <2>3
<1>3. PICK i \in 1 .. n : r + 1 = b[i] + 1 /\ IsMessage(s[i])
  <2> DEFINE p == r + 1
  <2>1. p \in 1 .. Len(w) - 2 /\ w[p] # 0 /\ w[p + 1] = 0 /\ w[p + 2] = 0
    BY <1>2
  <2> HIDE DEF p
  <2>2. \E i \in 1 .. n : p = b[i] + 1 /\ IsMessage(s[i])
    BY <2>1, FrameStart
  <2> QED
    BY <2>2 DEF p
<1> DEFINE e == s[i]
<1>4. b[i] = r /\ b[i + 1] = r + Len(e) /\ Holds(w, r, e) /\ e \in Seq(Bytes) /\ Len(e) \in Nat
  <2>1. /\ b[i] \in Nat /\ b[i + 1] = b[i] + Len(s[i]) /\ Holds(w, b[i], s[i])
        /\ s[i] \in Seq(Bytes) /\ Len(s[i]) \in Nat
    BY CoveredElement
  <2>2. b[i] = r
    BY <2>1, <1>3, SMTT(20)
  <2> QED
    BY <2>1, <2>2
<1>5. IsMessage(e)
  BY <1>3
<1> HIDE DEF e
<1>6. /\ Len(e) >= 5 /\ Uint32(SubSeq(e, 2, 5)) = Len(e) - 5
      /\ DecodeMessage(e) = Message(e[1], SubSeq(e, 6, Len(e)))
  <2>1. Len(e) >= 5
    BY <1>5 DEF IsMessage
  <2> QED
    BY <1>4, <1>5, <2>1, WholeMessage
<1>7. \A k \in 1 .. Len(e) : k <= Len(data) => data[k] = e[k]
  <2> SUFFICES ASSUME NEW k \in 1 .. Len(e), k <= Len(data) PROVE data[k] = e[k]
    OBVIOUS
  <2>1. k \in 1 .. Len(data)
    BY <1>4
  <2>2. w[r + k] = data[k]
    BY <2>1, HoldsAt
  <2>3. w[r + k] = e[k]
    BY <1>4, HoldsAt, SMTT(20)
  <2> QED
    BY <2>2, <2>3
<1>8. len = Len(e) - 5
  <2>1. Len(data) \in Nat /\ \A k \in 1 .. 5 : k \in 1 .. Len(e) /\ k <= Len(data)
    BY <1>1, <1>4, <1>6, SMTT(20)
  <2>2. \A k \in 1 .. 5 : data[k] = e[k]
    BY <1>7, <2>1
  <2>3. data[2] = e[2] /\ data[3] = e[3] /\ data[4] = e[4] /\ data[5] = e[5]
    BY <2>2
  <2> DEFINE x == SubSeq(data, 2, 5)
             y == SubSeq(e, 2, 5)
  <2>4. x[1] = data[2] /\ x[2] = data[3] /\ x[3] = data[4] /\ x[4] = data[5]
    BY <1>1, LengthBytes
  <2>5. y[1] = e[2] /\ y[2] = e[3] /\ y[3] = e[4] /\ y[4] = e[5]
    BY <1>4, <1>6, LengthBytes
  <2> HIDE DEF x, y
  <2>6. Uint32(x) = Uint32(y)
    BY <2>3, <2>4, <2>5 DEF Uint32
  <2> QED
    BY <1>6, <2>6 DEF x, y
<1> HIDE DEF len
<1>9. Len(e) <= Len(data) /\ 5 + len = Len(e)
  BY <1>1, <1>4, <1>6, <1>8
<1>10. data[1] = e[1]
  BY <1>4, <1>6, <1>7, <1>9
<1>11. SubSeq(data, 6, Len(e)) = SubSeq(e, 6, Len(e))
  <2> DEFINE m == Len(e)
             x == SubSeq(data, 6, m)
             y == SubSeq(e, 6, m)
  <2>0. m \in Nat /\ m >= 5 /\ m <= Len(e) /\ m <= Len(data)
    BY <1>4, <1>6, <1>9
  <2> HIDE DEF m
  <2>1. x \in Seq(Bytes) /\ Len(x) = m - 5 /\ \A k \in 1 .. m - 5 : x[k] = data[5 + k]
    BY <2>0, PayloadBytes
  <2>2. y \in Seq(Bytes) /\ Len(y) = m - 5 /\ \A k \in 1 .. m - 5 : y[k] = e[5 + k]
    BY <1>4, <2>0, PayloadBytes
  <2>3. \A k \in 1 .. m - 5 : x[k] = y[k]
    BY <1>4, <1>7, <2>0, <2>1, <2>2, SMTT(20)
  <2> HIDE DEF x, y
  <2>4. x = y
    BY <2>1, <2>2, <2>3, SameElements
  <2> QED
    BY <2>4 DEF x, y, m
<1>12. DecodeMessage(e) = DecodeMessage(data)
  BY <1>1, <1>6, <1>9, <1>10, <1>11, Zenon
<1> QED
  BY <1>4, <1>9, <1>12 DEF e

\* One more element is written.
LEMMA CoversNext ==
    ASSUME NEW w \in Seq(Bytes), NEW s \in Script, NEW n \in 0 .. Len(s) - 1, NEW b,
           Covers(w, s, n, b)
    PROVE  LET next == [i \in 1 .. n + 2 |-> IF i = n + 2 THEN Len(w) + Len(s[n + 1]) ELSE b[i]]
           IN Covers(w \o s[n + 1], s, n + 1, next)
<1> DEFINE e == s[n + 1]
           c == [i \in 1 .. n + 2 |-> IF i = n + 2 THEN Len(w) + Len(e) ELSE b[i]]
           v == w \o e
<1>1. /\ n \in Nat /\ Len(w) \in Nat
      /\ \A i \in 1 .. n + 1 : s[i] \in Seq(Bytes) /\ Len(s[i]) \in Nat /\ (IsLine(s[i]) \/ IsMessage(s[i]))
  BY DEF Script
<1>2. e \in Seq(Bytes) /\ Len(e) \in Nat /\ Len(e) >= 1
  BY <1>1, ZeroInHeader
<1>3. /\ v \in Seq(Bytes) /\ Len(v) = Len(w) + Len(e)
      /\ \A i \in 1 .. Len(w) : v[i] = w[i]
      /\ \A i \in 1 .. Len(e) : v[Len(w) + i] = e[i]
  BY <1>2, Concat
<1>4. /\ b \in [1 .. n + 1 -> Nat] /\ b[1] = 0 /\ b[n + 1] = Len(w)
      /\ \A i \in 1 .. n : b[i + 1] = b[i] + Len(s[i])
      /\ \A i \in 1 .. n : Holds(w, b[i], s[i])
      /\ \A i, j \in 1 .. n + 1 : i < j => b[i] < b[j]
      /\ \A p \in 1 .. Len(w) : \E i \in 1 .. n : b[i] < p /\ p <= b[i + 1]
  BY DEF Covers
<1>5. \A i \in 1 .. n + 1 : b[i] \in Nat /\ b[i] <= Len(w)
  <2> TAKE i \in 1 .. n + 1
  <2>1. CASE i = n + 1
    BY <1>1, <1>4, <2>1
  <2>2. CASE i < n + 1
    BY <1>1, <1>4, <2>2
  <2> QED
    BY <1>1, <2>1, <2>2
<1>6. /\ c[n + 2] = Len(w) + Len(e)
      /\ \A i \in 1 .. n + 1 : c[i] = b[i]
  BY <1>1
<1>7. c \in [1 .. n + 2 -> Nat]
  BY <1>1, <1>2, <1>5
<1> HIDE DEF c, v
<1>8. \A i \in 1 .. n + 1 : c[i + 1] = c[i] + Len(s[i])
  <2> TAKE i \in 1 .. n + 1
  <2>1. CASE i = n + 1
    <3>1. i + 1 = n + 2 /\ c[i] = b[n + 1] /\ s[i] = e
      BY <1>1, <1>6, <2>1
    <3> QED
      BY <1>4, <1>6, <3>1
  <2>2. CASE i \in 1 .. n
    <3>1. i \in 1 .. n + 1 /\ i + 1 \in 1 .. n + 1
      BY <1>1, <2>2
    <3>2. c[i] = b[i] /\ c[i + 1] = b[i + 1]
      BY <1>6, <3>1
    <3>3. b[i + 1] = b[i] + Len(s[i])
      BY <1>4, <2>2
    <3> QED
      BY <3>2, <3>3
  <2> QED
    BY <1>1, <2>1, <2>2
<1>9. \A i \in 1 .. n + 1 : Holds(v, c[i], s[i])
  <2> TAKE i \in 1 .. n + 1
  <2>1. CASE i = n + 1
    <3>1. c[i] = Len(w) /\ s[i] = e
      BY <1>1, <1>4, <1>6, <2>1
    <3>2. Holds(v, Len(w), e)
      BY <1>3 DEF Holds
    <3> QED
      BY <3>1, <3>2
  <2>2. CASE i # n + 1
    <3>1. i \in 1 .. n /\ n \in 0 .. Len(s)
      BY <1>1, <2>2
    <3> DEFINE o == b[i]
               d == s[i]
    <3>2. o \in Nat /\ Len(d) \in Nat /\ o + Len(d) <= Len(w) /\ Holds(w, o, d) /\ c[i] = o
      <4>1. /\ b[i] \in Nat /\ b[i + 1] = b[i] + Len(s[i]) /\ b[i + 1] <= Len(w)
            /\ Holds(w, b[i], s[i]) /\ Len(s[i]) \in Nat
        BY <3>1, CoveredElement
      <4> QED
        BY <1>6, <4>1
    <3> HIDE DEF o, d
    <3>3. ASSUME NEW k \in 1 .. Len(d) PROVE v[o + k] = d[k]
      <4>1. o + k \in 1 .. Len(w) /\ w[o + k] = d[k]
        BY <1>1, <3>2, HoldsAt
      <4> QED
        BY <1>3, <4>1
    <3>4. Holds(v, o, d)
      BY <3>3 DEF Holds
    <3> QED
      BY <3>2, <3>4 DEF o, d
  <2> QED
    BY <2>1, <2>2
<1>10. \A i, j \in 1 .. n + 2 : i < j => c[i] < c[j]
  <2> SUFFICES ASSUME NEW i \in 1 .. n + 2, NEW j \in 1 .. n + 2, i < j PROVE c[i] < c[j]
    OBVIOUS
  <2>1. i \in 1 .. n + 1 /\ c[i] = b[i]
    BY <1>1, <1>6
  <2>2. CASE j = n + 2
    BY <1>1, <1>2, <1>5, <1>6, <2>1, <2>2, SMTT(20)
  <2>3. CASE j # n + 2
    <3>1. j \in 1 .. n + 1
      BY <1>1, <2>3
    <3>2. c[j] = b[j]
      BY <1>6, <3>1
    <3>3. b[i] < b[j]
      BY <1>4, <2>1, <3>1
    <3> QED
      BY <2>1, <3>2, <3>3
  <2> QED
    BY <2>2, <2>3
<1>11. \A p \in 1 .. Len(v) : \E i \in 1 .. n + 1 : c[i] < p /\ p <= c[i + 1]
  <2> TAKE p \in 1 .. Len(v)
  <2>1. CASE p <= Len(w)
    <3>1. PICK i \in 1 .. n : b[i] < p /\ p <= b[i + 1]
      BY <1>1, <1>4, <2>1
    <3>2. i \in 1 .. n + 1 /\ c[i] = b[i] /\ c[i + 1] = b[i + 1]
      BY <1>1, <1>6
    <3> QED
      BY <3>1, <3>2
  <2>2. CASE p > Len(w)
    <3>1. n + 1 \in 1 .. n + 1 /\ c[n + 1] = Len(w) /\ c[n + 1 + 1] = Len(v)
      BY <1>1, <1>3, <1>4, <1>6
    <3>2. c[n + 1] < p /\ p <= c[n + 1 + 1]
      BY <2>2, <3>1
    <3> QED
      BY <3>1, <3>2
  <2>3. p <= Len(w) \/ p > Len(w)
    BY <1>1, <1>3
  <2> QED
    BY <2>1, <2>2, <2>3
<1>12. c[1] = 0 /\ c[n + 1 + 1] = Len(v) /\ c \in [1 .. n + 1 + 1 -> Nat]
  <2>1. n + 1 + 1 = n + 2 /\ 1 \in 1 .. n + 1
    BY <1>1
  <2> QED
    BY <1>3, <1>4, <1>6, <1>7, <2>1
<1>13. \A i, j \in 1 .. n + 1 + 1 : i < j => c[i] < c[j]
  BY <1>1, <1>10
<1>14. Covers(v, s, n + 1, c)
  BY <1>8, <1>9, <1>11, <1>12, <1>13 DEF Covers
<1> QED
  BY <1>14 DEF c, v

(***************************************************************************)
(* What has been read of the stream                                        *)
(***************************************************************************)

\* u is the end of w.
EndOf(w, u) == Len(u) <= Len(w) /\ Holds(w, Len(w) - Len(u), u)

\* The messages a are whole elements of s, in order, element f[j] the j-th of them,
\* all within the first o bytes.
Placed(a, s, n, o, b, f) ==
    /\ f \in [DOMAIN a -> 1 .. n]
    /\ \A j \in DOMAIN f : DecodeMessage(s[f[j]]) = Message(a[j][1], a[j][2]) /\ b[f[j] + 1] <= o
    /\ \A j, k \in DOMAIN f : j < k => f[j] < f[k]

PlacedBy(a, s, n, o, b) == \E f : Placed(a, s, n, o, b, f)
FramedIn(w, s, n, o, a) == \E b : Covers(w, s, n, b) /\ PlacedBy(a, s, n, o, b)

\* b rises from element to element.
Rising(n, b) == b \in [1 .. n + 1 -> Nat] /\ \A x, y \in 1 .. n + 1 : x < y => b[x] < b[y]

\* What is left after a read is the end of what was sent.
LEMMA EndShrinks ==
    ASSUME NEW w \in Seq(Bytes), NEW u \in Seq(Bytes), EndOf(w, u), NEW m \in 0 .. Len(u),
           NEW v \in Seq(Bytes), Len(v) = Len(u) - m, \A k \in 1 .. Len(u) - m : v[k] = u[m + k]
    PROVE  EndOf(w, v) /\ Len(w) - Len(u) + m = Len(w) - Len(v)
<1> DEFINE o == Len(w) - Len(u)
<1>1. Len(w) \in Nat /\ Len(u) \in Nat /\ Len(v) \in Nat /\ Len(u) <= Len(w) /\ Holds(w, o, u)
  BY DEF EndOf
<1>2. ASSUME NEW k \in 1 .. Len(v) PROVE w[Len(w) - Len(v) + k] = v[k]
  <2>1. m + k \in 1 .. Len(u) /\ k \in 1 .. Len(u) - m /\ Len(w) - Len(v) + k = o + (m + k)
    BY <1>1
  <2>2. w[o + (m + k)] = u[m + k]
    BY <1>1, <2>1, HoldsAt
  <2> QED
    BY <2>1, <2>2
<1> QED
  BY <1>1, <1>2 DEF EndOf, Holds

\* What is written is at the end of the stream and of what waits to be read.
LEMMA EndGrows ==
    ASSUME NEW w \in Seq(Bytes), NEW u \in Seq(Bytes), EndOf(w, u), NEW e \in Seq(Bytes)
    PROVE  EndOf(w \o e, u \o e) /\ Len(w \o e) - Len(u \o e) = Len(w) - Len(u)
<1> DEFINE o == Len(w) - Len(u)
           x == w \o e
           y == u \o e
<1>1. Len(w) \in Nat /\ Len(u) \in Nat /\ Len(e) \in Nat /\ Len(u) <= Len(w) /\ Holds(w, o, u)
  BY DEF EndOf
<1>2. /\ Len(x) = Len(w) + Len(e) /\ \A i \in 1 .. Len(w) : x[i] = w[i]
      /\ \A i \in 1 .. Len(e) : x[Len(w) + i] = e[i]
  BY Concat
<1>3. /\ Len(y) = Len(u) + Len(e) /\ \A i \in 1 .. Len(u) : y[i] = u[i]
      /\ \A i \in 1 .. Len(e) : y[Len(u) + i] = e[i]
  BY Concat
<1> HIDE DEF x, y
<1>4. ASSUME NEW k \in 1 .. Len(y) PROVE x[o + k] = y[k]
  <2>1. CASE k \in 1 .. Len(u)
    <3>1. o + k \in 1 .. Len(w)
      BY <1>1, <2>1
    <3>2. w[o + k] = u[k]
      BY <1>1, <2>1, HoldsAt
    <3> QED
      BY <1>2, <1>3, <2>1, <3>1, <3>2, Zenon
  <2>2. CASE k > Len(u)
    <3> DEFINE i == k - Len(u)
    <3>1. i \in 1 .. Len(e) /\ k = Len(u) + i /\ o + k = Len(w) + i
      BY <1>1, <1>3, <2>2
    <3> HIDE DEF i
    <3> QED
      BY <1>2, <1>3, <3>1
  <2> QED
    BY <1>1, <1>3, <2>1, <2>2
<1>5. Len(x) - Len(y) = o /\ Len(y) <= Len(x)
  BY <1>1, <1>2, <1>3
<1>6. EndOf(x, y)
  BY <1>4, <1>5, Zenon DEF EndOf, Holds
<1> QED
  BY <1>5, <1>6 DEF x, y

\* Reading on leaves the messages handled where they are.
LEMMA FramedLater ==
    ASSUME NEW w, NEW s, NEW n \in Nat, NEW a, NEW o \in Int, NEW p \in Int, o <= p,
           FramedIn(w, s, n, o, a)
    PROVE  FramedIn(w, s, n, p, a)
<1>1. PICK b, f : Covers(w, s, n, b) /\ Placed(a, s, n, o, b, f)
  BY Zenon DEF FramedIn, PlacedBy
<1>2. ASSUME NEW j \in DOMAIN f PROVE b[f[j] + 1] <= p
  <2>1. f[j] \in 1 .. n /\ b[f[j] + 1] <= o
    BY <1>1 DEF Placed
  <2>2. b[f[j] + 1] \in Nat
    BY <1>1, <2>1 DEF Covers
  <2> QED
    BY <2>1, <2>2
<1>3. Placed(a, s, n, p, b, f)
  BY <1>1, <1>2 DEF Placed
<1> QED
  BY <1>1, <1>3, Zenon DEF FramedIn, PlacedBy

\* Writing an element leaves the messages handled where they are.
LEMMA FramedSent ==
    ASSUME NEW w \in Seq(Bytes), NEW s \in Script, NEW n \in 0 .. Len(s) - 1, NEW a, NEW o \in Int,
           FramedIn(w, s, n, o, a)
    PROVE  FramedIn(w \o s[n + 1], s, n + 1, o, a)
<1>1. PICK b, f : Covers(w, s, n, b) /\ Placed(a, s, n, o, b, f)
  BY Zenon DEF FramedIn, PlacedBy
<1>2. PICK next : next = [i \in 1 .. n + 2 |-> IF i = n + 2 THEN Len(w) + Len(s[n + 1]) ELSE b[i]]
  BY Zenon
<1>3. Covers(w \o s[n + 1], s, n + 1, next)
  BY <1>1, <1>2, CoversNext, Zenon
<1>4. n \in Nat
  BY DEF Script
<1>5. /\ f \in [DOMAIN a -> 1 .. n] /\ \A j, k \in DOMAIN f : j < k => f[j] < f[k]
      /\ \A j \in DOMAIN f : DecodeMessage(s[f[j]]) = Message(a[j][1], a[j][2]) /\ b[f[j] + 1] <= o
  BY <1>1, Zenon DEF Placed
<1>6. ASSUME NEW j \in DOMAIN f PROVE next[f[j] + 1] <= o
  <2>1. f[j] \in 1 .. n /\ b[f[j] + 1] <= o
    BY <1>5
  <2>2. f[j] + 1 \in 1 .. n + 2 /\ f[j] + 1 # n + 2
    BY <1>4, <2>1
  <2>3. next[f[j] + 1] = b[f[j] + 1]
    BY <1>2, <2>2
  <2> QED
    BY <2>1, <2>3
<1>7. f \in [DOMAIN a -> 1 .. n + 1]
  BY <1>4, <1>5
<1>8. Placed(a, s, n + 1, o, next, f)
  BY <1>5, <1>6, <1>7, Zenon DEF Placed
<1> QED
  BY <1>3, <1>8, Zenon DEF FramedIn, PlacedBy

\* An element that ends before element i begins is an earlier one.
LEMMA EarlierElement ==
    ASSUME NEW n \in Nat, NEW b \in [1 .. n + 1 -> Nat], NEW i \in 1 .. n, NEW k \in 1 .. n, NEW p \in Int,
           \A x, y \in 1 .. n + 1 : x < y => b[x] < b[y], b[k + 1] <= b[i], b[i] <= p
    PROVE  k < i /\ b[k + 1] <= p
<1>1. k + 1 \in 1 .. n + 1 /\ i \in 1 .. n + 1 /\ b[k + 1] \in Nat /\ b[i] \in Nat
  OBVIOUS
<1>2. ~(i < k + 1)
  BY <1>1
<1> QED
  BY <1>1, <1>2

\* An index that is not the last one.
LEMMA BelowLast ==
    ASSUME NEW l \in Nat, NEW j \in 1 .. l + 1, j # l + 1
    PROVE  j \in 1 .. l
  OBVIOUS

\* The next message handled is put behind the ones handled before.
LEMMA PlacedNext ==
    ASSUME NEW s, NEW n \in Nat, NEW b, NEW o \in Int, NEW p \in Int,
           NEW a \in Seq(Bytes \X Seq(Bytes)), NEW f, NEW i \in 1 .. n, NEW e \in Bytes \X Seq(Bytes),
           Rising(n, b), o <= p, Placed(a, s, n, o, b, f), b[i] = o, b[i + 1] <= p,
           DecodeMessage(s[i]) = Message(e[1], e[2])
    PROVE  PlacedBy(Append(a, e), s, n, p, b)
<1> DEFINE l == Len(a)
           c == Append(a, e)
<1>10. /\ l \in Nat /\ DOMAIN a = 1 .. l /\ DOMAIN c = 1 .. l + 1
       /\ c[l + 1] = e /\ \A j \in 1 .. l : c[j] = a[j]
  OBVIOUS
<1>11. b \in [1 .. n + 1 -> Nat] /\ \A x, y \in 1 .. n + 1 : x < y => b[x] < b[y]
  BY SMTT(20) DEF Rising
<1> HIDE DEF l, c
<1>1. PICK g : g = [j \in 1 .. l + 1 |-> IF j = l + 1 THEN i ELSE f[j]]
  BY Zenon
<1>2. DOMAIN f = 1 .. l /\ \A j \in 1 .. l : f[j] \in 1 .. n
  BY <1>10, Zenon DEF Placed
<1>0. /\ \A j \in 1 .. l : b[f[j] + 1] <= o
      /\ \A j \in 1 .. l : DecodeMessage(s[f[j]]) = Message(a[j][1], a[j][2])
      /\ \A j, k \in 1 .. l : j < k => f[j] < f[k]
  BY <1>2, <1>10, Zenon DEF Placed
<1>3. g[l + 1] = i /\ \A j \in 1 .. l : g[j] = f[j]
  BY <1>1, <1>10
<1>4. g \in [1 .. l + 1 -> 1 .. n]
  <2>1. ASSUME NEW j \in 1 .. l + 1 PROVE (IF j = l + 1 THEN i ELSE f[j]) \in 1 .. n
    <3>1. CASE j = l + 1
      BY <3>1, Zenon
    <3>2. CASE j # l + 1
      <4>1. j \in 1 .. l
        BY <3>2, <1>10, BelowLast, Zenon
      <4> QED
        BY <1>2, <3>2, <4>1, Zenon
    <3> QED
      BY <3>1, <3>2
  <2> QED
    BY <1>1, <2>1, Zenon
<1>5. ASSUME NEW j \in 1 .. l PROVE f[j] < i /\ b[f[j] + 1] <= p
  <2>1. f[j] \in 1 .. n /\ b[f[j] + 1] <= b[i] /\ b[i] <= p
    BY <1>0, <1>2, Zenon
  <2> QED
    BY <2>1, <1>11, EarlierElement, Zenon
<1>6. ASSUME NEW j \in 1 .. l + 1
      PROVE  DecodeMessage(s[g[j]]) = Message(c[j][1], c[j][2]) /\ b[g[j] + 1] <= p
  <2>1. CASE j = l + 1
    BY <1>3, <1>10, <2>1, Zenon
  <2>2. CASE j # l + 1
    <3>1. j \in 1 .. l
      BY <2>2, <1>10, BelowLast, Zenon
    <3> QED
      BY <1>0, <1>3, <1>5, <1>10, <3>1, Zenon
  <2> QED
    BY <2>1, <2>2
<1>7. ASSUME NEW j \in 1 .. l + 1, NEW k \in 1 .. l + 1, j < k PROVE g[j] < g[k]
  <2>1. j \in 1 .. l
    BY <1>7, <1>10
  <2>2. CASE k = l + 1
    BY <1>3, <1>5, <2>1, <2>2, Zenon
  <2>3. CASE k # l + 1
    <3>1. k \in 1 .. l
      BY <2>3, <1>10, BelowLast, Zenon
    <3> QED
      BY <1>0, <1>3, <1>7, <2>1, <3>1, Zenon
  <2> QED
    BY <2>2, <2>3
<1>8. DOMAIN g = 1 .. l + 1
  BY <1>1
<1>9. Placed(c, s, n, p, b, g)
  BY <1>4, <1>6, <1>7, <1>8, <1>10, Zenon DEF Placed
<1> QED
  BY <1>9, Zenon DEF c, PlacedBy

\* The front of u is data, from which a message is decoded that does not start with NUL.
Decodes(u, data, entry) ==
    /\ Len(data) <= Len(u) /\ Len(data) <= BufSize
    /\ \A k \in 1 .. Len(data) : data[k] = u[k]
    /\ data[1] # 0 /\ DecodeMessage(data).ok
    /\ DecodeMessage(data) = Message(entry[1], entry[2])

\* A message handled is the next whole one that starts where the handler has read to.
LEMMA FramedHandled ==
    ASSUME NEW w \in Seq(Bytes), NEW u \in Seq(Bytes), NEW s \in Script, NEW n \in 0 .. Len(s),
           NEW a \in Seq(Bytes \X Seq(Bytes)), EndOf(w, u), FramedIn(w, s, n, Len(w) - Len(u), a),
           NEW data \in Seq(Bytes), NEW entry \in Bytes \X Seq(Bytes), Decodes(u, data, entry)
    PROVE  FramedIn(w, s, n, Len(w) - Len(u) + Len(data), Append(a, entry))
<1> DEFINE o == Len(w) - Len(u)
           p == o + Len(data)
<1>0. /\ Len(data) <= Len(u) /\ Len(data) <= BufSize /\ \A k \in 1 .. Len(data) : data[k] = u[k]
      /\ data[1] # 0 /\ DecodeMessage(data).ok
      /\ DecodeMessage(data) = Message(entry[1], entry[2])
  BY Zenon DEF Decodes
<1>1. /\ Len(w) \in Nat /\ Len(u) \in Nat /\ Len(data) \in Nat /\ n \in Nat
      /\ Len(u) <= Len(w) /\ Holds(w, o, u)
  BY DEF EndOf, Script
<1>2. Holds(w, o, data)
  <2>1. ASSUME NEW k \in 1 .. Len(data) PROVE w[o + k] = data[k]
    <3>1. k \in 1 .. Len(u)
      BY <1>0, <1>1
    <3>2. w[o + k] = u[k]
      BY <1>1, <3>1, HoldsAt
    <3> QED
      BY <1>0, <3>2
  <2> QED
    BY <2>1 DEF Holds
<1>3. o \in 0 .. Len(w) /\ o + Len(data) <= Len(w) /\ o \in Int /\ p \in Int /\ o <= p
  BY <1>0, <1>1
<1> HIDE DEF o, p
<1>4. PICK b, f : Covers(w, s, n, b) /\ Placed(a, s, n, o, b, f)
  BY Zenon DEF FramedIn, PlacedBy, o
<1>5. PICK i \in 1 .. n : /\ b[i] = o /\ b[i + 1] <= o + Len(data)
                          /\ DecodeMessage(s[i]) = DecodeMessage(data)
  BY <1>0, <1>2, <1>3, <1>4, ReadAtFrame
<1>6. Rising(n, b)
  BY <1>4, Zenon DEF Covers, Rising
<1>7. DecodeMessage(s[i]) = Message(entry[1], entry[2]) /\ b[i + 1] <= p
  BY <1>0, <1>5, Zenon DEF p
<1>8. PlacedBy(Append(a, entry), s, n, p, b)
  BY <1>1, <1>3, <1>4, <1>5, <1>6, <1>7, PlacedNext, Zenon
<1> QED
  BY <1>4, <1>8, Zenon DEF p, o, FramedIn

(***************************************************************************)
(* The stream of bytes in the server                                       *)
(***************************************************************************)

\* The place in the stream up to which the handler has read.
Offset(c) == Len(client[c].wrote) - Len(up[c])

\* What has not been read is the end of what was sent.
Suffix(c) == EndOf(client[c].wrote, up[c])

\* The messages handled are whole elements of the script, in order, all before the
\* place up to which the handler has read.
Framed(c) == FramedIn(client[c].wrote, client[c].script, client[c].sent, Offset(c), acted[c])

\* The types of what a client has sent and of what its handler has still to read.
LEMMA StreamTypes ==
    ASSUME NEW c \in Clients, ClientType(c)
    PROVE  /\ client[c].wrote \in Seq(Bytes) /\ up[c] \in Seq(Bytes) /\ client[c].script \in Script
           /\ client[c].sent \in 0 .. Len(client[c].script)
           /\ acted[c] \in Seq(Bytes \X Seq(Bytes))
<1> DEFINE r == client[c]
<1>1. /\ r \in ClientRecord /\ r.sent <= Len(r.script)
      /\ up[c] \in Seq(Bytes) /\ acted[c] \in Seq(Bytes \X Seq(Bytes))
  BY DEF ClientType
<1> HIDE DEF r
<1>2. r.wrote \in Seq(Bytes) /\ r.script \in Script /\ r.sent \in Nat
  BY <1>1 DEF ClientRecord
<1>3. Len(r.script) \in Nat
  BY <1>2 DEF Script
<1>4. r.sent \in 0 .. Len(r.script)
  BY <1>1, <1>2, <1>3
<1> QED
  BY <1>1, <1>2, <1>4 DEF r

\* What a step leaves to be read is the end of what was sent, and no less was read.
LEMMA SuffixKept ==
    ASSUME NEW c \in Clients, ClientType(c), Suffix(c), StreamKept(c), ClientType(c)'
    PROVE  Suffix(c)' /\ Offset(c) <= Offset(c)' /\ Offset(c) \in Int /\ Offset(c)' \in Int
<1>1. PICK w, u, v : w = client[c].wrote /\ u = up[c] /\ v = up'[c]
  OBVIOUS
<1>2. w \in Seq(Bytes) /\ u \in Seq(Bytes) /\ EndOf(w, u)
  BY <1>1, StreamTypes, Zenon DEF Suffix
<1>3. client'[c].wrote = w
  BY <1>1, Zenon DEF StreamKept
<1>4. Offset(c) = Len(w) - Len(u) /\ Offset(c)' = Len(w) - Len(v) /\ (Suffix(c)' <=> EndOf(w, v))
  BY <1>1, <1>3, Zenon DEF Offset, Suffix
<1>5. v \in Seq(Bytes)
  BY <1>1, Zenon DEF ClientType
<1>6. ASSUME NEW m \in 0 .. Len(u), Len(v) = Len(u) - m, \A k \in 1 .. Len(u) - m : v[k] = u[m + k]
      PROVE  EndOf(w, v) /\ Len(w) - Len(u) <= Len(w) - Len(v)
  <2>1. EndOf(w, v)
    BY <1>2, <1>5, <1>6, EndShrinks, Zenon
  <2> QED
    BY <1>2, <1>5, <1>6, <2>1
<1>9. ASSUME NEW m \in Nat, MayRead(c, m), v = SubSeq(u, m + 1, Len(u))
      PROVE  EndOf(w, v) /\ Len(w) - Len(u) <= Len(w) - Len(v)
  <2>1. m \in 1 .. Len(u) /\ Len(v) = Len(u) - m /\ \A k \in 1 .. Len(u) - m : v[k] = u[m + k]
    BY <1>1, <1>2, <1>9, ReadFront
  <2>2. m \in 0 .. Len(u)
    BY <2>1
  <2> QED
    BY <1>6, <2>1, <2>2, SMTT(20)
<1>10. EndOf(w, v) /\ Len(w) - Len(u) <= Len(w) - Len(v)
  <2>1. CASE v = u
    BY <1>2, <2>1
  <2>2. CASE v = <<>>
    <3>1. Len(u) \in 0 .. Len(u) /\ Len(v) = Len(u) - Len(u) /\ 1 .. Len(u) - Len(u) = {}
      BY <1>2, <2>2
    <3> QED
      BY <1>6, <3>1
  <2> QED
    BY <1>1, <1>9, <2>1, <2>2, Zenon DEF StreamKept
<1>11. Len(w) - Len(u) \in Int /\ Len(w) - Len(v) \in Int
  BY <1>2, <1>5
<1> QED
  BY <1>4, <1>10, <1>11

\* A step that handles nothing leaves the messages handled where they are.
LEMMA FramedKept ==
    ASSUME NEW c \in Clients, ClientType(c), StreamKept(c), acted'[c] = acted[c],
           Framed(c), Offset(c) <= Offset(c)', Offset(c) \in Int, Offset(c)' \in Int
    PROVE  Framed(c)'
<1>1. PICK w, s, n, o, p, a : /\ w = client[c].wrote /\ s = client[c].script /\ n = client[c].sent
                              /\ o = Offset(c) /\ p = Offset(c)' /\ a = acted[c]
  OBVIOUS
<1>2. client'[c].wrote = w /\ client'[c].script = s /\ client'[c].sent = n
  BY <1>1, Zenon DEF StreamKept
<1>3. n \in 0 .. Len(s) /\ FramedIn(w, s, n, o, a) /\ o <= p /\ o \in Int /\ p \in Int
  BY <1>1, StreamTypes, Zenon DEF Framed
<1>4. n \in Nat
  BY <1>3
<1>5. FramedIn(w, s, n, p, a)
  BY <1>3, <1>4, FramedLater, Zenon
<1> QED
  BY <1>1, <1>2, <1>5, Zenon DEF Framed

\* Sending a message leaves the place where the handler reads.
LEMMA SendsStep ==
    ASSUME NEW c \in Clients, ClientType(c), Suffix(c), Framed(c), Sends(c)
    PROVE  Suffix(c)' /\ Framed(c)'
<1>1. PICK w, u, s, n, a : /\ w = client[c].wrote /\ u = up[c] /\ s = client[c].script
                           /\ n = client[c].sent /\ a = acted[c]
  OBVIOUS
<1>2. w \in Seq(Bytes) /\ u \in Seq(Bytes) /\ s \in Script /\ n \in 0 .. Len(s)
  BY <1>1, StreamTypes, Zenon
<1>3. /\ n < Len(s) /\ up'[c] = u \o s[n + 1] /\ acted'[c] = a
      /\ client'[c] = [client[c] EXCEPT !.sent = @ + 1, !.wrote = @ \o s[n + 1]]
  BY <1>1, Zenon DEF Sends
<1>4. client[c] \in ClientRecord
  BY Zenon DEF ClientType
<1>5. client'[c].wrote = w \o s[n + 1] /\ client'[c].script = s /\ client'[c].sent = n + 1
  BY <1>1, <1>3, <1>4, Zenon DEF ClientRecord
<1>6. EndOf(w, u) /\ FramedIn(w, s, n, Len(w) - Len(u), a)
  BY <1>1, Zenon DEF Suffix, Framed, Offset
<1>7. n \in 0 .. Len(s) - 1 /\ n + 1 \in 1 .. Len(s) /\ Len(w) - Len(u) \in Int
  BY <1>2, <1>3 DEF Script
<1>8. s[n + 1] \in Seq(Bytes)
  BY <1>2, <1>7, ScriptElement, Zenon
<1>9. /\ EndOf(w \o s[n + 1], u \o s[n + 1])
      /\ Len(w \o s[n + 1]) - Len(u \o s[n + 1]) = Len(w) - Len(u)
  BY <1>2, <1>6, <1>8, EndGrows, Zenon
<1>10. FramedIn(w \o s[n + 1], s, n + 1, Len(w) - Len(u), a)
  BY <1>2, <1>6, <1>7, FramedSent, Zenon
<1> QED
  BY <1>3, <1>5, <1>9, <1>10, Zenon DEF Suffix, Framed, Offset

\* What is handled is decoded from the front of what has arrived.
LEMMA HandledEntry ==
    ASSUME NEW c \in Clients, ClientType(c), NEW m \in Nat, ReadsMessage(c, m), acted'[c] # acted[c]
    PROVE  \E data \in Seq(Bytes) : \E entry \in Bytes \X Seq(Bytes) :
              /\ Decodes(up[c], data, entry) /\ acted'[c] = Append(acted[c], entry)
              /\ Len(data) <= Len(up[c])
              /\ up'[c] = <<>> \/ Len(up'[c]) = Len(up[c]) - Len(data)
<1>1. PICK u, data, msg : u = up[c] /\ data = SubSeq(u, 1, m) /\ msg = DecodeMessage(data)
  BY Zenon
<1>2. MayRead(c, m) /\ msg.ok /\ msg.type \in Handled /\ acted'[c] = Append(acted[c], <<msg.type, msg.payload>>)
  BY <1>1, Zenon DEF ReadsMessage
<1>3. up'[c] = <<>> \/ up'[c] = SubSeq(u, m + 1, Len(u))
  BY <1>1, Zenon DEF ReadsMessage
<1>4. up[c] \in Seq(Bytes)
  BY Zenon DEF ClientType
<1>5. /\ m \in 1 .. Len(u) /\ m <= BufSize /\ data \in Seq(Bytes) /\ Len(data) = m
      /\ \A k \in 1 .. m : data[k] = u[k]
      /\ Len(SubSeq(u, m + 1, Len(u))) = Len(u) - m
  BY <1>1, <1>2, <1>4, ReadFront, Zenon
<1>6. /\ msg.type = data[1] /\ <<msg.type, msg.payload>> \in Bytes \X Seq(Bytes)
      /\ msg = Message(msg.type, msg.payload)
  BY <1>1, <1>2, <1>4, HandledParts, Zenon
<1>7. data[1] # 0
  <2>1. data[1] \in Handled
    BY <1>2, <1>6, Zenon
  <2> QED
    BY <2>1 DEF Handled, MsgQuery, MsgBegin, MsgCommit, MsgAbort
<1>8. Len(data) <= Len(u)
  BY <1>5
<1>9. <<msg.type, msg.payload>>[1] = msg.type /\ <<msg.type, msg.payload>>[2] = msg.payload
  BY Zenon
<1>10. Decodes(u, data, <<msg.type, msg.payload>>)
  BY <1>1, <1>2, <1>5, <1>6, <1>7, <1>8, <1>9, Zenon DEF Decodes
<1> QED
  BY <1>1, <1>2, <1>3, <1>5, <1>6, <1>8, <1>10, Zenon

\* A message that is handled is the next whole one.
LEMMA HandledStep ==
    ASSUME NEW c \in Clients, ClientType(c), Suffix(c), Framed(c), StreamKept(c),
           NEW m \in Nat, ReadsMessage(c, m), acted'[c] # acted[c], ClientType(c)'
    PROVE  Framed(c)'
<1>1. PICK w, u, s, n, a, v : /\ w = client[c].wrote /\ u = up[c] /\ s = client[c].script
                              /\ n = client[c].sent /\ a = acted[c] /\ v = up'[c]
  BY Zenon
<1>2. /\ w \in Seq(Bytes) /\ u \in Seq(Bytes) /\ s \in Script /\ n \in 0 .. Len(s)
      /\ a \in Seq(Bytes \X Seq(Bytes))
  BY <1>1, StreamTypes, Zenon
<1>3. PICK data \in Seq(Bytes), entry \in Bytes \X Seq(Bytes) :
         /\ Decodes(u, data, entry) /\ acted'[c] = Append(a, entry)
         /\ Len(data) <= Len(u) /\ (v = <<>> \/ Len(v) = Len(u) - Len(data))
  BY <1>1, HandledEntry, Zenon
<1>4. EndOf(w, u) /\ FramedIn(w, s, n, Len(w) - Len(u), a)
  BY <1>1, Zenon DEF Suffix, Framed, Offset
<1>5. FramedIn(w, s, n, Len(w) - Len(u) + Len(data), Append(a, entry))
  BY <1>2, <1>3, <1>4, FramedHandled, Zenon
<1>6. v \in Seq(Bytes)
  BY <1>1, Zenon DEF ClientType
<1>7. /\ Len(w) - Len(u) + Len(data) <= Len(w) - Len(v) /\ n \in Nat
      /\ Len(w) - Len(u) + Len(data) \in Int /\ Len(w) - Len(v) \in Int
  <2>1. Len(v) <= Len(u) - Len(data)
    BY <1>2, <1>3
  <2> QED
    BY <1>2, <1>6, <2>1
<1>8. FramedIn(w, s, n, Len(w) - Len(v), Append(a, entry))
  BY <1>5, <1>7, FramedLater, Zenon
<1>9. client'[c].wrote = w /\ client'[c].script = s /\ client'[c].sent = n
  BY <1>1, Zenon DEF StreamKept
<1> QED
  BY <1>1, <1>3, <1>8, <1>9, Zenon DEF Framed, Offset

\* Every step keeps the part of the invariant that is about the bytes.
LEMMA StreamStep ==
    ASSUME NEW c \in Clients, ClientType(c), ClientStep(c), Suffix(c), Framed(c)
    PROVE  Suffix(c)' /\ Framed(c)'
<1>1. CASE Sends(c)
  BY <1>1, SendsStep, Zenon
<1>2. CASE StreamKept(c)
  <2>1. ClientType(c)'
    BY TypeStep, Zenon
  <2>2. Suffix(c)' /\ Offset(c) <= Offset(c)' /\ Offset(c) \in Int /\ Offset(c)' \in Int
    BY <1>2, <2>1, SuffixKept, Zenon
  <2>3. CASE acted'[c] = acted[c]
    BY <1>2, <2>2, <2>3, FramedKept, Zenon
  <2>4. ASSUME NEW m \in Nat, ReadsMessage(c, m), acted'[c] # acted[c] PROVE Framed(c)'
    BY <1>2, <2>1, <2>4, HandledStep, Zenon
  <2> QED
    BY <1>1, <2>2, <2>3, <2>4, StreamCases, Zenon
<1> QED
  BY <1>1, <1>2, StreamCases, Zenon

\* The part of the invariant that is about the bytes.
StreamInv == \A c \in Clients : Suffix(c) /\ Framed(c)

\* No client has sent anything.
LEMMA StreamInit ==
    ASSUME Init, ServerInv
    PROVE  StreamInv
<1> SUFFICES ASSUME NEW c \in Clients PROVE Suffix(c) /\ Framed(c)
  BY DEF StreamInv
<1>1. /\ client[c].wrote = <<>> /\ client[c].sent = 0 /\ up[c] = <<>> /\ acted[c] = <<>>
  BY DEF Init
<1>2. PICK s : s = client[c].script
  OBVIOUS
<1>3. s \in Script
  BY <1>2, StreamTypes, Zenon DEF ServerInv, ServerType
<1>4. Len(<<>>) = 0 /\ DOMAIN <<>> = {} /\ <<>> \in Seq(Bytes) /\ Len(s) \in Nat /\ 1 .. Len(<<>>) = {}
  BY <1>3 DEF Script
<1>5. EndOf(<<>>, <<>>) /\ Len(<<>>) - Len(<<>>) = 0
  BY <1>4 DEF EndOf, Holds
<1> DEFINE b == [i \in 1 .. 0 + 1 |-> 0]
           f == [j \in {} |-> 0]
<1>6. b \in [1 .. 0 + 1 -> Nat] /\ b[1] = 0 /\ b[0 + 1] = 0
  OBVIOUS
<1>7. f \in [{} -> 1 .. 0] /\ DOMAIN f = {}
  OBVIOUS
<1> HIDE DEF b, f
<1>8. Covers(<<>>, s, 0, b)
  <2>1. 1 .. 0 = {} /\ \A i, j \in 1 .. 0 + 1 : ~(i < j)
    OBVIOUS
  <2> QED
    BY <1>4, <1>6, <2>1 DEF Covers
<1>9. Placed(<<>>, s, 0, 0, b, f)
  BY <1>4, <1>7, Zenon DEF Placed
<1>10. FramedIn(<<>>, s, 0, 0, <<>>)
  BY <1>8, <1>9, Zenon DEF FramedIn, PlacedBy
<1> QED
  BY <1>1, <1>2, <1>5, <1>10, Zenon DEF Suffix, Framed, Offset

\* The bytes read and to be read are those the client has sent, in every state.
LEMMA StreamInvariant == Init /\ [][Next]_vars => []StreamInv
<1>1. ASSUME ServerInv, StreamInv, Next PROVE StreamInv'
  <2> SUFFICES ASSUME NEW c \in Clients PROVE Suffix(c)' /\ Framed(c)'
    BY Zenon DEF StreamInv
  <2>1. ServerType /\ ClientType(c) /\ Suffix(c) /\ Framed(c)
    BY <1>1, Zenon DEF ServerInv, ServerType, StreamInv
  <2>2. ClientStep(c)
    BY <1>1, <2>1, NextIsClientStep, Zenon
  <2> QED
    BY <2>1, <2>2, StreamStep, Zenon
<1>2. ASSUME StreamInv, UNCHANGED vars PROVE StreamInv'
  <2>1. client' = client /\ up' = up /\ acted' = acted
    BY <1>2, Zenon DEF vars
  <2> QED
    BY <1>2, <2>1, Zenon DEF StreamInv, Suffix, Framed, Offset
<1>3. ServerInv /\ StreamInv /\ [Next]_vars => StreamInv'
  BY <1>1, <1>2, Zenon
<1>4. Init /\ ServerInv => StreamInv
  BY StreamInit, Zenon
<1> QED
  BY <1>3, <1>4, ServerInvariant, PTL

\* However the stream is cut into Reads, handleMessage sees messages of the client,
\* in order and each at most once.
THEOREM NoPhantoms == Spec => []NoPhantom
<1>1. StreamInv => NoPhantom
  <2> SUFFICES ASSUME StreamInv, NEW c \in Clients
               PROVE  \E f \in [DOMAIN acted[c] -> 1 .. client[c].sent] :
                         /\ \A j \in DOMAIN f : Acted(c, j, f[j])
                         /\ \A j, k \in DOMAIN f : j < k => f[j] < f[k]
    BY DEF NoPhantom
  <2>1. FramedIn(client[c].wrote, client[c].script, client[c].sent, Offset(c), acted[c])
    BY Zenon DEF StreamInv, Framed
  <2>2. PICK b, f : Placed(acted[c], client[c].script, client[c].sent, Offset(c), b, f)
    BY <2>1, Zenon DEF FramedIn, PlacedBy
  <2> QED
    BY <2>2, Zenon DEF Placed, Acted
<1> QED
  BY <1>1, StreamInvariant, PTL DEF Spec
=============================================================================
