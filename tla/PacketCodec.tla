------------------------------ MODULE PacketCodec ------------------------------
(***************************************************************************)
(* utils/xdr_serialization.cpp, and the buffers of                         *)
(* channel/reliable_channel.cpp around it: which payloads fit where, what   *)
(* is sent when one does not, and what comes out at the other end.  A       *)
(* packet on the wire is six integers of four bytes, the most significant   *)
(* byte first, then the payload padded to a multiple of four.               *)
(***************************************************************************)
EXTENDS Integers, Sequences, SequenceTheorems, TLAPS

MAX_TRANSMITTED_LEN == 1060

Byte == 0..255
Half == 128 * 256 * 256 * 256
Int32 == (-Half)..(Half - 1)

\* payload in send_function(), and p.payload in receive_function()
PayloadBuffer == MAX_TRANSMITTED_LEN - 24

Padding(n) == (4 - (n % 4)) % 4

Bytes(n) == 24 + n + Padding(n)

\* create_packet(): memcpy() into the payload buffer.
Copies(n) == n <= PayloadBuffer

\* xdr_bytes() with its maximum, to or from a buffer of MAX_TRANSMITTED_LEN.
Encodes(n) == n <= MAX_TRANSMITTED_LEN - 20 /\ Bytes(n) <= MAX_TRANSMITTED_LEN

\* p.payload[p.payload_len] = '\0'
Terminates(n) == n < PayloadBuffer

Packet == [flags : Int32, ack : Int32, seq : Int32, checksum : Int32,
           payload : {d \in Seq(Byte) : Len(d) \in Int32}]

\* The bytes of xdr_int(), and what xdr_int() makes of four bytes.
Octet(x, j) ==
    LET u == x % (2 * Half)
    IN  CASE j = 0 -> ((u \div 256) \div 256) \div 256
          [] j = 1 -> ((u \div 256) \div 256) % 256
          [] j = 2 -> (u \div 256) % 256
          [] OTHER -> u % 256

Unsigned(b0, b1, b2, b3) == ((b0 * 256 + b1) * 256 + b2) * 256 + b3

Signed(u) == IF u < Half THEN u ELSE u - 2 * Half

\* xdr_bytes() writes the length once more.
Ints(p) == <<p.flags, p.ack, p.seq, p.checksum, Len(p.payload), Len(p.payload)>>

\* serialize_and_send(): what it sends ends where xdr_packet_data() stopped, and so
\* after the integers when xdr_bytes() fails.
xdr_encode(p) ==
    LET n == Len(p.payload)
    IN  [i \in 1..(IF Encodes(n) THEN Bytes(n) ELSE 24) |->
            IF i <= 24 THEN Octet(Ints(p)[1 + (i - 1) \div 4], (i - 1) % 4)
            ELSE IF i <= 24 + n THEN p.payload[i - 24]
            ELSE 0]

\* receive_buffer, cleared and then filled by recvfrom().
receive_buffer(w) ==
    [i \in 1..MAX_TRANSMITTED_LEN |-> IF i \in DOMAIN w THEN w[i] ELSE 0]

UnsignedAt(b, k) == Unsigned(b[4 * k - 3], b[4 * k - 2], b[4 * k - 1], b[4 * k])

IntAt(b, k) == Signed(UnsignedAt(b, k))

\* xdr_packet_data() returns TRUE: xdr_bytes() takes the length as unsigned.
Decodes(b) == Encodes(UnsignedAt(b, 6))

\* payload_len is decoded twice, and counts as xdr_bytes() leaves it.
xdr_decode(b) ==
    [flags |-> IntAt(b, 1), ack |-> IntAt(b, 2), seq |-> IntAt(b, 3),
     checksum |-> IntAt(b, 4), payload |-> SubSeq(b, 25, 24 + UnsignedAt(b, 6))]

-------------------------------------------------------------------------------
\* The padding is shorter than a unit of four bytes.
LEMMA PaddingIsShort == \A n \in Nat : Padding(n) \in 0..3 /\ Padding(n) \in Nat
BY DEF Padding

\* A payload that create_packet() has room for always encodes, and no other does:
\* serialize_and_send() does not fail unless a buffer was overrun before.
THEOREM CopiedEncodes == \A n \in Nat : Copies(n) <=> Encodes(n)
BY DEF Copies, Encodes, PayloadBuffer, Bytes, Padding, MAX_TRANSMITTED_LEN

\* The receiver has room for the terminating byte of every payload that can be
\* sent, but for the longest.
THEOREM LongestOverruns ==
    \A n \in Nat : Encodes(n) /\ ~Terminates(n) <=> n = PayloadBuffer
BY CopiedEncodes DEF Copies, Terminates, PayloadBuffer, MAX_TRANSMITTED_LEN

\* Four bytes carry an integer of 32 bits, negative or not.
LEMMA IntSurvives ==
    ASSUME NEW x \in Int32
    PROVE  /\ Signed(Unsigned(Octet(x, 0), Octet(x, 1), Octet(x, 2), Octet(x, 3))) = x
           /\ x >= 0 =>
                Unsigned(Octet(x, 0), Octet(x, 1), Octet(x, 2), Octet(x, 3)) = x
<1> DEFINE u == x % (2 * Half)
           u1 == u \div 256
           u2 == u1 \div 256
           u3 == u2 \div 256
<1>1. /\ Octet(x, 0) = u3 /\ Octet(x, 1) = u2 % 256
      /\ Octet(x, 2) = u1 % 256 /\ Octet(x, 3) = u % 256
  BY DEF Octet
<1> HIDE DEF u3
<1>2. u3 = u2 \div 256
  BY DEF u3
<1> HIDE DEF u2
<1>3. u2 = u1 \div 256
  BY DEF u2
<1> HIDE DEF u1
<1>4. u1 = u \div 256
  BY DEF u1
<1> HIDE DEF u
<1>5. Half \in Nat /\ Half > 0 /\ x \in Int /\ -Half <= x /\ x < Half
  <2>1. Half \in Nat /\ Half > 0
    BY DEF Half
  <2>2. QED
    BY <2>1 DEF Int32
<1>6. u \in Nat /\ u < 2 * Half /\ u = IF x >= 0 THEN x ELSE x + 2 * Half
  <2>1. \A h \in Nat : h > 0 /\ -h <= x /\ x < h =>
            /\ x % (2 * h) \in Nat /\ x % (2 * h) < 2 * h
            /\ x % (2 * h) = IF x >= 0 THEN x ELSE x + 2 * h
    BY <1>5
  <2>2. QED
    BY <1>5, <2>1 DEF u
<1>7. u1 \in Nat /\ 256 * u1 + (u % 256) = u
  <2>1. u \in Nat
    BY <1>6
  <2>2. QED
    BY <1>4, <2>1
<1>8. u2 \in Nat /\ 256 * u2 + (u1 % 256) = u1
  <2>1. u1 \in Nat
    BY <1>7
  <2>2. QED
    BY <1>3, <2>1
<1>9. u3 \in Nat /\ 256 * u3 + (u2 % 256) = u2
  <2>1. u2 \in Nat
    BY <1>8
  <2>2. QED
    BY <1>2, <2>1
<1>10. Unsigned(Octet(x, 0), Octet(x, 1), Octet(x, 2), Octet(x, 3)) = u
  <2>1. u % 256 \in Nat /\ u1 % 256 \in Nat /\ u2 % 256 \in Nat
    BY <1>6, <1>7, <1>8
  <2>2. QED
    BY <1>1, <1>6, <1>7, <1>8, <1>9, <2>1 DEF Unsigned
<1>11. Signed(u) = x
  BY <1>5, <1>6 DEF Signed
<1>12. QED
  BY <1>6, <1>10, <1>11

\* A packet that fits its buffer arrives as it was sent, whatever its integers, and the
\* padding is gone.  Of one that does not, only the integers are sent, and the receiver
\* refuses them: its copy of the length says that bytes are missing.
THEOREM RoundTrip ==
    \A p \in Packet :
        LET b == receive_buffer(xdr_encode(p))
        IN  /\ Decodes(b) <=> Encodes(Len(p.payload))
            /\ Decodes(b) => xdr_decode(b) = p
<1> SUFFICES ASSUME NEW p \in Packet
             PROVE  LET b == receive_buffer(xdr_encode(p))
                    IN  /\ Decodes(b) <=> Encodes(Len(p.payload))
                        /\ Decodes(b) => xdr_decode(b) = p
  OBVIOUS
<1> DEFINE d == p.payload
           n == Len(d)
           w == xdr_encode(p)
           b == receive_buffer(w)
           ints == Ints(p)
<1>1. d \in Seq(Byte) /\ n \in Nat /\ n \in Int32 /\ Padding(n) \in Nat
  <2>1. d \in Seq(Byte) /\ n \in Int32
    BY DEF Packet
  <2>2. n \in Nat
    BY <2>1, LenProperties
  <2>3. QED
    BY <2>1, <2>2, PaddingIsShort
<1>2. /\ ints = <<p.flags, p.ack, p.seq, p.checksum, n, n>>
      /\ \A k \in 1..6 : ints[k] \in Int32
  BY <1>1 DEF Ints, Packet
<1>3. Bytes(n) \in Nat /\ Bytes(n) >= 24 + n
  BY <1>1 DEF Bytes
<1>4. /\ DOMAIN w = 1..(IF Encodes(n) THEN Bytes(n) ELSE 24)
      /\ \A i \in DOMAIN w :
            /\ i <= 24 => w[i] = Octet(ints[1 + (i - 1) \div 4], (i - 1) % 4)
            /\ 24 < i /\ i <= 24 + n => w[i] = d[i - 24]
  <2>1. DOMAIN w = 1..(IF Encodes(n) THEN Bytes(n) ELSE 24)
    BY DEF xdr_encode
  <2>2. \A i \in DOMAIN w :
            w[i] = IF i <= 24 THEN Octet(ints[1 + (i - 1) \div 4], (i - 1) % 4)
                   ELSE IF i <= 24 + n THEN d[i - 24] ELSE 0
    BY DEF xdr_encode
  <2>3. \A i \in DOMAIN w : 24 < i => ~(i <= 24)
    BY <1>1, <1>3, <2>1
  <2>4. QED
    BY <2>1, <2>2, <2>3, Zenon
<1>5. /\ b = [i \in 1..MAX_TRANSMITTED_LEN |-> b[i]]
      /\ \A i \in 1..MAX_TRANSMITTED_LEN : b[i] = IF i \in DOMAIN w THEN w[i] ELSE 0
  BY DEF receive_buffer
<1> HIDE DEF w, b, ints
<1>6. \A i \in 1..24 : b[i] = Octet(ints[1 + (i - 1) \div 4], (i - 1) % 4)
  <2> SUFFICES ASSUME NEW i \in 1..24
               PROVE  b[i] = Octet(ints[1 + (i - 1) \div 4], (i - 1) % 4)
    OBVIOUS
  <2>1. i \in DOMAIN w /\ i \in 1..MAX_TRANSMITTED_LEN
    BY <1>1, <1>3, <1>4 DEF MAX_TRANSMITTED_LEN
  <2>2. w[i] = Octet(ints[1 + (i - 1) \div 4], (i - 1) % 4)
    <3>1. i <= 24
      OBVIOUS
    <3>2. QED
      BY <1>4, <2>1, <3>1, Zenon
  <2>3. QED
    BY <1>5, <2>1, <2>2, Zenon
<1>7. ASSUME NEW k \in 1..6
      PROVE  /\ IntAt(b, k) = ints[k]
             /\ ints[k] >= 0 => UnsignedAt(b, k) = ints[k]
  <2>1. ASSUME NEW j \in 0..3 PROVE b[4 * k - 3 + j] = Octet(ints[k], j)
    <3> DEFINE i == 4 * k - 3 + j
    <3>1. i \in 1..24 /\ 1 + (i - 1) \div 4 = k /\ (i - 1) % 4 = j
      OBVIOUS
    <3> HIDE DEF i
    <3>2. b[i] = Octet(ints[k], j)
      BY <1>6, <3>1, Zenon
    <3>3. QED
      BY <3>2 DEF i
  <2>2. /\ b[4 * k - 3] = Octet(ints[k], 0) /\ b[4 * k - 2] = Octet(ints[k], 1)
        /\ b[4 * k - 1] = Octet(ints[k], 2) /\ b[4 * k] = Octet(ints[k], 3)
    <3>1. /\ 4 * k - 3 + 0 = 4 * k - 3 /\ 4 * k - 3 + 1 = 4 * k - 2
          /\ 4 * k - 3 + 2 = 4 * k - 1 /\ 4 * k - 3 + 3 = 4 * k
      OBVIOUS
    <3>2. /\ b[4 * k - 3 + 0] = Octet(ints[k], 0) /\ b[4 * k - 3 + 1] = Octet(ints[k], 1)
          /\ b[4 * k - 3 + 2] = Octet(ints[k], 2) /\ b[4 * k - 3 + 3] = Octet(ints[k], 3)
      BY <2>1
    <3>3. QED
      BY <3>1, <3>2
  <2>3. UnsignedAt(b, k) = Unsigned(Octet(ints[k], 0), Octet(ints[k], 1),
                                    Octet(ints[k], 2), Octet(ints[k], 3))
    BY <2>2, Zenon DEF UnsignedAt
  <2>4. ints[k] \in Int32
    BY <1>2
  <2>5. QED
    BY <2>3, <2>4, IntSurvives, Zenon DEF IntAt
<1>8. UnsignedAt(b, 6) = n
  <2>1. ints[6] = n /\ n >= 0
    BY <1>1, <1>2
  <2>2. QED
    BY <1>7, <2>1
<1>9. Decodes(b) <=> Encodes(n)
  BY <1>8, Zenon DEF Decodes
<1>10. ASSUME Encodes(n) PROVE SubSeq(b, 25, 24 + n) = d
  <2> DEFINE S == {b[i] : i \in 1..MAX_TRANSMITTED_LEN} \cup Byte
             s == SubSeq(b, 25, 24 + n)
  <2>1. n <= PayloadBuffer /\ Bytes(n) <= MAX_TRANSMITTED_LEN
    BY <1>1, <1>10, CopiedEncodes DEF Copies, Encodes
  <2>2. \A i \in 25..(24 + n) : b[i] = d[i - 24] /\ b[i] \in S
    <3> SUFFICES ASSUME NEW i \in 25..(24 + n) PROVE b[i] = d[i - 24] /\ b[i] \in S
      OBVIOUS
    <3>1. i \in DOMAIN w /\ i \in 1..MAX_TRANSMITTED_LEN
      BY <1>1, <1>3, <1>4, <1>10, <2>1 DEF MAX_TRANSMITTED_LEN
    <3>2. w[i] = d[i - 24]
      BY <1>1, <1>4, <3>1
    <3>3. QED
      BY <1>5, <3>1, <3>2, Zenon
  <2> HIDE DEF S
  <2>3. /\ s \in Seq(S) /\ Len(s) = n
        /\ \A i \in 1..n : s[i] = b[24 + i]
    <3> DEFINE top == 24 + n
    <3>1. top \in Int /\ \A i \in 25..top : b[i] \in S
      BY <1>1, <2>2
    <3> HIDE DEF top
    <3>2. /\ SubSeq(b, 25, top) \in Seq(S)
          /\ Len(SubSeq(b, 25, top)) = IF 25 <= top THEN top - 25 + 1 ELSE 0
          /\ \A i \in 1..(top - 25 + 1) : SubSeq(b, 25, top)[i] = b[25 + i - 1]
      BY <3>1, SubSeqProperties
    <3> HIDE DEF s
    <3>3. s = SubSeq(b, 25, top)
      BY DEF s, top
    <3>4. s \in Seq(S) /\ Len(s) = n
      BY <1>1, <3>2, <3>3 DEF top
    <3>5. ASSUME NEW i \in 1..n PROVE s[i] = b[24 + i]
      <4>1. i \in 1..(top - 25 + 1) /\ 25 + i - 1 = 24 + i
        BY <1>1 DEF top
      <4>2. QED
        BY <3>2, <3>3, <4>1
    <3>6. QED
      BY <3>4, <3>5
  <2>4. d \in Seq(S)
    BY <1>1 DEF S
  <2>5. \A i \in 1..n : s[i] = d[i]
    BY <1>1, <2>2, <2>3
  <2>6. QED
    BY <1>1, <2>3, <2>4, <2>5, SeqEqual
<1>11. ASSUME Encodes(n) PROVE xdr_decode(b) = p
  <2>1. /\ IntAt(b, 1) = p.flags /\ IntAt(b, 2) = p.ack
        /\ IntAt(b, 3) = p.seq /\ IntAt(b, 4) = p.checksum
    BY <1>2, <1>7
  <2>2. xdr_decode(b) = [flags |-> p.flags, ack |-> p.ack, seq |-> p.seq,
                         checksum |-> p.checksum, payload |-> d]
    BY <1>8, <1>10, <1>11, <2>1 DEF xdr_decode
  <2>3. QED
    BY <2>2 DEF Packet
<1>12. QED
  BY <1>9, <1>11 DEF b, w
===============================================================================
