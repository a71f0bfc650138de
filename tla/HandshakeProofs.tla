---------------------------- MODULE HandshakeProofs ----------------------------
(***************************************************************************)
(* Theorems about Handshake, for every value of its constants; those that   *)
(* assume HarmlessGarbage, for every value of the others.                  *)
(***************************************************************************)
EXTENDS Handshake, FiniteSetTheorems, SequenceTheorems, TLAPS

-------------------------------------------------------------------------------
(* The inductive invariant.                                                   *)

\* A channel of client c has taken its "ok", or what stands for it.
OkTaken(c) == \E k \in Channel : dest[k] = c /\ last_received_seq[k] = 2

\* Client c, if it was started once only, has been told a port and said "ok".
Confirmed(c) ==
    /\ starts[c] > 0
    /\ starts[c] = 1 =>
          /\ app[c] \in {"connected", "down"}
          /\ last_seq[c] = 2
          /\ received[c] \in Channel

\* Channels are created in turn, one for a client, and the listen thread waits on
\* one of them.
CreatedInv ==
    /\ \A k \in Channel : dest[k] # None <=> k <= created
    /\ listener # None => dest[listener] # None
    /\ OneChannelPerClient

\* A channel of the server takes nothing but an "ok" for its first message, and
\* is registered unless the listen thread still waits on it.
ChannelInv ==
    \A k \in Channel :
        IF dest[k] = None
        THEN received[k] = None /\ acks_to_send[k] = <<>>
        ELSE /\ last_received_seq[k] >= 1
             /\ received[k] \in {None, Ok}
             /\ received[k] = Ok => Confirmed(dest[k])
             /\ k = listener \/ Registered(dest[k])
             /\ \A i \in 1..Len(acks_to_send[k]) :
                   acks_to_send[k][i] <= last_received_seq[k]

\* What a client has received is the number of its own channel, or nothing.
ClientInv ==
    \A c \in Client :
        /\ app[c] # "down" => starts[c] > 0
        /\ app[c] \in {"switched", "connected"} => received[c] \in Channel
        /\ received[c] \in Channel => dest[received[c]] = c
        /\ received[c] \in Channel \cup {None, Empty}
        /\ acknowledged[c] = 2 => OkTaken(c)

\* Nothing is acknowledged that was not sent.
WindowInv == \A x \in End : acknowledged[x] <= last_seq[x]

\* What is on its way to a client comes from its own channel; what is on its way
\* to a channel comes from its client, and is "ok" unless it is old.
PacketFine(p) ==
    /\ p.seq <= 2
    /\ p.to \in Client =>
          /\ p.text = Empty \/ (p.text \in Channel /\ dest[p.text] = p.to)
          /\ p.ack >= 2 => OkTaken(p.to)
    /\ p.to \in Channel =>
          /\ dest[p.to] # None
          /\ p.seq = 2 => p.text = Ok \/ last_received_seq[p.to] = 2
          /\ p.text = Ok => Confirmed(dest[p.to])

PacketInv == \A p \in net : PacketFine(p)

\* A client is registered under the number of its own channel, after it said "ok".
TableInv ==
    /\ \A c \in Client : Registered(c) =>
          /\ Confirmed(c)
          /\ \E k \in Channel : /\ dest[k] = c /\ k # listener
                                /\ ipport_to_channel[c] = channel_number(k)
    /\ created <= CountMod =>
          \A k \in 1..created : k # listener => channels[channel_number(k)] = k

\* What a read past the end of acks_to_send yields is no number of a message.
HarmlessGarbage == \A g \in Garbage : g <= 0

HandshakeInv ==
    /\ TypeOK
    /\ CreatedInv
    /\ ChannelInv
    /\ ClientInv
    /\ WindowInv
    /\ PacketInv
    /\ TableInv
    /\ NoLostWakeup
-------------------------------------------------------------------------------
(* Constants, numbers, and what stays as it is.                               *)

LEMMA Kinds ==
    /\ Client \cap Channel = {} /\ None \notin Client /\ None \notin Channel
    /\ One \notin Channel /\ Ok \notin Channel /\ Empty \notin Channel
    /\ One # Ok /\ One # Empty /\ Ok # Empty
    /\ One # None /\ Ok # None /\ Empty # None
    /\ Channel \subseteq Nat /\ 0 \notin Channel
    /\ MaxChannels \in Nat
    /\ None \notin 0..(CountMod - 1)
BY HandshakeAssumption DEF End, Text, Channel

\* The numbers of the channels, and that they differ until the count comes round.
LEMMA NumberFacts ==
    /\ \A k \in Channel : channel_number(k) \in 0..(CountMod - 1)
    /\ \A j, k \in 1..CountMod : channel_number(j) = channel_number(k) => j = k
<1>1. CountMod \in Nat \ {0}
  BY HandshakeAssumption
<1>2. \A k \in Nat : k % CountMod \in 0..(CountMod - 1)
  BY <1>1
<1>3. \A k \in 1..CountMod : k < CountMod => k % CountMod = k
  BY <1>1
<1>4. CountMod % CountMod = 0
  BY <1>1
<1>5. \A j, k \in 1..CountMod : j % CountMod = k % CountMod => j = k
  BY <1>1, <1>3, <1>4
<1>6. QED
  BY <1>2, <1>5, Kinds DEF channel_number

\* Channels keep their clients and lose nothing, nor does a client's "ok".
Grows ==
    /\ \A k \in Channel : dest[k] # None =>
          dest'[k] = dest[k] /\ last_received_seq[k] <= last_received_seq'[k]
    /\ \A c \in Client : Confirmed(c) => Confirmed(c)'

LEMMA OkStaysTaken ==
    ASSUME TypeOK, TypeOK', Grows, NEW c \in Client, OkTaken(c)
    PROVE  OkTaken(c)'
<1>1. PICK k \in Channel : dest[k] = c /\ last_received_seq[k] = 2
  BY DEF OkTaken
<1>2. dest'[k] = c /\ 2 <= last_received_seq'[k]
  BY <1>1, Kinds DEF Grows
<1>3. last_received_seq'[k] \in 0..2
  BY DEF TypeOK, End
<1>4. QED
  BY <1>2, <1>3 DEF OkTaken

LEMMA PacketsStayFine ==
    ASSUME TypeOK, TypeOK', Grows, NEW p \in Packet, PacketFine(p)
    PROVE  PacketFine(p)'
<1>1. ASSUME p.to \in Client
      PROVE  /\ p.text = Empty \/ (p.text \in Channel /\ dest'[p.text] = p.to)
             /\ p.ack >= 2 => OkTaken(p.to)'
  BY <1>1, OkStaysTaken, Kinds DEF PacketFine, Grows
<1>2. ASSUME p.to \in Channel
      PROVE  /\ dest'[p.to] # None
             /\ p.seq = 2 => p.text = Ok \/ last_received_seq'[p.to] = 2
             /\ p.text = Ok => Confirmed(dest[p.to])'
  <2>1. dest[p.to] # None /\ dest'[p.to] = dest[p.to] /\ dest[p.to] \in Client
    BY <1>2 DEF PacketFine, Grows, TypeOK
  <2>2. last_received_seq'[p.to] \in 0..2 /\ last_received_seq[p.to] \in 0..2
    BY <1>2 DEF TypeOK, End
  <2>3. last_received_seq[p.to] = 2 => last_received_seq'[p.to] = 2
    BY <1>2, <2>1, <2>2 DEF Grows
  <2>4. p.text = Ok => Confirmed(dest[p.to])'
    <3>1. \A c \in Client : Confirmed(c) => Confirmed(c)'
      BY DEF Grows
    <3>2. p.text = Ok => Confirmed(dest[p.to])
      BY <1>2 DEF PacketFine
    <3>3. QED
      BY <2>1, <3>1, <3>2
  <2>5. QED
    BY <1>2, <2>1, <2>3, <2>4 DEF PacketFine
<1>3. QED
  BY <1>1, <1>2 DEF PacketFine

\* Without news of a client, what it confirmed stays confirmed.
LEMMA ConfirmedAlike ==
    ASSUME NEW c, UNCHANGED <<starts, app, last_seq, received>>
    PROVE  Confirmed(c)' <=> Confirmed(c)
BY DEF Confirmed

\* A part of the invariant whose variables stay as they are stays true.
LEMMA Untouched ==
    ASSUME HandshakeInv
    PROVE  /\ UNCHANGED <<dest, created, listener>> => CreatedInv'
           /\ UNCHANGED <<app, starts, received, dest, acknowledged, last_received_seq>>
                => ClientInv'
           /\ UNCHANGED <<acknowledged, last_seq>> => WindowInv'
           /\ Grows /\ TypeOK' /\ net' \subseteq net => PacketInv'
           /\ UNCHANGED <<asleep, awaiting, ipport_to_channel>> => NoLostWakeup'
<1>1. UNCHANGED <<dest, created, listener>> => CreatedInv'
  BY DEF HandshakeInv, CreatedInv, OneChannelPerClient
<1>2. UNCHANGED <<app, starts, received, dest, acknowledged, last_received_seq>>
        => ClientInv'
  BY DEF HandshakeInv, ClientInv, OkTaken
<1>3. UNCHANGED <<acknowledged, last_seq>> => WindowInv'
  BY DEF HandshakeInv, WindowInv
<1>4. Grows /\ TypeOK' /\ net' \subseteq net => PacketInv'
  <2> SUFFICES ASSUME Grows, TypeOK', net' \subseteq net, NEW p \in net'
               PROVE  PacketFine(p)'
    BY DEF PacketInv
  <2>1. p \in net /\ p \in Packet /\ TypeOK
    BY DEF HandshakeInv, TypeOK
  <2>2. QED
    BY <2>1, PacketsStayFine DEF HandshakeInv, PacketInv
<1>5. UNCHANGED <<asleep, awaiting, ipport_to_channel>> => NoLostWakeup'
  BY DEF HandshakeInv, NoLostWakeup, Registered
<1>6. QED
  BY <1>1, <1>2, <1>3, <1>4, <1>5

\* As long as nobody registers or is listened to anew, the table stays true.
LEMMA TableStays ==
    ASSUME HandshakeInv, Grows,
           UNCHANGED <<dest, listener, created, channels, ipport_to_channel>>
    PROVE  TableInv'
<1>1. \A c : Registered(c)' <=> Registered(c)
  BY DEF Registered
<1>2. ASSUME NEW c \in Client, Registered(c)
      PROVE  /\ Confirmed(c)'
             /\ \E k \in Channel : /\ dest[k] = c /\ k # listener
                                   /\ ipport_to_channel[c] = channel_number(k)
  BY <1>2 DEF HandshakeInv, TableInv, Grows
<1>3. created <= CountMod =>
          \A k \in 1..created : k # listener => channels[channel_number(k)] = k
  BY DEF HandshakeInv, TableInv
<1>4. QED
  BY <1>1, <1>2, <1>3 DEF TableInv, channel_number

\* The channels stay as the invariant has them when they acknowledge no more than
\* they have taken, and receive no more than they had.
LEMMA ChannelsStay ==
    ASSUME HandshakeInv, Grows, UNCHANGED <<dest, listener, ipport_to_channel>>,
           \A k \in Channel : received'[k] = received[k],
           \A k \in Channel : dest[k] = None => acks_to_send'[k] = <<>>,
           \A k \in Channel : dest[k] # None =>
               \A i \in 1..Len(acks_to_send'[k]) :
                   acks_to_send'[k][i] <= last_received_seq'[k],
           last_received_seq' \in [End -> 0..2]
    PROVE  ChannelInv'
<1> SUFFICES ASSUME NEW k \in Channel
             PROVE  (IF dest[k] = None
                     THEN received[k] = None /\ acks_to_send[k] = <<>>
                     ELSE /\ last_received_seq[k] >= 1
                          /\ received[k] \in {None, Ok}
                          /\ received[k] = Ok => Confirmed(dest[k])
                          /\ k = listener \/ Registered(dest[k])
                          /\ \A i \in 1..Len(acks_to_send[k]) :
                                acks_to_send[k][i] <= last_received_seq[k])'
  BY DEF ChannelInv
<1>1. CASE dest[k] = None
  BY <1>1 DEF HandshakeInv, ChannelInv
<1>2. CASE dest[k] # None
  <2>1. /\ last_received_seq[k] >= 1 /\ received[k] \in {None, Ok}
        /\ received[k] = Ok => Confirmed(dest[k])
        /\ k = listener \/ Registered(dest[k])
    BY <1>2 DEF HandshakeInv, ChannelInv
  <2>2. dest[k] \in Client
    BY <1>2 DEF HandshakeInv, TypeOK
  <2>3. last_received_seq'[k] >= 1
    <3>1. /\ last_received_seq[k] <= last_received_seq'[k]
          /\ last_received_seq[k] \in 0..2 /\ last_received_seq'[k] \in 0..2
      BY <1>2 DEF Grows, HandshakeInv, TypeOK, End
    <3>2. QED
      BY <2>1, <3>1
  <2>4. received[k] = Ok => Confirmed(dest[k])'
    <3>1. \A c \in Client : Confirmed(c) => Confirmed(c)'
      BY DEF Grows
    <3>2. QED
      BY <2>1, <2>2, <3>1
  <2>5. k = listener \/ Registered(dest[k])'
    BY <2>1 DEF Registered
  <2>6. QED
    BY <1>2, <2>1, <2>3, <2>4, <2>5
<1>3. QED
  BY <1>1, <1>2

-------------------------------------------------------------------------------
(* The send thread.                                                           *)

\* What a pass of the send thread may put on its way.
LEMMA TransmitFacts ==
    ASSUME NEW x \in End, NEW packets, TypeOK, Transmit(x, packets)
    PROVE  /\ toListener' \in SUBSET Client
           /\ ToListener(x) => net' = net
           /\ ~ToListener(x) => net' \subseteq net \cup packets
<1>1. CASE ToListener(x)
  <2>1. x \in Client /\ net' = net
        /\ (toListener' = toListener \/ toListener' = toListener \cup {x})
    BY <1>1 DEF Transmit, ToListener
  <2>2. toListener \in SUBSET Client
    BY DEF TypeOK
  <2>3. QED
    BY <1>1, <2>1, <2>2
<1>2. CASE ~ToListener(x)
  <2>1. PICK through \in SUBSET packets : net' = net \cup through
    BY <1>2 DEF Transmit
  <2>2. toListener' = toListener
    BY <1>2 DEF Transmit
  <2>3. QED
    BY <1>2, <2>1, <2>2 DEF TypeOK
<1>3. QED
  BY <1>1, <1>2

\* The acknowledgements left after a pass are among those that were there.
AcksLeft ==
    /\ acks_to_send' \in [End -> Seq(Nat)]
    /\ \A y \in End : \A i \in 1..Len(acks_to_send'[y]) :
          \E j \in 1..Len(acks_to_send[y]) :
             acks_to_send'[y][i] = acks_to_send[y][j]
    /\ \A y \in End : acks_to_send[y] = <<>> => acks_to_send'[y] = <<>>
    /\ deficit' \in [End -> Nat]
    /\ \A y \in End : deficit'[y] <= MaxDeficit[y]

LEMMA PopFacts ==
    ASSUME NEW x \in End, NEW n \in Nat, TypeOK, PopAcks(x, n)
    PROVE  AcksLeft
<1> DEFINE s == acks_to_send[x]
           t == SubSeq(s, n + 1, Len(s))
<1>1. s \in Seq(Nat) /\ Len(s) \in Nat
  BY DEF TypeOK
<1>2. acks_to_send' = [acks_to_send EXCEPT ![x] = t]
  BY DEF PopAcks
<1>3. /\ t \in Seq(Nat)
      /\ Len(t) = IF n + 1 <= Len(s) THEN Len(s) - n ELSE 0
      /\ \A i \in 1..Len(t) : t[i] = s[n + i]
  <2>1. n + 1 \in 1..(Len(s) + 1) \/ n + 1 > Len(s)
    BY <1>1
  <2>2. \A i \in (n + 1)..Len(s) : s[i] \in Nat
    BY <1>1
  <2>3. QED
    BY <1>1, <2>2, SubSeqProperties
<1>4. acks_to_send \in [End -> Seq(Nat)]
  BY DEF TypeOK
<1>5. acks_to_send'[x] = t /\ \A y \in End : y # x => acks_to_send'[y] = acks_to_send[y]
  BY <1>2, <1>4
<1>6. acks_to_send' \in [End -> Seq(Nat)]
  BY <1>2, <1>3, <1>4
<1>7. \A i \in 1..Len(t) : \E j \in 1..Len(s) : t[i] = s[j]
  <2> SUFFICES ASSUME NEW i \in 1..Len(t) PROVE n + i \in 1..Len(s)
    BY <1>3
  <2>1. QED
    BY <1>1, <1>3
<1>8. s = <<>> => t = <<>>
  <2>1. s = <<>> => Len(t) = 0
    BY <1>1, <1>3
  <2>2. QED
    BY <1>3, <2>1, EmptySeq
<1>9. ASSUME NEW y \in End
      PROVE  /\ \A i \in 1..Len(acks_to_send'[y]) :
                   \E j \in 1..Len(acks_to_send[y]) :
                      acks_to_send'[y][i] = acks_to_send[y][j]
             /\ acks_to_send[y] = <<>> => acks_to_send'[y] = <<>>
  <2>1. CASE y = x
    <3>1. acks_to_send'[y] = t /\ acks_to_send[y] = s
      BY <1>5, <2>1
    <3> HIDE DEF s, t
    <3>2. QED
      BY <1>7, <1>8, <3>1
  <2>2. CASE y # x
    <3>1. acks_to_send'[y] = acks_to_send[y]
      BY <1>5, <2>2
    <3>2. QED
      BY <3>1
  <2>3. QED
    BY <2>1, <2>2
<1>10. deficit' \in [End -> Nat] /\ \A y \in End : deficit'[y] <= MaxDeficit[y]
  <2> DEFINE d == IF deficit[x] > 0 THEN deficit[x] + n ELSE deficit[x]
  <2>1. /\ deficit \in [End -> Nat] /\ MaxDeficit \in [End -> Nat]
        /\ \A y \in End : deficit[y] <= MaxDeficit[y]
    BY HandshakeAssumption DEF TypeOK
  <2>2. deficit[x] > 0 => deficit[x] + n <= MaxDeficit[x]
    BY DEF PopAcks
  <2>3. d \in Nat /\ d <= MaxDeficit[x]
    BY <2>1, <2>2
  <2>4. deficit' = [deficit EXCEPT ![x] = d]
    BY DEF PopAcks
  <2> HIDE DEF d
  <2>5. QED
    BY <2>1, <2>3, <2>4
<1>11. QED
  BY <1>6, <1>9, <1>10 DEF AcksLeft

\* Where a packet goes that does not go to the listening socket.
LEMMA DestFacts ==
    ASSUME HandshakeInv, NEW x \in End, Up(x), ~ToListener(x)
    PROVE  /\ x \in Client => /\ app[x] \in {"switched", "connected"}
                              /\ starts[x] > 0
                              /\ DestOf(x) \in Channel
                              /\ received[x] \in Channel
                              /\ dest[DestOf(x)] = x
           /\ x \in Channel => DestOf(x) \in Client /\ DestOf(x) = dest[x]
<1>1. ASSUME x \in Client
      PROVE  /\ app[x] \in {"switched", "connected"}
             /\ starts[x] > 0
             /\ DestOf(x) \in Channel
             /\ received[x] \in Channel
             /\ dest[DestOf(x)] = x
  <2>1. app[x] \in {"switched", "connected"}
    BY <1>1 DEF Up, ClientUp, ToListener
  <2>2. DestOf(x) = received[x]
    BY <1>1 DEF DestOf
  <2>3. QED
    BY <1>1, <2>1, <2>2 DEF HandshakeInv, ClientInv
<1>2. ASSUME x \in Channel
      PROVE  DestOf(x) \in Client /\ DestOf(x) = dest[x]
  <2>1. x \notin Client
    BY <1>2, Kinds
  <2>2. dest[x] # None /\ dest[x] \in Client \cup {None}
    BY <1>2, <2>1 DEF Up, HandshakeInv, TypeOK
  <2>3. QED
    BY <2>1, <2>2 DEF DestOf
<1>3. QED
  BY <1>1, <1>2

\* What a send thread does not change, as its packets see it.
SameNews == UNCHANGED <<app, starts, dest, last_received_seq, received>>

\* The messages of the window make fine packets.
LEMMA WindowFine ==
    ASSUME HandshakeInv, NEW x \in End, Up(x), ~ToListener(x), SameNews,
           last_seq' \in [End -> 0..2], last_seq'[x] <= Given(x),
           NEW p \in WindowPackets(x, last_seq'[x])
    PROVE  p \in Packet /\ PacketFine(p)'
<1>1. TypeOK
  BY DEF HandshakeInv
<1>2. acknowledged[x] \in 0..2 /\ last_seq'[x] \in 0..2 /\ last_received_seq[x] \in 0..2
  BY <1>1 DEF TypeOK
<1>3. PICK n \in (acknowledged[x] + 1)..last_seq'[x] :
          p = create_packet(x, n, TextOf(x, n), last_received_seq[x])
  BY DEF WindowPackets
<1>4. n \in 1..2 /\ n <= last_seq'[x]
  BY <1>2, <1>3
<1>5. p = [to |-> DestOf(x), seq |-> n, ack |-> last_received_seq[x],
           text |-> TextOf(x, n)]
  BY <1>3 DEF create_packet
<1>6. /\ p.to = DestOf(x) /\ p.seq = n /\ p.ack = last_received_seq[x]
      /\ p.text = TextOf(x, n)
  BY <1>5
<1>7. DestOf(x) \in End /\ TextOf(x, n) \in Text
  BY DestFacts DEF End, TextOf, Text
<1>8. p \in Packet
  <2>1. n \in Nat /\ last_received_seq[x] \in Int
    BY <1>2, <1>4
  <2>2. QED
    BY <1>5, <1>7, <2>1 DEF Packet
<1>9. CASE x \in Channel
  <2>1. PICK c \in Client : c = DestOf(x) /\ c = dest[x] /\ c \notin Channel
    BY <1>9, DestFacts, Kinds
  <2>2. p.to = c /\ p.text = x
    BY <1>6, <1>9, <2>1 DEF TextOf
  <2>3. p.ack >= 2 => OkTaken(c)'
    <3>1. p.ack >= 2 => last_received_seq[x] = 2
      BY <1>2, <1>6
    <3>2. QED
      BY <1>9, <2>1, <3>1 DEF OkTaken, SameNews
  <2>4. dest'[x] = c
    BY <2>1 DEF SameNews
  <2>5. p.seq <= 2
    BY <1>4, <1>6
  <2>6. p.ack >= 2 => OkTaken(p.to)'
    BY <2>2, <2>3
  <2>7. QED
    BY <1>8, <1>9, <2>1, <2>2, <2>4, <2>5, <2>6 DEF PacketFine
<1>10. CASE x \in Client
  <2>1. /\ app[x] \in {"switched", "connected"} /\ starts[x] > 0
        /\ DestOf(x) \in Channel /\ received[x] \in Channel /\ dest[DestOf(x)] = x
        /\ x # None
    BY <1>10, DestFacts, Kinds
  <2>2. DestOf(x) \notin Client
    BY <2>1, Kinds
  <2>3. x \notin Channel
    BY <1>10, Kinds
  <2>4. n = 2 => TextOf(x, n) = Ok
    BY <2>3 DEF TextOf
  <2>5. ASSUME TextOf(x, n) = Ok
        PROVE  Confirmed(x)'
    <3>1. n # 1
      BY <2>3, <2>5, Kinds DEF TextOf
    <3>2. n = 2 /\ last_seq'[x] = 2
      BY <1>2, <1>4, <3>1
    <3>3. app[x] = "connected"
      BY <3>2 DEF Given
    <3>4. QED
      BY <2>1, <3>2, <3>3 DEF Confirmed, SameNews
  <2>6. dest'[DestOf(x)] = x
    BY <2>1 DEF SameNews
  <2>7. n <= 2
    BY <1>4
  <2>8. p.text = Ok => Confirmed(dest[p.to])'
    BY <1>6, <2>5, <2>6 DEF Confirmed
  <2>9. QED
    BY <1>8, <1>10, <1>6, <2>1, <2>2, <2>4, <2>6, <2>7, <2>8 DEF PacketFine
<1>11. QED
  BY <1>9, <1>10 DEF End

\* So does a bare acknowledgement of what its channel has taken.
LEMMA AckFine ==
    ASSUME HandshakeInv, NEW x \in End, Up(x), ~ToListener(x), SameNews,
           acknowledged[x] = last_seq[x], NEW ack \in Int,
           x \in Channel => ack <= last_received_seq[x],
           NEW p, p = create_packet(x, last_seq[x], Empty, ack)
    PROVE  p \in Packet /\ PacketFine(p)'
<1>1. TypeOK
  BY DEF HandshakeInv
<1>2. last_seq[x] \in 0..2
  BY <1>1 DEF TypeOK
<1>4. p = [to |-> DestOf(x), seq |-> last_seq[x], ack |-> ack, text |-> Empty]
  BY DEF create_packet
<1>5. /\ p.to = DestOf(x) /\ p.seq = last_seq[x] /\ p.ack = ack
      /\ p.text = Empty
  BY <1>4
<1>6. p \in Packet
  <2>1. DestOf(x) \in End /\ Empty \in Text /\ last_seq[x] \in Nat
    BY <1>2, DestFacts DEF End, Text
  <2>2. QED
    BY <1>4, <2>1 DEF Packet
<1>7. p.seq <= 2
  BY <1>2, <1>5
<1>8. CASE x \in Channel
  <2>1. PICK c \in Client : c = DestOf(x) /\ c = dest[x] /\ c \notin Channel
    BY <1>8, DestFacts, Kinds
  <2>4. p.ack >= 2 => last_received_seq[x] = 2
    <3>1. last_received_seq[x] \in 0..2
      BY <1>1 DEF TypeOK
    <3>2. QED
      BY <1>5, <1>8, <3>1
  <2>5. p.ack >= 2 => OkTaken(c)'
    BY <1>8, <2>1, <2>4 DEF OkTaken, SameNews
  <2>6. p.ack >= 2 => OkTaken(p.to)'
    BY <1>5, <2>1, <2>5
  <2>7. QED
    BY <1>5, <1>6, <1>7, <2>1, <2>6 DEF PacketFine
<1>9. CASE x \in Client
  <2>1. /\ DestOf(x) \in Channel /\ dest[DestOf(x)] = x /\ DestOf(x) \notin Client
        /\ x # None
    BY <1>9, DestFacts, Kinds
  <2>2. last_seq[x] = 2 => last_received_seq[DestOf(x)] = 2
    <3> SUFFICES ASSUME last_seq[x] = 2
                 PROVE  last_received_seq[DestOf(x)] = 2
      OBVIOUS
    <3>1. PICK k \in Channel : dest[k] = x /\ last_received_seq[k] = 2
      BY <1>9 DEF HandshakeInv, ClientInv, OkTaken
    <3>2. k <= created /\ DestOf(x) <= created
      BY <2>1, <3>1 DEF HandshakeInv, CreatedInv
    <3>3. k \in 1..created /\ DestOf(x) \in 1..created
      <4>1. created \in Nat
        BY <1>1, Kinds DEF TypeOK
      <4>2. QED
        BY <2>1, <3>2, <4>1, Kinds DEF Channel
    <3>4. k = DestOf(x)
      BY <2>1, <3>1, <3>3 DEF HandshakeInv, CreatedInv, OneChannelPerClient
    <3>5. QED
      BY <3>1, <3>4
  <2>3. dest'[p.to] # None
    BY <1>5, <2>1 DEF SameNews
  <2>4. p.seq = 2 => last_received_seq'[p.to] = 2
    BY <1>5, <2>2 DEF SameNews
  <2>5. p.text # Ok
    BY <1>5, Kinds
  <2>6. QED
    BY <1>5, <1>6, <1>7, <2>1, <2>3, <2>4, <2>5 DEF PacketFine
<1>10. QED
  BY <1>8, <1>9 DEF End

\* A send thread that puts fine packets on their way breaks nothing.
LEMMA SendKeeps ==
    ASSUME HandshakeInv, NEW x \in End, Up(x),
           NEW packets, Transmit(x, packets),
           ~ToListener(x) => \A p \in packets : p \in Packet /\ PacketFine(p)',
           AcksLeft,
           last_seq' \in [End -> 0..2], \A y \in End : last_seq[y] <= last_seq'[y],
           UNCHANGED <<clientVars, acknowledged, recvVars, serverVars, waitVars>>
    PROVE  HandshakeInv'
<1> USE DEF clientVars, recvVars, serverVars, waitVars
<1>1. TypeOK
  BY DEF HandshakeInv
<1>2. /\ toListener' \in SUBSET Client
      /\ ToListener(x) => net' = net
      /\ ~ToListener(x) => net' \subseteq net \cup packets
  BY <1>1, TransmitFacts
<1>3. /\ acks_to_send' \in [End -> Seq(Nat)]
      /\ \A y \in End : \A i \in 1..Len(acks_to_send'[y]) :
            \E j \in 1..Len(acks_to_send[y]) : acks_to_send'[y][i] = acks_to_send[y][j]
      /\ \A y \in End : acks_to_send[y] = <<>> => acks_to_send'[y] = <<>>
      /\ deficit' \in [End -> Nat] /\ \A y \in End : deficit'[y] <= MaxDeficit[y]
  BY DEF AcksLeft
<1>4. net' \in SUBSET Packet
  BY <1>1, <1>2 DEF TypeOK
<1>5. TypeOK'
  BY <1>1, <1>2, <1>3, <1>4 DEF TypeOK
<1>6. \A c \in Client : Confirmed(c) => Confirmed(c)'
  <2> SUFFICES ASSUME NEW c \in Client, Confirmed(c), starts[c] = 1
               PROVE  last_seq'[c] = 2
    BY DEF Confirmed
  <2>1. last_seq[c] = 2 /\ last_seq'[c] \in 0..2 /\ last_seq[c] <= last_seq'[c]
    BY DEF Confirmed, End
  <2>2. QED
    BY <2>1
<1>7. Grows
  <2>1. \A k \in Channel : last_received_seq[k] \in 0..2
    BY <1>1 DEF TypeOK, End
  <2>2. QED
    BY <1>6, <2>1 DEF Grows
<1>8. CreatedInv' /\ ClientInv' /\ NoLostWakeup'
  BY Untouched
<1>9. WindowInv'
  <2> SUFFICES ASSUME NEW y \in End PROVE acknowledged[y] <= last_seq'[y]
    BY DEF WindowInv
  <2>1. acknowledged[y] <= last_seq[y] /\ last_seq[y] <= last_seq'[y]
    BY DEF HandshakeInv, WindowInv
  <2>2. acknowledged[y] \in 0..2 /\ last_seq[y] \in 0..2 /\ last_seq'[y] \in 0..2
    BY <1>1 DEF TypeOK
  <2>3. QED
    BY <2>1, <2>2
<1>10. PacketInv'
  <2>1. \A p \in net : PacketFine(p)'
    <3> SUFFICES ASSUME NEW p \in net PROVE PacketFine(p)'
      OBVIOUS
    <3>1. p \in Packet /\ PacketFine(p)
      BY <1>1 DEF TypeOK, HandshakeInv, PacketInv
    <3>2. QED
      BY <1>1, <1>5, <1>7, <3>1, PacketsStayFine
  <2>2. CASE ToListener(x)
    BY <1>2, <2>1, <2>2 DEF PacketInv
  <2>3. CASE ~ToListener(x)
    BY <1>2, <2>1, <2>3 DEF PacketInv
  <2>4. QED
    BY <2>2, <2>3
<1>11. TableInv'
  BY <1>7, TableStays
<1>12. ChannelInv'
  <2>1. \A k \in Channel : dest[k] = None => acks_to_send'[k] = <<>>
    BY <1>3 DEF HandshakeInv, ChannelInv, End
  <2>2. ASSUME NEW k \in Channel, dest[k] # None
        PROVE  \A i \in 1..Len(acks_to_send'[k]) :
                  acks_to_send'[k][i] <= last_received_seq'[k]
    <3>1. \A i \in 1..Len(acks_to_send[k]) : acks_to_send[k][i] <= last_received_seq[k]
      BY <2>2 DEF HandshakeInv, ChannelInv
    <3>2. k \in End
      BY DEF End
    <3>3. QED
      BY <1>3, <3>1, <3>2
  <2>3. last_received_seq' \in [End -> 0..2]
    BY <1>5 DEF TypeOK
  <2>4. QED
    BY <1>7, <2>1, <2>2, <2>3, ChannelsStay
<1>13. QED
  BY <1>5, <1>8, <1>9, <1>10, <1>11, <1>12 DEF HandshakeInv

\* A window has as many packets as a number says.
LEMMA WindowCounts ==
    ASSUME TypeOK, NEW x \in End, NEW last \in 0..2
    PROVE  Cardinality(WindowPackets(x, last)) \in Nat
<1> DEFINE pkt(n) == create_packet(x, n, TextOf(x, n), last_received_seq[x])
           both == {pkt(1), pkt(2)}
<1>1. WindowPackets(x, last) \subseteq both
  <2>1. \A n \in (acknowledged[x] + 1)..last : n = 1 \/ n = 2
    <3>1. acknowledged[x] \in 0..2
      BY DEF TypeOK
    <3>2. QED
      BY <3>1
  <2>2. QED
    BY <2>1 DEF WindowPackets
<1>2. IsFiniteSet(both)
  <2>1. IsFiniteSet({pkt(1)})
    BY FS_Singleton
  <2>2. IsFiniteSet({pkt(1)} \cup {pkt(2)})
    BY <2>1, FS_AddElement
  <2>3. both = {pkt(1)} \cup {pkt(2)}
    OBVIOUS
  <2>4. QED
    BY <2>2, <2>3
<1>3. IsFiniteSet(WindowPackets(x, last))
  BY <1>1, <1>2, FS_Subset
<1>4. QED
  BY <1>3, FS_CardinalityType

LEMMA SendNewKeeps ==
    ASSUME HandshakeInv, NEW x \in End, SendNew(x)
    PROVE  HandshakeInv'
<1> DEFINE w == WindowPackets(x, last_seq[x] + 1)
<1>1. TypeOK
  BY DEF HandshakeInv
<1>2. /\ Up(x) /\ last_seq[x] < Given(x)
      /\ last_seq' = [last_seq EXCEPT ![x] = last_seq[x] + 1]
      /\ UNCHANGED <<clientVars, acknowledged, recvVars, serverVars, waitVars>>
  BY DEF SendNew
<1>3. /\ last_seq'[x] = last_seq[x] + 1 /\ last_seq[x] + 1 \in 0..2
      /\ last_seq'[x] <= Given(x)
      /\ last_seq' \in [End -> 0..2]
      /\ \A y \in End : last_seq[y] <= last_seq'[y]
  <2>1. last_seq \in [End -> 0..2] /\ Given(x) \in {1, 2}
    BY <1>1 DEF TypeOK, Given
  <2>2. last_seq[x] + 1 \in 0..2 /\ last_seq[x] + 1 <= Given(x)
    BY <1>2, <2>1
  <2>3. last_seq'[x] = last_seq[x] + 1 /\ \A y \in End : y # x => last_seq'[y] = last_seq[y]
    BY <1>2, <2>1
  <2>4. last_seq' \in [End -> 0..2]
    BY <1>2, <2>1, <2>2
  <2>5. \A y \in End : last_seq[y] <= last_seq'[y]
    BY <2>1, <2>3
  <2>6. QED
    BY <2>2, <2>3, <2>4, <2>5
<1>4. ~ToListener(x) => \A p \in w : p \in Packet /\ PacketFine(p)'
  <2>1. SameNews
    BY <1>2 DEF SameNews, clientVars, recvVars, serverVars
  <2>2. QED
    BY <1>2, <1>3, <2>1, WindowFine
<1>5. CASE Transmit(x, {p \in w : p.seq = last_seq[x] + 1}) /\ PopAcks(x, 1)
  <2> DEFINE one == {p \in w : p.seq = last_seq[x] + 1}
  <2>1. ~ToListener(x) => \A p \in one : p \in Packet /\ PacketFine(p)'
    BY <1>4
  <2>2. 1 \in Nat /\ Transmit(x, one)
    BY <1>5
  <2>3. AcksLeft
    BY <1>1, <1>5, <2>2, PopFacts
  <2> HIDE DEF one
  <2>4. QED
    BY <1>2, <1>3, <2>1, <2>2, <2>3, SendKeeps
<1>6. CASE Transmit(x, w) /\ PopAcks(x, 1 + Cardinality(w))
  <2>1. 1 + Cardinality(w) \in Nat
    <3>1. Cardinality(w) \in Nat
      BY <1>1, <1>3, WindowCounts
    <3>2. QED
      BY <3>1
  <2>2. AcksLeft
    BY <1>1, <1>6, <2>1, PopFacts
  <2> HIDE DEF w
  <2>3. QED
    BY <1>2, <1>3, <1>4, <1>6, <2>2, SendKeeps
<1>7. QED
  BY <1>5, <1>6 DEF SendNew

LEMMA ResendKeeps ==
    ASSUME HandshakeInv, NEW x \in End, Resend(x)
    PROVE  HandshakeInv'
<1> DEFINE w == WindowPackets(x, last_seq[x])
<1>1. /\ TypeOK /\ Up(x) /\ last_seq[x] = Given(x)
      /\ Transmit(x, w) /\ PopAcks(x, last_seq[x] - acknowledged[x])
      /\ UNCHANGED <<clientVars, sendVars, recvVars, serverVars, waitVars>>
  BY DEF Resend, HandshakeInv
<1>2. last_seq' = last_seq /\ acknowledged' = acknowledged
  BY <1>1 DEF sendVars
<1>3. last_seq \in [End -> 0..2]
  BY <1>1 DEF TypeOK
<1>4. /\ last_seq'[x] = last_seq[x] /\ last_seq'[x] <= Given(x)
      /\ last_seq' \in [End -> 0..2]
      /\ \A y \in End : last_seq[y] <= last_seq'[y]
  BY <1>1, <1>2, <1>3
<1>5. ~ToListener(x) => \A p \in w : p \in Packet /\ PacketFine(p)'
  <2>1. SameNews
    BY <1>1 DEF SameNews, clientVars, recvVars, serverVars
  <2>2. QED
    BY <1>1, <1>4, <2>1, WindowFine
<1>6. last_seq[x] - acknowledged[x] \in Nat
  <2>1. acknowledged[x] < last_seq[x] /\ acknowledged[x] \in 0..2 /\ last_seq[x] \in 0..2
    BY <1>1 DEF Resend, TypeOK
  <2>2. QED
    BY <2>1
<1>7. AcksLeft
  BY <1>1, <1>6, PopFacts
<1> HIDE DEF w
<1>8. QED
  BY <1>1, <1>2, <1>4, <1>5, <1>7, SendKeeps

LEMMA SendAckKeeps ==
    ASSUME HandshakeInv, NEW x \in End, SendAck(x)
    PROVE  HandshakeInv'
<1> DEFINE h == Head(acks_to_send[x])
           a == {create_packet(x, last_seq[x], Empty, h)}
<1>1. /\ TypeOK /\ Up(x) /\ acknowledged[x] = last_seq[x] /\ acks_to_send[x] # <<>>
      /\ Transmit(x, a) /\ PopAcks(x, 1)
      /\ UNCHANGED <<clientVars, sendVars, recvVars, serverVars, waitVars>>
  BY DEF SendAck, Idle, HandshakeInv
<1>2. last_seq' = last_seq /\ acknowledged' = acknowledged
  BY <1>1 DEF sendVars
<1>3. last_seq \in [End -> 0..2]
  BY <1>1 DEF TypeOK
<1>4. last_seq' \in [End -> 0..2] /\ \A y \in End : last_seq[y] <= last_seq'[y]
  BY <1>2, <1>3
<1>5. h \in Nat /\ (x \in Channel => h <= last_received_seq[x])
  <2>1. acks_to_send[x] \in Seq(Nat)
    BY <1>1 DEF TypeOK
  <2>2. /\ h \in Nat /\ h = acks_to_send[x][1]
        /\ Len(acks_to_send[x]) \in Nat /\ Len(acks_to_send[x]) >= 1
    BY <1>1, <2>1
  <2>3. ASSUME x \in Channel PROVE h <= last_received_seq[x]
    <3>1. dest[x] # None
      BY <1>1, <2>3, Kinds DEF Up
    <3>2. \A i \in 1..Len(acks_to_send[x]) : acks_to_send[x][i] <= last_received_seq[x]
      BY <2>3, <3>1 DEF HandshakeInv, ChannelInv
    <3>3. QED
      BY <2>2, <3>2
  <2>4. QED
    BY <2>2, <2>3
<1>6. ~ToListener(x) => \A p \in a : p \in Packet /\ PacketFine(p)'
  <2>1. SameNews
    BY <1>1 DEF SameNews, clientVars, recvVars, serverVars
  <2>2. h \in Int
    BY <1>5
  <2> HIDE DEF h
  <2>3. QED
    BY <1>1, <1>5, <2>1, <2>2, AckFine
<1>7. AcksLeft
  <2>1. 1 \in Nat
    OBVIOUS
  <2>2. QED
    BY <1>1, <2>1, PopFacts
<1> HIDE DEF a
<1>8. QED
  BY <1>1, <1>2, <1>4, <1>6, <1>7, SendKeeps

LEMMA GarbageAcksLeft ==
    ASSUME TypeOK, NEW x \in End, SendGarbageAck(x)
    PROVE  AcksLeft
<1>1. /\ deficit \in [End -> Nat] /\ MaxDeficit \in [End -> Nat]
      /\ \A y \in End : deficit[y] <= MaxDeficit[y]
      /\ acks_to_send \in [End -> Seq(Nat)]
  BY HandshakeAssumption DEF TypeOK
<1>2. /\ acks_to_send' = acks_to_send
      /\ deficit' = [deficit EXCEPT ![x] = @ + 1]
      /\ deficit[x] < MaxDeficit[x]
  BY DEF SendGarbageAck
<1>3. deficit[x] + 1 \in Nat /\ deficit[x] + 1 <= MaxDeficit[x]
  BY <1>1, <1>2
<1>4. deficit' \in [End -> Nat] /\ \A y \in End : deficit'[y] <= MaxDeficit[y]
  BY <1>1, <1>2, <1>3
<1>5. QED
  BY <1>1, <1>2, <1>4 DEF AcksLeft

\* What is read past the end of acks_to_send acknowledges nothing.
LEMMA SendGarbageAckKeeps ==
    ASSUME HarmlessGarbage, HandshakeInv, NEW x \in End, SendGarbageAck(x)
    PROVE  HandshakeInv'
<1>1. /\ TypeOK /\ Up(x) /\ acknowledged[x] = last_seq[x]
      /\ UNCHANGED <<clientVars, sendVars, recvVars, serverVars, waitVars>>
  BY DEF SendGarbageAck, Idle, HandshakeInv
<1>2. PICK ack \in Garbage : Transmit(x, {create_packet(x, last_seq[x], Empty, ack)})
  BY DEF SendGarbageAck
<1> DEFINE a == {create_packet(x, last_seq[x], Empty, ack)}
<1>3. last_seq' = last_seq /\ acknowledged' = acknowledged
  BY <1>1 DEF sendVars
<1>4. last_seq \in [End -> 0..2] /\ last_received_seq[x] \in 0..2
  BY <1>1 DEF TypeOK
<1>5. last_seq' \in [End -> 0..2] /\ \A y \in End : last_seq[y] <= last_seq'[y]
  BY <1>3, <1>4
<1>6. ack \in Int /\ ack <= last_received_seq[x]
  <2>1. ack \in Int /\ ack <= 0
    BY HandshakeAssumption DEF HarmlessGarbage
  <2>2. QED
    BY <1>4, <2>1
<1>7. ~ToListener(x) => \A p \in a : p \in Packet /\ PacketFine(p)'
  <2>1. SameNews
    BY <1>1 DEF SameNews, clientVars, recvVars, serverVars
  <2>2. QED
    BY <1>1, <1>6, <2>1, AckFine
<1>8. AcksLeft
  BY <1>1, GarbageAcksLeft
<1>9. Transmit(x, a)
  BY <1>2
<1> HIDE DEF a
<1>10. QED
  BY <1>1, <1>3, <1>5, <1>7, <1>8, <1>9, SendKeeps

-------------------------------------------------------------------------------
(* The receive thread.                                                        *)

\* What a packet changes at the socket it comes to, and that it changes no other.
LEMMA ReceiveFacts ==
    ASSUME TypeOK, NEW p \in net, p.seq <= 2, Receive(p)
    PROVE  /\ p \in Packet /\ p.to \in End /\ Up(p.to)
           /\ p.seq \in 0..2 /\ p.ack \in Int
           /\ net' \subseteq net
           /\ acknowledged' \in [End -> 0..2]
           /\ \A y \in End :
                 \/ acknowledged'[y] = acknowledged[y]
                 \/ y = p.to /\ acknowledged'[y] <= p.ack /\ acknowledged'[y] <= last_seq[y]
           /\ last_received_seq' \in [End -> 0..2]
           /\ \A y \in End :
                 \/ last_received_seq'[y] = last_received_seq[y]
                 \/ /\ y = p.to /\ p.seq = last_received_seq[y] + 1
                    /\ last_received_seq'[y] = p.seq
           /\ received' \in [End -> Text \cup {None}]
           /\ \A y \in End :
                 \/ received'[y] = received[y]
                 \/ /\ y = p.to /\ received[y] = None /\ received'[y] = p.text
                    /\ p.seq = last_received_seq[y] + 1
           /\ acks_to_send' \in [End -> Seq(Nat)]
           /\ \A y \in End :
                 \/ acks_to_send'[y] = acks_to_send[y]
                 \/ /\ y = p.to /\ acks_to_send'[y] = Append(acks_to_send[y], p.seq)
                    /\ p.seq <= last_received_seq'[y]
           /\ deficit' \in [End -> Nat]
           /\ \A y \in End : deficit'[y] <= MaxDeficit[y]
<1> DEFINE x == p.to
           inSequence == p.seq = last_received_seq[x] + 1
           repeated == p.seq <= last_received_seq[x] /\ p.text # Empty
<1>1. p \in Packet /\ x \in End /\ p.seq \in Nat /\ p.ack \in Int /\ p.text \in Text
  BY DEF TypeOK, Packet
<1>2. /\ Up(x) /\ net' \in {net, net \ {p}}
      /\ acknowledged' = [acknowledged EXCEPT
                            ![x] = IF p.ack <= @ THEN @
                                   ELSE IF p.ack < last_seq[x] THEN p.ack ELSE last_seq[x]]
      /\ last_received_seq' =
             [last_received_seq EXCEPT ![x] = IF inSequence THEN p.seq ELSE @]
      /\ received' = [received EXCEPT ![x] = IF inSequence /\ @ = None THEN p.text ELSE @]
      /\ IF inSequence \/ repeated THEN PushAck(x, p.seq) ELSE UNCHANGED ackVars
  BY DEF Receive
<1>3. p.seq \in 0..2
  BY <1>1
<1>4. /\ acknowledged' \in [End -> 0..2]
      /\ \A y \in End :
            \/ acknowledged'[y] = acknowledged[y]
            \/ y = p.to /\ acknowledged'[y] <= p.ack /\ acknowledged'[y] <= last_seq[y]
  <2> DEFINE new == IF p.ack <= acknowledged[x] THEN acknowledged[x]
                    ELSE IF p.ack < last_seq[x] THEN p.ack ELSE last_seq[x]
  <2>1. acknowledged \in [End -> 0..2] /\ last_seq[x] \in 0..2 /\ acknowledged[x] \in 0..2
    BY <1>1 DEF TypeOK
  <2>2. new \in 0..2 /\ (new = acknowledged[x] \/ (new <= p.ack /\ new <= last_seq[x]))
    BY <1>1, <2>1
  <2>3. acknowledged' = [acknowledged EXCEPT ![x] = new]
    BY <1>2
  <2> HIDE DEF new
  <2>4. QED
    BY <2>1, <2>2, <2>3
<1>5. /\ last_received_seq' \in [End -> 0..2]
      /\ last_received_seq'[x] = IF inSequence THEN p.seq ELSE last_received_seq[x]
      /\ \A y \in End : y # x => last_received_seq'[y] = last_received_seq[y]
  <2>1. last_received_seq \in [End -> 0..2]
    BY DEF TypeOK
  <2>2. QED
    BY <1>1, <1>2, <1>3, <2>1
<1>6. /\ received' \in [End -> Text \cup {None}]
      /\ \A y \in End :
            \/ received'[y] = received[y]
            \/ /\ y = p.to /\ received[y] = None /\ received'[y] = p.text
               /\ p.seq = last_received_seq[y] + 1
  <2>1. received \in [End -> Text \cup {None}]
    BY DEF TypeOK
  <2>2. QED
    BY <1>1, <1>2, <2>1
<1>7. /\ acks_to_send' \in [End -> Seq(Nat)]
      /\ \A y \in End :
            \/ acks_to_send'[y] = acks_to_send[y]
            \/ /\ y = p.to /\ acks_to_send'[y] = Append(acks_to_send[y], p.seq)
               /\ p.seq <= last_received_seq'[y]
  <2>1. acks_to_send \in [End -> Seq(Nat)] /\ last_received_seq[x] \in 0..2
    BY <1>1 DEF TypeOK
  <2>2. CASE acks_to_send' = acks_to_send
    BY <2>1, <2>2
  <2>3. CASE (inSequence \/ repeated) /\ acks_to_send' # acks_to_send
    <3>1. acks_to_send' = [acks_to_send EXCEPT ![x] = Append(acks_to_send[x], p.seq)]
      BY <1>2, <2>3 DEF PushAck
    <3>2. Append(acks_to_send[x], p.seq) \in Seq(Nat)
      BY <1>1, <2>1
    <3>3. p.seq <= last_received_seq'[x]
      BY <1>3, <1>5, <2>1, <2>3
    <3>4. QED
      BY <2>1, <3>1, <3>2, <3>3
  <2>4. QED
    BY <1>2, <2>2, <2>3 DEF ackVars
<1>7a. deficit' \in [End -> Nat] /\ \A y \in End : deficit'[y] <= MaxDeficit[y]
  <2>1. /\ deficit \in [End -> Nat] /\ MaxDeficit \in [End -> Nat]
        /\ \A y \in End : deficit[y] <= MaxDeficit[y]
    BY HandshakeAssumption DEF TypeOK
  <2>2. CASE deficit' = deficit
    BY <2>1, <2>2
  <2>3. CASE deficit[x] > 0 /\ deficit' = [deficit EXCEPT ![x] = @ - 1]
    <3>1. deficit[x] - 1 \in Nat /\ deficit[x] - 1 <= MaxDeficit[x]
      BY <1>1, <2>1, <2>3
    <3>2. QED
      BY <2>1, <2>3, <3>1
  <2>4. QED
    BY <1>2, <2>2, <2>3 DEF PushAck, ackVars
<1>8. net' \subseteq net
  BY <1>2
<1>9. \A y \in End :
          \/ last_received_seq'[y] = last_received_seq[y]
          \/ /\ y = p.to /\ p.seq = last_received_seq[y] + 1
             /\ last_received_seq'[y] = p.seq
  BY <1>5
<1>10. QED
  BY <1>1, <1>2, <1>3, <1>4, <1>5, <1>6, <1>7, <1>8, <1>9, <1>7a

LEMMA ReceiveKeeps ==
    ASSUME HandshakeInv, NEW p \in net, Receive(p)
    PROVE  HandshakeInv'
<1>1. /\ TypeOK /\ PacketFine(p) /\ p.seq <= 2
      /\ UNCHANGED <<clientVars, last_seq, serverVars, waitVars, toListener>>
  BY DEF Receive, HandshakeInv, PacketInv, PacketFine
<1> USE DEF clientVars, serverVars, waitVars
<1>2. /\ p \in Packet /\ p.to \in End /\ Up(p.to)
      /\ p.seq \in 0..2 /\ p.ack \in Int
      /\ net' \subseteq net
      /\ acknowledged' \in [End -> 0..2]
      /\ last_received_seq' \in [End -> 0..2]
      /\ received' \in [End -> Text \cup {None}]
      /\ acks_to_send' \in [End -> Seq(Nat)]
      /\ deficit' \in [End -> Nat] /\ \A y \in End : deficit'[y] <= MaxDeficit[y]
  BY <1>1, ReceiveFacts
<1>3. \A y \in End :
         \/ acknowledged'[y] = acknowledged[y]
         \/ y = p.to /\ acknowledged'[y] <= p.ack /\ acknowledged'[y] <= last_seq[y]
  BY <1>1, ReceiveFacts
<1>4. \A y \in End :
         \/ last_received_seq'[y] = last_received_seq[y]
         \/ /\ y = p.to /\ p.seq = last_received_seq[y] + 1
            /\ last_received_seq'[y] = p.seq
  BY <1>1, ReceiveFacts
<1>5. \A y \in End :
         \/ received'[y] = received[y]
         \/ /\ y = p.to /\ received[y] = None /\ received'[y] = p.text
            /\ p.seq = last_received_seq[y] + 1
  BY <1>1, ReceiveFacts
<1>6. \A y \in End :
         \/ acks_to_send'[y] = acks_to_send[y]
         \/ /\ y = p.to /\ acks_to_send'[y] = Append(acks_to_send[y], p.seq)
            /\ p.seq <= last_received_seq'[y]
  BY <1>1, ReceiveFacts
<1>7. \A y \in End : last_received_seq[y] \in 0..2 /\ acknowledged[y] \in 0..2
  BY <1>1 DEF TypeOK
<1>8. TypeOK'
  <2>1. net' \in SUBSET Packet
    BY <1>1, <1>2 DEF TypeOK
  <2>2. QED
    BY <1>1, <1>2, <2>1 DEF TypeOK
<1>9. Grows
  <2>1. ASSUME NEW k \in Channel
        PROVE  last_received_seq[k] <= last_received_seq'[k]
    <3>1. k \in End
      BY DEF End
    <3>2. last_received_seq[k] \in 0..2
      BY <1>7, <3>1
    <3>3. CASE last_received_seq'[k] = last_received_seq[k]
      BY <3>2, <3>3
    <3>4. CASE last_received_seq'[k] = p.seq /\ p.seq = last_received_seq[k] + 1
      BY <3>2, <3>4
    <3>5. QED
      BY <1>4, <3>1, <3>3, <3>4
  <2>2. ASSUME NEW c \in Client, Confirmed(c) PROVE Confirmed(c)'
    <3>1. starts[c] = 1 => received'[c] = received[c]
      BY <1>5, <2>2, Kinds DEF Confirmed, End
    <3>2. QED
      BY <1>1, <2>2, <3>1 DEF Confirmed
  <2>3. QED
    BY <1>1, <2>1, <2>2 DEF Grows
<1>10. CreatedInv' /\ NoLostWakeup' /\ PacketInv'
  BY <1>1, <1>2, <1>8, <1>9, Untouched
<1>11. TableInv'
  BY <1>1, <1>9, TableStays
<1>12. WindowInv'
  BY <1>1, <1>3 DEF HandshakeInv, WindowInv
<1>13. ClientInv'
  <2> SUFFICES ASSUME NEW c \in Client
               PROVE  /\ app[c] # "down" => starts[c] > 0
                      /\ app[c] \in {"switched", "connected"} => received'[c] \in Channel
                      /\ received'[c] \in Channel => dest[received'[c]] = c
                      /\ received'[c] \in Channel \cup {None, Empty}
                      /\ acknowledged'[c] = 2 => OkTaken(c)'
    BY <1>1 DEF ClientInv
  <2>1. /\ app[c] # "down" => starts[c] > 0
        /\ app[c] \in {"switched", "connected"} => received[c] \in Channel
        /\ received[c] \in Channel => dest[received[c]] = c
        /\ received[c] \in Channel \cup {None, Empty}
        /\ acknowledged[c] = 2 => OkTaken(c)
    BY DEF HandshakeInv, ClientInv
  <2>2. c = p.to => /\ p.text = Empty \/ (p.text \in Channel /\ dest[p.text] = c)
                    /\ p.ack >= 2 => OkTaken(c)
    BY <1>1 DEF PacketFine
  <2>3. c \in End
    BY DEF End
  <2>4. acknowledged'[c] = 2 => OkTaken(c)
    BY <1>2, <1>3, <2>1, <2>2, <2>3
  <2>5. OkTaken(c) => OkTaken(c)'
    BY <1>1, <1>8, <1>9, OkStaysTaken
  <2>6. received'[c] = received[c] \/ (c = p.to /\ received[c] = None /\ received'[c] = p.text)
    BY <1>5, <2>3
  <2>7. QED
    BY <2>1, <2>2, <2>4, <2>5, <2>6, Kinds
<1>14. ChannelInv'
  <2> SUFFICES ASSUME NEW k \in Channel
               PROVE  (IF dest[k] = None
                       THEN received[k] = None /\ acks_to_send[k] = <<>>
                       ELSE /\ last_received_seq[k] >= 1
                            /\ received[k] \in {None, Ok}
                            /\ received[k] = Ok => Confirmed(dest[k])
                            /\ k = listener \/ Registered(dest[k])
                            /\ \A i \in 1..Len(acks_to_send[k]) :
                                  acks_to_send[k][i] <= last_received_seq[k])'
    BY DEF ChannelInv
  <2>1. k \in End /\ dest'[k] = dest[k]
    BY <1>1 DEF End
  <2>2. CASE dest[k] = None
    <3>1. k # p.to
      BY <1>1, <2>2 DEF PacketFine
    <3>2. received'[k] = received[k] /\ acks_to_send'[k] = acks_to_send[k]
      BY <1>5, <1>6, <2>1, <3>1
    <3>3. received[k] = None /\ acks_to_send[k] = <<>>
      BY <2>2 DEF HandshakeInv, ChannelInv
    <3>4. QED
      BY <2>1, <2>2, <3>2, <3>3
  <2>3. CASE dest[k] # None
    <3>1. /\ last_received_seq[k] >= 1 /\ received[k] \in {None, Ok}
          /\ received[k] = Ok => Confirmed(dest[k])
          /\ k = listener \/ Registered(dest[k])
          /\ \A i \in 1..Len(acks_to_send[k]) : acks_to_send[k][i] <= last_received_seq[k]
      BY <2>3 DEF HandshakeInv, ChannelInv
    <3>2. /\ last_received_seq[k] \in 0..2 /\ last_received_seq'[k] \in 0..2
          /\ last_received_seq[k] <= last_received_seq'[k]
      BY <1>2, <1>7, <1>9, <2>1, <2>3 DEF Grows
    <3>3. last_received_seq'[k] >= 1
      BY <3>1, <3>2
    <3>4. received'[k] = received[k] \/ (received'[k] = Ok /\ Confirmed(dest[k]))
      <4> SUFFICES ASSUME received'[k] # received[k]
                   PROVE  received'[k] = Ok /\ Confirmed(dest[k])
        OBVIOUS
      <4>1. k = p.to /\ received'[k] = p.text /\ p.seq = last_received_seq[k] + 1
        BY <1>5, <2>1
      <4>2. p.seq = 2 /\ last_received_seq[k] # 2
        BY <1>1, <1>2, <3>1, <3>2, <4>1
      <4>3. p.text = Ok
        BY <1>1, <4>1, <4>2 DEF PacketFine
      <4>4. Confirmed(dest[k])
        BY <1>1, <4>1, <4>3 DEF PacketFine
      <4>5. QED
        BY <4>1, <4>3, <4>4
    <3>5. Confirmed(dest[k]) => Confirmed(dest[k])'
      <4>1. PICK c \in Client : c = dest[k]
        BY <1>1, <2>3 DEF TypeOK
      <4>2. Confirmed(c) => Confirmed(c)'
        BY <1>9 DEF Grows
      <4>3. QED
        BY <2>1, <4>1, <4>2 DEF Confirmed
    <3>6. k = listener' \/ Registered(dest[k])'
      BY <1>1, <3>1 DEF Registered
    <3>7. \A i \in 1..Len(acks_to_send'[k]) : acks_to_send'[k][i] <= last_received_seq'[k]
      <4>1. acks_to_send[k] \in Seq(Nat)
        BY <1>1, <2>1 DEF TypeOK
      <4>2. ASSUME NEW i \in 1..Len(acks_to_send[k])
            PROVE  acks_to_send[k][i] <= last_received_seq'[k]
        <5>1. acks_to_send[k][i] \in Nat /\ acks_to_send[k][i] <= last_received_seq[k]
          BY <3>1, <4>1
        <5>2. QED
          BY <3>2, <5>1
      <4>3. CASE acks_to_send'[k] = acks_to_send[k]
        BY <4>2, <4>3
      <4>4. CASE /\ acks_to_send'[k] = Append(acks_to_send[k], p.seq)
                 /\ p.seq <= last_received_seq'[k]
        <5>1. Len(acks_to_send'[k]) = Len(acks_to_send[k]) + 1
          BY <4>1, <4>4
        <5>2. \A i \in 1..Len(acks_to_send'[k]) :
                  acks_to_send'[k][i] = IF i = Len(acks_to_send[k]) + 1
                                        THEN p.seq ELSE acks_to_send[k][i]
          BY <4>1, <4>4
        <5>3. Len(acks_to_send[k]) \in Nat
          BY <4>1
        <5>4. QED
          BY <4>2, <4>4, <5>1, <5>2, <5>3
      <4>5. QED
        BY <1>6, <2>1, <4>3, <4>4
    <3>8. QED
      BY <2>1, <2>3, <3>1, <3>3, <3>4, <3>5, <3>6, <3>7
  <2>4. QED
    BY <2>2, <2>3
<1>15. QED
  BY <1>8, <1>10, <1>11, <1>12, <1>13, <1>14 DEF HandshakeInv

-------------------------------------------------------------------------------
(* The client.                                                                *)

\* A client that moves on may need a start, a port, or to keep what it confirmed.
LEMMA AppKeeps ==
    ASSUME HandshakeInv, NEW c \in Client,
           NEW a \in {"down", "asking", "told", "switched", "connected", "aborted"},
           app' = [app EXCEPT ![c] = a],
           UNCHANGED <<starts, channelVars, serverVars, waitVars, netVars>>,
           a # "down" => app[c] # "down",
           a \in {"switched", "connected"} => received[c] \in Channel,
           a \notin {"connected", "down"} => app[c] \notin {"connected", "down"}
    PROVE  HandshakeInv'
<1> USE DEF channelVars, sendVars, recvVars, ackVars, serverVars, waitVars, netVars
<1>1. TypeOK
  BY DEF HandshakeInv
<1>2. /\ app' \in [Client -> {"down", "asking", "told", "switched", "connected", "aborted"}]
      /\ app'[c] = a /\ \A d \in Client : d # c => app'[d] = app[d]
  BY <1>1 DEF TypeOK
<1>3. TypeOK'
  BY <1>1, <1>2 DEF TypeOK
<1>4. Grows
  <2>1. ASSUME NEW d \in Client, Confirmed(d) PROVE Confirmed(d)'
    BY <1>2, <2>1 DEF Confirmed
  <2>2. \A k \in Channel : last_received_seq[k] \in 0..2
    BY <1>1 DEF TypeOK, End
  <2>3. QED
    BY <2>1, <2>2 DEF Grows
<1>5. CreatedInv' /\ WindowInv' /\ PacketInv' /\ NoLostWakeup'
  BY <1>3, <1>4, Untouched
<1>6. TableInv'
  BY <1>4, TableStays
<1>7. ChannelInv'
  <2>1. last_received_seq' \in [End -> 0..2]
    BY <1>3 DEF TypeOK
  <2>2. ASSUME NEW k \in Channel
        PROVE  /\ dest[k] = None => acks_to_send'[k] = <<>>
               /\ dest[k] # None => \A i \in 1..Len(acks_to_send'[k]) :
                                       acks_to_send'[k][i] <= last_received_seq'[k]
    BY DEF HandshakeInv, ChannelInv
  <2>3. QED
    BY <1>4, <2>1, <2>2, ChannelsStay
<1>8. ClientInv'
  <2> SUFFICES ASSUME NEW d \in Client
               PROVE  /\ app'[d] # "down" => starts[d] > 0
                      /\ app'[d] \in {"switched", "connected"} => received[d] \in Channel
    BY DEF HandshakeInv, ClientInv, OkTaken
  <2>1. /\ app[d] # "down" => starts[d] > 0
        /\ app[d] \in {"switched", "connected"} => received[d] \in Channel
    BY DEF HandshakeInv, ClientInv
  <2>2. QED
    BY <1>2, <2>1
<1>9. QED
  BY <1>3, <1>5, <1>6, <1>7, <1>8 DEF HandshakeInv

LEMMA ClientMovesKeep ==
    ASSUME HandshakeInv, NEW c \in Client,
           ClientMain(c) \/ ClientLeaves(c) \/ ClientCrash(c)
    PROVE  HandshakeInv'
<1>1. CASE ReceivePort(c)
  <2>1. app[c] = "asking" /\ app' = [app EXCEPT ![c] = "told"]
        /\ UNCHANGED <<starts, channelVars, serverVars, waitVars, netVars>>
    BY <1>1 DEF ReceivePort
  <2>2. QED
    BY <2>1, AppKeeps
<1>2. CASE SwitchDest(c)
  <2> DEFINE a == IF received[c] \in Channel THEN "switched" ELSE "aborted"
  <2>1. app[c] = "told" /\ app' = [app EXCEPT ![c] = a]
        /\ UNCHANGED <<starts, channelVars, serverVars, waitVars, netVars>>
    BY <1>2 DEF SwitchDest
  <2>2. /\ a \in {"switched", "aborted"}
        /\ a = "switched" => received[c] \in Channel
    OBVIOUS
  <2> HIDE DEF a
  <2>3. QED
    BY <2>1, <2>2, AppKeeps
<1>3. CASE SendOk(c)
  <2>1. app[c] = "switched" /\ app' = [app EXCEPT ![c] = "connected"]
        /\ UNCHANGED <<starts, channelVars, serverVars, waitVars, netVars>>
    BY <1>3 DEF SendOk
  <2>2. received[c] \in Channel
    BY <2>1 DEF HandshakeInv, ClientInv
  <2>3. QED
    BY <2>1, <2>2, AppKeeps
<1>4. CASE ClientLeaves(c) \/ ClientCrash(c)
  <2>1. app' = [app EXCEPT ![c] = "down"]
        /\ UNCHANGED <<starts, channelVars, serverVars, waitVars, netVars>>
    BY <1>4 DEF ClientLeaves, ClientCrash
  <2>2. QED
    BY <2>1, AppKeeps
<1>5. QED
  BY <1>1, <1>2, <1>3, <1>4 DEF ClientMain

LEMMA DeficitReset ==
    ASSUME TypeOK, NEW c \in End, deficit' = [deficit EXCEPT ![c] = 0]
    PROVE  deficit' \in [End -> Nat] /\ \A y \in End : deficit'[y] <= MaxDeficit[y]
<1>1. /\ deficit \in [End -> Nat] /\ MaxDeficit \in [End -> Nat]
      /\ \A y \in End : deficit[y] <= MaxDeficit[y]
  BY HandshakeAssumption DEF TypeOK
<1>2. 0 <= MaxDeficit[c]
  BY <1>1
<1>3. QED
  BY <1>1, <1>2

\* A new process at the address: what the one before confirmed is not held
\* against it.
LEMMA ClientStartKeeps ==
    ASSUME HandshakeInv, NEW c \in Client, ClientStart(c)
    PROVE  HandshakeInv'
<1> USE DEF serverVars, waitVars, netVars
<1>1. TypeOK
  BY DEF HandshakeInv
<1>2. c \in End /\ c # None /\ \A k \in Channel : k \in End /\ k # c
  BY Kinds DEF End
<1>3. /\ app' \in [Client -> {"down", "asking", "told", "switched", "connected", "aborted"}]
      /\ app'[c] = "asking"
      /\ \A d \in Client : d # c => app'[d] = app[d]
  BY <1>1 DEF ClientStart, TypeOK
<1>4. /\ starts' \in [Client -> 0..MaxStarts]
      /\ starts'[c] = starts[c] + 1 /\ starts[c] \in Nat
      /\ \A d \in Client : d # c => starts'[d] = starts[d]
  <2>1. starts \in [Client -> 0..MaxStarts] /\ MaxStarts \in Nat
    BY <1>1, HandshakeAssumption DEF TypeOK
  <2>2. starts[c] + 1 \in 0..MaxStarts /\ starts[c] \in Nat
    BY <2>1 DEF ClientStart
  <2>3. starts' = [starts EXCEPT ![c] = starts[c] + 1]
    BY DEF ClientStart
  <2>4. QED
    BY <2>1, <2>2, <2>3
<1>5. /\ last_seq' \in [End -> 0..2] /\ last_seq'[c] = 0
      /\ \A y \in End : y # c => last_seq'[y] = last_seq[y]
      /\ acknowledged' \in [End -> 0..2] /\ acknowledged'[c] = 0
      /\ \A y \in End : y # c => acknowledged'[y] = acknowledged[y]
      /\ last_received_seq' \in [End -> 0..2]
      /\ \A y \in End : y # c => last_received_seq'[y] = last_received_seq[y]
  BY <1>1, <1>2 DEF ClientStart, TypeOK
<1>6. /\ received' \in [End -> Text \cup {None}] /\ received'[c] = None
      /\ \A y \in End : y # c => received'[y] = received[y]
  BY <1>1, <1>2 DEF ClientStart, TypeOK
<1>6a. deficit' \in [End -> Nat] /\ \A y \in End : deficit'[y] <= MaxDeficit[y]
  BY <1>1, <1>2, DeficitReset DEF ClientStart
<1>7. /\ acks_to_send' \in [End -> Seq(Nat)]
      /\ \A y \in End : y # c => acks_to_send'[y] = acks_to_send[y]
  <2>1. acks_to_send \in [End -> Seq(Nat)] /\ <<>> \in Seq(Nat)
    BY <1>1 DEF TypeOK
  <2>2. acks_to_send' = [acks_to_send EXCEPT ![c] = <<>>]
    BY DEF ClientStart
  <2>3. QED
    BY <1>2, <2>1, <2>2
<1>8. UNCHANGED <<serverVars, waitVars, netVars>>
  BY DEF ClientStart
<1>9. TypeOK'
  BY <1>1, <1>3, <1>4, <1>5, <1>6, <1>7, <1>8, <1>6a DEF TypeOK
<1>10. Grows
  <2>1. ASSUME NEW d \in Client, Confirmed(d) PROVE Confirmed(d)'
    <3>1. CASE d = c
      <4>1. starts[c] > 0
        BY <2>1, <3>1 DEF Confirmed
      <4>2. starts'[c] > 0 /\ starts'[c] # 1
        BY <1>4, <4>1
      <4>3. QED
        BY <3>1, <4>2 DEF Confirmed
    <3>2. CASE d # c
      <4>1. d \in End
        BY DEF End
      <4>2. QED
        BY <1>3, <1>4, <1>5, <1>6, <2>1, <3>2, <4>1 DEF Confirmed
    <3>3. QED
      BY <3>1, <3>2
  <2>2. ASSUME NEW k \in Channel
        PROVE  last_received_seq[k] <= last_received_seq'[k]
    <3>1. last_received_seq'[k] = last_received_seq[k] /\ last_received_seq[k] \in 0..2
      BY <1>1, <1>2, <1>5 DEF TypeOK
    <3>2. QED
      BY <3>1
  <2>3. QED
    BY <1>8, <2>1, <2>2 DEF Grows
<1>11. CreatedInv' /\ PacketInv' /\ NoLostWakeup'
  BY <1>8, <1>9, <1>10, Untouched
<1>12. TableInv'
  BY <1>8, <1>10, TableStays
<1>13. WindowInv'
  <2> SUFFICES ASSUME NEW y \in End PROVE acknowledged'[y] <= last_seq'[y]
    BY DEF WindowInv
  <2>1. CASE y = c
    BY <1>5, <2>1
  <2>2. CASE y # c
    BY <1>5, <2>2 DEF HandshakeInv, WindowInv
  <2>3. QED
    BY <2>1, <2>2
<1>14. ChannelInv'
  <2>1. ASSUME NEW k \in Channel
        PROVE  /\ received'[k] = received[k]
               /\ dest[k] = None => acks_to_send'[k] = <<>>
               /\ dest[k] # None => \A i \in 1..Len(acks_to_send'[k]) :
                                       acks_to_send'[k][i] <= last_received_seq'[k]
    <3>1. /\ received'[k] = received[k] /\ acks_to_send'[k] = acks_to_send[k]
          /\ last_received_seq'[k] = last_received_seq[k]
      BY <1>2, <1>5, <1>6, <1>7
    <3>2. QED
      BY <3>1 DEF HandshakeInv, ChannelInv
  <2>2. QED
    BY <1>5, <1>8, <1>10, <2>1, ChannelsStay
<1>15. ClientInv'
  <2> SUFFICES ASSUME NEW d \in Client
               PROVE  /\ app'[d] # "down" => starts'[d] > 0
                      /\ app'[d] \in {"switched", "connected"} => received'[d] \in Channel
                      /\ received'[d] \in Channel => dest[received'[d]] = d
                      /\ received'[d] \in Channel \cup {None, Empty}
                      /\ acknowledged'[d] = 2 => OkTaken(d)'
    BY <1>8 DEF ClientInv
  <2>1. CASE d = c
    BY <1>3, <1>4, <1>5, <1>6, <2>1, Kinds
  <2>2. CASE d # c
    <3>1. /\ app'[d] = app[d] /\ starts'[d] = starts[d] /\ received'[d] = received[d]
          /\ acknowledged'[d] = acknowledged[d]
      BY <1>3, <1>4, <1>5, <1>6, <2>2 DEF End
    <3>2. OkTaken(d) => OkTaken(d)'
      BY <1>1, <1>9, <1>10, OkStaysTaken
    <3>3. QED
      BY <3>1, <3>2 DEF HandshakeInv, ClientInv
  <2>3. QED
    BY <2>1, <2>2
<1>16. QED
  BY <1>9, <1>11, <1>12, <1>13, <1>14, <1>15 DEF HandshakeInv

-------------------------------------------------------------------------------
(* The listen thread, and who waits for clients.                              *)

\* Nothing but the packets to the listening socket changes, and who is awaited.
LEMMA QuietKeeps ==
    ASSUME HandshakeInv, toListener' \in SUBSET Client, awaiting' \in Seq(Client),
           asleep' \in BOOLEAN, NoLostWakeup',
           UNCHANGED <<clientVars, channelVars, serverVars, net>>
    PROVE  HandshakeInv'
<1> USE DEF clientVars, channelVars, sendVars, recvVars, ackVars, serverVars
<1>1. TypeOK /\ TypeOK'
  BY DEF HandshakeInv, TypeOK
<1>2. Grows
  <2>1. \A c \in Client : Confirmed(c) => Confirmed(c)'
    BY DEF Confirmed
  <2>2. \A k \in Channel : last_received_seq[k] \in 0..2
    BY <1>1 DEF TypeOK, End
  <2>3. QED
    BY <2>1, <2>2 DEF Grows
<1>3. CreatedInv' /\ ClientInv' /\ WindowInv' /\ PacketInv'
  BY <1>1, <1>2, Untouched
<1>4. TableInv'
  BY <1>2, TableStays
<1>5. ChannelInv'
  <2>1. last_received_seq' \in [End -> 0..2]
    BY <1>1 DEF TypeOK
  <2>2. ASSUME NEW k \in Channel
        PROVE  /\ dest[k] = None => acks_to_send'[k] = <<>>
               /\ dest[k] # None => \A i \in 1..Len(acks_to_send'[k]) :
                                       acks_to_send'[k][i] <= last_received_seq'[k]
    BY DEF HandshakeInv, ChannelInv
  <2>3. QED
    BY <1>2, <2>1, <2>2, ChannelsStay
<1>6. QED
  BY <1>1, <1>3, <1>4, <1>5 DEF HandshakeInv

LEMMA TakeKeeps ==
    ASSUME HandshakeInv, NEW c \in Client, ListenKnown(c) \/ ListenFails(c)
    PROVE  HandshakeInv'
<1>1. /\ toListener' \in {toListener, toListener \ {c}}
      /\ UNCHANGED <<clientVars, channelVars, serverVars, waitVars, net>>
  BY DEF ListenKnown, ListenFails, TakeFrom
<1>2. /\ toListener' \in SUBSET Client /\ awaiting' \in Seq(Client)
      /\ asleep' \in BOOLEAN
  BY <1>1 DEF waitVars, HandshakeInv, TypeOK
<1>3. NoLostWakeup'
  BY <1>1, Untouched DEF waitVars, serverVars
<1>4. QED
  BY <1>1, <1>2, <1>3, QuietKeeps

LEMMA WaitKeeps ==
    ASSUME HandshakeInv, Found \/ NotFound
    PROVE  HandshakeInv'
<1>1. TypeOK /\ awaiting \in Seq(Client) /\ awaiting # <<>>
  BY DEF HandshakeInv, TypeOK, Found, NotFound
<1>2. UNCHANGED <<clientVars, channelVars, serverVars, net>> /\ toListener' = toListener
  BY DEF Found, NotFound, netVars
<1>3. toListener' \in SUBSET Client
  BY <1>1, <1>2 DEF TypeOK
<1>4. CASE Found
  <2>1. awaiting' = Tail(awaiting) /\ asleep' = FALSE
    BY <1>1, <1>4 DEF Found, TypeOK
  <2>2. awaiting' \in Seq(Client)
    BY <1>1, <2>1
  <2>3. NoLostWakeup'
    BY <2>1 DEF NoLostWakeup
  <2>4. QED
    BY <1>2, <1>3, <2>1, <2>2, <2>3, QuietKeeps
<1>5. CASE NotFound
  <2>1. awaiting' = awaiting /\ asleep' = TRUE /\ ~Registered(Head(awaiting))
    BY <1>5 DEF NotFound
  <2>2. NoLostWakeup'
    BY <1>2, <2>1 DEF NoLostWakeup, Registered, serverVars
  <2>3. QED
    BY <1>1, <1>2, <1>3, <2>1, <2>2, QuietKeeps
<1>6. QED
  BY <1>4, <1>5

\* A channel for a client that has none: what the listen thread has registered or
\* waits on is all there is, so an unregistered client has no channel.
LEMMA ListenNewKeeps ==
    ASSUME HandshakeInv, NEW c \in Client, ListenNew(c)
    PROVE  HandshakeInv'
<1> DEFINE k == created + 1
<1> USE DEF clientVars, sendVars, ackVars, waitVars
<1>1. TypeOK /\ CreatedInv /\ ChannelInv
  BY DEF HandshakeInv
<1>2. /\ listener = None /\ ~Registered(c) /\ k \in Channel
      /\ created' = k /\ listener' = k
      /\ dest' = [dest EXCEPT ![k] = c]
      /\ last_received_seq' = [last_received_seq EXCEPT ![k] = 1]
      /\ toListener' \in {toListener, toListener \ {c}}
      /\ UNCHANGED <<clientVars, sendVars, received, ackVars, channels,
                     ipport_to_channel, waitVars, net>>
  BY DEF ListenNew, TakeFrom, Unknown, FirstTaken
<1>3. /\ created \in Nat /\ created \in 0..MaxChannels /\ MaxChannels \in Nat
      /\ k \in Nat /\ k \in 0..MaxChannels /\ k # None /\ c # None
      /\ k \in End /\ \A d \in Client : d # k
  <2>1. created \in 0..MaxChannels /\ MaxChannels \in Nat
    BY <1>1, Kinds DEF TypeOK
  <2>2. created \in Nat /\ k \in Nat
    BY <2>1
  <2>3. k \in 0..MaxChannels
    BY <1>2, <2>1 DEF Channel
  <2>4. k # None /\ c # None /\ k \in End /\ \A d \in Client : d # k
    BY <1>2, Kinds DEF End
  <2>5. QED
    BY <2>1, <2>2, <2>3, <2>4
<1>4. dest[k] = None
  BY <1>1, <1>2, <1>3 DEF CreatedInv
<1>5. /\ dest'[k] = c /\ \A j \in Channel : j # k => dest'[j] = dest[j]
      /\ last_received_seq'[k] = 1
      /\ \A y \in End : y # k => last_received_seq'[y] = last_received_seq[y]
      /\ dest' \in [Channel -> Client \cup {None}]
      /\ last_received_seq' \in [End -> 0..2]
  BY <1>1, <1>2, <1>3 DEF TypeOK
<1>6. TypeOK'
  <2>1. toListener' \in SUBSET Client
    BY <1>1, <1>2 DEF TypeOK
  <2>2. QED
    BY <1>1, <1>2, <1>3, <1>5, <2>1 DEF TypeOK
<1>7. Grows
  <2>1. ASSUME NEW j \in Channel, dest[j] # None
        PROVE  dest'[j] = dest[j] /\ last_received_seq[j] <= last_received_seq'[j]
    <3>1. j # k /\ j \in End
      BY <1>4, <2>1 DEF End
    <3>2. last_received_seq[j] \in 0..2
      BY <1>1, <3>1 DEF TypeOK
    <3>3. QED
      BY <1>5, <3>1, <3>2
  <2>2. \A d \in Client : Confirmed(d) => Confirmed(d)'
    BY <1>2 DEF Confirmed
  <2>3. QED
    BY <2>1, <2>2 DEF Grows
<1>8. \A j \in Channel : dest[j] # None => dest[j] # c /\ Registered(dest[j])
  BY <1>1, <1>2, Kinds DEF ChannelInv
<1>9. CreatedInv'
  <2>1. ASSUME NEW j \in Channel PROVE dest'[j] # None <=> j <= k
    <3>1. dest[j] # None <=> j <= created
      BY <1>1 DEF CreatedInv
    <3>2. j \in Nat
      BY Kinds
    <3>3. QED
      BY <1>3, <1>5, <3>1, <3>2
  <2>2. ASSUME NEW i \in 1..k, NEW j \in 1..k, dest'[i] = dest'[j] PROVE i = j
    <3>1. i \in Channel /\ j \in Channel
      BY <1>3 DEF Channel
    <3>2. i # k => i \in 1..created /\ i <= created
      BY <1>3
    <3>3. j # k => j \in 1..created /\ j <= created
      BY <1>3
    <3>4. CASE i # k /\ j # k
      BY <1>1, <1>5, <2>2, <3>1, <3>2, <3>3, <3>4 DEF CreatedInv, OneChannelPerClient
    <3>5. CASE i = k /\ j # k
      <4>1. dest[j] = c /\ dest[j] # None
        BY <1>1, <1>5, <2>2, <3>1, <3>3, <3>5 DEF CreatedInv
      <4>2. QED
        BY <1>8, <3>1, <4>1
    <3>6. CASE i # k /\ j = k
      <4>1. dest[i] = c /\ dest[i] # None
        BY <1>1, <1>5, <2>2, <3>1, <3>2, <3>6 DEF CreatedInv
      <4>2. QED
        BY <1>8, <3>1, <4>1
    <3>7. QED
      BY <3>4, <3>5, <3>6
  <2>3. dest'[k] # None
    BY <1>3, <1>5
  <2>4. QED
    BY <1>2, <2>1, <2>2, <2>3 DEF CreatedInv, OneChannelPerClient
<1>10. ChannelInv'
  <2> SUFFICES ASSUME NEW j \in Channel
               PROVE  (IF dest[j] = None
                       THEN received[j] = None /\ acks_to_send[j] = <<>>
                       ELSE /\ last_received_seq[j] >= 1
                            /\ received[j] \in {None, Ok}
                            /\ received[j] = Ok => Confirmed(dest[j])
                            /\ j = listener \/ Registered(dest[j])
                            /\ \A i \in 1..Len(acks_to_send[j]) :
                                  acks_to_send[j][i] <= last_received_seq[j])'
    BY DEF ChannelInv
  <2>1. CASE j = k
    <3>1. received[j] = None /\ acks_to_send[j] = <<>>
      BY <1>1, <1>4, <2>1 DEF ChannelInv
    <3>2. Len(acks_to_send'[j]) = 0
      BY <1>2, <3>1
    <3>3. received'[j] = None /\ received'[j] # Ok /\ acks_to_send'[j] = <<>>
      BY <1>2, <3>1, Kinds
    <3>4. QED
      BY <1>2, <1>3, <1>5, <2>1, <3>2, <3>3
  <2>2. CASE j # k
    <3>1. /\ dest'[j] = dest[j] /\ last_received_seq'[j] = last_received_seq[j]
          /\ received'[j] = received[j] /\ acks_to_send'[j] = acks_to_send[j]
      BY <1>2, <1>5, <2>2 DEF End
    <3>2. j # listener
      BY <1>2, Kinds
    <3>3. Registered(dest[j]) => Registered(dest[j])'
      BY <1>2, <3>1 DEF Registered
    <3>4. Confirmed(dest[j]) => Confirmed(dest[j])'
      BY <1>2, <3>1 DEF Confirmed
    <3>5. QED
      BY <1>1, <3>1, <3>2, <3>3, <3>4 DEF ChannelInv
  <2>3. QED
    BY <2>1, <2>2
<1>11. ClientInv'
  <2> SUFFICES ASSUME NEW d \in Client
               PROVE  /\ app'[d] # "down" => starts'[d] > 0
                      /\ app'[d] \in {"switched", "connected"} => received'[d] \in Channel
                      /\ received'[d] \in Channel => dest'[received'[d]] = d
                      /\ received'[d] \in Channel \cup {None, Empty}
                      /\ acknowledged'[d] = 2 => OkTaken(d)'
    BY DEF ClientInv
  <2>1. OkTaken(d) => OkTaken(d)'
    BY <1>1, <1>6, <1>7, OkStaysTaken
  <2>2. received[d] \in Channel => dest[received[d]] = d /\ received[d] # k
    BY <1>4, Kinds DEF HandshakeInv, ClientInv
  <2>3. QED
    BY <1>2, <1>5, <2>1, <2>2 DEF HandshakeInv, ClientInv
<1>12. WindowInv' /\ PacketInv' /\ NoLostWakeup'
  BY <1>2, <1>6, <1>7, Untouched
<1>13. TableInv'
  <2>1. ASSUME NEW d \in Client, Registered(d)'
        PROVE  /\ Confirmed(d)'
               /\ \E j \in Channel : /\ dest'[j] = d /\ j # listener'
                                     /\ ipport_to_channel'[d] = channel_number(j)
    <3>1. Registered(d)
      BY <1>2, <2>1 DEF Registered
    <3>2. Confirmed(d)
      BY <3>1 DEF HandshakeInv, TableInv
    <3>3. PICK j \in Channel : dest[j] = d /\ ipport_to_channel[d] = channel_number(j)
      BY <3>1 DEF HandshakeInv, TableInv
    <3>4. j # k
      BY <1>4, <3>3, Kinds
    <3>5. QED
      BY <1>2, <1>5, <3>2, <3>3, <3>4 DEF Confirmed
  <2>2. ASSUME created' <= CountMod, NEW j \in 1..created', j # listener'
        PROVE  channels'[channel_number(j)] = j
    <3>1. CountMod \in Nat
      BY HandshakeAssumption
    <3>2. j \in 1..created /\ created <= CountMod
      BY <1>2, <1>3, <2>2, <3>1
    <3>3. j # listener
      BY <1>2, <1>3, <3>2, Kinds DEF Channel
    <3>4. QED
      BY <1>2, <3>2, <3>3 DEF HandshakeInv, TableInv
  <2>3. QED
    BY <2>1, <2>2 DEF TableInv, channel_number
<1>14. QED
  BY <1>6, <1>9, <1>10, <1>11, <1>12, <1>13 DEF HandshakeInv

\* The listen thread hears "ok", since a channel takes nothing else, and gives the
\* channel the place its number says.
LEMMA ListenerDoneKeeps ==
    ASSUME HandshakeInv, ListenerDone
    PROVE  HandshakeInv'
<1> USE DEF clientVars, channelVars, sendVars, recvVars, ackVars, netVars
<1>1. TypeOK /\ CreatedInv /\ ChannelInv
  BY DEF HandshakeInv
<1>2. PICK L \in Channel, c \in Client : L = listener /\ c = dest[L] /\ L \in 1..created
  <2>1. listener \in Channel
    BY <1>1 DEF ListenerDone, TypeOK
  <2>2. dest[listener] # None
    BY <1>1 DEF ListenerDone, CreatedInv
  <2>3. listener <= created /\ created \in Nat
    BY <1>1, <2>1, <2>2, Kinds DEF CreatedInv, TypeOK
  <2>4. listener \in 1..created
    BY <2>1, <2>3 DEF Channel
  <2>5. dest[listener] \in Client
    BY <1>1, <2>1, <2>2 DEF TypeOK
  <2>6. QED
    BY <2>1, <2>4, <2>5
<1> DEFINE m == channel_number(L)
<1>3. received[L] = Ok /\ Confirmed(c)
  <2>1. received[L] = Ok
    BY <1>1, <1>2, Kinds DEF ChannelInv, ListenerDone, Answered
  <2>2. QED
    BY <1>1, <1>2, <2>1, Kinds DEF ChannelInv
<1>4. m \in 0..(CountMod - 1) /\ m # None
  BY <1>2, NumberFacts, Kinds
<1>5. /\ ipport_to_channel' = [ipport_to_channel EXCEPT ![c] = m]
      /\ channels' = [channels EXCEPT ![m] = L]
      /\ asleep' = FALSE /\ listener' = None
      /\ UNCHANGED <<clientVars, channelVars, dest, created, awaiting, netVars>>
  BY <1>2, <1>3 DEF ListenerDone, notify_all
<1>6. /\ ipport_to_channel' \in [Client -> 0..(CountMod - 1) \cup {None}]
      /\ ipport_to_channel'[c] = m
      /\ \A d \in Client : d # c => ipport_to_channel'[d] = ipport_to_channel[d]
  BY <1>1, <1>2, <1>4, <1>5 DEF TypeOK
<1>7. /\ channels' \in [0..(CountMod - 1) -> Channel \cup {None}]
      /\ channels'[m] = L
      /\ \A n \in 0..(CountMod - 1) : n # m => channels'[n] = channels[n]
  BY <1>1, <1>2, <1>4, <1>5 DEF TypeOK
<1> HIDE DEF m
<1>8. TypeOK'
  BY <1>1, <1>5, <1>6, <1>7 DEF TypeOK
<1>9. \A d \in Client : Confirmed(d) => Confirmed(d)'
  BY <1>5 DEF Confirmed
<1>10. Grows
  <2>1. \A k \in Channel : last_received_seq[k] \in 0..2
    BY <1>1 DEF TypeOK, End
  <2>2. QED
    BY <1>5, <1>9, <2>1 DEF Grows
<1>11. CreatedInv'
  BY <1>1, <1>5 DEF CreatedInv, OneChannelPerClient
<1>12. ClientInv' /\ WindowInv' /\ PacketInv'
  BY <1>5, <1>8, <1>10, Untouched
<1>13. NoLostWakeup'
  BY <1>5 DEF NoLostWakeup
<1>14. Registered(c)' /\ \A d \in Client : Registered(d) => Registered(d)'
  BY <1>4, <1>6 DEF Registered
<1>15. ChannelInv'
  <2> SUFFICES ASSUME NEW j \in Channel, dest[j] # None
               PROVE  Registered(dest[j])' /\ (received[j] = Ok => Confirmed(dest[j])')
    BY <1>1, <1>5 DEF ChannelInv
  <2>1. PICK d \in Client : d = dest[j]
    BY <1>1 DEF TypeOK
  <2>2. Registered(d)'
    <3>1. j = listener => d = c
      BY <1>2, <2>1
    <3>2. j # listener => Registered(d)
      BY <1>1, <2>1 DEF ChannelInv
    <3>3. QED
      BY <1>14, <3>1, <3>2
  <2>3. received[j] = Ok => Confirmed(d)'
    BY <1>1, <1>9, <2>1 DEF ChannelInv
  <2>4. dest'[j] = d
    BY <1>5, <2>1
  <2>5. QED
    BY <2>1, <2>2, <2>3, <2>4 DEF Registered, Confirmed
<1>16. TableInv'
  <2>1. ASSUME NEW d \in Client, Registered(d)'
        PROVE  /\ Confirmed(d)'
               /\ \E j \in Channel : /\ dest'[j] = d /\ j # listener'
                                     /\ ipport_to_channel'[d] = channel_number(j)
    <3>1. CASE d = c
      <4>1. Confirmed(d)'
        BY <1>3, <1>9, <3>1
      <4>2. dest'[L] = d /\ L # listener' /\ ipport_to_channel'[d] = channel_number(L)
        BY <1>2, <1>5, <1>6, <3>1, Kinds DEF m
      <4>3. QED
        BY <1>2, <4>1, <4>2
    <3>2. CASE d # c
      <4>1. Registered(d)
        BY <1>6, <2>1, <3>2 DEF Registered
      <4>2. Confirmed(d)
        BY <4>1 DEF HandshakeInv, TableInv
      <4>3. PICK j \in Channel : dest[j] = d /\ ipport_to_channel[d] = channel_number(j)
        BY <4>1 DEF HandshakeInv, TableInv
      <4>4. dest'[j] = d /\ j # listener' /\ ipport_to_channel'[d] = channel_number(j)
        BY <1>5, <1>6, <3>2, <4>3, Kinds
      <4>5. QED
        BY <1>9, <4>2, <4>4
    <3>3. QED
      BY <3>1, <3>2
  <2>2. ASSUME created <= CountMod, NEW j \in 1..created
        PROVE  channels'[channel_number(j)] = j
    <3>1. CASE j = L
      BY <1>7, <3>1 DEF m
    <3>2. CASE j # L
      <4>1. channels[channel_number(j)] = j
        BY <1>2, <2>2, <3>2 DEF HandshakeInv, TableInv
      <4>2. j \in 1..CountMod /\ L \in 1..CountMod
        <5>1. created \in Nat /\ CountMod \in Nat
          BY <1>1, HandshakeAssumption, Kinds DEF TypeOK
        <5>2. QED
          BY <1>2, <2>2, <5>1
      <4>3. channel_number(j) # m
        BY <3>2, <4>2, NumberFacts DEF m
      <4>4. channel_number(j) \in 0..(CountMod - 1)
        <5>1. created \in 0..MaxChannels /\ MaxChannels \in Nat
          BY <1>1, Kinds DEF TypeOK
        <5>2. j \in Channel
          BY <2>2, <5>1 DEF Channel
        <5>3. QED
          BY <5>2, NumberFacts
      <4>5. QED
        BY <1>7, <4>1, <4>3, <4>4
    <3>3. QED
      BY <3>1, <3>2
  <2>3. created' = created
    BY <1>5
  <2>4. QED
    BY <2>1, <2>2, <2>3 DEF TableInv, channel_number
<1>17. QED
  BY <1>8, <1>11, <1>12, <1>13, <1>15, <1>16 DEF HandshakeInv

-------------------------------------------------------------------------------
(* The invariant.                                                             *)

LEMMA HandshakeInvInit == Init => HandshakeInv
<1> SUFFICES ASSUME Init PROVE HandshakeInv
  OBVIOUS
<1>1. TypeOK
  <2>1. 0 \in 0..2 /\ 0 \in 0..MaxStarts /\ 0 \in 0..MaxChannels /\ <<>> \in Seq(Nat)
    BY HandshakeAssumption
  <2>2. Awaited \in Seq(Client)
    BY HandshakeAssumption
  <2>3. \A x \in End : 0 \in Nat /\ 0 <= MaxDeficit[x]
    BY HandshakeAssumption
  <2>4. QED
    BY <2>1, <2>2, <2>3 DEF Init, TypeOK
<1>2. CreatedInv
  BY Kinds DEF Init, CreatedInv, OneChannelPerClient, Channel
<1>3. ChannelInv
  BY DEF Init, ChannelInv, End
<1>4. ClientInv
  BY Kinds DEF Init, ClientInv, End
<1>5. WindowInv /\ PacketInv /\ NoLostWakeup
  BY DEF Init, WindowInv, PacketInv, NoLostWakeup
<1>6. TableInv
  BY DEF Init, TableInv, Registered
<1>7. QED
  BY <1>1, <1>2, <1>3, <1>4, <1>5, <1>6 DEF HandshakeInv

LEMMA HandshakeInvNext ==
    ASSUME HarmlessGarbage
    PROVE  HandshakeInv /\ [Next]_vars => HandshakeInv'
<1> SUFFICES ASSUME HandshakeInv, [Next]_vars PROVE HandshakeInv'
  OBVIOUS
<1>1. ASSUME NEW x \in End, SendThread(x) PROVE HandshakeInv'
  BY <1>1, SendNewKeeps, ResendKeeps, SendAckKeeps, SendGarbageAckKeeps
     DEF SendThread
<1>2. ASSUME NEW p \in net, Receive(p) PROVE HandshakeInv'
  BY <1>2, ReceiveKeeps
<1>3. ASSUME NEW c \in Client,
             ClientStart(c) \/ ClientMain(c) \/ ClientLeaves(c) \/ ClientCrash(c)
      PROVE  HandshakeInv'
  BY <1>3, ClientStartKeeps, ClientMovesKeep
<1>4. CASE ListenThread
  BY <1>4, TakeKeeps, ListenNewKeeps, ListenerDoneKeeps DEF ListenThread
<1>5. CASE Found \/ NotFound
  BY <1>5, WaitKeeps
<1>6. CASE UNCHANGED vars
  <2>1. UNCHANGED <<clientVars, channelVars, serverVars, net>>
        /\ toListener' = toListener /\ awaiting' = awaiting /\ asleep' = asleep
    BY <1>6 DEF vars, waitVars, netVars
  <2>2. /\ toListener' \in SUBSET Client /\ awaiting' \in Seq(Client)
        /\ asleep' \in BOOLEAN
    BY <2>1 DEF HandshakeInv, TypeOK
  <2>3. NoLostWakeup'
    BY <2>1, Untouched DEF serverVars
  <2>4. QED
    BY <2>1, <2>2, <2>3, QuietKeeps
<1>7. QED
  BY <1>1, <1>2, <1>3, <1>4, <1>5, <1>6 DEF Next

LEMMA HandshakeInvariant ==
    ASSUME HarmlessGarbage
    PROVE  Spec => []HandshakeInv
BY HandshakeInvInit, HandshakeInvNext, PTL DEF Spec

-------------------------------------------------------------------------------
(* What the handshake keeps.                                                  *)

\* handle_new_reliable_connection() makes one channel for a client, however often
\* its "1" arrives and however many processes the address has.
THEOREM ClientsHaveOneChannel ==
    ASSUME HarmlessGarbage
    PROVE  Spec => []OneChannelPerClient
<1>1. HandshakeInv => OneChannelPerClient
  BY DEF HandshakeInv, CreatedInv
<1>2. QED
  BY <1>1, HandshakeInvariant, PTL

\* What listen_server() has neither registered nor waits on, no client knows of.
LEMMA OwnChannelRegistered ==
    ASSUME HandshakeInv, NEW c \in Client, NEW k \in Channel, dest[k] = c
    PROVE  \/ k = listener
           \/ /\ Registered(c)
              /\ ipport_to_channel[c] = channel_number(k)
              /\ created <= CountMod => channels[ipport_to_channel[c]] = k
<1> SUFFICES ASSUME k # listener
             PROVE  /\ Registered(c)
                    /\ ipport_to_channel[c] = channel_number(k)
                    /\ created <= CountMod => channels[ipport_to_channel[c]] = k
  OBVIOUS
<1>1. c # None /\ created \in Nat
  BY Kinds DEF HandshakeInv, TypeOK
<1>2. Registered(c)
  BY <1>1 DEF HandshakeInv, ChannelInv
<1>3. PICK j \in Channel : dest[j] = c /\ ipport_to_channel[c] = channel_number(j)
  BY <1>2 DEF HandshakeInv, TableInv
<1>4. k \in 1..created /\ j \in 1..created
  <2>1. k <= created /\ j <= created
    BY <1>1, <1>3 DEF HandshakeInv, CreatedInv
  <2>2. QED
    BY <1>1, <2>1 DEF Channel
<1>5. j = k
  BY <1>3, <1>4 DEF HandshakeInv, CreatedInv, OneChannelPerClient
<1>6. QED
  BY <1>2, <1>3, <1>4, <1>5 DEF HandshakeInv, TableInv

\* A client that switch_dest() turned to a port sends to the channel made for it,
\* and channels[ipport_to_channel[c]] is a channel of c.
THEOREM ConnectionsNotCrossed ==
    ASSUME HarmlessGarbage
    PROVE  Spec => []NotCrossed
<1>1. ASSUME HandshakeInv, NEW c \in Client
      PROVE  /\ app[c] \in {"switched", "connected"} => dest[received[c]] = c
             /\ Registered(c) /\ created <= CountMod =>
                    /\ channels[ipport_to_channel[c]] # None
                    /\ dest[channels[ipport_to_channel[c]]] = c
  <2>1. app[c] \in {"switched", "connected"} => dest[received[c]] = c
    BY <1>1 DEF HandshakeInv, ClientInv
  <2>2. ASSUME Registered(c), created <= CountMod
        PROVE  /\ channels[ipport_to_channel[c]] # None
               /\ dest[channels[ipport_to_channel[c]]] = c
    <3>1. PICK k \in Channel : dest[k] = c /\ k # listener
      BY <1>1, <2>2 DEF HandshakeInv, TableInv
    <3>2. channels[ipport_to_channel[c]] = k
      BY <1>1, <2>2, <3>1, OwnChannelRegistered
    <3>3. QED
      BY <3>1, <3>2, Kinds
  <2>3. QED
    BY <2>1, <2>2
<1>2. HandshakeInv => NotCrossed
  BY <1>1 DEF NotCrossed
<1>3. QED
  BY <1>2, HandshakeInvariant, PTL

\* The channel a client was told of is one the listen thread waits on or has
\* registered, whichever process at the address was told.
THEOREM ClientsNotAbandoned ==
    ASSUME HarmlessGarbage
    PROVE  Spec => []NotAbandoned
<1>1. ASSUME HandshakeInv, NEW c \in Client, app[c] \in {"switched", "connected"}
      PROVE  \/ received[c] = listener
             \/ /\ Registered(c)
                /\ created <= CountMod => channels[ipport_to_channel[c]] = received[c]
  <2>1. received[c] \in Channel /\ dest[received[c]] = c
    BY <1>1 DEF HandshakeInv, ClientInv
  <2>2. QED
    BY <1>1, <2>1, OwnChannelRegistered
<1>2. HandshakeInv => NotAbandoned
  BY <1>1 DEF NotAbandoned
<1>3. QED
  BY <1>2, HandshakeInvariant, PTL

\* ipport_to_channel has a client only after its process has confirmed the port.
THEOREM RegisteredAreConfirmed ==
    ASSUME HarmlessGarbage
    PROVE  Spec => []RegisteredHasConfirmed
<1>1. HandshakeInv => RegisteredHasConfirmed
  BY DEF HandshakeInv, TableInv, Confirmed, RegisteredHasConfirmed
<1>2. QED
  BY <1>1, HandshakeInvariant, PTL

\* ListenerDone alone writes the tables, and the channel it writes is the first and
\* only one of its client, under a number no other has.
LEMMA RegisteredStays ==
    ASSUME HandshakeInv, [Next]_vars, NEW c \in Client, Registered(c)
    PROVE  /\ ipport_to_channel'[c] = ipport_to_channel[c]
           /\ created <= CountMod =>
                  channels'[ipport_to_channel[c]] = channels[ipport_to_channel[c]]
<1>1. CASE UNCHANGED <<ipport_to_channel, channels>>
  BY <1>1
<1>2. CASE ListenerDone
  <2>1. TypeOK /\ CreatedInv /\ listener \in Channel
    BY <1>2 DEF HandshakeInv, ListenerDone, TypeOK
  <2>2. PICK k \in Channel : /\ dest[k] = c /\ k # listener
                             /\ ipport_to_channel[c] = channel_number(k)
    BY DEF HandshakeInv, TableInv
  <2>3. created \in 0..MaxChannels /\ created \in Nat /\ MaxChannels \in Nat
    BY <2>1, Kinds DEF TypeOK
  <2>4. k \in 1..created /\ listener \in 1..created
    <3>1. dest[k] # None /\ dest[listener] # None
      BY <2>1, <2>2, Kinds DEF CreatedInv
    <3>2. k <= created /\ listener <= created
      BY <2>1, <3>1 DEF CreatedInv
    <3>3. QED
      BY <2>1, <2>3, <3>2 DEF Channel
  <2>5. dest[listener] # c
    BY <2>1, <2>2, <2>4 DEF CreatedInv, OneChannelPerClient
  <2>6. \/ UNCHANGED <<ipport_to_channel, channels>>
        \/ /\ ipport_to_channel' = [ipport_to_channel EXCEPT
                                      ![dest[listener]] = channel_number(listener)]
           /\ channels' = [channels EXCEPT ![channel_number(listener)] = listener]
    BY <1>2 DEF ListenerDone
  <2>7. ipport_to_channel'[c] = ipport_to_channel[c]
    BY <2>1, <2>5, <2>6 DEF TypeOK
  <2>8. ASSUME created <= CountMod
        PROVE  channels'[ipport_to_channel[c]] = channels[ipport_to_channel[c]]
    <3>1. CountMod \in Nat
      BY HandshakeAssumption
    <3>2. k \in 1..CountMod /\ listener \in 1..CountMod
      BY <2>3, <2>4, <2>8, <3>1
    <3>3. channel_number(k) # channel_number(listener)
      BY <2>2, <3>2, NumberFacts
    <3>4. ipport_to_channel[c] \in 0..(CountMod - 1)
      BY <2>2, NumberFacts
    <3>5. channels \in [0..(CountMod - 1) -> Channel \cup {None}]
      BY <2>1 DEF TypeOK
    <3>6. QED
      BY <2>2, <2>6, <3>3, <3>4, <3>5
  <2>9. QED
    BY <2>7, <2>8
<1> USE DEF serverVars
<1>3. ASSUME NEW x \in End, SendThread(x) PROVE UNCHANGED <<ipport_to_channel, channels>>
  BY <1>3 DEF SendThread, SendNew, Resend, SendAck, SendGarbageAck
<1>4. ASSUME NEW p \in net, Receive(p) PROVE UNCHANGED <<ipport_to_channel, channels>>
  BY <1>4 DEF Receive
<1>5. ASSUME NEW d \in Client,
             ClientStart(d) \/ ClientMain(d) \/ ClientLeaves(d) \/ ClientCrash(d)
      PROVE  UNCHANGED <<ipport_to_channel, channels>>
  BY <1>5 DEF ClientStart, ClientMain, ReceivePort, SwitchDest, SendOk, ClientLeaves,
              ClientCrash
<1>6. ASSUME NEW d \in Client, ListenKnown(d) \/ ListenFails(d) \/ ListenNew(d)
      PROVE  UNCHANGED <<ipport_to_channel, channels>>
  BY <1>6 DEF ListenKnown, ListenFails, ListenNew
<1>7. Found \/ NotFound => UNCHANGED <<ipport_to_channel, channels>>
  BY DEF Found, NotFound
<1>8. UNCHANGED vars => UNCHANGED <<ipport_to_channel, channels>>
  BY DEF vars
<1>9. QED
  BY <1>1, <1>2, <1>3, <1>4, <1>5, <1>6, <1>7, <1>8 DEF Next, ListenThread

\* What handle_new_reliable_connection() has put into ipport_to_channel and channels
\* for a client, it never replaces.
THEOREM RegistrationLasts ==
    ASSUME HarmlessGarbage
    PROVE  Spec => RegisteredForGood
<1> DEFINE Kept == \A c \in Client : Registered(c) =>
                      /\ ipport_to_channel'[c] = ipport_to_channel[c]
                      /\ created <= CountMod =>
                           channels'[ipport_to_channel[c]] = channels[ipport_to_channel[c]]
<1>1. HandshakeInv /\ [Next]_vars => Kept
  BY RegisteredStays
<1>2. HandshakeInv /\ [Next]_vars => [Kept]_vars
  BY <1>1
<1>3. QED
  BY <1>2, HandshakeInvariant, PTL DEF Spec, RegisteredForGood

-------------------------------------------------------------------------------
(* What garbage cannot break: the types, and that no wake-up is lost.         *)

\* A client has switched to a port it was told of, and no end sends more than two
\* messages.
BasicInv ==
    /\ TypeOK
    /\ \A c \in Client : app[c] \in {"switched", "connected"} => received[c] \in Channel
    /\ \A p \in net : p.seq <= 2

LEMMA DestIsEnd ==
    ASSUME BasicInv, NEW x \in End, Up(x), ~ToListener(x)
    PROVE  DestOf(x) \in End
<1>1. CASE x \in Client
  <2>1. app[x] \in {"switched", "connected"}
    BY <1>1 DEF Up, ClientUp, ToListener
  <2>2. QED
    BY <1>1, <2>1 DEF BasicInv, DestOf, End
<1>2. CASE x \in Channel
  <2>1. x \notin Client
    BY <1>2, Kinds
  <2>2. dest[x] \in Client \cup {None} /\ dest[x] # None
    BY <1>2, <2>1 DEF BasicInv, TypeOK, Up
  <2>3. QED
    BY <2>1, <2>2 DEF DestOf, End
<1>3. QED
  BY <1>1, <1>2 DEF End

LEMMA CreatedIsPacket ==
    ASSUME NEW x, DestOf(x) \in End, NEW seq \in 0..2, NEW text \in Text, NEW ack \in Int
    PROVE  create_packet(x, seq, text, ack) \in Packet
           /\ create_packet(x, seq, text, ack).seq <= 2
BY DEF create_packet, Packet

\* A send thread puts packets on its way and changes none of the rest but numbers.
LEMMA BasicSend ==
    ASSUME BasicInv, NEW x \in End, NEW packets, Transmit(x, packets),
           ~ToListener(x) => \A p \in packets : p \in Packet /\ p.seq <= 2,
           AcksLeft, last_seq' \in [End -> 0..2],
           UNCHANGED <<clientVars, acknowledged, recvVars, serverVars, waitVars>>
    PROVE  BasicInv'
<1> USE DEF clientVars, recvVars, serverVars, waitVars
<1>1. TypeOK
  BY DEF BasicInv
<1>2. /\ toListener' \in SUBSET Client
      /\ ToListener(x) => net' = net
      /\ ~ToListener(x) => net' \subseteq net \cup packets
  BY <1>1, TransmitFacts
<1>3. net' \in SUBSET Packet /\ \A p \in net' : p.seq <= 2
  <2>1. net \in SUBSET Packet /\ \A p \in net : p.seq <= 2
    BY DEF BasicInv, TypeOK
  <2>2. QED
    BY <1>2, <2>1
<1>4. TypeOK'
  BY <1>1, <1>2, <1>3 DEF TypeOK, AcksLeft
<1>5. QED
  BY <1>3, <1>4 DEF BasicInv

LEMMA BasicSendThread ==
    ASSUME BasicInv, NEW x \in End, SendThread(x)
    PROVE  BasicInv'
<1>1. /\ TypeOK /\ Up(x)
      /\ last_seq \in [End -> 0..2] /\ acknowledged[x] \in 0..2
      /\ last_received_seq[x] \in 0..2 /\ acks_to_send[x] \in Seq(Nat)
  BY DEF BasicInv, TypeOK, SendThread, SendNew, Resend, SendAck, SendGarbageAck
<1>2. UNCHANGED <<clientVars, acknowledged, recvVars, serverVars, waitVars>>
  BY DEF SendThread, SendNew, Resend, SendAck, SendGarbageAck, sendVars
<1>3. ASSUME NEW last \in 0..2, ~ToListener(x), NEW p \in WindowPackets(x, last)
      PROVE  p \in Packet /\ p.seq <= 2
  <2>1. PICK n \in (acknowledged[x] + 1)..last :
            p = create_packet(x, n, TextOf(x, n), last_received_seq[x])
    BY DEF WindowPackets
  <2>2. n \in 0..2 /\ last_received_seq[x] \in Int
    BY <1>1
  <2>3. TextOf(x, n) \in Text
    BY DEF TextOf, Text
  <2>4. DestOf(x) \in End
    BY <1>1, <1>3, DestIsEnd
  <2>5. QED
    BY <2>1, <2>2, <2>3, <2>4, CreatedIsPacket
<1>4. ASSUME NEW ack \in Int, ~ToListener(x)
      PROVE  /\ create_packet(x, last_seq[x], Empty, ack) \in Packet
             /\ create_packet(x, last_seq[x], Empty, ack).seq <= 2
  BY <1>1, <1>4, DestIsEnd, CreatedIsPacket DEF Text
<1>5. CASE SendNew(x)
  <2> DEFINE last == last_seq[x] + 1
             w == WindowPackets(x, last)
             one == {p \in w : p.seq = last}
  <2>1. last \in 0..2 /\ last_seq' \in [End -> 0..2]
    <3>1. last_seq[x] < Given(x) /\ Given(x) \in {1, 2} /\ last_seq[x] \in 0..2
      BY <1>1, <1>5 DEF SendNew, Given
    <3>2. last \in 0..2
      BY <3>1
    <3>3. last_seq' = [last_seq EXCEPT ![x] = last]
      BY <1>5 DEF SendNew
    <3>4. QED
      BY <1>1, <3>2, <3>3
  <2>2. ~ToListener(x) => \A p \in w : p \in Packet /\ p.seq <= 2
    BY <1>3, <2>1
  <2>3. CASE Transmit(x, one) /\ PopAcks(x, 1)
    <3>1. ~ToListener(x) => \A p \in one : p \in Packet /\ p.seq <= 2
      BY <2>2
    <3>2. AcksLeft
      BY <1>1, <2>3, PopFacts
    <3> HIDE DEF one
    <3>3. QED
      BY <1>2, <2>1, <2>3, <3>1, <3>2, BasicSend
  <2>4. CASE Transmit(x, w) /\ PopAcks(x, 1 + Cardinality(w))
    <3>1. 1 + Cardinality(w) \in Nat
      <4>1. Cardinality(w) \in Nat
        BY <1>1, <2>1, WindowCounts
      <4>2. QED
        BY <4>1
    <3>2. AcksLeft
      BY <1>1, <2>4, <3>1, PopFacts
    <3> HIDE DEF w
    <3>3. QED
      BY <1>2, <2>1, <2>2, <2>4, <3>2, BasicSend
  <2>5. QED
    BY <1>5, <2>3, <2>4 DEF SendNew
<1>6. CASE Resend(x)
  <2> DEFINE w == WindowPackets(x, last_seq[x])
  <2>1. /\ Transmit(x, w) /\ PopAcks(x, last_seq[x] - acknowledged[x])
        /\ last_seq' = last_seq /\ acknowledged[x] < last_seq[x]
    BY <1>6 DEF Resend, sendVars
  <2>2. last_seq[x] - acknowledged[x] \in Nat /\ last_seq[x] \in 0..2
    BY <1>1, <2>1
  <2>3. ~ToListener(x) => \A p \in w : p \in Packet /\ p.seq <= 2
    BY <1>3, <2>2
  <2>4. AcksLeft
    BY <1>1, <2>1, <2>2, PopFacts
  <2> HIDE DEF w
  <2>5. QED
    BY <1>1, <1>2, <2>1, <2>3, <2>4, BasicSend
<1>7. CASE SendAck(x)
  <2> DEFINE a == {create_packet(x, last_seq[x], Empty, Head(acks_to_send[x]))}
  <2>1. Transmit(x, a) /\ PopAcks(x, 1) /\ last_seq' = last_seq /\ acks_to_send[x] # <<>>
    BY <1>7 DEF SendAck, sendVars
  <2>2. Head(acks_to_send[x]) \in Int
    <3>1. Head(acks_to_send[x]) \in Nat
      BY <1>1, <2>1
    <3>2. QED
      BY <3>1
  <2>3. ~ToListener(x) => \A p \in a : p \in Packet /\ p.seq <= 2
    BY <1>4, <2>2
  <2>4. AcksLeft
    BY <1>1, <2>1, PopFacts
  <2> HIDE DEF a
  <2>5. QED
    BY <1>1, <1>2, <2>1, <2>3, <2>4, BasicSend
<1>8. CASE SendGarbageAck(x)
  <2>1. PICK ack \in Garbage : Transmit(x, {create_packet(x, last_seq[x], Empty, ack)})
    BY <1>8 DEF SendGarbageAck
  <2> DEFINE a == {create_packet(x, last_seq[x], Empty, ack)}
  <2>2. Transmit(x, a) /\ last_seq' = last_seq
    BY <1>8, <2>1 DEF SendGarbageAck, sendVars
  <2>3. ~ToListener(x) => \A p \in a : p \in Packet /\ p.seq <= 2
    BY <1>4, HandshakeAssumption
  <2>4. AcksLeft
    BY <1>1, <1>8, GarbageAcksLeft
  <2> HIDE DEF a
  <2>5. QED
    BY <1>1, <1>2, <2>2, <2>3, <2>4, BasicSend
<1>9. QED
  BY <1>5, <1>6, <1>7, <1>8 DEF SendThread

LEMMA BasicReceive ==
    ASSUME BasicInv, NEW p \in net, Receive(p)
    PROVE  BasicInv'
<1>1. TypeOK /\ p.seq <= 2
  BY DEF BasicInv
<1>2. /\ UNCHANGED <<clientVars, last_seq, serverVars, waitVars, toListener>>
      /\ net' \subseteq net
      /\ acknowledged' \in [End -> 0..2]
      /\ last_received_seq' \in [End -> 0..2]
      /\ received' \in [End -> Text \cup {None}]
      /\ acks_to_send' \in [End -> Seq(Nat)]
      /\ deficit' \in [End -> Nat] /\ \A y \in End : deficit'[y] <= MaxDeficit[y]
  BY <1>1, ReceiveFacts DEF Receive
<1>3. \A y \in End : received'[y] = received[y] \/ received[y] = None
  BY <1>1, ReceiveFacts
<1> USE DEF clientVars, serverVars, waitVars
<1>4. TypeOK'
  <2>1. net' \in SUBSET Packet
    BY <1>1, <1>2 DEF TypeOK
  <2>2. QED
    BY <1>1, <1>2, <2>1 DEF TypeOK
<1>5. ASSUME NEW c \in Client, app[c] \in {"switched", "connected"}
      PROVE  received'[c] \in Channel
  <2>1. received[c] \in Channel
    BY <1>5 DEF BasicInv
  <2>2. QED
    BY <1>3, <2>1, Kinds DEF End
<1>6. QED
  BY <1>2, <1>4, <1>5 DEF BasicInv

LEMMA BasicStart ==
    ASSUME BasicInv, NEW c \in Client, ClientStart(c)
    PROVE  BasicInv'
<1>1. TypeOK
  BY DEF BasicInv
<1>2. c \in End /\ \A d \in Client : d \in End
  BY DEF End
<1>3. /\ app' \in [Client -> {"down", "asking", "told", "switched", "connected", "aborted"}]
      /\ app'[c] = "asking"
      /\ \A d \in Client : d # c => app'[d] = app[d]
  BY <1>1 DEF ClientStart, TypeOK
<1>4. starts' \in [Client -> 0..MaxStarts]
  <2>1. starts \in [Client -> 0..MaxStarts] /\ MaxStarts \in Nat
    BY <1>1, HandshakeAssumption DEF TypeOK
  <2>2. starts[c] + 1 \in 0..MaxStarts /\ starts' = [starts EXCEPT ![c] = starts[c] + 1]
    BY <2>1 DEF ClientStart
  <2>3. QED
    BY <2>1, <2>2
<1>5. /\ last_seq' \in [End -> 0..2] /\ acknowledged' \in [End -> 0..2]
      /\ last_received_seq' \in [End -> 0..2]
  BY <1>1, <1>2 DEF ClientStart, TypeOK
<1>6. /\ received' \in [End -> Text \cup {None}]
      /\ \A y \in End : y # c => received'[y] = received[y]
  BY <1>1, <1>2 DEF ClientStart, TypeOK
<1>7. acks_to_send' \in [End -> Seq(Nat)]
  <2>1. acks_to_send \in [End -> Seq(Nat)] /\ <<>> \in Seq(Nat)
    BY <1>1 DEF TypeOK
  <2>2. QED
    BY <1>2, <2>1 DEF ClientStart
<1>8. deficit' \in [End -> Nat] /\ \A y \in End : deficit'[y] <= MaxDeficit[y]
  BY <1>1, <1>2, DeficitReset DEF ClientStart
<1>9. UNCHANGED <<serverVars, waitVars, netVars>>
  BY DEF ClientStart
<1> USE DEF serverVars, waitVars, netVars
<1>10. TypeOK'
  BY <1>1, <1>3, <1>4, <1>5, <1>6, <1>7, <1>8, <1>9 DEF TypeOK
<1>11. \A d \in Client : app'[d] \in {"switched", "connected"} => received'[d] \in Channel
  BY <1>2, <1>3, <1>6 DEF BasicInv
<1>12. QED
  BY <1>9, <1>10, <1>11 DEF BasicInv

LEMMA BasicClient ==
    ASSUME BasicInv, NEW c \in Client,
           ClientMain(c) \/ ClientLeaves(c) \/ ClientCrash(c)
    PROVE  BasicInv'
<1>1. TypeOK
  BY DEF BasicInv
<1>2. UNCHANGED <<starts, channelVars, serverVars, waitVars, netVars>>
  BY DEF ClientMain, ReceivePort, SwitchDest, SendOk, ClientLeaves, ClientCrash
<1> USE DEF channelVars, sendVars, recvVars, ackVars, serverVars, waitVars, netVars
<1>3. PICK a \in {"down", "told", "switched", "connected", "aborted"} :
          /\ app' = [app EXCEPT ![c] = a]
          /\ a = "switched" => received[c] \in Channel
          /\ a = "connected" => app[c] = "switched"
  BY DEF ClientMain, ReceivePort, SwitchDest, SendOk, ClientLeaves, ClientCrash
<1>4. /\ app' \in [Client -> {"down", "asking", "told", "switched", "connected", "aborted"}]
      /\ app'[c] = a /\ \A d \in Client : d # c => app'[d] = app[d]
  BY <1>1, <1>3 DEF TypeOK
<1>5. TypeOK'
  BY <1>1, <1>2, <1>4 DEF TypeOK
<1>6. \A d \in Client : app'[d] \in {"switched", "connected"} => received[d] \in Channel
  BY <1>3, <1>4 DEF BasicInv
<1>7. QED
  BY <1>2, <1>5, <1>6 DEF BasicInv

LEMMA BasicServer ==
    ASSUME BasicInv, ListenThread \/ Found \/ NotFound
    PROVE  BasicInv'
<1>1. TypeOK
  BY DEF BasicInv
<1>2. SUFFICES TypeOK' /\ UNCHANGED <<app, received, net>>
  BY DEF BasicInv
<1> USE DEF clientVars, channelVars, sendVars, recvVars, ackVars, serverVars, waitVars,
            netVars
<1>3. ASSUME NEW c \in Client, ListenKnown(c) \/ ListenFails(c)
      PROVE  TypeOK' /\ UNCHANGED <<app, received, net>>
  <2>1. toListener' \in SUBSET Client
    BY <1>1, <1>3 DEF ListenKnown, ListenFails, TakeFrom, TypeOK
  <2>2. QED
    BY <1>1, <1>3, <2>1 DEF ListenKnown, ListenFails, TakeFrom, TypeOK
<1>4. ASSUME NEW c \in Client, ListenNew(c)
      PROVE  TypeOK' /\ UNCHANGED <<app, received, net>>
  <2> DEFINE k == created + 1
  <2>1. /\ k \in Channel /\ created' = k /\ listener' = k
        /\ dest' = [dest EXCEPT ![k] = c]
        /\ last_received_seq' = [last_received_seq EXCEPT ![k] = 1]
        /\ toListener' \in {toListener, toListener \ {c}}
        /\ UNCHANGED <<clientVars, sendVars, received, ackVars, channels,
                       ipport_to_channel, waitVars, net>>
    BY <1>4 DEF ListenNew, TakeFrom, FirstTaken
  <2>2. k \in 0..MaxChannels
    BY <2>1, Kinds DEF Channel
  <2> HIDE DEF k
  <2>3. toListener' \in SUBSET Client
    BY <1>1, <2>1 DEF TypeOK
  <2>4. dest' \in [Channel -> Client \cup {None}]
    BY <1>1, <2>1 DEF TypeOK
  <2>5. last_received_seq' \in [End -> 0..2]
    <3>1. k \in End
      BY <2>1 DEF End
    <3>2. QED
      BY <1>1, <2>1, <3>1 DEF TypeOK
  <2>6. QED
    BY <1>1, <2>1, <2>2, <2>3, <2>4, <2>5 DEF TypeOK
<1>5. CASE ListenerDone
  <2>1. listener \in Channel
    BY <1>1, <1>5 DEF ListenerDone, TypeOK
  <2>2. channel_number(listener) \in 0..(CountMod - 1)
    BY <2>1, NumberFacts
  <2>3. /\ ipport_to_channel' \in [Client -> 0..(CountMod - 1) \cup {None}]
        /\ channels' \in [0..(CountMod - 1) -> Channel \cup {None}]
        /\ asleep' \in BOOLEAN
    <3>1. /\ ipport_to_channel \in [Client -> 0..(CountMod - 1) \cup {None}]
          /\ channels \in [0..(CountMod - 1) -> Channel \cup {None}]
          /\ asleep \in BOOLEAN
      BY <1>1 DEF TypeOK
    <3>2. CASE received[listener] = Ok
      BY <1>5, <2>1, <2>2, <3>1, <3>2 DEF ListenerDone, notify_all
    <3>3. CASE received[listener] # Ok
      BY <1>5, <3>1, <3>3 DEF ListenerDone
    <3>4. QED
      BY <3>2, <3>3
  <2>4. listener' = None
        /\ UNCHANGED <<clientVars, channelVars, dest, created, awaiting, netVars>>
    BY <1>5 DEF ListenerDone
  <2>5. QED
    BY <1>1, <2>3, <2>4 DEF TypeOK
<1>6. CASE Found \/ NotFound
  <2>1. awaiting' \in Seq(Client) /\ asleep' \in BOOLEAN
    <3>1. awaiting \in Seq(Client) /\ asleep \in BOOLEAN
      BY <1>1 DEF TypeOK
    <3>2. CASE Found
      <4>1. awaiting # <<>> /\ awaiting' = Tail(awaiting) /\ asleep' = asleep
        BY <3>2 DEF Found
      <4>2. Tail(awaiting) \in Seq(Client)
        BY <3>1, <4>1
      <4>3. QED
        BY <3>1, <4>1, <4>2
    <3>3. CASE NotFound
      BY <3>1, <3>3 DEF NotFound
    <3>4. QED
      BY <1>6, <3>2, <3>3
  <2>2. UNCHANGED <<clientVars, channelVars, serverVars, netVars>>
    BY <1>6 DEF Found, NotFound
  <2>3. QED
    BY <1>1, <2>1, <2>2 DEF TypeOK
<1>7. QED
  BY <1>3, <1>4, <1>5, <1>6 DEF ListenThread

\* The variables have the types the code's variables have, whatever is read past
\* the end of acks_to_send.
THEOREM HandshakeTypes == Spec => []TypeOK
<1>1. Init => BasicInv
  BY HandshakeInvInit DEF Init, BasicInv, HandshakeInv
<1>2. BasicInv /\ [Next]_vars => BasicInv'
  <2>1. BasicInv /\ Next => BasicInv'
    BY BasicSendThread, BasicReceive, BasicStart, BasicClient, BasicServer DEF Next
  <2>2. BasicInv /\ UNCHANGED vars => BasicInv'
    BY DEF BasicInv, TypeOK, vars, clientVars, channelVars, sendVars, recvVars, ackVars,
           serverVars, waitVars, netVars
  <2>3. QED
    BY <2>1, <2>2
<1>3. BasicInv => TypeOK
  BY DEF BasicInv
<1>4. QED
  BY <1>1, <1>2, <1>3, PTL DEF Spec

\* wait_for_ipport() does not sleep on channels_cv for a client that is there: what
\* fills ipport_to_channel also wakes it.
THEOREM HandshakeNoLostWakeup == Spec => []NoLostWakeup
<1>1. Init => NoLostWakeup
  BY DEF Init, NoLostWakeup
<1>2. NoLostWakeup /\ [Next]_vars => NoLostWakeup'
  <2> SUFFICES ASSUME NoLostWakeup, [Next]_vars PROVE NoLostWakeup'
    OBVIOUS
  <2> USE DEF serverVars, waitVars
  <2>1. CASE UNCHANGED <<ipport_to_channel, waitVars>>
    BY <2>1 DEF NoLostWakeup, Registered
  <2>2. CASE ListenerDone
    BY <2>2 DEF ListenerDone, notify_all, NoLostWakeup, Registered
  <2>3. CASE Found
    BY <2>3 DEF Found, NoLostWakeup
  <2>4. CASE NotFound
    BY <2>4 DEF NotFound, NoLostWakeup, Registered
  <2>5. ASSUME NEW x \in End, SendThread(x)
        PROVE  UNCHANGED <<ipport_to_channel, waitVars>>
    BY <2>5 DEF SendThread, SendNew, Resend, SendAck, SendGarbageAck
  <2>6. ASSUME NEW p \in net, Receive(p) PROVE UNCHANGED <<ipport_to_channel, waitVars>>
    BY <2>6 DEF Receive
  <2>7. ASSUME NEW c \in Client,
               ClientStart(c) \/ ClientMain(c) \/ ClientLeaves(c) \/ ClientCrash(c)
        PROVE  UNCHANGED <<ipport_to_channel, waitVars>>
    BY <2>7 DEF ClientStart, ClientMain, ReceivePort, SwitchDest, SendOk, ClientLeaves,
                ClientCrash
  <2>8. ASSUME NEW c \in Client, ListenKnown(c) \/ ListenFails(c) \/ ListenNew(c)
        PROVE  UNCHANGED <<ipport_to_channel, waitVars>>
    BY <2>8 DEF ListenKnown, ListenFails, ListenNew, TakeFrom
  <2>9. UNCHANGED vars => UNCHANGED <<ipport_to_channel, waitVars>>
    BY DEF vars
  <2>10. QED
    BY <2>1, <2>2, <2>3, <2>4, <2>5, <2>6, <2>7, <2>8, <2>9 DEF Next, ListenThread
<1>3. QED
  BY <1>1, <1>2, PTL DEF Spec
===============================================================================
