------------------------- MODULE ReliableChannelProofs -------------------------
(***************************************************************************)
(* Theorems about ReliableChannel, for every value of its constants.       *)
(***************************************************************************)
EXTENDS ReliableChannel, SequenceTheorems, TLAPS

Payload == Msg \cup {Empty}

-------------------------------------------------------------------------------
(* Sequences.                                                                 *)

LEMMA TailFacts ==
    ASSUME NEW S, NEW s \in Seq(S), s # <<>>
    PROVE  /\ Len(s) \in Nat \ {0}
           /\ Head(s) = s[1]
           /\ s[1] \in S
           /\ Tail(s) \in Seq(S)
           /\ Len(Tail(s)) = Len(s) - 1
           /\ \A i \in 1..(Len(s) - 1) : Tail(s)[i] = s[i + 1]
BY HeadTailProperties, EmptySeq

LEMMA AppendFacts ==
    ASSUME NEW S, NEW s \in Seq(S), NEW x \in S
    PROVE  /\ Append(s, x) \in Seq(S)
           /\ Len(Append(s, x)) = Len(s) + 1
           /\ \A i \in 1..Len(s) : Append(s, x)[i] = s[i]
           /\ Append(s, x)[Len(s) + 1] = x
BY AppendProperties

\* What is left of a sequence without its first n elements, or of all of it.
LEMMA DropFacts ==
    ASSUME NEW S, NEW s \in Seq(S), NEW n \in Nat
    PROVE  /\ SubSeq(s, n + 1, Len(s)) \in Seq(S)
           /\ n <= Len(s) => Len(SubSeq(s, n + 1, Len(s))) = Len(s) - n
           /\ n > Len(s) => Len(SubSeq(s, n + 1, Len(s))) = 0
           /\ \A i \in 1..(Len(s) - n) : SubSeq(s, n + 1, Len(s))[i] = s[n + i]
<1>1. Len(s) \in Nat /\ \A i \in (n + 1)..Len(s) : s[i] \in S
  BY LenProperties, ElementOfSeq
<1>2. /\ SubSeq(s, n + 1, Len(s)) \in Seq(S)
      /\ Len(SubSeq(s, n + 1, Len(s))) =
           IF n + 1 <= Len(s) THEN Len(s) - (n + 1) + 1 ELSE 0
      /\ \A i \in 1..(Len(s) - (n + 1) + 1) :
           SubSeq(s, n + 1, Len(s))[i] = s[(n + 1) + i - 1]
  BY <1>1, SubSeqProperties
<1>3. QED
  BY <1>1, <1>2

LEMMA ConcatFacts ==
    ASSUME NEW S, NEW s \in Seq(S), NEW t \in Seq(S)
    PROVE  /\ Len(s \o t) \in Nat
           /\ Len(s \o t) - Len(s) = Len(t)
           /\ \A i \in 1..Len(s) : (s \o t)[i] = s[i]
           /\ \A i \in 1..Len(t) : (s \o t)[Len(s) + i] = t[i]
<1>1. /\ Len(s) \in Nat /\ Len(t) \in Nat
      /\ Len(s \o t) = Len(s) + Len(t)
      /\ \A i \in 1..(Len(s) + Len(t)) :
            (s \o t)[i] = IF i <= Len(s) THEN s[i] ELSE t[i - Len(s)]
  BY ConcatProperties, LenProperties
<1>2. \A i \in 1..Len(s) : (s \o t)[i] = s[i]
  BY <1>1
<1>3. ASSUME NEW i \in 1..Len(t) PROVE (s \o t)[Len(s) + i] = t[i]
  <2>1. /\ Len(s) + i \in 1..(Len(s) + Len(t))
        /\ ~(Len(s) + i <= Len(s))
        /\ (Len(s) + i) - Len(s) = i
    BY <1>1
  <2>2. QED
    BY <1>1, <2>1
<1>4. QED
  BY <1>1, <1>2, <1>3

-------------------------------------------------------------------------------
(* Types.                                                                     *)

LEMMA SideFacts ==
    /\ Client \in Side /\ Server \in Side
    /\ Peer(Client) = Server /\ Peer(Server) = Client
    /\ \A e \in Side : Peer(e) \in Side /\ Peer(e) # e /\ Peer(Peer(e)) = e
BY ChannelAssumption DEF Side, Peer

LEMMA TypeInit == Init => TypeOK
<1> SUFFICES ASSUME Init PROVE TypeOK
  OBVIOUS
<1>1. [i \in 1..Len(Greeting) |-> [data |-> Greeting[i], seq |-> i]] \in Seq(Entry)
  <2>1. \A i \in 1..Len(Greeting) : [data |-> Greeting[i], seq |-> i] \in Entry
    BY ChannelAssumption, ElementOfSeq DEF Entry
  <2>2. Len(Greeting) \in Nat
    BY ChannelAssumption, LenProperties
  <2>3. QED
    BY <2>1, <2>2, IsASeq
<1>2. QED
  BY <1>1, ChannelAssumption, LenProperties DEF Init, TypeOK, Packet

LEMMA TypeAt ==
    ASSUME TypeOK, NEW e \in Side
    PROVE  /\ sent[e] \in Seq(Msg) /\ Len(sent[e]) \in Nat
           /\ read[e] \in Seq(Payload) /\ Len(read[e]) \in Nat
           /\ send_que[e] \in Seq(Msg) /\ Len(send_que[e]) \in Nat
           /\ window[e] \in Seq(Entry) /\ Len(window[e]) \in Nat
           /\ acks_to_send[e] \in Seq(Int) /\ Len(acks_to_send[e]) \in Nat
           /\ deficit[e] \in 0..MaxDeficit
           /\ last_seq[e] \in Nat
           /\ last_received_seq[e] \in Nat
           /\ receive_que[e] \in Seq(Payload) /\ Len(receive_que[e]) \in Nat
           /\ pkt[e] \in Packet
           /\ net[e] \in SUBSET Packet
<1>1. /\ sent[e] \in Seq(Msg)
      /\ read[e] \in Seq(Payload)
      /\ send_que[e] \in Seq(Msg)
      /\ window[e] \in Seq(Entry)
      /\ acks_to_send[e] \in Seq(Int)
      /\ deficit[e] \in 0..MaxDeficit
      /\ last_seq[e] \in Nat
      /\ last_received_seq[e] \in Nat
      /\ receive_que[e] \in Seq(Payload)
      /\ pkt[e] \in Packet
      /\ net[e] \in SUBSET Packet
  BY DEF TypeOK, Payload
<1>2. QED
  BY <1>1, LenProperties

LEMMA TransmitType ==
    ASSUME TypeOK, NEW e \in Side, NEW packets \in SUBSET Packet, Transmit(e, packets)
    PROVE  net' \in [Side -> SUBSET Packet]
<1>1. PICK through \in SUBSET packets : net' = [net EXCEPT ![Peer(e)] = @ \cup through]
  BY DEF Transmit
<1>2. Peer(e) \in Side /\ net[Peer(e)] \cup through \in SUBSET Packet
  BY SideFacts, TypeAt
<1>3. QED
  BY <1>1, <1>2 DEF TypeOK

LEMMA PopAcksType ==
    ASSUME TypeOK, NEW e \in Side, NEW n \in Nat, PopAcks(e, n)
    PROVE  /\ acks_to_send' \in [Side -> Seq(Int)]
           /\ deficit' \in [Side -> 0..MaxDeficit]
<1>1. /\ SubSeq(acks_to_send[e], n + 1, Len(acks_to_send[e])) \in Seq(Int)
      /\ deficit[e] \in 0..MaxDeficit
  BY DropFacts, TypeAt
<1>2. (IF deficit[e] > 0 THEN deficit[e] + n ELSE deficit[e]) \in 0..MaxDeficit
  BY <1>1, ChannelAssumption DEF PopAcks
<1>3. QED
  BY <1>1, <1>2 DEF PopAcks, TypeOK

LEMMA WindowPacketsType ==
    ASSUME NEW w \in Seq(Entry), NEW ack \in Int
    PROVE  WindowPackets(w, ack) \in SUBSET Packet
<1>1. \A i \in 1..Len(w) : w[i] \in Entry
  BY ElementOfSeq
<1>2. \A i \in 1..Len(w) : create_packet(w[i].data, w[i].seq, ack) \in Packet
  BY <1>1 DEF create_packet, Entry, Packet
<1>3. QED
  BY <1>2 DEF WindowPackets

LEMMA TypeNext == TypeOK /\ [Next]_vars => TypeOK'
<1> SUFFICES ASSUME TypeOK, [Next]_vars PROVE TypeOK'
  OBVIOUS
<1>1. ASSUME NEW e \in Side, NEW m \in Msg, Send(e, m) PROVE TypeOK'
  <2>1. Append(sent[e], m) \in Seq(Msg) /\ Append(send_que[e], m) \in Seq(Msg)
    BY TypeAt, AppendFacts
  <2>2. QED
    BY <1>1, <2>1 DEF Send, TypeOK, ackVars, rxVars, closeVars, fixedVars
<1>2. ASSUME NEW e \in Side, Receive(e) PROVE TypeOK'
  <2>1. /\ Append(read[e], Head(receive_que[e])) \in Seq(Msg \cup {Empty})
        /\ Tail(receive_que[e]) \in Seq(Msg \cup {Empty})
    BY <1>2, TypeAt, TailFacts, AppendFacts DEF Receive, Payload
  <2>2. QED
    BY <1>2, <2>1 DEF Receive, TypeOK, sendVars, ackVars, closeVars, fixedVars
<1>3. ASSUME NEW e \in Side, CloseCall(e) PROVE TypeOK'
  BY <1>3 DEF CloseCall, TypeOK, sendVars, ackVars, rxVars, fixedVars
<1>4. ASSUME NEW e \in Side, CloseReturn(e) PROVE TypeOK'
  BY <1>4 DEF CloseReturn, TypeOK, sendVars, ackVars, rxVars, fixedVars
<1>5. ASSUME NEW e \in Side, Exit(e) PROVE TypeOK'
  BY <1>5 DEF Exit, TypeOK, sendVars, ackVars, rxVars, closeVars, fixedVars
<1>6. ASSUME NEW e \in Side, Abort(e) PROVE TypeOK'
  BY <1>6 DEF Abort, TypeOK, sendVars, ackVars, rxVars, closeVars, fixedVars
<1>7. ASSUME NEW e \in Side, SendNew(e) PROVE TypeOK'
  <2> DEFINE seq == last_seq[e] + 1
             data == Head(send_que[e])
             w == Append(window[e], [data |-> data, seq |-> seq])
             ack == last_received_seq[e]
  <2>1. seq \in Nat /\ data \in Msg /\ Tail(send_que[e]) \in Seq(Msg) /\ ack \in Nat
    BY <1>7, TypeAt, TailFacts DEF SendNew
  <2>2. [data |-> data, seq |-> seq] \in Entry
    BY <2>1 DEF Entry
  <2>3. w \in Seq(Entry) /\ Len(w) \in Nat
    BY <2>2, TypeAt, AppendFacts, LenProperties
  <2>4. {create_packet(data, seq, ack)} \in SUBSET Packet
    BY <2>1 DEF create_packet, Packet
  <2>5. WindowPackets(w, ack) \in SUBSET Packet
    <3> HIDE DEF w, ack
    <3>1. ack \in Int
      BY <2>1
    <3>2. QED
      BY <2>3, <3>1, WindowPacketsType
  <2>6. /\ send_que' = [send_que EXCEPT ![e] = Tail(@)]
        /\ last_seq' = [last_seq EXCEPT ![e] = seq]
        /\ window' = [window EXCEPT ![e] = w]
        /\ \/ Transmit(e, {create_packet(data, seq, ack)}) /\ PopAcks(e, 1)
           \/ Transmit(e, WindowPackets(w, ack)) /\ PopAcks(e, 1 + Len(w))
        /\ UNCHANGED <<sent, read, rxVars, proc, closeVars>>
    BY <1>7 DEF SendNew
  <2> HIDE DEF seq, data, w, ack
  <2>7. /\ net' \in [Side -> SUBSET Packet]
        /\ acks_to_send' \in [Side -> Seq(Int)]
        /\ deficit' \in [Side -> 0..MaxDeficit]
    <3>1. CASE Transmit(e, {create_packet(data, seq, ack)}) /\ PopAcks(e, 1)
      BY <3>1, <2>4, TransmitType, PopAcksType
    <3>2. CASE Transmit(e, WindowPackets(w, ack)) /\ PopAcks(e, 1 + Len(w))
      <4>1. 1 + Len(w) \in Nat
        BY <2>3
      <4>2. QED
        BY <3>2, <4>1, <2>5, TransmitType, PopAcksType
    <3>3. QED
      BY <2>6, <3>1, <3>2
  <2>8. QED
    BY <2>1, <2>3, <2>6, <2>7 DEF TypeOK, rxVars, closeVars, fixedVars
<1>8. ASSUME NEW e \in Side, Resend(e) PROVE TypeOK'
  <2>1. /\ WindowPackets(window[e], last_received_seq[e]) \in SUBSET Packet
        /\ Len(window[e]) \in Nat
    BY WindowPacketsType, TypeAt
  <2>2. /\ net' \in [Side -> SUBSET Packet]
        /\ acks_to_send' \in [Side -> Seq(Int)]
        /\ deficit' \in [Side -> 0..MaxDeficit]
    BY <1>8, <2>1, TransmitType, PopAcksType DEF Resend
  <2>3. QED
    BY <1>8, <2>2 DEF Resend, TypeOK, sendVars, rxVars, closeVars, fixedVars
<1>9. ASSUME NEW e \in Side, SendAck(e) PROVE TypeOK'
  <2>1. Head(acks_to_send[e]) \in Int /\ Tail(acks_to_send[e]) \in Seq(Int)
    BY <1>9, TypeAt, TailFacts DEF SendAck
  <2>2. {create_packet(Empty, last_seq[e], Head(acks_to_send[e]))} \in SUBSET Packet
    BY <2>1, TypeAt DEF create_packet, Packet
  <2>3. net' \in [Side -> SUBSET Packet]
    BY <1>9, <2>2, TransmitType DEF SendAck
  <2>4. QED
    BY <1>9, <2>1, <2>3 DEF SendAck, TypeOK, sendVars, rxVars, closeVars, fixedVars
<1>10. ASSUME NEW e \in Side, SendGarbageAck(e) PROVE TypeOK'
  <2>1. PICK ack \in Garbage : Transmit(e, {create_packet(Empty, last_seq[e], ack)})
    BY <1>10 DEF SendGarbageAck
  <2>2. {create_packet(Empty, last_seq[e], ack)} \in SUBSET Packet
    BY ChannelAssumption, TypeAt DEF create_packet, Packet
  <2>3. net' \in [Side -> SUBSET Packet]
    BY <2>1, <2>2, TransmitType
  <2>4. deficit[e] + 1 \in 0..MaxDeficit
    BY <1>10, TypeAt, ChannelAssumption DEF SendGarbageAck
  <2>5. QED
    BY <1>10, <2>3, <2>4 DEF SendGarbageAck, TypeOK, sendVars, rxVars, closeVars, fixedVars
<1>11. ASSUME NEW e \in Side, NEW p \in net[e], Recvfrom(e, p) PROVE TypeOK'
  <2>1. p \in Packet
    BY TypeAt
  <2>2. PICK left \in {net[e], net[e] \ {p}} : net' = [net EXCEPT ![e] = left]
    BY <1>11 DEF Recvfrom
  <2>3. left \in SUBSET Packet
    BY TypeAt
  <2>4. net' \in [Side -> SUBSET Packet]
    BY <2>2, <2>3 DEF TypeOK
  <2>5. QED
    BY <1>11, <2>1, <2>4 DEF Recvfrom, TypeOK, sendVars, ackVars, closeVars, fixedVars
<1>12. ASSUME NEW e \in Side, PopWindow(e) PROVE TypeOK'
  <2>1. PICK k \in 0..Len(window[e]) :
          window' = [window EXCEPT ![e] = SubSeq(@, k + 1, Len(@))]
    BY <1>12 DEF PopWindow
  <2>2. SubSeq(window[e], k + 1, Len(window[e])) \in Seq(Entry)
    BY DropFacts, TypeAt
  <2>3. QED
    BY <1>12, <2>1, <2>2 DEF PopWindow, TypeOK, ackVars, closeVars, fixedVars
<1>13. ASSUME NEW e \in Side, Enqueue(e) PROVE TypeOK'
  <2>1. /\ [seq |-> 0, ack |-> 0, data |-> Empty] \in Packet
        /\ pkt[e].seq \in Int
        /\ pkt[e].data \in Msg \cup {Empty}
    BY TypeAt DEF Packet
  <2>2. /\ Append(receive_que[e], pkt[e].data) \in Seq(Msg \cup {Empty})
        /\ Append(acks_to_send[e], pkt[e].seq) \in Seq(Int)
    BY <2>1, TypeAt, AppendFacts DEF Payload
  <2>3. InSequence(pkt[e], last_received_seq[e]) => pkt[e].seq \in Nat
    BY TypeAt DEF InSequence
  <2>4. /\ last_received_seq' \in [Side -> Nat]
        /\ receive_que' \in [Side -> Seq(Msg \cup {Empty})]
    <3>1. CASE InSequence(pkt[e], last_received_seq[e])
      <4>1. /\ last_received_seq' = [last_received_seq EXCEPT ![e] = pkt[e].seq]
            /\ receive_que' = [receive_que EXCEPT ![e] = Append(@, pkt[e].data)]
        BY <1>13, <3>1 DEF Enqueue
      <4>2. QED
        BY <3>1, <4>1, <2>2, <2>3 DEF TypeOK
    <3>2. CASE ~InSequence(pkt[e], last_received_seq[e])
      <4>1. UNCHANGED <<last_received_seq, receive_que>>
        BY <1>13, <3>2 DEF Enqueue
      <4>2. QED
        BY <4>1 DEF TypeOK
    <3>3. QED
      BY <3>1, <3>2
  <2>5. deficit[e] > 0 => deficit[e] - 1 \in 0..MaxDeficit
    BY TypeAt, ChannelAssumption
  <2>6. /\ acks_to_send' \in [Side -> Seq(Int)]
        /\ deficit' \in [Side -> 0..MaxDeficit]
    <3>1. CASE PushAck(e, pkt[e].seq)
      BY <3>1, <2>2, <2>5 DEF PushAck, TypeOK
    <3>2. CASE UNCHANGED ackVars
      BY <3>2 DEF ackVars, TypeOK
    <3>3. QED
      BY <1>13, <3>1, <3>2 DEF Enqueue
  <2>7. QED
    BY <1>13, <2>1, <2>4, <2>6 DEF Enqueue, TypeOK, sendVars, closeVars, fixedVars
<1>14. CASE UNCHANGED vars
  BY <1>14 DEF vars, TypeOK, sendVars, ackVars, rxVars, closeVars, fixedVars
<1>15. QED
  BY <1>1, <1>2, <1>3, <1>4, <1>5, <1>6, <1>7, <1>8, <1>9, <1>10, <1>11, <1>12,
     <1>13, <1>14
     DEF Next, SendThread, SendThreadThrows, SendThreadCrashes, ReceiveThread

\* The variables keep their types.
THEOREM TypeInvariant == Spec => []TypeOK
BY TypeInit, TypeNext, PTL DEF Spec
-------------------------------------------------------------------------------
(* What a step may do to one part of one end.                                 *)

LEMMA SenderSteps ==
    ASSUME TypeOK, [Next]_vars, NEW x \in Side
    PROVE  \/ \E m \in Msg : Send(x, m)
           \/ SendNew(x)
           \/ PopWindow(x)
           \/ UNCHANGED <<sent[x], send_que[x], window[x], last_seq[x]>>
<1>1. ASSUME NEW e \in Side, NEW m \in Msg, Send(e, m), e # x
      PROVE  UNCHANGED <<sent[x], send_que[x], window[x], last_seq[x]>>
  BY <1>1 DEF Send, TypeOK
<1>2. ASSUME NEW e \in Side, SendNew(e), e # x
      PROVE  UNCHANGED <<sent[x], send_que[x], window[x], last_seq[x]>>
  BY <1>2 DEF SendNew, TypeOK
<1>3. ASSUME NEW e \in Side, PopWindow(e), e # x
      PROVE  UNCHANGED <<sent[x], send_que[x], window[x], last_seq[x]>>
  BY <1>3 DEF PopWindow, TypeOK
<1>4. ASSUME UNCHANGED <<sent, sendVars>>
      PROVE  UNCHANGED <<sent[x], send_que[x], window[x], last_seq[x]>>
  BY <1>4 DEF sendVars
<1>5. ASSUME NEW e \in Side,
             \/ Receive(e) \/ CloseCall(e) \/ CloseReturn(e) \/ Exit(e) \/ Abort(e)
             \/ Resend(e) \/ SendAck(e) \/ SendGarbageAck(e) \/ Enqueue(e)
             \/ \E p \in net[e] : Recvfrom(e, p)
      PROVE  UNCHANGED <<sent, sendVars>>
  BY <1>5 DEF Receive, CloseCall, CloseReturn, Exit, Abort, Resend, SendAck,
     SendGarbageAck, Enqueue, Recvfrom
<1>6. UNCHANGED vars => UNCHANGED <<sent, sendVars>>
  BY DEF vars
<1>7. QED
  BY <1>1, <1>2, <1>3, <1>4, <1>5, <1>6
     DEF Next, SendThread, SendThreadThrows, SendThreadCrashes, ReceiveThread

Accepts(x) == Enqueue(x) /\ InSequence(pkt[x], last_received_seq[x])

LEMMA ReceiverSteps ==
    ASSUME TypeOK, [Next]_vars, NEW x \in Side
    PROVE  \/ Receive(x)
           \/ Accepts(x)
           \/ UNCHANGED <<read[x], receive_que[x], last_received_seq[x]>>
<1>1. ASSUME NEW e \in Side, Receive(e), e # x
      PROVE  UNCHANGED <<read[x], receive_que[x], last_received_seq[x]>>
  BY <1>1 DEF Receive, TypeOK
<1>2. ASSUME NEW e \in Side, Enqueue(e), e # x \/ ~Accepts(x)
      PROVE  UNCHANGED <<read[x], receive_que[x], last_received_seq[x]>>
  BY <1>2 DEF Enqueue, Accepts, TypeOK
<1>3. ASSUME UNCHANGED <<read, receive_que, last_received_seq>>
      PROVE  UNCHANGED <<read[x], receive_que[x], last_received_seq[x]>>
  BY <1>3
<1>4. ASSUME NEW e \in Side,
             \/ \E m \in Msg : Send(e, m)
             \/ CloseCall(e) \/ CloseReturn(e) \/ Exit(e) \/ Abort(e)
             \/ SendNew(e) \/ Resend(e) \/ SendAck(e) \/ SendGarbageAck(e)
             \/ PopWindow(e)
             \/ \E p \in net[e] : Recvfrom(e, p)
      PROVE  UNCHANGED <<read, receive_que, last_received_seq>>
  BY <1>4 DEF Send, CloseCall, CloseReturn, Exit, Abort, SendNew, Resend, SendAck,
     SendGarbageAck, PopWindow, Recvfrom, rxVars
<1>5. UNCHANGED vars => UNCHANGED <<read, receive_que, last_received_seq>>
  BY DEF vars, rxVars
<1>6. QED
  BY <1>1, <1>2, <1>3, <1>4, <1>5
     DEF Next, SendThread, SendThreadThrows, SendThreadCrashes, ReceiveThread

\* No number ever decreases, and what was sent stays as it was sent.
LEMMA Grows ==
    ASSUME TypeOK, [Next]_vars, NEW x \in Side
    PROVE  /\ last_seq[x] <= last_seq'[x]
           /\ last_received_seq[x] <= last_received_seq'[x]
           /\ Len(sent[x]) <= Len(sent'[x])
           /\ \A i \in 1..Len(sent[x]) : sent'[x][i] = sent[x][i]
<1>1. /\ last_seq[x] <= last_seq'[x]
      /\ Len(sent[x]) <= Len(sent'[x])
      /\ \A i \in 1..Len(sent[x]) : sent'[x][i] = sent[x][i]
  <2>1. ASSUME NEW m \in Msg, Send(x, m)
        PROVE  /\ last_seq[x] <= last_seq'[x]
               /\ Len(sent[x]) <= Len(sent'[x])
               /\ \A i \in 1..Len(sent[x]) : sent'[x][i] = sent[x][i]
    <3>1. sent'[x] = Append(sent[x], m) /\ last_seq'[x] = last_seq[x]
      BY <2>1 DEF Send, TypeOK
    <3>2. QED
      BY <3>1, TypeAt, AppendFacts
  <2>2. CASE SendNew(x)
    <3>1. sent'[x] = sent[x] /\ last_seq'[x] = last_seq[x] + 1
      BY <2>2 DEF SendNew, TypeOK
    <3>2. QED
      BY <3>1, TypeAt
  <2>3. CASE PopWindow(x)
    BY <2>3, TypeAt DEF PopWindow
  <2>4. CASE UNCHANGED <<sent[x], send_que[x], window[x], last_seq[x]>>
    BY <2>4, TypeAt
  <2>5. QED
    BY <2>1, <2>2, <2>3, <2>4, SenderSteps
<1>2. last_received_seq[x] <= last_received_seq'[x]
  <2>1. CASE Receive(x)
    BY <2>1, TypeAt DEF Receive
  <2>2. CASE Accepts(x)
    BY <2>2, TypeAt DEF Accepts, Enqueue, InSequence, TypeOK
  <2>3. CASE UNCHANGED <<read[x], receive_que[x], last_received_seq[x]>>
    BY <2>3, TypeAt
  <2>4. QED
    BY <2>1, <2>2, <2>3, ReceiverSteps
<1>3. QED
  BY <1>1, <1>2

\* Where a packet of x comes from: it was there before, or the receive thread is
\* done with the last one, or the other end has just sent it.
Blank == [seq |-> 0, ack |-> 0, data |-> Empty]

FromWindow(f, p) ==
    \E i \in 1..Len(window'[f]) :
        p = create_packet(window'[f][i].data, window'[f][i].seq, last_received_seq[f])

BareAck(f, p) ==
    /\ window[f] = <<>>
    /\ \/ /\ acks_to_send[f] # <<>>
          /\ p = create_packet(Empty, last_seq[f], Head(acks_to_send[f]))
       \/ \E ack \in Garbage : p = create_packet(Empty, last_seq[f], ack)

LEMMA PacketSteps ==
    ASSUME TypeOK, [Next]_vars, NEW x \in Side, NEW p \in net'[x] \cup {pkt'[x]}
    PROVE  \/ p \in net[x] \cup {pkt[x]}
           \/ p = Blank
           \/ FromWindow(Peer(x), p)
           \/ BareAck(Peer(x), p)
<1>1. ASSUME NEW e \in Side, NEW packets, Transmit(e, packets), pkt' = pkt
      PROVE  p \in net[x] \cup {pkt[x]} \/ (x = Peer(e) /\ p \in packets)
  BY <1>1, SideFacts DEF Transmit, TypeOK
<1>2. ASSUME NEW e \in Side, SendNew(e)
      PROVE  p \in net[x] \cup {pkt[x]} \/ FromWindow(Peer(x), p)
  <2> DEFINE seq == last_seq[e] + 1
             data == Head(send_que[e])
             w == Append(window[e], [data |-> data, seq |-> seq])
             ack == last_received_seq[e]
  <2>1. /\ window' = [window EXCEPT ![e] = w]
        /\ pkt' = pkt
        /\ \/ Transmit(e, {create_packet(data, seq, ack)})
           \/ Transmit(e, WindowPackets(w, ack))
    BY <1>2 DEF SendNew, rxVars
  <2>2. window'[e] = w
    BY <2>1 DEF TypeOK
  <2>3. [data |-> data, seq |-> seq] \in Entry
    BY <1>2, TypeAt, TailFacts DEF SendNew, Entry
  <2>4. /\ Len(w) = Len(window[e]) + 1 /\ Len(w) \in 1..Len(w)
        /\ w[Len(w)] = [data |-> data, seq |-> seq]
    BY <2>3, TypeAt, AppendFacts
  <2>5. ASSUME p \in {create_packet(data, seq, ack)} PROVE FromWindow(e, p)
    BY <2>2, <2>4, <2>5 DEF FromWindow
  <2>6. ASSUME p \in WindowPackets(w, ack) PROVE FromWindow(e, p)
    BY <2>2, <2>6 DEF FromWindow, WindowPackets
  <2> HIDE DEF seq, data, w, ack
  <2>7. x = Peer(e) => Peer(x) = e
    BY SideFacts
  <2>8. QED
    BY <2>1, <2>5, <2>6, <2>7, <1>1
<1>3. ASSUME NEW e \in Side, Resend(e)
      PROVE  p \in net[x] \cup {pkt[x]} \/ FromWindow(Peer(x), p)
  <2>1. /\ Transmit(e, WindowPackets(window[e], last_received_seq[e]))
        /\ pkt' = pkt /\ window' = window
    BY <1>3 DEF Resend, rxVars, sendVars
  <2>2. p \in WindowPackets(window[e], last_received_seq[e]) => FromWindow(e, p)
    BY <2>1 DEF WindowPackets, FromWindow
  <2>3. x = Peer(e) => Peer(x) = e
    BY SideFacts
  <2>4. QED
    BY <2>1, <2>2, <2>3, <1>1
<1>4. ASSUME NEW e \in Side, SendAck(e)
      PROVE  p \in net[x] \cup {pkt[x]} \/ BareAck(Peer(x), p)
  <2>1. /\ Transmit(e, {create_packet(Empty, last_seq[e], Head(acks_to_send[e]))})
        /\ pkt' = pkt /\ window[e] = <<>> /\ acks_to_send[e] # <<>>
    BY <1>4 DEF SendAck, Idle, rxVars
  <2>2. x = Peer(e) => Peer(x) = e
    BY SideFacts
  <2>3. QED
    BY <2>1, <2>2, <1>1 DEF BareAck
<1>5. ASSUME NEW e \in Side, SendGarbageAck(e)
      PROVE  p \in net[x] \cup {pkt[x]} \/ BareAck(Peer(x), p)
  <2>1. PICK ack \in Garbage : Transmit(e, {create_packet(Empty, last_seq[e], ack)})
    BY <1>5 DEF SendGarbageAck
  <2>2. pkt' = pkt /\ window[e] = <<>>
    BY <1>5 DEF SendGarbageAck, Idle, rxVars
  <2>3. x = Peer(e) => Peer(x) = e
    BY SideFacts
  <2>4. QED
    BY <2>1, <2>2, <2>3, <1>1 DEF BareAck
<1>6. ASSUME NEW e \in Side, NEW q \in net[e], Recvfrom(e, q)
      PROVE  p \in net[x] \cup {pkt[x]}
  BY <1>6 DEF Recvfrom, TypeOK
<1>7. ASSUME NEW e \in Side, Enqueue(e) PROVE p \in net[x] \cup {pkt[x]} \/ p = Blank
  BY <1>7 DEF Enqueue, Blank, TypeOK
<1>8. ASSUME UNCHANGED <<net, pkt>> PROVE p \in net[x] \cup {pkt[x]}
  BY <1>8
<1>9. ASSUME NEW e \in Side,
             \/ \E m \in Msg : Send(e, m)
             \/ Receive(e) \/ CloseCall(e) \/ CloseReturn(e) \/ Exit(e) \/ Abort(e)
             \/ PopWindow(e)
      PROVE  UNCHANGED <<net, pkt>>
  BY <1>9 DEF Send, Receive, CloseCall, CloseReturn, Exit, Abort, PopWindow, rxVars
<1>10. UNCHANGED vars => UNCHANGED <<net, pkt>>
  BY DEF vars, rxVars
<1>11. QED
  BY <1>2, <1>3, <1>4, <1>5, <1>6, <1>7, <1>8, <1>9, <1>10
     DEF Next, SendThread, SendThreadThrows, SendThreadCrashes, ReceiveThread

\* Where an acknowledgement that waits at x comes from.
LEMMA AckSteps ==
    ASSUME TypeOK, [Next]_vars, NEW x \in Side, NEW i \in 1..Len(acks_to_send'[x])
    PROVE  \/ \E j \in 1..Len(acks_to_send[x]) : acks_to_send'[x][i] = acks_to_send[x][j]
           \/ /\ acks_to_send'[x][i] = pkt[x].seq
              /\ Accepts(x) \/ pkt[x].seq <= last_received_seq[x]
<1> DEFINE Old == \E j \in 1..Len(acks_to_send[x]) : acks_to_send'[x][i] = acks_to_send[x][j]
<1>1. UNCHANGED acks_to_send => Old
  OBVIOUS
<1>2. ASSUME NEW e \in Side, NEW n \in Nat, PopAcks(e, n) PROVE Old
  <2> DEFINE left == SubSeq(acks_to_send[e], n + 1, Len(acks_to_send[e]))
  <2>1. acks_to_send' = [acks_to_send EXCEPT ![e] = left]
    BY <1>2 DEF PopAcks
  <2>2. CASE x # e
    BY <2>1, <2>2 DEF TypeOK
  <2>3. CASE x = e
    <3>1. acks_to_send'[x] = left
      BY <2>1, <2>3 DEF TypeOK
    <3>2. /\ n <= Len(acks_to_send[e]) => Len(left) = Len(acks_to_send[e]) - n
          /\ n > Len(acks_to_send[e]) => Len(left) = 0
          /\ \A k \in 1..(Len(acks_to_send[e]) - n) : left[k] = acks_to_send[e][n + k]
          /\ Len(acks_to_send[e]) \in Nat
      <4>1. acks_to_send[e] \in Seq(Int) /\ Len(acks_to_send[e]) \in Nat
        BY TypeAt
      <4>2. QED
        BY <4>1, DropFacts, Zenon
    <3> HIDE DEF left
    <3>3. /\ n + i \in 1..Len(acks_to_send[x])
          /\ acks_to_send'[x][i] = acks_to_send[x][n + i]
      BY <2>3, <3>1, <3>2
    <3>4. QED
      BY <3>3
  <2>4. QED
    BY <2>2, <2>3
<1>3. ASSUME NEW e \in Side, SendNew(e) PROVE Old
  <2>1. [data |-> Head(send_que[e]), seq |-> last_seq[e] + 1] \in Entry
    BY <1>3, TypeAt, TailFacts DEF SendNew, Entry
  <2>2. 1 + Len(Append(window[e], [data |-> Head(send_que[e]), seq |-> last_seq[e] + 1]))
          \in Nat
    BY <2>1, TypeAt, AppendFacts
  <2>3. QED
    BY <1>2, <1>3, <2>2 DEF SendNew
<1>4. ASSUME NEW e \in Side, Resend(e) PROVE Old
  BY <1>2, <1>4, TypeAt DEF Resend
<1>5. ASSUME NEW e \in Side, SendAck(e) PROVE Old
  <2>1. acks_to_send' = [acks_to_send EXCEPT ![e] = Tail(@)] /\ acks_to_send[e] # <<>>
    BY <1>5 DEF SendAck
  <2>2. CASE x # e
    BY <2>1, <2>2 DEF TypeOK
  <2>3. CASE x = e
    <3>1. /\ acks_to_send'[x] = Tail(acks_to_send[x])
          /\ Len(Tail(acks_to_send[x])) = Len(acks_to_send[x]) - 1
          /\ \A k \in 1..(Len(acks_to_send[x]) - 1) :
                Tail(acks_to_send[x])[k] = acks_to_send[x][k + 1]
          /\ Len(acks_to_send[x]) \in Nat
      BY <2>1, <2>3, TypeAt, TailFacts DEF TypeOK
    <3>2. /\ i + 1 \in 1..Len(acks_to_send[x])
          /\ acks_to_send'[x][i] = acks_to_send[x][i + 1]
      BY <3>1
    <3>3. QED
      BY <3>2
  <2>4. QED
    BY <2>2, <2>3
<1>6. ASSUME NEW e \in Side, Enqueue(e)
      PROVE  \/ Old
             \/ /\ acks_to_send'[x][i] = pkt[x].seq
                /\ Accepts(x) \/ pkt[x].seq <= last_received_seq[x]
  <2>1. CASE UNCHANGED acks_to_send
    BY <2>1, <1>1
  <2>2. CASE /\ acks_to_send' = [acks_to_send EXCEPT ![e] = Append(@, pkt[e].seq)]
             /\ Accepts(e) \/ pkt[e].seq <= last_received_seq[e]
    <3>1. CASE x # e
      BY <2>2, <3>1 DEF TypeOK
    <3>2. CASE x = e
      <4>1. acks_to_send'[x] = Append(acks_to_send[x], pkt[x].seq) /\ pkt[x].seq \in Int
        BY <2>2, <3>2, TypeAt DEF TypeOK, Packet
      <4>2. /\ Len(acks_to_send'[x]) = Len(acks_to_send[x]) + 1
            /\ \A k \in 1..Len(acks_to_send[x]) : acks_to_send'[x][k] = acks_to_send[x][k]
            /\ acks_to_send'[x][Len(acks_to_send[x]) + 1] = pkt[x].seq
            /\ Len(acks_to_send[x]) \in Nat
        BY <4>1, TypeAt, AppendFacts
      <4>3. i \in 1..Len(acks_to_send[x]) \/ i = Len(acks_to_send[x]) + 1
        BY <4>2
      <4>4. QED
        BY <2>2, <3>2, <4>2, <4>3
    <3>3. QED
      BY <3>1, <3>2
  <2>3. QED
    BY <1>6, <2>1, <2>2 DEF Enqueue, PushAck, Repeated, ackVars, Accepts
<1>7. ASSUME NEW e \in Side,
             \/ \E m \in Msg : Send(e, m)
             \/ Receive(e) \/ CloseCall(e) \/ CloseReturn(e) \/ Exit(e) \/ Abort(e)
             \/ SendGarbageAck(e) \/ PopWindow(e)
             \/ \E p \in net[e] : Recvfrom(e, p)
      PROVE  UNCHANGED acks_to_send
  BY <1>7 DEF Send, Receive, CloseCall, CloseReturn, Exit, Abort, SendGarbageAck,
     PopWindow, Recvfrom, ackVars
<1>8. UNCHANGED vars => UNCHANGED acks_to_send
  BY DEF vars, ackVars
<1> HIDE DEF Old
<1>9. Old \/ (/\ acks_to_send'[x][i] = pkt[x].seq
              /\ Accepts(x) \/ pkt[x].seq <= last_received_seq[x])
  BY <1>1, <1>3, <1>4, <1>5, <1>6, <1>7, <1>8
     DEF Next, SendThread, SendThreadThrows, SendThreadCrashes, ReceiveThread
<1>10. QED
  BY <1>9 DEF Old
-------------------------------------------------------------------------------
(* The inductive invariant, first the part that holds whatever a read past    *)
(* the end of acks_to_send yields.                                            *)

\* What was sent is, in order: acknowledged, in the window, in send_que.
SenderInv(x) ==
    /\ Len(sent[x]) = last_seq[x] + Len(send_que[x])
    /\ \A i \in 1..Len(send_que[x]) : send_que[x][i] = sent[x][last_seq[x] + i]
    /\ Len(window[x]) <= last_seq[x]
    /\ \A i \in 1..Len(window[x]) :
          LET s == last_seq[x] - Len(window[x]) + i
          IN  window[x][i] = [data |-> sent[x][s], seq |-> s]

\* A packet that came to x carries the message its number says, or none.
Genuine(x, p) == p.seq \in 1..last_seq[Peer(x)] /\ p.data = sent[Peer(x)][p.seq]

PacketInv(x) ==
    \A p \in net[x] \cup {pkt[x]} :
        /\ p.seq <= last_seq[Peer(x)]
        /\ Genuine(x, p) \/ p.data = Empty

\* x has accepted as many messages as it says, and no more than were sent.
CountInv(x) ==
    /\ Len(read[x]) = last_received_seq[x] - Len(receive_que[x])
    /\ last_received_seq[x] <= last_seq[Peer(x)]

\* Each message accepted is the one sent with its number, or one of extra.
Received(x, extra) ==
    /\ \A i \in 1..Len(read[x]) : read[x][i] \in {sent[Peer(x)][i]} \cup extra
    /\ \A i \in 1..Len(receive_que[x]) :
          receive_que[x][i] \in {sent[Peer(x)][Len(read[x]) + i]} \cup extra

OrderInv ==
    /\ TypeOK
    /\ \A x \in Side :
          SenderInv(x) /\ PacketInv(x) /\ CountInv(x) /\ Received(x, {Empty})

(* With no garbage that could pass for the number of a message, no message    *)
(* leaves a window before the other end has it, so no bare acknowledgement    *)
(* has the number of a message that is still to come.                         *)

HarmlessGarbage == \A g \in Garbage : g <= 0

AckInv(x) ==
    /\ \A i \in 1..Len(acks_to_send[x]) : acks_to_send[x][i] <= last_received_seq[x]
    /\ \A p \in net[x] \cup {pkt[x]} : p.ack <= last_received_seq[Peer(x)]

KeepInv(x) == last_seq[x] - Len(window[x]) <= last_received_seq[Peer(x)]

BareInv(x) ==
    \A p \in net[x] \cup {pkt[x]} :
        Genuine(x, p) \/ (p.data = Empty /\ p.seq <= last_received_seq[x])

ExactlyInv ==
    /\ OrderInv
    /\ \A x \in Side : AckInv(x) /\ KeepInv(x) /\ BareInv(x) /\ Received(x, {})

LEMMA SenderInvNext ==
    ASSUME TypeOK, TypeOK', [Next]_vars, NEW x \in Side, SenderInv(x)
    PROVE  SenderInv(x)'
<1>1. /\ last_seq[x] \in Nat /\ Len(sent[x]) \in Nat
      /\ Len(send_que[x]) \in Nat /\ Len(window[x]) \in Nat
  BY TypeAt
<1>2. Len(sent[x]) = last_seq[x] + Len(send_que[x]) /\ Len(window[x]) <= last_seq[x]
  BY DEF SenderInv
<1>3. \A i \in 1..Len(send_que[x]) : send_que[x][i] = sent[x][last_seq[x] + i]
  BY DEF SenderInv
<1>4. \A i \in 1..Len(window[x]) :
          LET s == last_seq[x] - Len(window[x]) + i
          IN  window[x][i] = [data |-> sent[x][s], seq |-> s]
  BY DEF SenderInv
<1>5. ASSUME NEW m \in Msg, Send(x, m) PROVE SenderInv(x)'
  <2>1. /\ sent'[x] = Append(sent[x], m) /\ send_que'[x] = Append(send_que[x], m)
        /\ window'[x] = window[x] /\ last_seq'[x] = last_seq[x]
    BY <1>5 DEF Send, sendVars, TypeOK
  <2>2. /\ Len(sent'[x]) = Len(sent[x]) + 1
        /\ Len(send_que'[x]) = Len(send_que[x]) + 1
        /\ \A i \in 1..Len(sent[x]) : sent'[x][i] = sent[x][i]
        /\ \A i \in 1..Len(send_que[x]) : send_que'[x][i] = send_que[x][i]
        /\ sent'[x][Len(sent[x]) + 1] = m
        /\ send_que'[x][Len(send_que[x]) + 1] = m
    BY <2>1, TypeAt, AppendFacts
  <2>3. ASSUME NEW i \in 1..Len(send_que'[x])
        PROVE  send_que'[x][i] = sent'[x][last_seq'[x] + i]
    <3>1. CASE i \in 1..Len(send_que[x])
      <4>1. last_seq[x] + i \in 1..Len(sent[x])
        BY <3>1, <1>1, <1>2
      <4>2. QED
        BY <2>1, <2>2, <3>1, <4>1, <1>3
    <3>2. CASE i = Len(send_que[x]) + 1
      <4>1. last_seq[x] + i = Len(sent[x]) + 1
        BY <3>2, <1>1, <1>2
      <4>2. QED
        BY <2>1, <2>2, <3>2, <4>1
    <3>3. QED
      BY <2>2, <3>1, <3>2, <1>1
  <2>4. ASSUME NEW i \in 1..Len(window[x])
        PROVE  sent'[x][last_seq[x] - Len(window[x]) + i] =
               sent[x][last_seq[x] - Len(window[x]) + i]
    <3>1. last_seq[x] - Len(window[x]) + i \in 1..Len(sent[x])
      BY <1>1, <1>2
    <3>2. QED
      BY <2>2, <3>1
  <2>5. Len(sent'[x]) = last_seq'[x] + Len(send_que'[x])
    BY <2>1, <2>2, <1>1, <1>2
  <2>6. QED
    BY ZenonT(60), <2>1, <2>3, <2>4, <2>5, <1>2, <1>4 DEF SenderInv
<1>6. CASE SendNew(x)
  <2> DEFINE entry == [data |-> Head(send_que[x]), seq |-> last_seq[x] + 1]
  <2>1. /\ sent'[x] = sent[x] /\ send_que'[x] = Tail(send_que[x])
        /\ window'[x] = Append(window[x], entry) /\ last_seq'[x] = last_seq[x] + 1
        /\ send_que[x] # <<>>
    BY <1>6 DEF SendNew, TypeOK
  <2>2. /\ Len(send_que[x]) \in Nat \ {0}
        /\ Len(send_que'[x]) = Len(send_que[x]) - 1
        /\ \A i \in 1..(Len(send_que[x]) - 1) : send_que'[x][i] = send_que[x][i + 1]
        /\ Head(send_que[x]) = send_que[x][1]
        /\ Head(send_que[x]) \in Msg
    BY <2>1, TypeAt, TailFacts
  <2>3. entry \in Entry
    BY <2>2, <1>1 DEF Entry
  <2>4. /\ Len(window'[x]) = Len(window[x]) + 1
        /\ \A i \in 1..Len(window[x]) : window'[x][i] = window[x][i]
        /\ window'[x][Len(window[x]) + 1] = entry
    BY <2>1, <2>3, TypeAt, AppendFacts
  <2>5. entry = [data |-> sent[x][last_seq[x] + 1], seq |-> last_seq[x] + 1]
    BY <2>2, <1>1, <1>3
  <2> HIDE DEF entry
  <2>6. ASSUME NEW i \in 1..Len(send_que'[x])
        PROVE  send_que'[x][i] = sent'[x][last_seq'[x] + i]
    <3>1. /\ i \in 1..(Len(send_que[x]) - 1) /\ i + 1 \in 1..Len(send_que[x])
          /\ last_seq[x] + (i + 1) = (last_seq[x] + 1) + i
      BY SMTT(30), <2>2, <1>1
    <3>2. QED
      BY <2>1, <2>2, <3>1, <1>3
  <2>7. ASSUME NEW i \in 1..Len(window'[x])
        PROVE  LET s == last_seq'[x] - Len(window'[x]) + i
               IN  window'[x][i] = [data |-> sent'[x][s], seq |-> s]
    <3>1. CASE i \in 1..Len(window[x])
      <4>1. last_seq'[x] - Len(window'[x]) + i = last_seq[x] - Len(window[x]) + i
        BY <2>1, <2>4, <1>1
      <4>2. QED
        BY <2>1, <2>4, <3>1, <4>1, <1>4
    <3>2. CASE i = Len(window[x]) + 1
      <4>1. last_seq'[x] - Len(window'[x]) + i = last_seq[x] + 1
        BY <2>1, <2>4, <3>2, <1>1
      <4>2. QED
        BY <2>1, <2>4, <2>5, <3>2, <4>1
    <3>3. QED
      BY <2>4, <3>1, <3>2, <1>1
  <2>8. /\ Len(sent'[x]) = last_seq'[x] + Len(send_que'[x])
        /\ Len(window'[x]) <= last_seq'[x]
    BY <2>1, <2>2, <2>4, <1>1, <1>2
  <2>9. QED
    BY <2>6, <2>7, <2>8 DEF SenderInv
<1>7. CASE PopWindow(x)
  <2>1. PICK k \in 0..Len(window[x]) :
          window'[x] = SubSeq(window[x], k + 1, Len(window[x]))
    BY <1>7 DEF PopWindow, TypeOK
  <2>2. sent'[x] = sent[x] /\ send_que'[x] = send_que[x] /\ last_seq'[x] = last_seq[x]
    BY <1>7 DEF PopWindow
  <2>3. k \in Nat /\ k <= Len(window[x]) /\ window[x] \in Seq(Entry)
    BY <1>1, TypeAt
  <2>4. /\ Len(window'[x]) = Len(window[x]) - k
        /\ \A i \in 1..(Len(window[x]) - k) : window'[x][i] = window[x][k + i]
    <3> DEFINE left == SubSeq(window[x], k + 1, Len(window[x]))
    <3>1. /\ k <= Len(window[x]) => Len(left) = Len(window[x]) - k
          /\ \A i \in 1..(Len(window[x]) - k) : left[i] = window[x][k + i]
      BY <2>3, DropFacts, Zenon
    <3>2. window'[x] = left
      BY <2>1
    <3> HIDE DEF left
    <3>3. QED
      BY <2>3, <3>1, <3>2
  <2>5. ASSUME NEW i \in 1..Len(window'[x])
        PROVE  LET s == last_seq'[x] - Len(window'[x]) + i
               IN  window'[x][i] = [data |-> sent'[x][s], seq |-> s]
    <3>1. /\ k + i \in 1..Len(window[x])
          /\ i \in 1..(Len(window[x]) - k)
          /\ last_seq'[x] - Len(window'[x]) + i = last_seq[x] - Len(window[x]) + (k + i)
      BY <2>2, <2>4, <1>1
    <3>2. QED
      BY <2>2, <2>4, <3>1, <1>4
  <2>6. Len(window'[x]) <= last_seq'[x]
    BY <2>2, <2>4, <1>1, <1>2
  <2>7. QED
    BY <2>2, <2>5, <2>6, <1>2, <1>3 DEF SenderInv
<1>8. CASE UNCHANGED <<sent[x], send_que[x], window[x], last_seq[x]>>
  BY <1>8 DEF SenderInv
<1>9. QED
  BY <1>5, <1>6, <1>7, <1>8, SenderSteps

\* A packet that carries what its number says goes on doing so.
LEMMA GenuineStays ==
    ASSUME TypeOK, TypeOK', [Next]_vars, NEW x \in Side, NEW p,
           SenderInv(Peer(x)), Genuine(x, p)
    PROVE  Genuine(x, p)'
<1> DEFINE f == Peer(x)
<1>1. f \in Side
  BY SideFacts
<1>2. /\ last_seq[f] \in Nat /\ last_seq'[f] \in Nat /\ Len(sent[f]) \in Nat
      /\ Len(send_que[f]) \in Nat
  BY <1>1, TypeAt DEF TypeOK
<1>3. /\ last_seq[f] <= last_seq'[f]
      /\ \A i \in 1..Len(sent[f]) : sent'[f][i] = sent[f][i]
  BY <1>1, Grows
<1>4. Len(sent[f]) = last_seq[f] + Len(send_que[f])
  BY DEF SenderInv
<1>5. p.seq \in 1..last_seq[f] /\ p.data = sent[f][p.seq]
  BY DEF Genuine
<1>6. p.seq \in 1..last_seq'[f] /\ p.seq \in 1..Len(sent[f])
  BY <1>2, <1>3, <1>4, <1>5
<1>7. QED
  BY <1>3, <1>5, <1>6 DEF Genuine

\* A packet made from an entry of the window carries what its number says.
LEMMA WindowGenuine ==
    ASSUME TypeOK', NEW x \in Side, NEW p, SenderInv(Peer(x))', FromWindow(Peer(x), p)
    PROVE  Genuine(x, p)'
<1> DEFINE f == Peer(x)
<1>1. /\ last_seq'[f] \in Nat /\ Len(window'[f]) \in Nat
  <2>1. last_seq'[f] \in Nat /\ window'[f] \in Seq(Entry)
    BY SideFacts DEF TypeOK
  <2>2. QED
    BY <2>1, LenProperties
<1>2. PICK i \in 1..Len(window'[f]) :
        p = create_packet(window'[f][i].data, window'[f][i].seq, last_received_seq[f])
  BY DEF FromWindow
<1> DEFINE s == last_seq'[f] - Len(window'[f]) + i
<1>3. window'[f][i] = [data |-> sent'[f][s], seq |-> s] /\ Len(window'[f]) <= last_seq'[f]
  BY DEF SenderInv
<1>4. p.seq = s /\ p.data = sent'[f][s]
  BY <1>2, <1>3 DEF create_packet
<1>5. s \in 1..last_seq'[f]
  BY <1>1, <1>3
<1> HIDE DEF s
<1>6. QED
  BY <1>4, <1>5 DEF Genuine

LEMMA PacketInvNext ==
    ASSUME TypeOK, TypeOK', [Next]_vars, NEW x \in Side,
           PacketInv(x), SenderInv(Peer(x)), SenderInv(Peer(x))'
    PROVE  PacketInv(x)'
<1>1. /\ last_seq[Peer(x)] \in Nat /\ last_seq'[Peer(x)] \in Nat
      /\ last_seq[Peer(x)] <= last_seq'[Peer(x)]
  BY SideFacts, TypeAt, Grows DEF TypeOK
<1> SUFFICES ASSUME NEW p \in net'[x] \cup {pkt'[x]}
             PROVE  /\ p.seq <= last_seq'[Peer(x)]
                    /\ Genuine(x, p)' \/ p.data = Empty
  BY DEF PacketInv
<1>2. CASE p \in net[x] \cup {pkt[x]}
  <2>1. /\ p.seq \in Int /\ p.seq <= last_seq[Peer(x)]
        /\ Genuine(x, p) \/ p.data = Empty
    BY <1>2, TypeAt DEF PacketInv, Packet
  <2>2. p.seq <= last_seq'[Peer(x)]
    BY <2>1, <1>1
  <2>3. QED
    BY <2>1, <2>2, GenuineStays
<1>3. CASE p = Blank
  BY <1>3, <1>1 DEF Blank
<1>4. CASE FromWindow(Peer(x), p)
  <2>1. Genuine(x, p)'
    BY <1>4, WindowGenuine
  <2>2. p.seq <= last_seq'[Peer(x)]
    BY <2>1, <1>1 DEF Genuine
  <2>3. QED
    BY <2>1, <2>2
<1>5. CASE BareAck(Peer(x), p)
  <2>1. p.seq = last_seq[Peer(x)] /\ p.data = Empty
    BY <1>5 DEF BareAck, create_packet
  <2>2. QED
    BY <1>1, <2>1
<1>6. QED
  BY <1>2, <1>3, <1>4, <1>5, PacketSteps

\* The packet in hand may go to receive_que.
Acceptable(x, extra) ==
    /\ pkt[x].seq <= last_seq[Peer(x)]
    /\ pkt[x].data \in {sent[Peer(x)][pkt[x].seq]} \cup extra

LEMMA ReceivedNext ==
    ASSUME TypeOK, TypeOK', [Next]_vars, NEW x \in Side, NEW extra,
           SenderInv(Peer(x)), CountInv(x), Received(x, extra),
           Accepts(x) => Acceptable(x, extra)
    PROVE  CountInv(x)' /\ Received(x, extra)'
<1> DEFINE f == Peer(x)
<1>0. f \in Side
  BY SideFacts
<1>1. /\ last_seq[f] \in Nat /\ last_seq'[f] \in Nat
      /\ Len(sent[f]) \in Nat /\ Len(read[x]) \in Nat
      /\ Len(receive_que[x]) \in Nat /\ last_received_seq[x] \in Nat
  BY <1>0, TypeAt DEF TypeOK
<1>2. /\ last_seq[f] <= last_seq'[f] /\ last_seq[f] <= Len(sent[f])
      /\ \A i \in 1..Len(sent[f]) : sent'[f][i] = sent[f][i]
  BY <1>0, <1>1, TypeAt, Grows DEF SenderInv
<1>3. /\ Len(read[x]) = last_received_seq[x] - Len(receive_que[x])
      /\ last_received_seq[x] <= last_seq[f]
  BY DEF CountInv
<1>4. \A i \in 1..last_received_seq[x] : sent'[f][i] = sent[f][i]
  BY <1>1, <1>2, <1>3
<1>5. \A i \in 1..Len(read[x]) : read[x][i] \in {sent'[f][i]} \cup extra
  <2>1. \A i \in 1..Len(read[x]) : i \in 1..last_received_seq[x]
    BY <1>1, <1>3
  <2>2. QED
    BY <1>4, <2>1 DEF Received
<1>6. \A i \in 1..Len(receive_que[x]) :
          receive_que[x][i] \in {sent'[f][Len(read[x]) + i]} \cup extra
  <2>1. \A i \in 1..Len(receive_que[x]) : Len(read[x]) + i \in 1..last_received_seq[x]
    BY <1>1, <1>3
  <2>2. QED
    BY <1>4, <2>1 DEF Received
<1>7. CASE Receive(x)
  <2>1. /\ read'[x] = Append(read[x], Head(receive_que[x]))
        /\ receive_que'[x] = Tail(receive_que[x])
        /\ last_received_seq'[x] = last_received_seq[x]
        /\ receive_que[x] # <<>>
    BY <1>7 DEF Receive, TypeOK
  <2>2. /\ Len(receive_que[x]) \in Nat \ {0}
        /\ Len(receive_que'[x]) = Len(receive_que[x]) - 1
        /\ \A i \in 1..(Len(receive_que[x]) - 1) :
              receive_que'[x][i] = receive_que[x][i + 1]
        /\ Head(receive_que[x]) = receive_que[x][1]
        /\ Head(receive_que[x]) \in Payload
    BY <2>1, TypeAt, TailFacts
  <2>3. /\ Len(read'[x]) = Len(read[x]) + 1
        /\ \A i \in 1..Len(read[x]) : read'[x][i] = read[x][i]
        /\ read'[x][Len(read[x]) + 1] = receive_que[x][1]
    BY <2>1, <2>2, TypeAt, AppendFacts
  <2>4. CountInv(x)'
    BY <2>1, <2>2, <2>3, <1>1, <1>2, <1>3 DEF CountInv
  <2>5. ASSUME NEW i \in 1..Len(read'[x])
        PROVE  read'[x][i] \in {sent'[f][i]} \cup extra
    <3>1. CASE i \in 1..Len(read[x])
      BY <3>1, <2>3, <1>5
    <3>2. CASE i = Len(read[x]) + 1
      <4>1. 1 \in 1..Len(receive_que[x])
        BY <2>2
      <4>2. QED
        BY <3>2, <4>1, <2>3, <1>6
    <3>3. QED
      BY <2>3, <3>1, <3>2, <1>1
  <2>6. ASSUME NEW i \in 1..Len(receive_que'[x])
        PROVE  receive_que'[x][i] \in {sent'[f][Len(read'[x]) + i]} \cup extra
    <3>1. i \in 1..(Len(receive_que[x]) - 1) /\ i + 1 \in 1..Len(receive_que[x])
      BY <2>2
    <3>2. Len(read[x]) + (i + 1) = Len(read'[x]) + i
      <4> DEFINE r == Len(read[x])
      <4>1. Len(read'[x]) = r + 1 /\ r \in Nat
        BY <2>3, <1>1
      <4> HIDE DEF r
      <4>2. r + (i + 1) = (r + 1) + i
        BY <3>1, <4>1
      <4>3. QED
        BY <4>1, <4>2 DEF r
    <3>3. QED
      BY <2>2, <3>1, <3>2, <1>6
  <2>7. QED
    BY <2>4, <2>5, <2>6 DEF Received
<1>8. CASE Accepts(x)
  <2>1. /\ last_received_seq'[x] = pkt[x].seq
        /\ pkt[x].seq = last_received_seq[x] + 1
        /\ receive_que'[x] = Append(receive_que[x], pkt[x].data)
        /\ read'[x] = read[x]
    BY <1>8 DEF Accepts, Enqueue, InSequence, TypeOK
  <2>2. pkt[x].data \in Payload
    BY TypeAt DEF Packet, Payload
  <2>3. /\ Len(receive_que'[x]) = Len(receive_que[x]) + 1
        /\ \A i \in 1..Len(receive_que[x]) : receive_que'[x][i] = receive_que[x][i]
        /\ receive_que'[x][Len(receive_que[x]) + 1] = pkt[x].data
    BY <2>1, <2>2, TypeAt, AppendFacts
  <2>4. pkt[x].seq <= last_seq[f]
    BY <1>8 DEF Acceptable
  <2>5. pkt[x].data \in {sent'[f][pkt[x].seq]} \cup extra
    <3>1. pkt[x].seq \in 1..Len(sent[f])
      BY <2>1, <2>4, <1>1, <1>2
    <3>2. QED
      BY <1>2, <1>8, <3>1 DEF Acceptable
  <2>6. CountInv(x)'
    <3>1. last_received_seq'[x] <= last_seq'[f]
      BY <2>1, <2>4, <1>1, <1>2
    <3>2. Len(read'[x]) = last_received_seq'[x] - Len(receive_que'[x])
      <4> DEFINE l == last_received_seq[x]
                 q == Len(receive_que[x])
      <4>1. /\ l \in Nat /\ q \in Nat
            /\ Len(read'[x]) = l - q
            /\ last_received_seq'[x] = l + 1
            /\ Len(receive_que'[x]) = q + 1
        BY <2>1, <2>3, <1>1, <1>3
      <4> HIDE DEF l, q
      <4>2. l - q = (l + 1) - (q + 1)
        BY <4>1
      <4>3. QED
        BY <4>1, <4>2
    <3>3. QED
      BY <3>1, <3>2 DEF CountInv
  <2>7. ASSUME NEW i \in 1..Len(receive_que'[x])
        PROVE  receive_que'[x][i] \in {sent'[f][Len(read'[x]) + i]} \cup extra
    <3>1. CASE i \in 1..Len(receive_que[x])
      BY <3>1, <2>1, <2>3, <1>6
    <3>2. CASE i = Len(receive_que[x]) + 1
      <4>1. Len(read'[x]) + i = pkt[x].seq
        BY <3>2, <2>1, <1>1, <1>3
      <4>2. QED
        BY <3>2, <4>1, <2>3, <2>5
    <3>3. QED
      BY <2>3, <3>1, <3>2, <1>1
  <2>8. QED
    BY <2>1, <2>6, <2>7, <1>5 DEF Received
<1>9. CASE UNCHANGED <<read[x], receive_que[x], last_received_seq[x]>>
  <2>1. CountInv(x)'
    BY <1>9, <1>1, <1>2, <1>3 DEF CountInv
  <2>2. QED
    BY <1>9, <2>1, <1>5, <1>6 DEF Received
<1>10. QED
  BY <1>7, <1>8, <1>9, ReceiverSteps

LEMMA OrderInvInit == Init => OrderInv
<1> SUFFICES ASSUME Init PROVE OrderInv
  OBVIOUS
<1>1. TypeOK
  BY TypeInit
<1>2. Len(Greeting) \in Nat /\ Client # Server
  BY ChannelAssumption, LenProperties
<1>3. \A x \in Side : Len(read[x]) \in Nat
  BY <1>1, TypeAt
<1>4. ASSUME NEW x \in Side
      PROVE  SenderInv(x) /\ PacketInv(x) /\ CountInv(x) /\ Received(x, {Empty})
  <2>1. CASE x = Client
    <3>1. Peer(x) = Server
      BY <2>1, SideFacts
    <3>2. /\ sent[x] = Greeting /\ send_que[x] = <<>> /\ last_seq[x] = Len(Greeting)
          /\ window[x] = [i \in 1..Len(Greeting) |-> [data |-> Greeting[i], seq |-> i]]
          /\ read[x] = <<>> /\ receive_que[x] = <<>> /\ last_received_seq[x] = 0
          /\ net[x] = {} /\ pkt[x] = Blank
          /\ sent[Server] = <<>> /\ last_seq[Server] = 0
      BY <2>1, <1>2 DEF Init, Blank, Side
    <3>3. Len(window[x]) = Len(Greeting)
      BY <3>2, <1>2, LenProperties
    <3>4. SenderInv(x)
      BY <3>2, <3>3, <1>2 DEF SenderInv
    <3>5. CountInv(x)
      <4>1. /\ Len(read[x]) = 0 /\ Len(receive_que[x]) = 0
            /\ last_received_seq[x] = 0 /\ last_seq[Peer(x)] = 0
        BY <3>1, <3>2
      <4>2. QED
        BY <4>1 DEF CountInv
    <3>6. PacketInv(x) /\ Received(x, {Empty})
      BY <3>1, <3>2 DEF PacketInv, Received, Blank
    <3>7. QED
      BY <3>4, <3>5, <3>6
  <2>2. CASE x = Server
    <3>1. Peer(x) = Client
      BY <2>2, SideFacts
    <3>2. /\ sent[x] = <<>> /\ send_que[x] = <<>> /\ last_seq[x] = 0
          /\ window[x] = <<>>
          /\ read[x] = Greeting /\ receive_que[x] = <<>>
          /\ last_received_seq[x] = Len(Greeting)
          /\ net[x] = {} /\ pkt[x] = Blank
          /\ sent[Client] = Greeting /\ last_seq[Client] = Len(Greeting)
      BY <2>2, <1>2 DEF Init, Blank, Side
    <3>3. SenderInv(x)
      BY <3>2 DEF SenderInv
    <3>4. CountInv(x)
      BY <3>1, <3>2, <1>2 DEF CountInv
    <3>5. PacketInv(x) /\ Received(x, {Empty})
      BY <3>1, <3>2, <1>2 DEF PacketInv, Received, Blank
    <3>6. QED
      BY <3>3, <3>4, <3>5
  <2>3. QED
    BY <2>1, <2>2 DEF Side
<1>5. QED
  BY <1>1, <1>4 DEF OrderInv

LEMMA OrderInvNext == OrderInv /\ [Next]_vars => OrderInv'
<1> SUFFICES ASSUME OrderInv, [Next]_vars PROVE OrderInv'
  OBVIOUS
<1>1. TypeOK /\ TypeOK'
  BY TypeNext DEF OrderInv
<1>2. ASSUME NEW x \in Side PROVE SenderInv(x)'
  BY <1>1, SenderInvNext DEF OrderInv
<1>3. ASSUME NEW x \in Side PROVE PacketInv(x)'
  <2>1. SenderInv(Peer(x)) /\ SenderInv(Peer(x))'
    BY <1>2, SideFacts DEF OrderInv
  <2>2. QED
    BY <1>1, <2>1, PacketInvNext DEF OrderInv
<1>4. ASSUME NEW x \in Side PROVE CountInv(x)' /\ Received(x, {Empty})'
  <2>1. /\ SenderInv(Peer(x)) /\ CountInv(x) /\ Received(x, {Empty}) /\ PacketInv(x)
    BY SideFacts DEF OrderInv
  <2>2. Acceptable(x, {Empty})
    BY <2>1 DEF PacketInv, Genuine, Acceptable
  <2>3. QED
    BY <1>1, <2>1, <2>2, ReceivedNext
<1>5. QED
  BY <1>1, <1>2, <1>3, <1>4 DEF OrderInv

LEMMA OrderInvAlways == Spec => []OrderInv
BY OrderInvInit, OrderInvNext, PTL DEF Spec

LEMMA AcceptedReceived ==
    ASSUME TypeOK, NEW x \in Side, NEW extra, SenderInv(Peer(x)),
           CountInv(x), Received(x, extra)
    PROVE  /\ Len(Accepted(x)) = last_received_seq[x]
           /\ Len(Accepted(x)) <= Len(sent[Peer(x)])
           /\ \A i \in 1..Len(Accepted(x)) :
                 Accepted(x)[i] \in {sent[Peer(x)][i]} \cup extra
<1>1. /\ Len(read[x]) \in Nat /\ Len(receive_que[x]) \in Nat
      /\ last_received_seq[x] \in Nat
      /\ last_seq[Peer(x)] \in Nat /\ Len(send_que[Peer(x)]) \in Nat
  BY SideFacts, TypeAt
<1>2. /\ Len(Accepted(x)) \in Nat
      /\ Len(Accepted(x)) - Len(read[x]) = Len(receive_que[x])
      /\ \A i \in 1..Len(read[x]) : Accepted(x)[i] = read[x][i]
      /\ \A i \in 1..Len(receive_que[x]) : Accepted(x)[Len(read[x]) + i] = receive_que[x][i]
  <2>1. read[x] \in Seq(Payload) /\ receive_que[x] \in Seq(Payload)
    BY TypeAt
  <2>2. QED
    BY <2>1, ConcatFacts, ZenonT(30) DEF Accepted
<1>3. Len(Accepted(x)) = last_received_seq[x]
  BY <1>1, <1>2 DEF CountInv
<1>4. Len(Accepted(x)) <= Len(sent[Peer(x)])
  BY <1>1, <1>3 DEF CountInv, SenderInv
<1>5. ASSUME NEW i \in 1..Len(Accepted(x))
      PROVE  Accepted(x)[i] \in {sent[Peer(x)][i]} \cup extra
  <2>1. CASE i <= Len(read[x])
    <3>1. i \in 1..Len(read[x])
      BY <1>1, <2>1
    <3>2. QED
      BY <1>2, <3>1 DEF Received
  <2>2. CASE ~(i <= Len(read[x]))
    <3>1. PICK j \in 1..Len(receive_que[x]) : i = Len(read[x]) + j
      <4>1. i - Len(read[x]) \in 1..Len(receive_que[x])
        <5> DEFINE r == Len(read[x])
                   q == Len(receive_que[x])
                   n == Len(Accepted(x))
        <5>1. /\ r \in Nat /\ q \in Nat /\ n \in Nat
              /\ n - r = q /\ i \in 1..n /\ ~(i <= r)
          BY <1>1, <1>2, <2>2
        <5> HIDE DEF r, q, n
        <5>2. i - r \in 1..q
          BY <5>1
        <5>3. QED
          BY <5>2 DEF r, q
      <4>2. i = Len(read[x]) + (i - Len(read[x]))
        BY <1>1
      <4>3. QED
        BY <4>1, <4>2
    <3>2. QED
      BY <1>2, <3>1 DEF Received
  <2>3. QED
    BY <2>1, <2>2
<1>6. QED
  BY <1>3, <1>4, <1>5

\* Whatever the network loses, repeats and reorders, and whatever a read past
\* the end of acks_to_send yields, nothing is reordered, repeated or made up.
THEOREM OrderTheorem == Spec => []OrderSurvivesGarbage
<1>1. OrderInv => OrderSurvivesGarbage
  <2> SUFFICES ASSUME OrderInv, NEW x \in Side
               PROVE  /\ Len(Accepted(x)) <= Len(sent[Peer(x)])
                      /\ \A i \in 1..Len(Accepted(x)) :
                             Accepted(x)[i] \in {sent[Peer(x)][i], Empty}
    BY DEF OrderSurvivesGarbage
  <2>1. TypeOK /\ SenderInv(Peer(x)) /\ CountInv(x) /\ Received(x, {Empty})
    BY SideFacts DEF OrderInv
  <2>2. QED
    BY <2>1, AcceptedReceived
<1>2. QED
  BY <1>1, OrderInvAlways, PTL

-------------------------------------------------------------------------------
(* With harmless garbage.                                                     *)

LEMMA AckInvNext ==
    ASSUME TypeOK, TypeOK', [Next]_vars, HarmlessGarbage, NEW x \in Side,
           AckInv(x), AckInv(Peer(x))
    PROVE  AckInv(x)'
<1> DEFINE f == Peer(x)
<1>1. /\ f \in Side
      /\ last_received_seq[x] \in Nat /\ last_received_seq'[x] \in Nat
      /\ last_received_seq[f] \in Nat /\ last_received_seq'[f] \in Nat
      /\ last_received_seq[x] <= last_received_seq'[x]
      /\ last_received_seq[f] <= last_received_seq'[f]
  BY SideFacts, TypeAt, Grows DEF TypeOK
<1>2. ASSUME NEW i \in 1..Len(acks_to_send'[x])
      PROVE  acks_to_send'[x][i] <= last_received_seq'[x]
  <2>1. ASSUME NEW j \in 1..Len(acks_to_send[x]),
               acks_to_send'[x][i] = acks_to_send[x][j]
        PROVE  acks_to_send'[x][i] <= last_received_seq'[x]
    <3>1. acks_to_send[x][j] <= last_received_seq[x]
      BY DEF AckInv
    <3>2. acks_to_send[x][j] \in Int
      BY TypeAt, ElementOfSeq
    <3>3. QED
      BY <1>1, <2>1, <3>1, <3>2
  <2>2. ASSUME acks_to_send'[x][i] = pkt[x].seq, Accepts(x)
        PROVE  acks_to_send'[x][i] <= last_received_seq'[x]
    <3>1. last_received_seq'[x] = pkt[x].seq
      BY <2>2 DEF Accepts, Enqueue, InSequence, TypeOK
    <3>2. QED
      BY <1>1, <2>2, <3>1
  <2>3. ASSUME acks_to_send'[x][i] = pkt[x].seq, pkt[x].seq <= last_received_seq[x]
        PROVE  acks_to_send'[x][i] <= last_received_seq'[x]
    <3>1. pkt[x].seq \in Int
      BY TypeAt DEF Packet
    <3>2. QED
      BY <1>1, <2>3, <3>1
  <2>4. QED
    BY <2>1, <2>2, <2>3, AckSteps
<1>3. ASSUME NEW p \in net'[x] \cup {pkt'[x]}
      PROVE  p.ack <= last_received_seq'[f]
  <2>1. CASE p \in net[x] \cup {pkt[x]}
    <3>1. p.ack \in Int /\ p.ack <= last_received_seq[f]
      BY <2>1, TypeAt DEF AckInv, Packet
    <3>2. QED
      BY <1>1, <3>1
  <2>2. CASE p = Blank
    BY <1>1, <2>2 DEF Blank
  <2>3. CASE FromWindow(f, p)
    <3>1. p.ack = last_received_seq[f]
      BY <2>3 DEF FromWindow, create_packet
    <3>2. QED
      BY <1>1, <3>1
  <2>4. CASE BareAck(f, p)
    <3>1. ASSUME acks_to_send[f] # <<>>, p.ack = Head(acks_to_send[f])
          PROVE  p.ack <= last_received_seq'[f]
      <4>1. /\ Head(acks_to_send[f]) = acks_to_send[f][1]
            /\ acks_to_send[f][1] \in Int
            /\ 1 \in 1..Len(acks_to_send[f])
        BY <1>1, <3>1, TypeAt, TailFacts
      <4>2. acks_to_send[f][1] <= last_received_seq[f]
        BY <4>1 DEF AckInv
      <4>3. QED
        BY <1>1, <3>1, <4>1, <4>2
    <3>2. ASSUME NEW ack \in Garbage, p.ack = ack
          PROVE  p.ack <= last_received_seq'[f]
      <4>1. ack \in Int /\ ack <= 0
        BY ChannelAssumption DEF HarmlessGarbage
      <4>2. QED
        BY <1>1, <3>2, <4>1
    <3>3. QED
      BY <2>4, <3>1, <3>2 DEF BareAck, create_packet
  <2>5. QED
    BY <2>1, <2>2, <2>3, <2>4, PacketSteps
<1>4. QED
  BY <1>2, <1>3 DEF AckInv

LEMMA KeepInvNext ==
    ASSUME TypeOK, TypeOK', [Next]_vars, NEW x \in Side,
           SenderInv(x), AckInv(x), KeepInv(x)
    PROVE  KeepInv(x)'
<1> DEFINE got == last_received_seq[Peer(x)]
<1>1. /\ last_seq[x] \in Nat /\ Len(window[x]) \in Nat
      /\ got \in Nat /\ last_received_seq'[Peer(x)] \in Nat
      /\ got <= last_received_seq'[Peer(x)]
  BY SideFacts, TypeAt, Grows DEF TypeOK
<1>2. last_seq[x] - Len(window[x]) <= got
  BY DEF KeepInv
<1>3. ASSUME NEW m \in Msg, Send(x, m) PROVE KeepInv(x)'
  <2>1. window'[x] = window[x] /\ last_seq'[x] = last_seq[x]
    BY <1>3 DEF Send
  <2>2. QED
    BY <1>1, <1>2, <2>1 DEF KeepInv
<1>4. CASE SendNew(x)
  <2> DEFINE entry == [data |-> Head(send_que[x]), seq |-> last_seq[x] + 1]
  <2>1. /\ window'[x] = Append(window[x], entry) /\ last_seq'[x] = last_seq[x] + 1
        /\ send_que[x] # <<>>
    BY <1>4 DEF SendNew, TypeOK
  <2>2. entry \in Entry
    BY <1>1, <2>1, TypeAt, TailFacts DEF Entry
  <2>3. Len(window'[x]) = Len(window[x]) + 1
    BY <2>1, <2>2, TypeAt, AppendFacts
  <2>4. QED
    BY <1>1, <1>2, <2>1, <2>3 DEF KeepInv
<1>5. CASE PopWindow(x)
  <2>1. PICK k \in 0..Len(window[x]) :
          /\ \A i \in 1..k : Acknowledges(pkt[x].ack, window[x][i])
          /\ window'[x] = SubSeq(window[x], k + 1, Len(window[x]))
    BY ZenonT(60), <1>5 DEF PopWindow, TypeOK
  <2>2. last_seq'[x] = last_seq[x]
    BY <1>5 DEF PopWindow
  <2>3. Len(window'[x]) = Len(window[x]) - k
    <3> DEFINE left == SubSeq(window[x], k + 1, Len(window[x]))
    <3>1. k \in Nat /\ k <= Len(window[x]) /\ window[x] \in Seq(Entry)
      BY <1>1, TypeAt
    <3>2. k <= Len(window[x]) => Len(left) = Len(window[x]) - k
      BY <3>1, DropFacts, Zenon
    <3>3. window'[x] = left
      BY <2>1
    <3> HIDE DEF left
    <3>4. QED
      BY <3>1, <3>2, <3>3
  <2>4. CASE k = 0
    BY <1>1, <1>2, <2>2, <2>3, <2>4 DEF KeepInv
  <2>5. CASE k # 0
    <3>1. k \in 1..k /\ k \in 1..Len(window[x])
      BY <1>1, <2>5
    <3>2. window[x][k].seq = last_seq[x] - Len(window[x]) + k
      <4> DEFINE s == last_seq[x] - Len(window[x]) + k
      <4>1. window[x][k] = [data |-> sent[x][s], seq |-> s]
        BY <3>1, Zenon DEF SenderInv
      <4>2. QED
        BY <4>1
    <3>3. pkt[x].ack >= window[x][k].seq
      BY <2>1, <3>1 DEF Acknowledges
    <3>4. pkt[x].ack \in Int /\ pkt[x].ack <= got
      BY TypeAt DEF AckInv, Packet
    <3>5. last_seq[x] - Len(window[x]) + k <= got
      BY <1>1, <3>2, <3>3, <3>4
    <3>6. QED
      BY <1>1, <2>2, <2>3, <3>5 DEF KeepInv
  <2>6. QED
    BY <2>4, <2>5
<1>6. CASE UNCHANGED <<sent[x], send_que[x], window[x], last_seq[x]>>
  BY <1>1, <1>2, <1>6 DEF KeepInv
<1>7. QED
  BY <1>3, <1>4, <1>5, <1>6, SenderSteps

LEMMA BareInvNext ==
    ASSUME TypeOK, TypeOK', [Next]_vars, NEW x \in Side,
           BareInv(x), KeepInv(Peer(x)), SenderInv(Peer(x)), SenderInv(Peer(x))'
    PROVE  BareInv(x)'
<1>1. /\ last_received_seq[x] \in Nat /\ last_received_seq'[x] \in Nat
      /\ last_received_seq[x] <= last_received_seq'[x]
      /\ last_seq[Peer(x)] \in Nat
  BY SideFacts, TypeAt, Grows DEF TypeOK
<1> SUFFICES ASSUME NEW p \in net'[x] \cup {pkt'[x]}
             PROVE  \/ Genuine(x, p)'
                    \/ p.data = Empty /\ p.seq <= last_received_seq'[x]
  BY DEF BareInv
<1>2. CASE p \in net[x] \cup {pkt[x]}
  <2>1. /\ p.seq \in Int
        /\ Genuine(x, p) \/ (p.data = Empty /\ p.seq <= last_received_seq[x])
    BY <1>2, TypeAt DEF BareInv, Packet
  <2>2. p.seq <= last_received_seq[x] => p.seq <= last_received_seq'[x]
    BY <1>1, <2>1
  <2>3. QED
    BY <2>1, <2>2, GenuineStays
<1>3. CASE p = Blank
  BY <1>1, <1>3 DEF Blank
<1>4. CASE FromWindow(Peer(x), p)
  BY <1>4, WindowGenuine
<1>5. CASE BareAck(Peer(x), p)
  <2>1. p.seq = last_seq[Peer(x)] /\ p.data = Empty /\ window[Peer(x)] = <<>>
    BY <1>5 DEF BareAck, create_packet
  <2>2. last_seq[Peer(x)] <= last_received_seq[x]
    <3>1. last_seq[Peer(x)] - Len(window[Peer(x)]) <= last_received_seq[x]
      BY SideFacts DEF KeepInv
    <3>2. Len(window[Peer(x)]) = 0
      BY <2>1
    <3>3. QED
      BY <1>1, <3>1, <3>2
  <2>3. QED
    BY <1>1, <2>1, <2>2
<1>6. QED
  BY <1>2, <1>3, <1>4, <1>5, PacketSteps

LEMMA ExactlyInvInit == Init => ExactlyInv
<1> SUFFICES ASSUME Init PROVE ExactlyInv
  OBVIOUS
<1>1. OrderInv
  BY OrderInvInit
<1>2. Len(Greeting) \in Nat /\ Client # Server
  BY ChannelAssumption, LenProperties
<1>3. ASSUME NEW x \in Side PROVE AckInv(x) /\ KeepInv(x) /\ BareInv(x) /\ Received(x, {})
  <2>1. CASE x = Client
    <3>1. Peer(x) = Server
      BY <2>1, SideFacts
    <3>2. /\ last_seq[x] = Len(Greeting)
          /\ window[x] = [i \in 1..Len(Greeting) |-> [data |-> Greeting[i], seq |-> i]]
          /\ read[x] = <<>> /\ receive_que[x] = <<>> /\ last_received_seq[x] = 0
          /\ net[x] = {} /\ pkt[x] = Blank /\ acks_to_send[x] = <<>>
          /\ last_received_seq[Server] = Len(Greeting)
      BY <2>1, <1>2 DEF Init, Blank, Side
    <3>3. AckInv(x) /\ BareInv(x) /\ Received(x, {})
      BY <1>2, <3>1, <3>2 DEF AckInv, BareInv, Received, Blank
    <3>4. KeepInv(x)
      <4>1. Len(window[x]) = Len(Greeting)
        BY <3>2, <1>2, LenProperties
      <4>2. last_seq[x] = Len(Greeting) /\ last_received_seq[Peer(x)] = Len(Greeting)
        BY <3>1, <3>2
      <4>3. QED
        BY <4>1, <4>2, <1>2 DEF KeepInv
    <3>5. QED
      BY <3>3, <3>4
  <2>2. CASE x = Server
    <3>1. Peer(x) = Client
      BY <2>2, SideFacts
    <3>2. /\ last_seq[x] = 0 /\ window[x] = <<>>
          /\ read[x] = Greeting /\ receive_que[x] = <<>>
          /\ last_received_seq[x] = Len(Greeting)
          /\ net[x] = {} /\ pkt[x] = Blank /\ acks_to_send[x] = <<>>
          /\ last_received_seq[Client] = 0 /\ sent[Client] = Greeting
      BY <2>2, <1>2 DEF Init, Blank, Side
    <3>3. AckInv(x) /\ BareInv(x) /\ Received(x, {})
      BY <1>2, <3>1, <3>2 DEF AckInv, BareInv, Received, Blank
    <3>4. KeepInv(x)
      BY <3>1, <3>2 DEF KeepInv
    <3>5. QED
      BY <3>3, <3>4
  <2>3. QED
    BY <2>1, <2>2 DEF Side
<1>4. QED
  BY <1>1, <1>3 DEF ExactlyInv

LEMMA ExactlyInvNext ==
    ASSUME HarmlessGarbage
    PROVE  ExactlyInv /\ [Next]_vars => ExactlyInv'
<1> SUFFICES ASSUME ExactlyInv, [Next]_vars PROVE ExactlyInv'
  OBVIOUS
<1>1. OrderInv /\ OrderInv'
  BY OrderInvNext DEF ExactlyInv
<1>2. TypeOK /\ TypeOK'
  BY <1>1 DEF OrderInv
<1>3. ASSUME NEW x \in Side
      PROVE  AckInv(x)' /\ KeepInv(x)' /\ BareInv(x)' /\ Received(x, {})'
  <2>1. Peer(x) \in Side
    BY SideFacts
  <2>2. /\ SenderInv(x) /\ SenderInv(Peer(x)) /\ SenderInv(Peer(x))'
        /\ PacketInv(x) /\ CountInv(x)
    BY <1>1, <2>1 DEF OrderInv
  <2>3. /\ AckInv(x) /\ AckInv(Peer(x)) /\ KeepInv(x) /\ KeepInv(Peer(x))
        /\ BareInv(x) /\ Received(x, {})
    BY <2>1 DEF ExactlyInv
  <2>4. AckInv(x)'
    BY <1>2, <2>3, AckInvNext
  <2>5. KeepInv(x)'
    BY <1>2, <2>2, <2>3, KeepInvNext
  <2>6. BareInv(x)'
    BY <1>2, <2>2, <2>3, BareInvNext
  <2>7. Accepts(x) => Acceptable(x, {})
    <3> HAVE Accepts(x)
    <3>1. pkt[x].seq = last_received_seq[x] + 1 /\ last_received_seq[x] \in Nat
      BY TypeAt, <1>2 DEF Accepts, InSequence
    <3>2. Genuine(x, pkt[x]) \/ pkt[x].seq <= last_received_seq[x]
      BY <2>3 DEF BareInv
    <3>3. Genuine(x, pkt[x]) /\ pkt[x].seq <= last_seq[Peer(x)]
      BY <2>2, <3>1, <3>2 DEF PacketInv
    <3>4. QED
      BY <3>3 DEF Genuine, Acceptable
  <2>8. Received(x, {})'
    BY <1>2, <2>2, <2>3, <2>7, ReceivedNext
  <2>9. QED
    BY <2>4, <2>5, <2>6, <2>8
<1>4. QED
  BY <1>1, <1>3 DEF ExactlyInv

LEMMA ExactlyInvAlways ==
    ASSUME HarmlessGarbage
    PROVE  Spec => []ExactlyInv
BY ExactlyInvInit, ExactlyInvNext, PTL DEF Spec

\* Each end gets the other's messages in order, each once, unchanged.
THEOREM ExactlyOnceTheorem ==
    ASSUME HarmlessGarbage
    PROVE  Spec => []InOrderExactlyOnce
<1>1. ExactlyInv => InOrderExactlyOnce
  <2> SUFFICES ASSUME ExactlyInv, NEW x \in Side
               PROVE  IsPrefixOf(Accepted(x), sent[Peer(x)])
    BY DEF InOrderExactlyOnce
  <2>1. TypeOK /\ SenderInv(Peer(x)) /\ CountInv(x) /\ Received(x, {})
    BY SideFacts DEF ExactlyInv, OrderInv
  <2>2. QED
    BY <2>1, AcceptedReceived DEF IsPrefixOf
<1>2. QED
  BY <1>1, ExactlyInvAlways, PTL

\* No acknowledgement runs ahead of what its sender has accepted.
THEOREM AckTheorem ==
    ASSUME HarmlessGarbage
    PROVE  Spec => []AckNeverAhead
<1>1. ExactlyInv => AckNeverAhead
  BY DEF ExactlyInv, AckInv, AckNeverAhead
<1>2. QED
  BY <1>1, ExactlyInvAlways, PTL

\* A message leaves the window only when the other end has accepted it.
THEOREM NothingForgottenTheorem ==
    ASSUME HarmlessGarbage
    PROVE  Spec => []NothingForgotten
<1>1. ASSUME ExactlyInv, NEW x \in Side
      PROVE  LET kept == Unacknowledged(x)
                 gone == Len(sent[x]) - Len(kept)
             IN  /\ gone \in 0..last_received_seq[Peer(x)]
                 /\ \A i \in 1..Len(kept) : kept[i] = sent[x][gone + i]
  <2> DEFINE payloads == [i \in 1..Len(window[x]) |-> window[x][i].data]
             kept == Unacknowledged(x)
             gone == last_seq[x] - Len(window[x])
  <2>1. TypeOK /\ SenderInv(x) /\ KeepInv(x)
    BY <1>1 DEF ExactlyInv, OrderInv
  <2>2. /\ last_seq[x] \in Nat /\ Len(window[x]) \in Nat /\ Len(send_que[x]) \in Nat
        /\ last_received_seq[Peer(x)] \in Nat
        /\ Len(window[x]) <= last_seq[x]
        /\ Len(sent[x]) = last_seq[x] + Len(send_que[x])
    BY <2>1, SideFacts, TypeAt DEF SenderInv
  <2>3. gone \in 0..last_received_seq[Peer(x)]
    BY <2>1, <2>2 DEF KeepInv
  <2>4. ASSUME NEW i \in 1..Len(window[x])
        PROVE  window[x][i].data = sent[x][gone + i]
    <3>1. window[x][i] = [data |-> sent[x][gone + i], seq |-> gone + i]
      BY <2>1, Zenon DEF SenderInv
    <3>2. QED
      BY <3>1
  <2>5. \A i \in 1..Len(send_que[x]) : send_que[x][i] = sent[x][last_seq[x] + i]
    BY <2>1 DEF SenderInv
  <2>6. payloads \in Seq(Payload) /\ Len(payloads) = Len(window[x])
    <3>1. \A i \in 1..Len(window[x]) : window[x][i].data \in Payload
      <4>1. \A i \in 1..Len(window[x]) : window[x][i] \in Entry
        BY <2>1, TypeAt, ElementOfSeq
      <4>2. QED
        BY <4>1 DEF Entry, Payload
    <3>2. payloads \in Seq(Payload)
      BY <2>2, <3>1, IsASeq
    <3>3. QED
      BY <2>2, <3>2, LenProperties
  <2>7. send_que[x] \in Seq(Payload)
    <3>1. \A i \in 1..Len(send_que[x]) : send_que[x][i] \in Payload
      BY <2>1, TypeAt, ElementOfSeq DEF Payload
    <3>2. send_que[x] = [i \in 1..Len(send_que[x]) |-> send_que[x][i]]
      BY <2>1, TypeAt, LenProperties
    <3>3. QED
      BY <2>2, <3>1, <3>2, IsASeq
  <2> HIDE DEF payloads
  <2>8. /\ Len(kept) \in Nat
        /\ Len(kept) - Len(payloads) = Len(send_que[x])
        /\ \A i \in 1..Len(payloads) : kept[i] = payloads[i]
        /\ \A i \in 1..Len(send_que[x]) : kept[Len(payloads) + i] = send_que[x][i]
    <3>1. kept = payloads \o send_que[x]
      BY DEF Unacknowledged, payloads
    <3> DEFINE both == payloads \o send_que[x]
    <3>2. /\ Len(both) \in Nat
          /\ Len(both) - Len(payloads) = Len(send_que[x])
          /\ \A i \in 1..Len(payloads) : both[i] = payloads[i]
          /\ \A i \in 1..Len(send_que[x]) : both[Len(payloads) + i] = send_que[x][i]
      <4>1. payloads \in Seq(Payload)
        BY <2>6
      <4>2. QED
        BY <4>1, <2>7, ConcatFacts
    <3> HIDE DEF both
    <3>3. kept = both
      BY <3>1 DEF both
    <3>4. QED
      BY <3>2, <3>3
  <2> HIDE DEF kept
  <2>9. Len(sent[x]) - Len(kept) = gone
    <3> DEFINE n == Len(kept)
               w == Len(window[x])
               q == Len(send_que[x])
    <3>1. /\ n \in Nat /\ w \in Nat /\ q \in Nat /\ last_seq[x] \in Nat
          /\ n - w = q /\ Len(sent[x]) = last_seq[x] + q
      BY <2>2, <2>6, <2>8
    <3> HIDE DEF n, w, q
    <3>2. (last_seq[x] + q) - n = last_seq[x] - w
      BY <3>1
    <3>3. QED
      BY <3>1, <3>2 DEF n, w
  <2>10. ASSUME NEW i \in 1..Len(kept) PROVE kept[i] = sent[x][gone + i]
    <3>1. CASE i <= Len(window[x])
      <4>1. i \in 1..Len(window[x])
        BY <2>2, <3>1
      <4>2. payloads[i] = window[x][i].data
        BY <4>1 DEF payloads
      <4>3. QED
        BY <2>4, <2>6, <2>8, <4>1, <4>2
    <3>2. CASE ~(i <= Len(window[x]))
      <4>1. PICK j \in 1..Len(send_que[x]) : i = Len(window[x]) + j
        <5> DEFINE n == Len(kept)
                   w == Len(window[x])
                   q == Len(send_que[x])
        <5>1. /\ n \in Nat /\ w \in Nat /\ q \in Nat
              /\ n - w = q /\ i \in 1..n /\ ~(i <= w)
          BY <2>2, <2>6, <2>8, <3>2
        <5> HIDE DEF n, w, q
        <5>2. i - w \in 1..q /\ i = w + (i - w)
          BY <5>1
        <5>3. QED
          BY <5>2 DEF w, q
      <4>2. gone + i = last_seq[x] + j
        BY <2>2, <4>1
      <4>3. QED
        BY <2>5, <2>6, <2>8, <4>1, <4>2
    <3>3. QED
      BY <3>1, <3>2
  <2>11. QED
    BY <2>3, <2>9, <2>10 DEF kept
<1>2. ExactlyInv => NothingForgotten
  BY <1>1 DEF NothingForgotten
<1>3. QED
  BY <1>2, ExactlyInvAlways, PTL

-------------------------------------------------------------------------------
(* The channel implements the link.                                           *)

LEMMA LinkStep ==
    ASSUME ExactlyInv, [Next]_vars
    PROVE  [Link!Next]_Link!linkVars
<1> USE DEF Link!linkVars
<1>0. TypeOK
  BY DEF ExactlyInv, OrderInv
<1>1. ASSUME NEW e \in Side, NEW m \in Msg, Send(e, m) PROVE Link!Next
  BY <1>1 DEF Send, Link!Next, Link!Send, Link!Side, Side
<1>2. ASSUME NEW e \in Side, Receive(e) PROVE Link!Next
  <2>1. CountInv(e) /\ Received(e, {}) /\ SenderInv(Peer(e))
    BY SideFacts DEF ExactlyInv, OrderInv
  <2>2. /\ Len(receive_que[e]) \in Nat \ {0}
        /\ Head(receive_que[e]) = receive_que[e][1]
        /\ 1 \in 1..Len(receive_que[e])
    BY <1>0, <1>2, TypeAt, TailFacts DEF Receive
  <2>3. Head(receive_que[e]) = sent[Peer(e)][Len(read[e]) + 1]
    BY <2>1, <2>2 DEF Received
  <2>4. Len(read[e]) < Len(sent[Peer(e)])
    <3>1. /\ Len(read[e]) \in Nat /\ last_received_seq[e] \in Nat
          /\ last_seq[Peer(e)] \in Nat /\ Len(send_que[Peer(e)]) \in Nat
      BY <1>0, SideFacts, TypeAt
    <3>2. Len(read[e]) < last_received_seq[e]
      BY <2>1, <2>2, <3>1 DEF CountInv
    <3>3. last_received_seq[e] <= last_seq[Peer(e)]
      BY <2>1 DEF CountInv
    <3>4. last_seq[Peer(e)] <= Len(sent[Peer(e)])
      BY <2>1, <3>1 DEF SenderInv
    <3>5. Len(sent[Peer(e)]) \in Nat
      BY <1>0, SideFacts, TypeAt
    <3>6. QED
      BY <3>1, <3>2, <3>3, <3>4, <3>5
  <2>5. /\ read' = [read EXCEPT ![e] = Append(@, sent[Peer(e)][Len(@) + 1])]
        /\ UNCHANGED sent
    BY <1>2, <2>3 DEF Receive
  <2>6. Link!Receive(e)
    BY <2>4, <2>5 DEF Link!Receive, Link!Peer, Peer
  <2>7. QED
    BY <2>6 DEF Link!Next, Link!Side, Side
<1>3. ASSUME NEW e \in Side,
             \/ CloseCall(e) \/ CloseReturn(e) \/ Exit(e) \/ Abort(e)
             \/ SendNew(e) \/ Resend(e) \/ SendAck(e) \/ SendGarbageAck(e)
             \/ PopWindow(e) \/ Enqueue(e)
             \/ \E p \in net[e] : Recvfrom(e, p)
      PROVE  UNCHANGED <<sent, read>>
  BY <1>3 DEF CloseCall, CloseReturn, Exit, Abort, SendNew, Resend, SendAck,
     SendGarbageAck, PopWindow, Enqueue, Recvfrom
<1>4. UNCHANGED vars => UNCHANGED <<sent, read>>
  BY DEF vars
<1>5. QED
  BY <1>1, <1>2, <1>3, <1>4
     DEF Next, SendThread, SendThreadThrows, SendThreadCrashes, ReceiveThread

\* The channel is a link: what receive() returns is what send() was given.
THEOREM LinkTheorem ==
    ASSUME HarmlessGarbage
    PROVE  Spec => LinkSpec
<1>1. Init => Link!Init
  BY DEF Init, Link!Init, Link!Side, Side
<1>2. ExactlyInv /\ [Next]_vars => [Link!Next]_Link!linkVars
  BY LinkStep
<1>3. QED
  BY <1>1, <1>2, ExactlyInvAlways, PTL DEF Spec, LinkSpec, Link!Spec
===============================================================================
