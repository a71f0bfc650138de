---------------------------- MODULE ReliableChannel ----------------------------
(***************************************************************************)
(* channel/reliable_channel.cpp: the two ends of one reliable channel, each *)
(* with its application threads (send, receive, close), its send thread     *)
(* (send_function) and its receive thread (receive_function), over UDP.     *)
(*                                                                          *)
(* Two places of the source have no defined outcome of their own:           *)
(*   - line 82 locks send_que_lock in the constructor of lock3, and line 84 *)
(*     hands that owned lock to std::lock, which throws: see lock3_deferred; *)
(*   - lines 161-163 read and pop acks_to_send without asking whether it is *)
(*     empty: see Garbage and deficit.                                      *)
(*                                                                          *)
(* One pass of the send loop is one step: it holds acks_to_send_lock,       *)
(* window_lock and send_que_lock from line 84 to its end.  The receive      *)
(* thread takes three steps a packet, for it takes window_lock and then     *)
(* acks_to_send_lock with receive_que_lock, and nothing in between.         *)
(***************************************************************************)
EXTENDS Integers, Sequences, FiniteSets

CONSTANTS
    Client, Server,  \* the two ends
    Msg,             \* the messages applications send
    Empty,           \* the empty string, the payload of a bare acknowledgement
    Greeting,        \* what the client sent to the listening socket before the
                     \* server's channel existed
    MaxWindow,       \* max_window_size, 128 in the source
    Lock3Deferred,   \* the values lock3_deferred may have
    Garbage,         \* the values a read past the end of acks_to_send may yield
    StaleFlag,       \* the values the two closed_ flags, never initialised and
                     \* never assigned, may have
    Leavers,         \* ends whose application may close and leave main
    MaxSend,         \* bound: messages each end sends, the greeting included
    MaxAcks,         \* bound: acknowledgements waiting in acks_to_send
    MaxDeficit,      \* bound: pops past the end of acks_to_send, at most the
                     \* 128 numbers of a node of a std::deque<uint32_t>
    NetCap           \* bound: packets in flight to each end; later ones are lost

VARIABLES
    sent,              \* history: messages given to send()
    read,              \* history: messages receive() returned
    send_que,
    window,            \* [data, seq] of the messages not acknowledged
    acks_to_send,
    deficit,           \* how far acks_to_send was popped past its end
    last_seq,
    last_received_seq,
    receive_que,
    pc,                \* where the receive thread is
    pkt,               \* its packet_data p
    proc,              \* the process this end lives in
    closing,           \* close(): not called, waiting for wait_for_close, done
    closed_threads,    \* closed_receive_thread && closed_send_thread
    lock3_deferred,    \* never changes. FALSE is the source: lock3 owns its mutex
                       \* when std::lock gets it. TRUE supposes the std::defer_lock
                       \* its neighbours have, so that the rest can be studied
    net                \* packets in flight to each end

sendVars  == <<send_que, window, last_seq>>
ackVars   == <<acks_to_send, deficit>>
rxVars    == <<last_received_seq, receive_que, pc, pkt>>
fixedVars == <<closed_threads, lock3_deferred>>
closeVars == <<closing, fixedVars>>
vars == <<sent, read, sendVars, ackVars, rxVars, proc, closeVars, net>>

Side == {Client, Server}
Peer(e) == IF e = Client THEN Server ELSE Client

\* packet_data: flags and checksum are always 0 and payload_len is that of data.
Packet == [seq : Int, ack : Int, data : Msg \cup {Empty}]
Entry  == [data : Msg \cup {Empty}, seq : Int]

ASSUME ChannelAssumption ==
    /\ Client # Server
    /\ Greeting \in Seq(Msg)
    /\ MaxWindow \in Nat \ {0}
    /\ Len(Greeting) <= MaxWindow
    /\ Lock3Deferred \subseteq BOOLEAN
    /\ Garbage \subseteq Int
    /\ StaleFlag \subseteq BOOLEAN
    /\ Leavers \subseteq Side
    /\ MaxSend \in [Side -> Nat]
    /\ MaxAcks \in Nat
    /\ MaxDeficit \in Nat
    /\ NetCap \in [Side -> Nat]

-------------------------------------------------------------------------------
(* The constructor.  When the listener creates the server's channel, with its *)
(* last_received_seq set to the number of the message the listening socket    *)
(* took, the client still has that message in its window.                     *)

Init ==
    /\ sent = [e \in Side |-> IF e = Client THEN Greeting ELSE <<>>]
    /\ read = [e \in Side |-> IF e = Server THEN Greeting ELSE <<>>]
    /\ send_que = [e \in Side |-> <<>>]
    /\ window = [e \in Side |->
                   IF e = Client
                   THEN [i \in 1..Len(Greeting) |-> [data |-> Greeting[i], seq |-> i]]
                   ELSE <<>>]
    /\ acks_to_send = [e \in Side |-> <<>>]
    /\ deficit = [e \in Side |-> 0]
    /\ last_seq = [e \in Side |-> IF e = Client THEN Len(Greeting) ELSE 0]
    /\ last_received_seq = [e \in Side |-> IF e = Server THEN Len(Greeting) ELSE 0]
    /\ receive_que = [e \in Side |-> <<>>]
    /\ pc = [e \in Side |-> "recvfrom"]
    /\ pkt = [e \in Side |-> [seq |-> 0, ack |-> 0, data |-> Empty]]
    /\ proc = [e \in Side |-> "running"]
    /\ closing = [e \in Side |-> "open"]
    /\ closed_threads \in [Side -> StaleFlag]
    /\ lock3_deferred \in Lock3Deferred
    /\ net = [e \in Side |-> {}]

Running(e) == proc[e] = "running"

-------------------------------------------------------------------------------
(* The application's threads.                                                 *)

\* send() of an inactive channel complains and queues the message all the same.
Send(e, m) ==
    /\ Running(e)
    /\ Len(sent[e]) < MaxSend[e]
    /\ sent' = [sent EXCEPT ![e] = Append(@, m)]
    /\ send_que' = [send_que EXCEPT ![e] = Append(@, m)]
    /\ UNCHANGED <<read, window, last_seq, ackVars, rxVars, proc, closeVars, net>>

Receive(e) ==
    /\ Running(e)
    /\ receive_que[e] # <<>>
    /\ read' = [read EXCEPT ![e] = Append(@, Head(receive_que[e]))]
    /\ receive_que' = [receive_que EXCEPT ![e] = Tail(@)]
    /\ UNCHANGED <<sent, sendVars, ackVars, last_received_seq, pc, pkt, proc,
                   closeVars, net>>

\* close() clears active, which only changes what is printed, and waits.
CloseCall(e) ==
    /\ Running(e)
    /\ e \in Leavers
    /\ closing[e] = "open"
    /\ closing' = [closing EXCEPT ![e] = "waiting"]
    /\ UNCHANGED <<sent, read, sendVars, ackVars, rxVars, proc, fixedVars, net>>

CloseReturn(e) ==
    /\ Running(e)
    /\ closing[e] = "waiting"
    /\ closed_threads[e]
    /\ closing' = [closing EXCEPT ![e] = "closed"]
    /\ UNCHANGED <<sent, read, sendVars, ackVars, rxVars, proc, fixedVars, net>>

\* main returns: the two threads are detached and end with the process.
Exit(e) ==
    /\ Running(e)
    /\ e \in Leavers
    /\ closing[e] # "waiting"
    /\ proc' = [proc EXCEPT ![e] = "exited"]
    /\ UNCHANGED <<sent, read, sendVars, ackVars, rxVars, closeVars, net>>

-------------------------------------------------------------------------------
(* send_function.                                                             *)

\* std::lock over lock3, which already owns send_que_lock, throws
\* resource_deadlock_would_occur; nothing catches it and the process aborts.
StdLockThrows == ~lock3_deferred

Abort(e) ==
    /\ proc' = [proc EXCEPT ![e] = "aborted"]
    /\ UNCHANGED <<sent, read, sendVars, ackVars, rxVars, closeVars, net>>

SendThreadThrows(e) ==
    /\ Running(e)
    /\ StdLockThrows
    /\ Abort(e)

SendThreadLocks(e) == Running(e) /\ ~StdLockThrows

create_packet(data, seq, ack) == [seq |-> seq, ack |-> ack, data |-> data]

\* The whole window, each entry with the acknowledgement of this pass.
WindowPackets(w, ack) == {create_packet(w[i].data, w[i].seq, ack) : i \in 1..Len(w)}

\* serialize_and_send for each of the packets of one pass; some are lost.
Transmit(e, packets) ==
    \E through \in SUBSET packets :
        /\ Cardinality(net[Peer(e)] \cup through) <= NetCap[Peer(e)]
        /\ net' = [net EXCEPT ![Peer(e)] = @ \cup through]

\* Mutant: pop_front() without asking whether the deque is empty.
PopAcksUnguarded(e, n) ==
    /\ acks_to_send' = [acks_to_send EXCEPT ![e] = SubSeq(@, n + 1, Len(@))]
    /\ deficit' = [deficit EXCEPT
                     ![e] = IF n > Len(acks_to_send[e]) THEN @ + n ELSE @]

\* "if (!acks_to_send.empty()) acks_to_send.pop_front()", n times.  A deque
\* popped past its end is not empty(): it is popped further.
PopAcks(e, n) ==
    /\ deficit[e] > 0 => deficit[e] + n <= MaxDeficit
    /\ acks_to_send' = [acks_to_send EXCEPT ![e] = SubSeq(@, n + 1, Len(@))]
    /\ deficit' = [deficit EXCEPT ![e] = IF @ > 0 THEN @ + n ELSE @]

\* A new message goes into the window.  If WINDOW_RESEND_TIME has passed since
\* the last acknowledgement or resend, the window that now ends with it is sent
\* as well.
SendNew(e) ==
    /\ SendThreadLocks(e)
    /\ Len(window[e]) # MaxWindow
    /\ send_que[e] # <<>>
    /\ LET seq == last_seq[e] + 1
           data == Head(send_que[e])
           w == Append(window[e], [data |-> data, seq |-> seq])
           ack == last_received_seq[e]
       IN  /\ send_que' = [send_que EXCEPT ![e] = Tail(@)]
           /\ last_seq' = [last_seq EXCEPT ![e] = seq]
           /\ window' = [window EXCEPT ![e] = w]
           /\ \/ /\ Transmit(e, {create_packet(data, seq, ack)})
                 /\ PopAcks(e, 1)
              \/ /\ Transmit(e, WindowPackets(w, ack))
                 /\ PopAcks(e, 1 + Len(w))
    /\ UNCHANGED <<sent, read, rxVars, proc, closeVars>>

\* Mutant: only a full window is sent again.
ResendFull(e) ==
    /\ SendThreadLocks(e)
    /\ Len(window[e]) = MaxWindow
    /\ Transmit(e, WindowPackets(window[e], last_received_seq[e]))
    /\ PopAcks(e, Len(window[e]))
    /\ UNCHANGED <<sent, read, sendVars, rxVars, proc, closeVars>>

\* WINDOW_RESEND_TIME has passed and there is nothing new to send, or no room.
Resend(e) ==
    /\ SendThreadLocks(e)
    /\ window[e] # <<>>
    /\ Len(window[e]) = MaxWindow \/ send_que[e] = <<>>
    /\ Transmit(e, WindowPackets(window[e], last_received_seq[e]))
    /\ PopAcks(e, Len(window[e]))
    /\ UNCHANGED <<sent, read, sendVars, rxVars, proc, closeVars>>

Idle(e) == window[e] = <<>> /\ send_que[e] = <<>>

\* A bare acknowledgement carries the number of the last message sent.
SendAck(e) ==
    /\ SendThreadLocks(e)
    /\ Idle(e)
    /\ acks_to_send[e] # <<>>
    /\ Transmit(e, {create_packet(Empty, last_seq[e], Head(acks_to_send[e]))})
    /\ acks_to_send' = [acks_to_send EXCEPT ![e] = Tail(@)]
    /\ UNCHANGED <<sent, read, sendVars, deficit, rxVars, proc, closeVars>>

\* With nothing to acknowledge front() reads, and pop_front() steps over, memory
\* past the end of acks_to_send.
SendGarbageAck(e) ==
    /\ SendThreadLocks(e)
    /\ Idle(e)
    /\ acks_to_send[e] = <<>>
    /\ deficit[e] < MaxDeficit
    /\ \E ack \in Garbage : Transmit(e, {create_packet(Empty, last_seq[e], ack)})
    /\ deficit' = [deficit EXCEPT ![e] = @ + 1]
    /\ UNCHANGED <<sent, read, sendVars, acks_to_send, rxVars, proc, closeVars>>

\* Somewhere past its end the deque leaves its last node.
SendThreadCrashes(e) ==
    /\ SendThreadLocks(e)
    /\ deficit[e] > 0
    /\ Abort(e)

SendThread(e) ==
    \/ SendThreadThrows(e)
    \/ SendNew(e)
    \/ Resend(e)
    \/ SendAck(e)
    \/ SendGarbageAck(e)
    \/ SendThreadCrashes(e)

-------------------------------------------------------------------------------
(* receive_function, and the network that gives it packets.                   *)

\* The network may keep a copy, and delivers in any order.
Recvfrom(e, p) ==
    /\ Running(e)
    /\ pc[e] = "recvfrom"
    /\ p \in net[e]
    /\ \E left \in {net[e], net[e] \ {p}} : net' = [net EXCEPT ![e] = left]
    /\ pkt' = [pkt EXCEPT ![e] = p]
    /\ pc' = [pc EXCEPT ![e] = "pop_window"]
    /\ UNCHANGED <<sent, read, sendVars, ackVars, last_received_seq, receive_que,
                   proc, closeVars>>

\* Mutant: an acknowledgement of the message before is enough.
AcknowledgesNext(ack, entry) == ack + 1 >= entry.seq

Acknowledges(ack, entry) == ack >= entry.seq

\* The while loop that pops the acknowledged head of the window, k times.
PopWindow(e) ==
    /\ Running(e)
    /\ pc[e] = "pop_window"
    /\ \E k \in 0..Len(window[e]) :
          /\ \A i \in 1..k : Acknowledges(pkt[e].ack, window[e][i])
          /\ k < Len(window[e]) => ~Acknowledges(pkt[e].ack, window[e][k + 1])
          /\ window' = [window EXCEPT ![e] = SubSeq(@, k + 1, Len(@))]
    /\ pc' = [pc EXCEPT ![e] = "enqueue"]
    /\ UNCHANGED <<sent, read, send_que, last_seq, ackVars, last_received_seq,
                   receive_que, pkt, proc, closeVars, net>>

\* Mutant: acknowledges the number that is expected next.
PushNextAck(e, seq) ==
    /\ Len(acks_to_send[e]) < MaxAcks
    /\ acks_to_send' = [acks_to_send EXCEPT ![e] = Append(@, seq + 1)]
    /\ UNCHANGED deficit

\* push_back on a deque popped past its end fills the gap and adds nothing.
PushAck(e, seq) ==
    IF deficit[e] > 0
    THEN /\ deficit' = [deficit EXCEPT ![e] = @ - 1]
         /\ UNCHANGED acks_to_send
    ELSE /\ Len(acks_to_send[e]) < MaxAcks
         /\ acks_to_send' = [acks_to_send EXCEPT ![e] = Append(@, seq)]
         /\ UNCHANGED deficit

\* Mutant: a gap is skipped.
SkipsGap(p, received) == p.seq > received

InSequence(p, received) == p.seq = received + 1

\* A repeated message is acknowledged again, a bare acknowledgement never.
Repeated(p, received) == p.seq <= received /\ p.data # Empty

Enqueue(e) ==
    LET p == pkt[e]
        received == last_received_seq[e]
    IN
    /\ Running(e)
    /\ pc[e] = "enqueue"
    /\ \/ /\ InSequence(p, received)
          /\ last_received_seq' = [last_received_seq EXCEPT ![e] = p.seq]
          /\ receive_que' = [receive_que EXCEPT ![e] = Append(@, p.data)]
          /\ PushAck(e, p.seq)
       \/ /\ ~InSequence(p, received)
          /\ Repeated(p, received)
          /\ PushAck(e, p.seq)
          /\ UNCHANGED <<last_received_seq, receive_que>>
       \/ /\ ~InSequence(p, received)
          /\ ~Repeated(p, received)
          /\ UNCHANGED <<ackVars, last_received_seq, receive_que>>
    /\ pc' = [pc EXCEPT ![e] = "recvfrom"]
    /\ pkt' = [pkt EXCEPT ![e] = [seq |-> 0, ack |-> 0, data |-> Empty]]
    /\ UNCHANGED <<sent, read, sendVars, proc, closeVars, net>>

ReceiveThread(e) == (\E p \in net[e] : Recvfrom(e, p)) \/ PopWindow(e) \/ Enqueue(e)

-------------------------------------------------------------------------------
Next ==
    \E e \in Side :
        \/ \E m \in Msg : Send(e, m)
        \/ Receive(e)
        \/ CloseCall(e)
        \/ CloseReturn(e)
        \/ Exit(e)
        \/ SendThread(e)
        \/ ReceiveThread(e)

Spec == Init /\ [][Next]_vars

\* Both threads of a live process keep running, the resend timer keeps expiring,
\* a message that is sent for ever is neither lost nor passed over for ever, and
\* the network does not repeat the packets it has for ever.
Carries(p, k) == p.seq = k /\ p.data # Empty

Reaches(e, k) == SendThread(e) /\ \E p \in net'[Peer(e)] : Carries(p, k)

Fairness ==
    \A e \in Side :
        /\ WF_vars(SendThread(e))
        /\ WF_vars(PopWindow(e) \/ Enqueue(e))
        /\ \A k \in 1..MaxSend[Peer(e)] :
              SF_vars(\E p \in net[e] : Carries(p, k) /\ Recvfrom(e, p))
        /\ SF_vars(\E p \in net[e] : Recvfrom(e, p) /\ p \notin net'[e])
        /\ \A k \in 1..MaxSend[e] : SF_vars(Reaches(e, k))

FairSpec == Spec /\ Fairness

-------------------------------------------------------------------------------
TypeOK ==
    /\ sent \in [Side -> Seq(Msg)]
    /\ read \in [Side -> Seq(Msg \cup {Empty})]
    /\ send_que \in [Side -> Seq(Msg)]
    /\ window \in [Side -> Seq(Entry)]
    /\ acks_to_send \in [Side -> Seq(Int)]
    /\ deficit \in [Side -> 0..MaxDeficit]
    /\ last_seq \in [Side -> Nat]
    /\ last_received_seq \in [Side -> Nat]
    /\ receive_que \in [Side -> Seq(Msg \cup {Empty})]
    /\ pc \in [Side -> {"recvfrom", "pop_window", "enqueue"}]
    /\ pkt \in [Side -> Packet]
    /\ proc \in [Side -> {"running", "exited", "aborted"}]
    /\ closing \in [Side -> {"open", "waiting", "closed"}]
    /\ closed_threads \in [Side -> BOOLEAN]
    /\ lock3_deferred \in BOOLEAN
    /\ net \in [Side -> SUBSET Packet]

\* Everything the receive thread of e has queued since the start.
Accepted(e) == read[e] \o receive_que[e]

\* Everything e has been given to send and may still send.
Unacknowledged(e) == [i \in 1..Len(window[e]) |-> window[e][i].data] \o send_que[e]

IsPrefixOf(s, t) == Len(s) <= Len(t) /\ \A i \in 1..Len(s) : s[i] = t[i]

\* Each end gets the other's messages in order, each once, unchanged, whatever
\* the network loses, repeats and reorders, and whatever is sent again.  Needs
\* that a read past the end of acks_to_send yields no number of a message.
InOrderExactlyOnce == \A e \in Side : IsPrefixOf(Accepted(e), sent[Peer(e)])

\* Whatever is read past the end of acks_to_send, nothing is reordered, repeated
\* or made up: the k-th message accepted is the k-th one sent or, if a bare
\* acknowledgement took its number, the empty string in its place.
OrderSurvivesGarbage ==
    \A e \in Side :
        /\ Len(Accepted(e)) <= Len(sent[Peer(e)])
        /\ \A i \in 1..Len(Accepted(e)) :
               Accepted(e)[i] \in {sent[Peer(e)][i], Empty}

\* A message leaves the window only when the other end has accepted it: window
\* and send_que together are the end of what was sent, and reach back at least
\* to the first message the other end lacks.
NothingForgotten ==
    \A e \in Side :
        LET kept == Unacknowledged(e)
            gone == Len(sent[e]) - Len(kept)
        IN  /\ gone \in 0..last_received_seq[Peer(e)]
            /\ \A i \in 1..Len(kept) : kept[i] = sent[e][gone + i]

\* No packet in flight or being handled acknowledges more than its sender had
\* accepted, though the number was read under one lock and sent long after.
AckNeverAhead ==
    \A e \in Side :
        \A p \in net[e] \cup {pkt[e]} : p.ack <= last_received_seq[Peer(e)]

\* A message that has entered a window is accepted by the other end, unless one
\* of the two processes has ended.
Delivered(e, k) ==
    (last_seq[e] >= k) ~>
        \/ last_received_seq[Peer(e)] >= k
        \/ ~Running(e)
        \/ ~Running(Peer(e))

WindowDelivered ==
    \A e \in Side : \A k \in 1..MaxSend[e] : Delivered(e, k)

\* What an application that calls send() expects: the message reaches the other
\* end unless one of the applications leaves.  No clause excuses an abort.
SentIsDelivered ==
    \A e \in Side : \A k \in 1..MaxSend[e] :
        (Len(sent[e]) >= k) ~>
            \/ last_received_seq[Peer(e)] >= k
            \/ \E f \in Side : proc[f] = "exited"

\* The abstract link, and that this channel implements it.
Link == INSTANCE ReliableLink WITH sent <- sent, read <- read
LinkSpec == Link!Spec
===============================================================================
