------------------------------- MODULE Handshake -------------------------------
(***************************************************************************)
(* How a client gets a channel of its own: reliable_connect_to_one() in     *)
(* client/reliable_connection.cpp; the listen thread (listen_server and     *)
(* handle_new_reliable_connection) and wait_for_ipport_list() of the server. *)
(*                                                                          *)
(* The client sends "1" to the listening socket over a reliable channel.    *)
(* The listen thread creates a channel with a socket of its own, which      *)
(* takes the client's "1" as its first message and sends the number of its  *)
(* port; the client turns its own channel to that port and sends "ok".      *)
(* The listen thread does nothing else until the channel has received that. *)
(*                                                                          *)
(* Channels are those of module ReliableChannel with Lock3Deferred, their   *)
(* reads past the end of acks_to_send included.  Only the numbers of their  *)
(* messages are kept here, and the receive thread handles a packet in one   *)
(* step.  When such a read crashes the server, its steps are over: every    *)
(* behaviour of Spec may stop taking them.                                  *)
(***************************************************************************)
EXTENDS Integers, Sequences, FiniteSets

CONSTANTS
    Client,      \* ip:port pairs
    One, Ok,     \* the messages "1" and "ok"
    Empty,       \* the empty string, the payload of a bare acknowledgement
    None,        \* no client, no channel, nothing received
    CountMod,    \* channel_count counts modulo this, 2^16 in the source
    Crashers,    \* clients that may crash
    Leavers,     \* clients whose main returns once they are connected
    Awaited,     \* the argument of wait_for_ipport_list
    Garbage,     \* the values a read past the end of acks_to_send may yield
    MaxChannels, \* bound: channels the server creates
    MaxStarts,   \* bound: processes that a client's ip:port has, one at a time
    MaxAcks,     \* bound: acknowledgements waiting in one acks_to_send
    MaxDeficit,  \* bound: pops past the end of each acks_to_send
    NetCap       \* bound: packets in flight, those to the listening socket apart

\* The channels of the server in the order it creates them; the number of a
\* channel here stands for the port of its socket.
Channel == 1..MaxChannels

End == Client \cup Channel

VARIABLES
    app,               \* where the main thread of each client is
    starts,            \* processes each client's address has had
    dest,              \* of a channel: the client it was created for
    last_seq,
    acknowledged,      \* the window is the messages after this one
    last_received_seq,
    acks_to_send,
    deficit,           \* how far acks_to_send was popped past its end
    received,          \* the first message receive() returns or will return
    listener,          \* the channel the listen thread waits on, None in recvfrom
    created,           \* how many channels the server has created
    channels,          \* channel number -> channel
    ipport_to_channel, \* client -> channel number
    awaiting,          \* what is left of Awaited
    asleep,            \* wait_for_ipport() is in channels_cv.wait
    toListener,        \* clients that have a packet in flight to the listening socket
    net                \* packets in flight to other sockets

sendVars == <<last_seq, acknowledged>>
recvVars == <<last_received_seq, received>>
ackVars == <<acks_to_send, deficit>>
channelVars == <<sendVars, recvVars, ackVars>>
clientVars == <<app, starts>>
serverVars == <<dest, listener, created, channels, ipport_to_channel>>
waitVars == <<awaiting, asleep>>
netVars == <<toListener, net>>
vars == <<clientVars, channelVars, serverVars, waitVars, netVars>>

Text == {One, Ok, Empty} \cup Channel
Packet == [to : End, seq : Nat, ack : Int, text : Text]

ASSUME HandshakeAssumption ==
    /\ IsFiniteSet(Client)
    /\ None \notin End \cup Text \cup 0..(CountMod - 1)
    /\ Client \cap Text = {}
    /\ One # Ok /\ One # Empty /\ Ok # Empty
    /\ {One, Ok, Empty} \cap Channel = {}
    /\ CountMod \in Nat \ {0}
    /\ Crashers \subseteq Client
    /\ Leavers \subseteq Client
    /\ Awaited \in Seq(Client)
    /\ MaxChannels \in Nat
    /\ MaxStarts \in Nat
    /\ MaxAcks \in Nat \ {0}
    /\ Garbage \subseteq Int
    /\ MaxDeficit \in [End -> Nat]
    /\ NetCap \in Nat

Init ==
    /\ app = [c \in Client |-> "down"]
    /\ starts = [c \in Client |-> 0]
    /\ dest = [k \in Channel |-> None]
    /\ last_seq = [x \in End |-> 0]
    /\ acknowledged = [x \in End |-> 0]
    /\ last_received_seq = [x \in End |-> 0]
    /\ acks_to_send = [x \in End |-> <<>>]
    /\ deficit = [x \in End |-> 0]
    /\ received = [x \in End |-> None]
    /\ listener = None
    /\ created = 0
    /\ channels = [n \in 0..(CountMod - 1) |-> None]
    /\ ipport_to_channel = [c \in Client |-> None]
    /\ awaiting = Awaited
    /\ asleep = FALSE
    /\ toListener = {}
    /\ net = {}

-------------------------------------------------------------------------------
(* The channels.                                                              *)

ClientUp(c) == app[c] \in {"asking", "told", "switched", "connected"}
Up(x) == IF x \in Client THEN ClientUp(x) ELSE dest[x] # None

\* How often send() was called, and with what.
Given(x) == IF x \in Client /\ app[x] = "connected" THEN 2 ELSE 1
TextOf(x, seq) == IF x \in Channel THEN x ELSE IF seq = 1 THEN One ELSE Ok

\* Mutant: the client goes on sending to the listening socket.
NeverSwitches(x) == x \in Client

\* dest_addr: that of a client is the listening socket until the client is told.
ToListener(x) == x \in Client /\ app[x] \in {"asking", "told"}
DestOf(x) == IF x \in Client THEN received[x] ELSE dest[x]

\* One pass of the send thread transmits some packets; some of them are lost.
\* The listening socket only looks at where a packet comes from.
Transmit(x, packets) ==
    IF ToListener(x)
    THEN /\ toListener' \in {toListener, toListener \cup {x}}
         /\ UNCHANGED net
    ELSE /\ \E through \in SUBSET packets : net' = net \cup through
         /\ Cardinality(net') <= NetCap
         /\ UNCHANGED toListener

create_packet(x, seq, text, ack) ==
    [to |-> DestOf(x), seq |-> seq, ack |-> ack, text |-> text]

WindowPackets(x, last) ==
    {create_packet(x, n, TextOf(x, n), last_received_seq[x]) :
        n \in (acknowledged[x] + 1)..last}

\* Mutant: pop_front() without asking whether the deque is empty.
PopAcksUnguarded(x, n) ==
    /\ acks_to_send' = [acks_to_send EXCEPT ![x] = SubSeq(@, n + 1, Len(@))]
    /\ deficit' = [deficit EXCEPT
                     ![x] = IF n > Len(acks_to_send[x]) THEN @ + n ELSE @]

\* Every packet that is sent takes one acknowledgement off the queue, if any; a
\* queue popped past its end is popped further.
PopAcks(x, n) ==
    /\ deficit[x] > 0 => deficit[x] + n <= MaxDeficit[x]
    /\ acks_to_send' = [acks_to_send EXCEPT ![x] = SubSeq(@, n + 1, Len(@))]
    /\ deficit' = [deficit EXCEPT ![x] = IF @ > 0 THEN @ + n ELSE @]

\* A queue popped past its end takes nothing in until the gap is filled.
PushAck(x, seq) ==
    IF deficit[x] > 0
    THEN /\ deficit' = [deficit EXCEPT ![x] = @ - 1]
         /\ UNCHANGED acks_to_send
    ELSE /\ Len(acks_to_send[x]) < MaxAcks
         /\ acks_to_send' = [acks_to_send EXCEPT ![x] = Append(@, seq)]
         /\ UNCHANGED deficit

\* The new message goes out, or the whole window that it now ends.
SendNew(x) ==
    LET seq == last_seq[x] + 1
        w == WindowPackets(x, seq)
    IN
    /\ Up(x)
    /\ last_seq[x] < Given(x)
    /\ last_seq' = [last_seq EXCEPT ![x] = seq]
    /\ \/ Transmit(x, {p \in w : p.seq = seq}) /\ PopAcks(x, 1)
       \/ Transmit(x, w) /\ PopAcks(x, 1 + Cardinality(w))
    /\ UNCHANGED <<clientVars, acknowledged, recvVars, serverVars, waitVars>>

Resend(x) ==
    /\ Up(x)
    /\ last_seq[x] = Given(x)
    /\ acknowledged[x] < last_seq[x]
    /\ Transmit(x, WindowPackets(x, last_seq[x]))
    /\ PopAcks(x, last_seq[x] - acknowledged[x])
    /\ UNCHANGED <<clientVars, sendVars, recvVars, serverVars, waitVars>>

\* Window and send_que are empty; they are too between the start of the threads
\* and the first send().
Idle(x) ==
    /\ acknowledged[x] = last_seq[x]
    /\ last_seq[x] \in {0, Given(x)}

SendAck(x) ==
    /\ Up(x)
    /\ Idle(x)
    /\ acks_to_send[x] # <<>>
    /\ Transmit(x, {create_packet(x, last_seq[x], Empty, Head(acks_to_send[x]))})
    /\ PopAcks(x, 1)
    /\ UNCHANGED <<clientVars, sendVars, recvVars, serverVars, waitVars>>

\* With nothing to acknowledge front() reads, and pop_front() steps over, memory
\* past the end of acks_to_send.
SendGarbageAck(x) ==
    /\ Up(x)
    /\ Idle(x)
    /\ acks_to_send[x] = <<>>
    /\ deficit[x] < MaxDeficit[x]
    /\ \E ack \in Garbage : Transmit(x, {create_packet(x, last_seq[x], Empty, ack)})
    /\ deficit' = [deficit EXCEPT ![x] = @ + 1]
    /\ UNCHANGED <<clientVars, sendVars, recvVars, acks_to_send, serverVars, waitVars>>

SendThread(x) == SendNew(x) \/ Resend(x) \/ SendAck(x) \/ SendGarbageAck(x)

\* A packet is handled, and may stay to come again.  The window is popped while
\* the acknowledgement is not below its head.
Receive(p) ==
    LET x == p.to
        inSequence == p.seq = last_received_seq[x] + 1
        repeated == p.seq <= last_received_seq[x] /\ p.text # Empty
    IN
    /\ Up(x)
    /\ net' \in {net, net \ {p}}
    /\ acknowledged' = [acknowledged EXCEPT
                          ![x] = IF p.ack <= @ THEN @
                                 ELSE IF p.ack < last_seq[x] THEN p.ack ELSE last_seq[x]]
    /\ last_received_seq' = [last_received_seq EXCEPT ![x] = IF inSequence THEN p.seq ELSE @]
    /\ received' = [received EXCEPT
                      ![x] = IF inSequence /\ @ = None THEN p.text ELSE @]
    /\ IF inSequence \/ repeated
       THEN PushAck(x, p.seq)
       ELSE UNCHANGED ackVars
    /\ UNCHANGED <<clientVars, last_seq, serverVars, waitVars, toListener>>

-------------------------------------------------------------------------------
(* The client.                                                                *)

\* A new process at the address: reliable_connect_to_one() up to send("1").
ClientStart(c) ==
    /\ app[c] \in {"down", "aborted"}
    /\ starts[c] < MaxStarts
    /\ app' = [app EXCEPT ![c] = "asking"]
    /\ starts' = [starts EXCEPT ![c] = @ + 1]
    /\ last_seq' = [last_seq EXCEPT ![c] = 0]
    /\ acknowledged' = [acknowledged EXCEPT ![c] = 0]
    /\ last_received_seq' = [last_received_seq EXCEPT ![c] = 0]
    /\ received' = [received EXCEPT ![c] = None]
    /\ acks_to_send' = [acks_to_send EXCEPT ![c] = <<>>]
    /\ deficit' = [deficit EXCEPT ![c] = 0]
    /\ UNCHANGED <<serverVars, waitVars, netVars>>

\* receive() returns the first message the channel accepted.
ReceivePort(c) ==
    /\ app[c] = "asking"
    /\ received[c] # None
    /\ app' = [app EXCEPT ![c] = "told"]
    /\ UNCHANGED <<starts, channelVars, serverVars, waitVars, netVars>>

\* stoi() of the port, or of an empty message, which throws and is not caught.
SwitchDest(c) ==
    /\ app[c] = "told"
    /\ app' = [app EXCEPT ![c] = IF received[c] \in Channel THEN "switched" ELSE "aborted"]
    /\ UNCHANGED <<starts, channelVars, serverVars, waitVars, netVars>>

SendOk(c) ==
    /\ app[c] = "switched"
    /\ app' = [app EXCEPT ![c] = "connected"]
    /\ UNCHANGED <<starts, channelVars, serverVars, waitVars, netVars>>

ClientLeaves(c) ==
    /\ c \in Leavers
    /\ app[c] = "connected"
    /\ app' = [app EXCEPT ![c] = "down"]
    /\ UNCHANGED <<starts, channelVars, serverVars, waitVars, netVars>>

\* By itself, or because its send thread leaves the last node of acks_to_send.
ClientCrash(c) ==
    /\ c \in Crashers \/ deficit[c] > 0
    /\ ClientUp(c)
    /\ app' = [app EXCEPT ![c] = "down"]
    /\ UNCHANGED <<starts, channelVars, serverVars, waitVars, netVars>>

ClientMain(c) == ReceivePort(c) \/ SwitchDest(c) \/ SendOk(c)

-------------------------------------------------------------------------------
(* The listen thread.                                                         *)

Registered(c) == ipport_to_channel[c] # None

\* recvfrom() in listen_server takes a packet of c, which may come again.
TakeFrom(c) ==
    /\ listener = None
    /\ c \in toListener
    /\ toListener' \in {toListener, toListener \ {c}}
    /\ UNCHANGED <<clientVars, waitVars, net>>

ListenKnown(c) ==
    /\ TakeFrom(c)
    /\ Registered(c)
    /\ UNCHANGED <<channelVars, serverVars>>

\* socket(), bind() or getsockname() fails.
ListenFails(c) ==
    /\ TakeFrom(c)
    /\ ~Registered(c)
    /\ UNCHANGED <<channelVars, serverVars>>

\* last_received_seq of a new channel: the listening socket has taken the "1".
FirstTaken == 1

\* Mutant: does not look whether the client has a channel.
UnknownOrNot(c) == TRUE

Unknown(c) == ~Registered(c)

\* The rest of handle_new_reliable_connection() up to receive().
ListenNew(c) ==
    LET k == created + 1
    IN
    /\ TakeFrom(c)
    /\ Unknown(c)
    /\ k \in Channel
    /\ created' = k
    /\ dest' = [dest EXCEPT ![k] = c]
    /\ last_received_seq' = [last_received_seq EXCEPT ![k] = FirstTaken]
    /\ listener' = k
    /\ UNCHANGED <<sendVars, received, ackVars, channels, ipport_to_channel>>

\* Mutant: the count is not incremented.
SameNumber(k) == 0

\* ++channel_count
channel_number(k) == k % CountMod

\* Mutant: receive() returns with nothing, as if it had a timeout.
AnsweredOrNot(k) == TRUE

Answered(k) == received[k] # None

\* Mutant: the new channel is not announced.
WakesNobody == asleep' = asleep

notify_all == asleep' = FALSE

\* Mutant: registers the client without waiting for its answer.
RegistersAtOnce ==
    /\ listener # None
    /\ ipport_to_channel' =
           [ipport_to_channel EXCEPT ![dest[listener]] = channel_number(listener)]
    /\ channels' = [channels EXCEPT ![channel_number(listener)] = listener]
    /\ notify_all
    /\ listener' = None
    /\ UNCHANGED <<clientVars, channelVars, dest, created, awaiting, netVars>>

\* receive() returns; what is not "ok" is dropped, with the channel.
ListenerDone ==
    /\ listener # None
    /\ Answered(listener)
    /\ IF received[listener] = Ok
       THEN /\ ipport_to_channel' =
                  [ipport_to_channel EXCEPT ![dest[listener]] = channel_number(listener)]
            /\ channels' = [channels EXCEPT ![channel_number(listener)] = listener]
            /\ notify_all
       ELSE UNCHANGED <<channels, ipport_to_channel, asleep>>
    /\ listener' = None
    /\ UNCHANGED <<clientVars, channelVars, dest, created, awaiting, netVars>>

-------------------------------------------------------------------------------
(* wait_for_ipport_list(), under universal_lock as ListenerDone is.           *)

Found ==
    /\ awaiting # <<>>
    /\ ~asleep
    /\ Registered(Head(awaiting))
    /\ awaiting' = Tail(awaiting)
    /\ UNCHANGED <<clientVars, channelVars, serverVars, asleep, netVars>>

NotFound ==
    /\ awaiting # <<>>
    /\ ~asleep
    /\ ~Registered(Head(awaiting))
    /\ asleep' = TRUE
    /\ UNCHANGED <<clientVars, channelVars, serverVars, awaiting, netVars>>

-------------------------------------------------------------------------------
ListenThread ==
    \/ \E c \in Client : ListenKnown(c) \/ ListenFails(c) \/ ListenNew(c)
    \/ ListenerDone

Next ==
    \/ \E x \in End : SendThread(x)
    \/ \E p \in net : Receive(p)
    \/ \E c \in Client :
          ClientStart(c) \/ ClientMain(c) \/ ClientLeaves(c) \/ ClientCrash(c)
    \/ ListenThread
    \/ Found \/ NotFound

Spec == Init /\ [][Next]_vars

\* Clients start, threads go on, sockets are not refused for ever, a message
\* that is sent for ever is neither lost nor passed over for ever, and the network
\* does not repeat the packets it has for ever.
Carries(p, x, text) == p.to = x /\ p.text = text

Reaches(x) ==
    /\ SendThread(x)
    /\ IF ToListener(x)
       THEN x \in toListener'
       ELSE \E p \in net' : Carries(p, DestOf(x), TextOf(x, Given(x)))

Fairness ==
    /\ \A c \in Client :
          /\ WF_vars(starts[c] = 0 /\ ClientStart(c))
          /\ WF_vars(ClientMain(c))
          /\ SF_vars(ListenNew(c))
          /\ WF_vars(SendThread(c)) /\ SF_vars(Reaches(c))
          /\ SF_vars(\E p \in net : p.to = c /\ p.text \in Channel /\ Receive(p))
    /\ \A k \in Channel :
          /\ WF_vars(SendThread(k)) /\ SF_vars(Reaches(k))
          /\ SF_vars(\E p \in net : Carries(p, k, Ok) /\ Receive(p))
    /\ SF_vars(\E p \in net : Receive(p) /\ p \notin net')
    /\ WF_vars(ListenerDone)
    /\ WF_vars(Found \/ NotFound)

FairSpec == Spec /\ Fairness

-------------------------------------------------------------------------------
TypeOK ==
    /\ app \in [Client -> {"down", "asking", "told", "switched", "connected", "aborted"}]
    /\ starts \in [Client -> 0..MaxStarts]
    /\ dest \in [Channel -> Client \cup {None}]
    /\ last_seq \in [End -> 0..2]
    /\ acknowledged \in [End -> 0..2]
    /\ last_received_seq \in [End -> 0..2]
    /\ acks_to_send \in [End -> Seq(Nat)]
    /\ deficit \in [End -> Nat]
    /\ \A x \in End : deficit[x] <= MaxDeficit[x]
    /\ received \in [End -> Text \cup {None}]
    /\ listener \in Channel \cup {None}
    /\ created \in 0..MaxChannels
    /\ channels \in [0..(CountMod - 1) -> Channel \cup {None}]
    /\ ipport_to_channel \in [Client -> 0..(CountMod - 1) \cup {None}]
    /\ awaiting \in Seq(Client)
    /\ asleep \in BOOLEAN
    /\ toListener \in SUBSET Client
    /\ net \in SUBSET Packet

\* However often a client's "1" arrives, and however often the client is started
\* anew, the server makes one channel for it.  This, NotAbandoned and AllServed
\* need that a read past the end of acks_to_send yields no number of a message:
\* such a number takes the "1" or the "ok" out of a window.
OneChannelPerClient ==
    \A j, k \in 1..created : dest[j] = dest[k] => j = k

\* A client that has switched sends to the channel made for it, and what the
\* server finds under a client's address is that channel: connections are not
\* crossed.  Needs that channel_count has not come round.
NotCrossed ==
    \A c \in Client :
        /\ app[c] \in {"switched", "connected"} => dest[received[c]] = c
        /\ Registered(c) /\ created <= CountMod =>
               /\ channels[ipport_to_channel[c]] # None
               /\ dest[channels[ipport_to_channel[c]]] = c

\* The channel a client has been told of, in this life or in an earlier one, is
\* one the listen thread still waits on or has registered: the server has not
\* given up on it.  Its place among the channels is its own as long as
\* channel_count has not come round.
NotAbandoned ==
    \A c \in Client :
        app[c] \in {"switched", "connected"} =>
            \/ received[c] = listener
            \/ /\ Registered(c)
               /\ created <= CountMod => channels[ipport_to_channel[c]] = received[c]

\* The server registers a client only after the client has been told the port
\* and confirmed it.
RegisteredHasConfirmed ==
    \A c \in Client :
        Registered(c) /\ starts[c] = 1 =>
            /\ app[c] \in {"connected", "down"}
            /\ last_seq[c] = 2
            /\ received[c] \in Channel

\* Once a client is registered its address leads to the same channel, whatever
\* comes again or is started anew, as long as channel_count has not come round:
\* the channel an application has begun to use is not taken from it.
RegisteredForGood ==
    [][\A c \in Client : Registered(c) =>
          /\ ipport_to_channel'[c] = ipport_to_channel[c]
          /\ created <= CountMod =>
                 channels'[ipport_to_channel[c]] = channels[ipport_to_channel[c]]]_vars

\* wait_for_ipport() does not sleep on a client that is registered.
NoLostWakeup == asleep => ~Registered(Head(awaiting))

\* Without crashes every client gets its channel and the server stops waiting.
AllServed ==
    /\ \A c \in Client : <>(app[c] = "connected" /\ Registered(c))
    /\ <>(awaiting = <<>>)

\* The server answers a client that asks, unless the client ends.
AskingIsTold ==
    \A c \in Client : (app[c] = "asking") ~> (app[c] # "asking")
===============================================================================
