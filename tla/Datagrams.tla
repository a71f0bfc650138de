------------------------------- MODULE Datagrams -------------------------------
(***************************************************************************)
(* The unreliable service from end to end: an unreliable client            *)
(* (client/client.cpp), the network, and the server's listen thread,       *)
(* receive thread, two thread pools and application (server/server.cpp).   *)
(*                                                                         *)
(* The client asks the listening socket for a channel and takes the        *)
(* sender of the first datagram that comes for the server's.  The server   *)
(* answers from a new socket and only then makes the channel.  What        *)
(* arrives on the sockets of channels is queued by tasks of the receivers  *)
(* pool, which read the tables without universal_lock; what is sent is     *)
(* sent by tasks of the senders pool, which keep a pointer to the caller's *)
(* buffer.                                                                 *)
(*                                                                         *)
(* Only the listen thread's insertion is split while it has universal_lock, *)
(* for only there do the tasks see a difference.  receive() of the server, *)
(* which keeps the lock while it waits, is the subject of Server.          *)
(***************************************************************************)
EXTENDS Integers, Sequences, FiniteSets

CONSTANTS
    Client,      \* ip:port pairs
    IpOf,        \* the address without the port
    Restarters,  \* clients whose process may end and start again at its ip:port
    Text,        \* what the application of the server sends
    Zero,        \* "0", which asks for a channel
    Reply,       \* the client's port number, the answer
    Message,     \* what clients send: the server does not look into it
    Listener,    \* the listening socket
    None,        \* no client, no channel
    MaxChannels, \* bound: channels created
    MaxTasks,    \* bound: tasks that the senders pool has for each channel
    NetCap       \* bound: datagrams in flight; later ones are lost

\* A channel's number also stands for its socket.
Channel == 1..MaxChannels
Ip == {IpOf[c] : c \in Client}
Texts == Text \cup {Reply, Zero, Message}
Datagram == [from : Client \cup Channel, to : Client \cup Channel \cup {Listener},
             text : Texts]

ASSUME DatagramsAssumption ==
    /\ IsFiniteSet(Client)
    /\ DOMAIN IpOf = Client
    /\ Restarters \subseteq Client
    /\ Client \cap Channel = {}
    /\ {Listener, None} \cap (Client \cup Channel) = {}
    /\ {Zero, Reply, Message} \cap Text = {}
    /\ MaxChannels \in Nat
    /\ MaxTasks \in [Channel -> Nat]
    /\ NetCap \in Nat

VARIABLES
    app,           \* what each client has done: nothing, asked, connected, thrown
    serv_addr,     \* where each client sends
    listener,      \* where the listen thread is
    peer,          \* of each socket, oldest first: who asked, dest_addr of its channel
    ip_to_channel,
    channels,      \* the channels inserted; client_sockets has their sockets
    receiving,     \* clients with a datagram in a task of the receivers pool
    receive_que,   \* clients with a message queued on each channel
    buf,           \* what the buffer holds that the application sends from
    sending,       \* how many tasks the senders pool has for each channel
    given,         \* history: texts that send_to_channel was called with
    refilled,      \* history: buf was written while a task had yet to read it
    crashed,       \* the server is gone
    net            \* datagrams in flight

clientVars == <<app, serv_addr>>
listenVars == <<listener, peer, ip_to_channel, channels>>
receiverVars == <<receiving, receive_que, crashed>>
senderVars == <<buf, sending, given, refilled>>
vars == <<clientVars, listenVars, receiverVars, senderVars, net>>

Init ==
    /\ app = [c \in Client |-> "new"]
    /\ serv_addr = [c \in Client |-> Listener]
    /\ listener = "recvfrom"
    /\ peer = <<>>
    /\ ip_to_channel = [i \in Ip |-> None]
    /\ channels = {}
    /\ receiving = {}
    /\ receive_que = [n \in Channel |-> {}]
    /\ buf \in Text
    /\ sending = [n \in Channel |-> 0]
    /\ given = [n \in Channel |-> {}]
    /\ refilled = FALSE
    /\ crashed = FALSE
    /\ net = {}

-------------------------------------------------------------------------------
(* The network loses, repeats and reorders.                                   *)

Post(from, to, text) ==
    \/ UNCHANGED net
    \/ /\ net' = net \cup {[from |-> from, to |-> to, text |-> text]}
       /\ Cardinality(net') <= NetCap

Take(d) == net' \in {net, net \ {d}}

-------------------------------------------------------------------------------
(* The client.                                                                *)

\* Mutant: asks again when no answer comes.
MayAsk(c) == app[c] \in {"new", "connecting"}

HasNotAsked(c) == app[c] = "new"

\* init(), and connect_to_server() up to recvfrom().
Connect(c) ==
    /\ HasNotAsked(c)
    /\ app' = [app EXCEPT ![c] = "connecting"]
    /\ Post(c, Listener, Zero)
    /\ UNCHANGED <<serv_addr, listenVars, receiverVars, senderVars>>

\* socket() or sendto() fails: init() or connect_to_server() throws.
ConnectThrows(c) ==
    /\ app[c] = "new"
    /\ app' = [app EXCEPT ![c] = "failed"]
    /\ UNCHANGED <<serv_addr, listenVars, receiverVars, senderVars, net>>

\* recvfrom() writes the sender into serv_addr, whatever it has sent.
Connected(c, d) ==
    /\ app[c] = "connecting"
    /\ d.to = c
    /\ Take(d)
    /\ app' = [app EXCEPT ![c] = "connected"]
    /\ serv_addr' = [serv_addr EXCEPT ![c] = d.from]
    /\ UNCHANGED <<listenVars, receiverVars, senderVars>>

\* send(), and close(), whose "unreliable_end" is a message like any other.
Send(c) ==
    /\ app[c] = "connected"
    /\ Post(c, serv_addr[c], Message)
    /\ UNCHANGED <<clientVars, listenVars, receiverVars, senderVars>>

\* Whatever datagram comes; no more of it than the length of what was last sent,
\* and the rest is gone.
Receive(c, d) ==
    /\ app[c] = "connected"
    /\ d.to = c
    /\ Take(d)
    /\ UNCHANGED <<clientVars, listenVars, receiverVars, senderVars>>

Restart(c) ==
    /\ c \in Restarters
    /\ app[c] # "new"
    /\ app' = [app EXCEPT ![c] = "new"]
    /\ serv_addr' = [serv_addr EXCEPT ![c] = Listener]
    /\ UNCHANGED <<listenVars, receiverVars, senderVars, net>>

-------------------------------------------------------------------------------
(* The listen thread.                                                         *)

Newest == Len(peer)
Sockets == 1..Newest

\* A "0" is taken, and a socket opened for whoever sent it.
ListenServer(d) ==
    /\ ~crashed
    /\ listener = "recvfrom"
    /\ d.to = Listener
    /\ Newest < MaxChannels
    /\ Take(d)
    /\ peer' = Append(peer, d.from)
    /\ listener' = "replying"
    /\ UNCHANGED <<clientVars, ip_to_channel, channels, receiverVars, senderVars>>

\* Mutant: the answer comes from the listening socket.
ListeningSocket == Listener

NewSocket == Newest

HandleNewConnection ==
    /\ ~crashed
    /\ listener = "replying"
    /\ Post(NewSocket, peer[Newest], Reply)
    /\ listener' = "locking"
    /\ UNCHANGED <<clientVars, peer, ip_to_channel, channels, receiverVars, senderVars>>

\* universal_lock: the other threads that take it let go of it in the same step.
LockFree == listener # "inserting"

BeginInsert ==
    /\ ~crashed
    /\ listener = "locking"
    /\ listener' = "inserting"
    /\ UNCHANGED <<clientVars, peer, ip_to_channel, channels, receiverVars, senderVars,
                   net>>

EndInsert ==
    /\ ~crashed
    /\ listener = "inserting"
    /\ ip_to_channel' = [ip_to_channel EXCEPT ![IpOf[peer[Newest]]] = Newest]
    /\ channels' = channels \cup {Newest}
    /\ listener' = "recvfrom"
    /\ UNCHANGED <<clientVars, peer, receiverVars, senderVars, net>>

-------------------------------------------------------------------------------
(* The receive thread and the receivers pool.                                 *)

ClientSockets == channels

\* A round with several readable sockets is as many rounds.  A copy of a task
\* that is waiting is as good as lost.
HandleReceivePacket(d) ==
    /\ ~crashed
    /\ LockFree
    /\ d.to \in ClientSockets
    /\ Take(d)
    /\ receiving' = receiving \cup {d.from}
    /\ UNCHANGED <<clientVars, listenVars, receive_que, crashed, senderVars>>

\* Mutant: the newest channel gets every message.
NewestNumber(c) == Newest

NumberOf(c) == ip_to_channel[IpOf[c]]

\* receiver_function(), which throws when it finds no channel.  Lookups while
\* the maps are written may miss what is there, or yield the null pointer of an
\* entry they make themselves.
ReceiverFunction(c) ==
    LET n == NumberOf(c)
    IN
    /\ ~crashed
    /\ receiving' = receiving \ {c}
    /\ \/ /\ n # None
          /\ receive_que' = [receive_que EXCEPT ![n] = @ \cup {c}]
          /\ UNCHANGED crashed
       \/ /\ n = None \/ listener = "inserting"
          /\ UNCHANGED <<receive_que, crashed>>
       \/ /\ listener = "inserting"
          /\ crashed' = TRUE
          /\ UNCHANGED receive_que
    /\ UNCHANGED <<clientVars, listenVars, senderVars, net>>

-------------------------------------------------------------------------------
(* The application of the server, and the senders pool.                       *)

Fill(text) ==
    /\ ~crashed
    /\ text # buf
    /\ buf' = text
    /\ refilled' = (refilled \/ \E n \in Channel : sending[n] > 0)
    /\ UNCHANGED <<clientVars, listenVars, receiverVars, sending, given, net>>

\* send_to_channel() of a channel that is there; else it throws.
SendToChannel(n) ==
    /\ ~crashed
    /\ LockFree
    /\ n \in channels
    /\ sending[n] < MaxTasks[n]
    /\ sending' = [sending EXCEPT ![n] = @ + 1]
    /\ given' = [given EXCEPT ![n] = @ \cup {buf}]
    /\ UNCHANGED <<clientVars, listenVars, receiverVars, buf, refilled, net>>

\* Mutant: every task sends on the newest channel.
NewestAddress(n) == peer[Newest]

DestAddr(n) == peer[n]

\* The task reads what buf holds now.
SenderTask(n) ==
    /\ ~crashed
    /\ sending[n] > 0
    /\ sending' = [sending EXCEPT ![n] = @ - 1]
    /\ Post(n, DestAddr(n), buf)
    /\ UNCHANGED <<clientVars, listenVars, receiverVars, buf, given, refilled>>

-------------------------------------------------------------------------------
ClientStep(c) ==
    \/ Connect(c) \/ ConnectThrows(c) \/ Send(c) \/ Restart(c)
    \/ \E d \in net : Connected(c, d) \/ Receive(c, d)

ListenThread == (\E d \in net : ListenServer(d)) \/ HandleNewConnection
                \/ BeginInsert \/ EndInsert

Next ==
    \/ \E c \in Client : ClientStep(c)
    \/ ListenThread
    \/ \E d \in net : HandleReceivePacket(d)
    \/ \E c \in receiving : ReceiverFunction(c)
    \/ \E text \in Text : Fill(text)
    \/ \E n \in channels : SendToChannel(n)
    \/ \E n \in Channel : SenderTask(n)

Spec == Init /\ [][Next]_vars

-------------------------------------------------------------------------------
TypeOK ==
    /\ app \in [Client -> {"new", "connecting", "connected", "failed"}]
    /\ serv_addr \in [Client -> Channel \cup {Listener}]
    /\ listener \in {"recvfrom", "replying", "locking", "inserting"}
    /\ peer \in Seq(Client)
    /\ Newest <= MaxChannels
    /\ ip_to_channel \in [Ip -> Channel \cup {None}]
    /\ channels \in SUBSET Channel
    /\ receiving \in SUBSET Client
    /\ receive_que \in [Channel -> SUBSET Client]
    /\ buf \in Text
    /\ sending \in [Channel -> Nat]
    /\ \A n \in Channel : sending[n] <= MaxTasks[n]
    /\ given \in [Channel -> SUBSET Text]
    /\ refilled \in BOOLEAN
    /\ crashed \in BOOLEAN
    /\ net \in SUBSET Datagram

\* A connected client sends to a channel that was made for it, whichever datagram
\* it took for the answer, however often its "0" arrived, and in whichever of its
\* lives.
ConnectedToOwn ==
    \A c \in Client :
        app[c] = "connected" => serv_addr[c] \in Sockets /\ peer[serv_addr[c]] = c

\* What is on its way to a client was sent to it, by a call of send_to_channel()
\* for a channel of its own or as an answer; unless buf was written while a task
\* of the senders pool had yet to read it.
ComingWasSent ==
    \A d \in net : d.to \in Client =>
        \/ d.text = Reply
        \/ \E n \in Sockets : peer[n] = d.to /\ d.text \in given[n]
        \/ refilled

\* What is queued on a channel comes from a client at the channel's address.
QueuedByAddress ==
    \A n \in Sockets : \A c \in receive_que[n] : IpOf[c] = IpOf[peer[n]]

\* Where an address has been used for one channel only, whatever is used at others,
\* the server and the client agree on that channel: it queues what that client
\* sent and nothing else, no client of an earlier life included, and the client,
\* once connected, sends to it.
Alone(n) == \A m \in Sockets : IpOf[peer[m]] = IpOf[peer[n]] => m = n

AloneIsExact ==
    \A n \in Sockets : Alone(n) =>
        /\ receive_que[n] \subseteq {peer[n]}
        /\ app[peer[n]] = "connected" => serv_addr[peer[n]] = n

\* Nobody asks again for a client whose "0" was lost: unless it is ended it waits
\* for ever.
Stranded(c) ==
    /\ app[c] = "connecting"
    /\ \A d \in net : d.to = Listener => d.from # c
    /\ \A n \in Sockets : peer[n] # c

StrandedForGood ==
    [][\A c \in Client : Stranded(c) => Stranded(c)' \/ app'[c] = "new"]_vars
===============================================================================
