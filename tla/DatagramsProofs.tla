----------------------------- MODULE DatagramsProofs -----------------------------
(***************************************************************************)
(* Theorems about Datagrams, for every value of its constants.             *)
(***************************************************************************)
EXTENDS Datagrams, SequenceTheorems, TLAPS

-------------------------------------------------------------------------------
(* The inductive invariant.                                                   *)

\* What is watched or has a task is the socket of a channel.
PeerInv ==
    /\ listener # "recvfrom" => Newest # 0
    /\ channels \subseteq Sockets
    /\ \A n \in Channel : sending[n] > 0 => n \in Sockets

\* A client gets datagrams from sockets opened for it alone, and such a socket gets
\* datagrams from its client alone.
Allowed(d) ==
    IF d.to \in Client
    THEN d.from \in Sockets /\ peer[d.from] = d.to
    ELSE /\ d.from \in Client
         /\ d.to # Listener => d.to \in Sockets /\ peer[d.to] = d.from

NetInv == \A d \in net : Allowed(d)

\* What the server has taken from a client's channel comes from a client with a
\* socket of its own.
Known(c) == \E n \in Sockets : peer[n] = c

KnownInv ==
    /\ \A c \in receiving : Known(c)
    /\ \A n \in Channel : \A c \in receive_que[n] : Known(c)

\* The table of addresses names channels at the address.
IndexInv ==
    \A i \in Ip : ip_to_channel[i] # None =>
        ip_to_channel[i] \in Sockets /\ IpOf[peer[ip_to_channel[i]]] = i

\* Nothing is queued on a channel that is not there.
QueueInv == \A n \in Channel : receive_que[n] # {} => n \in Sockets

\* A task sends what its call was given.
TaskInv == \A n \in Channel : sending[n] > 0 => refilled \/ buf \in given[n]

DatagramsInv ==
    /\ TypeOK
    /\ PeerInv
    /\ NetInv
    /\ IndexInv
    /\ QueueInv
    /\ TaskInv
    /\ ConnectedToOwn
    /\ KnownInv
    /\ ComingWasSent
    /\ QueuedByAddress

-------------------------------------------------------------------------------
(* Facts about one step.                                                      *)

\* Sockets are channels, and no client nor the listening socket.
LEMMA SocketFacts ==
    ASSUME TypeOK
    PROVE  /\ Newest \in Nat
           /\ Sockets \subseteq Channel
           /\ \A n \in Sockets : peer[n] \in Client
           /\ Client \cap (Channel \cup {Listener}) = {}
<1>1. peer \in Seq(Client) /\ Len(peer) <= MaxChannels /\ MaxChannels \in Nat
  BY DatagramsAssumption DEF TypeOK, Newest
<1>2. Len(peer) \in Nat
  BY <1>1, LenProperties
<1>3. 1..Len(peer) \subseteq 1..MaxChannels
  BY <1>1, <1>2
<1>4. \A n \in 1..Len(peer) : peer[n] \in Client
  BY <1>1, ElementOfSeq
<1>5. Client \cap (Channel \cup {Listener}) = {}
  BY DatagramsAssumption
<1>6. QED
  BY <1>2, <1>3, <1>4, <1>5 DEF Newest, Sockets, Channel

\* What is posted joins what is in flight, or is lost.
LEMMA PostFacts ==
    ASSUME NEW from, NEW to, NEW text, Post(from, to, text)
    PROVE  \A e \in net' : e \in net \/ e = [from |-> from, to |-> to, text |-> text]
BY DEF Post

LEMMA PostType ==
    ASSUME TypeOK, NEW from \in Client \cup Channel,
           NEW to \in Client \cup Channel \cup {Listener}, NEW text \in Texts,
           Post(from, to, text)
    PROVE  net' \in SUBSET Datagram
<1>1. [from |-> from, to |-> to, text |-> text] \in Datagram
  BY DEF Datagram
<1>2. net \in SUBSET Datagram
  BY DEF TypeOK
<1>3. QED
  BY <1>1, <1>2, PostFacts

LEMMA TakeFacts ==
    ASSUME NEW d, Take(d)
    PROVE  net' \subseteq net
BY DEF Take

\* The parts of the invariant that speak of datagrams hold of fewer.
LEMMA FewerInFlight ==
    ASSUME DatagramsInv, net' \subseteq net, UNCHANGED <<peer, given, refilled>>
    PROVE  NetInv' /\ ComingWasSent' /\ net' \in SUBSET Datagram
BY DEF DatagramsInv, TypeOK, NetInv, Allowed, ComingWasSent, Newest, Sockets

\* One more datagram does no harm if it is one of those the invariant allows.
LEMMA MoreInFlight ==
    ASSUME DatagramsInv, UNCHANGED <<peer, given, refilled>>,
           NEW from, NEW to, NEW text, Post(from, to, text),
           IF to \in Client
           THEN /\ from \in Sockets /\ peer[from] = to
                /\ text = Reply \/ text \in given[from] \/ refilled
           ELSE /\ from \in Client
                /\ to # Listener => to \in Sockets /\ peer[to] = from
    PROVE  NetInv' /\ ComingWasSent'
<1> DEFINE new == [from |-> from, to |-> to, text |-> text]
<1>1. \A e \in net' : e \in net \/ e = new
  BY PostFacts
<1>2. new.from = from /\ new.to = to /\ new.text = text
  OBVIOUS
<1> HIDE DEF new
<1>3. ASSUME NEW e \in net' PROVE Allowed(e)
  BY <1>1, <1>2 DEF DatagramsInv, NetInv, Allowed
<1>4. ASSUME NEW e \in net', e.to \in Client
      PROVE  \/ e.text = Reply
             \/ \E n \in Sockets : peer[n] = e.to /\ e.text \in given[n]
             \/ refilled
  BY <1>1, <1>2, <1>4 DEF DatagramsInv, ComingWasSent
<1>5. QED
  BY <1>3, <1>4 DEF NetInv, Allowed, ComingWasSent, Sockets, Newest

\* A part of the invariant whose variables stay as they are stays true.
LEMMA Untouched ==
    ASSUME DatagramsInv
    PROVE  /\ UNCHANGED <<listener, peer, channels, sending>> => PeerInv'
           /\ UNCHANGED <<ip_to_channel, peer>> => IndexInv'
           /\ UNCHANGED <<receive_que, peer>> => QueueInv' /\ QueuedByAddress'
           /\ UNCHANGED <<buf, sending, given, refilled>> => TaskInv'
           /\ UNCHANGED <<app, serv_addr, peer>> => ConnectedToOwn'
           /\ UNCHANGED <<receiving, receive_que, peer>> => KnownInv'
<1>1. UNCHANGED peer => Sockets' = Sockets /\ Newest' = Newest
  BY DEF Sockets, Newest
<1>2. UNCHANGED <<listener, peer, channels, sending>> => PeerInv'
  BY <1>1 DEF DatagramsInv, PeerInv
<1>3. UNCHANGED <<ip_to_channel, peer>> => IndexInv'
  BY <1>1 DEF DatagramsInv, IndexInv
<1>4. UNCHANGED <<receive_que, peer>> => QueueInv' /\ QueuedByAddress'
  BY <1>1 DEF DatagramsInv, QueueInv, QueuedByAddress
<1>5. UNCHANGED <<buf, sending, given, refilled>> => TaskInv'
  BY DEF DatagramsInv, TaskInv
<1>6. UNCHANGED <<app, serv_addr, peer>> => ConnectedToOwn'
  BY <1>1 DEF DatagramsInv, ConnectedToOwn
<1>7. UNCHANGED <<receiving, receive_que, peer>> => KnownInv'
  BY <1>1 DEF DatagramsInv, KnownInv, Known
<1>8. QED
  BY <1>2, <1>3, <1>4, <1>5, <1>6, <1>7

-------------------------------------------------------------------------------
(* One lemma for each action.                                                 *)

LEMMA ConnectStep ==
    ASSUME DatagramsInv, NEW c \in Client, Connect(c)
    PROVE  DatagramsInv'
<1> USE DEF listenVars, receiverVars, senderVars
<1>1. TypeOK /\ Listener \notin Client
  BY DatagramsAssumption DEF DatagramsInv
<1>2. NetInv' /\ ComingWasSent'
  BY <1>1, MoreInFlight DEF Connect
<1>3. TypeOK'
  <2>1. net' \in SUBSET Datagram
    BY <1>1, PostType DEF Connect, Texts
  <2>2. QED
    BY <1>1, <2>1 DEF Connect, TypeOK, Newest
<1>4. ConnectedToOwn'
  BY <1>1 DEF Connect, DatagramsInv, ConnectedToOwn, TypeOK, Sockets, Newest
<1>5. QED
  BY <1>2, <1>3, <1>4, Untouched DEF Connect, DatagramsInv

LEMMA ConnectThrowsStep ==
    ASSUME DatagramsInv, NEW c \in Client, ConnectThrows(c)
    PROVE  DatagramsInv'
<1> USE DEF listenVars, receiverVars, senderVars
<1>1. TypeOK
  BY DEF DatagramsInv
<1>2. NetInv' /\ ComingWasSent' /\ net' \in SUBSET Datagram
  BY FewerInFlight DEF ConnectThrows
<1>3. TypeOK'
  BY <1>1, <1>2 DEF ConnectThrows, TypeOK, Newest
<1>4. ConnectedToOwn'
  BY <1>1 DEF ConnectThrows, DatagramsInv, ConnectedToOwn, TypeOK, Sockets, Newest
<1>5. QED
  BY <1>2, <1>3, <1>4, Untouched DEF ConnectThrows, DatagramsInv

LEMMA ConnectedStep ==
    ASSUME DatagramsInv, NEW c \in Client, NEW d \in net, Connected(c, d)
    PROVE  DatagramsInv'
<1> USE DEF listenVars, receiverVars, senderVars
<1>1. TypeOK
  BY DEF DatagramsInv
<1>2. NetInv' /\ ComingWasSent' /\ net' \in SUBSET Datagram
  BY TakeFacts, FewerInFlight DEF Connected
<1>3. d.from \in Sockets /\ peer[d.from] = c
  BY DEF Connected, DatagramsInv, NetInv, Allowed
<1>4. TypeOK'
  <2>1. d.from \in Channel
    BY <1>1, <1>3, SocketFacts
  <2>2. QED
    BY <1>1, <1>2, <2>1 DEF Connected, TypeOK, Newest
<1>5. ConnectedToOwn'
  BY <1>1, <1>3 DEF Connected, DatagramsInv, ConnectedToOwn, TypeOK, Sockets, Newest
<1>6. QED
  BY <1>2, <1>4, <1>5, Untouched DEF Connected, DatagramsInv

LEMMA SendStep ==
    ASSUME DatagramsInv, NEW c \in Client, Send(c)
    PROVE  DatagramsInv'
<1> USE DEF clientVars, listenVars, receiverVars, senderVars
<1>1. TypeOK
  BY DEF DatagramsInv
<1>2. /\ serv_addr[c] \in Channel /\ serv_addr[c] \notin Client
      /\ serv_addr[c] \in Sockets /\ peer[serv_addr[c]] = c
  BY <1>1, SocketFacts DEF Send, DatagramsInv, ConnectedToOwn
<1>3. NetInv' /\ ComingWasSent'
  BY <1>2, MoreInFlight DEF Send
<1>4. TypeOK'
  <2>1. net' \in SUBSET Datagram
    BY <1>1, <1>2, PostType DEF Send, Texts
  <2>2. QED
    BY <1>1, <2>1 DEF Send, TypeOK, Newest
<1>5. QED
  BY <1>3, <1>4, Untouched DEF Send, DatagramsInv

LEMMA ReceiveStep ==
    ASSUME DatagramsInv, NEW c \in Client, NEW d \in net, Receive(c, d)
    PROVE  DatagramsInv'
<1> USE DEF clientVars, listenVars, receiverVars, senderVars
<1>1. NetInv' /\ ComingWasSent' /\ net' \in SUBSET Datagram
  BY TakeFacts, FewerInFlight DEF Receive
<1>2. TypeOK'
  BY <1>1 DEF Receive, DatagramsInv, TypeOK, Newest
<1>3. QED
  BY <1>1, <1>2, Untouched DEF Receive, DatagramsInv

LEMMA RestartStep ==
    ASSUME DatagramsInv, NEW c \in Client, Restart(c)
    PROVE  DatagramsInv'
<1> USE DEF listenVars, receiverVars, senderVars
<1>1. TypeOK
  BY DEF DatagramsInv
<1>2. NetInv' /\ ComingWasSent' /\ net' \in SUBSET Datagram
  BY FewerInFlight DEF Restart
<1>3. TypeOK'
  BY <1>1, <1>2 DEF Restart, TypeOK, Newest
<1>4. ConnectedToOwn'
  BY <1>1 DEF Restart, DatagramsInv, ConnectedToOwn, TypeOK, Sockets, Newest
<1>5. QED
  BY <1>2, <1>3, <1>4, Untouched DEF Restart, DatagramsInv

\* A socket is added, and the others stay whose they are.
LEMMA ListenServerFacts ==
    ASSUME DatagramsInv, NEW d \in net, ListenServer(d)
    PROVE  /\ d.from \in Client
           /\ peer' \in Seq(Client)
           /\ Newest' = Newest + 1 /\ Newest' <= MaxChannels
           /\ Sockets' = Sockets \cup {Newest'}
           /\ Newest' \in Channel \ Sockets
           /\ \A n \in Sockets : peer'[n] = peer[n]
           /\ peer'[Newest'] = d.from
<1>1. d.from \in Client
  BY DatagramsAssumption DEF ListenServer, DatagramsInv, NetInv, Allowed
<1>2. peer \in Seq(Client) /\ peer' = Append(peer, d.from) /\ Newest < MaxChannels
  BY DEF ListenServer, DatagramsInv, TypeOK
<1>3. /\ peer' \in Seq(Client)
      /\ Len(peer) \in Nat /\ Len(peer') = Len(peer) + 1
      /\ \A n \in 1..Len(peer) : peer'[n] = peer[n]
      /\ peer'[Len(peer) + 1] = d.from
  BY <1>1, <1>2, AppendProperties, LenProperties
<1>4. MaxChannels \in Nat
  BY DatagramsAssumption
<1>5. Newest' = Newest + 1 /\ Newest' <= MaxChannels /\ Newest \in Nat
  BY <1>2, <1>3, <1>4 DEF Newest
<1>6. Sockets' = Sockets \cup {Newest'} /\ Newest' \in Channel \ Sockets
  BY <1>4, <1>5 DEF Sockets, Channel
<1>7. QED
  BY <1>1, <1>3, <1>5, <1>6 DEF Newest, Sockets

LEMMA ListenServerStep ==
    ASSUME DatagramsInv, NEW d \in net, ListenServer(d)
    PROVE  DatagramsInv'
<1> USE DEF clientVars, listenVars, receiverVars, senderVars
<1>1. /\ peer' \in Seq(Client)
      /\ Newest' \in Nat /\ Newest' # 0 /\ Newest' <= MaxChannels
      /\ Sockets \subseteq Sockets'
      /\ Sockets' \subseteq Sockets \cup {Newest'}
      /\ Newest' \in Channel \ Sockets
      /\ \A n \in Sockets : peer'[n] = peer[n]
  <2>1. TypeOK
    BY DEF DatagramsInv
  <2>2. Newest \in Nat
    BY <2>1, SocketFacts
  <2>3. QED
    BY <2>2, ListenServerFacts
<1>2. net' \subseteq net
  BY TakeFacts DEF ListenServer
<1>3. TypeOK'
  BY <1>1, <1>2 DEF ListenServer, DatagramsInv, TypeOK
<1>4. PeerInv'
  BY <1>1 DEF ListenServer, DatagramsInv, PeerInv
<1>5. NetInv'
  BY <1>1, <1>2 DEF DatagramsInv, NetInv, Allowed
<1>5a. KnownInv'
  <2>1. \A c : Known(c) => Known(c)'
    BY <1>1 DEF Known
  <2>2. QED
    BY <2>1 DEF ListenServer, DatagramsInv, KnownInv
<1>6. IndexInv'
  BY <1>1 DEF ListenServer, DatagramsInv, IndexInv
<1>7. QueueInv'
  BY <1>1 DEF ListenServer, DatagramsInv, QueueInv
<1>8. ConnectedToOwn'
  BY <1>1 DEF ListenServer, DatagramsInv, ConnectedToOwn
<1>9. ComingWasSent'
  BY <1>1, <1>2 DEF ListenServer, DatagramsInv, ComingWasSent
<1>10. QueuedByAddress'
  <2>1. receive_que[Newest'] = {}
    BY <1>1 DEF DatagramsInv, QueueInv
  <2>2. receive_que' = receive_que
    BY DEF ListenServer
  <2>3. ASSUME NEW n \in Sockets', NEW c \in receive_que'[n]
        PROVE  n \in Sockets /\ peer'[n] = peer[n] /\ c \in receive_que[n]
    BY <1>1, <2>1, <2>2
  <2>4. \A n \in Sockets : \A c \in receive_que[n] : IpOf[c] = IpOf[peer[n]]
    BY DEF DatagramsInv, QueuedByAddress
  <2>5. QED
    BY <2>3, <2>4 DEF QueuedByAddress
<1>11. QED
  BY <1>3, <1>4, <1>5, <1>6, <1>7, <1>8, <1>9, <1>10, <1>5a, Untouched
     DEF ListenServer, DatagramsInv

LEMMA HandleNewConnectionStep ==
    ASSUME DatagramsInv, HandleNewConnection
    PROVE  DatagramsInv'
<1> USE DEF clientVars, receiverVars, senderVars
<1>1. TypeOK
  BY DEF DatagramsInv
<1>2. NewSocket \in Sockets
  <2>1. Newest # 0
    BY DEF HandleNewConnection, DatagramsInv, PeerInv
  <2>2. QED
    BY <1>1, <2>1, SocketFacts DEF NewSocket, Sockets
<1>3. peer[Newest] \in Client /\ NewSocket \in Channel
  BY <1>1, <1>2, SocketFacts DEF NewSocket
<1>4. NetInv' /\ ComingWasSent'
  BY <1>2, <1>3, MoreInFlight DEF HandleNewConnection, NewSocket
<1>5. TypeOK'
  <2>1. net' \in SUBSET Datagram
    BY <1>1, <1>3, PostType DEF HandleNewConnection, Texts
  <2>2. QED
    BY <1>1, <2>1 DEF HandleNewConnection, TypeOK, Newest
<1>6. PeerInv'
  BY DEF HandleNewConnection, DatagramsInv, PeerInv, Sockets, Newest
<1>7. QED
  BY <1>4, <1>5, <1>6, Untouched DEF HandleNewConnection, DatagramsInv

LEMMA BeginInsertStep ==
    ASSUME DatagramsInv, BeginInsert
    PROVE  DatagramsInv'
<1> USE DEF clientVars, receiverVars, senderVars
<1>1. NetInv' /\ ComingWasSent' /\ net' \in SUBSET Datagram
  BY FewerInFlight DEF BeginInsert
<1>2. TypeOK'
  BY <1>1 DEF BeginInsert, DatagramsInv, TypeOK, Newest
<1>3. PeerInv'
  BY DEF BeginInsert, DatagramsInv, PeerInv, Sockets, Newest
<1>4. QED
  BY <1>1, <1>2, <1>3, Untouched DEF BeginInsert, DatagramsInv

LEMMA EndInsertStep ==
    ASSUME DatagramsInv, EndInsert
    PROVE  DatagramsInv'
<1> USE DEF clientVars, receiverVars, senderVars
<1>1. TypeOK
  BY DEF DatagramsInv
<1>2. Newest \in Sockets /\ Newest \in Channel
  <2>1. Newest # 0
    BY DEF EndInsert, DatagramsInv, PeerInv
  <2>2. QED
    BY <1>1, <2>1, SocketFacts DEF Sockets
<1>3. NetInv' /\ ComingWasSent' /\ net' \in SUBSET Datagram
  BY FewerInFlight DEF EndInsert
<1>4. TypeOK'
  BY <1>1, <1>2, <1>3 DEF EndInsert, TypeOK, Newest
<1>5. PeerInv'
  BY <1>2 DEF EndInsert, DatagramsInv, PeerInv, Sockets, Newest
<1>6. IndexInv'
  BY <1>1, <1>2 DEF EndInsert, DatagramsInv, TypeOK, IndexInv, Sockets, Newest
<1>7. QED
  BY <1>3, <1>4, <1>5, <1>6, Untouched DEF EndInsert, DatagramsInv

LEMMA HandleReceivePacketStep ==
    ASSUME DatagramsInv, NEW d \in net, HandleReceivePacket(d)
    PROVE  DatagramsInv'
<1> USE DEF clientVars, listenVars, senderVars
<1>1. TypeOK
  BY DEF DatagramsInv
<1>2. d.to \in channels /\ d.from \in Client /\ Known(d.from)
  <2>1. d.to \in channels
    BY DEF HandleReceivePacket, ClientSockets
  <2>2. d.to \notin Client /\ d.to # Listener
    BY <1>1, <2>1, SocketFacts, DatagramsAssumption DEF DatagramsInv, PeerInv
  <2>3. QED
    BY <2>1, <2>2 DEF DatagramsInv, NetInv, Allowed, Known
<1>3. NetInv' /\ ComingWasSent' /\ net' \in SUBSET Datagram
  BY TakeFacts, FewerInFlight DEF HandleReceivePacket
<1>4. TypeOK'
  BY <1>1, <1>2, <1>3 DEF HandleReceivePacket, TypeOK, Newest
<1>5. KnownInv'
  BY <1>2 DEF HandleReceivePacket, DatagramsInv, KnownInv, Known, Sockets, Newest
<1>6. QED
  BY <1>3, <1>4, <1>5, Untouched DEF HandleReceivePacket, DatagramsInv

LEMMA ReceiverFunctionStep ==
    ASSUME DatagramsInv, NEW c \in receiving, ReceiverFunction(c)
    PROVE  DatagramsInv'
<1> USE DEF clientVars, listenVars, senderVars
<1> DEFINE n == NumberOf(c)
<1>1. TypeOK /\ c \in Client /\ IpOf[c] \in Ip
  BY DEF DatagramsInv, TypeOK, Ip
<1>2. n # None => n \in Sockets /\ n \in Channel /\ IpOf[peer[n]] = IpOf[c]
  <2>1. n # None => n \in Sockets /\ IpOf[peer[n]] = IpOf[c]
    BY <1>1 DEF DatagramsInv, IndexInv, NumberOf
  <2>2. QED
    BY <1>1, <2>1, SocketFacts
<1>3. \/ UNCHANGED receive_que
      \/ n # None /\ receive_que' = [receive_que EXCEPT ![n] = @ \cup {c}]
  BY DEF ReceiverFunction
<1> HIDE DEF n
<1>4. UNCHANGED <<clientVars, listenVars, senderVars, net>> /\ receiving' \subseteq receiving
      /\ crashed' \in BOOLEAN
  BY <1>1 DEF ReceiverFunction, TypeOK
<1>5. Sockets' = Sockets
  BY <1>4 DEF Sockets, Newest
<1>6. \A k \in Channel :
          \/ receive_que'[k] = receive_que[k]
          \/ k = n /\ n # None /\ receive_que'[k] = receive_que[k] \cup {c}
  <2>1. receive_que \in [Channel -> SUBSET Client]
    BY <1>1 DEF TypeOK
  <2>2. CASE UNCHANGED receive_que
    BY <2>2
  <2>3. CASE n # None /\ receive_que' = [receive_que EXCEPT ![n] = @ \cup {c}]
    BY <2>1, <2>3
  <2>4. QED
    BY <1>3, <2>2, <2>3
<1>7. NetInv' /\ ComingWasSent' /\ net' \in SUBSET Datagram
  BY <1>4, FewerInFlight
<1>8. TypeOK'
  <2>1. receive_que' \in [Channel -> SUBSET Client]
    <3>1. receive_que \in [Channel -> SUBSET Client]
      BY <1>1 DEF TypeOK
    <3>2. CASE n # None /\ receive_que' = [receive_que EXCEPT ![n] = @ \cup {c}]
      <4>1. receive_que[n] \cup {c} \in SUBSET Client
        BY <1>1, <1>2, <3>1, <3>2
      <4>2. QED
        BY <3>1, <3>2, <4>1
    <3>3. QED
      BY <1>3, <3>1, <3>2
  <2>2. QED
    BY <1>1, <1>4, <1>7, <2>1 DEF TypeOK, Newest
<1>9. QueueInv'
  BY <1>2, <1>5, <1>6 DEF DatagramsInv, QueueInv
<1>10. QueuedByAddress'
  <2>1. \A k \in Sockets : k \in Channel
    BY <1>1, SocketFacts
  <2>2. QED
    BY <1>2, <1>4, <1>5, <1>6, <2>1 DEF DatagramsInv, QueuedByAddress
<1>11. KnownInv'
  <2>1. Known(c) /\ \A d : Known(d)' <=> Known(d)
    BY <1>4, <1>5 DEF DatagramsInv, KnownInv, Known
  <2>2. QED
    BY <1>4, <1>6, <2>1 DEF DatagramsInv, KnownInv
<1>12. QED
  BY <1>4, <1>7, <1>8, <1>9, <1>10, <1>11, Untouched DEF DatagramsInv

LEMMA FillStep ==
    ASSUME DatagramsInv, NEW text \in Text, Fill(text)
    PROVE  DatagramsInv'
<1> USE DEF clientVars, listenVars, receiverVars
<1>1. TypeOK
  BY DEF DatagramsInv
<1>2. UNCHANGED <<clientVars, listenVars, receiverVars, sending, given, net>>
      /\ refilled' = (refilled \/ \E n \in Channel : sending[n] > 0)
  BY DEF Fill
<1>3. TypeOK'
  BY <1>1, <1>2 DEF Fill, TypeOK, Newest
<1>4. NetInv'
  BY <1>2 DEF DatagramsInv, NetInv, Allowed, Sockets, Newest
<1>5. ComingWasSent'
  BY <1>2 DEF DatagramsInv, ComingWasSent, Sockets, Newest
<1>6. TaskInv'
  BY <1>2 DEF TaskInv
<1>7. QED
  BY <1>2, <1>3, <1>4, <1>5, <1>6, Untouched DEF DatagramsInv

LEMMA SendToChannelStep ==
    ASSUME DatagramsInv, NEW n \in channels, SendToChannel(n)
    PROVE  DatagramsInv'
<1> USE DEF clientVars, listenVars, receiverVars
<1>1. TypeOK
  BY DEF DatagramsInv
<1>2. n \in Sockets /\ n \in Channel
  BY <1>1 DEF DatagramsInv, PeerInv, TypeOK
<1>3. \A k \in Channel : given[k] \subseteq given'[k] /\ (k = n => buf \in given'[k])
  BY <1>1 DEF SendToChannel, TypeOK
<1>4. UNCHANGED <<clientVars, listenVars, receiverVars, buf, refilled, net>>
      /\ Sockets' = Sockets
  BY DEF SendToChannel, Sockets, Newest
<1>4a. /\ sending' \in [Channel -> Nat] /\ \A k \in Channel : sending'[k] <= MaxTasks[k]
       /\ \A k \in Channel : k # n => sending'[k] = sending[k]
  <2>1. /\ sending \in [Channel -> Nat] /\ MaxTasks \in [Channel -> Nat]
        /\ \A k \in Channel : sending[k] <= MaxTasks[k]
    BY <1>1, DatagramsAssumption DEF TypeOK
  <2>2. sending[n] < MaxTasks[n] /\ sending' = [sending EXCEPT ![n] = sending[n] + 1]
    BY DEF SendToChannel
  <2>3. sending[n] + 1 \in Nat /\ sending[n] + 1 <= MaxTasks[n]
    BY <1>2, <2>1, <2>2
  <2>4. QED
    BY <1>2, <2>1, <2>2, <2>3
<1>5. TypeOK'
  BY <1>1, <1>2, <1>4a DEF SendToChannel, TypeOK, Newest
<1>6. PeerInv'
  BY <1>2, <1>4, <1>4a DEF DatagramsInv, PeerInv, Newest
<1>7. NetInv'
  BY <1>4 DEF DatagramsInv, NetInv, Allowed
<1>8. TaskInv'
  BY <1>1, <1>3, <1>4, <1>4a DEF DatagramsInv, TaskInv, TypeOK
<1>9. ComingWasSent'
  <2>1. \A k \in Sockets : k \in Channel
    BY <1>1, SocketFacts
  <2>2. QED
    BY <1>3, <1>4, <2>1 DEF DatagramsInv, ComingWasSent
<1>10. QED
  BY <1>4, <1>5, <1>6, <1>7, <1>8, <1>9, Untouched DEF DatagramsInv

LEMMA SenderTaskStep ==
    ASSUME DatagramsInv, NEW n \in Channel, SenderTask(n)
    PROVE  DatagramsInv'
<1> USE DEF clientVars, listenVars, receiverVars
<1>1. TypeOK
  BY DEF DatagramsInv
<1>2. n \in Sockets /\ n \in Channel /\ peer[n] \in Client
  BY <1>1, SocketFacts DEF SenderTask, DatagramsInv, PeerInv
<1>3. buf \in given[n] \/ refilled
  BY DEF SenderTask, DatagramsInv, TaskInv
<1>4. Post(n, peer[n], buf)
  BY DEF SenderTask, DestAddr
<1>5. UNCHANGED <<clientVars, listenVars, receiverVars, buf, given, refilled>>
      /\ sending' \in [Channel -> Nat] /\ \A k \in Channel : sending'[k] <= sending[k]
  <2>1. sending \in [Channel -> Nat] /\ sending[n] > 0
    BY <1>1 DEF SenderTask, TypeOK
  <2>2. sending' = [sending EXCEPT ![n] = sending[n] - 1]
    BY DEF SenderTask
  <2>3. sending[n] - 1 \in Nat /\ sending[n] - 1 <= sending[n]
    BY <2>1
  <2>4. sending' \in [Channel -> Nat] /\ \A k \in Channel : sending'[k] <= sending[k]
    BY <2>1, <2>2, <2>3
  <2>5. QED
    BY <2>4 DEF SenderTask
<1>6. NetInv' /\ ComingWasSent'
  BY <1>2, <1>3, <1>4, <1>5, MoreInFlight
<1>7. TypeOK'
  <2>1. net' \in SUBSET Datagram
    BY <1>1, <1>2, <1>4, PostType DEF TypeOK, Texts
  <2>2. \A k \in Channel : sending'[k] <= MaxTasks[k]
    <3>1. MaxTasks \in [Channel -> Nat] /\ sending \in [Channel -> Nat]
          /\ \A k \in Channel : sending[k] <= MaxTasks[k]
      BY <1>1, DatagramsAssumption DEF TypeOK
    <3>2. QED
      BY <1>5, <3>1
  <2>3. QED
    BY <1>1, <1>5, <2>1, <2>2 DEF TypeOK, Newest
<1>7a. \A k \in Channel : sending'[k] > 0 => sending[k] > 0
  <2>1. sending \in [Channel -> Nat]
    BY <1>1 DEF TypeOK
  <2>2. QED
    BY <1>5, <2>1
<1>8. PeerInv'
  BY <1>5, <1>7a DEF DatagramsInv, PeerInv, Sockets, Newest
<1>9. TaskInv'
  BY <1>5, <1>7a DEF DatagramsInv, TaskInv
<1>10. QED
  BY <1>5, <1>6, <1>7, <1>8, <1>9, Untouched DEF DatagramsInv

-------------------------------------------------------------------------------
(* The theorems.                                                              *)

LEMMA InitInv == Init => DatagramsInv
<1> SUFFICES ASSUME Init PROVE DatagramsInv
  OBVIOUS
<1>1. peer = <<>> /\ peer \in Seq(Client) /\ Newest = 0 /\ Sockets = {}
  BY EmptySeq DEF Init, Newest, Sockets
<1>2. TypeOK
  <2>1. Newest <= MaxChannels
    BY <1>1, DatagramsAssumption
  <2>2. /\ app \in [Client -> {"new", "connecting", "connected", "failed"}]
        /\ serv_addr \in [Client -> Channel \cup {Listener}]
        /\ ip_to_channel \in [Ip -> Channel \cup {None}]
        /\ receive_que \in [Channel -> SUBSET Client]
        /\ given \in [Channel -> SUBSET Text]
        /\ sending \in [Channel -> Nat]
    BY DEF Init
  <2>3. /\ listener \in {"recvfrom", "replying", "locking", "inserting"}
        /\ buf \in Text /\ refilled \in BOOLEAN /\ crashed \in BOOLEAN
        /\ channels \in SUBSET Channel /\ receiving \in SUBSET Client
        /\ net \in SUBSET Datagram
    BY DEF Init
  <2>4. \A n \in Channel : sending[n] <= MaxTasks[n]
    BY DatagramsAssumption DEF Init
  <2>5. QED
    BY <1>1, <2>1, <2>2, <2>3, <2>4 DEF TypeOK
<1>3. \A n \in Channel : ~(sending[n] > 0)
  BY DEF Init
<1>4. QED
  BY <1>1, <1>2, <1>3 DEF Init, DatagramsInv, PeerInv, NetInv, IndexInv, QueueInv,
       TaskInv, KnownInv, ConnectedToOwn, ComingWasSent, QueuedByAddress

LEMMA NextInv == DatagramsInv /\ [Next]_vars => DatagramsInv'
<1> SUFFICES ASSUME DatagramsInv, [Next]_vars PROVE DatagramsInv'
  OBVIOUS
<1>1. ASSUME NEW c \in Client, ClientStep(c) PROVE DatagramsInv'
  BY <1>1, ConnectStep, ConnectThrowsStep, SendStep, RestartStep, ConnectedStep, ReceiveStep
     DEF ClientStep
<1>2. CASE ListenThread
  BY <1>2, ListenServerStep, HandleNewConnectionStep, BeginInsertStep, EndInsertStep
     DEF ListenThread
<1>3. CASE \E d \in net : HandleReceivePacket(d)
  BY <1>3, HandleReceivePacketStep
<1>4. CASE \E c \in receiving : ReceiverFunction(c)
  BY <1>4, ReceiverFunctionStep
<1>5. CASE \E text \in Text : Fill(text)
  BY <1>5, FillStep
<1>6. CASE \E n \in channels : SendToChannel(n)
  BY <1>6, SendToChannelStep
<1>7. CASE \E n \in Channel : SenderTask(n)
  BY <1>7, SenderTaskStep
<1>8. CASE UNCHANGED vars
  <2>1. NetInv' /\ ComingWasSent' /\ net' \in SUBSET Datagram
    BY <1>8, FewerInFlight DEF vars, listenVars, senderVars
  <2>2. TypeOK'
    BY <1>8 DEF DatagramsInv, TypeOK, Newest, vars, clientVars, listenVars,
                receiverVars, senderVars
  <2>3. QED
    BY <1>8, <2>1, <2>2, Untouched DEF vars, clientVars, listenVars, receiverVars,
                                       senderVars, DatagramsInv
<1>9. QED
  BY <1>1, <1>2, <1>3, <1>4, <1>5, <1>6, <1>7, <1>8 DEF Next

THEOREM Invariance == Spec => []DatagramsInv
BY InitInv, NextInv, PTL DEF Spec

\* Every variable keeps its type.
THEOREM TypeInvariant == Spec => []TypeOK
<1>1. DatagramsInv => TypeOK
  BY DEF DatagramsInv
<1>2. QED
  BY Invariance, <1>1, PTL

\* However many clients ask, restart and hear late answers, each sends only to
\* channels of its own.
THEOREM OwnTheorem == Spec => []ConnectedToOwn
<1>1. DatagramsInv => ConnectedToOwn
  BY DEF DatagramsInv
<1>2. QED
  BY Invariance, <1>1, PTL

\* A client gets what was sent to it, as long as the application does not write
\* to a buffer that a task has yet to read.
THEOREM SentTheorem == Spec => []ComingWasSent
<1>1. DatagramsInv => ComingWasSent
  BY DEF DatagramsInv
<1>2. QED
  BY Invariance, <1>1, PTL

\* What is queued on a channel comes from its address.
THEOREM AddressTheorem == Spec => []QueuedByAddress
<1>1. DatagramsInv => QueuedByAddress
  BY DEF DatagramsInv
<1>2. QED
  BY Invariance, <1>1, PTL

\* Where an address has one channel, channels[ip_to_channel[...]] is the channel of
\* the client that sent, whichever life its datagrams are of and whatever the other
\* clients do.
THEOREM AloneTheorem == Spec => []AloneIsExact
<1>1. ASSUME DatagramsInv, NEW n \in Sockets, Alone(n)
      PROVE  /\ receive_que[n] \subseteq {peer[n]}
             /\ app[peer[n]] = "connected" => serv_addr[peer[n]] = n
  <2>1. TypeOK /\ n \in Channel /\ peer[n] \in Client
    BY <1>1, SocketFacts DEF DatagramsInv
  <2>2. ASSUME NEW m \in Sockets, IpOf[peer[m]] = IpOf[peer[n]] PROVE m = n
    BY <1>1, <2>2 DEF Alone
  <2>3. ASSUME NEW c \in receive_que[n] PROVE c = peer[n]
    <3>1. IpOf[c] = IpOf[peer[n]]
      BY <1>1, <2>3 DEF DatagramsInv, QueuedByAddress
    <3>2. PICK m \in Sockets : peer[m] = c
      BY <1>1, <2>1, <2>3 DEF DatagramsInv, KnownInv, Known
    <3>3. QED
      BY <2>2, <3>1, <3>2
  <2>4. ASSUME app[peer[n]] = "connected" PROVE serv_addr[peer[n]] = n
    <3>1. serv_addr[peer[n]] \in Sockets /\ peer[serv_addr[peer[n]]] = peer[n]
      BY <1>1, <2>1, <2>4 DEF DatagramsInv, ConnectedToOwn
    <3>2. QED
      BY <2>2, <3>1
  <2>5. QED
    BY <2>3, <2>4
<1>2. DatagramsInv => AloneIsExact
  BY <1>1 DEF AloneIsExact
<1>3. QED
  BY Invariance, <1>2, PTL

\* A client whose "0" is lost is told nothing until it is ended.
THEOREM StrandedTheorem == Spec => StrandedForGood
<1> USE DEF Stranded, listenVars, receiverVars, senderVars
<1>1. ASSUME DatagramsInv, [Next]_vars, NEW c \in Client, Stranded(c)
      PROVE  Stranded(c)' \/ app'[c] = "new"
  <2>1. /\ TypeOK /\ Listener \notin Client /\ app[c] = "connecting"
        /\ \A x \in Client : app[x] = "connected" => serv_addr[x] # Listener
    BY <1>1, SocketFacts, DatagramsAssumption DEF DatagramsInv, ConnectedToOwn
  <2>2. \A d \in net : d.to # c
    BY <1>1 DEF DatagramsInv, NetInv, Allowed
  <2>3. ASSUME net' \subseteq net, UNCHANGED peer, app'[c] = app[c]
        PROVE  Stranded(c)'
    BY <1>1, <2>3 DEF Sockets, Newest
  <2>4. ASSUME NEW from, NEW to, NEW text, Post(from, to, text),
               to = Listener => from # c, UNCHANGED peer, app'[c] = app[c]
        PROVE  Stranded(c)'
    <3>1. \A e \in net' : e.to = Listener => e.from # c
      BY <1>1, <2>4, PostFacts
    <3>2. QED
      BY <1>1, <2>4, <3>1 DEF Sockets, Newest
  <2>5. ASSUME NEW x \in Client, ClientStep(x)
        PROVE  Stranded(c)' \/ app'[c] = "new"
    <3>1. CASE Connect(x)
      <4>1. x # c /\ app'[c] = app[c]
        BY <2>1, <3>1 DEF Connect, HasNotAsked, TypeOK
      <4>2. QED
        BY <2>4, <3>1, <4>1 DEF Connect
    <3>1a. CASE ConnectThrows(x)
      <4>1. x # c /\ app'[c] = app[c]
        BY <2>1, <3>1a DEF ConnectThrows, TypeOK
      <4>2. QED
        BY <2>3, <3>1a, <4>1 DEF ConnectThrows
    <3>2. CASE Send(x)
      BY <2>1, <2>4, <3>2 DEF Send, clientVars
    <3>3. CASE Restart(x)
      <4>1. CASE x = c
        BY <2>1, <3>3, <4>1 DEF Restart, TypeOK
      <4>2. CASE x # c
        BY <2>1, <2>3, <3>3, <4>2 DEF Restart, TypeOK
      <4>3. QED
        BY <4>1, <4>2
    <3>4. ASSUME NEW d \in net, Connected(x, d)
          PROVE  Stranded(c)'
      <4>1. x # c /\ app'[c] = app[c]
        BY <2>1, <2>2, <3>4 DEF Connected, TypeOK
      <4>2. QED
        BY <2>3, <3>4, <4>1, TakeFacts DEF Connected
    <3>5. ASSUME NEW d \in net, Receive(x, d)
          PROVE  Stranded(c)'
      BY <2>3, <3>5, TakeFacts DEF Receive, clientVars
    <3>6. QED
      BY <2>5, <3>1, <3>2, <3>3, <3>4, <3>5, <3>1a DEF ClientStep
  <2>6. ASSUME NEW d \in net, ListenServer(d)
        PROVE  Stranded(c)'
    <3>1. d.to = Listener /\ d.from # c /\ net' \subseteq net /\ app'[c] = app[c]
      BY <1>1, <2>6, TakeFacts DEF ListenServer, clientVars
    <3>2. \A n \in Sockets' : peer'[n] # c
      BY <1>1, <2>6, <3>1, ListenServerFacts
    <3>3. QED
      BY <1>1, <3>1, <3>2
  <2>7. CASE HandleNewConnection
    <3>1. Newest # 0 /\ Newest \in Nat
      BY <1>1, <2>1, <2>7, SocketFacts DEF HandleNewConnection, DatagramsInv, PeerInv
    <3>2. peer[Newest] # Listener
      BY <2>1, <3>1, SocketFacts DEF Sockets
    <3>3. QED
      BY <2>4, <2>7, <3>2 DEF HandleNewConnection, clientVars
  <2>8. CASE BeginInsert \/ EndInsert
    BY <2>3, <2>8 DEF BeginInsert, EndInsert, clientVars
  <2>9. CASE \E d \in net : HandleReceivePacket(d)
    BY <2>3, <2>9, TakeFacts DEF HandleReceivePacket, clientVars
  <2>10. CASE \E x \in receiving : ReceiverFunction(x)
    BY <2>3, <2>10 DEF ReceiverFunction, clientVars
  <2>11. CASE \E text \in Text : Fill(text)
    BY <2>3, <2>11 DEF Fill, clientVars
  <2>12. CASE \E n \in channels : SendToChannel(n)
    BY <2>3, <2>12 DEF SendToChannel, clientVars
  <2>13. ASSUME NEW n \in Channel, SenderTask(n)
         PROVE  Stranded(c)'
    <3>1. DestAddr(n) # Listener
      BY <1>1, <2>1, <2>13, SocketFacts DEF SenderTask, DestAddr, DatagramsInv, PeerInv
    <3>2. QED
      BY <2>4, <2>13, <3>1 DEF SenderTask, clientVars
  <2>14. CASE UNCHANGED vars
    BY <2>3, <2>14 DEF vars, clientVars
  <2>15. QED
    BY <1>1, <2>5, <2>6, <2>7, <2>8, <2>9, <2>10, <2>11, <2>12, <2>13, <2>14
       DEF Next, ListenThread
<1>2. DatagramsInv /\ [Next]_vars
        => [\A c \in Client : Stranded(c) => Stranded(c)' \/ app'[c] = "new"]_vars
  BY <1>1
<1>3. QED
  BY Invariance, <1>2, PTL DEF Spec, StrandedForGood

===============================================================================
