-------------------------------- MODULE Server --------------------------------
(***************************************************************************)
(* server/server.cpp: what the threads of the server do to one another.    *)
(* The application's threads wait for clients, send, receive and close; the *)
(* listen thread adds channels; the receive thread takes datagrams off the *)
(* sockets of the unreliable channels and hands each to the receivers pool, *)
(* whose tasks queue them.  All but the tasks take universal_lock, and     *)
(* receive and close keep it while they wait on a channel.                 *)
(*                                                                         *)
(* A critical section that waits for nothing is one step, taken when       *)
(* universal_lock is free.  How a reliable channel gets its messages is    *)
(* the subject of ReliableChannel, how a client comes to be confirmed that *)
(* of Handshake, and how the pool runs a task that of ThreadPool.          *)
(***************************************************************************)
EXTENDS Integers, Sequences, FiniteSets

CONSTANTS
    Thread,      \* threads of the application
    Reliable,    \* ip:port pairs of the clients that connect reliably
    Datagram,    \* those of the clients that connect unreliably
    IpOf,        \* the address without the port, which ip_to_channel is keyed by
    None,        \* no thread, no client, no channel
    ClosedFlags, \* whether closed_receive_thread and closed_send_thread are set
    Operations,  \* what the application calls: "receive", "send", "close", "wait"
    MaxChannels, \* bound: channels created
    MaxQueued    \* bound: messages in one queue, socket or pool

Client == Reliable \cup Datagram
Channel == 1..MaxChannels
Ip == {IpOf[c] : c \in Client}

ASSUME ServerAssumption ==
    /\ Reliable \cap Datagram = {}
    /\ DOMAIN IpOf = Client
    /\ None \notin Thread \cup Client \cup Channel
    /\ ClosedFlags \in BOOLEAN
    /\ Operations \subseteq {"receive", "send", "close", "wait"}
    /\ MaxChannels \in Nat
    /\ MaxQueued \in Nat

VARIABLES
    owner,             \* the thread that keeps universal_lock
    pc,                \* where each thread of the application is
    target,            \* the client or the channel number of its call
    listening,         \* the client the listen thread has a channel ready for
    peer,              \* channels: number -> the client it belongs to
    ip_to_channel,     \* of the unreliable channels: ip -> number
    ipport_to_channel, \* of the reliable channels: ip:port -> number
    sockets,           \* how many datagrams the socket of each unreliable channel has
    tasks,             \* of each client: datagrams the receivers pool has yet to queue
    receive_que,       \* who each message queued on a channel comes from
    send_que           \* of the reliable channels: who each message is meant for

appVars == <<pc, target>>
tableVars == <<peer, ip_to_channel, ipport_to_channel>>
queueVars == <<sockets, tasks, receive_que, send_que>>
vars == <<owner, appVars, listening, tableVars, queueVars>>

Init ==
    /\ owner = None
    /\ pc = [t \in Thread |-> "idle"]
    /\ target = [t \in Thread |-> None]
    /\ listening = None
    /\ peer = [n \in Channel |-> None]
    /\ ip_to_channel = [i \in Ip |-> None]
    /\ ipport_to_channel = [c \in Reliable |-> None]
    /\ sockets = [n \in Channel |-> 0]
    /\ tasks = [c \in Datagram |-> 0]
    /\ receive_que = [n \in Channel |-> <<>>]
    /\ send_que = [n \in Channel |-> <<>>]

Created == {n \in Channel : peer[n] # None}

-------------------------------------------------------------------------------
(* The application's calls.                                                   *)

Go(t, place) == pc' = [pc EXCEPT ![t] = place]

\* receive_from_channel(n), receive_from_channel_by_ipport(c), send_to_channel(n),
\* send_to_channel_by_ipport(c), close_by_ippport(c) and wait_for_ipport(c) up to
\* the lock.  The calls that take lists are one of these after the other.
Call(t, op, x) ==
    /\ op \in Operations
    /\ x \in Channel => op \in {"receive", "send"}
    /\ pc[t] = "idle"
    /\ Go(t, op)
    /\ target' = [target EXCEPT ![t] = x]
    /\ UNCHANGED <<owner, listening, tableVars, queueVars>>

\* The channel a call means, None if there is none.
Find(x) ==
    IF x \in Reliable THEN ipport_to_channel[x]
    ELSE IF x \in Created THEN x ELSE None

\* "Channel not found", "channel_not_exist"
Throw(t) ==
    /\ pc[t] \in {"receive", "send", "close"}
    /\ owner = None
    /\ Find(target[t]) = None
    /\ Go(t, "idle")
    /\ target' = [target EXCEPT ![t] = None]
    /\ UNCHANGED <<owner, listening, tableVars, queueVars>>

\* The lock is kept: receive() and close() of the channel are called inside.
Enter(t) ==
    /\ pc[t] \in {"receive", "close"}
    /\ owner = None
    /\ Find(target[t]) # None
    /\ owner' = t
    /\ Go(t, IF pc[t] = "receive" THEN "in receive" ELSE "in close")
    /\ target' = [target EXCEPT ![t] = Find(target[t])]
    /\ UNCHANGED <<listening, tableVars, queueVars>>

Return(t) ==
    /\ owner' = None
    /\ Go(t, "idle")
    /\ target' = [target EXCEPT ![t] = None]

\* send_que_lock is taken under universal_lock.  What goes to an unreliable
\* channel is a task of the senders pool: see Datagrams.
SendMessage(t) ==
    LET n == Find(target[t])
    IN
    /\ pc[t] = "send"
    /\ owner = None
    /\ n # None
    /\ IF peer[n] \in Reliable
       THEN /\ Len(send_que[n]) < MaxQueued
            /\ send_que' = [send_que EXCEPT
                              ![n] = Append(@, IF target[t] \in Reliable
                                               THEN target[t] ELSE peer[n])]
       ELSE UNCHANGED send_que
    /\ Return(t)
    /\ UNCHANGED <<listening, tableVars, sockets, tasks, receive_que>>

\* receive() of either kind of channel.
TakeMessage(t) ==
    /\ pc[t] = "in receive"
    /\ receive_que[target[t]] # <<>>
    /\ receive_que' = [receive_que EXCEPT ![target[t]] = Tail(@)]
    /\ Return(t)
    /\ UNCHANGED <<listening, tableVars, sockets, tasks, send_que>>

Sleep(t) ==
    /\ pc[t] = "in receive"
    /\ receive_que[target[t]] = <<>>
    /\ Go(t, "asleep")
    /\ UNCHANGED <<owner, target, listening, tableVars, queueVars>>

\* wait() may return although nobody notified.
WakeUp(t) ==
    /\ pc[t] = "asleep"
    /\ Go(t, "in receive")
    /\ UNCHANGED <<owner, target, listening, tableVars, queueVars>>

CloseReturns(t) ==
    /\ pc[t] = "in close"
    /\ ClosedFlags
    /\ Return(t)
    /\ UNCHANGED <<listening, tableVars, queueVars>>

\* wait_for_ipport(): wait() lets go of the lock.
WaitDone(t) ==
    /\ pc[t] = "wait"
    /\ owner = None
    /\ Find(target[t]) # None
    /\ Return(t)
    /\ UNCHANGED <<listening, tableVars, queueVars>>

WaitSleeps(t) ==
    /\ pc[t] = "wait"
    /\ owner = None
    /\ Find(target[t]) = None
    /\ Go(t, "unknown client")
    /\ UNCHANGED <<owner, target, listening, tableVars, queueVars>>

AppThread(t) ==
    \/ Throw(t) \/ Enter(t) \/ TakeMessage(t) \/ Sleep(t) \/ SendMessage(t)
    \/ CloseReturns(t) \/ WaitDone(t) \/ WaitSleeps(t)

-------------------------------------------------------------------------------
(* The listen thread.                                                         *)

\* A reliable client that has none yet has confirmed its channel, or an
\* unreliable client, which may have one, has asked for one.
ChannelReady(c) ==
    /\ listening = None
    /\ c \in Reliable => ipport_to_channel[c] = None
    /\ Created # Channel
    /\ listening' = c
    /\ UNCHANGED <<owner, appVars, tableVars, queueVars>>

\* Mutant: channel_count++
CountedAfter == Cardinality(Created)

\* ++channel_count
NextNumber == Cardinality(Created) + 1

\* Registered under its ip:port or, if unreliable, under its ip alone.
AddChannel ==
    /\ listening # None
    /\ owner = None
    /\ peer' = [peer EXCEPT ![NextNumber] = listening]
    /\ IF listening \in Reliable
       THEN /\ ipport_to_channel' = [ipport_to_channel EXCEPT ![listening] = NextNumber]
            /\ pc' = [t \in Thread |-> IF pc[t] = "unknown client" THEN "wait" ELSE pc[t]]
            /\ UNCHANGED ip_to_channel
       ELSE /\ ip_to_channel' = [ip_to_channel EXCEPT ![IpOf[listening]] = NextNumber]
            /\ UNCHANGED <<ipport_to_channel, pc>>
    /\ listening' = None
    /\ UNCHANGED <<owner, target, queueVars>>

-------------------------------------------------------------------------------
(* Messages.                                                                  *)

\* Mutant: nobody is told of a message that is queued.
NotifyNobody(n) == UNCHANGED pc

\* receive_que_cv.notify_one(): only one thread can be in receive().
NotifyReceiver(n) ==
    pc' = [t \in Thread |->
             IF pc[t] = "asleep" /\ target[t] = n THEN "in receive" ELSE pc[t]]

\* The receive thread of a reliable channel queues a message.
ReliableArrives(n) ==
    /\ n \in Created
    /\ peer[n] \in Reliable
    /\ Len(receive_que[n]) < MaxQueued
    /\ receive_que' = [receive_que EXCEPT ![n] = Append(@, peer[n])]
    /\ NotifyReceiver(n)
    /\ UNCHANGED <<owner, target, listening, tableVars, sockets, tasks, send_que>>

\* The send thread of a reliable channel takes a message for its window.
SendThreadTakes(n) ==
    /\ send_que[n] # <<>>
    /\ send_que' = [send_que EXCEPT ![n] = Tail(@)]
    /\ UNCHANGED <<owner, appVars, listening, tableVars, sockets, tasks, receive_que>>

\* A datagram of the client a channel was made for reaches the channel's socket.
DatagramArrives(n) ==
    /\ n \in Created
    /\ peer[n] \in Datagram
    /\ sockets[n] < MaxQueued
    /\ sockets' = [sockets EXCEPT ![n] = @ + 1]
    /\ UNCHANGED <<owner, appVars, listening, tableVars, tasks, receive_que, send_que>>

\* Mutant: the receive thread does not wait for the lock.
LockedOrNot == TRUE

LockFree == owner = None

Readable == {n \in Channel : sockets[n] > 0}
TasksOf(c) == tasks[c] + Cardinality({n \in Readable : peer[n] = c})

\* One round of handle_receive_packet(): a datagram off each socket that has one,
\* each handed to the pool with its sender.
ReceiveRound ==
    /\ LockFree
    /\ Readable # {}
    /\ \A c \in Datagram : TasksOf(c) <= MaxQueued
    /\ sockets' = [n \in Channel |-> IF n \in Readable THEN sockets[n] - 1 ELSE 0]
    /\ tasks' = [c \in Datagram |-> TasksOf(c)]
    /\ UNCHANGED <<owner, appVars, listening, tableVars, receive_que, send_que>>

\* Mutant: the number of the client's channel is the last that was given.
LastNumber(c) == Cardinality(Created)

NumberOf(c) == ip_to_channel[IpOf[c]]

\* receiver_function(): no lock but receive_que_lock, and no notification.
QueueDatagram(c) ==
    /\ tasks[c] > 0
    /\ Len(receive_que[NumberOf(c)]) < MaxQueued
    /\ tasks' = [tasks EXCEPT ![c] = @ - 1]
    /\ receive_que' = [receive_que EXCEPT ![NumberOf(c)] = Append(@, c)]
    /\ UNCHANGED <<owner, appVars, listening, tableVars, sockets, send_que>>

-------------------------------------------------------------------------------
Next ==
    \/ \E t \in Thread :
          \/ \E op \in Operations : \E x \in Reliable \cup Channel : Call(t, op, x)
          \/ AppThread(t)
          \/ WakeUp(t)
    \/ \E c \in Client : ChannelReady(c)
    \/ AddChannel
    \/ \E n \in Channel : ReliableArrives(n) \/ SendThreadTakes(n) \/ DatagramArrives(n)
    \/ ReceiveRound
    \/ \E c \in Datagram : QueueDatagram(c)

Spec == Init /\ [][Next]_vars

\* Threads go on as long as they can, and universal_lock passes over no thread
\* for ever.
FairSpec ==
    /\ Spec
    /\ \A t \in Thread : SF_vars(AppThread(t))
    /\ SF_vars(AddChannel)
    /\ SF_vars(ReceiveRound)
    /\ \A c \in Datagram : WF_vars(QueueDatagram(c))

-------------------------------------------------------------------------------
TypeOK ==
    /\ owner \in Thread \cup {None}
    /\ pc \in [Thread -> {"idle", "receive", "send", "close", "wait", "in receive",
                          "asleep", "in close", "unknown client"}]
    /\ target \in [Thread -> Reliable \cup Channel \cup {None}]
    /\ listening \in Client \cup {None}
    /\ peer \in [Channel -> Client \cup {None}]
    /\ ip_to_channel \in [Ip -> Channel \cup {None}]
    /\ ipport_to_channel \in [Reliable -> Channel \cup {None}]
    /\ sockets \in [Channel -> 0..MaxQueued]
    /\ tasks \in [Datagram -> 0..MaxQueued]
    /\ receive_que \in [Channel -> Seq(Client)]
    /\ send_que \in [Channel -> Seq(Reliable)]

\* A channel holds messages of its own client and for its own client, whoever
\* was inserted since the call; an unreliable one may also hold those of a client
\* at the same address, and of no other.
RoutedToOwner ==
    \A n \in Channel :
        /\ \A i \in 1..Len(send_que[n]) : send_que[n][i] = peer[n]
        /\ \A i \in 1..Len(receive_que[n]) :
               LET from == receive_que[n][i]
               IN  IF peer[n] \in Reliable
                   THEN from = peer[n]
                   ELSE from \in Datagram /\ IpOf[from] = IpOf[peer[n]]

Waiting(t) == pc[t] \in {"in receive", "asleep"}

\* A thread does not sleep on a reliable channel that has a message, though the
\* message came from a thread that knows nothing of universal_lock.
NoLostWakeup ==
    \A t \in Thread :
        pc[t] = "asleep" /\ peer[target[t]] \in Reliable => receive_que[target[t]] = <<>>

\* A call that waits on an unreliable channel with nothing queued, and nothing on
\* its way through the pool, waits for ever: it keeps the lock that the receive
\* thread needs to get it a datagram.
Stuck(t) ==
    /\ Waiting(t)
    /\ peer[target[t]] \in Datagram
    /\ receive_que[target[t]] = <<>>
    /\ \A c \in Datagram : NumberOf(c) = target[t] => tasks[c] = 0

StuckForGood == [][\A t \in Thread : Stuck(t) => Stuck(t)']_vars

\* Once its client has confirmed it, a channel is inserted into the tables.
ConfirmedIsInserted == \A c \in Client : (listening = c) ~> (listening # c)
===============================================================================
