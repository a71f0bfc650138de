------------------------------ MODULE ServerProofs ------------------------------
(***************************************************************************)
(* Theorems about Server, for every value of its constants.                *)
(***************************************************************************)
EXTENDS Server, FiniteSetTheorems, SequenceTheorems, TLAPS

-------------------------------------------------------------------------------
(* The inductive invariant.                                                   *)

Inside == {"in receive", "asleep", "in close"}

\* The numbers that were given are the first ones, and there is one left for a
\* channel that is ready.
NumberInv ==
    /\ \E k \in 0..MaxChannels : Created = 1..k
    /\ listening # None => Created # Channel

\* The tables name channels of the client, or of a client at the address.
TableInv ==
    /\ \A c \in Reliable :
          ipport_to_channel[c] # None => peer[ipport_to_channel[c]] = c
    /\ \A i \in Ip : ip_to_channel[i] # None =>
          peer[ip_to_channel[i]] \in Datagram /\ IpOf[peer[ip_to_channel[i]]] = i
    /\ \A n \in Channel : peer[n] \in Datagram => ip_to_channel[IpOf[peer[n]]] # None

\* Nothing is queued on a channel that is not there.
FreshInv ==
    \A n \in Channel : peer[n] = None =>
        sockets[n] = 0 /\ receive_que[n] = <<>> /\ send_que[n] = <<>>

\* Datagrams come in over unreliable channels, from clients the table knows.
DatagramInv ==
    /\ \A n \in Channel : sockets[n] > 0 => peer[n] \in Datagram
    /\ \A c \in Datagram : tasks[c] > 0 => NumberOf(c) # None

\* Who is inside receive() or close() of a channel keeps universal_lock.
CallInv ==
    \A t \in Thread :
        /\ pc[t] \in Inside => owner = t /\ target[t] \in Created
        /\ pc[t] \notin Inside \cup {"idle"} => target[t] \in Reliable \cup Channel

ServerInv ==
    /\ TypeOK
    /\ NumberInv
    /\ TableInv
    /\ FreshInv
    /\ DatagramInv
    /\ CallInv
    /\ RoutedToOwner
    /\ NoLostWakeup
-------------------------------------------------------------------------------
(* Sequences, numbers and tables.                                             *)

LEMMA AppendElements ==
    ASSUME NEW S, NEW s \in Seq(S), NEW x \in S
    PROVE  /\ Append(s, x) \in Seq(S) /\ Append(s, x) # <<>>
           /\ \A i \in 1..Len(Append(s, x)) :
                 Append(s, x)[i] = x \/ (i \in 1..Len(s) /\ Append(s, x)[i] = s[i])
<1>1. /\ Append(s, x) \in Seq(S)
      /\ Len(s) \in Nat /\ Len(Append(s, x)) = Len(s) + 1
      /\ \A i \in 1..Len(s) : Append(s, x)[i] = s[i]
      /\ Append(s, x)[Len(s) + 1] = x
  BY AppendProperties, LenProperties
<1>2. Append(s, x) # <<>>
  BY <1>1, EmptySeq
<1>3. QED
  BY <1>1, <1>2

LEMMA TailElements ==
    ASSUME NEW S, NEW s \in Seq(S), s # <<>>
    PROVE  /\ Tail(s) \in Seq(S)
           /\ \A i \in 1..Len(Tail(s)) : i + 1 \in 1..Len(s) /\ Tail(s)[i] = s[i + 1]
<1>1. Len(s) \in Nat \ {0}
  BY EmptySeq
<1>2. Tail(s) \in Seq(S) /\ Len(Tail(s)) = Len(s) - 1
  BY HeadTailProperties
<1>3. Tail(s) = SubSeq(s, 2, Len(s))
  BY TailIsSubSeq
<1>4. \A i \in 2..Len(s) : s[i] \in S
  BY <1>1, ElementOfSeq
<1>5. \A i \in 1..(Len(s) - 2 + 1) : SubSeq(s, 2, Len(s))[i] = s[2 + i - 1]
  BY <1>1, <1>4, SubSeqProperties
<1>6. QED
  BY <1>1, <1>2, <1>3, <1>5

\* Who is and who is not a client, a channel, a thread.
LEMMA NoneIsNone ==
    /\ None \notin Thread /\ None \notin Client /\ None \notin Channel
    /\ Reliable \cap Datagram = {}
    /\ Reliable \subseteq Client /\ Datagram \subseteq Client
    /\ \A c \in Client : IpOf[c] \in Ip
    /\ Created \subseteq Channel
    /\ MaxChannels \in Nat /\ MaxQueued \in Nat
BY ServerAssumption DEF Client, Ip, Created

\* A lookup that succeeds names a channel that was created, and the client's own
\* if it is the client that was looked up.
LEMMA FindFacts ==
    ASSUME TypeOK, TableInv, NEW x \in Reliable \cup Channel
    PROVE  /\ Find(x) \in Created \cup {None}
           /\ Find(x) # None /\ x \in Reliable => peer[Find(x)] = x
<1>1. CASE x \in Reliable
  <2>1. ipport_to_channel[x] \in Channel \cup {None} /\ x # None
    BY <1>1, NoneIsNone DEF TypeOK
  <2>2. QED
    BY <1>1, <2>1 DEF TableInv, Find, Created
<1>2. CASE x \notin Reliable
  BY <1>2 DEF Find
<1>3. QED
  BY <1>1, <1>2

\* Only the thread that keeps the lock is inside.
LEMMA OneInside ==
    ASSUME CallInv
    PROVE  /\ owner = None => \A t \in Thread : pc[t] \notin Inside
           /\ \A t, u \in Thread : pc[t] \in Inside /\ pc[u] \in Inside => t = u
BY NoneIsNone DEF CallInv

\* A part of the invariant whose variables stay as they are stays true.
LEMMA Untouched ==
    ASSUME ServerInv, UNCHANGED peer
    PROVE  /\ UNCHANGED listening => NumberInv'
           /\ UNCHANGED <<ip_to_channel, ipport_to_channel>> => TableInv'
           /\ UNCHANGED <<sockets, receive_que, send_que>> => FreshInv'
           /\ UNCHANGED <<ip_to_channel, sockets, tasks>> => DatagramInv'
           /\ UNCHANGED <<pc, target, owner>> => CallInv'
           /\ UNCHANGED <<receive_que, send_que>> => RoutedToOwner'
           /\ UNCHANGED <<pc, target, receive_que>> => NoLostWakeup'
<1>1. Created' = Created
  BY DEF Created
<1>2. UNCHANGED listening => NumberInv'
  BY <1>1 DEF ServerInv, NumberInv
<1>3. UNCHANGED <<ip_to_channel, ipport_to_channel>> => TableInv'
  BY DEF ServerInv, TableInv
<1>4. UNCHANGED <<sockets, receive_que, send_que>> => FreshInv'
  BY DEF ServerInv, FreshInv
<1>5. UNCHANGED <<ip_to_channel, sockets, tasks>> => DatagramInv'
  BY DEF ServerInv, DatagramInv, NumberOf
<1>6. UNCHANGED <<pc, target, owner>> => CallInv'
  BY <1>1 DEF ServerInv, CallInv
<1>7. UNCHANGED <<receive_que, send_que>> => RoutedToOwner'
  BY DEF ServerInv, RoutedToOwner
<1>8. UNCHANGED <<pc, target, receive_que>> => NoLostWakeup'
  BY DEF ServerInv, NoLostWakeup
<1>9. QED
  BY <1>2, <1>3, <1>4, <1>5, <1>6, <1>7, <1>8

-------------------------------------------------------------------------------
(* The application's calls, one lemma for each action.                        *)

LEMMA CallStep ==
    ASSUME ServerInv, NEW t \in Thread, NEW op \in Operations,
           NEW x \in Reliable \cup Channel, Call(t, op, x)
    PROVE  ServerInv'
<1>1. /\ op \in {"receive", "send", "close", "wait"} /\ op \notin Inside /\ op # "idle"
      /\ pc[t] = "idle"
      /\ pc' = [pc EXCEPT ![t] = op] /\ target' = [target EXCEPT ![t] = x]
      /\ UNCHANGED <<owner, listening, peer, ip_to_channel, ipport_to_channel,
                     sockets, tasks, receive_que, send_que>>
  BY ServerAssumption DEF Call, Go, Inside, tableVars, queueVars
<1>2. TypeOK
  BY DEF ServerInv
<1>3. TypeOK'
  BY <1>1, <1>2 DEF TypeOK
<1>4. /\ pc'[t] = op /\ target'[t] = x
      /\ \A u \in Thread \ {t} : pc'[u] = pc[u] /\ target'[u] = target[u]
  BY <1>1, <1>2 DEF TypeOK
<1>5. CallInv'
  BY <1>1, <1>4 DEF ServerInv, CallInv, Created
<1>6. NoLostWakeup'
  BY <1>1, <1>4 DEF ServerInv, NoLostWakeup, Inside
<1>7. QED
  BY <1>1, <1>3, <1>5, <1>6, Untouched DEF ServerInv

LEMMA ThrowStep ==
    ASSUME ServerInv, NEW t \in Thread, Throw(t)
    PROVE  ServerInv'
<1>1. /\ pc' = [pc EXCEPT ![t] = "idle"] /\ target' = [target EXCEPT ![t] = None]
      /\ UNCHANGED <<owner, listening, peer, ip_to_channel, ipport_to_channel,
                     sockets, tasks, receive_que, send_que>>
  BY DEF Throw, Go, tableVars, queueVars
<1>2. TypeOK
  BY DEF ServerInv
<1>3. TypeOK'
  BY <1>1, <1>2 DEF TypeOK
<1>4. /\ pc'[t] = "idle" /\ "idle" \notin Inside
      /\ \A u \in Thread \ {t} : pc'[u] = pc[u] /\ target'[u] = target[u]
  BY <1>1, <1>2 DEF TypeOK, Inside
<1>5. CallInv'
  BY <1>1, <1>4 DEF ServerInv, CallInv, Created
<1>6. NoLostWakeup'
  BY <1>1, <1>4 DEF ServerInv, NoLostWakeup
<1>7. QED
  BY <1>1, <1>3, <1>5, <1>6, Untouched DEF ServerInv

LEMMA EnterStep ==
    ASSUME ServerInv, NEW t \in Thread, Enter(t)
    PROVE  ServerInv'
<1> DEFINE n == Find(target[t])
<1>1. /\ pc[t] \in {"receive", "close"} /\ owner = None /\ n # None /\ owner' = t
      /\ pc' = [pc EXCEPT ![t] = IF pc[t] = "receive" THEN "in receive" ELSE "in close"]
      /\ target' = [target EXCEPT ![t] = n]
      /\ UNCHANGED <<listening, peer, ip_to_channel, ipport_to_channel,
                     sockets, tasks, receive_que, send_que>>
  BY DEF Enter, Go, tableVars, queueVars
<1>2. TypeOK
  BY DEF ServerInv
<1>3. target[t] \in Reliable \cup Channel
  BY <1>1 DEF ServerInv, CallInv, Inside
<1>4. n \in Created /\ n \in Channel
  BY <1>1, <1>2, <1>3, FindFacts, NoneIsNone DEF ServerInv
<1> HIDE DEF n
<1>5. TypeOK'
  BY <1>1, <1>2, <1>4 DEF TypeOK
<1>6. /\ pc'[t] \in {"in receive", "in close"} /\ target'[t] = n
      /\ \A u \in Thread \ {t} : pc'[u] = pc[u] /\ target'[u] = target[u]
  BY <1>1, <1>2 DEF TypeOK
<1>7. CallInv'
  <2>1. \A u \in Thread : pc[u] \notin Inside
    BY <1>1, OneInside DEF ServerInv
  <2>2. pc'[t] \in Inside
    BY <1>6 DEF Inside
  <2>3. QED
    BY <1>1, <1>4, <1>6, <2>1, <2>2 DEF ServerInv, CallInv, Created
<1>8. NoLostWakeup'
  BY <1>1, <1>6 DEF ServerInv, NoLostWakeup
<1>9. QED
  BY <1>1, <1>5, <1>7, <1>8, Untouched DEF ServerInv

\* Nobody sleeps on what a call leaves as it was when it returns.
LEMMA ReturnFacts ==
    ASSUME ServerInv, NEW t \in Thread, Return(t), UNCHANGED peer,
           pc[t] \in Inside \/ owner = None
    PROVE  /\ owner' = None /\ pc' \in [Thread -> {"idle", "receive", "send", "close",
                 "wait", "in receive", "asleep", "in close", "unknown client"}]
           /\ target' \in [Thread -> Reliable \cup Channel \cup {None}]
           /\ CallInv'
           /\ \A u \in Thread : pc'[u] # "asleep"
<1>1. /\ owner' = None /\ pc' = [pc EXCEPT ![t] = "idle"]
      /\ target' = [target EXCEPT ![t] = None]
  BY DEF Return, Go
<1>2. TypeOK
  BY DEF ServerInv
<1>3. /\ pc' \in [Thread -> {"idle", "receive", "send", "close", "wait", "in receive",
                             "asleep", "in close", "unknown client"}]
      /\ target' \in [Thread -> Reliable \cup Channel \cup {None}]
  BY <1>1, <1>2 DEF TypeOK
<1>4. /\ pc'[t] = "idle" /\ "idle" \notin Inside
      /\ \A u \in Thread \ {t} : pc'[u] = pc[u] /\ target'[u] = target[u]
  BY <1>1, <1>2 DEF TypeOK, Inside
<1>5. \A u \in Thread \ {t} : pc[u] \notin Inside
  BY OneInside DEF ServerInv
<1>6. CallInv'
  BY <1>4, <1>5 DEF ServerInv, CallInv, Created
<1>7. \A u \in Thread : pc'[u] # "asleep"
  BY <1>4, <1>5 DEF Inside
<1>8. QED
  BY <1>1, <1>3, <1>6, <1>7

LEMMA SendMessageStep ==
    ASSUME ServerInv, NEW t \in Thread, SendMessage(t)
    PROVE  ServerInv'
<1> DEFINE n == Find(target[t])
           dest == IF target[t] \in Reliable THEN target[t] ELSE peer[n]
<1>1. /\ pc[t] = "send" /\ owner = None /\ n # None /\ Return(t)
      /\ IF peer[n] \in Reliable
         THEN send_que' = [send_que EXCEPT ![n] = Append(@, dest)]
         ELSE UNCHANGED send_que
      /\ UNCHANGED <<listening, peer, ip_to_channel, ipport_to_channel,
                     sockets, tasks, receive_que>>
  BY DEF SendMessage, tableVars
<1>2. TypeOK
  BY DEF ServerInv
<1>3. target[t] \in Reliable \cup Channel
  BY <1>1 DEF ServerInv, CallInv, Inside
<1>4. n \in Channel /\ peer[n] # None /\ (target[t] \in Reliable => peer[n] = target[t])
  BY <1>1, <1>2, <1>3, FindFacts DEF ServerInv, Created
<1>5. dest = peer[n]
  BY <1>4
<1> HIDE DEF n, dest
<1>6. /\ owner' = None /\ CallInv' /\ NoLostWakeup'
      /\ pc' \in [Thread -> {"idle", "receive", "send", "close", "wait", "in receive",
                             "asleep", "in close", "unknown client"}]
      /\ target' \in [Thread -> Reliable \cup Channel \cup {None}]
  BY <1>1, ReturnFacts DEF NoLostWakeup
<1>7. /\ send_que' \in [Channel -> Seq(Reliable)]
      /\ FreshInv' /\ RoutedToOwner'
  <2>1. CASE peer[n] \in Reliable
    <3>1. /\ Append(send_que[n], dest) \in Seq(Reliable)
          /\ \A i \in 1..Len(Append(send_que[n], dest)) :
                \/ Append(send_que[n], dest)[i] = dest
                \/ i \in 1..Len(send_que[n]) /\ Append(send_que[n], dest)[i] = send_que[n][i]
      <4>1. send_que[n] \in Seq(Reliable) /\ dest \in Reliable
        BY <1>2, <1>4, <1>5, <2>1 DEF TypeOK
      <4>2. QED
        BY <4>1, AppendElements
    <3>2. \A m \in Channel :
             send_que'[m] = IF m = n THEN Append(send_que[n], dest) ELSE send_que[m]
      BY <1>1, <1>2, <1>4, <2>1 DEF TypeOK
    <3>3. send_que' \in [Channel -> Seq(Reliable)]
      BY <1>1, <1>2, <1>4, <2>1, <3>1 DEF TypeOK
    <3>4. FreshInv'
      BY <1>1, <1>4, <3>2 DEF ServerInv, FreshInv
    <3>5. ASSUME NEW m \in Channel, NEW i \in 1..Len(send_que'[m])
          PROVE  send_que'[m][i] = peer[m]
      <4>1. \A j \in 1..Len(send_que[m]) : send_que[m][j] = peer[m]
        BY DEF ServerInv, RoutedToOwner
      <4>2. CASE m = n
        BY <1>5, <3>1, <3>2, <4>1, <4>2
      <4>3. CASE m # n
        BY <3>2, <4>1, <4>3
      <4>4. QED
        BY <4>2, <4>3
    <3>6. RoutedToOwner'
      BY <1>1, <3>5 DEF ServerInv, RoutedToOwner
    <3>7. QED
      BY <3>3, <3>4, <3>6
  <2>2. CASE peer[n] \notin Reliable
    BY <1>1, <1>2, <2>2, Untouched DEF TypeOK
  <2>3. QED
    BY <2>1, <2>2
<1>8. TypeOK'
  BY <1>1, <1>2, <1>6, <1>7 DEF TypeOK
<1>9. QED
  BY <1>1, <1>6, <1>7, <1>8, Untouched DEF ServerInv

\* The messages of a channel's queue, but for its first one.
LEMMA QueueShrinks ==
    ASSUME ServerInv, UNCHANGED <<peer, sockets, send_que>>, NEW n \in Channel,
           receive_que[n] # <<>>, receive_que' = [receive_que EXCEPT ![n] = Tail(@)]
    PROVE  /\ receive_que' \in [Channel -> Seq(Client)]
           /\ FreshInv' /\ RoutedToOwner'
<1>1. TypeOK
  BY DEF ServerInv
<1>2. /\ Tail(receive_que[n]) \in Seq(Client)
      /\ \A i \in 1..Len(Tail(receive_que[n])) :
            /\ i + 1 \in 1..Len(receive_que[n])
            /\ Tail(receive_que[n])[i] = receive_que[n][i + 1]
  BY <1>1, TailElements DEF TypeOK
<1>3. \A m \in Channel :
         receive_que'[m] = IF m = n THEN Tail(receive_que[n]) ELSE receive_que[m]
  BY <1>1 DEF TypeOK
<1>4. receive_que' \in [Channel -> Seq(Client)]
  BY <1>1, <1>2 DEF TypeOK
<1>5. FreshInv'
  BY <1>3 DEF ServerInv, FreshInv
<1>6. ASSUME NEW m \in Channel, NEW i \in 1..Len(receive_que'[m])
      PROVE  \E j \in 1..Len(receive_que[m]) : receive_que'[m][i] = receive_que[m][j]
  BY <1>2, <1>3
<1>7. RoutedToOwner'
  BY <1>6 DEF ServerInv, RoutedToOwner
<1>8. QED
  BY <1>4, <1>5, <1>7

LEMMA TakeMessageStep ==
    ASSUME ServerInv, NEW t \in Thread, TakeMessage(t)
    PROVE  ServerInv'
<1>1. /\ pc[t] \in Inside /\ receive_que[target[t]] # <<>> /\ Return(t)
      /\ receive_que' = [receive_que EXCEPT ![target[t]] = Tail(@)]
      /\ UNCHANGED <<listening, peer, ip_to_channel, ipport_to_channel,
                     sockets, tasks, send_que>>
  BY DEF TakeMessage, tableVars, Inside
<1>2. TypeOK
  BY DEF ServerInv
<1>3. target[t] \in Channel
  BY <1>1 DEF ServerInv, CallInv, Created
<1>4. /\ owner' = None /\ CallInv' /\ NoLostWakeup'
      /\ pc' \in [Thread -> {"idle", "receive", "send", "close", "wait", "in receive",
                             "asleep", "in close", "unknown client"}]
      /\ target' \in [Thread -> Reliable \cup Channel \cup {None}]
  BY <1>1, ReturnFacts DEF NoLostWakeup
<1>5. receive_que' \in [Channel -> Seq(Client)] /\ FreshInv' /\ RoutedToOwner'
  BY <1>1, <1>3, QueueShrinks
<1>6. TypeOK'
  BY <1>1, <1>2, <1>4, <1>5 DEF TypeOK
<1>7. QED
  BY <1>1, <1>4, <1>5, <1>6, Untouched DEF ServerInv

LEMMA SleepStep ==
    ASSUME ServerInv, NEW t \in Thread, Sleep(t)
    PROVE  ServerInv'
<1>1. /\ pc[t] \in Inside /\ receive_que[target[t]] = <<>>
      /\ pc' = [pc EXCEPT ![t] = "asleep"]
      /\ UNCHANGED <<owner, target, listening, peer, ip_to_channel, ipport_to_channel,
                     sockets, tasks, receive_que, send_que>>
  BY DEF Sleep, Go, tableVars, queueVars, Inside
<1>2. TypeOK
  BY DEF ServerInv
<1>3. TypeOK'
  BY <1>1, <1>2 DEF TypeOK
<1>4. /\ pc'[t] = "asleep" /\ "asleep" \in Inside
      /\ \A u \in Thread \ {t} : pc'[u] = pc[u]
  BY <1>1, <1>2 DEF TypeOK, Inside
<1>5. CallInv'
  BY <1>1, <1>4 DEF ServerInv, CallInv, Created
<1>6. NoLostWakeup'
  BY <1>1, <1>4 DEF ServerInv, NoLostWakeup
<1>7. QED
  BY <1>1, <1>3, <1>5, <1>6, Untouched DEF ServerInv

LEMMA WakeUpStep ==
    ASSUME ServerInv, NEW t \in Thread, WakeUp(t)
    PROVE  ServerInv'
<1>1. /\ pc[t] \in Inside
      /\ pc' = [pc EXCEPT ![t] = "in receive"]
      /\ UNCHANGED <<owner, target, listening, peer, ip_to_channel, ipport_to_channel,
                     sockets, tasks, receive_que, send_que>>
  BY DEF WakeUp, Go, tableVars, queueVars, Inside
<1>2. TypeOK
  BY DEF ServerInv
<1>3. TypeOK'
  BY <1>1, <1>2 DEF TypeOK
<1>4. /\ pc'[t] = "in receive" /\ "in receive" \in Inside
      /\ \A u \in Thread \ {t} : pc'[u] = pc[u]
  BY <1>1, <1>2 DEF TypeOK, Inside
<1>5. CallInv'
  BY <1>1, <1>4 DEF ServerInv, CallInv, Created
<1>6. NoLostWakeup'
  BY <1>1, <1>4 DEF ServerInv, NoLostWakeup
<1>7. QED
  BY <1>1, <1>3, <1>5, <1>6, Untouched DEF ServerInv

LEMMA NothingDoneStep ==
    ASSUME ServerInv, NEW t \in Thread, CloseReturns(t) \/ WaitDone(t)
    PROVE  ServerInv'
<1>1. /\ pc[t] \in Inside \/ owner = None
      /\ Return(t)
      /\ UNCHANGED <<listening, peer, ip_to_channel, ipport_to_channel,
                     sockets, tasks, receive_que, send_que>>
  BY DEF CloseReturns, WaitDone, tableVars, queueVars, Inside
<1>2. TypeOK
  BY DEF ServerInv
<1>3. /\ owner' = None /\ CallInv' /\ NoLostWakeup'
      /\ pc' \in [Thread -> {"idle", "receive", "send", "close", "wait", "in receive",
                             "asleep", "in close", "unknown client"}]
      /\ target' \in [Thread -> Reliable \cup Channel \cup {None}]
  BY <1>1, ReturnFacts DEF NoLostWakeup
<1>4. TypeOK'
  BY <1>1, <1>2, <1>3 DEF TypeOK
<1>5. QED
  BY <1>1, <1>3, <1>4, Untouched DEF ServerInv

LEMMA WaitSleepsStep ==
    ASSUME ServerInv, NEW t \in Thread, WaitSleeps(t)
    PROVE  ServerInv'
<1>1. /\ pc[t] = "wait"
      /\ pc' = [pc EXCEPT ![t] = "unknown client"]
      /\ UNCHANGED <<owner, target, listening, peer, ip_to_channel, ipport_to_channel,
                     sockets, tasks, receive_que, send_que>>
  BY DEF WaitSleeps, Go, tableVars, queueVars
<1>2. TypeOK
  BY DEF ServerInv
<1>3. TypeOK'
  BY <1>1, <1>2 DEF TypeOK
<1>4. /\ pc'[t] = "unknown client" /\ "unknown client" \notin Inside
      /\ \A u \in Thread \ {t} : pc'[u] = pc[u]
  BY <1>1, <1>2 DEF TypeOK, Inside
<1>5. CallInv'
  BY <1>1, <1>4 DEF ServerInv, CallInv, Created, Inside
<1>6. NoLostWakeup'
  BY <1>1, <1>4 DEF ServerInv, NoLostWakeup
<1>7. QED
  BY <1>1, <1>3, <1>5, <1>6, Untouched DEF ServerInv

-------------------------------------------------------------------------------
(* The listen thread.                                                         *)

LEMMA ChannelReadyStep ==
    ASSUME ServerInv, NEW c \in Client, ChannelReady(c)
    PROVE  ServerInv'
<1>1. /\ Created # Channel /\ listening' = c
      /\ UNCHANGED <<owner, pc, target, peer, ip_to_channel, ipport_to_channel,
                     sockets, tasks, receive_que, send_que>>
  BY DEF ChannelReady, appVars, tableVars, queueVars
<1>2. TypeOK'
  BY <1>1 DEF ServerInv, TypeOK
<1>3. NumberInv'
  BY <1>1 DEF ServerInv, NumberInv, Created
<1>4. QED
  BY <1>1, <1>2, <1>3, Untouched DEF ServerInv

\* The number a channel gets is the next one, and was nobody's.
LEMMA NumberFacts ==
    ASSUME ServerInv, listening # None
    PROVE  /\ NextNumber \in Channel /\ NextNumber \notin Created
           /\ \E k \in 0..MaxChannels : Created \cup {NextNumber} = 1..k
<1>1. PICK k \in 0..MaxChannels : Created = 1..k
  BY DEF ServerInv, NumberInv
<1>2. k # MaxChannels
  BY <1>1 DEF ServerInv, NumberInv, Channel
<1>3. Cardinality(Created) = k
  <2>1. Cardinality(1..k) = k
    BY NoneIsNone, FS_Interval
  <2>2. QED
    BY <1>1, <2>1
<1>4. NextNumber = k + 1 /\ k \in Nat /\ k + 1 \in 0..MaxChannels
  BY <1>2, <1>3, NoneIsNone DEF NextNumber
<1>5. Created \cup {NextNumber} = 1..(k + 1)
  BY <1>1, <1>4
<1>6. NextNumber \in 1..MaxChannels /\ NextNumber \notin 1..k
  BY <1>4, NoneIsNone
<1>7. QED
  BY <1>1, <1>4, <1>5, <1>6 DEF Channel

LEMMA AddChannelStep ==
    ASSUME ServerInv, AddChannel
    PROVE  ServerInv'
<1> DEFINE k == NextNumber
<1>1. /\ listening # None /\ owner = None /\ listening' = None
      /\ peer' = [peer EXCEPT ![k] = listening]
      /\ UNCHANGED <<owner, target, sockets, tasks, receive_que, send_que>>
  BY DEF AddChannel, queueVars
<1>2. \/ /\ listening \in Reliable
         /\ ipport_to_channel' = [ipport_to_channel EXCEPT ![listening] = k]
         /\ pc' = [t \in Thread |-> IF pc[t] = "unknown client" THEN "wait" ELSE pc[t]]
         /\ UNCHANGED ip_to_channel
      \/ /\ listening \in Datagram
         /\ ip_to_channel' = [ip_to_channel EXCEPT ![IpOf[listening]] = k]
         /\ UNCHANGED <<ipport_to_channel, pc>>
  BY <1>1 DEF AddChannel, ServerInv, TypeOK, Client
<1>3. /\ k \in Channel /\ k \notin Created
      /\ \E j \in 0..MaxChannels : Created \cup {k} = 1..j
  BY <1>1, NumberFacts
<1> HIDE DEF k
<1>4. TypeOK /\ listening \in Client /\ IpOf[listening] \in Ip
  BY <1>1, NoneIsNone DEF ServerInv, TypeOK
<1>5. /\ peer[k] = None /\ peer'[k] = listening
      /\ \A n \in Channel \ {k} : peer'[n] = peer[n]
  BY <1>1, <1>3, <1>4 DEF TypeOK, Created
<1>6. /\ \A c \in Reliable : \/ ipport_to_channel'[c] = ipport_to_channel[c]
                             \/ c = listening /\ ipport_to_channel'[c] = k
      /\ \A i \in Ip : \/ ip_to_channel'[i] = ip_to_channel[i]
                       \/ /\ listening \in Datagram /\ i = IpOf[listening]
                          /\ ip_to_channel'[i] = k
      /\ listening \in Datagram => ip_to_channel'[IpOf[listening]] = k
  BY <1>2, <1>4, NoneIsNone DEF TypeOK
<1>7. Created' = Created \cup {k}
  BY <1>1, <1>3, <1>4, <1>5, NoneIsNone DEF Created
<1>8. TypeOK'
  <2>1. peer' \in [Channel -> Client \cup {None}]
    BY <1>1, <1>3, <1>4 DEF TypeOK
  <2>2. pc' \in [Thread -> {"idle", "receive", "send", "close", "wait", "in receive",
                            "asleep", "in close", "unknown client"}]
    BY <1>2, <1>4 DEF TypeOK
  <2>3. /\ ip_to_channel' \in [Ip -> Channel \cup {None}]
        /\ ipport_to_channel' \in [Reliable -> Channel \cup {None}]
    BY <1>2, <1>3, <1>4 DEF TypeOK
  <2>4. QED
    BY <1>1, <1>4, <2>1, <2>2, <2>3 DEF TypeOK
<1>9. NumberInv'
  BY <1>1, <1>3, <1>7 DEF NumberInv
<1>10. TableInv'
  <2>1. ASSUME NEW c \in Reliable, ipport_to_channel'[c] # None
        PROVE  peer'[ipport_to_channel'[c]] = c
    <3>1. CASE ipport_to_channel'[c] = ipport_to_channel[c]
      <4>1. ipport_to_channel[c] \in Channel /\ peer[ipport_to_channel[c]] = c /\ c # None
        <5>1. ipport_to_channel[c] # None /\ c # None
          BY <2>1, <3>1, NoneIsNone
        <5>2. ipport_to_channel[c] \in Channel
          BY <1>4, <5>1 DEF TypeOK
        <5>3. QED
          BY <5>1, <5>2 DEF ServerInv, TableInv
      <4>2. ipport_to_channel[c] \in Channel \ {k}
        BY <1>5, <4>1
      <4>3. QED
        BY <1>5, <3>1, <4>1, <4>2
    <3>2. CASE ipport_to_channel'[c] # ipport_to_channel[c]
      BY <1>5, <1>6, <3>2
    <3>3. QED
      BY <3>1, <3>2
  <2>2. ASSUME NEW i \in Ip, ip_to_channel'[i] # None
        PROVE  peer'[ip_to_channel'[i]] \in Datagram /\ IpOf[peer'[ip_to_channel'[i]]] = i
    <3>1. CASE ip_to_channel'[i] = ip_to_channel[i]
      <4>1. /\ ip_to_channel[i] \in Channel /\ None \notin Datagram
            /\ peer[ip_to_channel[i]] \in Datagram /\ IpOf[peer[ip_to_channel[i]]] = i
        <5>1. ip_to_channel[i] # None /\ None \notin Datagram
          BY <2>2, <3>1, NoneIsNone
        <5>2. ip_to_channel[i] \in Channel
          BY <1>4, <5>1 DEF TypeOK
        <5>3. QED
          BY <5>1, <5>2 DEF ServerInv, TableInv
      <4>2. ip_to_channel[i] \in Channel \ {k}
        BY <1>5, <4>1
      <4>3. QED
        BY <1>5, <3>1, <4>1, <4>2
    <3>2. CASE ip_to_channel'[i] # ip_to_channel[i]
      BY <1>5, <1>6, <3>2
    <3>3. QED
      BY <3>1, <3>2
  <2>3. ASSUME NEW n \in Channel, peer'[n] \in Datagram
        PROVE  ip_to_channel'[IpOf[peer'[n]]] # None
    <3>1. IpOf[peer'[n]] \in Ip
      BY <2>3, NoneIsNone
    <3>2. CASE n = k
      BY <1>3, <1>5, <1>6, <2>3, <3>2, NoneIsNone
    <3>3. CASE n # k
      <4>1. ip_to_channel[IpOf[peer[n]]] # None
        BY <1>5, <2>3, <3>3 DEF ServerInv, TableInv
      <4>2. QED
        BY <1>3, <1>5, <1>6, <3>1, <3>3, <4>1, NoneIsNone
    <3>4. QED
      BY <3>2, <3>3
  <2>4. QED
    BY <2>1, <2>2, <2>3 DEF TableInv
<1>11. FreshInv'
  BY <1>1, <1>4, <1>5, NoneIsNone DEF ServerInv, FreshInv
<1>12. DatagramInv'
  <2>1. ASSUME NEW n \in Channel, sockets'[n] > 0
        PROVE  peer'[n] \in Datagram
    <3>1. n # k
      BY <1>1, <1>5, <2>1 DEF ServerInv, FreshInv
    <3>2. QED
      BY <1>1, <1>5, <2>1, <3>1 DEF ServerInv, DatagramInv
  <2>2. ASSUME NEW c \in Datagram, tasks'[c] > 0
        PROVE  NumberOf(c)' # None
    <3>1. IpOf[c] \in Ip /\ ip_to_channel[IpOf[c]] # None
      BY <1>1, <2>2, NoneIsNone DEF ServerInv, DatagramInv, NumberOf
    <3>2. QED
      BY <1>3, <1>6, <3>1, NoneIsNone DEF NumberOf
  <2>3. QED
    BY <2>1, <2>2 DEF DatagramInv
<1>13. CallInv'
  <2>1. \A t \in Thread : pc[t] \notin Inside
    BY <1>1, OneInside DEF ServerInv
  <2>2. \A t \in Thread : pc'[t] = pc[t] \/ (pc'[t] = "wait" /\ pc[t] = "unknown client")
    BY <1>2
  <2>3. QED
    BY <1>1, <2>1, <2>2 DEF ServerInv, CallInv, Inside
<1>14. RoutedToOwner'
  <2>1. receive_que[k] = <<>> /\ send_que[k] = <<>> /\ Len(<<>>) = 0
    BY <1>3, <1>5 DEF ServerInv, FreshInv
  <2>2. QED
    BY <1>1, <1>5, <2>1 DEF ServerInv, RoutedToOwner
<1>15. NoLostWakeup'
  <2>1. \A t \in Thread : pc'[t] # "asleep"
    BY <1>1, <1>2, OneInside DEF ServerInv, Inside
  <2>2. QED
    BY <2>1 DEF NoLostWakeup
<1>16. QED
  BY <1>8, <1>9, <1>10, <1>11, <1>12, <1>13, <1>14, <1>15 DEF ServerInv

-------------------------------------------------------------------------------
(* Messages.                                                                  *)

\* A channel's queue with one more message, from whom the channel may have it.
LEMMA QueueGrows ==
    ASSUME ServerInv, UNCHANGED <<peer, sockets, send_que>>,
           NEW n \in Channel, NEW c \in Client, peer[n] # None,
           IF peer[n] \in Reliable THEN c = peer[n]
           ELSE c \in Datagram /\ IpOf[c] = IpOf[peer[n]],
           receive_que' = [receive_que EXCEPT ![n] = Append(@, c)]
    PROVE  /\ receive_que' \in [Channel -> Seq(Client)]
           /\ \A m \in Channel \ {n} : receive_que'[m] = receive_que[m]
           /\ FreshInv' /\ RoutedToOwner'
<1>1. TypeOK
  BY DEF ServerInv
<1>2. receive_que[n] \in Seq(Client)
  BY <1>1 DEF TypeOK
<1>3. /\ Append(receive_que[n], c) \in Seq(Client)
      /\ \A i \in 1..Len(Append(receive_que[n], c)) :
            \/ Append(receive_que[n], c)[i] = c
            \/ i \in 1..Len(receive_que[n]) /\ Append(receive_que[n], c)[i] = receive_que[n][i]
  BY <1>2, AppendElements
<1>4. \A m \in Channel :
         receive_que'[m] = IF m = n THEN Append(receive_que[n], c) ELSE receive_que[m]
  BY <1>1 DEF TypeOK
<1>5. receive_que' \in [Channel -> Seq(Client)]
  BY <1>1, <1>3 DEF TypeOK
<1>6. FreshInv'
  BY <1>4 DEF ServerInv, FreshInv
<1>7. ASSUME NEW m \in Channel, NEW i \in 1..Len(receive_que'[m])
      PROVE  IF peer[m] \in Reliable THEN receive_que'[m][i] = peer[m]
             ELSE /\ receive_que'[m][i] \in Datagram
                  /\ IpOf[receive_que'[m][i]] = IpOf[peer[m]]
  <2>1. \A j \in 1..Len(receive_que[m]) :
           IF peer[m] \in Reliable THEN receive_que[m][j] = peer[m]
           ELSE receive_que[m][j] \in Datagram /\ IpOf[receive_que[m][j]] = IpOf[peer[m]]
    BY DEF ServerInv, RoutedToOwner
  <2>2. CASE m = n
    <3>1. CASE receive_que'[m][i] = c
      BY <2>2, <3>1
    <3>2. CASE receive_que'[m][i] # c
      <4>1. i \in 1..Len(receive_que[m]) /\ receive_que'[m][i] = receive_que[m][i]
        BY <1>3, <1>4, <2>2, <3>2
      <4>2. QED
        BY <2>1, <4>1
    <3>3. QED
      BY <3>1, <3>2
  <2>3. CASE m # n
    <3>1. receive_que'[m] = receive_que[m]
      BY <1>4, <2>3
    <3>2. QED
      BY <2>1, <3>1
  <2>4. QED
    BY <2>2, <2>3
<1>8. RoutedToOwner'
  BY <1>7 DEF ServerInv, RoutedToOwner
<1>9. QED
  BY <1>4, <1>5, <1>6, <1>8

LEMMA ReliableArrivesStep ==
    ASSUME ServerInv, NEW n \in Channel, ReliableArrives(n)
    PROVE  ServerInv'
<1>1. /\ peer[n] \in Reliable
      /\ receive_que' = [receive_que EXCEPT ![n] = Append(@, peer[n])]
      /\ pc' = [t \in Thread |->
                  IF pc[t] = "asleep" /\ target[t] = n THEN "in receive" ELSE pc[t]]
      /\ UNCHANGED <<owner, target, listening, peer, ip_to_channel, ipport_to_channel,
                     sockets, tasks, send_que>>
  BY DEF ReliableArrives, NotifyReceiver, tableVars
<1>2. TypeOK
  BY DEF ServerInv
<1>3. peer[n] \in Client /\ peer[n] # None
  BY <1>1, NoneIsNone
<1>4. /\ receive_que' \in [Channel -> Seq(Client)] /\ FreshInv' /\ RoutedToOwner'
      /\ \A m \in Channel \ {n} : receive_que'[m] = receive_que[m]
  BY <1>1, <1>3, QueueGrows
<1>5. TypeOK'
  <2>1. pc' \in [Thread -> {"idle", "receive", "send", "close", "wait", "in receive",
                            "asleep", "in close", "unknown client"}]
    BY <1>1, <1>2 DEF TypeOK
  <2>2. QED
    BY <1>1, <1>2, <1>4, <2>1 DEF TypeOK
<1>6. \A t \in Thread : \/ pc'[t] = pc[t]
                        \/ pc[t] = "asleep" /\ pc'[t] = "in receive"
  BY <1>1
<1>7. CallInv'
  BY <1>1, <1>6 DEF ServerInv, CallInv, Inside, Created
<1>8. NoLostWakeup'
  <2>1. ASSUME NEW t \in Thread, pc'[t] = "asleep", peer[target[t]] \in Reliable
        PROVE  receive_que'[target[t]] = <<>>
    <3>1. pc[t] = "asleep" /\ target[t] # n
      BY <1>1, <2>1
    <3>2. target[t] \in Channel /\ receive_que[target[t]] = <<>>
      BY <2>1, <3>1 DEF ServerInv, CallInv, Inside, Created, NoLostWakeup
    <3>3. QED
      BY <1>4, <3>1, <3>2
  <2>2. QED
    BY <1>1, <2>1 DEF NoLostWakeup
<1>9. QED
  BY <1>1, <1>4, <1>5, <1>7, <1>8, Untouched DEF ServerInv

LEMMA SendThreadTakesStep ==
    ASSUME ServerInv, NEW n \in Channel, SendThreadTakes(n)
    PROVE  ServerInv'
<1>1. /\ send_que[n] # <<>> /\ send_que' = [send_que EXCEPT ![n] = Tail(@)]
      /\ UNCHANGED <<owner, pc, target, listening, peer, ip_to_channel, ipport_to_channel,
                     sockets, tasks, receive_que>>
  BY DEF SendThreadTakes, appVars, tableVars
<1>2. TypeOK
  BY DEF ServerInv
<1>3. send_que[n] \in Seq(Reliable)
  BY <1>2 DEF TypeOK
<1>4. /\ Tail(send_que[n]) \in Seq(Reliable)
      /\ \A i \in 1..Len(Tail(send_que[n])) :
            i + 1 \in 1..Len(send_que[n]) /\ Tail(send_que[n])[i] = send_que[n][i + 1]
  BY <1>1, <1>3, TailElements
<1>5. \A m \in Channel : send_que'[m] = IF m = n THEN Tail(send_que[n]) ELSE send_que[m]
  BY <1>1, <1>2 DEF TypeOK
<1>6. TypeOK'
  BY <1>1, <1>2, <1>4 DEF TypeOK
<1>7. FreshInv'
  BY <1>1, <1>5 DEF ServerInv, FreshInv
<1>8. RoutedToOwner'
  <2>1. ASSUME NEW m \in Channel, NEW i \in 1..Len(send_que'[m])
        PROVE  send_que'[m][i] = peer[m]
    <3>1. \E j \in 1..Len(send_que[m]) : send_que'[m][i] = send_que[m][j]
      BY <1>4, <1>5
    <3>2. QED
      BY <3>1 DEF ServerInv, RoutedToOwner
  <2>2. QED
    BY <1>1, <2>1 DEF ServerInv, RoutedToOwner
<1>9. QED
  BY <1>1, <1>6, <1>7, <1>8, Untouched DEF ServerInv

LEMMA DatagramArrivesStep ==
    ASSUME ServerInv, NEW n \in Channel, DatagramArrives(n)
    PROVE  ServerInv'
<1>1. /\ peer[n] \in Datagram /\ sockets[n] < MaxQueued
      /\ sockets' = [sockets EXCEPT ![n] = @ + 1]
      /\ UNCHANGED <<owner, pc, target, listening, peer, ip_to_channel, ipport_to_channel,
                     tasks, receive_que, send_que>>
  BY DEF DatagramArrives, appVars, tableVars
<1>2. TypeOK
  BY DEF ServerInv
<1>3. sockets[n] + 1 \in 0..MaxQueued
  <2>1. sockets[n] \in 0..MaxQueued
    BY <1>2 DEF TypeOK
  <2>2. QED
    BY <1>1, <2>1, NoneIsNone
<1>4. TypeOK'
  BY <1>1, <1>2, <1>3 DEF TypeOK
<1>5. \A m \in Channel \ {n} : sockets'[m] = sockets[m]
  BY <1>1, <1>2 DEF TypeOK
<1>6. FreshInv'
  BY <1>1, <1>5, NoneIsNone DEF ServerInv, FreshInv
<1>7. DatagramInv'
  BY <1>1, <1>5 DEF ServerInv, DatagramInv, NumberOf
<1>8. QED
  BY <1>1, <1>4, <1>6, <1>7, Untouched DEF ServerInv

\* What the pool has of a client after a round, and that it comes from a channel
\* of the client if it had nothing before.
LEMMA TasksOfFacts ==
    ASSUME TypeOK, NEW c \in Datagram
    PROVE  /\ tasks[c] \in Nat /\ TasksOf(c) \in Nat
           /\ TasksOf(c) > 0 => tasks[c] > 0 \/ \E n \in Readable : peer[n] = c
<1> DEFINE S == {n \in Readable : peer[n] = c}
<1>1. IsFiniteSet(Channel)
  BY NoneIsNone, FS_Interval DEF Channel
<1>2. S \in SUBSET Channel
  BY DEF Readable
<1>3. IsFiniteSet(S)
  BY <1>1, <1>2, FS_Subset
<1>4. Cardinality(S) \in Nat /\ (Cardinality(S) = 0 <=> S = {})
  BY <1>3, FS_CardinalityType, FS_EmptySet
<1>5. tasks[c] \in Nat
  <2>1. tasks[c] \in 0..MaxQueued
    BY DEF TypeOK
  <2>2. QED
    BY <2>1, NoneIsNone
<1>6. TasksOf(c) = tasks[c] + Cardinality(S)
  BY DEF TasksOf
<1>7. TasksOf(c) > 0 => tasks[c] > 0 \/ S # {}
  BY <1>4, <1>5, <1>6
<1>8. QED
  BY <1>4, <1>5, <1>6, <1>7

LEMMA ReceiveRoundStep ==
    ASSUME ServerInv, ReceiveRound
    PROVE  ServerInv'
<1>1. /\ \A c \in Datagram : TasksOf(c) <= MaxQueued
      /\ sockets' = [n \in Channel |-> IF n \in Readable THEN sockets[n] - 1 ELSE 0]
      /\ tasks' = [c \in Datagram |-> TasksOf(c)]
      /\ UNCHANGED <<owner, pc, target, listening, peer, ip_to_channel, ipport_to_channel,
                     receive_que, send_que>>
  BY DEF ReceiveRound, appVars, tableVars
<1>2. TypeOK
  BY DEF ServerInv
<1>3. \A n \in Channel : IF sockets[n] > 0
                         THEN n \in Readable /\ sockets[n] - 1 \in 0..MaxQueued
                         ELSE n \notin Readable /\ sockets[n] = 0
  <2>1. \A n \in Channel : sockets[n] \in 0..MaxQueued
    BY <1>2 DEF TypeOK
  <2>2. QED
    BY <2>1, NoneIsNone DEF Readable
<1>4. \A c \in Datagram : TasksOf(c) \in 0..MaxQueued
  BY <1>1, <1>2, TasksOfFacts, NoneIsNone
<1>5. TypeOK'
  <2>1. sockets' \in [Channel -> 0..MaxQueued]
    BY <1>1, <1>3, NoneIsNone
  <2>2. tasks' \in [Datagram -> 0..MaxQueued]
    BY <1>1, <1>4
  <2>3. QED
    BY <1>1, <1>2, <2>1, <2>2 DEF TypeOK
<1>6. FreshInv'
  <2>1. \A n \in Channel : sockets[n] = 0 => sockets'[n] = 0
    BY <1>1, <1>3
  <2>2. QED
    BY <1>1, <2>1 DEF ServerInv, FreshInv
<1>7. DatagramInv'
  <2>1. \A n \in Channel : sockets'[n] > 0 => sockets[n] > 0
    BY <1>1, <1>3
  <2>2. ASSUME NEW c \in Datagram, tasks'[c] > 0
        PROVE  NumberOf(c) # None
    <3>1. tasks[c] > 0 \/ \E n \in Readable : peer[n] = c
      BY <1>1, <1>2, <2>2, TasksOfFacts
    <3>2. CASE tasks[c] > 0
      BY <3>2 DEF ServerInv, DatagramInv
    <3>3. CASE \E n \in Readable : peer[n] = c
      BY <3>3 DEF ServerInv, TableInv, NumberOf, Readable
    <3>4. QED
      BY <3>1, <3>2, <3>3
  <2>3. \A c : NumberOf(c)' = NumberOf(c)
    BY <1>1 DEF NumberOf
  <2>4. QED
    BY <1>1, <2>1, <2>2, <2>3 DEF ServerInv, DatagramInv
<1>8. QED
  BY <1>1, <1>5, <1>6, <1>7, Untouched DEF ServerInv

\* The number the table has for a client with datagrams in the pool.
LEMMA NumberOfFacts ==
    ASSUME ServerInv, NEW c \in Datagram, tasks[c] > 0
    PROVE  /\ NumberOf(c) \in Channel
           /\ peer[NumberOf(c)] \in Datagram /\ IpOf[peer[NumberOf(c)]] = IpOf[c]
<1>1. IpOf[c] \in Ip
  BY NoneIsNone
<1>2. NumberOf(c) # None
  BY DEF ServerInv, DatagramInv
<1>3. NumberOf(c) \in Channel
  BY <1>1, <1>2 DEF ServerInv, TypeOK, NumberOf
<1>4. QED
  BY <1>1, <1>2, <1>3 DEF ServerInv, TableInv, NumberOf

LEMMA QueueDatagramStep ==
    ASSUME ServerInv, NEW c \in Datagram, QueueDatagram(c)
    PROVE  ServerInv'
<1> DEFINE n == NumberOf(c)
<1>1. /\ tasks[c] > 0
      /\ tasks' = [tasks EXCEPT ![c] = @ - 1]
      /\ receive_que' = [receive_que EXCEPT ![n] = Append(@, c)]
      /\ UNCHANGED <<owner, pc, target, listening, peer, ip_to_channel, ipport_to_channel,
                     sockets, send_que>>
  BY DEF QueueDatagram, appVars, tableVars
<1>2. TypeOK
  BY DEF ServerInv
<1>3. n \in Channel /\ peer[n] \in Datagram /\ IpOf[peer[n]] = IpOf[c]
  BY <1>1, NumberOfFacts
<1> HIDE DEF n
<1>4. c \in Client /\ peer[n] # None /\ peer[n] \notin Reliable
  BY <1>3, NoneIsNone
<1>5. /\ receive_que' \in [Channel -> Seq(Client)] /\ FreshInv' /\ RoutedToOwner'
      /\ \A m \in Channel \ {n} : receive_que'[m] = receive_que[m]
  BY <1>1, <1>3, <1>4, QueueGrows
<1>6. tasks[c] - 1 \in 0..MaxQueued
  <2>1. tasks[c] \in 0..MaxQueued
    BY <1>2 DEF TypeOK
  <2>2. QED
    BY <1>1, <2>1, NoneIsNone
<1>7. TypeOK'
  BY <1>1, <1>2, <1>5, <1>6 DEF TypeOK
<1>8. DatagramInv'
  <2>1. \A d \in Datagram : tasks'[d] > 0 => tasks[d] > 0
    BY <1>1, <1>2 DEF TypeOK
  <2>2. QED
    BY <1>1, <2>1 DEF ServerInv, DatagramInv, NumberOf
<1>9. NoLostWakeup'
  <2>1. ASSUME NEW t \in Thread, pc[t] = "asleep", peer[target[t]] \in Reliable
        PROVE  receive_que'[target[t]] = <<>>
    <3>1. target[t] \in Channel /\ receive_que[target[t]] = <<>>
      BY <2>1 DEF ServerInv, CallInv, Inside, Created, NoLostWakeup
    <3>2. target[t] # n
      BY <1>4, <2>1
    <3>3. QED
      BY <1>5, <3>1, <3>2
  <2>2. QED
    BY <1>1, <2>1 DEF NoLostWakeup
<1>10. QED
  BY <1>1, <1>5, <1>7, <1>8, <1>9, Untouched DEF ServerInv

-------------------------------------------------------------------------------
(* The invariant holds, and what follows from it.                             *)

LEMMA InitServer == Init => ServerInv
<1> SUFFICES ASSUME Init PROVE ServerInv
  OBVIOUS
<1>1. Created = {} /\ 1..0 = {} /\ 0 \in 0..MaxChannels
  BY NoneIsNone DEF Init, Created
<1>2. TypeOK
  <2>1. 0 \in 0..MaxQueued
    BY NoneIsNone
  <2>2. receive_que \in [Channel -> Seq(Client)] /\ send_que \in [Channel -> Seq(Reliable)]
    BY EmptySeq DEF Init
  <2>3. QED
    BY <2>1, <2>2 DEF Init, TypeOK
<1>3. NumberInv
  BY <1>1 DEF Init, NumberInv
<1>4. TableInv /\ FreshInv
  BY NoneIsNone DEF Init, TableInv, FreshInv
<1>5. DatagramInv /\ CallInv
  BY DEF Init, DatagramInv, CallInv, Inside
<1>6. RoutedToOwner /\ NoLostWakeup
  <2>1. \A i \in 1..Len(<<>>) : FALSE
    OBVIOUS
  <2>2. QED
    BY <2>1 DEF Init, RoutedToOwner, NoLostWakeup
<1>7. QED
  BY <1>2, <1>3, <1>4, <1>5, <1>6 DEF ServerInv

LEMMA StutterServer == ServerInv /\ UNCHANGED vars => ServerInv'
<1> SUFFICES ASSUME ServerInv, UNCHANGED vars PROVE ServerInv'
  OBVIOUS
<1>1. UNCHANGED <<owner, pc, target, listening, peer, ip_to_channel, ipport_to_channel,
                  sockets, tasks, receive_que, send_que>>
  BY DEF vars, appVars, tableVars, queueVars
<1>2. TypeOK'
  BY <1>1 DEF ServerInv, TypeOK
<1>3. QED
  BY <1>1, <1>2, Untouched DEF ServerInv

LEMMA NextServer == ServerInv /\ [Next]_vars => ServerInv'
<1> SUFFICES ASSUME ServerInv, Next PROVE ServerInv'
  BY StutterServer
<1>1. ASSUME NEW t \in Thread, AppThread(t)
      PROVE  ServerInv'
  BY <1>1, ThrowStep, EnterStep, TakeMessageStep, SleepStep, SendMessageStep,
     NothingDoneStep, WaitSleepsStep DEF AppThread
<1>2. ASSUME NEW n \in Channel,
             ReliableArrives(n) \/ SendThreadTakes(n) \/ DatagramArrives(n)
      PROVE  ServerInv'
  BY <1>2, ReliableArrivesStep, SendThreadTakesStep, DatagramArrivesStep
<1>3. QED
  BY <1>1, <1>2, CallStep, WakeUpStep, ChannelReadyStep, AddChannelStep, ReceiveRoundStep,
     QueueDatagramStep DEF Next

LEMMA ServerInvariant == Spec => []ServerInv
BY InitServer, NextServer, PTL DEF Spec

\* Every variable of the server keeps its type.
THEOREM ServerTypes == Spec => []TypeOK
BY ServerInvariant, PTL DEF ServerInv

\* Whatever is inserted between a call and its lookup, and although the tasks of
\* receiver_function() look a client up without the lock, a channel's queues hold
\* the messages of its own client, or of its client's address if it is unreliable.
THEOREM QueuesRoutedToOwner == Spec => []RoutedToOwner
BY ServerInvariant, PTL DEF ServerInv

\* receive() of a reliable channel does not sleep on a message, though its receive
\* thread queues and notifies without universal_lock.
THEOREM ServerNoLostWakeup == Spec => []NoLostWakeup
BY ServerInvariant, PTL DEF ServerInv

\* A thread that waits on an unreliable channel keeps the lock, so it is alone
\* inside, and nothing that takes the lock happens.
LEMMA StuckFacts ==
    ASSUME ServerInv, NEW t \in Thread, Stuck(t)
    PROVE  /\ owner = t /\ owner # None /\ target[t] \in Channel
           /\ pc[t] \in {"in receive", "asleep"}
           /\ \A u \in Thread : pc[u] \in Inside => u = t
           /\ peer[target[t]] \in Datagram /\ peer[target[t]] \notin Reliable
           /\ receive_que[target[t]] = <<>>
           /\ \A c \in Datagram : NumberOf(c) = target[t] => tasks[c] = 0
<1>1. pc[t] \in {"in receive", "asleep"}
  BY DEF Stuck, Waiting
<1>2. pc[t] \in Inside
  BY <1>1 DEF Inside
<1>3. QED
  BY <1>1, <1>2, OneInside, NoneIsNone DEF Stuck, ServerInv, CallInv, Created

\* Nothing gets a stuck thread out of its call.
LEMMA StuckStays ==
    ASSUME ServerInv, NEW t \in Thread, Stuck(t), [Next]_vars
    PROVE  Stuck(t)'
<1>1. TypeOK
  BY DEF ServerInv
<1>2. ASSUME UNCHANGED <<target, peer, ip_to_channel, tasks, receive_que>>,
             pc'[t] \in {"in receive", "asleep"}
      PROVE  Stuck(t)'
  BY <1>2 DEF Stuck, Waiting, NumberOf
<1>3. ASSUME NEW u \in Thread, NEW op \in Operations, NEW x \in Reliable \cup Channel,
             Call(u, op, x)
      PROVE  Stuck(t)'
  <2>1. u # t
    BY <1>3, StuckFacts DEF Call
  <2>2. pc'[t] = pc[t] /\ target'[t] = target[t]
    BY <1>1, <1>3, <2>1 DEF Call, Go, TypeOK
  <2>3. UNCHANGED <<peer, ip_to_channel, tasks, receive_que>>
    BY <1>3 DEF Call, tableVars, queueVars
  <2>4. QED
    BY <2>2, <2>3 DEF Stuck, Waiting, NumberOf
<1>4. ASSUME NEW u \in Thread, Throw(u) \/ Enter(u) \/ SendMessage(u) \/ WaitDone(u)
                               \/ WaitSleeps(u)
      PROVE  FALSE
  BY <1>4, StuckFacts DEF Throw, Enter, SendMessage, WaitDone, WaitSleeps
<1>5. ASSUME NEW u \in Thread, TakeMessage(u) \/ CloseReturns(u)
      PROVE  FALSE
  <2>1. pc[u] \in Inside
    BY <1>5 DEF TakeMessage, CloseReturns, Inside
  <2>2. u = t
    BY <2>1, StuckFacts
  <2>3. QED
    BY <1>5, <2>2, StuckFacts DEF TakeMessage, CloseReturns
<1>6. ASSUME NEW u \in Thread, Sleep(u) \/ WakeUp(u)
      PROVE  Stuck(t)'
  <2>1. u = t
    BY <1>6, StuckFacts DEF Sleep, WakeUp, Inside
  <2>2. pc'[t] \in {"in receive", "asleep"}
    BY <1>1, <1>6, <2>1 DEF Sleep, WakeUp, Go, TypeOK
  <2>3. UNCHANGED <<target, peer, ip_to_channel, tasks, receive_que>>
    BY <1>6 DEF Sleep, WakeUp, tableVars, queueVars
  <2>4. QED
    BY <1>2, <2>2, <2>3
<1>7. ASSUME NEW c \in Client, ChannelReady(c)
      PROVE  Stuck(t)'
  BY <1>2, <1>7, StuckFacts DEF ChannelReady, appVars, tableVars, queueVars
<1>8. ASSUME AddChannel \/ ReceiveRound
      PROVE  FALSE
  BY <1>8, StuckFacts DEF AddChannel, ReceiveRound, LockFree
<1>9. ASSUME NEW n \in Channel, SendThreadTakes(n) \/ DatagramArrives(n)
      PROVE  Stuck(t)'
  BY <1>2, <1>9, StuckFacts DEF SendThreadTakes, DatagramArrives, appVars, tableVars
<1>10. ASSUME NEW n \in Channel, ReliableArrives(n)
       PROVE  Stuck(t)'
  <2>1. /\ peer[n] \in Reliable
        /\ receive_que' = [receive_que EXCEPT ![n] = Append(@, peer[n])]
        /\ pc' = [u \in Thread |->
                    IF pc[u] = "asleep" /\ target[u] = n THEN "in receive" ELSE pc[u]]
        /\ UNCHANGED <<target, peer, ip_to_channel, tasks>>
    BY <1>10 DEF ReliableArrives, NotifyReceiver, tableVars
  <2>2. target[t] \in Channel \ {n}
    BY <2>1, StuckFacts
  <2>3. receive_que'[target[t]] = receive_que[target[t]]
    BY <1>1, <2>1, <2>2 DEF TypeOK
  <2>4. pc'[t] = pc[t]
    BY <2>1, <2>2
  <2>5. QED
    BY <2>1, <2>3, <2>4 DEF Stuck, Waiting, NumberOf
<1>11. ASSUME NEW c \in Datagram, QueueDatagram(c)
       PROVE  Stuck(t)'
  <2>1. /\ tasks[c] > 0
        /\ tasks' = [tasks EXCEPT ![c] = @ - 1]
        /\ receive_que' = [receive_que EXCEPT ![NumberOf(c)] = Append(@, c)]
        /\ UNCHANGED <<pc, target, peer, ip_to_channel>>
    BY <1>11 DEF QueueDatagram, appVars, tableVars
  <2>2. NumberOf(c) # target[t]
    <3>1. \A d \in Datagram : NumberOf(d) = target[t] => tasks[d] = 0
      BY StuckFacts
    <3>2. QED
      BY <2>1, <3>1
  <2>3. receive_que'[target[t]] = <<>>
    BY <1>1, <2>1, <2>2, StuckFacts DEF TypeOK
  <2>4. \A d \in Datagram : NumberOf(d) = target[t] => tasks'[d] = 0
    BY <1>1, <2>1, <2>2, StuckFacts DEF TypeOK
  <2>5. QED
    BY <2>1, <2>3, <2>4 DEF Stuck, Waiting, NumberOf
<1>12. ASSUME UNCHANGED vars
       PROVE  Stuck(t)'
  BY <1>2, <1>12, StuckFacts DEF vars, appVars, tableVars, queueVars
<1>13. ASSUME NEW u \in Thread, AppThread(u)
       PROVE  Stuck(t)'
  BY <1>4, <1>5, <1>6, <1>13 DEF AppThread
<1>14. QED
  BY <1>3, <1>6, <1>7, <1>8, <1>9, <1>10, <1>11, <1>12, <1>13 DEF Next

\* receive() keeps universal_lock while it sleeps, and the thread that reads the
\* unreliable sockets takes it: once nothing is queued or on its way, for good.
THEOREM ServerStuckForGood == Spec => StuckForGood
<1>1. ServerInv /\ [Next]_vars => [\A t \in Thread : Stuck(t) => Stuck(t)']_vars
  BY StuckStays
<1>2. QED
  BY <1>1, ServerInvariant, PTL DEF Spec, StuckForGood
===============================================================================
