# OneToManyProtocol: models, checks and proofs

TLA+ models of the C++ library in `src/`: a "one to many" protocol that gives
each client of a server a reliable channel over UDP (or an unreliable one), with
a thread pool and a table of channels in the server. The models are translated
from the source; the repository has no specification, only the comments of
`src/api_mockup/` and the programs of `src/` and `src/test/` that use the
library.

- `PROJECT.json` lists the components, the runs, the lines each definition
  stands for, the hazards, the findings and the theorems.
- `tlc -workers 2 -config X.cfg M` repeats a run (the table below names both),
  `tlapm M.tla` the proofs of `ReliableChannelProofs`, `DatagramsProofs`,
  `ThreadPoolProofs`, `HandshakeProofs`, `ServerProofs` and `PacketCodec`.

## The system

| Component | Source | State it keeps | Operations | Module |
|---|---|---|---|---|
| Reliable channel | `channel/reliable_channel.cpp`, `channel/channel.h` | `send_que`, `window`, `acks_to_send`, `receive_que`, `last_seq`, `last_received_seq`, `last_ack_time`, `active`, the flags of `close()` | `send`, `receive`, `close`, and the threads `send_function` and `receive_function` | `ReliableChannel`, abstractly `ReliableLink` |
| Thread pool | `thread_pool/` | `tasks`, `stop`, `workers` | `enqueue`, the workers' loop, the destructor | `ThreadPool`, abstractly `Executor` |
| Handshake | `client/reliable_connection.cpp`, `server/reliable_connection.cpp`, `listen_server` in `server/server.cpp` | the client's channel and `dest_addr`, the listening socket, `channel_count`, `channels`, `ipport_to_channel` | `reliable_connect_to_one`, `listen_server`, `handle_new_reliable_connection`, `wait_for_ipport(_list)` | `Handshake` |
| Server threads and tables | `server/server.cpp`, `server/server.h`, `channel/unreliable_channel.cpp` | `universal_lock`, `channels`, `ip_to_channel`, `ipport_to_channel`, the unreliable channels' sockets and queues, the tasks in the pools | `receive_from_channel(_by_ipport)`, `close_by_ippport`, `wait_for_ipport`, `create_new_unreliable_channel`, `handle_receive_packet`, `receiver_function`, `send_to_channel(_by_ipport)` and the calls that take lists | `Server`; the pools and the unreliable channels in `Datagrams` |
| Client facade, unreliable client | `client/client.cpp` | one channel, or `serv_addr` | `init`, `connect_to_server`, `send`, `receive`, `close` | `Datagrams`; of a reliable client the calls are those of its channel |
| Packet codec | `utils/xdr_serialization.cpp`, `utils/protocol_structs.h` | none | `xdr_packet_data`, the sizes of the buffers | `PacketCodec` |
| Network, lossy router | `router/drop.py`, `docker-compose.yml` | packets in flight | loses, repeats, reorders | environment of `ReliableChannel`, `Handshake` and `Datagrams` |
| Programs, tests, mock-up, examples | `udp_*.cpp`, `otm_*.cpp`, `tcp_*.cpp`, `test/`, `api_mockup/`, `examples/` | none of the protocol's | straight-line uses | not modelled; quoted by the findings |

How they interact. A reliable channel has two threads of its own and talks to
its peer through a socket. On the server each channel's receive thread fills
`receive_que` without `universal_lock`; everything that looks a channel up takes
`universal_lock`, and `receive` and `close` go on to wait for the channel with
the lock in their hands. The listen thread handles one new client at a time and
needs `universal_lock` to insert its channel; the receive thread needs it to
read datagrams, which it hands to the receivers pool, whose tasks queue them
without a lock on the tables.

What is hard about it: three locks taken together on the send side and apart on
the receive side; a window that is sent again on a timer; bare acknowledgements
that borrow the number of the last message; a queue that is popped without
asking whether it is empty; a client whose destination changes while its send
thread runs; clients that die in the handshake or come back; waiting with a lock
that others need; tables read without the lock; buffers that a task reads long
after the call that named them. `PROJECT.json` lists each of these as a hazard, at its line.

What makes each part correct:

- channel: every message is delivered once, in order and unchanged; a message
  leaves the window only when the other end has it; what is sent is delivered;
- pool: an accepted task is run once, nobody sleeps while a task waits, and the
  destructor leaves nothing behind;
- handshake: one channel a client, its own, registered after it confirmed it;
  every client that asks is served;
- server: messages reach the channel of their sender, and the client they are
  meant for; nobody sleeps on a message that is there; a call that waits does not
  keep the others from going on;
- unreliable service: a client talks to a channel of its own; the tasks of the pools
  queue what it sends where the server looks for it; what it gets is what was sent to it;
- codec: what fits is encoded, what is encoded is decoded, and nothing is written
  outside a buffer.

## The modules

### ReliableLink and ReliableChannel

`ReliableLink` is the promise: two histories for each end, `sent` and `read`,
and `Receive` may only return the next message that the other end was given.

`ReliableChannel` is both ends with all their threads. An action is a critical
section of the source:

- `Send`, `Receive`, `CloseCall`, `CloseReturn`, `Exit`: the application.
  `active` only changes what is printed, so it is left out.
- `SendNew`, `Resend`, `SendAck`, `SendGarbageAck`: one pass of
  `send_function()`, which holds its three locks throughout. `SendNew` is the
  branch that takes a message from `send_que`, alone or followed by a resend of
  the whole window (line 144: the second look at the clock). `Resend` is a pass
  with a full window or nothing new. Passes that do nothing are stuttering. The
  clock is not modelled: the timer may or may not have expired at any pass.
- `Recvfrom`, `PopWindow`, `Enqueue`: `receive_function()`, which gives up
  `window_lock` before it takes the other two, so that a pass of the send thread
  may come in between. `last_received_seq` is written under
  `acks_to_send_lock`, which the send thread holds when it reads it.
- `net[e]` are the packets in flight to `e`. Each packet of a pass may be lost
  on its own; a packet that is delivered may stay to be delivered again; the set
  has no order.

Two constants stand for the two places where the source leaves its outcome open.

- `Lock3Deferred` has the values that `lock3_deferred`, which no step changes, may
  begin with. FALSE is the source as it is: `lock3` (line 82) lacks the
  `std::defer_lock` of its neighbours, so it owns `send_que_lock` when
  `std::lock` (line 84) tries to lock it, which throws
  `resource_deadlock_would_occur`; nothing catches that and the process aborts.
  No other behaviour of the program could be studied with it, so most runs have
  only TRUE and say what holds once the defect is out of the way; `channel_live`
  has both. The theorems hold for both.
- `Garbage` is what `acks_to_send.front()` may yield on an empty deque (line
  161). `pop_front()` then moves the deque's start past its end; `deficit`
  counts how far. From there `empty()` is false, further pops go further, and a
  push closes the gap by one. At any point past the end the deque may leave its
  last node, which crashes the process (`SendThreadCrashes`).

`SendThreadCrashes` is the one action coarser than the code: it may happen at any
deficit, because where in its node the deque stands is left out.

`Greeting` is the message the client sent to the listening socket: when the
server's channel is created, with `last_received_seq` 1, the client still has it
in its window.

### ThreadPool

`tasks`, `stop` and the workers' states are the code's; `notifying` holds the
calls of `enqueue()` that have let go of `queue_mutex` and not yet called
`notify_one()`. `WakeUp` is a spurious return of `wait()`. The rest are
histories (`accepted`, `rejected`, `started`, `finished`). A thread that calls
`enqueue()` is supposed to be done with the pool when the destructor returns, as
C++ requires.

`Executor` is what a pool promises its callers, without a queue, a lock or a
worker: tasks start in the order they were accepted, no more at a time than there
are workers, each is run to its end, and the pool is gone only when all are.
`ThreadPool` implements it, its fairness included (`ExecutorSpec`).

### Handshake

Clients (with `reliable_connect_to_one()` from start to return, `main`
returning, crashing, and starting again from the same ip:port), the listen
thread (`listen_server()` and `handle_new_reliable_connection()`, in which it
waits for the client's "ok"), and a thread in `wait_for_ipport_list()`. The
channels are those of `ReliableChannel`, reduced to what two messages need: the
window is the interval from `acknowledged` to `last_seq`, only the first message
received is kept, and a packet is handled in one step. What the idle pass reads past the
end of `acks_to_send` is in them as it is in `ReliableChannel` (`SendGarbageAck`,
`Garbage`, `deficit`). A client that the read crashes is a client that crashes
(`ClientCrash`); a server that it crashes takes no more steps, which every behaviour of
`Spec` may do. A channel's number stands for its port.
`toListener` is a set of clients because the listening socket only looks at
where a packet comes from.

### Server

The threads of the application (`receive`, `send`, `close`, `wait`), the listen thread
at the moment it inserts a channel, the receive thread and the tasks of the
receivers pool, around `universal_lock`. A critical section that waits for
nothing is one step; one that waits keeps `owner`. `ReliableArrives` stands for
the receive thread of a reliable channel, whose inner life is
`ReliableChannel`'s; `ChannelReady` for a handshake that has come to its
insertion. `receive_que` records who a message comes from and `send_que` who it is meant for.
A call looks its channel up when it has the lock and not when it is made, so that
channels may be inserted in between. A send to an unreliable channel becomes a task of
the senders pool, which is the subject of `Datagrams`.

### Datagrams

The unreliable service from end to end. A client sends one "0" to the listening
socket (`Connect`), takes the sender of the first datagram that comes for the
server's channel (`Connected`) and then sends and receives; its `socket()` or `sendto()`
may fail and the call throw (`ConnectThrows`); it may end and start again from its address
(`Restart`). The listen thread opens a socket for whoever
asked (`ListenServer`), answers from it (`HandleNewConnection`) and then inserts the
channel. The insertion alone is split (`BeginInsert`, `EndInsert`), because it is
what the tasks of the receivers pool, which take no `universal_lock`, can see half
done: `ReceiverFunction` then has three outcomes, to find the channel, to miss it
(the exception stays in the task's future) and to take the null pointer that a lookup
in `channels` makes (the server crashes). `SendToChannel` makes a task of the senders
pool, of which one channel may have several, and `SenderTask` reads the caller's buffer when it runs; `Fill` is the
application writing to that buffer.

`peer` gives the client each socket was opened for; a channel's number also stands for
its socket. `given` and `refilled` are histories. Messages of clients are all alike,
because the server does not look into them, and a client's `close()` sends one more.
A copy of a datagram that waits in the receivers pool is as good as lost.

### PacketCodec

`xdr_packet_data()`, the sizes around it and the bytes on the wire, with no state: `Copies`
(the `memcpy()` of `create_packet()` stays inside its buffer), `Encodes` (`xdr_bytes()`
and the buffer of 1060 bytes have room), `Terminates` (the byte that
`receive_function()` writes after the payload is inside its buffer). `xdr_encode` is the
datagram that `serialize_and_send()` sends: six integers, the length twice, of four bytes
each (`Octet`), the payload and its padding; or, when `xdr_bytes()` has no room, the
integers alone, since the code sends what has been written so far. `receive_buffer` is the
cleared buffer that `recvfrom()` fills, `Decodes` whether `xdr_packet_data()` returns TRUE
for it, and `xdr_decode` what it then leaves in the packet. There is nothing to run; three
theorems say what holds for every length and every packet.

## The runs

| Run | Config, module | Instance | Shows |
|---|---|---|---|
| channel_both_ways | `ChannelBothWays.cfg`, `MCReliableChannel` | two messages one way and one the other, window 2, one packet in flight to each end | `InOrderExactlyOnce`, `NothingForgotten`, `AckNeverAhead`, and `LinkSpec`: the channel implements `ReliableLink` |
| channel_garbage | `ChannelGarbage.cfg`, `MCReliableChannel` | two messages one way, two packets in flight to the server and one to the client, which may call `close()` and leave; 9 is read past the end of `acks_to_send` | `TypeOK`, `OrderSurvivesGarbage`: loss is possible, disorder and repetition are not |
| channel_live | `ChannelLive.cfg`, `MCReliableChannel` | the greeting and two messages one way, window 2, fair threads and network, `lock3` deferred or not | `WindowDelivered` |
| channel_as_written_delivery | `ChannelAsWrittenDelivery.cfg`, `MCReliableChannel` | `lock3` as the source has it | counterexample to `SentIsDelivered` |
| channel_garbage_loses | `ChannelGarbageLoses.cfg`, `MCReliableChannel` | 0 or 9 is read past the end | counterexample to `InOrderExactlyOnce` |
| pool | `Pool.cfg`, `MCThreadPool` | 2 workers, 3 tasks | `TypeOK`, `EachTaskOnce`, `NoLostWakeup`, `JoinedIsDrained`, `AcceptedIsRun`, `StopEnds`, and `ExecutorSpec`: the pool implements `Executor` |
| handshake_safety | `HandshakeSafety.cfg`, `MCHandshake` | a client, started at most twice, that may crash or leave; both ends read 0 past the end of `acks_to_send`, at most twice each | `TypeOK`, `OneChannelPerClient`, `RegisteredHasConfirmed`, `NotAbandoned`, `RegisteredForGood` |
| handshake_live | `HandshakeLive.cfg`, `MCHandshake` | 2 clients, no crash, a thread that waits for both | `NoLostWakeup`, `NotCrossed`, `AllServed` |
| handshake_dead | `HandshakeDead.cfg`, `MCHandshake` | 2 clients, one may crash | counterexample to `AskingIsTold` |
| server_safety | `ServerSafety.cfg`, `MCServer` | 2 threads, two reliable clients, two unreliable ones, one of them at an address of its own, 2 channels, 2 messages in each queue | `TypeOK`, `RoutedToOwner`, `NoLostWakeup`, `StuckForGood` |
| server_lock_kept | `ServerLockKept.cfg`, `MCServer` | 1 thread, two reliable clients | counterexample to `ConfirmedIsInserted` |
| datagrams | `Datagrams.cfg`, `MCDatagrams` | 2 unreliable clients at different addresses, one of which may start again, 2 channels, with 2 tasks in the senders pool for the first, 2 texts, 2 datagrams in flight | `TypeOK`, `ConnectedToOwn`, `ComingWasSent`, `QueuedByAddress`, `AloneIsExact`, `StrandedForGood` |

Deadlock is not checked: the system may stop. Processes exit and abort, a pool is
joined, all tasks are run, every channel of the bound has been made.

### Bounds and why they are enough

- `MaxSend` (2 and 1, 3 in the liveness run) with `MaxWindow` 2: the window can
  hold two messages, be full while a third waits in `send_que`, and empty in one
  go or one by one; two numbers are enough for a gap, a repetition and a
  reordering. The theorems are free of the bound.
- `NetCap` 2 (`channel_garbage` towards the server, `datagrams`), or 3
  (`handshake_safety`), lets two packets of different
  content overtake each other and come again. With 1, as in the two larger
  instances of the channel and the liveness run of the handshake, packets still
  arrive out of order, after a loss and a resend, and come again, but a copy does
  not outlive a later packet. Later packets are lost, which the network may do in
  any case.
- `MaxAcks` bounds `acks_to_send` by keeping the receive thread waiting, which
  removes behaviours in which the queue is longer; one entry already outlives the
  pass that should have sent it.
- `MaxDeficit` 1: one read past the end. It is 0, and the idle pass sends only
  acknowledgements it has, in `channel_both_ways` and `channel_live` and in the handshake's
  runs with two clients; `handshake_safety` has 2. In the source a node of the deque has
  128 numbers, after which the process crashes, as the model's may at once.
- `Garbage` {9}: larger than any number in use, the only kind that acknowledges
  what the other end lacks. {0}: a number that acknowledges nothing, as does every number
  that is not positive, the only kind with which the handshake gives a client one channel.
- Pool: two workers are needed for a notification to reach the wrong one, three
  tasks for the queue to be longer than the sleepers.
- Handshake: the liveness run has two clients, so that one waits while the listen thread
  serves the other and their channels could be mistaken for each other, and the thread in
  `wait_for_ipport_list()`. The safety run has one client, two lives of its address and
  more packets in flight: clients share nothing but the listen thread and the tables. Three
  channels are more than it should be given. The theorems are for any number of clients.
- Server: two threads of the application suffice for one to keep what another
  needs; `MaxChannels` 2 lets any two clients, alike or not, have channels, and the
  same unreliable client two; `MaxQueued` 2 lets messages of two clients meet.
- Datagrams: two clients and two channels, so that the tables are written while
  datagrams for the first channel are in the pool, and so that a client that starts
  again can have both; two tasks for one channel, so that one can read the buffer before
  and one after it is written over; two texts, one to be sent and one to be written over it. The
  theorems are free of these bounds.

### Fairness, and why the code justifies it

- Threads go on: both threads of a channel loop without an exit
  (`WF(SendThread)`, `WF(PopWindow \/ Enqueue)`), workers, the listen thread and
  `main` likewise. The send thread's weak fairness also says that the resend
  timer keeps expiring, since each pass reads the clock anew. Nothing obliges an
  application to send, receive, close or leave.
- The network: a message that is sent for ever arrives now and then (`SF(Reaches)`,
  `SF` of `Recvfrom` of a packet that carries the message). That is what
  `drop.py`, which drops one packet in a hundred, does, and without it no protocol
  delivers anything. The network moreover does not repeat the packets it has for
  ever, so that the bounded set of packets in flight has room again; in `Handshake`
  `socket()` and `bind()` do not fail for ever.
- The server's runs assume that `universal_lock` passes over no thread for ever
  (strong fairness of the steps that take it). C++ mutexes do not promise this;
  the counterexample of `server_lock_kept` is there in spite of the assumption.
- Pool: the tasks of the server neither block nor wait for other tasks.

## What the checks found

Disagreements of the code with its own programs and comments; each is a run.

1. `channel_as_written_delivery`: `std::lock` over the owned `lock3` throws on the
   first pass of every send thread (`reliable_channel.cpp:84`).
2. `channel_garbage_loses`: the number read past the end of `acks_to_send`
   (`reliable_channel.cpp:161`) may acknowledge messages the other end has not
   had; they are lost, and bare acknowledgements with their numbers are accepted as
   empty messages. The same two lines walk the deque past its end until the
   process crashes: an idle end does not live long.
3. `handshake_dead`: the listen thread waits in `receive()` for the "ok" of a
   client that has died and serves nobody else (`server/reliable_connection.cpp:59`).
4. `server_lock_kept`: `receive_from_channel_by_ipport()` keeps `universal_lock`
   while it waits (`server.cpp:76`), and no confirmed client can be inserted.

Seen while modelling, reachable in the modules, and without a run of their own:

- `close()` waits for two flags that no line sets, and so does not return unless
  they, uninitialised, happen to be set (`reliable_channel.cpp:257`).
- A client that ends and starts again from its address is never answered once it
  is registered (`server/reliable_connection.cpp:16`).
- A client that starts again may take a bare acknowledgement of its first life,
  which has the number 1, for the server's answer; `stoi("")` then throws
  (`client/reliable_connection.cpp:25`).
- `main` may return when "ok" is queued and not sent; the listen thread then
  waits for it as for a dead client (`udp_client.cpp:70`).
- A `receive` on an unreliable channel with nothing queued never returns:
  `StuckForGood` states it, as a property that holds.
- An unreliable client whose "0" is lost waits for ever, since `recvfrom()` has no
  timeout and nobody asks again (`client.cpp:56`): `StrandedForGood`.
- The insertion of a second channel may crash the server: a task that has found the
  new number in `ip_to_channel` before `channels` has it takes a null pointer
  (`server.cpp:57`, `:220`). In `Datagrams` this is the last outcome of
  `ReceiverFunction`, which sets `crashed`; nothing in the repository says that the server
  survives, so that there is no statement for a run to refute.
- A "0" that arrives twice, or a client that starts again, makes a second channel for
  an address. The client may go on with the first while what it sends is queued on the
  second (`server.cpp:220`). `ConnectedToOwn` and `QueuedByAddress` are what is left, and
  `AloneIsExact` what holds as long as there is no second channel.
- A task of the senders pool sends what the buffer holds when it runs
  (`server.cpp:168`): a caller that fills it again sends the later text twice and the
  earlier never.
- A payload of 1036 bytes is encoded and sent, and the receiver writes the terminating
  byte one past its buffer (`reliable_channel.cpp:203`): `LongestOverruns`. When
  encoding fails (`reliable_channel.cpp:54`) `create_packet()` has overrun its buffer
  before: `CopiedEncodes`. What is then sent is the integers without the payload, which the
  receiver refuses and drops (`reliable_channel.cpp:198`): `RoundTrip`.
- `receive()` of an unreliable client reads no more bytes than it last sent
  (`client.cpp:71`); the rest of a longer datagram is gone.
- The branch of `send_to_channel_by_ipport()` for unreliable channels
  (`server.cpp:197-203`) is never taken: `ipport_to_channel` only has reliable ones.

## The proofs

`ReliableChannelProofs` proves about `ReliableChannel`, for every value of its
constants that satisfies `ChannelAssumption` (any set of messages, any window,
any bounds, both values of `lock3_deferred`):

| Theorem | States |
|---|---|
| `TypeInvariant` | `Spec => []TypeOK` |
| `OrderTheorem` | `Spec => []OrderSurvivesGarbage`, for any `Garbage` |
| `ExactlyOnceTheorem` | `Spec => []InOrderExactlyOnce` if `HarmlessGarbage` |
| `AckTheorem` | `Spec => []AckNeverAhead` if `HarmlessGarbage` |
| `NothingForgottenTheorem` | `Spec => []NothingForgotten` if `HarmlessGarbage` |
| `LinkTheorem` | `Spec => Link!Spec` if `HarmlessGarbage` |

`HarmlessGarbage` says that every number of `Garbage` is at most 0. It is a
hypothesis of those theorems and not an assumption on the constants: without it
they are false, as `channel_garbage_loses` shows.

The argument. None of the properties is inductive: they say nothing of the
packets in flight. `OrderInv` adds that what is queued to be sent is the end of
`sent`, that the window holds the messages numbered up to `last_seq` with no
gap, that what has been accepted has `last_received_seq` entries, and that every
packet in flight or in hand with the number k carries the k-th message or is
empty and numbered at most `last_seq`. That is enough for order, whatever is
acknowledged. `ExactlyInv` adds that no acknowledgement (in flight, in hand or in
`acks_to_send`) is above what its sender has accepted, and that an empty packet
with number k exists only when the other end has accepted k, which is why a bare
acknowledgement, that borrows the number of the last message, is never taken for
a message. Lemmas about a window and about appending to what was accepted come
first, then one lemma for each action, then the theorems. `LinkTheorem` maps
each step to a step or a stutter of `ReliableLink`; only `Send` and `Receive` are
not stutters.

`DatagramsProofs` proves every property of the run `datagrams`, for any clients,
addresses, texts and bounds that satisfy `DatagramsAssumption`: `TypeInvariant`,
`OwnTheorem` (`ConnectedToOwn`), `AloneTheorem` (`AloneIsExact`), `SentTheorem`
(`ComingWasSent`), `AddressTheorem` (`QueuedByAddress`) and the action property
`StrandedTheorem` (`StrandedForGood`). `DatagramsInv` adds to them what is true of the
datagrams in flight (a client is sent to by sockets opened for it alone, and only
clients send to the server: `NetInv`), of the tables (`IndexInv`, `PeerInv`), of who is
known to the pools (`KnownInv`: only a client that has a channel), of
channels that are not there yet (`QueueInv`) and of the tasks (`TaskInv`). Without
`NetInv` a client could connect to the socket of another. Lemmas on what is posted
and taken and on what no variable of a part has disturbed come first, then one lemma
for each action, then the theorems.

`PacketCodec` proves `CopiedEncodes` and `LongestOverruns` from the sizes alone, and
`RoundTrip` from what happens to each byte: four of them carry an integer of 32 bits,
negative or not (`IntSurvives`), those of the length are the last to be written before the
payload, and so the receiver knows of a payload that is missing.

`ThreadPoolProofs` proves about `ThreadPool`, for any finite set of workers that is not
empty and any tasks:

| Theorem | States |
|---|---|
| `PoolTypes` | `Spec => []TypeOK` |
| `TasksStartInTurn` | `Spec => []EachTaskOnce` |
| `PoolNoLostWakeup` | `Spec => []NoLostWakeup` |
| `DestructorDrains` | `Spec => []JoinedIsDrained` |
| `PoolIsExecutor` | `Spec => Abstract!Spec`: `Executor`, without its fairness |

`NoLostWakeup` is inductive only beside the other parts of `PoolInv`. `OrderInv`: the
queue is the rest of what was accepted. `HeldInv`, `DoneInv` and `CountInv`: running
workers have a task each, which has started and not finished, so that what has started is
what has finished and what is held, one for one; that is also why no more tasks run than
there are workers, which `Executor` counts and the pool does not. `StopInv`: who has
returned was told to stop and found the queue empty, whence `DestructorDrains`.
`PoolIsExecutor` maps `Enqueue` to `Accept`, `TakeTask` to `Start`, the end of a task to
`Finish` and the return of the destructor to `Destroy`; every other step is a stutter.

`HandshakeProofs` proves about `Handshake`, for any finite set of clients, any
`CountMod` and any bounds that satisfy `HandshakeAssumption`:

| Theorem | States |
|---|---|
| `HandshakeTypes` | `Spec => []TypeOK` |
| `ClientsHaveOneChannel` | `Spec => []OneChannelPerClient` if `HarmlessGarbage` |
| `ConnectionsNotCrossed` | `Spec => []NotCrossed` if `HarmlessGarbage` |
| `ClientsNotAbandoned` | `Spec => []NotAbandoned` if `HarmlessGarbage` |
| `RegisteredAreConfirmed` | `Spec => []RegisteredHasConfirmed` if `HarmlessGarbage` |
| `HandshakeNoLostWakeup` | `Spec => []NoLostWakeup` |
| `RegistrationLasts` | `Spec => RegisteredForGood` if `HarmlessGarbage` |

`HarmlessGarbage` is the hypothesis of `ReliableChannelProofs` again. A positive number read
past the end takes the "1" or the "ok" out of a window, after which a bare acknowledgement
with its number is taken for it: the server then gives up on the client and makes it
another channel, so that `OneChannelPerClient` and `NotAbandoned` are false. With 1 and 2 for
`Garbage` TLC finds counterexamples to these two in the instance of `handshake_safety`; it
finds none to the other three, but the invariant they are proved from needs the hypothesis.

What ties the client to the server is in the packets. `PacketFine` says that a packet to a
client comes from the client's own channel, that one to a channel comes from its client,
and that a second message is "ok" unless the channel has had it already; a late bare
acknowledgement, whose number is that of the last message, is then never taken for the
"ok". For that a client that thinks both its messages acknowledged must be right
(`ClientInv`: one of its channels has taken "ok", and it has one channel), which in turn
needs that no channel acknowledges more than it has taken (`ChannelInv`). Hence a channel
receives nothing but "ok", and only when its client has confirmed (`Confirmed`, which a
second process at the address makes void). `ChannelInv` also says that every channel is
registered or is the one the listen thread waits on: a client that is not registered has
none, so that none is made twice. Proofs about the tables need that `channel_count`
numbers channels apart until it comes round (`NumberFacts`); `NotCrossed`,
`NotAbandoned` and `RegisteredForGood` therefore speak of the places of the table up to
the wrap, and of the rest without that condition.

`ServerProofs` proves about `Server`, for any threads, clients, addresses and bounds that
satisfy `ServerAssumption`: `ServerTypes`, `QueuesRoutedToOwner` (`RoutedToOwner`),
`ServerNoLostWakeup` (`NoLostWakeup`) and the action property `ServerStuckForGood`
(`StuckForGood`). `ServerInv` adds that the tables name channels of the client or of the
address (`TableInv`), that nothing is queued on a channel that is not there (`FreshInv`),
that datagrams come in by unreliable channels and only from addresses in the table
(`DatagramInv`, so that a task always finds a queue to put its datagram in), that numbers
are given in turn (`NumberInv`), and that who is inside a call keeps `universal_lock`
(`CallInv`), on which `StuckForGood` rests: the thread that would bring the datagram never
gets it.

The inductive invariants were checked by TLC on the instances of the runs before they
were proved.

Only model-checked: the liveness properties (`WindowDelivered`,
`AcceptedIsRun`, `StopEnds`, `AllServed`), which rest on fairness, and the part of
`ExecutorSpec` that does: that the pool's fairness implies the executor's. The prover does
not reach fairness and `ENABLED`. Every invariant and every action property that a passing
run checks is a theorem.

## What is not modelled, and why

- The 32-bit wrap of sequence numbers, which would take 2^31 messages on a channel.
- Messages of `ReliableChannel` are not empty and fit in a packet. An empty message
  whose acknowledgement is lost is taken for a bare acknowledgement when it is
  repeated (`reliable_channel.cpp:234`); the next message that is acknowledged frees
  the window.
- Time: the timer may expire at any pass, and that `select()` lowers its timeout
  (`server.cpp:103`) is not seen.
- The lengths of texts in `Datagrams`, and what is in a message of a client.
- A crash of the server as a whole and its restart: nothing is persisted, and the
  program has no code for it.
- `send_to_all()`, whose body is commented out.
- The programs, the TCP baselines and the examples: straight-line users of the library,
  whose calls are in the actions of the application of each module.

## What is left to prove

Nothing that the runs check and the prover can state. What a further step could add: that
`Handshake`'s reduced channel implements the window of `ReliableChannel`, and that
`Server`'s `ReliableArrives` and `ChannelReady` are what `ReliableLink` and `Handshake`
promise, which are now assumed by the shape of those actions.
