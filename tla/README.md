# TLA+ models of SimpleLANSocket

SimpleLANSocket is a small C++ library for applications on one local network: a TCP server with
one session per client address, a TCP client, a packet protocol with messages and files, and a
UDP discovery pair by which clients find the server. Everything runs on a handful of threads
with mutexes and atomics; the application drives each object from its main thread through
`Tick`. The repository has no tests and no documents: the code and its comments are the
reference. File names below are short for

| short | file |
|---|---|
| `S`  | `src/Source/JostickTCPSrever.cpp`, with `src/Include/JostickTCPServer.h` |
| `C`  | `src/Source/JostickTCPClient.cpp`, with `src/Include/JostickTCPClient.h` |
| `P`  | `src/Source/JTCPProtocol.cpp`, with `src/Include/JTCPProtocol.h` |
| `D`  | `src/Source/UDPSeverDiscoverer.cpp`, with `src/Include/UDPServerDiscoverer.h` |
| `R`  | `src/Include/UDPClientReciver.h` |

## 1. The system

### Components

| component | state | operations | runs on |
|---|---|---|---|
| **Session registry** (`S`) | `sessions_` (address to session), `sessions_mutex_`, `running_`; per session `running_`, `connected_`, `work_thread_`, `socket_` | `Start`, `Stop`, `DisconnectClient`, `AcceptThread`, `WorkerThread` (reaper); `JostickTcpSession::Start`, `Stop`, `WorkerThread` | control thread, accept thread, worker threads, application threads, one thread per session |
| **Event double buffer** (`S`) | two queues, the pointers `current_event_buffer` and `free_event_buffer`, `event_mutex_` | `AddEvent`, `Tick` | all of the above; `Tick` on the main thread |
| **Session data path** (`S`) | per session `send_queue_`, `recv_queue_` | `SendMessage`, `ProcessReceivedData`, `ProcessSending`, `SendToClient`, `Broadcast`, `SendRaw` | session threads, application threads |
| **Wire protocol** (`P`) | `send_queue` (a priority queue), `next_file_id`, `receive_buffer`, `file_reassembly_map` | `sendMessage`, `sendFile`, `WorkTick` (`ProcessSendData`, `ProcessReceivedData`), `onDataReceived` | the worker of a client or of a session |
| **Client connection** (`C`) | `running_`, `socket_`, `disconnected_flag_`, `work_thread_` | `Connect`, `Disconnect`, `WorkerThread`, `SendRaw`, `IsSocketConnected` | main thread, worker |
| **Client buffers** (`C`) | two send queues, two receive queues, the four pointers, `file_send_queue_` | `SendMsg`, `SendFile`, `Tick`, `ProcessSendMsg`, `ProcessSendFile`, the receive callback | main thread, worker |
| **UDP discovery** (`D`, `R`) | `running_`, `new_ip_available_`, `ip_mutex_`; on the server `known_ips_`, `new_ips_`, `serverIP_` | `Start`, `Stop`, `Tick`, `DiscoveryLoop` | main thread and one worker, on each side |
| **Sockets and platform** | none of its own | `WSAStartup`, `setsockopt`, `SetNonBlocking`, `GetLocalIP`, `GetClientIP` | |

### How they interact

- The accept thread creates a session per connection, registers it under the address of the
  client and starts its thread. Any of the accept thread (a newer connection of the address), a
  reaper, an application thread and `Stop` may be the one to stop it.
- Session threads, reapers and application threads add events; `Tick` exchanges the two event
  queues and calls the application's handlers, which call back into the server.
- Client and session each own a `JTCPProtocol`. Its sender calls `SendRaw`, which waits while
  the peer does not read; its receive callback pushes to the buffers of the owner. One thread at
  each end both reads and writes.
- `SendMsg` pushes to one queue of the client, the worker drains the other, and `Tick` exchanges
  them. Received data goes the other way through a second pair.
- The discovery client repeats a broadcast until it is stopped; the server answers each one and
  keeps the addresses that are new for its application.

### What is hard

1. Four kinds of threads compete to stop a session, in critical sections that do not cover the
   stop itself (`S` 443-464, 522-540, 335-346).
2. `Stop` joins session threads while it holds `sessions_mutex_` (`S` 340-345).
3. `AcceptThread` looks up and inserts in two critical sections and starts the session after it
   is visible (`S` 445-467).
4. Double buffers are drained without the mutex that protects the exchange (`S` 381, `C` 139, 290).
5. The protocol reads a stream in arbitrary pieces, with packets in heap order (`P` 149-255).
6. Loss of a connection is seen in three places of the client's worker, only one of which
   reports it (`C` 245-273).
7. A session is stopped, by another thread or by the end of its connection, with messages in five
   places: two queues and the protocol on either side of it (`S` 107-215).
8. Each end reads and writes in one thread, and `SendRaw` does not return while the kernel's
   buffers are full (`S` 222-245, `C` 344-367).
9. Datagrams are lost, delayed and duplicated, and the handler runs under `ip_mutex_` (`D` 41, `R` 60).

`PROJECT.json` lists each hazard at its line with the properties that watch it.

## 2. Modules

| module | models |
|---|---|
| `JostickTcpServer` | the session registry and all its threads |
| `SessionLifecycle` | abstract: what the registry promises of each session |
| `JostickTcpServerProofs` | proofs about `JostickTcpServer`: types, and who may stop which session |
| `RegistryProofs` | proofs about `JostickTcpServer`: refinement, reports, and what is left behind |
| `JostickTcpSession` | the data path of one session, with the client at the other end |
| `JostickTcpSessionProofs` | proofs about `JostickTcpSession`: types, and the end of a session |
| `JostickTcpStreamProofs` | proofs that the stream between the two ends delivers what was written, and all of it when the client closes in order |
| `EventBuffer` | the event double buffer of the server |
| `EventBufferProofs` | proofs about `EventBuffer` |
| `EventQueue` | abstract: a first-in first-out queue; implemented by `EventBuffer` and by the client's receive buffers |
| `JTCPProtocol` | one direction of a connection: sender object, stream, receiver object |
| `JTCPProtocolProofs` | proofs about `JTCPProtocol`: what is sent is delivered intact, once, and not lost |
| `JostickTcpClient` | the client: connection, worker, both double buffers, `Tick` |
| `JostickTcpClientProofs` | proofs about `JostickTcpClient` |
| `Discovery` | both discovery classes and the network between them |
| `DiscoveryProofs` | proofs about `Discovery` |
| `MC...` | small instances for TLC |

Conventions. Variables carry the names of the members or locals they stand for; actions carry
the name of the function, with a suffix for a step of it (`Stop_Lock`, `Tick_SwapSend`). A
definition whose comment begins with "Mutant of" is not part of a specification: it is a
plausible bug in the definition that follows, kept to show that the properties notice it.

### JostickTcpServer

A critical section of `sessions_mutex_` is one step, except the one in `Stop`, which joins
threads inside: there `sessions_mutex_` is a variable and every other step that needs the mutex
waits for it. `pc` says where each thread is. `JostickTcpSession::Stop` is four steps that
any thread may be executing on its `target`: the test of `running_`, the two flags, the join,
the close. A `shared_ptr` is represented by what refers to it (`sessions_`, `target`, `fresh`);
when nothing refers to a session whose `std::thread` is joinable the process ends in
`std::terminate`, the state `Aborted`, after which nothing happens. `running_` of the server is
not initialised by the constructor: `Init` leaves it open. A session thread may be in its loop,
in `SendRaw` (which ends when the peer reads, closes, or `running_` of the session is cleared)
or about to report. What travels over the connection is the subject of `JostickTcpSession`.

### JostickTcpSession

The loop of the session's thread, step by step: `recv`, `ProcessReceivedData` (one event per
step), `ProcessSending` (the queue is taken under `send_mutex_`, then handed to the protocol
while `connected_` is set), `WorkTick` (parses, then writes one packet), `SendRaw`. The client at
the other end runs the same `WorkTick` and `SendRaw` in its own loop, so those actions have the
end as parameter. `wire[e]` is what is on its way to `e`, at most `Capacity` units, beyond which
`send` returns EAGAIN. A packet has `PacketSize` units, and unit *n* of message *m* is
`<<m, n>>`: the receiver cuts its buffer by counting, as the code does by the length in the
header, and a packet whose units do not belong together becomes `None`. A close with unread
units, and a `send` to a closed end, are answered by a reset, which throws away any suffix of
what is on its way (`cut`); otherwise what was written can be read until it is used up, and then
`recv` returns 0. It may also return EAGAIN while there are units that have not come as far as its
end. `Start` and `Stop` of a session are one step per flag change, creation of the thread, join
and close, and `Stop` may come between any two steps of `Start`: a thread that is created after
`Stop` cleared `running_` ends at its first test. `JostickTcpServer` shows that one thread stops a
session; here that thread is `stop`. `SendToClient` finds the session, tests `connected_` and pushes in three steps,
`Broadcast` holds `sessions_mutex_` and is one. `reported` and `disconnected` record the events
of the session; CONNECT is left out, and so is what becomes of the client's flags when the
connection is lost, which `JostickTcpClient` has. All packets have one priority: the queue
yields any of them.

### EventBuffer and EventQueue

`AddEvent` takes the mutex, pushes and releases it; `Tick` takes it, exchanges the pointers,
releases it, and drains. Handlers run between `Tick_Handle` and `Tick_Pop` and may call
`AddEvent`. An event is a model value. `EventQueue` is a queue with `Add` and `Deliver`; the
refinement mapping concatenates what `Tick` has taken and not handled with the other buffer.

### JTCPProtocol

Bytes are abstracted to units; unit *n* of packet *p* is `<<p, n>>`, so that a property can tell
whether what is delivered is made of what was sent. The header takes `HeaderSize` units, `recv`
returns at most `RecvMax`, and the length that reaches `SendRaw` is cut modulo `LenModulus`,
which stands for the 2^16 of the `uint16_t` in both sender lambdas (`S` 12, `C` 175). The
priority queue may yield any of its packets of the highest priority, because `operator<`
compares priorities only. A file has a size in units and `sendFile` cuts it into chunks of
`ChunkSize`, with the rounding and the `std::min` of `P` 111 and 116; a chunk packet carries
`ChunkHeader` more units (identifiers, count, name). What the properties take for the chunks of a
file is independent of that rounding: the indices at which a chunk begins before the end of the
file (`Indices`). A `sendFile` that cannot open its file returns before it changes anything, and so
is no step here. A chunk index of `total_packets` or more (`P` 205) and an unknown packet type
(`P` 239) are never sent by this sender, and the branches for them are left out.
A failing send breaks the link and may lose any suffix of what was on
its way; the packet stays in the queue, as in the code.

### JostickTcpClient

Two threads. The main thread calls `Connect`, `Disconnect`, `SendMsg`, `SendFile` and `Tick` in
any order, and its handlers may call all but `Tick`. The worker goes round its loop: `recv`,
parsing, `SendRaw`, `ProcessSendMsg`, `ProcessSendFile`, the status check. `link` is the
connection as the kernel sees it: an orderly close reads as 0 for ever, a reset is reported by
one call and reads as 0 afterwards. `ProcessSendMsg` copies `current_send_buffer` under
`send_mutex_` and drains it without. A push to the queue that is being popped from is a data
race: the model lets it succeed or damage the queue (`damaged`), after which it stops. The
variables named history record what was given to the client and in which order it was handed
to the protocol; `overrun` records that a `Tick` came before the worker was through with the
current buffer.

### Discovery

Objects are the clients' `UDPServerDiscoverer` and the server's `UDPClientReciver`; `Guest` are
addresses of which only requests are modelled. `Start`, `Stop` and the loop are the same code in
both classes. The worker waits for `ip_mutex_` in "store"; the main thread holds it while it is
in a handler. A request or an answer may be lost when it is sent; one that is received may stay
on its way. `serverIP_` is whether the server found its own address when it was constructed.

## 3. What TLC checks

| run | question | result |
|---|---|---|
| `registry_two_clients` | is a session stopped once, never overwritten or forgotten while open, never reported while still served? | holds |
| `registry_liveness` | do the threads implement `SessionLifecycle`, does `Stop` return, are dead sessions reaped, is what is removed closed? | holds |
| `one_connection_per_ip` | is an address served by one session at a time, as the comment at `S` 443 says? | violated |
| `stop_closes_all` | does `Stop` close all sessions, as the comment at `S` 339 says? | violated |
| `session_data_path` | does each end receive what the other wrote, is a session silent after DISCONNECT, what is lost at its end, and when does `SendRaw` not return? | holds |
| `event_buffer` | is the double buffer a queue, drained in private, and does `Tick` return? | holds |
| `protocol` | does everything arrive, intact and once? | holds |
| `large_message` | also a message longer than 65535 bytes, within `MAX_PACKET_SIZE`? | violated |
| `client` | is everything handed over once and in order, received in order, a loss reported once, and does `Disconnect` return? | holds |
| `client_drain` | does the worker have the queue it drains to itself? | violated |
| `client_loss` | is every loss the worker finds reported? | violated |
| `discovery` | is each address announced once, does each side learn of the other, does `Stop` return? | holds |

### Properties

*Registry.* `StopOnce`: the descriptor of a session is closed once, by one thread. `Ownership`:
the discipline behind it, see section 4. `NoOverwrite`: the second critical section of
`AcceptThread` never replaces an entry. `NoConnectionLeak`: an open descriptor is still
referred to. `LiveNotReported`: a session that `SendToClient` considers connected has no
DISCONNECT event behind it. `AtMostOneLeftBehind`, `ReportedAtMostTwice`: how far the weaker
truth goes where `StopClosesAll` fails, and where a loss is reported by two threads.
`LifecycleSpec`: accepted, registered, removed, closed, in this order and once, one session of
an address registered at a time. `StopReturns`, `Reaped`, `RemovedIsClosed`: liveness.

*Session data path.* `ArrivesOnce`: what an end receives is a prefix of what the other has
written, although `recv` cuts the stream anywhere and a packet that was written in part is put
back as a whole; each message is in one place until it was written once; and nothing is missing of
what `SendToClient` and `Broadcast` pushed as long as `connected_` is set, although they push with
and without `sessions_mutex_` while the session takes its queue away (`PushedIsKept`).
`SilentAfterDisconnect`:
no message of a session follows its DISCONNECT event, except when `Stop` came before `Start`.
`LostInLastRound`: after an orderly close by the client the session has received everything, and
of that at most what the last `recv` completed stays without an event. `SendReturns` (liveness):
a worker stays in `SendRaw` for ever only together with the other one.

*Events.* `DrainIsPrivate`, `QueueSpec` (refinement, with the fairness of `EventQueue`),
`TickReturns`.

*Protocol.* `Intact`: what is delivered was sent, complete, in chunk order and once.
`NothingLost`: each part of what was sent, down to the last byte of a file, is in exactly one place
while the link is up. `ReassemblyIncomplete`:
no reassembly entry outlives its file. `AllDelivered`: liveness, for all but empty files.

*Client.* `WorkerHasConnection`: a worker runs only for the open connection. `HandedOnce`: each
message is in one place, and files keep their order. `InOrder` and `PrivateUnlessOverrun`: what
holds until a `Tick` comes too early. `ReportedOnce`: no more reports than connections.
`ReceiveQueueSpec`: the receive buffers refine `EventQueue`. `DisconnectReturns`: liveness.

*Discovery.* `StartedWhenJoined`: no assignment to a joinable thread. `AnnouncedOnce`: each
address is new or announced, not both, and not forgotten. `FoundIsKnown`: a client does not know
a server that does not know it. `Discovered`, `StopReturns`: liveness.

`PROJECT.json` names a mutant for every property of a passing run; under it TLC finds the
property violated.

### Bounds, and why they are enough

- *Registry*: one or two addresses, one worker, one application thread, two connections. A
  conflict over a session involves an old and a new session of one address and two stoppers:
  two connections and the four kinds of threads have it. The second address separates the old
  session that a thread has in mind from the one it finds. The liveness run leaves the
  application thread out: it only removes what the others would.
- *Session data path*: two messages of the client and one of the server. A packet of three units
  does not fit into a kernel's buffer of two, so that every packet is written in part at some
  point and one message each way is enough for both ends to wait for each other; `recv` returns
  at most two units and so cuts packets, and joins the end of one with the beginning of the
  next. Two messages of one sender are what reordering, duplication and a part left over in front
  of another packet need. What is lost in the last round is bounded by a formula in `RecvMax`
  and `PacketSize`; here it is one message, and a session that skips the events of a round
  (the mutant) loses more.
- *Event buffer*: two events, two producers and the main thread, three events pending: more
  than one exchange's worth in each buffer.
- *Protocol*: an empty message, and files of three, two and no units with chunks of two, so that a
  last chunk is short, full, or missing; header of two units, up to three units per `recv`: pieces
  that end inside a header, inside data, and across a packet boundary. Two files with chunks let
  chunks of different files interleave. `Priority` has one
  value: with equal priorities the heap order is unconstrained, which includes every order
  that different priorities could produce.
- *Client*: two messages, one file, two connections, two received messages. Reordering needs two
  messages in two buffers; a stale flag needs two connections. The violation runs use what the
  violation needs.
- *Discovery*: one client and one guest. Clients share nothing but the server, where the guest
  is the other one.

### Fairness

- Threads that run are scheduled: weak fairness for each thread's steps. A step that waits for
  a mutex is disabled while it is held, and nothing says that a mutex is fair: the properties
  hold under weak fairness alone.
- `JostickTcpSession`: the two workers, the thread that stops the session once it has begun, and
  the rest of `Start` and `Disconnect`. `recv` gets something infinitely often if there is something
  to get infinitely often (strong fairness of `Receive`): EAGAIN with units on their way is a
  delay, and TCP does not delay for ever. Nobody has to send, to disconnect or to stop anything.
- Nothing makes a client connect, a peer read or an application call into the library.
  Exceptions, stated in the modules: the application keeps calling `Tick` (`EventBuffer`,
  `Discovery`), as the comments of `Tick` require ("called in the main loop", `D` 37).
- `JTCPProtocol`: TCP delivers what it accepted while the link is up.
- `Discovery`: strong fairness for the delivery of requests and answers. They are repeated
  every second without end; that some of infinitely many datagrams arrive is the least under
  which discovery can succeed. Reception needs strong fairness too because a receiver that polls
  alternates between receiving and storing.

### Deadlock

TLC checks deadlock except in four runs. In the two runs of `JTCPProtocol` the model stops when
everything was sent and parsed, or the link is down. In `session_data_path` nothing is left to do
when both ends are closed, and both workers may wait in `SendRaw`, which `SendReturns` is about. In `Discovery` an application whose handler
calls `Stop` may block for ever: see below.

## 4. What is proved

The proofs hold for every value of the constants: any number of addresses, threads,
connections, messages and clients. They assume the named assumptions of the modules only.

**JostickTcpServerProofs**, from `ThreadAssumption` (accept, control, workers and application
threads are different threads) and `BoundAssumption`.
`TypeCorrect`: `Spec => []TypeOK`. `OwnershipHolds`: `Spec => []Ownership`. `StoppedOnce` and
`NeverOverwritten` follow. `StopOnce` is not inductive: that two threads never stop the same
session rests on where a stopper got it from. `Ownership` says so: what is registered is
accepted, open and under its own address (`RegistrySound`); a stopper other than `Stop` has a
session that is no longer registered, and `Stop` has one that is registered, behind the held
mutex, and off its list (`StopperOwns`); what is still on that list is registered and open
(`StopListSound`); and the session the accept thread has in hand is known to nobody else until
it is inserted (`FreshIsPrivate`). Type correctness and ownership are proved together: the
accept thread looks up the address of the session it has in hand, which has one only by
`FreshIsPrivate`. Most steps are shown to be `Quiet`, that is to change nobody's rights; one
lemma treats them all, and one lemma each treats the seven that do.

**RegistryProofs**, on top of it. `NoneIsForgotten` (`Spec => []NoConnectionLeak`) and
`RegistryImplementsLifecycle` (`Spec => LifecycleSpec`) rest on `LifeInv`: an open descriptor is
registered, in the hand of the accept thread, or of the thread that is about to close it
(`OpenIsHeld`); what is registered behind the list of `Stop` is closed, or being closed
(`ClosedBehindStop`, `ControlTarget`), so that `Stop` removes nothing that is open when it clears
`sessions_`; and `Start` finds no thread of the last `Start` (`ThreadsAreJoined`), or it would
throw away the session that a thread has in hand. Every step is a step of `SessionLifecycle` for
one session or a stutter. `NoThirdReport` (`Spec => []ReportedAtMostTwice`) and
`ConnectedNotReported` (`Spec => []LiveNotReported`) count the reports of a session
(`ReportsCounted`): one is its thread's, which ends with it, and one is its remover's, which lets
the session go with it and is the only one to have it (`RemoverOwns`). `StopLeavesOne`
(`Spec => []AtMostOneLeftBehind`): after `Stop` has cleared `sessions_` the accept thread can
insert only while nothing is registered (`LeftOver`), because `running_` stays clear until
`Stop` has returned (`StopBegun`).

**EventBufferProofs**, from no assumption. `BufferInvariant`:
`Spec => []BufferInv`, from which `BufferTypes`, `DrainedInPrivate` and `BufferIsQueue`, the
refinement of `EventQueue` without its fairness: what is drained is the buffer that was free
at the exchange, and it is empty when the buffers are exchanged again, so an exchange does not
change the order in which events leave.

**JostickTcpClientProofs**, from `BoundAssumption`. `ClientInvariant`: `Spec => []ClientInv`,
from which `ClientTypes`, `WorkerRunsWithConnection`, `LossReportedOnce`,
`DrainPrivateUnlessOverrun` and `MessagesInOrder`. `ReportedOnce` becomes inductive as
`LossesCounted`: every connection accounts for one report that was made, is due, or is still to
come. `InOrder` needs `PrivateUnlessOverrun`, by which the queue the worker pops from is the one
that comes first. `TypeOK` needs that the front of the receive buffer is there while its handler
runs (`FrontIsHandled`). `MessagesHandedOnce` (`Spec => []HandedOnce`) needs no such premise: a
`Tick` that comes too early changes the order and not the number. It rests on `SentInv`: a
buffer holds only numbers that were given out (`GivenOut`), so the next one is new; what an
append adds to the occurrences of a number and what a removal of the front takes away are lemmas
about finite sets of positions. `ReceiveBuffersAreQueue` (`Spec => ReceiveQueueSpec`) is the
refinement of `EventQueue` by the receive buffers, all of it, as that specification states no
fairness: the callback of the worker is `Add`, the call of `on_message_` is `Deliver`, all other steps
stutter. The exchange in `Tick` changes nothing because the buffer it gives away is empty
(`TakenIsHandled`), `Tick` having drained it the last time. Lemmas about sequences carry the
concatenations.

**DiscoveryProofs**, from `AddressAssumption`. `DiscoveryInvariant`: `Spec => []DiscoveryInv`,
from which `DiscoveryTypes`, `ThreadsAreJoined`, `NoSecondAnnouncement` and `FinderIsKnown`. That a client found
in `answers` is known needs that the address the server has in hand is not forgotten: only a
restart under a running worker could, and `StartedWhenJoined` excludes it.

**JostickTcpSessionProofs**, from `SizeAssumption`. `SessionTypes`, with `SessionTypeOK`: a worker
that is in `SendRaw` has a packet and units left of it (`WriterHasPacket`), or `TypeOK` would not
be kept. `StopperWaitsForThread`, and from it `NoMessageAfterDisconnect`: once the session is
being closed its thread has finished, or was not created by then and finds `running_` cleared, or
`Stop` came before `Start`, which leaves `running_` set.

**JostickTcpStreamProofs**, on top of it. `MessagesArriveOnce`: `Spec => []ArrivesOnce`, for packets
of any length, any `RecvMax` and any `Capacity`. `ArrivesOnce` speaks of whole messages and is far
from inductive, since the stream consists of units. The invariant is about what lies between two
ends, the receive buffer followed by the wire: `Flows` says that its whole packets are the next
ones in `written`, in order; `EndsIn` says how it ends, with the units of the packet in hand that
`SendRaw` has got rid of, while the connection can still be written to. When it cannot, because
an end was closed, `running_` was cleared or a reset has cut the stream, only `Flows` is left,
and nothing is written any more (`Streams`). `Numbered` says that what waits in the queues of the
session are the numbers of the messages pushed, each once; with it `MessagesKept` shows that no
message is given to the protocol or written twice. `PushedMessagesKept` (`Spec => []PushedIsKept`)
rests on `NothingDropped`: nothing is pushed before `connected_` is set, and `ProcessSending` has
emptied the queue it took before it takes the next. The first part of the module is about
sequences alone: what parsing, cutting, receiving and appending do to `Flows` and `EndsIn`.
The last part is `ClosedSessionGotAll` (`Spec => []LostInLastRound`), from `LastInv`. `Flows` says
only that nothing false arrives; that everything does is `AllThere`: while the session has its
descriptor and no reset has cut the stream, what it received and the units on their way to it make
up all that was written. `close` by the client keeps it, as what is on the wire stays there or is
cut. `LastRead`: the thread leaves its loop by itself only when the wire is empty and the client
has closed. `Rounds`: `WorkTick` leaves less than a packet in the receive buffer, `recv` adds at
most `RecvMax`, and `ProcessReceivedData` has run between two of them; so what is left at the end
is less than a packet, and what has no event is what one round can parse.

**JTCPProtocolProofs**, from `SizeAssumption` and `FileAssumption` (finitely many files). The
theorems have the premise `Fits`, a condition on the constants by which the `uint16_t` of the sender
lambdas cuts the length of no packet: chunks of 8 KB satisfy it, messages of up to 65535 bytes do,
and `large_message` shows that the theorems fail without it. `ChunksAreIndices` is the arithmetic
of `sendFile`: the number it computes by rounding up is that of the chunks that begin before the
end of the file, for every size. `ProtocolInvariant`:
`Fits => (Spec => []ProtocolInv)`, from which `ProtocolTypes`, `DeliveredIntact`, `NothingIsLost`
and `NoEntryLeft`. `Intact` says nothing of what is still on its way, so the invariant speaks of
the flow, the receive buffer followed by the stream: around each of its units are those of its
packet, in their places, and none is there twice (`Blocks`, `Distinct`); while the link is up the
last packet is complete, too, and a packet that was put back to the queue was not written as a
whole (`FlowSound`). Packets go by labels: each file has an identifier of its own, all packets and
chunks of it carry that one (`LabelsSound`), and `IdsCounted` makes a new identifier new. A chunk
that is stored is not on its way, and an item that was delivered is nowhere else
(`NothingTwice`); so the chunk that makes the count of the reassembly map equal to `total_packets`
completes the interval of indices, and was the last packet of its file. Priorities may differ and
be any numbers: nothing depends on the order in which packets leave the queue.

Every invariant of the passing runs is proved, and the safety part of every refinement.
Only model-checked: liveness, that is `StopReturns` of registry and discovery, `Reaped`,
`RemovedIsClosed`, `SendReturns`, `TickReturns`, `AllDelivered`, `DisconnectReturns`,
`Discovered` and the fairness of `QueueSpec`. Liveness and `ENABLED` are outside what the proof
system does. The five violations of section 5 are shown by runs.

## 5. Where the code and its comments differ

1. *One connection per address* (`S` 443, run `one_connection_per_ip`). `DisconnectClient`
   erases the entry and stops the session afterwards; in between, the accept thread starts
   another session of the address. The late DISCONNECT event follows the CONNECT event of the
   new session.
2. *Close all client sessions* (`S` 339, run `stop_closes_all`). An accept thread past its test
   of `running_` registers a session after `Stop` has cleared `sessions_`. At most one is left
   (`AtMostOneLeftBehind`).
3. *Packets up to 1 MB* (`P` header 34, run `large_message`). The length is cut to 16 bits, and
   the receiver completes the packet with the next one.
4. *Exchange of the send buffers* (`C` 115, run `client_drain`). `Tick` may hand the queue being
   drained to `SendMsg`.
5. *Report of a lost connection* (`C` 119, 269; run `client_loss`). When `recv` itself finds the
   loss, nobody reports it.

Seen while modelling, and not claimed otherwise by any comment:

- `Aborted` is reachable: a session that is stopped between its registration and its start
  (`S` 463-467) is started on a closed descriptor, and its thread outlives the last reference.
- Both workers of a connection may wait in `SendRaw` for each other to receive, for ever, until
  one of the two objects is stopped. One message each way that the kernel's buffers do not take
  is enough.
- At an orderly end of a connection the messages that the last `WorkTick` completed stay in
  `recv_queue_`: the next `recv` returns 0 and the loop ends before `ProcessReceivedData`.
- A MESSAGE event can follow the DISCONNECT event of its session when `Stop` comes between its
  registration and its start, and the CONNECT event can follow both, as `AcceptThread` adds it
  after it has started the thread (`S` 467, 470).
- A reaper notes addresses and removes them later (`S` 484-490). A client that has connected again
  in between is disconnected in place of its dead session.
- A message that `SendToClient` pushes to a session that has ended since the test of `connected_`
  is dropped without a sign. So is what `ProcessSending` has taken when
  `connected_` is cleared.
- Messages of equal priority leave the protocol in heap order: a message can be overtaken by
  newer ones again and again while the application keeps sending.
- A handler of either discovery class that calls `Stop` joins a worker that may wait for
  `ip_mutex_`, which `Tick` holds. `StopReturns` shows that this is the only way.
- When the discovery socket cannot be opened the worker ends, `running_` stays set, and `Start`
  does nothing until `Stop` is called.
- A server that did not find its address when it was constructed answers every request with an
  empty address, and clients never find it (`Discovered` excepts it).
- An empty file has no chunk and is never received.
- A message whose `Tick` comes early waits in the buffer that is free until the next `Tick`, and
  newer ones overtake it.
- `disconnected_flag_` survives `Disconnect` and `Connect`; the report then comes under the new
  connection.

## 6. What is not modelled

- `on_file_progress_` of client and session: application code on the worker thread. One that
  calls `SendToClient` takes `sessions_mutex_` there and can make `Stop` hang.
- `SIGPIPE`, which ends a POSIX process that sends on a broken connection.
- Start-up of sockets and platform code: calls to the operating system without state.
- Byte layout of packets; the mutexes inside `JTCPProtocol`, which one thread drives.
- `std::set` and `std::string` contents other than identity: an address is a model value, and a
  request whose text is malformed is not sent by this code.

## 7. Plan

Done: registry, life cycle, event buffer, protocol, client, discovery, the data path of a session
with both ends of its connection, and the proofs above.

1. A bounded priority queue with different priorities in `JTCPProtocol`: what overtakes what.
2. Proofs: the two directions of `JostickTcpSession` as a refinement of a first-in first-out channel
   that may lose its end when it is closed, from `Streams` and `AllThere`.
