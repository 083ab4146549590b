--------------------------- MODULE JostickTcpSession ---------------------------
(***************************************************************************)
(* The data path of one session of the server, with the client at the      *)
(* other end: the thread of the session and the worker of the client, the  *)
(* connection between them, the threads that send through SendToClient and *)
(* Broadcast, and the thread that stops the session.                       *)
(*                                                                         *)
(* Both ends run the same JTCPProtocol and the same SendRaw.  A message    *)
(* stands for a file of one chunk too.  The units of a packet are numbered *)
(* so that a packet that was written in part is told from a whole one.     *)
(***************************************************************************)
EXTENDS Naturals, Sequences, SequencesExt

CONSTANTS
    MaxSent,     \* bound: messages of the client
    MaxPushed,   \* bound: messages of the server
    PacketSize,  \* units of a packet, its header included
    RecvMax,     \* what one recv returns at most
    Capacity,    \* what the kernel takes in one direction until it is read
    App          \* threads that call SendToClient and Broadcast

ASSUME SizeAssumption ==
    /\ MaxSent \in Nat /\ MaxPushed \in Nat
    /\ {PacketSize, RecvMax, Capacity} \subseteq Nat \ {0}

End     == {"session", "client"}
Peer(e) == IF e = "session" THEN "client" ELSE "session"
None    == 0

\* Messages are numbered, at each end, in the order of the calls.
Message   == 1 .. MaxSent \cup 1 .. MaxPushed
Unit      == Message \X (1 .. PacketSize)
Packet(m) == [n \in 1 .. PacketSize |-> <<m, n>>]

VARIABLES
    worker,          \* where the worker thread is in its loop
    running_,
    connected_,      \* of the session only
    socket_,         \* whether the descriptor is open
    wire,            \* units on their way to an end, or in its kernel
    cut,             \* history: some of them were thrown away by a reset
    receive_buffer,  \* units received and not yet parsed
    recv_queue_,     \* messages parsed; of the session, without an event yet
    send_queue,      \* packets in the priority queue of the protocol
    packet,          \* the packet that is being written
    left,            \* how many of its units are still to be written
    given,           \* history: messages given to the protocol
    written,         \* history: messages of which every unit was written
    send_queue_,     \* of the session: what SendMessage was called with
    sending,         \* local of ProcessSending
    pushed,          \* number of messages pushed to send_queue_ so far
    app,             \* where a thread is in SendToClient
    registered,      \* the session is in sessions_
    stop,            \* where the thread is that stops the session
    reported,        \* history: AddEvent(MESSAGE), in order
    disconnected     \* history: AddEvent(DISCONNECT) has been called

socket_vars  == <<socket_, wire, cut>>
receive_vars == <<receive_buffer, recv_queue_>>
protocol_vars == <<send_queue, packet, left, given, written>>
send_vars    == <<send_queue_, sending, pushed, app>>
flags        == <<running_, connected_>>
server_vars  == <<registered, stop>>
event_vars   == <<reported, disconnected>>
vars == <<worker, flags, socket_vars, receive_vars, protocol_vars, send_vars,
          server_vars, event_vars>>

\* Where a worker may be: first of all its thread is to be created, which Start
\* does after it has set the flags; then it goes round.
Uncreated == {"new", "start_connected", "start_thread"}
Place == Uncreated \cup {"recv", "report", "events", "take", "hand", "tick", "write", "queue",
                         "finished"}

TypeOK ==
    /\ worker \in [End -> Place]
    /\ running_ \in [End -> BOOLEAN] /\ connected_ \in BOOLEAN
    /\ socket_ \in [End -> BOOLEAN] /\ cut \in [End -> BOOLEAN]
    /\ wire \in [End -> Seq(Unit)] /\ receive_buffer \in [End -> Seq(Unit)]
    /\ recv_queue_ \in [End -> Seq(Message \cup {None})]
    /\ send_queue \in [End -> SUBSET Message] /\ given \in [End -> SUBSET Message]
    /\ packet \in [End -> Message \cup {None}] /\ left \in [End -> 0 .. PacketSize]
    /\ written \in [End -> Seq(Message)]
    /\ send_queue_ \in Seq(Message) /\ sending \in Seq(Message)
    /\ pushed \in 0 .. MaxPushed
    /\ app \in [App -> {"idle", "found", "push"}]
    /\ registered \in BOOLEAN
    /\ stop \in {"none", "test", "connected", "join", "close", "event", "done"}
    /\ reported \in Seq(Message \cup {None}) /\ disconnected \in BOOLEAN

\* The accept thread has put the session into sessions_; Connect has returned.
Init ==
    /\ worker = [e \in End |-> IF e = "session" THEN "new" ELSE "recv"]
    /\ running_ = [e \in End |-> e = "client"] /\ connected_ = FALSE
    /\ socket_ = [e \in End |-> TRUE] /\ cut = [e \in End |-> FALSE]
    /\ wire = [e \in End |-> <<>>] /\ receive_buffer = [e \in End |-> <<>>]
    /\ recv_queue_ = [e \in End |-> <<>>]
    /\ send_queue = [e \in End |-> {}] /\ given = [e \in End |-> {}]
    /\ packet = [e \in End |-> None] /\ left = [e \in End |-> 0]
    /\ written = [e \in End |-> <<>>]
    /\ send_queue_ = <<>> /\ sending = <<>> /\ pushed = 0
    /\ app = [a \in App |-> "idle"]
    /\ registered = TRUE /\ stop = "none"
    /\ reported = <<>> /\ disconnected = FALSE

Goto(e, place) == worker' = [worker EXCEPT ![e] = place]

\* AddEvent, with an event of either type.
AddMessage(m) == reported' = Append(reported, m) /\ UNCHANGED disconnected
AddDisconnect == disconnected' = TRUE /\ UNCHANGED reported

-----------------------------------------------------------------------------
(* The connection.                                                         *)

\* A reset: of the units on their way to e any number are thrown away.
Reset(e, others) ==
    /\ \E n \in 0 .. Len(wire[e]) : wire' = [others EXCEPT ![e] = SubSeq(wire[e], 1, n)]
    /\ cut' = [cut EXCEPT ![e] = TRUE]

\* close(): with unread units it resets the connection.
Close(e) ==
    LET dropped == [wire EXCEPT ![e] = <<>>] IN
    /\ socket_' = [socket_ EXCEPT ![e] = FALSE]
    /\ IF wire[e] = <<>> \/ ~socket_[Peer(e)]
          THEN wire' = dropped /\ UNCHANGED cut
          ELSE Reset(Peer(e), dropped)

\* recv returns 0 or an error other than EAGAIN.
Lost(e) == ~socket_[e] \/ (wire[e] = <<>> /\ ~socket_[Peer(e)])

-----------------------------------------------------------------------------
(* The loop of a worker, up to the end of recv.                            *)

AfterRecv(e) == IF e = "session" THEN "events" ELSE "tick"
AfterTick(e) == IF e = "session" THEN "recv" ELSE "queue"

Worker_End(e) ==
    /\ worker[e] = "recv" /\ ~running_[e]
    /\ Goto(e, "finished")
    /\ UNCHANGED <<flags, socket_vars, receive_vars, protocol_vars, send_vars,
                   server_vars, event_vars>>

\* Mutant of Receive: goes on to the events when there is nothing to read only.
Receive_SkipEvents(e) ==
    /\ worker[e] = "recv" /\ running_[e] /\ socket_[e] /\ wire[e] # <<>>
    /\ \E n \in {i \in 1 .. RecvMax : i <= Len(wire[e])} :
          /\ receive_buffer' = [receive_buffer EXCEPT ![e] = @ \o SubSeq(wire[e], 1, n)]
          /\ wire' = [wire EXCEPT ![e] = SubSeq(@, n + 1, Len(@))]
    /\ Goto(e, "tick")
    /\ UNCHANGED <<flags, socket_, cut, recv_queue_, protocol_vars, send_vars,
                   server_vars, event_vars>>

\* recv returns units, and onDataReceived keeps them.
Receive(e) ==
    /\ worker[e] = "recv" /\ running_[e] /\ socket_[e] /\ wire[e] # <<>>
    /\ \E n \in {i \in 1 .. RecvMax : i <= Len(wire[e])} :
          /\ receive_buffer' = [receive_buffer EXCEPT ![e] = @ \o SubSeq(wire[e], 1, n)]
          /\ wire' = [wire EXCEPT ![e] = SubSeq(@, n + 1, Len(@))]
    /\ Goto(e, AfterRecv(e))
    /\ UNCHANGED <<flags, socket_, cut, recv_queue_, protocol_vars, send_vars,
                   server_vars, event_vars>>

\* EAGAIN, also when there are units that have not come as far as this end: the
\* loop goes on.  So does the client's when the connection is lost; what becomes
\* of its flags is in module JostickTcpClient.
Receive_Nothing(e) ==
    /\ worker[e] = "recv" /\ running_[e]
    /\ Lost(e) => e = "client"
    /\ Goto(e, AfterRecv(e))
    /\ UNCHANGED <<flags, socket_vars, receive_vars, protocol_vars, send_vars,
                   server_vars, event_vars>>

\* The session finds the connection lost: connected_ = false ...
Receive_Lost ==
    /\ worker["session"] = "recv" /\ running_["session"] /\ Lost("session")
    /\ connected_' = FALSE
    /\ Goto("session", "report")
    /\ UNCHANGED <<running_, socket_vars, receive_vars, protocol_vars, send_vars,
                   server_vars, event_vars>>

\* ... AddEvent(DISCONNECT), and the loop ends.
Report ==
    /\ worker["session"] = "report"
    /\ AddDisconnect
    /\ Goto("session", "finished")
    /\ UNCHANGED <<flags, socket_vars, receive_vars, protocol_vars, send_vars, server_vars>>

-----------------------------------------------------------------------------
(* The loop of the session: ProcessReceivedData and ProcessSending.        *)

\* recv_queue_ is filled and emptied by this thread: one event per step.
ProcessReceivedData ==
    /\ worker["session"] = "events"
    /\ IF recv_queue_["session"] = <<>>
          THEN Goto("session", "take") /\ UNCHANGED <<recv_queue_, event_vars>>
          ELSE /\ AddMessage(Head(recv_queue_["session"]))
               /\ recv_queue_' = [recv_queue_ EXCEPT !["session"] = Tail(@)]
               /\ UNCHANGED worker
    /\ UNCHANGED <<flags, socket_vars, receive_buffer, protocol_vars, send_vars, server_vars>>

\* Takes all of send_queue_ under send_mutex_.
ProcessSending_Take ==
    /\ worker["session"] = "take"
    /\ sending' = send_queue_
    /\ send_queue_' = <<>>
    /\ Goto("session", "hand")
    /\ UNCHANGED <<flags, socket_vars, receive_vars, protocol_vars, pushed, app,
                   server_vars, event_vars>>

\* while (!send_queue.empty() && connected_) protocol_->sendMessage(front).
ProcessSending_Hand ==
    /\ worker["session"] = "hand"
    /\ sending # <<>> /\ connected_
    /\ send_queue' = [send_queue EXCEPT !["session"] = @ \cup {Head(sending)}]
    /\ given' = [given EXCEPT !["session"] = @ \cup {Head(sending)}]
    /\ sending' = Tail(sending)
    /\ UNCHANGED <<worker, flags, socket_vars, receive_vars, packet, left, written,
                   send_queue_, pushed, app, server_vars, event_vars>>

\* What is left of the queue taken is dropped when connected_ is not set.
ProcessSending_Done ==
    /\ worker["session"] = "hand"
    /\ sending = <<>> \/ ~connected_
    /\ sending' = <<>>
    /\ Goto("session", "tick")
    /\ UNCHANGED <<flags, socket_vars, receive_vars, protocol_vars, send_queue_, pushed,
                   app, server_vars, event_vars>>

\* The client's ProcessSendMsg hands on what the application has sent by now.
ProcessSendMsg ==
    /\ worker["client"] = "queue"
    /\ \E n \in 0 .. MaxSent : LET sent == given["client"] \cup 1 .. n IN
          /\ given' = [given EXCEPT !["client"] = sent]
          /\ send_queue' = [send_queue EXCEPT !["client"] = @ \cup (sent \ given["client"])]
    /\ Goto("client", "recv")
    /\ UNCHANGED <<flags, socket_vars, receive_vars, packet, left, written, send_vars,
                   server_vars, event_vars>>

-----------------------------------------------------------------------------
(* WorkTick and SendRaw, at both ends.                                     *)

\* The packets at the front of the buffer.  One whose units are not those of
\* one packet is not delivered as a message: None stands for what it becomes.
Parsed(e) ==
    [i \in 1 .. Len(receive_buffer[e]) \div PacketSize |->
        LET first == receive_buffer[e][(i - 1) * PacketSize + 1][1]
            units == [n \in 1 .. PacketSize |-> receive_buffer[e][(i - 1) * PacketSize + n]]
        IN  IF units = Packet(first) THEN first ELSE None]

\* Pushes what is complete to recv_queue_, then takes one packet out of the
\* priority queue: all have one priority, and their order is that of a heap.
WorkTick(e) ==
    /\ worker[e] = "tick"
    /\ recv_queue_' = [recv_queue_ EXCEPT ![e] = @ \o Parsed(e)]
    /\ receive_buffer' = [receive_buffer EXCEPT ![e] =
                             SubSeq(@, Len(Parsed(e)) * PacketSize + 1, Len(@))]
    /\ \/ /\ send_queue[e] = {}
          /\ Goto(e, AfterTick(e))
          /\ UNCHANGED <<send_queue, packet, left>>
       \/ \E m \in send_queue[e] :
          /\ send_queue' = [send_queue EXCEPT ![e] = @ \ {m}]
          /\ packet' = [packet EXCEPT ![e] = m]
          /\ left' = [left EXCEPT ![e] = PacketSize]
          /\ Goto(e, "write")
    /\ UNCHANGED <<flags, socket_vars, given, written, send_vars, server_vars, event_vars>>

\* The whole packet has been accepted.
Written(e) ==
    /\ written' = [written EXCEPT ![e] = Append(@, packet[e])]
    /\ packet' = [packet EXCEPT ![e] = None]
    /\ Goto(e, AfterTick(e))

\* send() accepts as many units as there is room for; without room it returns
\* EAGAIN and is repeated.
SendRaw(e) ==
    /\ worker[e] = "write" /\ running_[e] /\ socket_[e] /\ socket_[Peer(e)]
    /\ \E n \in 1 .. left[e] :
          /\ Len(wire[Peer(e)]) + n <= Capacity
          /\ LET from == PacketSize - left[e] + 1 IN
             wire' = [wire EXCEPT ![Peer(e)] =
                         @ \o SubSeq(Packet(packet[e]), from, from + n - 1)]
          /\ left' = [left EXCEPT ![e] = @ - n]
          /\ IF n = left[e] THEN Written(e) ELSE UNCHANGED <<written, packet, worker>>
    /\ UNCHANGED <<flags, socket_, cut, receive_vars, send_queue, given, send_vars,
                   server_vars, event_vars>>

\* The peer has closed: send() is accepted, and answered by a reset.
SendRaw_Unread(e) ==
    /\ worker[e] = "write" /\ running_[e] /\ socket_[e] /\ ~socket_[Peer(e)]
    /\ Reset(e, wire)
    /\ left' = [left EXCEPT ![e] = 0]
    /\ Written(e)
    /\ UNCHANGED <<flags, socket_, receive_vars, send_queue, given, send_vars,
                   server_vars, event_vars>>

\* Mutant of Broken: gives up when there is no room.
Broken_Full(e) ==
    \/ ~running_[e] \/ ~socket_[e] \/ ~socket_[Peer(e)]
    \/ Len(wire[Peer(e)]) = Capacity

\* Mutant of Broken: running_ is not tested.
Broken_Stopped(e) == ~socket_[e] \/ ~socket_[Peer(e)]

\* Why SendRaw gives up: running_ is not set, or send() fails.
Broken(e) == ~running_[e] \/ ~socket_[e] \/ ~socket_[Peer(e)]

\* Mutant of SendRaw_Fail: puts back the packet after it was let go.
SendRaw_Fail_Gone(e) ==
    /\ worker[e] = "write" /\ Broken(e)
    /\ packet' = [packet EXCEPT ![e] = None]
    /\ send_queue' = [send_queue EXCEPT ![e] = @ \cup {packet'[e]}]
    /\ left' = [left EXCEPT ![e] = 0]
    /\ Goto(e, AfterTick(e))
    /\ UNCHANGED <<flags, socket_vars, receive_vars, given, written, send_vars,
                   server_vars, event_vars>>

\* SendRaw fails, and the packet goes back to the queue as a whole.
SendRaw_Fail(e) ==
    /\ worker[e] = "write" /\ Broken(e)
    /\ send_queue' = [send_queue EXCEPT ![e] = @ \cup {packet[e]}]
    /\ packet' = [packet EXCEPT ![e] = None]
    /\ left' = [left EXCEPT ![e] = 0]
    /\ Goto(e, AfterTick(e))
    /\ UNCHANGED <<flags, socket_vars, receive_vars, given, written, send_vars,
                   server_vars, event_vars>>

WorkerThread(e) ==
    \/ Worker_End(e) \/ Receive(e) \/ Receive_Nothing(e)
    \/ WorkTick(e) \/ SendRaw(e) \/ SendRaw_Unread(e) \/ SendRaw_Fail(e)

Session ==
    \/ WorkerThread("session") \/ Receive_Lost \/ Report
    \/ ProcessReceivedData
    \/ ProcessSending_Take \/ ProcessSending_Hand \/ ProcessSending_Done

Client == WorkerThread("client") \/ ProcessSendMsg

-----------------------------------------------------------------------------
(* The application: SendToClient and Broadcast, and Disconnect at the      *)
(* client.                                                                 *)

\* SendToClient finds the session, under sessions_mutex_.
SendToClient(a) ==
    /\ app[a] = "idle" /\ registered
    /\ pushed < MaxPushed
    /\ app' = [app EXCEPT ![a] = "found"]
    /\ UNCHANGED <<worker, flags, socket_vars, receive_vars, protocol_vars, send_queue_,
                   sending, pushed, server_vars, event_vars>>

\* IsConnected(), without the mutex.
SendMessage_Test(a) ==
    /\ app[a] = "found"
    /\ app' = [app EXCEPT ![a] = IF connected_ THEN "push" ELSE "idle"]
    /\ UNCHANGED <<worker, flags, socket_vars, receive_vars, protocol_vars, send_queue_,
                   sending, pushed, server_vars, event_vars>>

Push ==
    /\ pushed < MaxPushed
    /\ send_queue_' = Append(send_queue_, pushed + 1)
    /\ pushed' = pushed + 1

\* send_queue_.push, under send_mutex_; the session may have gone by now.
SendMessage_Push(a) ==
    /\ app[a] = "push"
    /\ Push
    /\ app' = [app EXCEPT ![a] = "idle"]
    /\ UNCHANGED <<worker, flags, socket_vars, receive_vars, protocol_vars, sending,
                   server_vars, event_vars>>

\* Holds sessions_mutex_ throughout: the session is registered all the time.
Broadcast ==
    /\ registered /\ connected_
    /\ Push
    /\ UNCHANGED <<worker, flags, socket_vars, receive_vars, protocol_vars, sending, app,
                   server_vars, event_vars>>

\* running_ = false; then join() and CloseSocket().
Disconnect ==
    /\ running_["client"]
    /\ running_' = [running_ EXCEPT !["client"] = FALSE]
    /\ UNCHANGED <<worker, connected_, socket_vars, receive_vars, protocol_vars,
                   send_vars, server_vars, event_vars>>

Disconnect_Join ==
    /\ worker["client"] = "finished" /\ socket_["client"]
    /\ Close("client")
    /\ UNCHANGED <<worker, flags, receive_vars, protocol_vars, send_vars, server_vars, event_vars>>

-----------------------------------------------------------------------------
(* The accept thread, and the thread that stops the session.  A session    *)
(* is stopped by one thread, at any time after its registration: see       *)
(* module JostickTcpServer.                                                *)

SessionStart_Running ==
    /\ worker["session"] = "new"
    /\ running_' = [running_ EXCEPT !["session"] = TRUE]
    /\ Goto("session", "start_connected")
    /\ UNCHANGED <<connected_, socket_vars, receive_vars, protocol_vars, send_vars,
                   server_vars, event_vars>>

SessionStart_Connected ==
    /\ worker["session"] = "start_connected"
    /\ connected_' = TRUE
    /\ Goto("session", "start_thread")
    /\ UNCHANGED <<running_, socket_vars, receive_vars, protocol_vars, send_vars,
                   server_vars, event_vars>>

SessionStart_Thread ==
    /\ worker["session"] = "start_thread"
    /\ Goto("session", "recv")
    /\ UNCHANGED <<flags, socket_vars, receive_vars, protocol_vars, send_vars,
                   server_vars, event_vars>>

SessionStart == SessionStart_Running \/ SessionStart_Connected \/ SessionStart_Thread

\* Mutant of Stop_Erase: the event comes before session->Stop().
Stop_Erase_Event ==
    /\ stop = "none" /\ registered
    /\ registered' = FALSE
    /\ stop' = "test"
    /\ AddDisconnect
    /\ UNCHANGED <<worker, flags, socket_vars, receive_vars, protocol_vars, send_vars>>

\* DisconnectClient, AcceptThread or Stop takes the session out of sessions_.
Stop_Erase ==
    /\ stop = "none" /\ registered
    /\ registered' = FALSE
    /\ stop' = "test"
    /\ UNCHANGED <<worker, flags, socket_vars, receive_vars, protocol_vars, send_vars,
                   event_vars>>

\* if (running_) { running_ = false; connected_ = false; join } close.
SessionStop ==
    /\ stop = "test"
    /\ IF running_["session"]
          THEN running_' = [running_ EXCEPT !["session"] = FALSE] /\ stop' = "connected"
          ELSE UNCHANGED running_ /\ stop' = "close"
    /\ UNCHANGED <<worker, connected_, socket_vars, receive_vars, protocol_vars, send_vars,
                   registered, event_vars>>

SessionStop_Connected ==
    /\ stop = "connected"
    /\ connected_' = FALSE
    /\ stop' = "join"
    /\ UNCHANGED <<worker, running_, socket_vars, receive_vars, protocol_vars, send_vars,
                   registered, event_vars>>

\* A thread that Start has not created is not joinable.
SessionStop_Join ==
    /\ stop = "join" /\ worker["session"] \in Uncreated \cup {"finished"}
    /\ stop' = "close"
    /\ UNCHANGED <<worker, flags, socket_vars, receive_vars, protocol_vars, send_vars,
                   registered, event_vars>>

\* Of the three, DisconnectClient goes on to add an event.
SessionStop_Close ==
    /\ stop = "close"
    /\ Close("session")
    /\ stop' \in {"event", "done"}
    /\ UNCHANGED <<worker, flags, receive_vars, protocol_vars, send_vars, registered,
                   event_vars>>

DisconnectClient_Event ==
    /\ stop = "event"
    /\ AddDisconnect
    /\ stop' = "done"
    /\ UNCHANGED <<worker, flags, socket_vars, receive_vars, protocol_vars, send_vars,
                   registered>>

Stopper ==
    \/ SessionStop \/ SessionStop_Connected \/ SessionStop_Join \/ SessionStop_Close
    \/ DisconnectClient_Event

-----------------------------------------------------------------------------
Next ==
    \/ Session \/ Client
    \/ \E a \in App : SendToClient(a) \/ SendMessage_Test(a) \/ SendMessage_Push(a)
    \/ Broadcast
    \/ Disconnect \/ Disconnect_Join
    \/ SessionStart
    \/ Stop_Erase \/ Stopper

Spec == Init /\ [][Next]_vars

\* The threads that run are scheduled, and recv does not return EAGAIN for ever
\* while there is something on its way.  Nobody has to send or to disconnect.
Fairness ==
    /\ WF_vars(Session) /\ WF_vars(Client)
    /\ SF_vars(Receive("session")) /\ SF_vars(Receive("client"))
    /\ WF_vars(Disconnect_Join) /\ WF_vars(Stopper)
    /\ WF_vars(SessionStart)

FairSpec == Spec /\ Fairness

-----------------------------------------------------------------------------
\* What an end has received, in order; of the session, with and without an event.
Received(e) ==
    IF e = "session" THEN reported \o recv_queue_["session"] ELSE recv_queue_["client"]

\* A message given to the protocol is in the queue, being written, or written,
\* once, also when SendRaw fails half-way and the packet goes back.
KeptUntilWritten ==
    \A e \in End :
        /\ IsInjective(written[e])
        /\ given[e] = send_queue[e] \cup ToSet(written[e]) \cup ({packet[e]} \ {None})
        /\ send_queue[e] \cap ToSet(written[e]) = {}
        /\ packet[e] \notin send_queue[e] \cup ToSet(written[e])

\* As long as a session is connected nothing is missing of what SendToClient and
\* Broadcast pushed, also when they did so after it was erased, or long after they
\* tested connected_: it is in send_queue_, in the queue that ProcessSending has
\* taken, or was given to the protocol.
PushedIsKept ==
    connected_ => 1 .. pushed = ToSet(send_queue_) \cup ToSet(sending) \cup given["session"]

\* What either end receives is what the other has written, in that order and
\* each once, although a packet that was written in part goes back to the queue
\* as a whole, and however recv cuts the stream.
ArrivesOnce ==
    /\ \A e \in End : IsPrefix(Received(e), written[Peer(e)])
    /\ KeptUntilWritten
    /\ PushedIsKept

\* The session was stopped between its registration and its start: Stop closes
\* the socket of a session that is not running_, and the thread starts after all.
StoppedBeforeStart == stop \in {"close", "event", "done"} /\ running_["session"]

\* Once the application has been told that the session is gone, be it by the
\* session's thread or by DisconnectClient, no message of it follows: Stop waits
\* for the thread, unless it came before the start.
SilentAfterDisconnect ==
    [][disconnected /\ reported' # reported => StoppedBeforeStart]_vars

\* A session that ends because the client has closed in order has received all
\* that the client had written; of that, what the last recv completed, and no
\* more, stays in recv_queue_ without an event.
LostInLastRound ==
    (worker["session"] = "finished" /\ running_["session"] /\ socket_["session"]
        /\ ~cut["session"]) =>
    /\ Received("session") = written["client"]
    /\ Len(recv_queue_["session"]) <= (PacketSize - 1 + RecvMax) \div PacketSize

\* A worker stays in SendRaw for ever only if the other one does: each waits for
\* the other to receive, neither is being stopped, and neither end is closed.
SendReturns ==
    \A e \in End : <>[](worker[e] = "write") =>
        <>[](\A d \in End : worker[d] = "write" /\ running_[d] /\ socket_[d])
===============================================================================
