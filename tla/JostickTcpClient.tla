--------------------------- MODULE JostickTcpClient ---------------------------
(***************************************************************************)
(* The client: its connection, its worker thread and the two double        *)
(* buffers between the worker and the application's main thread, which     *)
(* calls Connect, Disconnect, SendMsg, SendFile and Tick.  The handlers    *)
(* that Tick calls are application code and may call any of them but Tick. *)
(*                                                                         *)
(* The critical sections of send_mutex_, recv_mutex_ and file_send_mutex_  *)
(* are one step each.  ProcessSendMsg drains a buffer without send_mutex_. *)
(***************************************************************************)
EXTENDS Naturals, Sequences, FiniteSets

CONSTANTS
    MaxMessages,     \* bound: calls of SendMsg
    MaxFiles,        \* bound: calls of SendFile
    MaxConnections,  \* bound: successful calls of Connect
    MaxReceived      \* bound: messages that arrive from the server

ASSUME BoundAssumption ==
    {MaxMessages, MaxFiles, MaxConnections, MaxReceived} \subseteq Nat

\* What is sent and received is numbered, in the order of the calls.
Message  == 1 .. MaxMessages
File     == 1 .. MaxFiles
Received == 1 .. MaxReceived
Buffer   == {0, 1}
None     == 0

VARIABLES
    running_,             \* JostickTcpClient::running_
    socket_,              \* "none" (-1) or "open"
    link,                 \* the connection behind socket_, as the kernel sees it
    disconnected_flag_,   \* set by the worker, cleared by Tick
    was_connected,        \* local of WorkerThread
    worker,               \* where the worker is, "none" when work_thread_ is empty
    send_buffers,         \* the two queues of messages
    current_send_buffer,  \* which of them the worker drains next
    send_queue,           \* local of ProcessSendMsg: the one it is draining
    file_send_queue_,     \* paths waiting for the worker
    recv_buffers,         \* the two queues of received messages
    current_recv_buffer,  \* which of them the worker pushes to
    tick,                 \* where the main thread is in Tick
    closing,              \* the main thread waits for the worker in Disconnect
    damaged,              \* a queue was pushed to and popped from at once
    messages,             \* history: messages given to SendMsg so far
    files,                \* history: files given to SendFile so far
    handed,               \* history: messages handed to protocol_, in order
    handed_files,         \* history: files handed to protocol_, in order
    overrun,              \* history: a Tick did not wait for the worker
    received,             \* messages that have arrived so far
    handled,              \* message that on_message_ was called with last
    connections,          \* successful calls of Connect
    reports               \* calls of on_disconnect_

connection_vars == <<running_, socket_, link, disconnected_flag_, was_connected,
                     connections, reports>>
send_vars == <<send_buffers, current_send_buffer, send_queue, file_send_queue_,
               damaged, messages, files, handed, handed_files, overrun>>
recv_vars == <<recv_buffers, current_recv_buffer, received, handled>>
main_vars == <<tick, closing>>
vars == <<connection_vars, send_vars, recv_vars, main_vars, worker>>

free_send_buffer == 1 - current_send_buffer   \* Tick exchanges the two
free_recv_buffer == 1 - current_recv_buffer   \* likewise

TypeOK ==
    /\ running_ \in BOOLEAN
    /\ socket_ \in {"none", "open"}
    /\ link \in {"up", "stalled", "closed", "reset", "gone"}
    /\ disconnected_flag_ \in BOOLEAN
    /\ was_connected \in BOOLEAN
    /\ worker \in {"none", "check", "parse", "send_raw", "take", "drain", "files",
                   "finished"}
    /\ send_buffers \in [Buffer -> Seq(Message)]
    /\ current_send_buffer \in Buffer
    /\ send_queue \in Buffer
    /\ file_send_queue_ \in Seq(File)
    /\ recv_buffers \in [Buffer -> Seq(Received)]
    /\ current_recv_buffer \in Buffer
    /\ tick \in {"idle", "on_disconnect", "swap", "handle", "on_message"}
    /\ closing \in BOOLEAN
    /\ damaged \in BOOLEAN
    /\ messages \in 0 .. MaxMessages
    /\ files \in 0 .. MaxFiles
    /\ handed \in Seq(Message)
    /\ handed_files \in Seq(File)
    /\ overrun \in BOOLEAN
    /\ received \in 0 .. MaxReceived
    /\ handled \in 0 .. MaxReceived
    /\ connections \in 0 .. MaxConnections
    /\ reports \in Nat

Init ==
    /\ running_ = FALSE /\ socket_ = "none" /\ link = "gone"
    /\ disconnected_flag_ = FALSE /\ was_connected = TRUE
    /\ worker = "none"
    /\ send_buffers = [b \in Buffer |-> <<>>]
    /\ current_send_buffer = 0 /\ send_queue = 0
    /\ file_send_queue_ = <<>>
    /\ recv_buffers = [b \in Buffer |-> <<>>]
    /\ current_recv_buffer = 0
    /\ tick = "idle" /\ closing = FALSE
    /\ damaged = FALSE /\ overrun = FALSE
    /\ messages = 0 /\ files = 0
    /\ handed = <<>> /\ handed_files = <<>>
    /\ received = 0 /\ handled = None
    /\ connections = 0 /\ reports = 0

\* The main thread runs application code: between two Ticks, or in a handler.
Application == tick \in {"idle", "on_disconnect", "on_message"} /\ ~closing

-----------------------------------------------------------------------------
(* Connect and Disconnect.                                                 *)

\* Connect that succeeds; one that fails leaves the state as it was.
Connect ==
    /\ Application
    /\ ~running_
    /\ connections < MaxConnections
    /\ connections' = connections + 1
    /\ socket_' = "open"
    /\ link' = "up"
    /\ running_' = TRUE
    /\ worker' = "check"
    /\ was_connected' = TRUE
    /\ UNCHANGED <<disconnected_flag_, reports, send_vars, recv_vars, main_vars>>

\* Disconnect of a running client: running_ = false, then join.
Disconnect ==
    /\ Application
    /\ running_
    /\ running_' = FALSE
    /\ closing' = TRUE
    /\ UNCHANGED <<socket_, link, disconnected_flag_, was_connected, connections,
                   reports, send_vars, recv_vars, tick, worker>>

\* Mutant of Disconnect_Join: does not wait for the worker.
Disconnect_Detach ==
    /\ closing
    /\ socket_' = "none"
    /\ closing' = FALSE
    /\ UNCHANGED <<running_, link, disconnected_flag_, was_connected, connections,
                   reports, send_vars, recv_vars, tick, worker>>

\* join() returns; CloseSocket().
Disconnect_Join ==
    /\ closing
    /\ worker = "finished"
    /\ worker' = "none"
    /\ socket_' = "none"
    /\ closing' = FALSE
    /\ UNCHANGED <<running_, link, disconnected_flag_, was_connected, connections,
                   reports, send_vars, recv_vars, tick>>

-----------------------------------------------------------------------------
(* SendMsg and SendFile.                                                   *)

\* The worker is popping from the queue that SendMsg pushes to.
Racing == worker = "drain" /\ send_queue = free_send_buffer

\* free_send_buffer->push(msg).  When the worker is popping from that queue,
\* this is a data race: the push may succeed, or damage the queue, after which
\* anything may happen and the model stops.
SendMsg ==
    /\ Application
    /\ messages < MaxMessages
    /\ \/ /\ send_buffers' = [send_buffers EXCEPT ![free_send_buffer] =
                                   Append(@, messages + 1)]
          /\ messages' = messages + 1
          /\ UNCHANGED damaged
       \/ /\ Racing
          /\ damaged' = TRUE
          /\ UNCHANGED <<send_buffers, messages>>
    /\ UNCHANGED <<current_send_buffer, send_queue, file_send_queue_, files, handed,
                   handed_files, overrun, connection_vars, recv_vars, main_vars, worker>>

SendFile ==
    /\ Application
    /\ files < MaxFiles
    /\ file_send_queue_' = Append(file_send_queue_, files + 1)
    /\ files' = files + 1
    /\ UNCHANGED <<send_buffers, current_send_buffer, send_queue, damaged, messages,
                   handed, handed_files, overrun, connection_vars, recv_vars, main_vars,
                   worker>>

-----------------------------------------------------------------------------
(* Tick.                                                                   *)

\* Mutant of Tick_Disconnected: the flag stays set.
Tick_Disconnected_Keep ==
    /\ tick = "idle" /\ ~closing
    /\ tick' = IF disconnected_flag_ THEN "on_disconnect" ELSE "swap"
    /\ reports' = IF disconnected_flag_ THEN reports + 1 ELSE reports
    /\ UNCHANGED <<running_, socket_, link, disconnected_flag_, was_connected,
                   connections, send_vars, recv_vars, closing, worker>>

\* if (disconnected_flag_) { disconnected_flag_ = false; on_disconnect_(); }
Tick_Disconnected ==
    /\ tick = "idle" /\ ~closing
    /\ tick' = IF disconnected_flag_ THEN "on_disconnect" ELSE "swap"
    /\ reports' = IF disconnected_flag_ THEN reports + 1 ELSE reports
    /\ disconnected_flag_' = FALSE
    /\ UNCHANGED <<running_, socket_, link, was_connected, connections, send_vars,
                   recv_vars, closing, worker>>

\* Mutant of Tick_SwapRecv: counts on instead of exchanging the two.
Tick_SwapRecv_Count ==
    /\ tick \in {"on_disconnect", "swap"} /\ ~closing
    /\ current_recv_buffer' = current_recv_buffer + 1
    /\ tick' = "handle"
    /\ UNCHANGED <<recv_buffers, received, handled, connection_vars, send_vars,
                   closing, worker>>

\* Exchanges the receive buffers, on_disconnect_ having returned.
Tick_SwapRecv ==
    /\ tick \in {"on_disconnect", "swap"} /\ ~closing
    /\ current_recv_buffer' = free_recv_buffer
    /\ tick' = "handle"
    /\ UNCHANGED <<recv_buffers, received, handled, connection_vars, send_vars,
                   closing, worker>>

\* Calls on_message_ with the front of the buffer taken, which stays there.
Tick_Handle ==
    /\ tick = "handle"
    /\ recv_buffers[free_recv_buffer] # <<>>
    /\ handled' = Head(recv_buffers[free_recv_buffer])
    /\ tick' = "on_message"
    /\ UNCHANGED <<recv_buffers, current_recv_buffer, received, connection_vars,
                   send_vars, closing, worker>>

\* recv_swap->pop(), on_message_ having returned.
Tick_Pop ==
    /\ tick = "on_message" /\ ~closing
    /\ recv_buffers' = [recv_buffers EXCEPT ![free_recv_buffer] = Tail(@)]
    /\ tick' = "handle"
    /\ UNCHANGED <<current_recv_buffer, received, handled, connection_vars,
                   send_vars, closing, worker>>

\* The buffer taken is empty: exchanges the send buffers and returns, whether
\* or not the worker is through with the one that was current.
Tick_SwapSend ==
    /\ tick = "handle"
    /\ recv_buffers[free_recv_buffer] = <<>>
    /\ current_send_buffer' = free_send_buffer
    /\ overrun' = (overrun \/ send_buffers[current_send_buffer] # <<>> \/ worker = "drain")
    /\ tick' = "idle"
    /\ UNCHANGED <<send_buffers, send_queue, file_send_queue_, damaged, messages, files,
                   handed, handed_files, connection_vars, recv_vars, closing, worker>>

Tick == Tick_Disconnected \/ Tick_SwapRecv \/ Tick_Handle \/ Tick_Pop \/ Tick_SwapSend

-----------------------------------------------------------------------------
(* WorkerThread.                                                           *)

\* running_ is no longer set: the loop ends.
Worker_End ==
    /\ worker = "check"
    /\ ~running_
    /\ worker' = "finished"
    /\ UNCHANGED <<connection_vars, send_vars, recv_vars, main_vars>>

\* An error of the connection is reported by one call, the next recv returns 0.
ReportError == link' = IF link = "reset" THEN "gone" ELSE link

\* recv returns data, EAGAIN, 0 or an error.  WorkTick then may find messages
\* in what was received, and may have a packet to send.
Worker_Receive ==
    /\ worker = "check"
    /\ running_
    /\ was_connected' = (was_connected /\ link \in {"up", "stalled"})
    /\ ReportError
    /\ \/ worker' \in {"send_raw", "take"}
       \/ worker' = "parse" /\ link \in {"up", "stalled"} /\ received < MaxReceived
    /\ UNCHANGED <<running_, socket_, disconnected_flag_, connections, reports,
                   send_vars, recv_vars, main_vars>>

\* Mutant of Worker_Parse: pushes to the buffer that Tick takes.
Worker_Parse_Free ==
    /\ worker = "parse"
    /\ received' = received + 1
    /\ recv_buffers' = [recv_buffers EXCEPT ![free_recv_buffer] = Append(@, received + 1)]
    /\ worker' \in {"send_raw", "take"} \cup
                    (IF received + 1 < MaxReceived THEN {"parse"} ELSE {})
    /\ UNCHANGED <<current_recv_buffer, handled, connection_vars, send_vars, main_vars>>

\* WorkTick finds a message in what was received: the receive callback pushes
\* it under recv_mutex_.
Worker_Parse ==
    /\ worker = "parse"
    /\ received' = received + 1
    /\ recv_buffers' = [recv_buffers EXCEPT ![current_recv_buffer] =
                           Append(@, received + 1)]
    /\ worker' \in {"send_raw", "take"} \cup
                    (IF received + 1 < MaxReceived THEN {"parse"} ELSE {})
    /\ UNCHANGED <<current_recv_buffer, handled, connection_vars, send_vars, main_vars>>

\* Mutant of Worker_SendRaw: running_ is not tested.
Worker_SendRaw_Stuck ==
    /\ worker = "send_raw"
    /\ link # "stalled"
    /\ worker' = "take"
    /\ UNCHANGED <<connection_vars, send_vars, recv_vars, main_vars>>

\* SendRaw retries on EAGAIN for as long as running_ is set.
Worker_SendRaw ==
    /\ worker = "send_raw"
    /\ link # "stalled" \/ ~running_
    /\ ReportError
    /\ worker' = "take"
    /\ UNCHANGED <<running_, socket_, disconnected_flag_, was_connected, connections,
                   reports, send_vars, recv_vars, main_vars>>

\* Mutant of ProcessSendMsg_Take: takes the buffer that SendMsg fills.
ProcessSendMsg_Take_Free ==
    /\ worker = "take"
    /\ send_queue' = free_send_buffer
    /\ worker' = "drain"
    /\ UNCHANGED <<send_buffers, current_send_buffer, file_send_queue_, damaged, messages,
                   files, handed, handed_files, overrun, connection_vars, recv_vars,
                   main_vars>>

\* send_queue = current_send_buffer, under send_mutex_.
ProcessSendMsg_Take ==
    /\ worker = "take"
    /\ send_queue' = current_send_buffer
    /\ worker' = "drain"
    /\ UNCHANGED <<send_buffers, current_send_buffer, file_send_queue_, damaged, messages,
                   files, handed, handed_files, overrun, connection_vars, recv_vars,
                   main_vars>>

\* Mutant of ProcessSendMsg_Next: pops from the buffer that is current now.
ProcessSendMsg_Next_Current ==
    /\ worker = "drain"
    /\ send_buffers[send_queue] # <<>> /\ send_buffers[current_send_buffer] # <<>>
    /\ handed' = Append(handed, Head(send_buffers[send_queue]))
    /\ send_buffers' = [send_buffers EXCEPT ![current_send_buffer] = Tail(@)]
    /\ UNCHANGED <<current_send_buffer, send_queue, file_send_queue_, damaged, messages,
                   files, handed_files, overrun, connection_vars, recv_vars, main_vars,
                   worker>>

\* front, protocol_->sendMessage, pop: without send_mutex_.
ProcessSendMsg_Next ==
    /\ worker = "drain"
    /\ send_buffers[send_queue] # <<>>
    /\ handed' = Append(handed, Head(send_buffers[send_queue]))
    /\ send_buffers' = [send_buffers EXCEPT ![send_queue] = Tail(@)]
    /\ UNCHANGED <<current_send_buffer, send_queue, file_send_queue_, damaged, messages,
                   files, handed_files, overrun, connection_vars, recv_vars, main_vars,
                   worker>>

ProcessSendMsg_Done ==
    /\ worker = "drain"
    /\ send_buffers[send_queue] = <<>>
    /\ worker' = "files"
    /\ UNCHANGED <<connection_vars, send_vars, recv_vars, main_vars>>

\* Takes one path out under file_send_mutex_ and sends the file without it.
ProcessSendFile_Next ==
    /\ worker = "files"
    /\ file_send_queue_ # <<>>
    /\ handed_files' = Append(handed_files, Head(file_send_queue_))
    /\ file_send_queue_' = Tail(file_send_queue_)
    /\ UNCHANGED <<send_buffers, current_send_buffer, send_queue, damaged, messages,
                   files, handed, overrun, connection_vars, recv_vars, main_vars, worker>>

\* The peek of IsSocketConnected fails only with an error: one that returns 0,
\* for a connection closed in order, counts as connected.
IsSocketConnected == link # "reset"

\* if (was_connected && !IsSocketConnected()), then the loop sleeps.
Worker_Status ==
    /\ worker = "files"
    /\ file_send_queue_ = <<>>
    /\ LET lost == was_connected /\ ~IsSocketConnected IN
       /\ was_connected' = (was_connected /\ ~lost)
       /\ disconnected_flag_' = (disconnected_flag_ \/ lost)
       /\ link' = IF lost THEN "gone" ELSE link
    /\ worker' = "check"
    /\ UNCHANGED <<running_, socket_, connections, reports, send_vars, recv_vars,
                   main_vars>>

WorkerThread ==
    \/ Worker_End \/ Worker_Receive \/ Worker_Parse \/ Worker_SendRaw
    \/ ProcessSendMsg_Take \/ ProcessSendMsg_Next \/ ProcessSendMsg_Done
    \/ ProcessSendFile_Next \/ Worker_Status

\* The server closes, resets, stops reading until its window is full, or resumes.
PeerStep ==
    /\ socket_ = "open"
    /\ \/ link \in {"up", "stalled"} /\ link' \in {"up", "stalled", "closed", "reset"} \ {link}
       \/ link = "closed" /\ link' = "reset"
    /\ UNCHANGED <<running_, socket_, disconnected_flag_, was_connected, connections,
                   reports, send_vars, recv_vars, main_vars, worker>>

-----------------------------------------------------------------------------
Step ==
    \/ Connect \/ Disconnect \/ Disconnect_Join
    \/ SendMsg \/ SendFile
    \/ Tick
    \/ WorkerThread
    \/ PeerStep

Next == (~damaged /\ Step) \/ (damaged /\ UNCHANGED vars)

Spec == Init /\ [][Next]_vars

\* Both threads are scheduled; the application need not call anything.
Fairness ==
    /\ WF_vars(~damaged /\ WorkerThread)
    /\ WF_vars(~damaged /\ Disconnect_Join)

FairSpec == Spec /\ Fairness

-----------------------------------------------------------------------------
(* Safety.                                                                 *)

\* A worker runs for the current connection only: when Disconnect has returned
\* there is none, so Connect replaces protocol_ and work_thread_ (a std::thread
\* that must not be joinable then) behind nobody's back, and the socket of a
\* worker is open.
WorkerHasConnection ==
    /\ ~running_ /\ ~closing => worker = "none" /\ socket_ = "none"
    /\ worker # "none" => socket_ = "open"
    /\ running_ => worker \notin {"none", "finished"}

Occurrences(x, seq) == Cardinality({i \in DOMAIN seq : seq[i] = x})
Numbers(n) == [i \in 1 .. n |-> i]

\* Everything given to the client is in one place: in one of the buffers or
\* handed to the protocol once, through any interleaving of the worker with
\* Tick, Disconnect and Connect.  Files keep their order.  What is given
\* outlives the connection it was given under.
HandedOnce ==
    /\ \A m \in 1 .. messages :
          Occurrences(m, handed) + Occurrences(m, send_buffers[0])
                                 + Occurrences(m, send_buffers[1]) = 1
    /\ handed_files \o file_send_queue_ = Numbers(files)

\* As long as no Tick comes before the worker is through with the current
\* buffer, messages are handed to the protocol in the order of SendMsg.  (A
\* Tick that comes too early makes newer messages current before older ones.)
InOrder ==
    ~overrun => handed \o send_buffers[current_send_buffer]
                       \o send_buffers[free_send_buffer] = Numbers(messages)

\* The same condition keeps SendMsg away from the queue the worker pops from.
PrivateUnlessOverrun == ~overrun => ~Racing /\ ~damaged

\* One loss of a connection is reported once: by no more calls of on_disconnect_
\* than there were connections, however Tick, Disconnect and Connect follow.
ReportedOnce == reports + (IF disconnected_flag_ THEN 1 ELSE 0) <= connections

\* The buffer that Tick has taken and not yet handled, then the other one.
Arrived ==
    (IF tick = "on_message" THEN Tail(recv_buffers[free_recv_buffer])
                            ELSE recv_buffers[free_recv_buffer])
        \o recv_buffers[current_recv_buffer]

ReceiveQueue == INSTANCE EventQueue
                WITH queue <- Arrived, delivered <- handled,
                     Event <- Received, NoEvent <- None

\* The receive buffers are a first-in first-out queue: on_message_ is called
\* for what arrived, in the order of arrival and once each, also when the
\* connection is lost or closed and opened again between two Ticks.
ReceiveQueueSpec == ReceiveQueue!Spec

\* "Synchronisation": the worker drains a queue that SendMsg does not push to.
DrainIsPrivate == ~Racing

\* "Handle a possible disconnect event": when the worker has found the
\* connection lost, on_disconnect_ has been called or Tick is to call it.
LossIsReported ==
    worker = "check" /\ ~was_connected => disconnected_flag_ \/ reports > 0

-----------------------------------------------------------------------------
(* Liveness.                                                               *)

\* Disconnect returns, also while the worker waits in SendRaw for a server that
\* does not read, and with messages left in the buffers.
DisconnectReturns == closing ~> (~closing \/ damaged)
===============================================================================
