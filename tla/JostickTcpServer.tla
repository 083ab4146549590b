---------------------------- MODULE JostickTcpServer ----------------------------
(***************************************************************************)
(* The session registry of JostickTcpServer and the threads that share it: *)
(* the accept thread, the worker threads that look for dead sessions, the  *)
(* application threads that call DisconnectClient, the control thread that *)
(* calls Start and Stop, and one thread per JostickTcpSession.             *)
(*                                                                         *)
(* Critical sections of sessions_mutex_ are one step each, except the one  *)
(* in Stop, which joins the session threads while it holds the mutex.      *)
(* JostickTcpSession::Stop is a procedure of four steps that any of the    *)
(* threads may be executing: it runs with no mutex of its own.             *)
(***************************************************************************)
EXTENDS Naturals

CONSTANTS
    ClientID,     \* client IP addresses, the keys of sessions_
    Worker,       \* the threads of worker_threads_
    App,          \* application threads that call DisconnectClient
    Accept,       \* accept_thread_
    Control,      \* the application thread that calls Start and Stop
    MaxSessions,  \* bound: connections accepted in one behaviour
    NoClient      \* client_id_ of a session that does not exist yet

ASSUME ThreadAssumption ==
    /\ Accept # Control
    /\ {Accept, Control} \cap (Worker \cup App) = {}
    /\ Worker \cap App = {}

ASSUME BoundAssumption == MaxSessions \in Nat

ASSUME ClientAssumption == NoClient \notin ClientID

Session   == 1 .. MaxSessions
NoSession == 0
Thread    == {Accept, Control} \cup Worker \cup App

VARIABLES
    running_,         \* JostickTcpServer::running_
    sessions_,        \* JostickTcpServer::sessions_, NoSession for no entry
    sessions_mutex_,  \* TRUE while Stop holds sessions_mutex_
    accepted,         \* number of connections accepted so far
    client_id_,       \* per session: JostickTcpSession::client_id_
    s_running,        \* per session: JostickTcpSession::running_
    s_connected,      \* per session: JostickTcpSession::connected_
    work_thread_,     \* per session: where its WorkerThread is
    socket_,          \* per session: its descriptor
    peer,             \* per session: what the remote end does
    disconnects,      \* per session: DISCONNECT events added for it
    pc,               \* per thread: the next step of the server's code
    target,           \* per thread: the session it is stopping (shared_ptr)
    todo,             \* per thread: to_remove, or what Stop has left to visit
    fresh             \* `session` of the accept loop (shared_ptr)

server_vars  == <<running_, sessions_, sessions_mutex_>>
session_vars == <<client_id_, s_running, s_connected, work_thread_, socket_>>
thread_vars  == <<pc, target, todo, fresh>>
vars == <<running_, sessions_, sessions_mutex_, accepted, client_id_, s_running,
          s_connected, work_thread_, socket_, peer, disconnects, pc, target,
          todo, fresh>>

(***************************************************************************)
(* work_thread_ is a std::thread: "none" before Start, "loop", "send" (in  *)
(* SendRaw) and "report" (about to add its DISCONNECT event) while it      *)
(* runs, "finished" once its function has returned and it can be joined.   *)
(***************************************************************************)
Joinable  == {"loop", "send", "report", "finished"}
StopSteps == {"stop_test", "stop_flags", "stop_join", "stop_close"}
PCs == StopSteps \cup
       {"none", "check", "done",                              \* both loops
        "accept", "find", "insert", "start_running",          \* AcceptThread
        "start_connected", "start_thread", "connect_event",
        "scan", "remove",                                     \* WorkerThread
        "idle", "disconnect_event",                           \* DisconnectClient
        "lock", "stop_all", "join"}                           \* Stop

TypeOK ==
    /\ running_ \in BOOLEAN
    /\ sessions_ \in [ClientID -> Session \cup {NoSession}]
    /\ sessions_mutex_ \in BOOLEAN
    /\ accepted \in 0 .. MaxSessions
    /\ client_id_ \in [Session -> ClientID \cup {NoClient}]
    /\ s_running \in [Session -> BOOLEAN]
    /\ s_connected \in [Session -> BOOLEAN]
    /\ work_thread_ \in [Session -> Joinable \cup {"none", "joined"}]
    /\ socket_ \in [Session -> {"none", "open", "closed"}]
    /\ peer \in [Session -> {"reading", "stalled", "closed"}]
    /\ disconnects \in [Session -> Nat]
    /\ pc \in [Thread -> PCs]
    /\ target \in [Thread -> Session \cup {NoSession}]
    /\ todo \in [Thread -> SUBSET ClientID]
    /\ fresh \in Session \cup {NoSession}

(***************************************************************************)
(* The constructor leaves the atomic running_ without a value: before the  *)
(* first Start or Stop it reads as either.                                 *)
(***************************************************************************)
Init ==
    /\ running_ \in BOOLEAN
    /\ sessions_ = [ip \in ClientID |-> NoSession]
    /\ sessions_mutex_ = FALSE
    /\ accepted = 0
    /\ client_id_ = [s \in Session |-> NoClient]
    /\ s_running = [s \in Session |-> FALSE]
    /\ s_connected = [s \in Session |-> FALSE]
    /\ work_thread_ = [s \in Session |-> "none"]
    /\ socket_ = [s \in Session |-> "none"]
    /\ peer = [s \in Session |-> "reading"]
    /\ disconnects = [s \in Session |-> 0]
    /\ pc = [t \in Thread |-> IF t \in {Accept} \cup Worker THEN "none" ELSE "idle"]
    /\ target = [t \in Thread |-> NoSession]
    /\ todo = [t \in Thread |-> {}]
    /\ fresh = NoSession

Registered(s) == \E ip \in ClientID : sessions_[ip] = s

(***************************************************************************)
(* A session object lives as long as a shared_ptr to it.  Its destructor   *)
(* does not join: ~std::thread of a joinable thread calls std::terminate.  *)
(***************************************************************************)
Referenced(s) ==
    \/ Registered(s)
    \/ s = fresh
    \/ \E t \in Thread : target[t] = s

Aborted == \E s \in Session : work_thread_[s] \in Joinable /\ ~Referenced(s)

Goto(t, label) == pc' = [pc EXCEPT ![t] = label]

-----------------------------------------------------------------------------
(* JostickTcpSession::Stop, called by thread t on target[t].               *)

\* Where the caller continues when JostickTcpSession::Stop returns.
AfterStop(t) == CASE t = Accept  -> "insert"
                  [] t = Control -> "stop_all"
                  [] OTHER       -> "disconnect_event"

\* if (running_)
SessionStop_Test(t) ==
    /\ pc[t] = "stop_test"
    /\ Goto(t, IF s_running[target[t]] THEN "stop_flags" ELSE "stop_close")
    /\ UNCHANGED <<server_vars, session_vars, accepted, peer, disconnects,
                   target, todo, fresh>>

\* Mutant of SessionStop_Flags: running_ stays set.
SessionStop_Flags_Running(t) ==
    /\ pc[t] = "stop_flags"
    /\ s_connected' = [s_connected EXCEPT ![target[t]] = FALSE]
    /\ Goto(t, "stop_join")
    /\ UNCHANGED <<server_vars, client_id_, s_running, work_thread_, socket_,
                   accepted, peer, disconnects, target, todo, fresh>>

\* running_ = false; connected_ = false; send_cv_.notify_one()
SessionStop_Flags(t) ==
    /\ pc[t] = "stop_flags"
    /\ s_running' = [s_running EXCEPT ![target[t]] = FALSE]
    /\ s_connected' = [s_connected EXCEPT ![target[t]] = FALSE]
    /\ Goto(t, "stop_join")
    /\ UNCHANGED <<server_vars, client_id_, work_thread_, socket_, accepted,
                   peer, disconnects, target, todo, fresh>>

\* if (work_thread_.joinable()) work_thread_.join()
SessionStop_Join(t) ==
    /\ pc[t] = "stop_join"
    /\ \/ /\ work_thread_[target[t]] \notin Joinable
          /\ UNCHANGED work_thread_
       \/ /\ work_thread_[target[t]] = "finished"
          /\ work_thread_' = [work_thread_ EXCEPT ![target[t]] = "joined"]
    /\ Goto(t, "stop_close")
    /\ UNCHANGED <<server_vars, client_id_, s_running, s_connected, socket_,
                   accepted, peer, disconnects, target, todo, fresh>>

\* close(socket_); socket_ = -1
SessionStop_Close(t) ==
    /\ pc[t] = "stop_close"
    /\ socket_' = [socket_ EXCEPT ![target[t]] = "closed"]
    /\ Goto(t, AfterStop(t))
    /\ UNCHANGED <<server_vars, client_id_, s_running, s_connected, work_thread_,
                   accepted, peer, disconnects, target, todo, fresh>>

SessionStop(t) ==
    \/ SessionStop_Test(t)
    \/ SessionStop_Flags(t)
    \/ SessionStop_Join(t)
    \/ SessionStop_Close(t)

-----------------------------------------------------------------------------
(* DisconnectClient, called by an application thread or a worker thread.   *)

\* Mutant of DisconnectClient: sessions_.erase(it) is missing.
DisconnectClient_NoErase(t, ip) ==
    /\ ~sessions_mutex_
    /\ IF sessions_[ip] # NoSession
       THEN /\ target' = [target EXCEPT ![t] = sessions_[ip]]
            /\ Goto(t, "stop_test")
       ELSE UNCHANGED <<target, pc>>
    /\ UNCHANGED <<server_vars, session_vars, accepted, peer, disconnects, fresh>>

\* Looks ip up and erases its entry, in one critical section.
DisconnectClient(t, ip) ==
    /\ ~sessions_mutex_
    /\ IF sessions_[ip] # NoSession
       THEN /\ target' = [target EXCEPT ![t] = sessions_[ip]]
            /\ sessions_' = [sessions_ EXCEPT ![ip] = NoSession]
            /\ Goto(t, "stop_test")
       ELSE UNCHANGED <<target, sessions_, pc>>
    /\ UNCHANGED <<running_, sessions_mutex_, session_vars, accepted, peer,
                   disconnects, fresh>>

\* session->Stop() has returned: AddEvent(DISCONNECT), drop the shared_ptr.
DisconnectClient_Event(t) ==
    /\ pc[t] = "disconnect_event"
    /\ disconnects' = [disconnects EXCEPT ![target[t]] = @ + 1]
    /\ target' = [target EXCEPT ![t] = NoSession]
    /\ Goto(t, IF t \in Worker THEN "remove" ELSE "idle")
    /\ UNCHANGED <<server_vars, session_vars, accepted, peer, todo, fresh>>

AppDisconnect(t, ip) ==
    /\ pc[t] = "idle"
    /\ DisconnectClient(t, ip)
    /\ UNCHANGED todo

-----------------------------------------------------------------------------
(* WorkerThread of the server.                                             *)

\* while (running_)
WorkerCheck(t) ==
    /\ pc[t] = "check"
    /\ Goto(t, IF running_ THEN "scan" ELSE "done")
    /\ UNCHANGED <<server_vars, session_vars, accepted, peer, disconnects,
                   target, todo, fresh>>

\* Mutant of WorkerScan: to_remove collects sessions instead of addresses.
WorkerScan_Sessions(t) ==
    /\ pc[t] = "scan"
    /\ ~sessions_mutex_
    /\ todo' = [todo EXCEPT ![t] =
                  {s \in Session : Registered(s) /\ ~s_connected[s]}]
    /\ Goto(t, "remove")
    /\ UNCHANGED <<server_vars, session_vars, accepted, peer, disconnects,
                   target, fresh>>

\* Mutant of WorkerScan: asks running_, which a lost connection leaves set.
WorkerScan_Running(t) ==
    /\ pc[t] = "scan"
    /\ ~sessions_mutex_
    /\ todo' = [todo EXCEPT ![t] =
                  {ip \in ClientID : /\ sessions_[ip] # NoSession
                                     /\ ~s_running[sessions_[ip]]}]
    /\ Goto(t, "remove")
    /\ UNCHANGED <<server_vars, session_vars, accepted, peer, disconnects,
                   target, fresh>>

\* Collects in to_remove the clients whose session is not connected.
WorkerScan(t) ==
    /\ pc[t] = "scan"
    /\ ~sessions_mutex_
    /\ todo' = [todo EXCEPT ![t] =
                  {ip \in ClientID : /\ sessions_[ip] # NoSession
                                     /\ ~s_connected[sessions_[ip]]}]
    /\ Goto(t, "remove")
    /\ UNCHANGED <<server_vars, session_vars, accepted, peer, disconnects,
                   target, fresh>>

\* for (auto ip : to_remove) DisconnectClient(ip)
WorkerRemove(t, ip) ==
    /\ pc[t] = "remove"
    /\ ip \in todo[t]
    /\ todo' = [todo EXCEPT ![t] = @ \ {ip}]
    /\ DisconnectClient(t, ip)

\* to_remove is exhausted: sleep one second, then test running_ again.
WorkerSleep(t) ==
    /\ pc[t] = "remove"
    /\ todo[t] = {}
    /\ Goto(t, "check")
    /\ UNCHANGED <<server_vars, session_vars, accepted, peer, disconnects,
                   target, todo, fresh>>

-----------------------------------------------------------------------------
(* AcceptThread.                                                           *)

\* while (running_)
AcceptCheck ==
    /\ pc[Accept] = "check"
    /\ Goto(Accept, IF running_ THEN "accept" ELSE "done")
    /\ UNCHANGED <<server_vars, session_vars, accepted, peer, disconnects,
                   target, todo, fresh>>

\* accept() has no connection to return.
AcceptNothing ==
    /\ pc[Accept] = "accept"
    /\ Goto(Accept, "check")
    /\ UNCHANGED <<server_vars, session_vars, accepted, peer, disconnects,
                   target, todo, fresh>>

\* accept() returns the descriptor of a connection from ip.
AcceptConnection(ip) ==
    /\ pc[Accept] = "accept"
    /\ accepted < MaxSessions
    /\ accepted' = accepted + 1
    /\ fresh' = accepted + 1
    /\ client_id_' = [client_id_ EXCEPT ![accepted + 1] = ip]
    /\ socket_' = [socket_ EXCEPT ![accepted + 1] = "open"]
    /\ Goto(Accept, "find")
    /\ UNCHANGED <<server_vars, s_running, s_connected, work_thread_, peer,
                   disconnects, target, todo>>

\* Mutant of AcceptFind: the old session stays in the registry.
AcceptFind_NoErase ==
    /\ pc[Accept] = "find"
    /\ ~sessions_mutex_
    /\ LET ip == client_id_[fresh] IN
       /\ target' = [target EXCEPT ![Accept] = sessions_[ip]]
       /\ Goto(Accept, IF sessions_[ip] # NoSession THEN "stop_test" ELSE "insert")
    /\ UNCHANGED <<server_vars, session_vars, accepted, peer, disconnects,
                   todo, fresh>>

\* Mutant of AcceptFind: the old session is erased and not stopped.
AcceptFind_NoStop ==
    /\ pc[Accept] = "find"
    /\ ~sessions_mutex_
    /\ sessions_' = [sessions_ EXCEPT ![client_id_[fresh]] = NoSession]
    /\ Goto(Accept, "insert")
    /\ UNCHANGED <<running_, sessions_mutex_, session_vars, accepted, peer,
                   disconnects, target, todo, fresh>>

\* Takes the session of the same address, if any, out of the registry.
AcceptFind ==
    /\ pc[Accept] = "find"
    /\ ~sessions_mutex_
    /\ LET ip == client_id_[fresh] IN
       /\ target' = [target EXCEPT ![Accept] = sessions_[ip]]
       /\ sessions_' = [sessions_ EXCEPT ![ip] = NoSession]
       /\ Goto(Accept, IF sessions_[ip] # NoSession THEN "stop_test" ELSE "insert")
    /\ UNCHANGED <<running_, sessions_mutex_, session_vars, accepted, peer,
                   disconnects, todo, fresh>>

\* sessions_[clientIp] = session
AcceptInsert ==
    /\ pc[Accept] = "insert"
    /\ ~sessions_mutex_
    /\ sessions_' = [sessions_ EXCEPT ![client_id_[fresh]] = fresh]
    /\ Goto(Accept, "start_running")
    /\ UNCHANGED <<running_, sessions_mutex_, session_vars, accepted, peer,
                   disconnects, target, todo, fresh>>

\* JostickTcpSession::Start: returns if running_, else sets it.
SessionStart_Running ==
    /\ pc[Accept] = "start_running"
    /\ s_running' = [s_running EXCEPT ![fresh] = TRUE]
    /\ Goto(Accept, IF s_running[fresh] THEN "connect_event" ELSE "start_connected")
    /\ UNCHANGED <<server_vars, client_id_, s_connected, work_thread_, socket_,
                   accepted, peer, disconnects, target, todo, fresh>>

SessionStart_Connected ==
    /\ pc[Accept] = "start_connected"
    /\ s_connected' = [s_connected EXCEPT ![fresh] = TRUE]
    /\ Goto(Accept, "start_thread")
    /\ UNCHANGED <<server_vars, client_id_, s_running, work_thread_, socket_,
                   accepted, peer, disconnects, target, todo, fresh>>

SessionStart_Thread ==
    /\ pc[Accept] = "start_thread"
    /\ work_thread_' = [work_thread_ EXCEPT ![fresh] = "loop"]
    /\ Goto(Accept, "connect_event")
    /\ UNCHANGED <<server_vars, client_id_, s_running, s_connected, socket_,
                   accepted, peer, disconnects, target, todo, fresh>>

\* AddEvent(CONNECT); the iteration ends and drops session and old_session.
AcceptEvent ==
    /\ pc[Accept] = "connect_event"
    /\ fresh' = NoSession
    /\ target' = [target EXCEPT ![Accept] = NoSession]
    /\ Goto(Accept, "check")
    /\ UNCHANGED <<server_vars, session_vars, accepted, peer, disconnects, todo>>

AcceptThread ==
    \/ AcceptCheck \/ AcceptNothing \/ AcceptFind \/ AcceptInsert
    \/ SessionStart_Running \/ SessionStart_Connected \/ SessionStart_Thread
    \/ AcceptEvent

-----------------------------------------------------------------------------
(* Start and Stop of the server, on the control thread.                    *)

\* Start that succeeds in listening; one that fails changes nothing here.
Start ==
    /\ pc[Control] = "idle"
    /\ ~running_
    /\ running_' = TRUE
    /\ pc' = [t \in Thread |-> IF t \in {Accept} \cup Worker THEN "check" ELSE pc[t]]
    /\ UNCHANGED <<sessions_, sessions_mutex_, session_vars, accepted, peer,
                   disconnects, target, todo, fresh>>

\* if (running_) running_ = false
Stop_Begin ==
    /\ pc[Control] = "idle"
    /\ running_
    /\ running_' = FALSE
    /\ Goto(Control, "lock")
    /\ UNCHANGED <<sessions_, sessions_mutex_, session_vars, accepted, peer,
                   disconnects, target, todo, fresh>>

\* Mutant of Stop_Lock: the sessions are left to the worker threads.
Stop_Lock_Skip ==
    /\ pc[Control] = "lock"
    /\ ~sessions_mutex_
    /\ Goto(Control, "join")
    /\ UNCHANGED <<server_vars, session_vars, accepted, peer, disconnects,
                   target, todo, fresh>>

\* Takes sessions_mutex_ and starts to iterate over sessions_.
Stop_Lock ==
    /\ pc[Control] = "lock"
    /\ ~sessions_mutex_
    /\ sessions_mutex_' = TRUE
    /\ todo' = [todo EXCEPT ![Control] = {ip \in ClientID : sessions_[ip] # NoSession}]
    /\ Goto(Control, "stop_all")
    /\ UNCHANGED <<running_, sessions_, session_vars, accepted, peer, disconnects,
                   target, fresh>>

\* session->Stop() for the next entry, with the mutex held.
Stop_Next(ip) ==
    /\ pc[Control] = "stop_all"
    /\ ip \in todo[Control]
    /\ todo' = [todo EXCEPT ![Control] = @ \ {ip}]
    /\ target' = [target EXCEPT ![Control] = sessions_[ip]]
    /\ Goto(Control, "stop_test")
    /\ UNCHANGED <<server_vars, session_vars, accepted, peer, disconnects, fresh>>

\* sessions_.clear(), and the mutex is released.
Stop_Clear ==
    /\ pc[Control] = "stop_all"
    /\ todo[Control] = {}
    /\ sessions_' = [ip \in ClientID |-> NoSession]
    /\ sessions_mutex_' = FALSE
    /\ target' = [target EXCEPT ![Control] = NoSession]
    /\ Goto(Control, "join")
    /\ UNCHANGED <<running_, session_vars, accepted, peer, disconnects, todo, fresh>>

\* Joins the accept thread and the workers, closes the listening socket.
Stop_Join ==
    /\ pc[Control] = "join"
    /\ \A t \in {Accept} \cup Worker : pc[t] \in {"none", "done"}
    /\ pc' = [t \in Thread |-> CASE t = Control -> "idle"
                                 [] t \in {Accept} \cup Worker -> "none"
                                 [] OTHER -> pc[t]]
    /\ UNCHANGED <<server_vars, session_vars, accepted, peer, disconnects,
                   target, todo, fresh>>

-----------------------------------------------------------------------------
(* WorkerThread of session s, and the remote end of its connection.        *)

\* Mutant of SessionLoop: connected_ is not cleared when recv returns 0.
SessionLoop_Connected(s) ==
    /\ work_thread_[s] = "loop"
    /\ work_thread_' = [work_thread_ EXCEPT ![s] =
                          IF s_running[s] THEN "report" ELSE "finished"]
    /\ s_running[s] => socket_[s] = "closed" \/ peer[s] = "closed"
    /\ UNCHANGED <<server_vars, client_id_, s_running, s_connected, socket_,
                   accepted, peer, disconnects, thread_vars>>

\* One round: test running_, recv, then the work that leads to SendRaw.  A
\* round that neither ends the loop nor blocks in SendRaw changes nothing here.
SessionLoop(s) ==
    /\ work_thread_[s] = "loop"
    /\ \/ /\ ~s_running[s]
          /\ work_thread_' = [work_thread_ EXCEPT ![s] = "finished"]
          /\ UNCHANGED s_connected
       \/ /\ s_running[s]
          /\ socket_[s] = "closed" \/ peer[s] = "closed"   \* recv fails or returns 0
          /\ s_connected' = [s_connected EXCEPT ![s] = FALSE]
          /\ work_thread_' = [work_thread_ EXCEPT ![s] = "report"]
       \/ /\ s_running[s]
          /\ socket_[s] = "open" /\ peer[s] = "stalled"    \* send: EAGAIN
          /\ work_thread_' = [work_thread_ EXCEPT ![s] = "send"]
          /\ UNCHANGED s_connected
    /\ UNCHANGED <<server_vars, client_id_, s_running, socket_, accepted, peer,
                   disconnects, thread_vars>>

\* Mutant of SessionReport: the break is missing.
SessionReport_NoBreak(s) ==
    /\ work_thread_[s] = "report"
    /\ disconnects' = [disconnects EXCEPT ![s] = @ + 1]
    /\ work_thread_' = [work_thread_ EXCEPT ![s] = "loop"]
    /\ UNCHANGED <<server_vars, client_id_, s_running, s_connected, socket_,
                   accepted, peer, thread_vars>>

\* server_->AddEvent(DISCONNECT), then break
SessionReport(s) ==
    /\ work_thread_[s] = "report"
    /\ disconnects' = [disconnects EXCEPT ![s] = @ + 1]
    /\ work_thread_' = [work_thread_ EXCEPT ![s] = "finished"]
    /\ UNCHANGED <<server_vars, client_id_, s_running, s_connected, socket_,
                   accepted, peer, thread_vars>>

\* Mutant of SessionSent: SendRaw does not look at running_.
SessionSent_NoRunning(s) ==
    /\ work_thread_[s] = "send"
    /\ peer[s] # "stalled" \/ socket_[s] = "closed"
    /\ work_thread_' = [work_thread_ EXCEPT ![s] = "loop"]
    /\ UNCHANGED <<server_vars, client_id_, s_running, s_connected, socket_,
                   accepted, peer, disconnects, thread_vars>>

\* SendRaw retries on EAGAIN for as long as running_ is set.
SessionSent(s) ==
    /\ work_thread_[s] = "send"
    /\ peer[s] # "stalled" \/ socket_[s] = "closed" \/ ~s_running[s]
    /\ work_thread_' = [work_thread_ EXCEPT ![s] = "loop"]
    /\ UNCHANGED <<server_vars, client_id_, s_running, s_connected, socket_,
                   accepted, peer, disconnects, thread_vars>>

SessionThread(s) == SessionLoop(s) \/ SessionReport(s) \/ SessionSent(s)

\* The remote end closes, stops reading until its window is full, or resumes.
PeerStep(s) ==
    /\ socket_[s] = "open"
    /\ peer[s] # "closed"
    /\ \E p \in {"reading", "stalled", "closed"} \ {peer[s]} :
          peer' = [peer EXCEPT ![s] = p]
    /\ UNCHANGED <<server_vars, session_vars, accepted, disconnects, thread_vars>>

-----------------------------------------------------------------------------
WorkerThread(t) ==
    \/ WorkerCheck(t) \/ WorkerScan(t) \/ WorkerSleep(t)
    \/ \E ip \in ClientID : WorkerRemove(t, ip)

StopThread ==
    \/ Stop_Lock \/ Stop_Clear \/ Stop_Join
    \/ \E ip \in ClientID : Stop_Next(ip)

ThreadStep ==
    \/ \E t \in Thread : SessionStop(t)
    \/ \E t \in Worker \cup App : DisconnectClient_Event(t)
    \/ \E t \in App, ip \in ClientID : AppDisconnect(t, ip)
    \/ \E t \in Worker : WorkerThread(t)
    \/ AcceptThread
    \/ \E ip \in ClientID : AcceptConnection(ip)
    \/ Start
    \/ Stop_Begin
    \/ StopThread
    \/ \E s \in Session : SessionThread(s) \/ PeerStep(s)

\* std::terminate has ended the process.
Terminated == Aborted /\ UNCHANGED vars

Next == (~Aborted /\ ThreadStep) \/ Terminated

Spec == Init /\ [][Next]_vars

(***************************************************************************)
(* Every thread that is running gets scheduled.  Nothing makes a client    *)
(* connect, a peer resume, or the application call into the server.        *)
(***************************************************************************)
Fairness ==
    /\ \A t \in Thread : WF_vars(~Aborted /\ SessionStop(t))
    /\ \A t \in Worker \cup App : WF_vars(~Aborted /\ DisconnectClient_Event(t))
    /\ \A t \in Worker : WF_vars(~Aborted /\ WorkerThread(t))
    /\ WF_vars(~Aborted /\ AcceptThread)
    /\ WF_vars(~Aborted /\ StopThread)
    /\ \A s \in Session : WF_vars(~Aborted /\ SessionThread(s))

FairSpec == Spec /\ Fairness

-----------------------------------------------------------------------------
(* Safety.                                                                 *)

\* A session is stopped by one thread only, and its descriptor is closed at
\* most once, whichever of accept, worker, application and Stop get to it:
\* the thread that takes the entry out of sessions_ is the one that stops it.
StopOnce ==
    /\ \A t \in Thread : pc[t] \in StopSteps =>
          /\ target[t] \in Session
          /\ socket_[target[t]] = "open"
    /\ \A t, u \in Thread :
          /\ pc[t] \in StopSteps
          /\ pc[u] \in StopSteps
          /\ target[t] = target[u]
          => t = u

\* Between the two critical sections of AcceptThread nobody else registers
\* the address: the insertion never overwrites a session, which would drop it
\* with its thread running.
NoOverwrite ==
    pc[Accept] \in StopSteps \cup {"insert"} => sessions_[client_id_[fresh]] = NoSession

\* Who may stop what: the inductive form of StopOnce and NoOverwrite.
Stopping(t)   == pc[t] \in StopSteps
NotYetVisible == pc[Accept] \in StopSteps \cup {"find", "insert"}

\* The registry maps an address to an accepted session of that address; while
\* nobody holds sessions_mutex_ the registered sessions are open.
RegistrySound ==
    \A ip \in ClientID : sessions_[ip] # NoSession =>
        /\ sessions_[ip] <= accepted
        /\ client_id_[sessions_[ip]] = ip
        /\ ~sessions_mutex_ => socket_[sessions_[ip]] = "open"

\* A session is stopped by the thread that unregistered it, or by Stop, which
\* holds the mutex and has struck the address off its list.
StopperOwns ==
    \A t \in Thread : Stopping(t) =>
        /\ target[t] \in 1 .. accepted
        /\ IF t = Control
           THEN /\ sessions_mutex_
                /\ sessions_[client_id_[target[t]]] = target[t]
                /\ client_id_[target[t]] \in ClientID \ todo[t]
           ELSE \A ip \in ClientID : sessions_[ip] # target[t]

\* What is on the list of Stop is registered and open.
StopListSound ==
    /\ sessions_mutex_ <=> Stopping(Control) \/ pc[Control] = "stop_all"
    /\ sessions_mutex_ => \A ip \in todo[Control] :
          sessions_[ip] # NoSession /\ socket_[sessions_[ip]] = "open"

\* The session the accept thread has in hand is known to no other thread.
FreshIsPrivate ==
    NotYetVisible =>
        /\ fresh = accepted /\ fresh # NoSession
        /\ socket_[fresh] = "open"
        /\ client_id_[fresh] \in ClientID
        /\ \A ip \in ClientID : sessions_[ip] # fresh
        /\ \A t \in Thread : Stopping(t) => target[t] # fresh

\* The ownership discipline of sessions_: see the conjuncts.
Ownership ==
    /\ RegistrySound
    /\ StopperOwns
    /\ StopListSound
    /\ FreshIsPrivate
    /\ StopOnce
    /\ NoOverwrite

\* An open connection can still be reached by some thread: no interleaving of
\* replacement, reaping and Stop forgets a session whose descriptor is open.
\* (A session the application may never hear of again would stay connected.)
NoConnectionLeak ==
    \A s \in Session : socket_[s] = "open" => Referenced(s)

\* A client reported as disconnected is not served under the same session:
\* a registered session that SendToClient and Broadcast consider connected
\* has no DISCONNECT event behind it.
LiveNotReported ==
    \A s \in Session :
        Registered(s) /\ s_connected[s] /\ socket_[s] = "open" => disconnects[s] = 0

\* Once Stop has returned, at most one session is left in the registry: the
\* one the accept thread had in hand when running_ was cleared (none would be
\* left if StopClosesAll held).
AtMostOneLeftBehind ==
    pc[Control] = "idle" /\ pc[Accept] = "none" =>
        \A s, u \in Session : Registered(s) /\ Registered(u) => s = u

\* A lost connection is reported by its session thread, by the thread that
\* takes it out of the registry, or by both, and never more often: the session
\* thread ends after its report, and a session has one remover.
ReportedAtMostTwice == \A s \in Session : disconnects[s] <= 2

\* "One IP only one connection: if one exists, disconnect the old one first":
\* no two sessions of one address are being served at the same time.
OneConnectionPerIP ==
    \A s, u \in Session :
        /\ client_id_[s] = client_id_[u]
        /\ s_connected[s] /\ s_connected[u]
        /\ socket_[s] = "open" /\ socket_[u] = "open"
        => s = u

\* "Close all client sessions": when Stop has returned, no session with an
\* open connection is in the registry.
StopClosesAll ==
    pc[Control] = "idle" /\ pc[Accept] = "none" =>
        \A s \in Session : Registered(s) => socket_[s] # "open"

-----------------------------------------------------------------------------
(* The threads implement the life cycle of SessionLifecycle.  Stop leaves  *)
(* an entry in sessions_ while it stops the session: the entry is removed  *)
(* when Stop gets to it, for nobody else can see it any more.              *)

Stage(s) ==
    IF s > accepted THEN "none"
    ELSE IF socket_[s] = "closed" THEN "closed"
    ELSE IF NotYetVisible /\ s = fresh THEN "accepted"
    ELSE IF Registered(s) /\ target[Control] # s THEN "registered"
    ELSE "removed"

Lifecycle == INSTANCE SessionLifecycle
             WITH life <- [s \in Session |-> Stage(s)], who <- client_id_

\* Every interleaving of the threads is a behaviour of SessionLifecycle: each
\* session is registered, removed and closed once and in this order, and an
\* address is registered for one session at a time.
LifecycleSpec == Lifecycle!Spec

-----------------------------------------------------------------------------
(* Liveness.                                                               *)

\* Stop returns, however the peers behave: it may hold sessions_mutex_ while
\* it joins a session thread that is blocked in SendRaw on a stalled peer.
StopReturns == pc[Control] = "lock" ~> (pc[Control] = "idle" \/ Aborted)

\* A session whose thread has ended on its own is found by a worker thread
\* and closed, as long as the server runs.
Reaped ==
    \A s \in Session :
        (Registered(s) /\ work_thread_[s] = "finished")
            ~> (socket_[s] = "closed" \/ ~running_ \/ Aborted)

\* A session taken out of the registry is closed in the end.
RemovedIsClosed ==
    \A s \in Session :
        (\E t \in Thread : pc[t] \in StopSteps /\ target[t] = s)
            ~> (socket_[s] = "closed" \/ Aborted)
=============================================================================
