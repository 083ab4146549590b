------------------------ MODULE JostickTcpServerProofs ------------------------
(***************************************************************************)
(* What holds of the registry for any number of addresses, workers,        *)
(* application threads and connections.                                    *)
(***************************************************************************)
EXTENDS JostickTcpServer, TLAPS

-----------------------------------------------------------------------------
(* Types.                                                                  *)

\* The state of the program is of the declared types when it starts.
LEMMA InitType == Init => TypeOK
<1> SUFFICES ASSUME Init PROVE TypeOK
  OBVIOUS
<1>1. pc \in [Thread -> PCs]
  BY DEF Init, PCs
<1>2. accepted \in 0 .. MaxSessions /\ fresh \in Session \cup {NoSession}
  BY BoundAssumption DEF Init
<1>3. QED BY <1>1, <1>2 DEF Init, TypeOK

\* JostickTcpSession::Stop, whoever calls it, preserves the types.
LEMMA StopStepType ==
    ASSUME TypeOK, NEW t \in Thread, SessionStop(t)
    PROVE  TypeOK'
<1>1. CASE SessionStop_Test(t)
  BY <1>1 DEF TypeOK, SessionStop_Test, Goto, PCs, StopSteps, server_vars, session_vars
<1>2. CASE SessionStop_Flags(t)
  BY <1>2 DEF TypeOK, SessionStop_Flags, Goto, PCs, StopSteps, server_vars
<1>3. CASE SessionStop_Join(t)
  BY <1>3 DEF TypeOK, SessionStop_Join, Goto, PCs, StopSteps, server_vars
<1>4. CASE SessionStop_Close(t)
  BY <1>4 DEF TypeOK, SessionStop_Close, Goto, AfterStop, PCs, StopSteps, server_vars
<1>5. QED BY <1>1, <1>2, <1>3, <1>4 DEF SessionStop

\* So does DisconnectClient, from an application thread or from a worker.
LEMMA DisconnectType ==
    ASSUME TypeOK, NEW t \in Thread
    PROVE  /\ DisconnectClient_Event(t) => TypeOK'
           /\ \A ip \in ClientID : AppDisconnect(t, ip) => TypeOK'
           /\ WorkerThread(t) => TypeOK'
<1>1. ASSUME DisconnectClient_Event(t) PROVE TypeOK'
  <2>1. disconnects' \in [Session -> Nat]
    <3>1. CASE target[t] \in Session
      BY <1>1, <3>1 DEF TypeOK, DisconnectClient_Event
    <3>2. CASE target[t] = NoSession
      <4>1. target[t] \notin Session
        BY <3>2, BoundAssumption DEF Session, NoSession
      <4>2. QED BY <1>1, <4>1 DEF TypeOK, DisconnectClient_Event
    <3>3. QED BY <3>1, <3>2 DEF TypeOK
  <2>2. pc' \in [Thread -> PCs]
    BY <1>1 DEF TypeOK, DisconnectClient_Event, Goto, PCs
  <2>3. QED
    BY <1>1, <2>1, <2>2 DEF TypeOK, DisconnectClient_Event, server_vars, session_vars
<1>2. ASSUME NEW ip \in ClientID, AppDisconnect(t, ip) PROVE TypeOK'
  BY <1>2 DEF TypeOK, AppDisconnect, DisconnectClient, Goto, PCs, StopSteps,
              session_vars
<1>3. ASSUME WorkerThread(t) PROVE TypeOK'
  <2>1. CASE WorkerCheck(t)
    BY <2>1 DEF TypeOK, WorkerCheck, Goto, PCs, server_vars, session_vars
  <2>2. CASE WorkerScan(t)
    BY <2>2 DEF TypeOK, WorkerScan, Goto, PCs, server_vars, session_vars
  <2>3. CASE WorkerSleep(t)
    BY <2>3 DEF TypeOK, WorkerSleep, Goto, PCs, server_vars, session_vars
  <2>4. ASSUME NEW ip \in ClientID, WorkerRemove(t, ip) PROVE TypeOK'
    BY <2>4 DEF TypeOK, WorkerRemove, DisconnectClient, Goto, PCs, StopSteps,
                session_vars
  <2>5. QED BY <1>3, <2>1, <2>2, <2>3, <2>4 DEF WorkerThread
<1>4. QED BY <1>1, <1>2, <1>3

\* So does the accept thread, with JostickTcpSession::Start.
LEMMA AcceptType ==
    ASSUME TypeOK, FreshIsPrivate
    PROVE  /\ AcceptThread => TypeOK'
           /\ \A ip \in ClientID : AcceptConnection(ip) => TypeOK'
<1> Accept \in Thread BY DEF Thread
<1>1. ASSUME AcceptThread PROVE TypeOK'
  <2>1. CASE AcceptCheck
    BY <2>1 DEF TypeOK, AcceptCheck, Goto, PCs, StopSteps, NoSession,
                server_vars, session_vars
  <2>2. CASE AcceptNothing
    BY <2>2 DEF TypeOK, AcceptNothing, Goto, PCs, StopSteps, NoSession,
                server_vars, session_vars
  <2>3. CASE AcceptFind
    <3>1. pc' \in [Thread -> PCs]
      BY <2>3 DEF TypeOK, AcceptFind, Goto, PCs, StopSteps
    <3>2. /\ target' \in [Thread -> Session \cup {NoSession}]
          /\ sessions_' \in [ClientID -> Session \cup {NoSession}]
      BY <2>3 DEF TypeOK, AcceptFind, FreshIsPrivate, NotYetVisible, NoSession
    <3>3. QED BY <2>3, <3>1, <3>2 DEF TypeOK, AcceptFind, session_vars
  <2>4. CASE AcceptInsert
    BY <2>4 DEF TypeOK, AcceptInsert, Goto, PCs, StopSteps, NoSession,
                server_vars, session_vars
  <2>5. CASE SessionStart_Running
    BY <2>5 DEF TypeOK, SessionStart_Running, Goto, PCs, StopSteps, NoSession,
                server_vars, session_vars
  <2>6. CASE SessionStart_Connected
    BY <2>6 DEF TypeOK, SessionStart_Connected, Goto, PCs, StopSteps, NoSession,
                server_vars, session_vars
  <2>7. CASE SessionStart_Thread
    BY <2>7 DEF TypeOK, SessionStart_Thread, Goto, PCs, StopSteps, Joinable, NoSession,
                server_vars, session_vars
  <2>8. CASE AcceptEvent
    BY <2>8 DEF TypeOK, AcceptEvent, Goto, PCs, StopSteps, NoSession,
                server_vars, session_vars
  <2>9. QED
    BY <1>1, <2>1, <2>2, <2>3, <2>4, <2>5, <2>6, <2>7, <2>8 DEF AcceptThread
<1>2. ASSUME NEW ip \in ClientID, AcceptConnection(ip) PROVE TypeOK'
  BY <1>2, BoundAssumption DEF TypeOK, AcceptConnection, Goto, PCs, Session, server_vars
<1>3. QED BY <1>1, <1>2

\* So do Start and Stop of the server.
LEMMA ControlType ==
    ASSUME TypeOK
    PROVE  Start \/ Stop_Begin \/ StopThread => TypeOK'
<1> Control \in Thread BY DEF Thread
<1>1. CASE Start
  BY <1>1 DEF TypeOK, Start, PCs, session_vars
<1>2. CASE Stop_Begin
  BY <1>2 DEF TypeOK, Stop_Begin, Goto, PCs, session_vars
<1>3. CASE Stop_Lock
  BY <1>3 DEF TypeOK, Stop_Lock, Goto, PCs, session_vars
<1>4. CASE Stop_Clear
  BY <1>4 DEF TypeOK, Stop_Clear, Goto, PCs, NoSession, session_vars
<1>5. CASE Stop_Join
  BY <1>5 DEF TypeOK, Stop_Join, PCs, server_vars, session_vars
<1>6. ASSUME NEW ip \in ClientID, Stop_Next(ip) PROVE TypeOK'
  BY <1>6 DEF TypeOK, Stop_Next, Goto, PCs, StopSteps, server_vars, session_vars
<1>7. QED BY <1>1, <1>2, <1>3, <1>4, <1>5, <1>6 DEF StopThread

\* So do the thread of a session and the other end of its connection.
LEMMA SessionType ==
    ASSUME TypeOK, NEW s \in Session
    PROVE  SessionThread(s) \/ PeerStep(s) => TypeOK'
<1>1. CASE SessionLoop(s)
  BY <1>1 DEF TypeOK, SessionLoop, Joinable, server_vars, thread_vars
<1>2. CASE SessionReport(s)
  BY <1>2 DEF TypeOK, SessionReport, Joinable, server_vars, thread_vars
<1>3. CASE SessionSent(s)
  BY <1>3 DEF TypeOK, SessionSent, Joinable, server_vars, thread_vars
<1>4. CASE PeerStep(s)
  BY <1>4 DEF TypeOK, PeerStep, server_vars, session_vars, thread_vars
<1>5. QED BY <1>1, <1>2, <1>3, <1>4 DEF SessionThread

-----------------------------------------------------------------------------
(* Ownership of the sessions.  Most steps only move a thread on: they are  *)
(* quiet.  What is left are the steps that change the registry, take a     *)
(* session to stop, or close a descriptor.                                 *)

Visible == StopSteps \cup {"insert"}

Quiet ==
    /\ UNCHANGED <<sessions_, sessions_mutex_, accepted, client_id_, socket_>>
    /\ todo'[Control] = todo[Control]
    /\ \A t \in Thread : pc'[t] \in StopSteps =>
          pc[t] \in StopSteps /\ target'[t] = target[t]
    /\ pc'[Control] \in StopSteps \cup {"stop_all"} <=>
       pc[Control] \in StopSteps \cup {"stop_all"}
    /\ pc'[Accept] \in Visible => pc[Accept] \in Visible
    /\ pc'[Accept] = "find" => pc[Accept] = "find"
    /\ NotYetVisible' => fresh' = fresh

\* A quiet step changes nobody's rights.
LEMMA QuietStep ==
    ASSUME TypeOK, Ownership, Quiet
    PROVE  Ownership'
<1> Accept \in Thread /\ Control \in Thread BY DEF Thread
<1>1. RegistrySound'
  BY DEF TypeOK, Ownership, RegistrySound, Quiet
<1>2. StopperOwns'
  BY DEF TypeOK, Ownership, StopperOwns, Stopping, Quiet
<1>3. StopListSound'
  BY DEF TypeOK, Ownership, StopListSound, Stopping, Quiet
<1>4. FreshIsPrivate'
  BY DEF TypeOK, Ownership, FreshIsPrivate, Stopping, NotYetVisible, Quiet, Visible
<1>5. StopOnce'
  BY DEF TypeOK, Ownership, StopOnce, Stopping, Quiet
<1>6. NoOverwrite'
  BY DEF TypeOK, Ownership, NoOverwrite, Stopping, NotYetVisible, Quiet, Visible
<1>7. QED BY <1>1, <1>2, <1>3, <1>4, <1>5, <1>6 DEF Ownership

\* Steps that only move on.
LEMMA QuietSteps ==
    ASSUME TypeOK, Ownership
    PROVE  /\ \A t \in Thread : SessionStop_Test(t) \/ SessionStop_Flags(t)
                                 \/ SessionStop_Join(t) => Quiet
           /\ \A t \in Worker \cup App : DisconnectClient_Event(t) => Quiet
           /\ \A t \in Worker : WorkerCheck(t) \/ WorkerScan(t) \/ WorkerSleep(t) => Quiet
           /\ AcceptCheck \/ AcceptNothing \/ SessionStart_Running
                 \/ SessionStart_Connected \/ SessionStart_Thread \/ AcceptEvent => Quiet
           /\ Start \/ Stop_Begin \/ Stop_Join => Quiet
           /\ \A s \in Session : SessionThread(s) \/ PeerStep(s) => Quiet
           /\ UNCHANGED vars => Quiet
<1>1. ASSUME NEW t \in Thread,
             SessionStop_Test(t) \/ SessionStop_Flags(t) \/ SessionStop_Join(t)
      PROVE  Quiet
  <2>1. CASE SessionStop_Test(t)
    BY <2>1 DEF SessionStop_Test, Quiet, Visible, NotYetVisible, TypeOK, StopSteps,
       Goto, server_vars, session_vars, thread_vars, vars
  <2>2. CASE SessionStop_Flags(t)
    BY <2>2 DEF SessionStop_Flags, Quiet, Visible, NotYetVisible, TypeOK, StopSteps,
       Goto, server_vars, session_vars, thread_vars, vars
  <2>3. CASE SessionStop_Join(t)
    BY <2>3 DEF SessionStop_Join, Quiet, Visible, NotYetVisible, TypeOK, StopSteps,
       Goto, server_vars, session_vars, thread_vars, vars
  <2>4. QED BY <1>1, <2>1, <2>2, <2>3
<1>2. ASSUME NEW t \in Worker \cup App, DisconnectClient_Event(t) PROVE Quiet
  BY <1>2 DEF DisconnectClient_Event, Quiet, Visible, NotYetVisible, TypeOK, StopSteps,
     Goto, server_vars, session_vars, thread_vars, vars
<1>3. ASSUME NEW t \in Worker, WorkerCheck(t) \/ WorkerScan(t) \/ WorkerSleep(t) PROVE Quiet
  BY <1>3, ThreadAssumption DEF WorkerCheck, WorkerScan, WorkerSleep, Quiet, Visible,
     NotYetVisible, TypeOK, StopSteps, Goto, server_vars, session_vars, thread_vars,
     vars, Thread
<1>4. ASSUME AcceptCheck \/ AcceptNothing \/ SessionStart_Running
             \/ SessionStart_Connected \/ SessionStart_Thread \/ AcceptEvent
      PROVE  Quiet
  BY <1>4, ThreadAssumption DEF AcceptCheck, AcceptNothing, SessionStart_Running,
     SessionStart_Connected, SessionStart_Thread, AcceptEvent, Quiet, Visible,
     NotYetVisible, TypeOK, StopSteps, Goto, server_vars, session_vars, thread_vars,
     vars, Thread
<1>5. ASSUME Start \/ Stop_Begin \/ Stop_Join PROVE Quiet
  BY <1>5, ThreadAssumption DEF Start, Stop_Begin, Stop_Join, Quiet, Visible,
     NotYetVisible, TypeOK, StopSteps, Goto, server_vars, session_vars, thread_vars,
     vars, Thread
<1>6. ASSUME NEW s \in Session, SessionThread(s) \/ PeerStep(s) PROVE Quiet
  BY <1>6 DEF SessionThread, SessionLoop, SessionReport, SessionSent, PeerStep, Quiet,
     TypeOK, Goto, server_vars, session_vars, thread_vars, vars
<1>7. UNCHANGED vars => Quiet
  BY DEF Quiet, TypeOK, Goto, server_vars, session_vars, thread_vars, vars
<1>8. QED BY <1>1, <1>2, <1>3, <1>4, <1>5, <1>6, <1>7

\* A descriptor is closed by its owner.
LEMMA CloseStep ==
    ASSUME TypeOK, Ownership, NEW t \in Thread, SessionStop_Close(t)
    PROVE  Ownership'
<1>1. RegistrySound'
  BY DEF TypeOK, Ownership, RegistrySound, StopperOwns, FreshIsPrivate, Stopping,
     NotYetVisible, StopSteps, NoSession, SessionStop_Close, Goto, AfterStop,
     server_vars
<1>2. StopperOwns'
  BY DEF TypeOK, Ownership, StopperOwns, Stopping, NotYetVisible, StopSteps, NoSession,
     SessionStop_Close, Goto, AfterStop, server_vars
<1>3. StopListSound'
  BY ThreadAssumption DEF TypeOK, Ownership, RegistrySound, StopperOwns, StopListSound,
     FreshIsPrivate, Stopping, NotYetVisible, StopSteps, Thread, NoSession,
     SessionStop_Close, Goto, AfterStop, server_vars
<1>4. FreshIsPrivate'
  BY DEF TypeOK, Ownership, FreshIsPrivate, Stopping, NotYetVisible, StopSteps,
     NoSession, SessionStop_Close, Goto, AfterStop, server_vars
<1>5. StopOnce'
  BY DEF TypeOK, Ownership, StopOnce, Stopping, NotYetVisible, StopSteps, NoSession,
     SessionStop_Close, Goto, AfterStop, server_vars
<1>6. NoOverwrite'
  BY DEF TypeOK, Ownership, NoOverwrite, Stopping, NotYetVisible, StopSteps, NoSession,
     SessionStop_Close, Goto, AfterStop, server_vars
<1>7. QED BY <1>1, <1>2, <1>3, <1>4, <1>5, <1>6 DEF Ownership

\* DisconnectClient takes the session with its entry.
LEMMA DisconnectStep ==
    ASSUME TypeOK, Ownership, NEW t \in Worker \cup App, NEW ip \in ClientID,
           DisconnectClient(t, ip), pc[t] \notin StopSteps, todo'[Control] = todo[Control]
    PROVE  Ownership'
<1>1. RegistrySound'
  BY DEF TypeOK, Ownership, RegistrySound, NoSession, DisconnectClient, Goto,
     session_vars
<1>2. StopperOwns'
  <2> SUFFICES ASSUME NEW u \in Thread, Stopping(u)'
               PROVE  /\ target'[u] \in 1 .. accepted'
                      /\ IF u = Control
                         THEN /\ sessions_mutex_'
                              /\ sessions_'[client_id_'[target'[u]]] = target'[u]
                              /\ client_id_'[target'[u]] \in ClientID \ todo'[u]
                         ELSE \A a \in ClientID : sessions_'[a] # target'[u]
    BY DEF StopperOwns
  <2>1. CASE u = t
    BY <2>1, ThreadAssumption DEF TypeOK, Ownership, RegistrySound, Stopping, StopSteps,
       Thread, Session, NoSession, DisconnectClient, Goto, session_vars
  <2>2. CASE u # t
    BY <2>2, ThreadAssumption DEF TypeOK, Ownership, StopperOwns, StopListSound, Stopping,
       StopSteps, Thread, NoSession, DisconnectClient, Goto, session_vars
  <2>3. QED BY <2>1, <2>2
<1>3. StopListSound'
  BY ThreadAssumption DEF TypeOK, Ownership, RegistrySound, StopperOwns, StopListSound,
     FreshIsPrivate, Stopping, NotYetVisible, StopSteps, Thread, NoSession,
     DisconnectClient, Goto, session_vars
<1>4. FreshIsPrivate'
  BY ThreadAssumption DEF TypeOK, Ownership, RegistrySound, StopperOwns, FreshIsPrivate,
     Stopping, NotYetVisible, StopSteps, Thread, NoSession, DisconnectClient, Goto,
     session_vars
<1>5. StopOnce'
  BY DEF TypeOK, Ownership, RegistrySound, StopperOwns, FreshIsPrivate, StopOnce,
     Stopping, NotYetVisible, StopSteps, NoSession, DisconnectClient, Goto, session_vars
<1>6. NoOverwrite'
  BY ThreadAssumption DEF TypeOK, Ownership, RegistrySound, StopperOwns, FreshIsPrivate,
     NoOverwrite, Stopping, NotYetVisible, StopSteps, Thread, NoSession,
     DisconnectClient, Goto, session_vars
<1>7. QED BY <1>1, <1>2, <1>3, <1>4, <1>5, <1>6 DEF Ownership

\* A new connection is nobody else's.
LEMMA ConnectionStep ==
    ASSUME TypeOK, Ownership, NEW ip \in ClientID, AcceptConnection(ip)
    PROVE  Ownership'
<1>1. RegistrySound'
  BY BoundAssumption DEF TypeOK, Ownership, RegistrySound, Session, NoSession,
     AcceptConnection, server_vars
<1>2. StopperOwns'
  BY DEF TypeOK, Ownership, StopperOwns, Stopping, NotYetVisible, StopSteps, NoSession,
     AcceptConnection, Goto, server_vars
<1>3. StopListSound'
  BY DEF TypeOK, Ownership, StopListSound, Stopping, NotYetVisible, StopSteps,
     NoSession, AcceptConnection, Goto, server_vars
<1>4. FreshIsPrivate'
  <2>1. accepted + 1 \in Session /\ accepted + 1 # NoSession
    BY BoundAssumption DEF TypeOK, AcceptConnection, Session, NoSession
  <2>2. /\ fresh' = accepted' /\ fresh' = accepted + 1 /\ fresh' # NoSession
        /\ socket_'[fresh'] = "open"
        /\ client_id_'[fresh'] \in ClientID
    BY <2>1 DEF TypeOK, Ownership, FreshIsPrivate, AcceptConnection, Goto, server_vars
  <2>3. ASSUME NEW a \in ClientID PROVE sessions_'[a] # fresh'
    <3>1. CASE sessions_[a] = NoSession
      BY <2>2, <3>1 DEF AcceptConnection, server_vars
    <3>2. CASE sessions_[a] # NoSession
      <4>1. sessions_[a] <= accepted /\ sessions_[a] \in Nat /\ accepted \in Nat
        BY <3>2, BoundAssumption DEF TypeOK, Ownership, RegistrySound, Session, NoSession
      <4>2. QED BY <2>2, <4>1 DEF AcceptConnection, server_vars
    <3>3. QED BY <3>1, <3>2
  <2>4. \A t \in Thread : Stopping(t)' => target'[t] # fresh'
    BY <2>1 DEF TypeOK, Ownership, RegistrySound, StopperOwns, FreshIsPrivate, Stopping,
       NotYetVisible, StopSteps, NoSession, AcceptConnection, Goto, server_vars
  <2>5. QED BY <2>2, <2>3, <2>4 DEF FreshIsPrivate
<1>5. StopOnce'
  BY DEF TypeOK, Ownership, StopOnce, Stopping, NotYetVisible, StopSteps, NoSession,
     AcceptConnection, Goto, server_vars
<1>6. NoOverwrite'
  BY DEF TypeOK, Ownership, NoOverwrite, Stopping, NotYetVisible, StopSteps, NoSession,
     AcceptConnection, Goto, server_vars
<1>7. QED BY <1>1, <1>2, <1>3, <1>4, <1>5, <1>6 DEF Ownership

\* The accept thread takes the old session with its entry.
LEMMA FindStep ==
    ASSUME TypeOK, Ownership, AcceptFind
    PROVE  Ownership'
<1>1. RegistrySound'
  BY DEF TypeOK, Ownership, RegistrySound, NoSession, AcceptFind, Goto, session_vars
<1>2. StopperOwns'
  BY ThreadAssumption DEF TypeOK, Ownership, RegistrySound, StopperOwns, StopListSound,
     FreshIsPrivate, StopOnce, NoOverwrite, Stopping, NotYetVisible, StopSteps, Thread,
     Session, NoSession, AcceptFind, Goto, session_vars
<1>3. StopListSound'
  BY ThreadAssumption DEF TypeOK, Ownership, RegistrySound, StopperOwns, StopListSound,
     FreshIsPrivate, Stopping, NotYetVisible, StopSteps, Thread, NoSession, AcceptFind,
     Goto, session_vars
<1>4. FreshIsPrivate'
  BY DEF TypeOK, Ownership, FreshIsPrivate, Stopping, NotYetVisible, NoSession,
     AcceptFind, Goto, session_vars
<1>5. StopOnce'
  BY DEF TypeOK, Ownership, RegistrySound, StopperOwns, FreshIsPrivate, StopOnce,
     Stopping, NotYetVisible, StopSteps, NoSession, AcceptFind, Goto, session_vars
<1>6. NoOverwrite'
  BY DEF TypeOK, Ownership, RegistrySound, StopperOwns, FreshIsPrivate, NoOverwrite,
     Stopping, NotYetVisible, StopSteps, NoSession, AcceptFind, Goto, session_vars
<1>7. QED BY <1>1, <1>2, <1>3, <1>4, <1>5, <1>6 DEF Ownership

\* Inserting the new session gives it to the registry.
LEMMA InsertStep ==
    ASSUME TypeOK, Ownership, AcceptInsert
    PROVE  Ownership'
<1>1. RegistrySound'
  BY DEF TypeOK, Ownership, RegistrySound, StopperOwns, FreshIsPrivate, Stopping,
     NotYetVisible, StopSteps, NoSession, AcceptInsert, Goto, session_vars
<1>2. StopperOwns'
  BY DEF TypeOK, Ownership, RegistrySound, StopperOwns, FreshIsPrivate, Stopping,
     NotYetVisible, StopSteps, NoSession, AcceptInsert, Goto, session_vars
<1>3. StopListSound'
  BY DEF TypeOK, Ownership, StopListSound, Stopping, NotYetVisible, StopSteps,
     NoSession, AcceptInsert, Goto, session_vars
<1>4. FreshIsPrivate'
  BY ThreadAssumption DEF TypeOK, Ownership, RegistrySound, StopperOwns, FreshIsPrivate,
     Stopping, NotYetVisible, StopSteps, Thread, NoSession, AcceptInsert, Goto,
     session_vars
<1>5. StopOnce'
  BY DEF TypeOK, Ownership, StopOnce, Stopping, NotYetVisible, StopSteps, NoSession,
     AcceptInsert, Goto, session_vars
<1>6. NoOverwrite'
  BY ThreadAssumption DEF TypeOK, Ownership, RegistrySound, StopperOwns, FreshIsPrivate,
     NoOverwrite, Stopping, NotYetVisible, StopSteps, Thread, NoSession, AcceptInsert,
     Goto, session_vars
<1>7. QED BY <1>1, <1>2, <1>3, <1>4, <1>5, <1>6 DEF Ownership

\* Stop takes the mutex and lists what is registered.
LEMMA LockStep ==
    ASSUME TypeOK, Ownership, Stop_Lock
    PROVE  Ownership'
<1>1. RegistrySound'
  BY DEF TypeOK, Ownership, RegistrySound, NoSession, Stop_Lock, Goto, session_vars
<1>2. StopperOwns'
  BY DEF TypeOK, Ownership, StopperOwns, Stopping, NotYetVisible, StopSteps, NoSession,
     Stop_Lock, Goto, session_vars
<1>3. StopListSound'
  BY ThreadAssumption DEF TypeOK, Ownership, RegistrySound, StopperOwns, StopListSound,
     FreshIsPrivate, Stopping, NotYetVisible, StopSteps, Thread, NoSession, Stop_Lock,
     Goto, session_vars
<1>4. FreshIsPrivate'
  BY DEF TypeOK, Ownership, FreshIsPrivate, Stopping, NotYetVisible, StopSteps,
     NoSession, Stop_Lock, Goto, session_vars
<1>5. StopOnce'
  BY DEF TypeOK, Ownership, StopOnce, Stopping, NotYetVisible, StopSteps, NoSession,
     Stop_Lock, Goto, session_vars
<1>6. NoOverwrite'
  BY DEF TypeOK, Ownership, NoOverwrite, Stopping, NotYetVisible, StopSteps, NoSession,
     Stop_Lock, Goto, session_vars
<1>7. QED BY <1>1, <1>2, <1>3, <1>4, <1>5, <1>6 DEF Ownership

\* Stop takes the next session.
LEMMA NextStep ==
    ASSUME TypeOK, Ownership, NEW ip \in ClientID, Stop_Next(ip)
    PROVE  Ownership'
<1>1. RegistrySound'
  BY DEF TypeOK, Ownership, RegistrySound, NoSession, Stop_Next, Goto, server_vars,
     session_vars
<1>2. StopperOwns'
  BY ThreadAssumption DEF TypeOK, Ownership, RegistrySound, StopperOwns, StopListSound,
     FreshIsPrivate, StopOnce, NoOverwrite, Stopping, NotYetVisible, StopSteps, Thread,
     Session, NoSession, Stop_Next, Goto, server_vars, session_vars
<1>3. StopListSound'
  BY DEF TypeOK, Ownership, StopListSound, Stopping, NotYetVisible, StopSteps,
     NoSession, Stop_Next, Goto, server_vars, session_vars
<1>4. FreshIsPrivate'
  BY ThreadAssumption DEF TypeOK, Ownership, RegistrySound, StopperOwns, FreshIsPrivate,
     Stopping, NotYetVisible, StopSteps, Thread, NoSession, Stop_Next, Goto,
     server_vars, session_vars
<1>5. StopOnce'
  BY ThreadAssumption DEF TypeOK, Ownership, RegistrySound, StopperOwns, StopListSound,
     FreshIsPrivate, StopOnce, NoOverwrite, Stopping, NotYetVisible, StopSteps, Thread,
     NoSession, Stop_Next, Goto, server_vars, session_vars
<1>6. NoOverwrite'
  BY ThreadAssumption DEF TypeOK, Ownership, RegistrySound, StopperOwns, FreshIsPrivate,
     NoOverwrite, Stopping, NotYetVisible, StopSteps, Thread, NoSession, Stop_Next,
     Goto, server_vars, session_vars
<1>7. QED BY <1>1, <1>2, <1>3, <1>4, <1>5, <1>6 DEF Ownership

\* Stop empties the registry and releases the mutex.
LEMMA ClearStep ==
    ASSUME TypeOK, Ownership, Stop_Clear
    PROVE  Ownership'
<1>1. RegistrySound'
  BY DEF TypeOK, Ownership, RegistrySound, NoSession, Stop_Clear, Goto, session_vars
<1>2. StopperOwns'
  BY DEF TypeOK, Ownership, StopperOwns, Stopping, NotYetVisible, StopSteps, NoSession,
     Stop_Clear, Goto, session_vars
<1>3. StopListSound'
  BY ThreadAssumption DEF TypeOK, Ownership, RegistrySound, StopperOwns, StopListSound,
     FreshIsPrivate, Stopping, NotYetVisible, StopSteps, Thread, NoSession, Stop_Clear,
     Goto, session_vars
<1>4. FreshIsPrivate'
  BY DEF TypeOK, Ownership, FreshIsPrivate, Stopping, NotYetVisible, StopSteps,
     NoSession, Stop_Clear, Goto, session_vars
<1>5. StopOnce'
  BY DEF TypeOK, Ownership, StopOnce, Stopping, NotYetVisible, StopSteps, NoSession,
     Stop_Clear, Goto, session_vars
<1>6. NoOverwrite'
  BY DEF TypeOK, Ownership, RegistrySound, StopperOwns, FreshIsPrivate, NoOverwrite,
     Stopping, NotYetVisible, StopSteps, NoSession, Stop_Clear, Goto, session_vars
<1>7. QED BY <1>1, <1>2, <1>3, <1>4, <1>5, <1>6 DEF Ownership

-----------------------------------------------------------------------------
(* The invariant, and what follows from it.                                *)

\* At the start nothing is registered and nobody stops anything.
LEMMA InitOwnership == Init => Ownership
  BY ThreadAssumption DEF Init, Ownership, RegistrySound, StopperOwns, StopListSound,
     FreshIsPrivate, StopOnce, NoOverwrite, Stopping, NotYetVisible, StopSteps,
     NoSession, Thread

\* Every step of every thread respects the ownership discipline.
LEMMA NextOwnership ==
    ASSUME TypeOK, Ownership, [Next]_vars
    PROVE  Ownership'
<1>1. ASSUME NEW t \in Thread, SessionStop(t) PROVE Ownership'
  BY <1>1, QuietSteps, QuietStep, CloseStep DEF SessionStop
<1>2. ASSUME NEW t \in Worker \cup App, DisconnectClient_Event(t) PROVE Ownership'
  BY <1>2, QuietSteps, QuietStep
<1>3. ASSUME NEW t \in App, NEW ip \in ClientID, AppDisconnect(t, ip) PROVE Ownership'
  BY <1>3, DisconnectStep DEF AppDisconnect, StopSteps
<1>4. ASSUME NEW t \in Worker, WorkerThread(t) PROVE Ownership'
  <2>1. CASE WorkerCheck(t) \/ WorkerScan(t) \/ WorkerSleep(t)
    BY <2>1, QuietSteps, QuietStep
  <2>2. ASSUME NEW ip \in ClientID, WorkerRemove(t, ip) PROVE Ownership'
    <3>1. todo'[Control] = todo[Control]
      BY <2>2, ThreadAssumption DEF WorkerRemove, TypeOK, Thread
    <3>2. QED BY <2>2, <3>1, DisconnectStep DEF WorkerRemove, StopSteps
  <2>3. QED BY <1>4, <2>1, <2>2 DEF WorkerThread
<1>5. ASSUME AcceptThread PROVE Ownership'
  BY <1>5, QuietSteps, QuietStep, FindStep, InsertStep DEF AcceptThread
<1>6. ASSUME NEW ip \in ClientID, AcceptConnection(ip) PROVE Ownership'
  BY <1>6, ConnectionStep
<1>7. ASSUME Start \/ Stop_Begin PROVE Ownership'
  BY <1>7, QuietSteps, QuietStep
<1>8. ASSUME StopThread PROVE Ownership'
  BY <1>8, QuietSteps, QuietStep, LockStep, NextStep, ClearStep DEF StopThread
<1>9. ASSUME NEW s \in Session, SessionThread(s) \/ PeerStep(s) PROVE Ownership'
  BY <1>9, QuietSteps, QuietStep
<1>10. ASSUME UNCHANGED vars PROVE Ownership'
  BY <1>10, QuietSteps, QuietStep
<1>11. QED
  BY <1>1, <1>2, <1>3, <1>4, <1>5, <1>6, <1>7, <1>8, <1>9, <1>10
     DEF Next, ThreadStep, Terminated

\* The types need the ownership discipline in one place: the accept thread
\* looks up the address of a session it really has.
LEMMA NextType ==
    ASSUME TypeOK, Ownership, [Next]_vars
    PROVE  TypeOK'
<1>1. CASE ThreadStep
  BY <1>1, StopStepType, DisconnectType, AcceptType, ControlType, SessionType
     DEF ThreadStep, Thread, Ownership
<1>2. CASE UNCHANGED vars
  BY <1>2 DEF TypeOK, vars
<1>3. QED BY <1>1, <1>2 DEF Next, Terminated

\* Every variable keeps its type, and every thread is at a step of the server's
\* code, however the threads of Start, Stop, accept and DisconnectClient run.
THEOREM TypeCorrect == Spec => []TypeOK
<1>1. Init => TypeOK /\ Ownership
  BY InitType, InitOwnership
<1>2. TypeOK /\ Ownership /\ [Next]_vars => (TypeOK /\ Ownership)'
  BY NextType, NextOwnership
<1>3. QED BY <1>1, <1>2, PTL DEF Spec

\* The discipline by which the threads share the sessions of sessions_ holds for
\* any number of threads and addresses.
THEOREM OwnershipHolds == Spec => []Ownership
<1>1. Init => TypeOK /\ Ownership
  BY InitType, InitOwnership
<1>2. TypeOK /\ Ownership /\ [Next]_vars => (TypeOK /\ Ownership)'
  BY NextType, NextOwnership
<1>3. QED BY <1>1, <1>2, PTL DEF Spec

\* JostickTcpSession::Stop is executed by one thread per session and closes the
\* descriptor once.
THEOREM StoppedOnce == Spec => []StopOnce
<1>1. Ownership => StopOnce
  BY DEF Ownership
<1>2. QED BY OwnershipHolds, <1>1, PTL

\* Inserting a new session into sessions_ never overwrites another one.
THEOREM NeverOverwritten == Spec => []NoOverwrite
<1>1. Ownership => NoOverwrite
  BY DEF Ownership
<1>2. QED BY OwnershipHolds, <1>1, PTL
===============================================================================
