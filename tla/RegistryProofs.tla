---------------------------- MODULE RegistryProofs ----------------------------
(***************************************************************************)
(* The life of a session, for any number of addresses, threads and         *)
(* connections: no open descriptor is forgotten, the threads of the        *)
(* registry implement SessionLifecycle, the loss of a session is reported  *)
(* as often as it may be, and Stop leaves at most one session behind.      *)
(***************************************************************************)
EXTENDS JostickTcpServerProofs

\* A session that was accepted has a descriptor, be it closed.
SocketOfAccepted == \A s \in Session : socket_[s] = "none" <=> s > accepted

\* Who looks after an open descriptor: the registry, the accept thread that has
\* just got it, or the thread that is about to close it.
OpenIsHeld ==
    \A s \in Session : socket_[s] = "open" =>
        \/ Registered(s)
        \/ NotYetVisible /\ s = fresh
        \/ \E t \in Thread : Stopping(t) /\ target[t] = s

\* Behind the list of Stop every registered session is closed, but for the one
\* that Stop is closing.
ClosedBehindStop ==
    sessions_mutex_ => \A ip \in ClientID : sessions_[ip] # NoSession =>
        \/ socket_[sessions_[ip]] = "closed"
        \/ ip \in todo[Control]
        \/ Stopping(Control) /\ target[Control] = sessions_[ip]

\* What the control thread has had in hand last is closed, or being closed.
ControlTarget ==
    /\ ~sessions_mutex_ => target[Control] = NoSession
    /\ target[Control] # NoSession => socket_[target[Control]] = "closed" \/ Stopping(Control)

\* Start finds no thread of the last Start: Stop has joined them.
ThreadsAreJoined ==
    pc[Control] = "idle" /\ ~running_ => \A t \in {Accept} \cup Worker : pc[t] = "none"

Held == SocketOfAccepted /\ OpenIsHeld /\ ClosedBehindStop /\ ControlTarget

LifeInv == TypeOK /\ Ownership /\ ThreadsAreJoined /\ Held

-----------------------------------------------------------------------------
(* The threads that Start finds.                                           *)

\* Who moves is not a thread that was joined, and does not move the control
\* thread.
OneMoves(t) ==
    /\ running_' = running_
    /\ pc[t] # "none"
    /\ \A u \in Thread : u # t => pc'[u] = pc[u]
    /\ t = Control => pc'[Control] # "idle"

\* Then nothing happens to the threads that were joined.
LEMMA OneMovesJoined ==
    ASSUME ThreadsAreJoined, NEW t \in Thread, OneMoves(t)
    PROVE  ThreadsAreJoined'
  BY ThreadAssumption DEF ThreadsAreJoined, OneMoves, Thread

\* Start and Stop are the exceptions.
LEMMA NextJoined ==
    ASSUME TypeOK, ThreadsAreJoined, [Next]_vars
    PROVE  ThreadsAreJoined'
<1> Control \in Thread /\ Accept \in Thread /\ Accept # Control
  BY ThreadAssumption DEF Thread
<1>1. ASSUME NEW t \in Thread, SessionStop(t)
      PROVE  ThreadsAreJoined'
  <2>1. OneMoves(t)
    BY <1>1, ThreadAssumption DEF TypeOK, OneMoves, SessionStop, SessionStop_Test,
       SessionStop_Flags, SessionStop_Join, SessionStop_Close, AfterStop, Goto, server_vars
  <2> QED
    BY <2>1, OneMovesJoined
<1>2. ASSUME NEW t \in Worker \cup App, DisconnectClient_Event(t)
      PROVE  ThreadsAreJoined'
  <2>1. t \in Thread /\ OneMoves(t)
    BY <1>2, ThreadAssumption DEF TypeOK, OneMoves, DisconnectClient_Event, Goto, Thread, server_vars
  <2> QED
    BY <2>1, OneMovesJoined
<1>3. ASSUME NEW t \in App, NEW ip \in ClientID, AppDisconnect(t, ip)
      PROVE  ThreadsAreJoined'
  <2>1. t \in Thread /\ OneMoves(t)
    BY <1>3, ThreadAssumption DEF TypeOK, OneMoves, AppDisconnect, DisconnectClient, Goto, Thread
  <2> QED
    BY <2>1, OneMovesJoined
<1>4. ASSUME NEW t \in Worker, WorkerThread(t)
      PROVE  ThreadsAreJoined'
  <2>1. t \in Thread /\ OneMoves(t)
    BY <1>4, ThreadAssumption DEF TypeOK, OneMoves, WorkerThread, WorkerCheck, WorkerScan,
       WorkerSleep, WorkerRemove, DisconnectClient, Goto, Thread, server_vars
  <2> QED
    BY <2>1, OneMovesJoined
<1>5. ASSUME AcceptThread \/ \E ip \in ClientID : AcceptConnection(ip)
      PROVE  ThreadsAreJoined'
  <2>1. OneMoves(Accept)
    BY <1>5 DEF TypeOK, OneMoves, AcceptThread, AcceptCheck, AcceptNothing, AcceptFind,
       AcceptInsert, SessionStart_Running, SessionStart_Connected, SessionStart_Thread,
       AcceptEvent, AcceptConnection, Goto, server_vars
  <2> QED
    BY <2>1, OneMovesJoined
<1>6. ASSUME Start
      PROVE  ThreadsAreJoined'
  BY <1>6 DEF ThreadsAreJoined, Start
<1>7. ASSUME Stop_Begin \/ Stop_Lock \/ Stop_Clear \/ \E ip \in ClientID : Stop_Next(ip)
      PROVE  ThreadsAreJoined'
  BY <1>7 DEF TypeOK, ThreadsAreJoined, Stop_Begin, Stop_Lock, Stop_Clear, Stop_Next, Goto
<1>8. ASSUME Stop_Join
      PROVE  ThreadsAreJoined'
  BY <1>8, ThreadAssumption DEF ThreadsAreJoined, Stop_Join, Thread
<1>9. ASSUME NEW s \in Session, SessionThread(s) \/ PeerStep(s)
      PROVE  ThreadsAreJoined'
  BY <1>9 DEF ThreadsAreJoined, SessionThread, SessionLoop, SessionReport, SessionSent,
     PeerStep, server_vars, thread_vars
<1>10. ASSUME UNCHANGED vars
       PROVE  ThreadsAreJoined'
  BY <1>10 DEF ThreadsAreJoined, vars
<1> QED
  BY <1>1, <1>2, <1>3, <1>4, <1>5, <1>6, <1>7, <1>8, <1>9, <1>10
     DEF Next, ThreadStep, StopThread, Terminated

-----------------------------------------------------------------------------
(* Steps that let go of nothing.                                           *)

\* A step that only moves threads on.
Still ==
    /\ Quiet
    /\ target'[Control] = target[Control]
    /\ \A t \in Thread : Stopping(t) => Stopping(t)' /\ target'[t] = target[t]
    /\ NotYetVisible' <=> NotYetVisible

\* The steps that are quiet are still.
LEMMA StillSteps ==
    ASSUME TypeOK, Ownership, ThreadsAreJoined
    PROVE  /\ \A t \in Thread : SessionStop_Test(t) \/ SessionStop_Flags(t)
                                 \/ SessionStop_Join(t) => Still
           /\ \A t \in Worker \cup App : DisconnectClient_Event(t) => Still
           /\ \A t \in Worker : WorkerCheck(t) \/ WorkerScan(t) \/ WorkerSleep(t) => Still
           /\ AcceptCheck \/ AcceptNothing \/ SessionStart_Running
                 \/ SessionStart_Connected \/ SessionStart_Thread \/ AcceptEvent => Still
           /\ Start \/ Stop_Begin \/ Stop_Join => Still
           /\ \A s \in Session : SessionThread(s) \/ PeerStep(s) => Still
           /\ UNCHANGED vars => Still
<1>1. ASSUME NEW t \in Thread,
             SessionStop_Test(t) \/ SessionStop_Flags(t) \/ SessionStop_Join(t)
      PROVE  Still
  <2>1. Quiet
    BY <1>1, QuietSteps
  <2>2. CASE SessionStop_Test(t)
    BY <2>1, <2>2 DEF SessionStop_Test, Still, Stopping, NotYetVisible, TypeOK, StopSteps, Goto
  <2>3. CASE SessionStop_Flags(t)
    BY <2>1, <2>3 DEF SessionStop_Flags, Still, Stopping, NotYetVisible, TypeOK, StopSteps, Goto
  <2>4. CASE SessionStop_Join(t)
    BY <2>1, <2>4 DEF SessionStop_Join, Still, Stopping, NotYetVisible, TypeOK, StopSteps, Goto
  <2> QED
    BY <1>1, <2>2, <2>3, <2>4
<1>2. ASSUME NEW t \in Worker \cup App, DisconnectClient_Event(t)
      PROVE  Still
  <2>1. Quiet
    BY <1>2, QuietSteps
  <2> QED
    BY <1>2, <2>1, ThreadAssumption DEF DisconnectClient_Event, Still, Stopping,
       NotYetVisible, TypeOK, StopSteps, Goto, Thread
<1>3. ASSUME NEW t \in Worker, WorkerCheck(t) \/ WorkerScan(t) \/ WorkerSleep(t)
      PROVE  Still
  <2>1. Quiet
    BY <1>3, QuietSteps
  <2> QED
    BY <1>3, <2>1, ThreadAssumption DEF WorkerCheck, WorkerScan, WorkerSleep, Still,
       Stopping, NotYetVisible, TypeOK, StopSteps, Goto, Thread
<1>4. ASSUME AcceptCheck \/ AcceptNothing \/ SessionStart_Running
             \/ SessionStart_Connected \/ SessionStart_Thread \/ AcceptEvent
      PROVE  Still
  <2>1. Quiet
    BY <1>4, QuietSteps
  <2> QED
    BY <1>4, <2>1, ThreadAssumption DEF AcceptCheck, AcceptNothing, SessionStart_Running,
       SessionStart_Connected, SessionStart_Thread, AcceptEvent, Still, Stopping,
       NotYetVisible, TypeOK, StopSteps, Goto, Thread
<1>5. ASSUME Start \/ Stop_Begin \/ Stop_Join
      PROVE  Still
  <2>1. Quiet
    BY <1>5, QuietSteps
  <2>2. CASE Start
    BY <2>1, <2>2, ThreadAssumption DEF Start, ThreadsAreJoined, Still, Stopping,
       NotYetVisible, TypeOK, StopSteps, Thread
  <2>3. CASE Stop_Begin
    BY <2>1, <2>3, ThreadAssumption DEF Stop_Begin, Still, Stopping, NotYetVisible, TypeOK,
       StopSteps, Goto, Thread
  <2>4. CASE Stop_Join
    BY <2>1, <2>4, ThreadAssumption DEF Stop_Join, Still, Stopping, NotYetVisible, TypeOK,
       StopSteps, Thread
  <2> QED
    BY <1>5, <2>2, <2>3, <2>4
<1>6. ASSUME NEW s \in Session, SessionThread(s) \/ PeerStep(s)
      PROVE  Still
  <2>1. Quiet
    BY <1>6, QuietSteps
  <2> QED
    BY <1>6, <2>1 DEF SessionThread, SessionLoop, SessionReport, SessionSent, PeerStep, Still,
       Stopping, NotYetVisible, thread_vars
<1>7. UNCHANGED vars => Still
  BY QuietSteps DEF Still, Stopping, NotYetVisible, vars
<1> QED
  BY <1>1, <1>2, <1>3, <1>4, <1>5, <1>6, <1>7

\* A step that lets go of nothing keeps who holds what.
LEMMA StillHeld ==
    ASSUME LifeInv, Still
    PROVE  Held'
<1> Control \in Thread /\ Accept \in Thread
  BY DEF Thread
<1>1. SocketOfAccepted'
  BY DEF LifeInv, Held, SocketOfAccepted, Still, Quiet
<1>2. OpenIsHeld'
  BY DEF LifeInv, Held, OpenIsHeld, Registered, Still, Quiet
<1>3. ClosedBehindStop'
  BY DEF LifeInv, Held, ClosedBehindStop, Still, Quiet
<1>4. ControlTarget'
  BY DEF LifeInv, Held, ControlTarget, Still, Quiet
<1> QED
  BY <1>1, <1>2, <1>3, <1>4 DEF Held

\* A descriptor is closed by the thread that holds it.
LEMMA CloseHeld ==
    ASSUME LifeInv, NEW t \in Thread, SessionStop_Close(t)
    PROVE  Held'
<1> Control \in Thread /\ Accept \in Thread
  BY DEF Thread
<1>1. /\ Stopping(t) /\ target[t] \in Session /\ socket_[target[t]] = "open"
      /\ \A u \in Thread : Stopping(u) /\ target[u] = target[t] => u = t
  BY DEF LifeInv, Ownership, StopOnce, Stopping, StopSteps, SessionStop_Close
<1>2. /\ socket_' = [socket_ EXCEPT ![target[t]] = "closed"]
      /\ UNCHANGED <<sessions_, sessions_mutex_, accepted, target, todo, fresh>>
      /\ \A u \in Thread : u # t => pc'[u] = pc[u]
      /\ ~Stopping(t)'
      /\ t = Accept => pc'[Accept] = "insert"
  BY ThreadAssumption DEF LifeInv, TypeOK, SessionStop_Close, Goto, AfterStop, Stopping, StopSteps, server_vars
<1>3. NotYetVisible => NotYetVisible'
  BY <1>2 DEF NotYetVisible
<1>4. SocketOfAccepted'
  BY <1>1, <1>2 DEF LifeInv, TypeOK, Held, SocketOfAccepted
<1>5. OpenIsHeld'
  BY <1>1, <1>2, <1>3 DEF LifeInv, TypeOK, Held, OpenIsHeld, Registered, Stopping
<1>6. ClosedBehindStop'
  BY <1>1, <1>2 DEF LifeInv, TypeOK, Held, ClosedBehindStop, Stopping
<1>7. ControlTarget'
  BY <1>1, <1>2 DEF LifeInv, TypeOK, Held, ControlTarget, Stopping
<1> QED
  BY <1>4, <1>5, <1>6, <1>7 DEF Held

\* DisconnectClient takes over what it removes.
LEMMA DisconnectHeld ==
    ASSUME LifeInv, NEW t \in Worker \cup App, NEW ip \in ClientID,
           DisconnectClient(t, ip), pc[t] \notin StopSteps, todo'[Control] = todo[Control]
    PROVE  Held'
<1> /\ Control \in Thread /\ Accept \in Thread /\ t \in Thread
    /\ t # Control /\ t # Accept
  BY ThreadAssumption DEF Thread
<1>1. UNCHANGED <<sessions_mutex_, accepted, socket_, fresh>> /\ ~sessions_mutex_
  BY DEF DisconnectClient, session_vars
<1>2. target'[Control] = target[Control] /\ pc'[Control] = pc[Control] /\ pc'[Accept] = pc[Accept]
  BY DEF LifeInv, TypeOK, DisconnectClient, Goto
<1>3. SocketOfAccepted'
  BY <1>1 DEF LifeInv, Held, SocketOfAccepted
<1>4. OpenIsHeld'
  <2> SUFFICES ASSUME NEW s \in Session, socket_[s] = "open"
               PROVE  \/ Registered(s)'
                      \/ NotYetVisible' /\ s = fresh'
                      \/ \E u \in Thread : Stopping(u)' /\ target'[u] = s
    BY <1>1 DEF OpenIsHeld
  <2>1. CASE Registered(s)
    <3>1. CASE sessions_[ip] = s
      <4>1. s # NoSession
        BY BoundAssumption DEF Session, NoSession
      <4> QED
        BY <3>1, <4>1 DEF LifeInv, TypeOK, DisconnectClient, Goto, Stopping, StopSteps
    <3>2. CASE sessions_[ip] # s
      BY <2>1, <3>2 DEF LifeInv, TypeOK, Registered, DisconnectClient
    <3> QED
      BY <3>1, <3>2
  <2>2. CASE NotYetVisible /\ s = fresh
    BY <1>1, <1>2, <2>2 DEF NotYetVisible
  <2>3. ASSUME NEW u \in Thread, Stopping(u), target[u] = s
        PROVE  Stopping(u)' /\ target'[u] = s
    <3>1. u # t
      BY <2>3 DEF Stopping
    <3> QED
      BY <2>3, <3>1 DEF LifeInv, TypeOK, DisconnectClient, Goto, Stopping
  <2> QED
    BY <2>1, <2>2, <2>3 DEF LifeInv, Held, OpenIsHeld
<1>5. ClosedBehindStop'
  BY <1>1 DEF ClosedBehindStop
<1>6. ControlTarget'
  BY <1>1, <1>2 DEF LifeInv, Held, ControlTarget, Stopping
<1> QED
  BY <1>3, <1>4, <1>5, <1>6 DEF Held

\* The accept thread holds the connection it has accepted.
LEMMA ConnectionHeld ==
    ASSUME LifeInv, NEW ip \in ClientID, AcceptConnection(ip)
    PROVE  Held'
<1> Control \in Thread /\ Accept \in Thread /\ Accept # Control
  BY ThreadAssumption DEF Thread
<1>1. /\ accepted \in Nat /\ accepted + 1 \in Session /\ accepted' = accepted + 1
      /\ fresh' = accepted + 1
      /\ socket_' = [socket_ EXCEPT ![accepted + 1] = "open"]
      /\ UNCHANGED <<sessions_, sessions_mutex_, target, todo>>
      /\ pc[Accept] = "accept" /\ pc'[Accept] = "find"
      /\ \A u \in Thread : u # Accept => pc'[u] = pc[u]
  BY BoundAssumption DEF LifeInv, TypeOK, AcceptConnection, Goto, Session, server_vars
<1>2. \A s \in Session : s # accepted + 1 => socket_'[s] = socket_[s]
  BY <1>1 DEF LifeInv, TypeOK
<1>3. socket_[accepted + 1] = "none" /\ socket_'[accepted + 1] = "open"
  BY <1>1 DEF LifeInv, TypeOK, Held, SocketOfAccepted
<1>4. SocketOfAccepted'
  <2> SUFFICES ASSUME NEW s \in Session
               PROVE  socket_'[s] = "none" <=> s > accepted'
    BY DEF SocketOfAccepted
  <2>1. s \in Nat
    BY BoundAssumption DEF Session
  <2>2. CASE s = accepted + 1
    BY <1>1, <1>3, <2>2
  <2>3. CASE s # accepted + 1
    <3>1. s > accepted <=> s > accepted + 1
      BY <1>1, <2>1, <2>3
    <3> QED
      BY <1>1, <1>2, <2>3, <3>1 DEF LifeInv, Held, SocketOfAccepted
  <2> QED
    BY <2>2, <2>3
<1>5. OpenIsHeld'
  <2> SUFFICES ASSUME NEW s \in Session, socket_'[s] = "open"
               PROVE  \/ Registered(s)'
                      \/ NotYetVisible' /\ s = fresh'
                      \/ \E u \in Thread : Stopping(u)' /\ target'[u] = s
    BY DEF OpenIsHeld
  <2>1. CASE s = accepted + 1
    BY <1>1, <2>1 DEF NotYetVisible
  <2>2. CASE s # accepted + 1
    <3>1. Registered(s) \/ \E u \in Thread : Stopping(u) /\ target[u] = s
      BY <1>1, <1>2, <2>2 DEF LifeInv, Held, OpenIsHeld, NotYetVisible, StopSteps
    <3>2. \A u \in Thread : Stopping(u) => Stopping(u)'
      BY <1>1 DEF Stopping, StopSteps
    <3> QED
      BY <1>1, <3>1, <3>2 DEF Registered
  <2> QED
    BY <2>1, <2>2
<1>6. \A a \in ClientID : sessions_[a] # NoSession => sessions_[a] \in Session /\ sessions_[a] # accepted + 1
  <2> SUFFICES ASSUME NEW a \in ClientID, sessions_[a] # NoSession
               PROVE  sessions_[a] \in Session /\ sessions_[a] # accepted + 1
    OBVIOUS
  <2>1. sessions_[a] \in Session /\ sessions_[a] <= accepted
    BY DEF LifeInv, TypeOK, Ownership, RegistrySound
  <2> QED
    BY <1>1, <2>1
<1>7. ClosedBehindStop'
  BY <1>1, <1>2, <1>6 DEF LifeInv, Held, ClosedBehindStop, Stopping
<1>8. ControlTarget'
  BY <1>1, <1>2, <1>3 DEF LifeInv, TypeOK, Held, ControlTarget, Stopping
<1> QED
  BY <1>4, <1>5, <1>7, <1>8 DEF Held

\* The accept thread takes over the old session of the address.
LEMMA FindHeld ==
    ASSUME LifeInv, AcceptFind
    PROVE  Held'
<1> Control \in Thread /\ Accept \in Thread /\ Accept # Control
  BY ThreadAssumption DEF Thread
<1> DEFINE ip == client_id_[fresh]
<1>1. /\ UNCHANGED <<sessions_mutex_, accepted, socket_, fresh>> /\ ~sessions_mutex_
      /\ target'[Control] = target[Control] /\ pc'[Control] = pc[Control]
      /\ ip \in ClientID
      /\ NotYetVisible /\ NotYetVisible' /\ ~Stopping(Accept)
  BY DEF LifeInv, TypeOK, Ownership, FreshIsPrivate, AcceptFind, Goto, NotYetVisible, Stopping,
     StopSteps, session_vars
<1>2. SocketOfAccepted'
  BY <1>1 DEF LifeInv, Held, SocketOfAccepted
<1>3. OpenIsHeld'
  <2> SUFFICES ASSUME NEW s \in Session, socket_[s] = "open"
               PROVE  \/ Registered(s)'
                      \/ NotYetVisible' /\ s = fresh'
                      \/ \E u \in Thread : Stopping(u)' /\ target'[u] = s
    BY <1>1 DEF OpenIsHeld
  <2>1. CASE Registered(s)
    <3>1. CASE sessions_[ip] = s
      <4>1. s # NoSession
        BY BoundAssumption DEF Session, NoSession
      <4> QED
        BY <3>1, <4>1 DEF LifeInv, TypeOK, AcceptFind, Goto, Stopping, StopSteps
    <3>2. CASE sessions_[ip] # s
      BY <2>1, <3>2 DEF LifeInv, TypeOK, Registered, AcceptFind
    <3> QED
      BY <3>1, <3>2
  <2>2. CASE NotYetVisible /\ s = fresh
    BY <1>1, <2>2
  <2>3. ASSUME NEW u \in Thread, Stopping(u), target[u] = s
        PROVE  Stopping(u)' /\ target'[u] = s
    BY <1>1, <2>3 DEF LifeInv, TypeOK, AcceptFind, Goto, Stopping
  <2> QED
    BY <2>1, <2>2, <2>3 DEF LifeInv, Held, OpenIsHeld
<1>4. ClosedBehindStop'
  BY <1>1 DEF ClosedBehindStop
<1>5. ControlTarget'
  BY <1>1 DEF LifeInv, Held, ControlTarget, Stopping
<1> QED
  BY <1>2, <1>3, <1>4, <1>5 DEF Held

\* The accept thread gives its session to the registry.
LEMMA InsertHeld ==
    ASSUME LifeInv, AcceptInsert
    PROVE  Held'
<1> Control \in Thread /\ Accept \in Thread /\ Accept # Control
  BY ThreadAssumption DEF Thread
<1> DEFINE ip == client_id_[fresh]
<1>1. /\ UNCHANGED <<sessions_mutex_, accepted, socket_, fresh, target>> /\ ~sessions_mutex_
      /\ \A u \in Thread : Stopping(u) => Stopping(u)'
      /\ ip \in ClientID /\ sessions_[ip] = NoSession
      /\ sessions_' = [sessions_ EXCEPT ![ip] = fresh]
      /\ NotYetVisible /\ ~Stopping(Accept)
  BY DEF LifeInv, TypeOK, Ownership, FreshIsPrivate, NoOverwrite, AcceptInsert, Goto,
     NotYetVisible, Stopping, StopSteps, session_vars
<1>2. SocketOfAccepted'
  BY <1>1 DEF LifeInv, Held, SocketOfAccepted
<1>3. OpenIsHeld'
  <2> SUFFICES ASSUME NEW s \in Session, socket_[s] = "open"
               PROVE  Registered(s)' \/ \E u \in Thread : Stopping(u)' /\ target'[u] = s
    BY <1>1 DEF OpenIsHeld
  <2>1. CASE Registered(s)
    <3>1. s # NoSession
      BY BoundAssumption DEF Session, NoSession
    <3> QED
      BY <1>1, <2>1, <3>1 DEF LifeInv, TypeOK, Registered
  <2>2. CASE s = fresh
    BY <1>1, <2>2 DEF LifeInv, TypeOK, Registered
  <2> QED
    BY <1>1, <2>1, <2>2 DEF LifeInv, Held, OpenIsHeld
<1>4. ClosedBehindStop'
  BY <1>1 DEF ClosedBehindStop
<1>5. ControlTarget'
  BY <1>1 DEF LifeInv, Held, ControlTarget
<1> QED
  BY <1>2, <1>3, <1>4, <1>5 DEF Held

\* Stop lists all that is registered.
LEMMA LockHeld ==
    ASSUME LifeInv, Stop_Lock
    PROVE  Held'
<1> Control \in Thread /\ Accept \in Thread /\ Accept # Control
  BY ThreadAssumption DEF Thread
<1>1. /\ UNCHANGED <<sessions_, accepted, socket_, fresh, target>>
      /\ sessions_mutex_' /\ target[Control] = NoSession
      /\ todo'[Control] = {ip \in ClientID : sessions_[ip] # NoSession}
      /\ \A u \in Thread : Stopping(u) => Stopping(u)'
      /\ NotYetVisible' <=> NotYetVisible
  BY DEF LifeInv, TypeOK, Held, ControlTarget, Stop_Lock, Goto, NotYetVisible, Stopping,
     StopSteps, session_vars
<1>2. SocketOfAccepted'
  BY <1>1 DEF LifeInv, Held, SocketOfAccepted
<1>3. OpenIsHeld'
  BY <1>1 DEF LifeInv, Held, OpenIsHeld, Registered
<1>4. ClosedBehindStop'
  BY <1>1 DEF ClosedBehindStop
<1>5. ControlTarget'
  BY <1>1 DEF ControlTarget
<1> QED
  BY <1>2, <1>3, <1>4, <1>5 DEF Held

\* Stop takes over the session it strikes off its list.
LEMMA NextHeld ==
    ASSUME LifeInv, NEW ip \in ClientID, Stop_Next(ip)
    PROVE  Held'
<1> Control \in Thread /\ Accept \in Thread /\ Accept # Control
  BY ThreadAssumption DEF Thread
<1>1. /\ UNCHANGED <<sessions_, sessions_mutex_, accepted, socket_, fresh>>
      /\ sessions_mutex_ /\ ~Stopping(Control) /\ Stopping(Control)'
      /\ target'[Control] = sessions_[ip]
      /\ todo'[Control] = todo[Control] \ {ip}
      /\ \A u \in Thread : Stopping(u) => Stopping(u)' /\ target'[u] = target[u]
      /\ NotYetVisible' <=> NotYetVisible
  BY DEF LifeInv, TypeOK, Ownership, StopListSound, Stop_Next, Goto, NotYetVisible, Stopping,
     StopSteps, session_vars, server_vars
<1>2. SocketOfAccepted'
  BY <1>1 DEF LifeInv, Held, SocketOfAccepted
<1>3. OpenIsHeld'
  BY <1>1 DEF LifeInv, Held, OpenIsHeld, Registered
<1>4. ClosedBehindStop'
  BY <1>1 DEF LifeInv, Held, ClosedBehindStop
<1>5. ControlTarget'
  BY <1>1 DEF ControlTarget
<1> QED
  BY <1>2, <1>3, <1>4, <1>5 DEF Held

\* What Stop clears is closed.
LEMMA ClearHeld ==
    ASSUME LifeInv, Stop_Clear
    PROVE  Held'
<1> Control \in Thread /\ Accept \in Thread /\ Accept # Control
  BY ThreadAssumption DEF Thread
<1>1. /\ UNCHANGED <<accepted, socket_, fresh>>
      /\ sessions_mutex_ /\ ~sessions_mutex_' /\ todo[Control] = {}
      /\ ~Stopping(Control) /\ target'[Control] = NoSession
      /\ \A u \in Thread : Stopping(u) => Stopping(u)' /\ target'[u] = target[u]
      /\ NotYetVisible' <=> NotYetVisible
  BY DEF LifeInv, TypeOK, Ownership, StopListSound, Stop_Clear, Goto, NotYetVisible, Stopping,
     StopSteps, session_vars
<1>2. \A s \in Session : Registered(s) => socket_[s] = "closed"
  <2> SUFFICES ASSUME NEW s \in Session, NEW ip \in ClientID, sessions_[ip] = s
               PROVE  socket_[s] = "closed"
    BY DEF Registered
  <2>1. s # NoSession
    BY BoundAssumption DEF Session, NoSession
  <2> QED
    BY <1>1, <2>1 DEF LifeInv, Held, ClosedBehindStop
<1>3. SocketOfAccepted'
  BY <1>1 DEF LifeInv, Held, SocketOfAccepted
<1>4. OpenIsHeld'
  BY <1>1, <1>2 DEF LifeInv, Held, OpenIsHeld
<1>5. ClosedBehindStop'
  BY <1>1 DEF ClosedBehindStop
<1>6. ControlTarget'
  BY <1>1 DEF ControlTarget
<1> QED
  BY <1>3, <1>4, <1>5, <1>6 DEF Held

-----------------------------------------------------------------------------
(* The invariant, and what follows from it.                                *)

\* At the start there is no descriptor.
LEMMA InitLife == Init => LifeInv
<1> SUFFICES ASSUME Init
             PROVE  LifeInv
  OBVIOUS
<1> Control \in Thread /\ Accept \in Thread
  BY DEF Thread
<1>1. TypeOK /\ Ownership
  BY InitType, InitOwnership
<1>2. ThreadsAreJoined
  BY ThreadAssumption DEF Init, ThreadsAreJoined, Thread
<1>3. \A s \in Session : s > 0
  BY BoundAssumption DEF Session
<1>4. Held
  BY <1>3 DEF Init, Held, SocketOfAccepted, OpenIsHeld, ClosedBehindStop, ControlTarget
<1> QED
  BY <1>1, <1>2, <1>4 DEF LifeInv

\* Every open descriptor stays in somebody's hands.
LEMMA NextHeldAll ==
    ASSUME LifeInv, [Next]_vars
    PROVE  Held'
<1> TypeOK /\ Ownership /\ ThreadsAreJoined
  BY DEF LifeInv
<1>1. ASSUME NEW t \in Thread, SessionStop(t)
      PROVE  Held'
  BY <1>1, StillSteps, StillHeld, CloseHeld DEF SessionStop
<1>2. ASSUME NEW t \in Worker \cup App, DisconnectClient_Event(t)
      PROVE  Held'
  BY <1>2, StillSteps, StillHeld
<1>3. ASSUME NEW t \in App, NEW ip \in ClientID, AppDisconnect(t, ip)
      PROVE  Held'
  BY <1>3, DisconnectHeld DEF AppDisconnect, StopSteps
<1>4. ASSUME NEW t \in Worker, WorkerThread(t)
      PROVE  Held'
  <2>1. CASE WorkerCheck(t) \/ WorkerScan(t) \/ WorkerSleep(t)
    BY <2>1, StillSteps, StillHeld
  <2>2. ASSUME NEW ip \in ClientID, WorkerRemove(t, ip)
        PROVE  Held'
    <3>1. todo'[Control] = todo[Control]
      BY <2>2, ThreadAssumption DEF WorkerRemove, TypeOK, Thread
    <3> QED
      BY <2>2, <3>1, DisconnectHeld DEF WorkerRemove, StopSteps
  <2> QED
    BY <1>4, <2>1, <2>2 DEF WorkerThread
<1>5. ASSUME AcceptThread
      PROVE  Held'
  BY <1>5, StillSteps, StillHeld, FindHeld, InsertHeld DEF AcceptThread
<1>6. ASSUME NEW ip \in ClientID, AcceptConnection(ip)
      PROVE  Held'
  BY <1>6, ConnectionHeld
<1>7. ASSUME Start \/ Stop_Begin
      PROVE  Held'
  BY <1>7, StillSteps, StillHeld
<1>8. ASSUME StopThread
      PROVE  Held'
  BY <1>8, StillSteps, StillHeld, LockHeld, NextHeld, ClearHeld DEF StopThread
<1>9. ASSUME NEW s \in Session, SessionThread(s) \/ PeerStep(s)
      PROVE  Held'
  BY <1>9, StillSteps, StillHeld
<1>10. ASSUME UNCHANGED vars
       PROVE  Held'
  BY <1>10, StillSteps, StillHeld
<1> QED
  BY <1>1, <1>2, <1>3, <1>4, <1>5, <1>6, <1>7, <1>8, <1>9, <1>10
     DEF Next, ThreadStep, Terminated

\* The invariant holds in every reachable state of the registry.
THEOREM LifeInvariant == Spec => []LifeInv
<1>1. LifeInv /\ [Next]_vars => LifeInv'
  BY NextType, NextOwnership, NextJoined, NextHeldAll DEF LifeInv
<1> QED
  BY <1>1, InitLife, PTL DEF Spec

\* A descriptor that is open can be reached by some thread: no interleaving of
\* replacement, reaping and Stop forgets a connection.
THEOREM NoneIsForgotten == Spec => []NoConnectionLeak
<1>1. LifeInv => NoConnectionLeak
  BY DEF LifeInv, Held, OpenIsHeld, NoConnectionLeak, Referenced
<1> QED
  BY <1>1, LifeInvariant, PTL

-----------------------------------------------------------------------------
(* The registry implements SessionLifecycle.                               *)

\* What the stage of a session depends on.
Young(s)      == NotYetVisible /\ s = fresh
Listed(s)     == Registered(s) /\ target[Control] # s
StageStays(s) == Stage(s)' = Stage(s)

\* If none of it changes the stage does not.
LEMMA SameStage ==
    ASSUME NEW s \in Session, accepted' = accepted, socket_'[s] = socket_[s],
           Young(s)' <=> Young(s), Listed(s)' <=> Listed(s)
    PROVE  StageStays(s)
  BY DEF Stage, StageStays, Young, Listed, NotYetVisible

\* A closed session stays closed.
LEMMA ClosedStage ==
    ASSUME NEW s \in Session, accepted' = accepted, socket_'[s] = socket_[s],
           socket_[s] = "closed"
    PROVE  StageStays(s)
  BY DEF Stage, StageStays

\* A step that leaves all sessions where they are.
LEMMA Stutters ==
    ASSUME \A s \in Session : StageStays(s), client_id_' = client_id_
    PROVE  UNCHANGED Lifecycle!vars
  BY DEF Lifecycle!vars, StageStays

\* A step that moves one of them.
LEMMA Advances ==
    ASSUME NEW s \in Session, NEW from, NEW to, Stage(s) = from, Stage(s)' = to,
           \A r \in Session : r # s => StageStays(r)
    PROVE  Lifecycle!Advance(s, from, to)
  BY DEF Lifecycle!Advance, StageStays

\* A session of the registry is accepted, is not the one the accept thread
\* holds back, and is registered under one address.
LEMMA RegisteredOnce ==
    ASSUME LifeInv, NEW ip \in ClientID, sessions_[ip] # NoSession
    PROVE  /\ sessions_[ip] \in Session /\ ~(sessions_[ip] > accepted)
           /\ ~Young(sessions_[ip])
           /\ \A a \in ClientID : sessions_[a] = sessions_[ip] => a = ip
           /\ ~sessions_mutex_ => /\ socket_[sessions_[ip]] = "open"
                                  /\ target[Control] # sessions_[ip]
<1>1. /\ sessions_[ip] \in Session /\ sessions_[ip] <= accepted
      /\ client_id_[sessions_[ip]] = ip
      /\ ~sessions_mutex_ => socket_[sessions_[ip]] = "open"
  BY DEF LifeInv, TypeOK, Ownership, RegistrySound
<1>2. ~(sessions_[ip] > accepted)
  BY <1>1, BoundAssumption DEF LifeInv, TypeOK, Session
<1>3. ~Young(sessions_[ip])
  BY DEF LifeInv, Ownership, FreshIsPrivate, Young
<1>4. \A a \in ClientID : sessions_[a] = sessions_[ip] => a = ip
  BY <1>1 DEF LifeInv, Ownership, RegistrySound
<1>5. ~sessions_mutex_ => target[Control] # sessions_[ip]
  BY DEF LifeInv, Held, ControlTarget
<1> QED
  BY <1>1, <1>2, <1>3, <1>4, <1>5

\* A session that is open and listed is registered.
LEMMA RegisteredStage ==
    ASSUME LifeInv, NEW ip \in ClientID, sessions_[ip] # NoSession,
           socket_[sessions_[ip]] = "open", target[Control] # sessions_[ip]
    PROVE  Stage(sessions_[ip]) = "registered"
<1> DEFINE s == sessions_[ip]
<1>1. s \in Session /\ ~(s > accepted) /\ ~Young(s)
  BY RegisteredOnce
<1>2. Registered(s)
  BY DEF Registered
<1> QED
  BY <1>1, <1>2 DEF Stage, Young, NotYetVisible

\* Once it is off the list it is removed.
LEMMA RemovedStage ==
    ASSUME NEW s \in Session, ~(s > accepted), ~Young(s), ~Listed(s), socket_[s] # "closed"
    PROVE  Stage(s) = "removed"
  BY DEF Stage, Young, Listed, NotYetVisible

\* Still steps do not show.
LEMMA StillLife ==
    ASSUME LifeInv, Still
    PROVE  UNCHANGED Lifecycle!vars
<1>1. UNCHANGED <<sessions_, accepted, client_id_, socket_>> /\ target'[Control] = target[Control]
  BY DEF Still, Quiet
<1>2. \A s \in Session : (Young(s)' <=> Young(s)) /\ (Listed(s)' <=> Listed(s))
  BY <1>1 DEF Still, Quiet, Young, Listed, Registered
<1> QED
  BY <1>1, <1>2, SameStage, Stutters

\* What a thread closes was removed.
LEMMA CloseLife ==
    ASSUME LifeInv, NEW t \in Thread, SessionStop_Close(t)
    PROVE  Lifecycle!Next
<1> Control \in Thread /\ Accept \in Thread /\ Accept # Control
  BY ThreadAssumption DEF Thread
<1>1. PICK s \in Session : s = target[t] /\ Stopping(t) /\ socket_[s] = "open"
  BY DEF LifeInv, Ownership, StopOnce, Stopping, StopSteps, SessionStop_Close
<1>2. /\ socket_' = [socket_ EXCEPT ![s] = "closed"]
      /\ UNCHANGED <<sessions_, accepted, client_id_, target, fresh>>
      /\ NotYetVisible' <=> NotYetVisible
  <2>1. pc' = [pc EXCEPT ![t] = AfterStop(t)] /\ pc[t] = "stop_close"
    BY DEF SessionStop_Close, Goto
  <2>2. NotYetVisible' <=> NotYetVisible
    BY <2>1 DEF LifeInv, TypeOK, AfterStop, NotYetVisible, StopSteps
  <2> QED
    BY <1>1, <2>2 DEF SessionStop_Close, server_vars
<1>3. ~(s > accepted) /\ ~Young(s)
  BY <1>1, BoundAssumption DEF LifeInv, TypeOK, Ownership, StopperOwns, FreshIsPrivate, Young, Session
<1>4. ~Listed(s)
  BY <1>1 DEF LifeInv, Ownership, StopperOwns, Listed, Registered
<1>5. Stage(s) = "removed"
  BY <1>1, <1>3, <1>4, RemovedStage
<1>6. Stage(s)' = "closed"
  BY <1>1, <1>2, <1>3 DEF LifeInv, TypeOK, Stage
<1>7. \A r \in Session : r # s => StageStays(r)
  <2> SUFFICES ASSUME NEW r \in Session, r # s
               PROVE  StageStays(r)
    OBVIOUS
  <2>1. accepted' = accepted /\ socket_'[r] = socket_[r]
    BY <1>2 DEF LifeInv, TypeOK
  <2>2. (Young(r)' <=> Young(r)) /\ (Listed(r)' <=> Listed(r))
    BY <1>2 DEF Young, Listed, Registered
  <2> QED
    BY <2>1, <2>2, SameStage
<1>8. Lifecycle!Close(s)
  BY <1>1, <1>2, <1>5, <1>6, <1>7, Advances DEF Lifecycle!Close
<1> QED
  BY <1>1, <1>8 DEF Lifecycle!Next

\* An entry of the registry is erased.
Erase(ip) ==
    /\ ~sessions_mutex_
    /\ sessions_' = [sessions_ EXCEPT ![ip] = NoSession]
    /\ UNCHANGED <<sessions_mutex_, accepted, client_id_, socket_, fresh>>
    /\ target'[Control] = target[Control]
    /\ NotYetVisible' <=> NotYetVisible

\* Its session, if there is one, is removed.
LEMMA EraseLife ==
    ASSUME LifeInv, NEW ip \in ClientID, Erase(ip)
    PROVE  [Lifecycle!Next]_(Lifecycle!vars)
<1>1. CASE sessions_[ip] = NoSession
  <2>1. sessions_' = sessions_
    BY <1>1 DEF LifeInv, TypeOK, Erase
  <2>2. \A r \in Session : StageStays(r)
    BY <2>1, SameStage DEF Erase, Young, Listed, Registered
  <2> QED
    BY <2>2, Stutters DEF Erase
<1>2. CASE sessions_[ip] # NoSession
  <2>1. PICK s \in Session :
        /\ s = sessions_[ip]
        /\ ~(s > accepted) /\ ~Young(s)
        /\ \A a \in ClientID : sessions_[a] = s => a = ip
        /\ socket_[s] = "open" /\ target[Control] # s
    BY <1>2, RegisteredOnce DEF Erase
  <2>2. Stage(s) = "registered"
    BY <1>2, <2>1, RegisteredStage
  <2>3. ~Registered(s)'
    BY <1>2, <2>1 DEF LifeInv, TypeOK, Erase, Registered
  <2>4. Stage(s)' = "removed"
    BY <2>1, <2>3 DEF Erase, Stage, Young, NotYetVisible
  <2>5. \A r \in Session : r # s => StageStays(r)
    <3> SUFFICES ASSUME NEW r \in Session, r # s
                 PROVE  StageStays(r)
      OBVIOUS
    <3>1. r # NoSession
      BY BoundAssumption DEF Session, NoSession
    <3>2. /\ sessions_' = [sessions_ EXCEPT ![ip] = NoSession]
          /\ sessions_ \in [ClientID -> Session \cup {NoSession}]
          /\ sessions_[ip] # r
      BY <2>1 DEF LifeInv, TypeOK, Erase
    <3>3. Registered(r)' <=> Registered(r)
      BY <3>1, <3>2 DEF Registered
    <3> QED
      BY <3>3, SameStage DEF Erase, Young, Listed
  <2>6. Lifecycle!Remove(s)
    BY <2>1, <2>2, <2>4, <2>5, Advances DEF Lifecycle!Remove, Erase
  <2> QED
    BY <2>1, <2>6 DEF Lifecycle!Next
<1> QED
  BY <1>1, <1>2

\* DisconnectClient erases an entry, or finds none.
LEMMA DisconnectLife ==
    ASSUME LifeInv, NEW t \in Worker \cup App, NEW ip \in ClientID, DisconnectClient(t, ip)
    PROVE  [Lifecycle!Next]_(Lifecycle!vars)
<1> /\ Control \in Thread /\ Accept \in Thread /\ t \in Thread
    /\ t # Control /\ t # Accept
  BY ThreadAssumption DEF Thread
<1>1. CASE sessions_[ip] # NoSession
  <2>1. Erase(ip)
    BY <1>1 DEF LifeInv, TypeOK, DisconnectClient, Goto, Erase, NotYetVisible, session_vars
  <2> QED
    BY <2>1, EraseLife
<1>2. CASE sessions_[ip] = NoSession
  <2>1. Erase(ip)
    BY <1>2 DEF LifeInv, TypeOK, DisconnectClient, Erase, NotYetVisible, session_vars
  <2> QED
    BY <2>1, EraseLife
<1> QED
  BY <1>1, <1>2

\* So does the accept thread.
LEMMA FindLife ==
    ASSUME LifeInv, AcceptFind
    PROVE  [Lifecycle!Next]_(Lifecycle!vars)
<1> Control \in Thread /\ Accept \in Thread /\ Accept # Control
  BY ThreadAssumption DEF Thread
<1>1. client_id_[fresh] \in ClientID /\ Erase(client_id_[fresh])
  BY DEF LifeInv, TypeOK, Ownership, FreshIsPrivate, AcceptFind, Goto, Erase, NotYetVisible,
     StopSteps, session_vars
<1> QED
  BY <1>1, EraseLife

\* A connection is admitted.
LEMMA ConnectionLife ==
    ASSUME LifeInv, NEW ip \in ClientID, AcceptConnection(ip)
    PROVE  Lifecycle!Next
<1> Control \in Thread /\ Accept \in Thread /\ Accept # Control
  BY ThreadAssumption DEF Thread
<1>1. PICK s \in Session :
      /\ s = accepted + 1 /\ accepted \in Nat /\ accepted' = s /\ fresh' = s
      /\ socket_' = [socket_ EXCEPT ![s] = "open"]
      /\ client_id_' = [client_id_ EXCEPT ![s] = ip]
      /\ UNCHANGED <<sessions_, target>>
      /\ ~NotYetVisible /\ NotYetVisible'
  <2>1. accepted \in Nat /\ accepted + 1 \in Session
    BY BoundAssumption DEF LifeInv, TypeOK, AcceptConnection, Session
  <2>2. ~NotYetVisible /\ NotYetVisible'
    BY DEF LifeInv, TypeOK, AcceptConnection, Goto, NotYetVisible, StopSteps
  <2> QED
    BY <2>1, <2>2 DEF AcceptConnection, server_vars
<1>2. Stage(s) = "none"
  BY <1>1 DEF Stage
<1>3. Stage(s)' = "accepted"
  BY <1>1 DEF LifeInv, TypeOK, Stage, NotYetVisible
<1>4. \A r \in Session : r # s => StageStays(r)
  <2> SUFFICES ASSUME NEW r \in Session, r # s
               PROVE  StageStays(r)
    OBVIOUS
  <2>1. r \in Nat
    BY BoundAssumption DEF Session
  <2>2. r > accepted' <=> r > accepted
    BY <1>1, <2>1
  <2>3. socket_'[r] = socket_[r] /\ ~Young(r) /\ ~Young(r)' /\ (Registered(r)' <=> Registered(r))
    BY <1>1 DEF LifeInv, TypeOK, Young, Registered
  <2> QED
    BY <1>1, <2>2, <2>3 DEF StageStays, Stage, Young, NotYetVisible
<1>5. Lifecycle!Admit(s, ip)
  BY <1>1, <1>2, <1>3, <1>4, Advances DEF Lifecycle!Admit
<1> QED
  BY <1>1, <1>5 DEF Lifecycle!Next

\* The session in hand is registered, and no other one has its address.
LEMMA InsertLife ==
    ASSUME LifeInv, AcceptInsert
    PROVE  Lifecycle!Next
<1> Control \in Thread /\ Accept \in Thread /\ Accept # Control
  BY ThreadAssumption DEF Thread
<1> DEFINE ip == client_id_[fresh]
<1>1. /\ UNCHANGED <<sessions_mutex_, accepted, client_id_, socket_, fresh, target>>
      /\ ~sessions_mutex_ /\ target[Control] = NoSession
      /\ ip \in ClientID /\ sessions_[ip] = NoSession
      /\ sessions_' = [sessions_ EXCEPT ![ip] = fresh]
      /\ NotYetVisible /\ ~NotYetVisible'
      /\ fresh = accepted /\ fresh # NoSession /\ fresh \in Session /\ socket_[fresh] = "open"
  BY DEF LifeInv, TypeOK, Ownership, FreshIsPrivate, NoOverwrite, Held, ControlTarget, AcceptInsert,
     Goto, NotYetVisible, StopSteps, session_vars
<1>2. ~(fresh > accepted)
  BY <1>1, BoundAssumption DEF Session
<1>3. Stage(fresh) = "accepted"
  BY <1>1, <1>2 DEF Stage, NotYetVisible
<1>4. Registered(fresh)'
  BY <1>1 DEF LifeInv, TypeOK, Registered
<1>5. Stage(fresh)' = "registered"
  BY <1>1, <1>2, <1>4 DEF Stage, NotYetVisible
<1>6. \A r \in Session : r # fresh => StageStays(r)
  <2> SUFFICES ASSUME NEW r \in Session, r # fresh
               PROVE  StageStays(r)
    OBVIOUS
  <2>1. r # NoSession
    BY BoundAssumption DEF Session, NoSession
  <2>2. Registered(r)' <=> Registered(r)
    BY <1>1, <2>1 DEF LifeInv, TypeOK, Registered
  <2> QED
    BY <1>1, <2>2, SameStage DEF Young, Listed
<1>7. \A r \in Session : Stage(r) = "registered" => client_id_[r] # client_id_[fresh]
  <2> SUFFICES ASSUME NEW r \in Session, Stage(r) = "registered"
               PROVE  client_id_[r] # client_id_[fresh]
    OBVIOUS
  <2>1. PICK a \in ClientID : sessions_[a] = r
    BY DEF Stage, Registered
  <2>2. r # NoSession
    BY BoundAssumption DEF Session, NoSession
  <2>3. client_id_[r] = a
    BY <2>1, <2>2 DEF LifeInv, Ownership, RegistrySound
  <2> QED
    BY <1>1, <2>1, <2>2, <2>3
<1>8. Lifecycle!Advance(fresh, "accepted", "registered")
  BY <1>1, <1>3, <1>5, <1>6, Advances
<1>9. Lifecycle!Register(fresh)
  BY <1>1, <1>7, <1>8 DEF Lifecycle!Register
<1> QED
  BY <1>1, <1>9 DEF Lifecycle!Next

\* Stop leaves the entry: the session is removed when Stop gets to it.
LEMMA NextLife ==
    ASSUME LifeInv, NEW ip \in ClientID, Stop_Next(ip)
    PROVE  Lifecycle!Next
<1> Control \in Thread /\ Accept \in Thread /\ Accept # Control
  BY ThreadAssumption DEF Thread
<1>1. PICK s \in Session :
      /\ s = sessions_[ip]
      /\ UNCHANGED <<sessions_, accepted, client_id_, socket_, fresh>>
      /\ target'[Control] = s
      /\ NotYetVisible' <=> NotYetVisible
      /\ s # NoSession /\ socket_[s] = "open"
      /\ ~Stopping(Control)
  BY DEF LifeInv, TypeOK, Ownership, StopListSound, Stop_Next, Goto, NotYetVisible, Stopping,
     StopSteps, session_vars, server_vars
<1>2. target[Control] # NoSession => socket_[target[Control]] = "closed"
  BY <1>1 DEF LifeInv, Held, ControlTarget
<1>3. s \in Session /\ ~(s > accepted) /\ ~Young(s) /\ target[Control] # s
  BY <1>1, <1>2, RegisteredOnce
<1>4. Stage(s) = "registered"
  BY <1>1, <1>3, RegisteredStage
<1>5. Stage(s)' = "removed"
  BY <1>1, <1>3 DEF Stage, Young, NotYetVisible
<1>6. \A r \in Session : r # s => StageStays(r)
  <2> SUFFICES ASSUME NEW r \in Session, r # s
               PROVE  StageStays(r)
    OBVIOUS
  <2>1. CASE target[Control] = r
    <3>1. r # NoSession
      BY BoundAssumption DEF Session, NoSession
    <3> QED
      BY <1>1, <1>2, <2>1, <3>1, ClosedStage
  <2>2. CASE target[Control] # r
    BY <1>1, <2>2, SameStage DEF Young, Listed, Registered
  <2> QED
    BY <2>1, <2>2
<1>7. Lifecycle!Remove(s)
  BY <1>1, <1>3, <1>4, <1>5, <1>6, Advances DEF Lifecycle!Remove
<1> QED
  BY <1>3, <1>7 DEF Lifecycle!Next

\* To take the mutex does not show.
LEMMA LockLife ==
    ASSUME LifeInv, Stop_Lock
    PROVE  UNCHANGED Lifecycle!vars
<1> Control \in Thread /\ Accept \in Thread /\ Accept # Control
  BY ThreadAssumption DEF Thread
<1>1. /\ UNCHANGED <<sessions_, accepted, client_id_, socket_, fresh, target>>
      /\ NotYetVisible' <=> NotYetVisible
  BY DEF LifeInv, TypeOK, Stop_Lock, Goto, NotYetVisible, session_vars
<1>2. \A s \in Session : StageStays(s)
  BY <1>1, SameStage DEF Young, Listed, Registered
<1> QED
  BY <1>1, <1>2, Stutters

\* What is cleared was closed.
LEMMA ClearLife ==
    ASSUME LifeInv, Stop_Clear
    PROVE  UNCHANGED Lifecycle!vars
<1> Control \in Thread /\ Accept \in Thread /\ Accept # Control
  BY ThreadAssumption DEF Thread
<1>1. /\ UNCHANGED <<accepted, client_id_, socket_, fresh>>
      /\ sessions_' = [ip \in ClientID |-> NoSession]
      /\ sessions_mutex_ /\ todo[Control] = {} /\ ~Stopping(Control)
      /\ NotYetVisible' <=> NotYetVisible
  BY DEF LifeInv, TypeOK, Ownership, StopListSound, Stop_Clear, Goto, NotYetVisible, Stopping,
     StopSteps, session_vars
<1>2. ASSUME NEW s \in Session
      PROVE  StageStays(s)
  <2>1. s # NoSession
    BY BoundAssumption DEF Session, NoSession
  <2>2. CASE Registered(s)
    <3>1. socket_[s] = "closed"
      BY <1>1, <2>1, <2>2 DEF LifeInv, Held, ClosedBehindStop, Registered
    <3> QED
      BY <1>1, <3>1, ClosedStage
  <2>3. CASE ~Registered(s)
    BY <1>1, <2>1, <2>3, SameStage DEF Young, Listed, Registered
  <2> QED
    BY <2>2, <2>3
<1> QED
  BY <1>1, <1>2, Stutters

\* At the start there are no sessions.
LEMMA InitLifecycle == Init => Lifecycle!Init
<1>1. \A s \in Session : s > 0
  BY BoundAssumption DEF Session
<1> QED
  BY <1>1 DEF Init, Lifecycle!Init, Stage

\* Each step of a thread is a step of the life cycle of one session, or none.
LEMMA NextLifecycle ==
    ASSUME LifeInv, [Next]_vars
    PROVE  [Lifecycle!Next]_(Lifecycle!vars)
<1> TypeOK /\ Ownership /\ ThreadsAreJoined
  BY DEF LifeInv
<1> DEFINE LifeStep == [Lifecycle!Next]_(Lifecycle!vars)
<1>1. ASSUME NEW t \in Thread, SessionStop(t)
      PROVE  LifeStep
  BY <1>1, StillSteps, StillLife, CloseLife DEF SessionStop
<1>2. ASSUME NEW t \in Worker \cup App, DisconnectClient_Event(t)
      PROVE  LifeStep
  BY <1>2, StillSteps, StillLife
<1>3. ASSUME NEW t \in App, NEW ip \in ClientID, AppDisconnect(t, ip)
      PROVE  LifeStep
  BY <1>3, DisconnectLife DEF AppDisconnect
<1>4. ASSUME NEW t \in Worker, WorkerThread(t)
      PROVE  LifeStep
  BY <1>4, StillSteps, StillLife, DisconnectLife DEF WorkerThread, WorkerRemove
<1>5. ASSUME AcceptThread
      PROVE  LifeStep
  BY <1>5, StillSteps, StillLife, FindLife, InsertLife DEF AcceptThread
<1>6. ASSUME NEW ip \in ClientID, AcceptConnection(ip)
      PROVE  LifeStep
  BY <1>6, ConnectionLife
<1>7. ASSUME Start \/ Stop_Begin
      PROVE  LifeStep
  BY <1>7, StillSteps, StillLife
<1>8. ASSUME StopThread
      PROVE  LifeStep
  BY <1>8, StillSteps, StillLife, LockLife, NextLife, ClearLife DEF StopThread
<1>9. ASSUME NEW s \in Session, SessionThread(s) \/ PeerStep(s)
      PROVE  LifeStep
  BY <1>9, StillSteps, StillLife
<1>10. ASSUME UNCHANGED vars
       PROVE  LifeStep
  BY <1>10, StillSteps, StillLife
<1> QED
  BY <1>1, <1>2, <1>3, <1>4, <1>5, <1>6, <1>7, <1>8, <1>9, <1>10
     DEF Next, ThreadStep, Terminated

\* The threads of the server implement SessionLifecycle: a session is accepted,
\* registered, removed and closed in this order and once, and an address is
\* registered for one session at a time.
THEOREM RegistryImplementsLifecycle == Spec => LifecycleSpec
<1>1. LifeInv /\ [Next]_vars => [Lifecycle!Next]_(Lifecycle!vars)
  BY NextLifecycle
<1>2. Spec => Lifecycle!Spec
  BY <1>1, InitLifecycle, LifeInvariant, PTL DEF Spec, Lifecycle!Spec
<1> QED
  BY <1>2 DEF LifecycleSpec

-----------------------------------------------------------------------------
(* The threads that remove a session and report it.                        *)

Remover     == Worker \cup App
Removing(t) == Stopping(t) \/ pc[t] = "disconnect_event"

\* DisconnectClient has a session of its own, which is neither registered nor
\* held back by the accept thread, until it has added the event.
RemoverOwns ==
    \A t \in Remover :
        /\ target[t] # NoSession <=> Removing(t)
        /\ \A s \in Session : target[t] = s =>
              /\ s <= accepted /\ ~Registered(s) /\ ~Young(s)
              /\ \A u \in Remover : target[u] = s => u = t

\* Nobody begins or ends a removal, and what is registered anew was Young.
RemoversStay ==
    /\ \A t \in Remover : target'[t] = target[t] /\ (Removing(t)' <=> Removing(t))
    /\ \A s \in Session : s <= accepted =>
          /\ s <= accepted'
          /\ Registered(s)' => Registered(s) \/ Young(s)
          /\ Young(s)' => Young(s)

\* Then each remover still owns its session.
LEMMA StayOwns ==
    ASSUME RemoverOwns, RemoversStay
    PROVE  RemoverOwns'
  BY DEF RemoverOwns, RemoversStay

\* The steps of JostickTcpSession::Stop do not end a removal.
LEMMA StopStay ==
    ASSUME TypeOK, NEW t \in Thread, SessionStop(t)
    PROVE  RemoversStay
<1> Accept \in Thread /\ Remover \subseteq Thread /\ Accept \notin Remover
  BY ThreadAssumption DEF Thread, Remover
<1>1. /\ UNCHANGED <<sessions_, accepted, target, fresh>>
      /\ \E to \in StopSteps \cup {AfterStop(t)} : pc' = [pc EXCEPT ![t] = to]
      /\ pc[t] \in StopSteps
  BY DEF SessionStop, SessionStop_Test, SessionStop_Flags, SessionStop_Join, SessionStop_Close,
     Goto, StopSteps, server_vars
<1>2. \A u \in Remover : Removing(u)' <=> Removing(u)
  BY <1>1, ThreadAssumption DEF TypeOK, Removing, Stopping, AfterStop, Remover, StopSteps
<1>3. NotYetVisible' => NotYetVisible
  BY <1>1 DEF TypeOK, NotYetVisible, AfterStop, StopSteps
<1> QED
  BY <1>1, <1>2, <1>3 DEF RemoversStay, Registered, Young

\* DisconnectClient takes a session that no other remover has.
LEMMA DisconnectOwns ==
    ASSUME LifeInv, RemoverOwns, NEW t \in Remover, NEW ip \in ClientID,
           DisconnectClient(t, ip), ~Removing(t)
    PROVE  RemoverOwns'
<1> Accept \in Thread /\ Remover \subseteq Thread /\ Accept \notin Remover
  BY ThreadAssumption DEF Thread, Remover
<1>1. UNCHANGED <<accepted, fresh>> /\ pc'[Accept] = pc[Accept]
  BY DEF LifeInv, TypeOK, DisconnectClient, Goto
<1>2. \A s \in Session : Young(s)' <=> Young(s)
  BY <1>1 DEF Young, NotYetVisible
<1>3. CASE sessions_[ip] = NoSession
  BY <1>1, <1>2, <1>3, StayOwns DEF DisconnectClient, RemoversStay, Registered, Removing, Stopping
<1>4. CASE sessions_[ip] # NoSession
  <2>1. PICK r \in Session :
        /\ r = sessions_[ip] /\ r <= accepted /\ ~Young(r) /\ Registered(r)
        /\ \A a \in ClientID : sessions_[a] = r => a = ip
    BY <1>4, RegisteredOnce, BoundAssumption DEF LifeInv, TypeOK, Ownership, RegistrySound, Registered
  <2>2. /\ target' = [target EXCEPT ![t] = r] /\ pc' = [pc EXCEPT ![t] = "stop_test"]
        /\ sessions_' = [sessions_ EXCEPT ![ip] = NoSession]
        /\ sessions_ \in [ClientID -> Session \cup {NoSession}]
        /\ target \in [Thread -> Session \cup {NoSession}] /\ pc \in [Thread -> PCs]
        /\ r # NoSession /\ NoSession \notin Session
    BY <1>4, <2>1, BoundAssumption DEF LifeInv, TypeOK, DisconnectClient, Goto, Session, NoSession
  <2>3. ~Registered(r)' /\ \A s \in Session : Registered(s)' => Registered(s)
    BY <2>1, <2>2 DEF Registered
  <2>4. \A u \in Remover : u # t => target'[u] = target[u] /\ (Removing(u)' <=> Removing(u))
    BY <2>2 DEF Removing, Stopping
  <2>5. target'[t] = r /\ Removing(t)'
    BY <2>2 DEF Removing, Stopping, StopSteps
  <2>6. \A u \in Remover : target[u] # r
    BY <2>1 DEF RemoverOwns
  <2> QED
    BY <1>1, <1>2, <2>1, <2>2, <2>3, <2>4, <2>5, <2>6 DEF RemoverOwns
<1> QED
  BY <1>3, <1>4

\* With the event the session is let go.
LEMMA EventOwns ==
    ASSUME TypeOK, RemoverOwns, NEW t \in Remover, DisconnectClient_Event(t)
    PROVE  RemoverOwns'
<1> Accept \in Thread /\ Remover \subseteq Thread /\ Accept \notin Remover
  BY ThreadAssumption DEF Thread, Remover
<1>1. UNCHANGED <<sessions_, accepted, fresh>> /\ pc'[Accept] = pc[Accept]
  BY DEF TypeOK, DisconnectClient_Event, Goto, server_vars
<1>2. target'[t] = NoSession /\ ~Removing(t)' /\ NoSession \notin Session
  BY BoundAssumption DEF TypeOK, DisconnectClient_Event, Goto, Removing, Stopping, StopSteps,
     Session, NoSession
<1>3. \A u \in Remover : u # t => target'[u] = target[u] /\ (Removing(u)' <=> Removing(u))
  BY DEF TypeOK, DisconnectClient_Event, Goto, Removing, Stopping
<1>4. \A s \in Session : (Registered(s)' <=> Registered(s)) /\ (Young(s)' <=> Young(s))
  BY <1>1 DEF Registered, Young, NotYetVisible
<1> QED
  BY <1>1, <1>2, <1>3, <1>4 DEF RemoverOwns

\* The other steps leave the removers alone.
LEMMA OtherStay ==
    ASSUME LifeInv, \/ \E t \in Worker : WorkerCheck(t) \/ WorkerScan(t) \/ WorkerSleep(t)
                    \/ AcceptThread \/ (\E ip \in ClientID : AcceptConnection(ip))
                    \/ Start \/ Stop_Begin \/ StopThread
                    \/ (\E s \in Session : SessionThread(s) \/ PeerStep(s))
                    \/ UNCHANGED vars
    PROVE  RemoversStay
<1> /\ Accept \in Thread /\ Control \in Thread /\ Remover \subseteq Thread /\ Accept # Control
    /\ Accept \notin Remover /\ Control \notin Remover /\ Worker \subseteq Remover
  BY ThreadAssumption DEF Thread, Remover
<1> TypeOK
  BY DEF LifeInv
<1>1. ASSUME NEW t \in Worker, WorkerCheck(t) \/ WorkerScan(t) \/ WorkerSleep(t)
      PROVE  RemoversStay
  <2>1. /\ UNCHANGED <<sessions_, accepted, target, fresh>>
        /\ \E to \in {"scan", "done", "remove", "check"} : pc' = [pc EXCEPT ![t] = to]
        /\ pc[t] \in {"scan", "remove", "check"}
    BY <1>1 DEF WorkerCheck, WorkerScan, WorkerSleep, Goto, server_vars
  <2>2. \A u \in Remover : Removing(u)' <=> Removing(u)
    BY <2>1 DEF TypeOK, Removing, Stopping, StopSteps
  <2> QED
    BY <2>1, <2>2 DEF TypeOK, RemoversStay, Registered, Young, NotYetVisible
<1>2. ASSUME AcceptThread \/ (\E ip \in ClientID : AcceptConnection(ip))
      PROVE  RemoversStay
  <2>1. \A u \in Remover : target'[u] = target[u] /\ pc'[u] = pc[u]
    BY <1>2 DEF TypeOK, AcceptThread, AcceptCheck, AcceptNothing, AcceptFind,
       AcceptInsert, SessionStart_Running, SessionStart_Connected, SessionStart_Thread,
       AcceptEvent, AcceptConnection, Goto
  <2>2. ASSUME NEW s \in Session, s <= accepted
        PROVE  /\ s <= accepted'
               /\ Registered(s)' => Registered(s) \/ Young(s)
               /\ Young(s)' => Young(s)
    <3>1. CASE \E ip \in ClientID : AcceptConnection(ip)
      BY <2>2, <3>1, BoundAssumption DEF TypeOK, AcceptConnection, Registered, Young, Session,
         server_vars
    <3>2. CASE AcceptFind
      <4>1. /\ UNCHANGED <<accepted, fresh>> /\ NotYetVisible
            /\ sessions_' = [sessions_ EXCEPT ![client_id_[fresh]] = NoSession]
        BY <3>2 DEF AcceptFind, NotYetVisible
      <4>2. s # NoSession
        BY BoundAssumption DEF Session, NoSession
      <4> QED
        BY <2>2, <4>1, <4>2 DEF TypeOK, Registered, Young
    <3>3. CASE AcceptInsert
      <4>1. /\ UNCHANGED <<accepted, fresh>> /\ NotYetVisible
            /\ sessions_' = [sessions_ EXCEPT ![client_id_[fresh]] = fresh]
        BY <3>3 DEF AcceptInsert, NotYetVisible
      <4> QED
        BY <2>2, <4>1 DEF TypeOK, Registered, Young
    <3>4. CASE \/ AcceptCheck \/ AcceptNothing \/ SessionStart_Running
               \/ SessionStart_Connected \/ SessionStart_Thread \/ AcceptEvent
      BY <2>2, <3>4 DEF TypeOK, AcceptCheck, AcceptNothing, SessionStart_Running,
         SessionStart_Connected, SessionStart_Thread, AcceptEvent, Goto, Registered, Young,
         NotYetVisible, StopSteps, server_vars
    <3> QED
      BY <1>2, <3>1, <3>2, <3>3, <3>4 DEF AcceptThread
  <2> QED
    BY <2>1, <2>2 DEF RemoversStay, Removing, Stopping
<1>3. ASSUME Start \/ Stop_Begin \/ StopThread
      PROVE  RemoversStay
  <2>1. /\ UNCHANGED <<accepted, fresh>>
        /\ \A u \in Remover : target'[u] = target[u]
    BY <1>3 DEF TypeOK, Start, Stop_Begin, StopThread, Stop_Lock, Stop_Clear, Stop_Join, Stop_Next
  <2>2. \A s \in Session : Registered(s)' => Registered(s)
    <3>1. \A s \in Session : s # NoSession
      BY BoundAssumption DEF Session, NoSession
    <3> QED
      BY <1>3, <3>1 DEF Start, Stop_Begin, StopThread, Stop_Lock, Stop_Clear, Stop_Join,
         Stop_Next, Registered, server_vars
  <2>3. ASSUME NEW u \in Thread, u # Control
        PROVE  \/ pc'[u] = pc[u]
               \/ pc[u] \in {"none", "done"} /\ pc'[u] \in {"none", "check"}
    <3>1. CASE Start
      BY <2>3, <3>1 DEF LifeInv, ThreadsAreJoined, Start
    <3>2. CASE Stop_Join
      BY <2>3, <3>2 DEF Stop_Join
    <3>3. CASE \/ Stop_Begin \/ Stop_Lock \/ Stop_Clear \/ \E ip \in ClientID : Stop_Next(ip)
      BY <2>3, <3>3 DEF TypeOK, Stop_Begin, Stop_Lock, Stop_Clear, Stop_Next, Goto
    <3> QED
      BY <1>3, <3>1, <3>2, <3>3 DEF StopThread
  <2>4. /\ \A u \in Remover : Removing(u)' <=> Removing(u)
        /\ NotYetVisible' <=> NotYetVisible
    BY <2>3 DEF Removing, Stopping, NotYetVisible, StopSteps
  <2> QED
    BY <2>1, <2>2, <2>4 DEF RemoversStay, Young
<1>4. ASSUME (\E s \in Session : SessionThread(s) \/ PeerStep(s)) \/ UNCHANGED vars
      PROVE  RemoversStay
  <2>1. UNCHANGED <<sessions_, accepted, target, fresh, pc>>
    BY <1>4 DEF SessionThread, SessionLoop, SessionReport, SessionSent, PeerStep, server_vars,
       thread_vars, vars
  <2> QED
    BY <2>1 DEF RemoversStay, Registered, Young, NotYetVisible, Removing, Stopping
<1> QED
  BY <1>1, <1>2, <1>3, <1>4

\* A removal begins with DisconnectClient and ends with its event.
LEMMA NextRemoval ==
    ASSUME LifeInv, [Next]_vars
    PROVE  \/ RemoversStay
           \/ \E t \in Remover : DisconnectClient_Event(t)
           \/ \E t \in Remover, ip \in ClientID : DisconnectClient(t, ip) /\ ~Removing(t)
<1> TypeOK
  BY DEF LifeInv
<1>1. ASSUME NEW t \in Thread, SessionStop(t)
      PROVE  RemoversStay
  BY <1>1, StopStay
<1>2. ASSUME NEW t \in App, NEW ip \in ClientID, AppDisconnect(t, ip)
      PROVE  t \in Remover /\ DisconnectClient(t, ip) /\ ~Removing(t)
  BY <1>2 DEF AppDisconnect, Remover, Removing, Stopping, StopSteps
<1>3. ASSUME NEW t \in Worker, NEW ip \in ClientID, WorkerRemove(t, ip)
      PROVE  t \in Remover /\ DisconnectClient(t, ip) /\ ~Removing(t)
  BY <1>3 DEF WorkerRemove, Remover, Removing, Stopping, StopSteps
<1> QED
  BY <1>1, <1>2, <1>3, OtherStay DEF Next, ThreadStep, WorkerThread, Terminated, Remover

\* A session has one remover.
LEMMA NextOwns ==
    ASSUME LifeInv, RemoverOwns, [Next]_vars
    PROVE  RemoverOwns'
<1> TypeOK
  BY DEF LifeInv
<1> QED
  BY NextRemoval, StayOwns, DisconnectOwns, EventOwns

-----------------------------------------------------------------------------
(* What can happen to one session: its thread, connected_, and its events. *)

\* The accept thread has not started the thread of its session.
ToStart == NotYetVisible \/ pc[Accept] \in {"start_running", "start_connected", "start_thread"}

Goes(s, from, to) == work_thread_[s] \in from /\ work_thread_'[s] \in to
Unreported(s)     == disconnects'[s] = disconnects[s]
ReportedOnceMore(s) == disconnects'[s] = disconnects[s] + 1
Disconnects(s)    == s_connected'[s] => s_connected[s]

Rests(s)  == work_thread_'[s] = work_thread_[s] /\ Disconnects(s) /\ Unreported(s)
Joins(s)  == Goes(s, {"finished"}, {"joined"}) /\ Disconnects(s) /\ Unreported(s)
Loops(s)  == Goes(s, {"loop", "send"}, {"loop", "send", "finished"}) /\ Disconnects(s) /\ Unreported(s)
SeesLoss(s) == Goes(s, {"loop"}, {"report"}) /\ ~s_connected'[s] /\ Unreported(s)
Reports(s)  == Goes(s, {"report"}, {"finished"}) /\ Disconnects(s) /\ ReportedOnceMore(s)
IsRemoved(s) ==
    /\ \E t \in Remover : target[t] = s /\ DisconnectClient_Event(t)
    /\ work_thread_'[s] = work_thread_[s] /\ Disconnects(s) /\ ReportedOnceMore(s)
Connects(s) ==
    /\ s = fresh /\ pc[Accept] = "start_connected"
    /\ work_thread_'[s] = work_thread_[s] /\ Unreported(s)
Starts(s) ==
    /\ s = fresh /\ pc[Accept] = "start_thread" /\ ~ToStart'
    /\ work_thread_'[s] = "loop" /\ Disconnects(s) /\ Unreported(s)

Happens(s) ==
    \/ Rests(s) \/ Joins(s) \/ Loops(s) \/ SeesLoss(s) \/ Reports(s)
    \/ IsRemoved(s) \/ Connects(s) \/ Starts(s)

\* There is nothing else.
LEMMA AllHappens ==
    ASSUME TypeOK, [Next]_vars, NEW s \in Session
    PROVE  Happens(s)
<1> USE DEF Happens
<1>1. ASSUME NEW t \in Thread, SessionStop(t)
      PROVE  Happens(s)
  <2>1. CASE SessionStop_Test(t) \/ SessionStop_Close(t)
    BY <2>1 DEF SessionStop_Test, SessionStop_Close, session_vars, Rests, Disconnects, Unreported
  <2>2. CASE SessionStop_Flags(t)
    BY <2>2 DEF TypeOK, SessionStop_Flags, Rests, Disconnects, Unreported
  <2>3. CASE SessionStop_Join(t)
    BY <2>3 DEF TypeOK, SessionStop_Join, Rests, Joins, Goes, Disconnects, Unreported
  <2> QED
    BY <1>1, <2>1, <2>2, <2>3 DEF SessionStop
<1>2. ASSUME NEW t \in Worker \cup App, DisconnectClient_Event(t)
      PROVE  Happens(s)
  <2>1. UNCHANGED <<work_thread_, s_connected>>
    BY <1>2 DEF DisconnectClient_Event, session_vars
  <2>2. CASE target[t] = s
    BY <1>2, <2>1, <2>2 DEF TypeOK, DisconnectClient_Event, IsRemoved, Remover, Disconnects,
       ReportedOnceMore
  <2>3. CASE target[t] # s
    BY <1>2, <2>1, <2>3 DEF TypeOK, DisconnectClient_Event, Rests, Disconnects, Unreported
  <2> QED
    BY <2>2, <2>3
<1>3. ASSUME NEW t \in Worker \cup App, NEW ip \in ClientID, DisconnectClient(t, ip)
      PROVE  Happens(s)
  BY <1>3 DEF DisconnectClient, session_vars, Rests, Disconnects, Unreported
<1>4. ASSUME NEW t \in Worker, WorkerCheck(t) \/ WorkerScan(t) \/ WorkerSleep(t)
      PROVE  Happens(s)
  BY <1>4 DEF WorkerCheck, WorkerScan, WorkerSleep, session_vars, Rests, Disconnects, Unreported
<1>5. CASE SessionStart_Connected
  <2>1. UNCHANGED <<work_thread_, disconnects>>
    BY <1>5 DEF SessionStart_Connected
  <2>2. CASE s = fresh
    BY <1>5, <2>1, <2>2 DEF SessionStart_Connected, Connects, Unreported
  <2>3. CASE s # fresh
    BY <1>5, <2>1, <2>3 DEF TypeOK, SessionStart_Connected, Rests, Disconnects, Unreported
  <2> QED
    BY <2>2, <2>3
<1>6. CASE SessionStart_Thread
  <2>1. UNCHANGED <<s_connected, disconnects>> /\ ~ToStart'
    BY <1>6 DEF TypeOK, SessionStart_Thread, Goto, ToStart, NotYetVisible, StopSteps, Thread
  <2>2. CASE s = fresh
    BY <1>6, <2>1, <2>2 DEF TypeOK, SessionStart_Thread, Starts, Disconnects, Unreported
  <2>3. CASE s # fresh
    BY <1>6, <2>1, <2>3 DEF TypeOK, SessionStart_Thread, Rests, Disconnects, Unreported
  <2> QED
    BY <2>2, <2>3
<1>7. ASSUME \/ AcceptCheck \/ AcceptNothing \/ AcceptFind \/ AcceptInsert
             \/ SessionStart_Running \/ AcceptEvent
             \/ \E ip \in ClientID : AcceptConnection(ip)
      PROVE  Happens(s)
  BY <1>7 DEF AcceptCheck, AcceptNothing, AcceptFind, AcceptInsert, SessionStart_Running,
     AcceptEvent, AcceptConnection, session_vars, Rests, Disconnects, Unreported
<1>8. ASSUME Start \/ Stop_Begin \/ StopThread
      PROVE  Happens(s)
  BY <1>8 DEF Start, Stop_Begin, StopThread, Stop_Lock, Stop_Clear, Stop_Join, Stop_Next,
     session_vars, Rests, Disconnects, Unreported
<1>9. ASSUME NEW r \in Session, SessionThread(r) \/ PeerStep(r)
      PROVE  Happens(s)
  <2>1. CASE s # r \/ PeerStep(r)
    BY <1>9, <2>1 DEF TypeOK, SessionThread, SessionLoop, SessionReport, SessionSent, PeerStep,
       session_vars, Rests, Disconnects, Unreported
  <2>2. CASE s = r /\ SessionLoop(r)
    BY <2>2 DEF TypeOK, SessionLoop, Loops, SeesLoss, Goes, Disconnects, Unreported
  <2>3. CASE s = r /\ SessionReport(r)
    BY <2>3 DEF TypeOK, SessionReport, Reports, Goes, Disconnects, ReportedOnceMore
  <2>4. CASE s = r /\ SessionSent(r)
    BY <2>4 DEF TypeOK, SessionSent, Loops, Goes, Disconnects, Unreported
  <2> QED
    BY <1>9, <2>1, <2>2, <2>3, <2>4 DEF SessionThread
<1>10. ASSUME UNCHANGED vars
       PROVE  Happens(s)
  BY <1>10 DEF vars, Rests, Disconnects, Unreported
<1> HIDE DEF Happens
<1> QED
  BY <1>1, <1>2, <1>3, <1>4, <1>5, <1>6, <1>7, <1>8, <1>9, <1>10
     DEF Next, ThreadStep, AppDisconnect, WorkerThread, WorkerRemove, AcceptThread, Terminated

\* The accept thread has a session to start, whose thread does not exist yet; of
\* connections that are still to come nothing has happened.
NotStarted ==
    /\ ToStart => fresh \in Session /\ fresh <= accepted /\ work_thread_[fresh] = "none"
    /\ \A s \in Session : s > accepted =>
          work_thread_[s] = "none" /\ disconnects[s] = 0 /\ ~s_connected[s]

\* Before the thread of a session reports a loss connected_ is cleared.
LossSeen == \A s \in Session : work_thread_[s] = "report" => ~s_connected[s]

\* One report is the thread's, which ends with it, and one is the remover's,
\* which lets the session go with it.
Ended(s)  == work_thread_[s] \in {"finished", "joined"}
InHand(s) ==
    \/ s > accepted \/ Young(s) \/ Registered(s)
    \/ \E t \in Remover : target[t] = s

ReportsCounted ==
    \A s \in Session :
        /\ disconnects[s] <= 2
        /\ InHand(s) \/ ~Ended(s) => disconnects[s] <= 1
        /\ InHand(s) /\ ~Ended(s) => disconnects[s] = 0

\* While it is registered a session that was reported is not connected.
ReportedIsLost == \A s \in Session : Registered(s) /\ disconnects[s] # 0 => ~s_connected[s]

ReportInv ==
    LifeInv /\ RemoverOwns /\ NotStarted /\ LossSeen /\ ReportsCounted /\ ReportedIsLost

\* The accept thread has the same session in hand until it has started it.
LEMMA NextToStart ==
    ASSUME LifeInv, [Next]_vars, ToStart'
    PROVE  \/ ToStart /\ fresh' = fresh /\ accepted' >= accepted
           \/ fresh' = accepted + 1 /\ accepted' = accepted + 1
<1> Accept \in Thread /\ Control \in Thread /\ Accept # Control
  BY ThreadAssumption DEF Thread
<1> TypeOK /\ accepted \in Nat
  BY BoundAssumption DEF LifeInv, TypeOK
<1> DEFINE Goal == \/ ToStart /\ fresh' = fresh /\ accepted' >= accepted
                   \/ fresh' = accepted + 1 /\ accepted' = accepted + 1
<1>1. ASSUME NEW t \in Thread, SessionStop(t)
      PROVE  Goal
  <2>1. /\ UNCHANGED <<accepted, fresh>>
        /\ \E to \in StopSteps \cup {AfterStop(t)} : pc' = [pc EXCEPT ![t] = to]
        /\ pc[t] \in StopSteps
    BY <1>1 DEF SessionStop, SessionStop_Test, SessionStop_Flags, SessionStop_Join,
       SessionStop_Close, Goto, StopSteps
  <2>2. ToStart
    BY <2>1 DEF TypeOK, ToStart, NotYetVisible
  <2> QED
    BY <2>1, <2>2
<1>2. ASSUME NEW t \in Worker \cup App, DisconnectClient_Event(t)
      PROVE  Goal
  BY <1>2, ThreadAssumption DEF TypeOK, DisconnectClient_Event, Goto, ToStart, NotYetVisible, Thread
<1>3. ASSUME NEW t \in Worker \cup App, NEW ip \in ClientID, DisconnectClient(t, ip)
      PROVE  Goal
  BY <1>3, ThreadAssumption DEF TypeOK, DisconnectClient, Goto, ToStart, NotYetVisible, Thread
<1>4. ASSUME NEW t \in Worker, WorkerCheck(t) \/ WorkerScan(t) \/ WorkerSleep(t)
      PROVE  Goal
  BY <1>4, ThreadAssumption DEF TypeOK, WorkerCheck, WorkerScan, WorkerSleep, Goto, ToStart,
     NotYetVisible, Thread
<1>5. ASSUME AcceptThread
      PROVE  Goal
  BY <1>5 DEF TypeOK, AcceptThread, AcceptCheck, AcceptNothing, AcceptFind, AcceptInsert,
     SessionStart_Running, SessionStart_Connected, SessionStart_Thread, AcceptEvent, Goto,
     ToStart, NotYetVisible, StopSteps
<1>6. ASSUME NEW ip \in ClientID, AcceptConnection(ip)
      PROVE  Goal
  BY <1>6 DEF AcceptConnection
<1>7. ASSUME Start \/ Stop_Begin \/ StopThread
      PROVE  Goal
  BY <1>7 DEF TypeOK, Start, Stop_Begin, StopThread, Stop_Lock, Stop_Clear, Stop_Join, Stop_Next,
     Goto, ToStart, NotYetVisible, StopSteps
<1>8. ASSUME (\E s \in Session : SessionThread(s) \/ PeerStep(s)) \/ UNCHANGED vars
      PROVE  Goal
  BY <1>8 DEF SessionThread, SessionLoop, SessionReport, SessionSent, PeerStep, ToStart,
     NotYetVisible, thread_vars, vars
<1> QED
  BY <1>1, <1>2, <1>3, <1>4, <1>5, <1>6, <1>7, <1>8
     DEF Next, ThreadStep, AppDisconnect, WorkerThread, WorkerRemove, Terminated

\* Nobody gets a session back that was let go, and who removes one reports it
\* when he lets it go.
LEMMA NextInHand ==
    ASSUME LifeInv, RemoverOwns, [Next]_vars, NEW s \in Session
    PROVE  /\ InHand(s)' => InHand(s)
           /\ Registered(s)' => Registered(s) \/ Young(s) \/ s > accepted
           /\ IsRemoved(s) => InHand(s) /\ ~InHand(s)'
           /\ s > accepted' => s > accepted
<1> s \in Nat /\ accepted \in Nat /\ TypeOK /\ s # NoSession
  BY BoundAssumption DEF LifeInv, TypeOK, Session, NoSession
<1> Accept \in Thread /\ Remover \subseteq Thread /\ Accept \notin Remover
  BY ThreadAssumption DEF Thread, Remover
<1> DEFINE Goal == /\ InHand(s)' => InHand(s)
                   /\ Registered(s)' => Registered(s) \/ Young(s) \/ s > accepted
                   /\ IsRemoved(s) => InHand(s) /\ ~InHand(s)'
                   /\ s > accepted' => s > accepted
<1>1. CASE RemoversStay
  <2>1. ~IsRemoved(s)
    BY <1>1 DEF TypeOK, RemoversStay, IsRemoved, DisconnectClient_Event
  <2>2. CASE s <= accepted
    <3>1. ~(s > accepted')
      BY <1>1, <2>2, BoundAssumption, NextType DEF LifeInv, TypeOK, RemoversStay
    <3> QED
      BY <1>1, <2>1, <2>2, <3>1 DEF RemoversStay, InHand
  <2>3. CASE s > accepted
    BY <2>1, <2>3 DEF InHand
  <2> QED
    BY <2>2, <2>3
<1>2. ASSUME NEW t \in Remover, DisconnectClient_Event(t)
      PROVE  Goal
  <2>1. UNCHANGED <<sessions_, accepted, fresh>> /\ pc'[Accept] = pc[Accept]
    BY <1>2 DEF TypeOK, DisconnectClient_Event, Goto, server_vars
  <2>2. (Registered(s)' <=> Registered(s)) /\ (Young(s)' <=> Young(s))
    BY <2>1 DEF Registered, Young, NotYetVisible
  <2>3. /\ \A u \in Remover : target'[u] = s => target[u] = s
        /\ target'[t] = NoSession
        /\ \A u \in Remover : u # t => target'[u] = target[u]
    BY <1>2 DEF TypeOK, DisconnectClient_Event
  <2>4. ASSUME IsRemoved(s)
        PROVE  InHand(s) /\ ~InHand(s)'
    <3>1. target[t] = s
      BY <1>2, <2>3, <2>4 DEF TypeOK, IsRemoved, DisconnectClient_Event
    <3>2. /\ s <= accepted /\ ~Registered(s) /\ ~Young(s)
          /\ \A u \in Remover : target[u] = s => u = t
      BY <3>1 DEF RemoverOwns
    <3> QED
      BY <2>1, <2>2, <2>3, <3>1, <3>2 DEF InHand
  <2> QED
    BY <2>1, <2>2, <2>3, <2>4 DEF InHand
<1>3. ASSUME NEW t \in Remover, NEW ip \in ClientID, DisconnectClient(t, ip), ~Removing(t)
      PROVE  Goal
  <2>1. UNCHANGED <<accepted, fresh>> /\ pc'[Accept] = pc[Accept]
    BY <1>3 DEF TypeOK, DisconnectClient, Goto
  <2>2. Young(s)' <=> Young(s)
    BY <2>1 DEF Young, NotYetVisible
  <2>3. Registered(s)' => Registered(s)
    BY <1>3 DEF TypeOK, DisconnectClient, Registered
  <2>4. ASSUME NEW u \in Remover, target'[u] = s
        PROVE  target[u] = s \/ Registered(s)
    BY <1>3, <2>4 DEF TypeOK, DisconnectClient, Registered
  <2>5. ~IsRemoved(s)
    BY <1>3 DEF TypeOK, DisconnectClient, IsRemoved, DisconnectClient_Event, Removing
  <2> QED
    BY <2>1, <2>2, <2>3, <2>4, <2>5 DEF InHand
<1> QED
  BY <1>1, <1>2, <1>3, NextRemoval

\* The thread of a session is started once, and nothing happens before.
LEMMA NextStarted ==
    ASSUME ReportInv, [Next]_vars
    PROVE  NotStarted'
<1> TypeOK /\ accepted \in Nat
  BY BoundAssumption DEF ReportInv, LifeInv, TypeOK
<1>1. ASSUME NEW s \in Session, s > accepted'
      PROVE  work_thread_'[s] = "none" /\ disconnects'[s] = 0 /\ ~s_connected'[s]
  <2>1. s > accepted /\ s \in Nat
    BY <1>1, NextInHand, BoundAssumption DEF ReportInv, Session
  <2>2. work_thread_[s] = "none" /\ disconnects[s] = 0 /\ ~s_connected[s]
    BY <2>1 DEF ReportInv, NotStarted
  <2>3. ~IsRemoved(s)
    <3> SUFFICES ASSUME NEW t \in Remover, target[t] = s
                 PROVE  FALSE
      BY DEF IsRemoved
    <3> QED
      BY <2>1 DEF ReportInv, RemoverOwns
  <2>4. ~Connects(s) /\ ~Starts(s)
    BY <2>1 DEF ReportInv, NotStarted, ToStart, Connects, Starts
  <2> QED
    BY <2>2, <2>3, <2>4, AllHappens DEF Happens, Rests, Joins, Loops, SeesLoss, Reports, Goes,
       Disconnects, Unreported
<1>2. ASSUME ToStart'
      PROVE  fresh' \in Session /\ fresh' <= accepted' /\ work_thread_'[fresh'] = "none"
  <2>1. CASE ToStart /\ fresh' = fresh /\ accepted' >= accepted
    <3>1. fresh \in Session /\ fresh <= accepted /\ work_thread_[fresh] = "none"
      BY <2>1 DEF ReportInv, NotStarted
    <3>2. fresh <= accepted'
      BY SMTT(30), <2>1, <3>1, BoundAssumption, NextType DEF ReportInv, LifeInv, TypeOK, Session
    <3>3. work_thread_'[fresh] = "none"
      BY <1>2, <3>1, AllHappens DEF Happens, Rests, Joins, Loops, SeesLoss, Reports, IsRemoved,
         Connects, Starts, Goes
    <3> QED
      BY <2>1, <3>1, <3>2, <3>3
  <2>2. CASE fresh' = accepted + 1 /\ accepted' = accepted + 1
    <3>1. fresh' \in Session
      BY <2>2, BoundAssumption, NextType DEF ReportInv, LifeInv, TypeOK, Session
    <3>2. PICK s \in Session : s = fresh' /\ s > accepted /\ s \in Nat
      BY <2>2, <3>1, BoundAssumption DEF Session
    <3>3. work_thread_[s] = "none"
      BY <3>2 DEF ReportInv, NotStarted
    <3>4. ~Starts(s)
      BY <3>2 DEF ReportInv, NotStarted, ToStart, Starts
    <3>5. work_thread_'[s] = "none"
      BY <3>3, <3>4, AllHappens DEF Happens, Rests, Joins, Loops, SeesLoss, Reports, IsRemoved,
         Connects, Goes
    <3> QED
      BY <2>2, <3>2, <3>5
  <2> QED
    BY <1>2, <2>1, <2>2, NextToStart DEF ReportInv
<1> QED
  BY <1>1, <1>2 DEF NotStarted

\* Reports are counted, and are made of sessions that are not connected.
LEMMA NextReports ==
    ASSUME ReportInv, [Next]_vars
    PROVE  LossSeen' /\ ReportsCounted' /\ ReportedIsLost'
<1> TypeOK
  BY DEF ReportInv, LifeInv
<1>1. ASSUME NEW s \in Session
      PROVE  /\ work_thread_'[s] = "report" => ~s_connected'[s]
             /\ disconnects'[s] <= 2
             /\ InHand(s)' \/ ~Ended(s)' => disconnects'[s] <= 1
             /\ InHand(s)' /\ ~Ended(s)' => disconnects'[s] = 0
             /\ Registered(s)' /\ disconnects'[s] # 0 => ~s_connected'[s]
  <2>1. /\ disconnects[s] \in Nat
        /\ work_thread_[s] = "report" => ~s_connected[s]
        /\ disconnects[s] <= 2
        /\ InHand(s) \/ ~Ended(s) => disconnects[s] <= 1
        /\ InHand(s) /\ ~Ended(s) => disconnects[s] = 0
        /\ Registered(s) /\ disconnects[s] # 0 => ~s_connected[s]
    BY DEF ReportInv, LossSeen, ReportsCounted, ReportedIsLost, TypeOK
  <2>2. /\ InHand(s)' => InHand(s)
        /\ Registered(s)' => Registered(s) \/ Young(s) \/ s > accepted
        /\ IsRemoved(s) => InHand(s) /\ ~InHand(s)'
        /\ Registered(s) \/ Young(s) \/ s > accepted => InHand(s)
        /\ Registered(s)' => InHand(s)'
    BY NextInHand DEF ReportInv, InHand
  <2>3. /\ Young(s) \/ s > accepted => work_thread_[s] = "none"
        /\ Connects(s) \/ Starts(s) => work_thread_[s] = "none"
    BY DEF ReportInv, NotStarted, Young, ToStart, Connects, Starts
  <2>4. Ended(s) <=> work_thread_[s] \in {"finished", "joined"}
    BY DEF Ended
  <2>5. Ended(s)' <=> work_thread_'[s] \in {"finished", "joined"}
    BY DEF Ended
  <2>6. CASE Rests(s) \/ Joins(s)
    BY <2>1, <2>2, <2>3, <2>4, <2>5, <2>6 DEF Rests, Joins, Goes, Disconnects, Unreported
  <2>7. CASE Loops(s) \/ SeesLoss(s)
    BY <2>1, <2>2, <2>3, <2>4, <2>5, <2>7 DEF Loops, SeesLoss, Goes, Disconnects, Unreported
  <2>8. CASE Reports(s)
    BY <2>1, <2>2, <2>3, <2>4, <2>5, <2>8 DEF Reports, Goes, Disconnects, ReportedOnceMore
  <2>9. CASE IsRemoved(s)
    BY <2>1, <2>2, <2>3, <2>4, <2>5, <2>9 DEF IsRemoved, Disconnects, ReportedOnceMore
  <2>10. CASE Connects(s) \/ Starts(s)
    BY <2>1, <2>2, <2>3, <2>4, <2>5, <2>10 DEF Connects, Starts, Disconnects, Unreported
  <2> QED
    BY <2>6, <2>7, <2>8, <2>9, <2>10, AllHappens DEF Happens
<1> QED
  BY <1>1 DEF LossSeen, ReportsCounted, ReportedIsLost

\* At the start no session has a thread or an event.
LEMMA InitReport == Init => ReportInv
<1> SUFFICES ASSUME Init
             PROVE  ReportInv
  OBVIOUS
<1> Accept \in Thread /\ Remover \subseteq Thread
  BY DEF Thread, Remover
<1>1. RemoverOwns
  BY BoundAssumption DEF Init, RemoverOwns, Removing, Stopping, StopSteps, Session, NoSession
<1>2. NotStarted
  BY DEF Init, NotStarted, ToStart, NotYetVisible, StopSteps
<1>3. LossSeen /\ ReportsCounted /\ ReportedIsLost
  BY DEF Init, LossSeen, ReportsCounted, ReportedIsLost
<1> QED
  BY <1>1, <1>2, <1>3, InitLife DEF ReportInv

\* The invariant about the reports holds in every reachable state.
THEOREM ReportInvariant == Spec => []ReportInv
<1>1. LifeInv /\ [Next]_vars => LifeInv'
  BY NextType, NextOwnership, NextJoined, NextHeldAll DEF LifeInv
<1>2. ReportInv /\ [Next]_vars => ReportInv'
  BY <1>1, NextOwns, NextStarted, NextReports DEF ReportInv
<1> QED
  BY <1>2, InitReport, PTL DEF Spec

\* A lost connection is reported at most twice: by the thread of the session and
\* by the thread that takes it out of the registry.
THEOREM NoThirdReport == Spec => []ReportedAtMostTwice
<1>1. ReportInv => ReportedAtMostTwice
  BY DEF ReportInv, ReportsCounted, ReportedAtMostTwice
<1> QED
  BY <1>1, ReportInvariant, PTL

\* A session that SendToClient and Broadcast consider connected has not been
\* reported as disconnected.
THEOREM ConnectedNotReported == Spec => []LiveNotReported
<1>1. ReportInv => LiveNotReported
  BY DEF ReportInv, ReportedIsLost, LiveNotReported
<1> QED
  BY <1>1, ReportInvariant, PTL

-----------------------------------------------------------------------------
(* What Stop leaves behind.                                                *)

\* Until Stop has returned nobody sets running_ again.
StopBegun == pc[Control] \in StopSteps \cup {"lock", "stop_all", "join"} => ~running_

\* Stop has cleared the registry, and Start has not been called since.
AfterClear == pc[Control] = "join" \/ (pc[Control] = "idle" /\ pc[Accept] = "none")

\* The accept thread may still register a session.
MayInsert == NotYetVisible \/ pc[Accept] = "accept"

\* After the registry was cleared one session gets into it at most: once there
\* is one the accept thread, which finds running_ cleared, takes no other.
LeftOver ==
    AfterClear =>
        /\ \A a, b \in ClientID : sessions_[a] # NoSession /\ sessions_[b] # NoSession => a = b
        /\ \A a \in ClientID : sessions_[a] # NoSession => ~MayInsert

LeftInv == LifeInv /\ StopBegun /\ LeftOver

\* A step after which no more can be registered than before.
AddsNone ==
    /\ \A a \in ClientID : sessions_'[a] # NoSession => sessions_[a] # NoSession
    /\ AfterClear' => AfterClear /\ (MayInsert' => MayInsert)
    /\ StopBegun'

\* Such a step leaves nothing behind.
LEMMA AddsNoneLeaves ==
    ASSUME LeftInv, AddsNone
    PROVE  StopBegun' /\ LeftOver'
  BY DEF LeftInv, LeftOver, AddsNone

\* No step but the two that insert into the registry and clear it adds to it.
LEMMA NextAddsNone ==
    ASSUME LeftInv, [Next]_vars
    PROVE  AddsNone \/ AcceptInsert \/ Stop_Clear
<1> Accept \in Thread /\ Control \in Thread /\ Accept # Control
  BY ThreadAssumption DEF Thread
<1> TypeOK /\ StopBegun
  BY DEF LeftInv, LifeInv
<1>1. ASSUME NEW t \in Thread, SessionStop(t)
      PROVE  AddsNone
  <2>1. /\ UNCHANGED <<sessions_, running_>>
        /\ \E to \in StopSteps \cup {AfterStop(t)} : pc' = [pc EXCEPT ![t] = to]
        /\ pc[t] \in StopSteps
    BY <1>1 DEF SessionStop, SessionStop_Test, SessionStop_Flags, SessionStop_Join,
       SessionStop_Close, Goto, StopSteps, server_vars
  <2>2. CASE t = Control
    BY <2>1, <2>2, ThreadAssumption DEF TypeOK, AddsNone, AfterClear, MayInsert, NotYetVisible,
       StopBegun, StopSteps, AfterStop
  <2>3. CASE t = Accept
    BY <2>1, <2>3 DEF TypeOK, AddsNone, AfterClear, MayInsert, NotYetVisible, StopBegun,
       StopSteps, AfterStop
  <2>4. CASE t # Control /\ t # Accept
    BY <2>1, <2>4 DEF TypeOK, AddsNone, AfterClear, MayInsert, NotYetVisible, StopBegun
  <2> QED
    BY <2>2, <2>3, <2>4
<1>2. ASSUME NEW t \in Worker \cup App,
             \/ DisconnectClient_Event(t)
             \/ \E ip \in ClientID : DisconnectClient(t, ip)
             \/ WorkerCheck(t) \/ WorkerScan(t) \/ WorkerSleep(t)
      PROVE  AddsNone
  <2>1. t \in Thread /\ t # Accept /\ t # Control
    BY ThreadAssumption DEF Thread
  <2>2. pc'[Accept] = pc[Accept] /\ pc'[Control] = pc[Control] /\ running_' = running_
    BY <1>2, <2>1 DEF TypeOK, DisconnectClient_Event, DisconnectClient, WorkerCheck, WorkerScan,
       WorkerSleep, Goto, server_vars
  <2>3. \A a \in ClientID : sessions_'[a] # NoSession => sessions_[a] # NoSession
    BY <1>2 DEF TypeOK, DisconnectClient_Event, DisconnectClient, WorkerCheck, WorkerScan,
       WorkerSleep, server_vars
  <2> QED
    BY <2>2, <2>3 DEF AddsNone, AfterClear, MayInsert, NotYetVisible, StopBegun
<1>3. ASSUME AcceptThread, ~AcceptInsert
      PROVE  AddsNone
  <2>1. pc'[Control] = pc[Control] /\ running_' = running_
    BY <1>3 DEF TypeOK, AcceptThread, AcceptCheck, AcceptNothing, AcceptFind,
       SessionStart_Running, SessionStart_Connected, SessionStart_Thread, AcceptEvent, Goto,
       server_vars
  <2>2. \A a \in ClientID : sessions_'[a] # NoSession => sessions_[a] # NoSession
    BY <1>3 DEF TypeOK, AcceptThread, AcceptCheck, AcceptNothing, AcceptFind,
       SessionStart_Running, SessionStart_Connected, SessionStart_Thread, AcceptEvent, server_vars
  <2>3. pc'[Accept] # "none" /\ pc[Accept] # "none"
    BY <1>3 DEF TypeOK, AcceptThread, AcceptCheck, AcceptNothing, AcceptFind,
       SessionStart_Running, SessionStart_Connected, SessionStart_Thread, AcceptEvent, Goto
  <2>4. MayInsert' => MayInsert \/ running_
    BY <1>3 DEF TypeOK, AcceptThread, AcceptCheck, AcceptNothing, AcceptFind,
       SessionStart_Running, SessionStart_Connected, SessionStart_Thread, AcceptEvent, Goto,
       MayInsert, NotYetVisible, StopSteps
  <2> QED
    BY <2>1, <2>2, <2>3, <2>4 DEF AddsNone, AfterClear, StopBegun
<1>4. ASSUME NEW ip \in ClientID, AcceptConnection(ip)
      PROVE  AddsNone
  BY <1>4 DEF TypeOK, AcceptConnection, Goto, AddsNone, AfterClear, MayInsert, NotYetVisible,
     StopBegun, server_vars
<1>5. ASSUME Start
      PROVE  AddsNone
  BY <1>5, ThreadAssumption DEF Start, AddsNone, AfterClear, StopBegun, StopSteps, Thread
<1>6. ASSUME Stop_Begin \/ Stop_Lock \/ \E ip \in ClientID : Stop_Next(ip)
      PROVE  AddsNone
  BY <1>6 DEF TypeOK, Stop_Begin, Stop_Lock, Stop_Next, Goto, AddsNone, AfterClear, StopBegun,
     StopSteps, server_vars
<1>7. ASSUME Stop_Join
      PROVE  AddsNone
  BY <1>7, ThreadAssumption DEF Stop_Join, AddsNone, AfterClear, MayInsert, NotYetVisible,
     StopBegun, StopSteps, Thread, server_vars
<1>8. ASSUME (\E s \in Session : SessionThread(s) \/ PeerStep(s)) \/ UNCHANGED vars
      PROVE  AddsNone
  BY <1>8 DEF SessionThread, SessionLoop, SessionReport, SessionSent, PeerStep, AddsNone,
     AfterClear, MayInsert, NotYetVisible, StopBegun, server_vars, thread_vars, vars
<1> QED
  BY <1>1, <1>2, <1>3, <1>4, <1>5, <1>6, <1>7, <1>8
     DEF Next, ThreadStep, AppDisconnect, WorkerThread, WorkerRemove, StopThread, Terminated

\* A session is inserted into a registry that is empty, or before it is cleared.
LEMMA InsertLeaves ==
    ASSUME LeftInv, AcceptInsert
    PROVE  StopBegun' /\ LeftOver'
<1> Accept \in Thread /\ Control \in Thread /\ Accept # Control
  BY ThreadAssumption DEF Thread
<1>1. /\ pc[Accept] = "insert" /\ pc'[Accept] = "start_running"
      /\ pc'[Control] = pc[Control] /\ running_' = running_
      /\ \A a \in ClientID : a # client_id_[fresh] => sessions_'[a] = sessions_[a]
  BY DEF LeftInv, LifeInv, TypeOK, AcceptInsert, Goto
<1>2. MayInsert /\ ~MayInsert'
  BY <1>1 DEF MayInsert, NotYetVisible, StopSteps
<1>3. AfterClear' => AfterClear
  BY <1>1 DEF AfterClear
<1>4. AfterClear => \A a \in ClientID : sessions_[a] = NoSession
  BY <1>2 DEF LeftInv, LeftOver
<1> QED
  BY <1>1, <1>2, <1>3, <1>4 DEF LeftInv, StopBegun, LeftOver

\* Stop clears the registry.
LEMMA ClearLeaves ==
    ASSUME LeftInv, Stop_Clear
    PROVE  StopBegun' /\ LeftOver'
<1> Control \in Thread
  BY DEF Thread
<1>1. \A a \in ClientID : sessions_'[a] = NoSession
  BY DEF Stop_Clear
<1>2. running_' = running_ /\ pc[Control] = "stop_all"
  BY DEF Stop_Clear
<1> QED
  BY <1>1, <1>2 DEF LeftInv, StopBegun, LeftOver

\* At the start nothing is registered, and Stop has not begun.
LEMMA InitLeft == Init => LeftInv
<1> Control \in Thread /\ Accept # Control /\ Control \notin Worker
  BY ThreadAssumption DEF Thread
<1> QED
  BY InitLife DEF Init, LeftInv, StopBegun, LeftOver, StopSteps

\* When Stop has returned at most one session is registered, whatever the threads
\* did meanwhile.
THEOREM StopLeavesOne == Spec => []AtMostOneLeftBehind
<1>1. LifeInv /\ [Next]_vars => LifeInv'
  BY NextType, NextOwnership, NextJoined, NextHeldAll DEF LifeInv
<1>2. LeftInv /\ [Next]_vars => LeftInv'
  BY <1>1, NextAddsNone, AddsNoneLeaves, InsertLeaves, ClearLeaves DEF LeftInv
<1>3. LeftInv => AtMostOneLeftBehind
  <2> SUFFICES ASSUME LeftInv, pc[Control] = "idle" /\ pc[Accept] = "none",
                      NEW s \in Session, NEW u \in Session, Registered(s), Registered(u)
               PROVE  s = u
    BY DEF AtMostOneLeftBehind
  <2>1. s # NoSession /\ u # NoSession
    BY BoundAssumption DEF Session, NoSession
  <2>2. PICK a \in ClientID : sessions_[a] = s
    BY DEF Registered
  <2>3. PICK b \in ClientID : sessions_[b] = u
    BY DEF Registered
  <2> QED
    BY <2>1, <2>2, <2>3 DEF LeftInv, LeftOver, AfterClear
<1> QED
  BY <1>2, <1>3, InitLeft, PTL DEF Spec
===============================================================================
