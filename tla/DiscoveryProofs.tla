---------------------------- MODULE DiscoveryProofs ----------------------------
(***************************************************************************)
(* What discovery guarantees for any number of clients, however datagrams  *)
(* are lost, delayed and duplicated.                                       *)
(***************************************************************************)
EXTENDS Discovery, TLAPS

\* An address is in hand only while the server is about to store it.
InHandStored == in_hand # {} => At(Server, "store")

\* Tick calls a handler for a reason, which nobody takes back meanwhile.
HandlerHasNews == \A o \in Object : MutexHeld(o) => new_ip_available_[o]

\* The inductive invariant.  That the thread of the server is not started over
\* (StartedWhenJoined) is what keeps the address in hand from being forgotten.
DiscoveryInv ==
    /\ TypeOK
    /\ StartedWhenJoined
    /\ InHandStored
    /\ HandlerHasNews
    /\ AnnouncedOnce
    /\ FoundIsKnown

-----------------------------------------------------------------------------
\* When nothing was started nothing is known, announced or found.
LEMMA InitInv == Init => DiscoveryInv
<1> SUFFICES ASSUME Init PROVE DiscoveryInv
  OBVIOUS
<1>1. TypeOK
  BY DEF Init, TypeOK
<1>2. StartedWhenJoined
  BY DEF Init, StartedWhenJoined
<1>3. InHandStored /\ AnnouncedOnce
  BY DEF Init, InHandStored, AnnouncedOnce, Object
<1>4. HandlerHasNews
  BY DEF Init, HandlerHasNews, MutexHeld
<1>5. FoundIsKnown
  BY DEF Init, FoundIsKnown, At, Object
<1>6. QED BY <1>1, <1>2, <1>3, <1>4, <1>5 DEF DiscoveryInv

\* What the main thread does in Start, Stop and Tick.
LEMMA MainInv ==
    ASSUME DiscoveryInv, NEW o \in Object, Start(o) \/ Stop(o) \/ Main(o)
    PROVE  DiscoveryInv'
<1> USE DEF DiscoveryInv, net_vars, server_vars, Goto, At
<1>1. CASE Start(o)
  <2>1. TypeOK' /\ StartedWhenJoined' /\ HandlerHasNews'
    BY <1>1 DEF HandlerHasNews, MutexHeld, Start, TypeOK, StartedWhenJoined
  <2>2. InHandStored' /\ AnnouncedOnce'
    BY <1>1 DEF Start, TypeOK, StartedWhenJoined, InHandStored, AnnouncedOnce
  <2>3. FoundIsKnown'
    BY <1>1 DEF Start, TypeOK, FoundIsKnown, Object
  <2>4. QED BY <2>1, <2>2, <2>3
<1>2. CASE Stop(o)
  <2>1. TypeOK' /\ StartedWhenJoined' /\ HandlerHasNews'
    BY <1>2 DEF HandlerHasNews, MutexHeld, Stop, TypeOK, StartedWhenJoined
  <2>2. InHandStored' /\ AnnouncedOnce' /\ FoundIsKnown'
    BY <1>2 DEF Stop, InHandStored, AnnouncedOnce, FoundIsKnown
  <2>3. QED BY <2>1, <2>2
<1>3. CASE Stop_Join(o)
  <2>1. TypeOK' /\ StartedWhenJoined' /\ HandlerHasNews'
    BY <1>3 DEF HandlerHasNews, MutexHeld, Stop_Join, TypeOK, StartedWhenJoined
  <2>2. InHandStored' /\ AnnouncedOnce'
    BY <1>3 DEF Stop_Join, TypeOK, InHandStored, AnnouncedOnce, Object
  <2>3. FoundIsKnown'
    BY <1>3 DEF Stop_Join, TypeOK, FoundIsKnown, Object
  <2>4. QED BY <2>1, <2>2, <2>3
<1>4. CASE Tick(o)
  <2>1. TypeOK' /\ StartedWhenJoined' /\ HandlerHasNews'
    BY <1>4 DEF HandlerHasNews, MutexHeld, Tick, TypeOK, StartedWhenJoined
  <2>2. InHandStored' /\ AnnouncedOnce' /\ FoundIsKnown'
    BY <1>4 DEF Tick, InHandStored, AnnouncedOnce, FoundIsKnown
  <2>3. QED BY <2>1, <2>2
<1>5. CASE Tick_Return(o)
  <2>1. TypeOK'
    BY <1>5, AddressAssumption DEF Tick_Return, TypeOK, Object, Address
  <2>2. StartedWhenJoined' /\ InHandStored' /\ HandlerHasNews'
    BY <1>5 DEF Tick_Return, TypeOK, StartedWhenJoined, InHandStored, HandlerHasNews,
                MutexHeld
  <2>3. AnnouncedOnce'
    <3>1. CASE o = Server
      BY <1>5, <3>1 DEF Tick_Return, AnnouncedOnce
    <3>2. CASE o # Server
      BY <1>5, <3>2 DEF Tick_Return, TypeOK, AnnouncedOnce, Object
    <3>3. QED BY <3>1, <3>2
  <2>4. FoundIsKnown'
    BY <1>5 DEF Tick_Return, TypeOK, FoundIsKnown, HandlerHasNews, MutexHeld, Object
  <2>5. QED BY <2>1, <2>2, <2>3, <2>4
<1>6. QED BY <1>1, <1>2, <1>3, <1>4, <1>5 DEF Main

\* What the worker of a client or of the server does without the network.
LEMMA LoopInv ==
    ASSUME DiscoveryInv, NEW o \in Object, Loop(o)
    PROVE  DiscoveryInv'
<1> USE AddressAssumption DEF DiscoveryInv, net_vars, server_vars, Goto, At, Object
<1>1. CASE Worker_Create(o) \/ Worker_CreateFails(o) \/ Worker_End(o)
  <2>1. TypeOK' /\ StartedWhenJoined' /\ HandlerHasNews' /\ AnnouncedOnce'
    BY <1>1 DEF HandlerHasNews, MutexHeld, Worker_Create, Worker_CreateFails,
                Worker_End, TypeOK,
                StartedWhenJoined, AnnouncedOnce
  <2>2. InHandStored' /\ FoundIsKnown'
    BY <1>1 DEF Worker_Create, Worker_CreateFails, Worker_End, TypeOK,
                InHandStored, FoundIsKnown
  <2>3. QED BY <2>1, <2>2
<1>2. CASE o = Server /\ StoreClientIP
  <2>1. TypeOK' /\ StartedWhenJoined' /\ HandlerHasNews' /\ InHandStored'
    BY <1>2 DEF HandlerHasNews, MutexHeld, StoreClientIP, TypeOK, StartedWhenJoined,
                InHandStored, Address
  <2>2. AnnouncedOnce'
    BY <1>2 DEF StoreClientIP, TypeOK, AnnouncedOnce
  <2>3. FoundIsKnown'
    BY <1>2 DEF StoreClientIP, TypeOK, FoundIsKnown
  <2>4. QED BY <2>1, <2>2, <2>3
<1>3. CASE o \in Client /\ SendBroadcast(o)
  <2>1. TypeOK' /\ StartedWhenJoined' /\ HandlerHasNews' /\ InHandStored'
    BY <1>3 DEF HandlerHasNews, MutexHeld, SendBroadcast, TypeOK, StartedWhenJoined,
                InHandStored
  <2>2. AnnouncedOnce' /\ FoundIsKnown'
    BY <1>3 DEF SendBroadcast, TypeOK, AnnouncedOnce, FoundIsKnown
  <2>3. QED BY <2>1, <2>2
<1>4. CASE o \in Client /\ TryReceive_Nothing(o)
  <2>1. TypeOK' /\ StartedWhenJoined' /\ HandlerHasNews' /\ InHandStored'
    BY <1>4 DEF HandlerHasNews, MutexHeld, TryReceive_Nothing, TypeOK,
                StartedWhenJoined, InHandStored
  <2>2. AnnouncedOnce' /\ FoundIsKnown'
    BY <1>4 DEF TryReceive_Nothing, TypeOK, AnnouncedOnce, FoundIsKnown
  <2>3. QED BY <2>1, <2>2
<1>5. CASE o \in Client /\ StoreServerIP(o)
  <2>1. TypeOK' /\ StartedWhenJoined' /\ HandlerHasNews' /\ InHandStored'
    BY <1>5 DEF HandlerHasNews, MutexHeld, StoreServerIP, TypeOK, StartedWhenJoined,
                InHandStored
  <2>2. AnnouncedOnce' /\ FoundIsKnown'
    BY <1>5 DEF StoreServerIP, TypeOK, AnnouncedOnce, FoundIsKnown
  <2>3. QED BY <2>1, <2>2
<1>6. QED BY <1>1, <1>2, <1>3, <1>4, <1>5 DEF Loop

\* Receiving a datagram, on a client or on the server.
LEMMA ReceiveInv ==
    ASSUME DiscoveryInv
    PROVE  /\ \A c \in Client : TryReceive(c) => DiscoveryInv'
           /\ \A c \in Address : ProcessIncoming(c) => DiscoveryInv'
<1> USE AddressAssumption DEF DiscoveryInv, net_vars, server_vars, Goto, At, Object
<1>1. ASSUME NEW c \in Client, TryReceive(c) PROVE DiscoveryInv'
  <2>1. TypeOK' /\ StartedWhenJoined' /\ HandlerHasNews' /\ InHandStored'
    BY <1>1 DEF HandlerHasNews, MutexHeld, TryReceive, TypeOK, StartedWhenJoined,
                InHandStored
  <2>2. AnnouncedOnce' /\ FoundIsKnown'
    BY <1>1 DEF TryReceive, TypeOK, AnnouncedOnce, FoundIsKnown
  <2>3. QED BY <2>1, <2>2
<1>2. ASSUME NEW c \in Address, ProcessIncoming(c) PROVE DiscoveryInv'
  <2>1. TypeOK' /\ StartedWhenJoined' /\ HandlerHasNews' /\ InHandStored'
    BY <1>2 DEF HandlerHasNews, MutexHeld, ProcessIncoming, TypeOK, StartedWhenJoined,
                InHandStored, Address
  <2>2. AnnouncedOnce'
    BY <1>2 DEF ProcessIncoming, AnnouncedOnce
  <2>3. FoundIsKnown'
    BY <1>2 DEF ProcessIncoming, TypeOK, FoundIsKnown, InHandStored
  <2>4. QED BY <2>1, <2>2, <2>3
<1>3. QED BY <1>1, <1>2

-----------------------------------------------------------------------------
\* The invariant holds in every reachable state.
THEOREM DiscoveryInvariant == Spec => []DiscoveryInv
<1>1. ASSUME DiscoveryInv, [Next]_vars PROVE DiscoveryInv'
  <2>1. CASE Next
    BY <1>1, <2>1, MainInv, LoopInv, ReceiveInv DEF Next
  <2>2. CASE UNCHANGED vars
    BY <1>1, <2>2 DEF DiscoveryInv, TypeOK, StartedWhenJoined, InHandStored,
                      HandlerHasNews, MutexHeld, AnnouncedOnce, FoundIsKnown, At, vars
  <2>3. QED BY <1>1, <2>1, <2>2
<1>2. QED BY InitInv, <1>1, PTL DEF Spec

\* Every thread of the discovery is at a line of its own function, and what is
\* in its hands, on the network and in the list of clients are addresses.
THEOREM DiscoveryTypes == Spec => []TypeOK
<1>1. DiscoveryInv => TypeOK
  BY DEF DiscoveryInv
<1>2. QED BY DiscoveryInvariant, <1>1, PTL

\* Start of either class never assigns to a thread that is still to be joined.
THEOREM ThreadsAreJoined == Spec => []StartedWhenJoined
<1>1. DiscoveryInv => StartedWhenJoined
  BY DEF DiscoveryInv
<1>2. QED BY DiscoveryInvariant, <1>1, PTL

\* Every client address is reported to the server's application at most once and
\* never dropped, whatever is duplicated or repeated.
THEOREM NoSecondAnnouncement == Spec => []AnnouncedOnce
<1>1. DiscoveryInv => AnnouncedOnce
  BY DEF DiscoveryInv
<1>2. QED BY DiscoveryInvariant, <1>1, PTL

\* A client that has an answer of the server is known to the server, or is being
\* stored there.
THEOREM FinderIsKnown == Spec => []FoundIsKnown
<1>1. DiscoveryInv => FoundIsKnown
  BY DEF DiscoveryInv
<1>2. QED BY DiscoveryInvariant, <1>1, PTL
===============================================================================
