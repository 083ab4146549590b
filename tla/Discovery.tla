------------------------------- MODULE Discovery -------------------------------
(***************************************************************************)
(* Discovery over UDP: a UDPServerDiscoverer on every client broadcasts    *)
(* requests, the UDPClientReciver of the server answers them.  Each object *)
(* has a worker thread (DiscoveryLoop) and is driven by the main thread of *)
(* its application, which calls Start, Stop and Tick.  Tick calls the      *)
(* application's handler with ip_mutex_ held; the handler may call Stop.   *)
(*                                                                         *)
(* Datagrams may be lost when they are sent, delayed, and duplicated: one  *)
(* that is received may stay on its way.  An answer to a socket that was   *)
(* closed meanwhile may reach the next socket of the client: ports are     *)
(* reused.                                                                 *)
(***************************************************************************)
EXTENDS FiniteSets

CONSTANTS
    Client,   \* addresses of the clients, with a UDPServerDiscoverer each
    Guest,    \* addresses of more clients: only their requests are modelled
    Server    \* the application with the UDPClientReciver

ASSUME AddressAssumption == Server \notin Client \cup Guest /\ Client \cap Guest = {}

Object  == Client \cup {Server}
Address == Client \cup Guest

VARIABLES
    running_,           \* per object: running_
    worker,             \* per object: where DiscoveryLoop is
    main,               \* per object: where the main thread is
    new_ip_available_,  \* per object: new_ip_available_
    serverIP_,          \* TRUE if the server found its address when it started
    known_ips_,         \* of the server
    new_ips_,           \* of the server
    in_hand,            \* local of ProcessIncoming: client_ip
    requests,           \* clients with a request on its way
    answers,            \* clients with an answer on its way
    announced,          \* clients On_NewClientIP was called for
    found               \* clients whose On_SeverIPCovered was called

vars == <<running_, worker, main, new_ip_available_, serverIP_, known_ips_, new_ips_,
          in_hand, requests, answers, announced, found>>

net_vars    == <<requests, answers>>
server_vars == <<serverIP_, known_ips_, new_ips_, in_hand, announced>>

(***************************************************************************)
(* A worker waits for ip_mutex_ in "store".  The main thread holds it in   *)
(* "handler" and in "handler_stop", where the handler waits in Stop.       *)
(***************************************************************************)
TypeOK ==
    /\ running_ \in [Object -> BOOLEAN]
    /\ worker \in [Object -> {"none", "create", "send", "receive", "store", "finished"}]
    /\ main \in [Object -> {"idle", "stop", "handler", "handler_stop"}]
    /\ new_ip_available_ \in [Object -> BOOLEAN]
    /\ serverIP_ \in BOOLEAN
    /\ known_ips_ \subseteq Address
    /\ new_ips_ \subseteq Address
    /\ in_hand \subseteq Address
    /\ requests \subseteq Client
    /\ answers \subseteq Client
    /\ announced \subseteq Address
    /\ found \subseteq Client

Init ==
    /\ running_ = [o \in Object |-> FALSE]
    /\ worker = [o \in Object |-> "none"]
    /\ main = [o \in Object |-> "idle"]
    /\ new_ip_available_ = [o \in Object |-> FALSE]
    /\ serverIP_ \in BOOLEAN
    /\ known_ips_ = {} /\ new_ips_ = {} /\ in_hand = {}
    /\ requests = {} /\ answers = {}
    /\ announced = {} /\ found = {}

MutexHeld(o) == main[o] \in {"handler", "handler_stop"}

At(o, step)   == worker[o] = step
Goto(o, step) == worker' = [worker EXCEPT ![o] = step]

-----------------------------------------------------------------------------
(* Start, Stop and the loop: the same code in both classes.                *)

\* if (running_) return; running_ = true; worker_thread_ = std::thread(...)
Start(o) ==
    /\ main[o] = "idle"
    /\ ~running_[o]
    /\ running_' = [running_ EXCEPT ![o] = TRUE]
    /\ Goto(o, "create")
    /\ UNCHANGED <<main, new_ip_available_, server_vars, net_vars, found>>

\* running_ = false, then join, from the main loop or from a handler.
Stop(o) ==
    /\ main[o] \in {"idle", "handler"}
    /\ running_' = [running_ EXCEPT ![o] = FALSE]
    /\ main' = [main EXCEPT ![o] = IF @ = "idle" THEN "stop" ELSE "handler_stop"]
    /\ UNCHANGED <<worker, new_ip_available_, server_vars, net_vars, found>>

\* The worker has ended, or there is none to join: Stop returns.
Stop_Join(o) ==
    /\ main[o] \in {"stop", "handler_stop"}
    /\ worker[o] \in {"none", "finished"}
    /\ Goto(o, "none")
    /\ main' = [main EXCEPT ![o] = IF @ = "stop" THEN "idle" ELSE "handler"]
    /\ UNCHANGED <<running_, new_ip_available_, server_vars, net_vars, found>>

\* Mutant of Worker_CreateFails: clears running_.
Worker_CreateFails_Reset(o) ==
    /\ At(o, "create")
    /\ running_' = [running_ EXCEPT ![o] = FALSE]
    /\ Goto(o, "finished")
    /\ UNCHANGED <<main, new_ip_available_, server_vars, net_vars, found>>

\* CreateSocket returns -1: the loop returns and running_ stays set.
Worker_CreateFails(o) ==
    /\ At(o, "create")
    /\ Goto(o, "finished")
    /\ UNCHANGED <<running_, main, new_ip_available_, server_vars, net_vars, found>>

Worker_Create(o) ==
    /\ At(o, "create")
    /\ Goto(o, IF o = Server THEN "receive" ELSE "send")
    /\ UNCHANGED <<running_, main, new_ip_available_, server_vars, net_vars, found>>

\* while (running_) ends; CloseSocket.
Worker_End(o) ==
    /\ At(o, IF o = Server THEN "receive" ELSE "send")
    /\ ~running_[o]
    /\ Goto(o, "finished")
    /\ UNCHANGED <<running_, main, new_ip_available_, server_vars, net_vars, found>>

-----------------------------------------------------------------------------
(* DiscoveryLoop of UDPServerDiscoverer, on client c.                      *)

\* Mutant of SendBroadcast: running_ is not tested.
SendBroadcast_Always(c) ==
    /\ At(c, "send")
    /\ requests' \in {requests, requests \cup {c}}
    /\ Goto(c, "receive")
    /\ UNCHANGED <<running_, main, new_ip_available_, server_vars, answers, found>>

SendBroadcast(c) ==
    /\ At(c, "send")
    /\ running_[c]
    /\ requests' \in {requests, requests \cup {c}}
    /\ Goto(c, "receive")
    /\ UNCHANGED <<running_, main, new_ip_available_, server_vars, answers, found>>

\* Nothing has come.
TryReceive_Nothing(c) ==
    /\ At(c, "receive")
    /\ Goto(c, "send")
    /\ UNCHANGED <<running_, main, new_ip_available_, server_vars, net_vars, found>>

\* An answer has come.  One without an address leaves nothing to store.
TryReceive(c) ==
    /\ At(c, "receive")
    /\ c \in answers
    /\ answers' \in {answers, answers \ {c}}
    /\ Goto(c, IF serverIP_ THEN "store" ELSE "send")
    /\ UNCHANGED <<running_, main, new_ip_available_, server_vars, requests, found>>

\* CoveredSeverIP = received_ip; new_ip_available_ = true, under ip_mutex_
StoreServerIP(c) ==
    /\ At(c, "store")
    /\ ~MutexHeld(c)
    /\ new_ip_available_' = [new_ip_available_ EXCEPT ![c] = TRUE]
    /\ Goto(c, "send")
    /\ UNCHANGED <<running_, main, server_vars, net_vars, found>>

-----------------------------------------------------------------------------
(* DiscoveryLoop of UDPClientReciver.                                      *)

\* Mutant of ProcessIncoming: takes the address from the wrong sockaddr.
ProcessIncoming_Own(c) ==
    /\ At(Server, "receive")
    /\ running_[Server]
    /\ c \in requests \cup Guest
    /\ requests' \in {requests, requests \ {c}}
    /\ answers' \in {answers, answers \cup ({c} \cap Client)}
    /\ in_hand' = {Server}
    /\ Goto(Server, "store")
    /\ UNCHANGED <<running_, main, new_ip_available_, serverIP_, known_ips_, new_ips_,
                   announced, found>>

\* Mutant of ProcessIncoming: a client is answered once.
ProcessIncoming_Once(c) ==
    /\ At(Server, "receive")
    /\ running_[Server]
    /\ c \in requests \cup Guest
    /\ requests' \in {requests, requests \ {c}}
    /\ answers' \in {answers, answers \cup (({c} \cap Client) \ known_ips_)}
    /\ in_hand' = {c}
    /\ Goto(Server, "store")
    /\ UNCHANGED <<running_, main, new_ip_available_, serverIP_, known_ips_, new_ips_,
                   announced, found>>

\* A request has come: answers it, and has the sender's address in hand.
ProcessIncoming(c) ==
    /\ At(Server, "receive")
    /\ running_[Server]
    /\ c \in requests \cup Guest
    /\ requests' \in {requests, requests \ {c}}
    /\ answers' \in {answers, answers \cup ({c} \cap Client)}
    /\ in_hand' = {c}
    /\ Goto(Server, "store")
    /\ UNCHANGED <<running_, main, new_ip_available_, serverIP_, known_ips_, new_ips_,
                   announced, found>>

\* Mutant of StoreClientIP: gives up when Tick holds the mutex.
StoreClientIP_TryLock ==
    /\ At(Server, "store")
    /\ LET fresh == IF MutexHeld(Server) THEN {} ELSE in_hand \ known_ips_ IN
       /\ known_ips_' = known_ips_ \cup fresh
       /\ new_ips_' = new_ips_ \cup fresh
       /\ new_ip_available_' = [new_ip_available_ EXCEPT ![Server] = @ \/ fresh # {}]
    /\ in_hand' = {}
    /\ Goto(Server, "receive")
    /\ UNCHANGED <<running_, main, serverIP_, announced, net_vars, found>>

\* Mutant of StoreClientIP: looks for the address among the new ones.
StoreClientIP_New ==
    /\ At(Server, "store")
    /\ ~MutexHeld(Server)
    /\ LET fresh == in_hand \ new_ips_ IN
       /\ known_ips_' = known_ips_ \cup fresh
       /\ new_ips_' = new_ips_ \cup fresh
       /\ new_ip_available_' = [new_ip_available_ EXCEPT ![Server] = @ \/ fresh # {}]
    /\ in_hand' = {}
    /\ Goto(Server, "receive")
    /\ UNCHANGED <<running_, main, serverIP_, announced, net_vars, found>>

\* An address that is not in known_ips_ is added there and to new_ips_.
StoreClientIP ==
    /\ At(Server, "store")
    /\ ~MutexHeld(Server)
    /\ LET fresh == in_hand \ known_ips_ IN
       /\ known_ips_' = known_ips_ \cup fresh
       /\ new_ips_' = new_ips_ \cup fresh
       /\ new_ip_available_' = [new_ip_available_ EXCEPT ![Server] = @ \/ fresh # {}]
    /\ in_hand' = {}
    /\ Goto(Server, "receive")
    /\ UNCHANGED <<running_, main, serverIP_, announced, net_vars, found>>

-----------------------------------------------------------------------------
(* Tick, with ip_mutex_ held.                                              *)

\* if (new_ip_available_): the handler is called.
Tick(o) ==
    /\ main[o] = "idle"
    /\ new_ip_available_[o]
    /\ main' = [main EXCEPT ![o] = "handler"]
    /\ UNCHANGED <<running_, worker, new_ip_available_, server_vars, net_vars, found>>

\* The handler has returned, on the server for each of new_ips_.
Tick_Return(o) ==
    /\ main[o] = "handler"
    /\ new_ip_available_' = [new_ip_available_ EXCEPT ![o] = FALSE]
    /\ main' = [main EXCEPT ![o] = "idle"]
    /\ IF o = Server
       THEN /\ announced' = announced \cup new_ips_
            /\ new_ips_' = {}
            /\ UNCHANGED found
       ELSE /\ found' = found \cup {o}
            /\ UNCHANGED <<announced, new_ips_>>
    /\ UNCHANGED <<running_, worker, serverIP_, known_ips_, in_hand, net_vars>>

-----------------------------------------------------------------------------
Loop(o) ==
    \/ Worker_Create(o) \/ Worker_CreateFails(o) \/ Worker_End(o)
    \/ o = Server /\ StoreClientIP
    \/ o \in Client /\ (SendBroadcast(o) \/ TryReceive_Nothing(o) \/ StoreServerIP(o))

Main(o) == Stop_Join(o) \/ Tick(o) \/ Tick_Return(o)

Next ==
    \/ \E o \in Object : Start(o) \/ Stop(o) \/ Main(o) \/ Loop(o)
    \/ \E c \in Client : TryReceive(c)
    \/ \E c \in Address : ProcessIncoming(c)

Spec == Init /\ [][Next]_vars

(***************************************************************************)
(* Workers are scheduled, the main threads keep calling Tick, handlers     *)
(* return.  Of requests that are sent again and again, and of their        *)
(* answers, some are not lost, and what stays there to be received is.     *)
(***************************************************************************)
Fairness ==
    /\ \A o \in Object : WF_vars(Loop(o)) /\ WF_vars(Main(o))
    /\ \A c \in Client :
          /\ SF_vars(SendBroadcast(c) /\ c \in requests')
          /\ SF_vars(ProcessIncoming(c) /\ c \in answers')
          /\ SF_vars(TryReceive(c))

FairSpec == Spec /\ Fairness

-----------------------------------------------------------------------------
\* Start assigns worker_thread_ only when the last thread was joined, whether
\* it was stopped or could not open its socket: assigning to a joinable
\* std::thread calls std::terminate.
StartedWhenJoined ==
    \A o \in Object : ~running_[o] /\ main[o] \in {"idle", "handler"} => worker[o] = "none"

\* A client address is reported to the server's application once: it is new, or
\* it was announced and never becomes new again, whatever is duplicated, lost
\* or repeated after a restart; and a new one is not forgotten.
AnnouncedOnce ==
    /\ known_ips_ = new_ips_ \cup announced
    /\ new_ips_ \cap announced = {}
    /\ new_ips_ # {} => new_ip_available_[Server]

\* A client never knows a server that does not know it: the server answers
\* before it stores the address, but goes on to store it.
FoundIsKnown ==
    \A c \in Client :
        c \in answers \cup found \/ At(c, "store") \/ new_ip_available_[c]
            => c \in known_ips_ \cup in_hand

Working(o) == running_[o] /\ worker[o] \in {"send", "receive", "store"}

\* As long as both sides work, the server's application hears of the client,
\* and the client's of the server unless the server did not find its own
\* address when it was constructed (it then answers without one for ever).
Discovered ==
    \A c \in Client :
        <>[](Working(c) /\ Working(Server))
            => <>(c \in announced /\ (serverIP_ => c \in found))

\* Stop returns.  Called by a handler it returns unless the worker waits for
\* ip_mutex_, which Tick holds around the handler.
StopReturns ==
    \A o \in Object :
        /\ main[o] = "stop" ~> main[o] = "idle"
        /\ main[o] = "handler_stop" ~> (main[o] # "handler_stop" \/ At(o, "store"))
===============================================================================
