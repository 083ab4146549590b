--------------------------- MODULE SessionLifecycle ---------------------------
(***************************************************************************)
(* What the registry of JostickTcpServer promises about each session,      *)
(* without the threads: a connection is accepted, registered under its     *)
(* address, removed from the registry by one thread and then closed, in    *)
(* this order and once each, and an address never has two registered       *)
(* sessions.                                                               *)
(***************************************************************************)
CONSTANTS Session, ClientID, NoClient

VARIABLES
    life,   \* per session: how far it has come
    who     \* per session: the address of its client

vars == <<life, who>>

Stages == {"none", "accepted", "registered", "removed", "closed"}

Init ==
    /\ life = [s \in Session |-> "none"]
    /\ who = [s \in Session |-> NoClient]

Advance(s, from, to) ==
    /\ life[s] = from
    /\ life' = [life EXCEPT ![s] = to]

Admit(s, ip) ==
    /\ Advance(s, "none", "accepted")
    /\ who' = [who EXCEPT ![s] = ip]

\* Allowed only when no session of the same address is registered.
Register(s) ==
    /\ \A r \in Session : life[r] = "registered" => who[r] # who[s]
    /\ Advance(s, "accepted", "registered")
    /\ UNCHANGED who

Remove(s) == Advance(s, "registered", "removed") /\ UNCHANGED who

Close(s) == Advance(s, "removed", "closed") /\ UNCHANGED who

Next == \E s \in Session :
    \/ \E ip \in ClientID : Admit(s, ip)
    \/ Register(s)
    \/ Remove(s)
    \/ Close(s)

Spec == Init /\ [][Next]_vars
===============================================================================
