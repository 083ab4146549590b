------------------------------ MODULE EventQueue ------------------------------
(***************************************************************************)
(* What the double buffer of events promises to the two sides that use it: *)
(* a first-in first-out queue.  Nothing that was added is lost, duplicated *)
(* or overtaken, and the oldest event is delivered in the end.             *)
(***************************************************************************)
EXTENDS Sequences

CONSTANTS Event, NoEvent

VARIABLES
    queue,      \* events added and not yet delivered, oldest first
    delivered   \* the event delivered last

vars == <<queue, delivered>>

Init == queue = <<>> /\ delivered = NoEvent

Add(e) ==
    /\ queue' = Append(queue, e)
    /\ UNCHANGED delivered

Deliver ==
    /\ queue # <<>>
    /\ delivered' = Head(queue)
    /\ queue' = Tail(queue)

Next == (\E e \in Event : Add(e)) \/ Deliver

Spec == Init /\ [][Next]_vars

FairSpec == Spec /\ WF_vars(Deliver)
===============================================================================
