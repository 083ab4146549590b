----------------------------- MODULE EventBuffer -----------------------------
(***************************************************************************)
(* The double buffer between the threads that call                         *)
(* JostickTcpServer::AddEvent (accept, worker and session threads, and the *)
(* application itself through DisconnectClient) and the application's main *)
(* thread, which calls Tick.  Tick exchanges the buffers under             *)
(* event_mutex_ and drains the one it took without the mutex; an event     *)
(* handler it calls may add events in its turn.                            *)
(***************************************************************************)
EXTENDS Naturals, Sequences

CONSTANTS
    Event,       \* the events, whatever they say
    NoEvent,
    Producer,    \* threads that call AddEvent
    Main,        \* the thread that calls Tick
    Nobody,      \* event_mutex_ is free
    MaxPending   \* bound: events in the current buffer

ASSUME EventAssumption == NoEvent \notin Event
ASSUME ThreadAssumption == Main \notin Producer /\ Nobody \notin Producer \cup {Main}
ASSUME PendingAssumption == MaxPending \in Nat

Thread == Producer \cup {Main}
Buffer == {0, 1}

VARIABLES
    event_buffers,         \* the two queues
    current_event_buffer,  \* which of them AddEvent pushes to
    free_event_buffer,     \* the other one
    event_swap,            \* local of Tick: the one it drains
    event_mutex_,          \* the thread that holds event_mutex_
    adding,                \* per thread: the event it is adding
    tick,                  \* where Main is in Tick
    delivered              \* the event a handler was called with last

vars == <<event_buffers, current_event_buffer, free_event_buffer, event_swap,
          event_mutex_, adding, tick, delivered>>

pointers == <<current_event_buffer, free_event_buffer, event_swap>>

TypeOK ==
    /\ event_buffers \in [Buffer -> Seq(Event)]
    /\ current_event_buffer \in Buffer
    /\ free_event_buffer \in Buffer
    /\ event_swap \in Buffer
    /\ event_mutex_ \in Thread \cup {Nobody}
    /\ adding \in [Thread -> Event \cup {NoEvent}]
    /\ tick \in {"idle", "swap", "drain", "callback"}
    /\ delivered \in Event \cup {NoEvent}

Init ==
    /\ event_buffers = [b \in Buffer |-> <<>>]
    /\ current_event_buffer = 0
    /\ free_event_buffer = 1
    /\ event_swap = 1
    /\ event_mutex_ = Nobody
    /\ adding = [t \in Thread |-> NoEvent]
    /\ tick = "idle"
    /\ delivered = NoEvent

-----------------------------------------------------------------------------
(* AddEvent.                                                               *)

\* Main runs application code between two Ticks and inside a handler.
MayAdd(t) == t = Main => tick \in {"idle", "callback"}

AddEvent_Lock(t, e) ==
    /\ adding[t] = NoEvent
    /\ MayAdd(t)
    /\ Len(event_buffers[current_event_buffer]) < MaxPending
    /\ event_mutex_ = Nobody
    /\ event_mutex_' = t
    /\ adding' = [adding EXCEPT ![t] = e]
    /\ UNCHANGED <<event_buffers, pointers, tick, delivered>>

\* Mutant of AddEvent_Push: pushes the event after it was moved from.
AddEvent_Push_Moved(t) ==
    /\ event_mutex_ = t
    /\ adding[t] # NoEvent
    /\ adding' = [adding EXCEPT ![t] = NoEvent]
    /\ event_buffers' = [event_buffers EXCEPT ![current_event_buffer] =
                            Append(@, adding'[t])]
    /\ event_mutex_' = Nobody
    /\ UNCHANGED <<pointers, tick, delivered>>

AddEvent_Push(t) ==
    /\ event_mutex_ = t
    /\ adding[t] # NoEvent
    /\ event_buffers' = [event_buffers EXCEPT ![current_event_buffer] =
                            Append(@, adding[t])]
    /\ adding' = [adding EXCEPT ![t] = NoEvent]
    /\ event_mutex_' = Nobody
    /\ UNCHANGED <<pointers, tick, delivered>>

-----------------------------------------------------------------------------
(* Tick.                                                                   *)

Tick_Lock ==
    /\ tick = "idle"
    /\ adding[Main] = NoEvent
    /\ event_mutex_ = Nobody
    /\ event_mutex_' = Main
    /\ tick' = "swap"
    /\ UNCHANGED <<event_buffers, pointers, adding, delivered>>

\* Mutant of Tick_Swap: the buffers are not exchanged.
Tick_Swap_InPlace ==
    /\ tick = "swap"
    /\ event_swap' = current_event_buffer
    /\ event_mutex_' = Nobody
    /\ tick' = "drain"
    /\ UNCHANGED <<event_buffers, current_event_buffer, free_event_buffer,
                   adding, delivered>>

Tick_Swap ==
    /\ tick = "swap"
    /\ event_swap' = current_event_buffer
    /\ current_event_buffer' = free_event_buffer
    /\ free_event_buffer' = current_event_buffer
    /\ event_mutex_' = Nobody
    /\ tick' = "drain"
    /\ UNCHANGED <<event_buffers, adding, delivered>>

\* Calls the handler of the event at the front, which stays in the queue.
Tick_Handle ==
    /\ tick = "drain"
    /\ event_buffers[event_swap] # <<>>
    /\ delivered' = Head(event_buffers[event_swap])
    /\ tick' = "callback"
    /\ UNCHANGED <<event_buffers, pointers, event_mutex_, adding>>

\* The handler has returned: pop.
Tick_Pop ==
    /\ tick = "callback"
    /\ adding[Main] = NoEvent
    /\ event_buffers' = [event_buffers EXCEPT ![event_swap] = Tail(@)]
    /\ tick' = "drain"
    /\ UNCHANGED <<pointers, event_mutex_, adding, delivered>>

\* Mutant of Tick_Return: one event per Tick.
Tick_Return_Early ==
    /\ tick = "drain"
    /\ tick' = "idle"
    /\ UNCHANGED <<event_buffers, pointers, event_mutex_, adding, delivered>>

Tick_Return ==
    /\ tick = "drain"
    /\ event_buffers[event_swap] = <<>>
    /\ tick' = "idle"
    /\ UNCHANGED <<event_buffers, pointers, event_mutex_, adding, delivered>>

Tick == Tick_Lock \/ Tick_Swap \/ Tick_Handle \/ Tick_Pop \/ Tick_Return

-----------------------------------------------------------------------------
Next ==
    \/ \E t \in Thread, e \in Event : AddEvent_Lock(t, e)
    \/ \E t \in Thread : AddEvent_Push(t)
    \/ Tick

Spec == Init /\ [][Next]_vars

(***************************************************************************)
(* The application calls Tick again and again, and a thread that is in     *)
(* AddEvent or in Tick is scheduled.  Nobody is obliged to add events.     *)
(***************************************************************************)
Fairness ==
    /\ WF_vars(Tick)
    /\ \A t \in Thread : WF_vars(AddEvent_Push(t))

FairSpec == Spec /\ Fairness

-----------------------------------------------------------------------------
\* The buffer that Tick drains without event_mutex_ is never the one that
\* AddEvent pushes to, not even while a handler adds events itself: no queue is
\* accessed by two threads at once.
DrainIsPrivate ==
    tick \in {"drain", "callback"} => event_swap # current_event_buffer

\* What Tick has taken and not yet handled, then what was added since.
Taken ==
    CASE tick = "callback" -> Tail(event_buffers[free_event_buffer])
      [] OTHER -> event_buffers[free_event_buffer]

Queue == INSTANCE EventQueue
         WITH queue <- Taken \o event_buffers[current_event_buffer]

\* The double buffer is a first-in first-out queue: no event is lost,
\* duplicated or reordered by the exchange of the buffers, and every event is
\* handled as long as the application keeps calling Tick.
QueueSpec == Queue!FairSpec

\* Tick returns: it handles the events that were there when it took the
\* buffer, however many are added meanwhile, by its own handlers too.
TickReturns == tick # "idle" ~> tick = "idle"
==============================================================================
