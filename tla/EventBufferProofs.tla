--------------------------- MODULE EventBufferProofs ---------------------------
(***************************************************************************)
(* What holds of the event double buffer for any events, any number of     *)
(* threads that add them, and buffers of any size: it is drained in        *)
(* private, and it is a first-in first-out queue.                          *)
(***************************************************************************)
EXTENDS EventBuffer, SequenceTheorems, TLAPS

\* What Tick drains is the buffer that is free, and between two Ticks there is
\* nothing in it: an exchange puts no event behind a newer one.  The event that
\* is being handled is still at the front.
DrainsFree ==
    /\ current_event_buffer # free_event_buffer
    /\ tick \in {"drain", "callback"} => event_swap = free_event_buffer
    /\ tick \in {"idle", "swap"} => event_buffers[free_event_buffer] = <<>>
    /\ tick = "callback" => event_buffers[free_event_buffer] # <<>>

BufferInv == TypeOK /\ DrainsFree

AddEvent ==
    \/ \E t \in Thread, e \in Event : AddEvent_Lock(t, e)
    \/ \E t \in Thread : AddEvent_Push(t)

\* The buffers are empty to begin with.
LEMMA InitBuffer == Init => BufferInv
<1>1. <<>> \in Seq(Event)
  BY EmptySeq
<1> QED
  BY <1>1 DEF Init, BufferInv, TypeOK, DrainsFree, Buffer

\* AddEvent appends to the buffer that is not being drained.
LEMMA AddKeepsBuffer == ASSUME BufferInv, AddEvent PROVE BufferInv'
<1>1. ASSUME NEW t \in Thread, NEW e \in Event, AddEvent_Lock(t, e)
      PROVE  BufferInv'
  BY <1>1 DEF BufferInv, TypeOK, DrainsFree, AddEvent_Lock, pointers
<1>2. ASSUME NEW t \in Thread, AddEvent_Push(t)
      PROVE  BufferInv'
  <2> DEFINE c == current_event_buffer
  <2>1. adding[t] \in Event /\ c \in Buffer /\ event_buffers[c] \in Seq(Event)
    BY <1>2 DEF BufferInv, TypeOK, AddEvent_Push
  <2>2. Append(event_buffers[c], adding[t]) \in Seq(Event)
    BY <2>1, AppendProperties
  <2>3. /\ event_buffers' \in [Buffer -> Seq(Event)]
        /\ event_buffers'[free_event_buffer] = event_buffers[free_event_buffer]
    BY <1>2, <2>1, <2>2 DEF BufferInv, TypeOK, DrainsFree, AddEvent_Push
  <2> QED
    BY <1>2, <2>3 DEF BufferInv, TypeOK, DrainsFree, AddEvent_Push, pointers
<1> QED
  BY <1>1, <1>2 DEF AddEvent

\* Tick exchanges the buffers when the one it gives away is empty.
LEMMA TickKeepsBuffer == ASSUME BufferInv, Tick PROVE BufferInv'
<1>1. CASE Tick_Lock
  BY <1>1 DEF BufferInv, TypeOK, DrainsFree, Tick_Lock, pointers, Thread
<1>2. CASE Tick_Swap
  BY <1>2 DEF BufferInv, TypeOK, DrainsFree, Tick_Swap
<1>3. CASE Tick_Handle
  <2>1. Head(event_buffers[event_swap]) \in Event
    BY <1>3, HeadTailProperties DEF BufferInv, TypeOK, Tick_Handle
  <2> QED
    BY <1>3, <2>1 DEF BufferInv, TypeOK, DrainsFree, Tick_Handle, pointers
<1>4. CASE Tick_Pop
  <2>1. Tail(event_buffers[event_swap]) \in Seq(Event)
    BY <1>4, HeadTailProperties DEF BufferInv, TypeOK, DrainsFree, Tick_Pop
  <2> QED
    BY <1>4, <2>1 DEF BufferInv, TypeOK, DrainsFree, Tick_Pop, pointers
<1>5. CASE Tick_Return
  BY <1>5 DEF BufferInv, TypeOK, DrainsFree, Tick_Return, pointers
<1> QED
  BY <1>1, <1>2, <1>3, <1>4, <1>5 DEF Tick

\* Every step keeps the invariant.
LEMMA NextBuffer == BufferInv /\ [Next]_vars => BufferInv'
<1>1. CASE UNCHANGED vars
  BY <1>1 DEF vars, BufferInv, TypeOK, DrainsFree
<1> QED
  BY <1>1, AddKeepsBuffer, TickKeepsBuffer DEF Next, AddEvent

\* The invariant holds in every reachable state.
THEOREM BufferInvariant == Spec => []BufferInv
  BY InitBuffer, NextBuffer, PTL DEF Spec

\* Every variable keeps its type: an event that was moved from is never pushed.
THEOREM BufferTypes == Spec => []TypeOK
<1>1. BufferInv => TypeOK
  BY DEF BufferInv
<1> QED
  BY <1>1, BufferInvariant, PTL

\* The buffer that Tick drains without event_mutex_ is never the one that
\* AddEvent pushes to.
THEOREM DrainedInPrivate == Spec => []DrainIsPrivate
<1>1. BufferInv => DrainIsPrivate
  BY DEF BufferInv, DrainsFree, DrainIsPrivate
<1> QED
  BY <1>1, BufferInvariant, PTL

-----------------------------------------------------------------------------
(* The two buffers are one queue.                                          *)

\* Head and tail of a concatenation whose first part is not empty.
LEMMA FrontOfConcat ==
    ASSUME NEW S, NEW s \in Seq(S), NEW t \in Seq(S), s # <<>>
    PROVE  /\ s \o t # <<>>
           /\ Head(s \o t) = Head(s)
           /\ Tail(s \o t) = Tail(s) \o t
<1>1. Len(s) \in Nat \ {0} /\ Len(t) \in Nat
  BY LenProperties, EmptySeq
<1>2. Len(s \o t) = Len(s) + Len(t) /\ s \o t \in Seq(S)
  BY ConcatProperties
<1> QED
  BY <1>1, <1>2, SMTT(30)

\* Appending to the second part appends to the whole.
LEMMA BackOfConcat ==
    ASSUME NEW S, NEW s \in Seq(S), NEW t \in Seq(S), NEW e \in S
    PROVE  s \o Append(t, e) = Append(s \o t, e)
<1> QED
  BY SMTT(30)

\* At first the queue is empty.
LEMMA InitQueue == Init => Queue!Init
<1>1. ASSUME Init
      PROVE  Taken = <<>> /\ event_buffers[current_event_buffer] = <<>>
  BY <1>1 DEF Init, Taken, Buffer
<1>2. <<>> \o <<>> = <<>>
  BY EmptySeq, ConcatEmptySeq
<1> QED
  BY <1>1, <1>2 DEF Init, Queue!Init

\* AddEvent adds to the queue when it pushes.
LEMMA AddIsAdd ==
    ASSUME BufferInv, AddEvent
    PROVE  [Queue!Next]_(Queue!vars)
<1>1. ASSUME NEW t \in Thread, NEW e \in Event, AddEvent_Lock(t, e)
      PROVE  UNCHANGED Queue!vars
  BY <1>1 DEF AddEvent_Lock, pointers, Queue!vars, Taken
<1>2. ASSUME NEW t \in Thread, AddEvent_Push(t)
      PROVE  Queue!Next
  <2> DEFINE c == current_event_buffer
             pending == event_buffers[c]
  <2>1. adding[t] \in Event /\ pending \in Seq(Event) /\ c \in Buffer
    BY <1>2 DEF BufferInv, TypeOK, AddEvent_Push
  <2>2. /\ Taken' = Taken
        /\ event_buffers'[current_event_buffer'] = Append(pending, adding[t])
    BY <1>2, <2>1 DEF BufferInv, TypeOK, DrainsFree, AddEvent_Push, pointers, Taken
  <2>3. Taken \in Seq(Event)
    BY HeadTailProperties DEF BufferInv, TypeOK, DrainsFree, Taken
  <2>4. Taken \o Append(pending, adding[t]) = Append(Taken \o pending, adding[t])
    BY <2>1, <2>3, BackOfConcat
  <2>5. Queue!Add(adding[t])
    BY <1>2, <2>2, <2>4 DEF Queue!Add, AddEvent_Push
  <2> QED
    BY <2>1, <2>5 DEF Queue!Next
<1> QED
  BY <1>1, <1>2 DEF AddEvent

\* Tick delivers when it calls a handler; the exchange does not show.
LEMMA TickIsDeliver ==
    ASSUME BufferInv, Tick
    PROVE  [Queue!Next]_(Queue!vars)
<1> DEFINE c == current_event_buffer
           f == free_event_buffer
<1>0. /\ c \in Buffer /\ f \in Buffer
      /\ event_buffers[c] \in Seq(Event) /\ event_buffers[f] \in Seq(Event)
  BY DEF BufferInv, TypeOK
<1>1. CASE Tick_Lock
  BY <1>1 DEF Tick_Lock, pointers, Queue!vars, Taken
<1>2. CASE Tick_Swap
  <2>1. /\ Taken = <<>> /\ Taken' = event_buffers[c]
        /\ event_buffers'[current_event_buffer'] = <<>>
        /\ delivered' = delivered
    BY <1>2 DEF BufferInv, DrainsFree, Tick_Swap, Taken
  <2>2. event_buffers[c] \o <<>> = <<>> \o event_buffers[c]
    BY <1>0, ConcatEmptySeq
  <2> QED
    BY <2>1, <2>2 DEF Queue!vars
<1>3. CASE Tick_Handle
  <2>1. /\ Taken = event_buffers[f] /\ Taken # <<>>
        /\ Taken' = Tail(event_buffers[f])
        /\ delivered' = Head(event_buffers[f])
        /\ event_buffers'[current_event_buffer'] = event_buffers[c]
    BY <1>3 DEF BufferInv, DrainsFree, Tick_Handle, Taken, pointers
  <2>2. Queue!Deliver
    BY <1>0, <2>1, FrontOfConcat DEF Queue!Deliver
  <2> QED
    BY <2>2 DEF Queue!Next
<1>4. CASE Tick_Pop
  <2>1. /\ Taken' = Taken /\ delivered' = delivered
        /\ event_buffers'[current_event_buffer'] = event_buffers[c]
    BY <1>0, <1>4 DEF BufferInv, TypeOK, DrainsFree, Tick_Pop, Taken, pointers
  <2> QED
    BY <2>1 DEF Queue!vars
<1>5. CASE Tick_Return
  BY <1>5 DEF Tick_Return, pointers, Queue!vars, Taken
<1> QED
  BY <1>1, <1>2, <1>3, <1>4, <1>5 DEF Tick

\* Whatever the interleaving of AddEvent, Tick and its handlers, the double
\* buffer behaves as one queue: events are delivered in the order in which they
\* were added, and none is lost or delivered twice.
THEOREM BufferIsQueue == Spec => Queue!Spec
<1>1. BufferInv /\ [Next]_vars => [Queue!Next]_(Queue!vars)
  <2>1. CASE UNCHANGED vars
    BY <2>1 DEF vars, Queue!vars, Taken
  <2> QED
    BY <2>1, AddIsAdd, TickIsDeliver DEF Next, AddEvent
<1> QED
  BY <1>1, InitQueue, BufferInvariant, PTL DEF Spec, Queue!Spec
===============================================================================
