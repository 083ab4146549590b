------------------------ MODULE JostickTcpSessionProofs ------------------------
(***************************************************************************)
(* What holds of a session and its client for any number of messages, any  *)
(* size of packets and of the kernel's buffers, and any number of threads. *)
(***************************************************************************)
EXTENDS JostickTcpSession, SequenceTheorems, TLAPS

-----------------------------------------------------------------------------
(* Types.                                                                  *)

\* A worker in SendRaw has a packet and units of it to write.
WriterHasPacket ==
    \A e \in End : worker[e] = "write" => packet[e] \in Message /\ left[e] \in 1 .. PacketSize

Types == TypeOK /\ WriterHasPacket

\* A part of a packet is a sequence of units.
LEMMA PartOfPacket ==
    ASSUME NEW m \in Message, NEW k \in 1 .. PacketSize, NEW n \in 1 .. k
    PROVE  SubSeq(Packet(m), PacketSize - k + 1, PacketSize - k + 1 + n - 1) \in Seq(Unit)
<1>1. PacketSize \in Nat \ {0}
  BY SizeAssumption
<1>2. \A i \in (PacketSize - k + 1) .. (PacketSize - k + 1 + n - 1) : Packet(m)[i] \in Unit
  BY <1>1 DEF Packet, Unit
<1> QED
  BY <1>1, <1>2, SubSeqProperties

\* Parts of sequences that a worker cuts out are sequences of the same kind.
LEMMA PartOfSeq ==
    ASSUME NEW S, NEW s \in Seq(S), NEW m \in Nat \ {0}, NEW n \in Nat, n <= Len(s)
    PROVE  SubSeq(s, m, n) \in Seq(S)
<1>1. \A i \in m .. n : s[i] \in S
  BY ElementOfSeq, LenProperties
<1> QED
  BY <1>1, SubSeqProperties

\* An assignment to one element keeps the type of an array.
LEMMA Assigned ==
    ASSUME NEW D, NEW S, NEW f \in [D -> S], NEW d \in D, NEW v \in S
    PROVE  [f EXCEPT ![d] = v] \in [D -> S]
  OBVIOUS

\* So many packets fit into a buffer, and each begins inside it.
LEMMA WholePackets ==
    ASSUME NEW n \in Nat, NEW p \in Nat, p > 0
    PROVE  /\ n \div p \in Nat
           /\ (n \div p) * p \in Nat
           /\ (n \div p) * p <= n
           /\ \A i \in 1 .. n \div p : (i - 1) * p + 1 \in 1 .. n
<1>1. n \div p \in Nat /\ (n \div p) * p <= n
  BY SMTT(30)
<1>2. \A k, i \in Nat : i <= k => i * p <= k * p /\ i * p \in Nat
  BY SMTT(30)
<1>3. \A i \in Nat : (i - 1) * p = i * p - p
  BY SMTT(30)
<1>4. ASSUME NEW i \in 1 .. n \div p
      PROVE  (i - 1) * p + 1 \in 1 .. n
  <2> DEFINE k == n \div p
  <2>1. k \in Nat /\ i \in Nat /\ i <= k /\ i - 1 \in Nat /\ i - 1 <= k
    BY <1>1, <1>4
  <2>2. k * p <= n
    BY <1>1
  <2> HIDE DEF k
  <2>3. i * p <= k * p /\ i * p \in Nat /\ k * p \in Nat
    BY <1>2, <2>1
  <2>4. (i - 1) * p \in Nat
    BY <1>2, <2>1
  <2>5. (i - 1) * p = i * p - p
    BY <1>3, <2>1
  <2> QED
    BY <2>2, <2>3, <2>4, <2>5
<1> QED
  BY <1>1, <1>2, <1>4

\* What is parsed is a message or the mark of a packet that is none.
LEMMA ParsedType ==
    ASSUME TypeOK, NEW e \in End
    PROVE  /\ Parsed(e) \in Seq(Message \cup {None})
           /\ Len(Parsed(e)) * PacketSize \in Nat
<1> DEFINE b == receive_buffer[e]
           k == Len(b) \div PacketSize
<1>1. b \in Seq(Unit) /\ Len(b) \in Nat /\ PacketSize \in Nat /\ PacketSize > 0
  BY SizeAssumption, LenProperties DEF TypeOK
<1>2. k \in Nat /\ k * PacketSize \in Nat
      /\ \A i \in 1 .. k : (i - 1) * PacketSize + 1 \in 1 .. Len(b)
  BY <1>1, WholePackets
<1>3. Parsed(e) = [i \in 1 .. k |->
        LET first == b[(i - 1) * PacketSize + 1][1]
            units == [n \in 1 .. PacketSize |-> b[(i - 1) * PacketSize + n]]
        IN  IF units = Packet(first) THEN first ELSE None]
  BY DEF Parsed
<1> HIDE DEF b, k
<1>4. \A i \in 1 .. k : b[(i - 1) * PacketSize + 1] \in Unit
  BY <1>1, <1>2, ElementOfSeq
<1>5. \A u \in Unit : u[1] \in Message
  BY DEF Unit
<1>6. Parsed(e) \in [1 .. k -> Message \cup {None}]
  BY <1>3, <1>4, <1>5, Zenon
<1> QED
  BY <1>2, <1>6

\* A reset cuts what is on its way short.
LEMMA ResetTypes ==
    ASSUME TypeOK, NEW e \in End, NEW others \in [End -> Seq(Unit)], Reset(e, others)
    PROVE  wire' \in [End -> Seq(Unit)] /\ cut' \in [End -> BOOLEAN]
<1>1. \A n \in 0 .. Len(wire[e]) : SubSeq(wire[e], 1, n) \in Seq(Unit)
  BY PartOfSeq DEF TypeOK
<1> QED
  BY <1>1 DEF Reset, TypeOK

\* So does close, of both directions.
LEMMA CloseTypes ==
    ASSUME TypeOK, NEW e \in End, Close(e)
    PROVE  /\ wire' \in [End -> Seq(Unit)] /\ cut' \in [End -> BOOLEAN]
           /\ socket_' \in [End -> BOOLEAN]
<1>1. Peer(e) \in End
  BY DEF Peer, End
<1>2. [wire EXCEPT ![e] = <<>>] \in [End -> Seq(Unit)]
  BY EmptySeq DEF TypeOK
<1> QED
  BY <1>1, <1>2, ResetTypes DEF Close, TypeOK

\* Each step of a worker's loop keeps the types.
LEMMA WorkerTypes ==
    ASSUME Types, NEW e \in End, WorkerThread(e)
    PROVE  Types'
<1> USE DEF Types, Place, Uncreated, WriterHasPacket, Goto, AfterRecv, AfterTick, flags, socket_vars,
            receive_vars, protocol_vars, send_vars, server_vars, event_vars
<1>0. Peer(e) \in End /\ PacketSize \in Nat \ {0}
  BY SizeAssumption DEF Peer, End
<1>1. CASE Worker_End(e)
  BY <1>1 DEF Worker_End, TypeOK
<1>2. CASE Receive(e)
  <2>1. PICK n \in {i \in 1 .. RecvMax : i <= Len(wire[e])} :
          /\ receive_buffer' = [receive_buffer EXCEPT ![e] = @ \o SubSeq(wire[e], 1, n)]
          /\ wire' = [wire EXCEPT ![e] = SubSeq(@, n + 1, Len(@))]
    BY <1>2 DEF Receive
  <2>2. n \in Nat /\ n >= 1
    BY SizeAssumption
  <2>3. wire[e] \in Seq(Unit) /\ Len(wire[e]) \in Nat
    BY LenProperties DEF TypeOK
  <2>4. SubSeq(wire[e], 1, n) \in Seq(Unit) /\ SubSeq(wire[e], n + 1, Len(wire[e])) \in Seq(Unit)
    BY <2>2, <2>3, PartOfSeq
  <2>5. receive_buffer[e] \o SubSeq(wire[e], 1, n) \in Seq(Unit)
    BY <2>4, ConcatProperties DEF TypeOK
  <2> QED
    BY <1>2, <2>1, <2>4, <2>5 DEF Receive, TypeOK
<1>3. CASE Receive_Nothing(e)
  BY <1>3 DEF Receive_Nothing, TypeOK
<1>4. CASE WorkTick(e)
  <2>1. Parsed(e) \in Seq(Message \cup {None}) /\ Len(Parsed(e)) * PacketSize \in Nat
    BY ParsedType
  <2>2. recv_queue_[e] \o Parsed(e) \in Seq(Message \cup {None})
    BY <2>1, ConcatProperties DEF TypeOK
  <2>3. SubSeq(receive_buffer[e], Len(Parsed(e)) * PacketSize + 1, Len(receive_buffer[e]))
          \in Seq(Unit)
    BY <2>1, PartOfSeq, LenProperties DEF TypeOK
  <2>4. CASE send_queue[e] = {}
    BY <1>4, <2>2, <2>3, <2>4 DEF WorkTick, TypeOK
  <2>5. ASSUME NEW m \in send_queue[e],
               send_queue' = [send_queue EXCEPT ![e] = @ \ {m}],
               packet' = [packet EXCEPT ![e] = m],
               left' = [left EXCEPT ![e] = PacketSize],
               worker' = [worker EXCEPT ![e] = "write"]
        PROVE  Types'
    <3>1. m \in Message /\ PacketSize \in 1 .. PacketSize
      BY <1>0 DEF TypeOK
    <3>2. WriterHasPacket'
      BY <2>5, <3>1 DEF TypeOK
    <3>3. /\ recv_queue_' \in [End -> Seq(Message \cup {None})]
          /\ receive_buffer' \in [End -> Seq(Unit)]
          /\ UNCHANGED <<flags, socket_vars, given, written, send_vars, server_vars,
                        event_vars>>
      BY <1>4, <2>2, <2>3 DEF WorkTick, TypeOK
    <3>4. /\ send_queue' \in [End -> SUBSET Message]
          /\ packet' \in [End -> Message \cup {None}] /\ left' \in [End -> 0 .. PacketSize]
      <4>1. /\ send_queue[e] \ {m} \in SUBSET Message
            /\ m \in Message \cup {None} /\ PacketSize \in 0 .. PacketSize
        BY <1>0, <3>1 DEF TypeOK
      <4>2. /\ send_queue \in [End -> SUBSET Message]
            /\ packet \in [End -> Message \cup {None}] /\ left \in [End -> 0 .. PacketSize]
        BY DEF TypeOK
      <4> QED
        BY <2>5, <4>1, <4>2, Assigned
    <3>5. TypeOK'
      BY <2>5, <3>3, <3>4 DEF TypeOK
    <3> QED
      BY <3>2, <3>5
  <2> QED
    BY <1>4, <2>4, <2>5 DEF WorkTick
<1>5. CASE SendRaw(e)
  <2>1. PICK n \in 1 .. left[e] :
          /\ LET from == PacketSize - left[e] + 1 IN
             wire' = [wire EXCEPT ![Peer(e)] =
                         @ \o SubSeq(Packet(packet[e]), from, from + n - 1)]
          /\ left' = [left EXCEPT ![e] = @ - n]
          /\ IF n = left[e] THEN Written(e) ELSE UNCHANGED <<written, packet, worker>>
    BY <1>5 DEF SendRaw
  <2>2. packet[e] \in Message /\ left[e] \in 1 .. PacketSize
    BY <1>5 DEF SendRaw
  <2>3. SubSeq(Packet(packet[e]), PacketSize - left[e] + 1, PacketSize - left[e] + 1 + n - 1)
          \in Seq(Unit)
    BY <2>2, PartOfPacket
  <2>4. wire' \in [End -> Seq(Unit)]
    BY <1>0, <2>1, <2>3, ConcatProperties DEF TypeOK
  <2>5. /\ left' \in [End -> 0 .. PacketSize]
        /\ n # left[e] => left[e] - n \in 1 .. PacketSize
    <3>1. left[e] - n \in 0 .. PacketSize /\ (n # left[e] => left[e] - n \in 1 .. PacketSize)
      BY <1>0, <2>2
    <3> QED
      BY <2>1, <3>1 DEF TypeOK
  <2>6. Append(written[e], packet[e]) \in Seq(Message)
    BY <2>2 DEF TypeOK
  <2>7. CASE n = left[e]
    <3>1. worker' = [worker EXCEPT ![e] = AfterTick(e)]
          /\ packet' = [packet EXCEPT ![e] = None]
          /\ written' = [written EXCEPT ![e] = Append(@, packet[e])]
      BY <2>1, <2>7 DEF Written
    <3>2. WriterHasPacket'
      BY <2>1, <3>1 DEF TypeOK
    <3> QED
      BY <1>5, <2>4, <2>5, <2>6, <3>1, <3>2 DEF SendRaw, TypeOK
  <2>8. CASE n # left[e]
    <3>1. UNCHANGED <<written, packet, worker>>
      BY <2>1, <2>8
    <3>2. WriterHasPacket'
      BY <2>1, <2>2, <2>5, <2>8, <3>1 DEF TypeOK
    <3> QED
      BY <1>5, <2>4, <2>5, <3>1, <3>2 DEF SendRaw, TypeOK
  <2> QED
    BY <2>7, <2>8
<1>6. CASE SendRaw_Unread(e)
  <2>1. wire' \in [End -> Seq(Unit)] /\ cut' \in [End -> BOOLEAN]
    BY <1>6, ResetTypes DEF SendRaw_Unread, TypeOK
  <2>2. Append(written[e], packet[e]) \in Seq(Message)
    BY <1>6 DEF SendRaw_Unread, TypeOK
  <2>3. WriterHasPacket'
    BY <1>6 DEF SendRaw_Unread, Written, TypeOK
  <2>4. left' \in [End -> 0 .. PacketSize]
    BY <1>0, <1>6 DEF SendRaw_Unread, TypeOK
  <2> QED
    BY <1>6, <2>1, <2>2, <2>3, <2>4 DEF SendRaw_Unread, Written, TypeOK
<1>7. CASE SendRaw_Fail(e)
  <2>1. packet[e] \in Message
    BY <1>7 DEF SendRaw_Fail
  <2>2. /\ send_queue' \in [End -> SUBSET Message]
        /\ packet' \in [End -> Message \cup {None}] /\ left' \in [End -> 0 .. PacketSize]
    <3>1. /\ send_queue[e] \cup {packet[e]} \in SUBSET Message
          /\ None \in Message \cup {None} /\ 0 \in 0 .. PacketSize
      BY <1>0, <2>1 DEF TypeOK
    <3>2. /\ send_queue \in [End -> SUBSET Message]
          /\ packet \in [End -> Message \cup {None}] /\ left \in [End -> 0 .. PacketSize]
      BY DEF TypeOK
    <3>3. /\ send_queue' = [send_queue EXCEPT ![e] = send_queue[e] \cup {packet[e]}]
          /\ packet' = [packet EXCEPT ![e] = None] /\ left' = [left EXCEPT ![e] = 0]
      BY <1>7 DEF SendRaw_Fail
    <3> QED
      BY <3>1, <3>2, <3>3, Assigned
  <2>3. WriterHasPacket'
    BY <1>7 DEF SendRaw_Fail, TypeOK
  <2>4. worker' \in [End -> Place]
    BY <1>7 DEF SendRaw_Fail, TypeOK
  <2> QED
    BY <1>7, <2>2, <2>3, <2>4 DEF SendRaw_Fail, TypeOK
<1> QED
  BY <1>1, <1>2, <1>3, <1>4, <1>5, <1>6, <1>7 DEF WorkerThread

\* So do the steps of the session's own loop, and of the client's.
LEMMA LoopTypes ==
    ASSUME Types, Session \/ Client
    PROVE  Types'
<1> USE DEF Types, Place, Uncreated, WriterHasPacket, Goto, flags, socket_vars, receive_vars,
            protocol_vars, send_vars, server_vars, event_vars
<1>0. "session" \in End /\ "client" \in End
  BY DEF End
<1>1. CASE WorkerThread("session") \/ WorkerThread("client")
  BY <1>0, <1>1, WorkerTypes
<1>2. CASE Receive_Lost
  BY <1>2 DEF Receive_Lost, TypeOK
<1>3. CASE Report
  BY <1>3 DEF Report, AddDisconnect, TypeOK
<1>4. CASE ProcessReceivedData
  <2>1. recv_queue_["session"] \in Seq(Message \cup {None})
    BY <1>0 DEF TypeOK
  <2>2. recv_queue_["session"] # <<>> =>
          /\ Head(recv_queue_["session"]) \in Message \cup {None}
          /\ Tail(recv_queue_["session"]) \in Seq(Message \cup {None})
    BY <2>1, HeadTailProperties
  <2>3. CASE recv_queue_["session"] = <<>>
    BY <1>0, <1>4, <2>3 DEF ProcessReceivedData, TypeOK
  <2>4. CASE recv_queue_["session"] # <<>>
    <3>1. Append(reported, Head(recv_queue_["session"])) \in Seq(Message \cup {None})
      BY <2>2, <2>4 DEF TypeOK
    <3> QED
      BY <1>0, <1>4, <2>2, <2>4, <3>1 DEF ProcessReceivedData, AddMessage, TypeOK
  <2> QED
    BY <2>3, <2>4
<1>5. CASE ProcessSending_Take
  BY <1>5, EmptySeq DEF ProcessSending_Take, TypeOK
<1>6. CASE ProcessSending_Hand
  <2>1. Head(sending) \in Message /\ Tail(sending) \in Seq(Message)
    BY <1>6, HeadTailProperties DEF ProcessSending_Hand, TypeOK
  <2> QED
    BY <1>0, <1>6, <2>1 DEF ProcessSending_Hand, TypeOK
<1>7. CASE ProcessSending_Done
  BY <1>7, EmptySeq DEF ProcessSending_Done, TypeOK
<1>8. CASE ProcessSendMsg
  <2>1. PICK n \in 0 .. MaxSent : LET sent == given["client"] \cup 1 .. n IN
          /\ given' = [given EXCEPT !["client"] = sent]
          /\ send_queue' = [send_queue EXCEPT !["client"] = @ \cup (sent \ given["client"])]
    BY <1>8 DEF ProcessSendMsg
  <2>2. 1 .. n \subseteq Message
    BY SizeAssumption DEF Message
  <2>3. given["client"] \subseteq Message
    BY <1>0 DEF TypeOK
  <2> QED
    BY <1>8, <2>1, <2>2, <2>3 DEF ProcessSendMsg, TypeOK
<1> QED
  BY <1>1, <1>2, <1>3, <1>4, <1>5, <1>6, <1>7, <1>8 DEF Session, Client

\* So do the application, the accept thread and the thread that stops.
LEMMA OtherTypes ==
    ASSUME Types, Next, ~(Session \/ Client)
    PROVE  Types'
<1> USE DEF Types, Place, Uncreated, WriterHasPacket, Goto, flags, socket_vars, receive_vars,
            protocol_vars, send_vars, server_vars, event_vars
<1>1. ASSUME NEW a \in App, SendToClient(a) \/ SendMessage_Test(a)
      PROVE  Types'
  BY <1>1 DEF SendToClient, SendMessage_Test, TypeOK
<1>2. ASSUME Push
      PROVE  pushed' \in 0 .. MaxPushed /\ send_queue_' \in Seq(Message)
  <2>1. pushed + 1 \in Message /\ pushed' \in 0 .. MaxPushed
    BY <1>2, SizeAssumption DEF Push, Message, TypeOK
  <2> QED
    BY <1>2, <2>1 DEF Push, TypeOK
<1>3. ASSUME NEW a \in App, SendMessage_Push(a)
      PROVE  Types'
  BY <1>2, <1>3 DEF SendMessage_Push, TypeOK
<1>4. CASE Broadcast
  BY <1>2, <1>4 DEF Broadcast, TypeOK
<1>5. CASE Disconnect
  BY <1>5 DEF Disconnect, TypeOK
<1>6. CASE Disconnect_Join
  BY <1>6, CloseTypes DEF Disconnect_Join, TypeOK, End
<1>7. CASE SessionStart
  BY <1>7 DEF SessionStart, SessionStart_Running, SessionStart_Connected,
              SessionStart_Thread, TypeOK
<1>8. CASE Stop_Erase \/ SessionStop \/ SessionStop_Connected \/ SessionStop_Join
  BY <1>8 DEF Stop_Erase, SessionStop, SessionStop_Connected, SessionStop_Join, TypeOK
<1>9. CASE SessionStop_Close
  BY <1>9, CloseTypes DEF SessionStop_Close, TypeOK, End
<1>10. CASE DisconnectClient_Event
  BY <1>10 DEF DisconnectClient_Event, AddDisconnect, TypeOK
<1> QED
  BY <1>1, <1>3, <1>4, <1>5, <1>6, <1>7, <1>8, <1>9, <1>10 DEF Next, Stopper

\* Initially the types are right.
LEMMA InitTypes == Init => Types
<1> HAVE Init
<1>1. \A S : <<>> \in Seq(S)
  BY EmptySeq
<1>2. 0 \in 0 .. PacketSize /\ 0 \in 0 .. MaxPushed
  BY SizeAssumption
<1>3. <<>> \in Seq(Unit) /\ <<>> \in Seq(Message)
      /\ <<>> \in Seq(Message \cup {None})
  BY <1>1
<1>4. TypeOK
  BY <1>2, <1>3 DEF Init, TypeOK, Place, Uncreated
<1>5. WriterHasPacket
  BY DEF Init, WriterHasPacket, End
<1> QED
  BY <1>4, <1>5 DEF Types

\* Every variable of the data path keeps its type.
THEOREM SessionTypes == Spec => []Types
<1>1. Types /\ [Next]_vars => Types'
  <2> SUFFICES ASSUME Types, [Next]_vars PROVE Types'
    OBVIOUS
  <2>1. CASE UNCHANGED vars
    BY <2>1 DEF vars, flags, socket_vars, receive_vars, protocol_vars, send_vars,
                server_vars, event_vars, Types, TypeOK, WriterHasPacket
  <2> QED
    BY <2>1, LoopTypes, OtherTypes
<1> QED
  BY <1>1, InitTypes, PTL DEF Spec

\* The types by themselves.
THEOREM SessionTypeOK == Spec => []TypeOK
  BY SessionTypes, PTL DEF Types

-----------------------------------------------------------------------------
(* Who has ended the session, and whether its thread can still add events. *)

\* running_ is clear before the start and after Stop; Stop goes on to close when
\* the thread has ended or was not created by then, and one that is created later
\* finds running_ clear and ends at once; and a DISCONNECT event comes from the
\* thread as the last thing it does, or after Stop.
StopWaits ==
    /\ worker["session"] = "new" => ~running_["session"]
    /\ ~running_["session"] => worker["session"] = "new" \/ stop \notin {"none", "test"}
    /\ stop \in {"connected", "join"} => ~running_["session"] /\ worker["session"] # "new"
    /\ stop \in {"close", "event", "done"} /\ ~running_["session"] =>
          worker["session"] \in Uncreated \cup {"recv", "finished"}
    /\ disconnected => worker["session"] = "finished" \/ stop = "done"

\* The thread of the session goes on from one place of its loop to another, or
\* out of it when the test of running_ says so.
Moves ==
    /\ worker["session"] \notin Uncreated \cup {"finished"}
    /\ worker'["session"] \notin Uncreated
    /\ worker["session"] = "recv" /\ ~running_["session"] => worker'["session"] = "finished"

\* A step that leaves Stop, running_ of the session and DISCONNECT events alone.
LEMMA QuietWaits ==
    ASSUME StopWaits, Moves \/ worker'["session"] = worker["session"],
           running_'["session"] = running_["session"], UNCHANGED <<stop, disconnected>>
    PROVE  StopWaits'
  BY DEF StopWaits, Moves, Uncreated

\* A step of the session's thread keeps the invariant.
LEMMA SessionWaits ==
    ASSUME TypeOK, StopWaits, Session
    PROVE  StopWaits'
<1> USE DEF Goto, flags, server_vars, event_vars
<1>0. DOMAIN worker = End /\ worker \in [End -> Place] /\ "session" \in End
  BY DEF TypeOK, End
<1>1. CASE WorkerThread("session")
  <2>1. Moves /\ UNCHANGED <<running_, stop, disconnected>>
    BY <1>0, <1>1 DEF WorkerThread, Worker_End, Receive, Receive_Nothing, WorkTick, SendRaw,
                      SendRaw_Unread, SendRaw_Fail, Written, AfterRecv, AfterTick, Moves, Uncreated
  <2> QED
    BY <2>1, QuietWaits
<1>2. CASE \/ Receive_Lost \/ ProcessReceivedData
           \/ ProcessSending_Take \/ ProcessSending_Hand \/ ProcessSending_Done
  <2>1. Moves /\ UNCHANGED <<running_, stop, disconnected>>
    BY <1>0, <1>2 DEF Receive_Lost, ProcessReceivedData, AddMessage, ProcessSending_Take,
                      ProcessSending_Hand, ProcessSending_Done, Moves, Uncreated
  <2> QED
    BY <2>1, QuietWaits
<1>3. CASE Report
  BY <1>0, <1>3 DEF Report, AddDisconnect, StopWaits, Uncreated
<1> QED
  BY <1>1, <1>2, <1>3 DEF Session

\* So does the thread that stops the session, and its start.
LEMMA StopperWaits ==
    ASSUME TypeOK, StopWaits, Stop_Erase \/ Stopper \/ SessionStart
    PROVE  StopWaits'
<1> USE DEF Goto, flags, server_vars, event_vars
<1>0. "session" \in End /\ worker \in [End -> Place] /\ running_ \in [End -> BOOLEAN]
  BY DEF TypeOK, End
<1>1. CASE SessionStart
  <2>1. CASE SessionStart_Running
    BY <1>0, <2>1 DEF SessionStart_Running, StopWaits
  <2>2. CASE SessionStart_Connected
    BY <1>0, <2>2 DEF SessionStart_Connected, StopWaits, Uncreated
  <2>3. CASE SessionStart_Thread
    BY <1>0, <2>3 DEF SessionStart_Thread, StopWaits, Uncreated
  <2> QED
    BY <1>1, <2>1, <2>2, <2>3 DEF SessionStart
<1>2. CASE Stop_Erase
  BY <1>2 DEF Stop_Erase, StopWaits
<1>3. CASE SessionStop
  BY <1>0, <1>3 DEF SessionStop, StopWaits, Uncreated
<1>4. CASE SessionStop_Connected \/ SessionStop_Join \/ SessionStop_Close
  BY <1>4 DEF SessionStop_Connected, SessionStop_Join, SessionStop_Close, StopWaits, Uncreated
<1>5. CASE DisconnectClient_Event
  BY <1>5 DEF DisconnectClient_Event, AddDisconnect, StopWaits
<1> QED
  BY <1>1, <1>2, <1>3, <1>4, <1>5 DEF Stopper

\* The client and the application have no part in it.
LEMMA OtherWaits ==
    ASSUME TypeOK, StopWaits, Next, ~(Session \/ Stop_Erase \/ Stopper \/ SessionStart)
    PROVE  StopWaits'
<1> USE DEF Goto, flags, server_vars, event_vars
<1>0. /\ worker \in [End -> Place] /\ running_ \in [End -> BOOLEAN]
      /\ "session" \in End /\ "client" \in End /\ "session" # "client"
  BY DEF TypeOK, End
<1>1. CASE Client
  <2>1. worker'["session"] = worker["session"] /\ UNCHANGED <<running_, stop, disconnected>>
    BY <1>0, <1>1 DEF Client, WorkerThread, Worker_End, Receive, Receive_Nothing, WorkTick,
                      SendRaw, SendRaw_Unread, SendRaw_Fail, Written, ProcessSendMsg
  <2> QED
    BY <2>1, QuietWaits
<1>2. CASE \/ \E a \in App : SendToClient(a) \/ SendMessage_Test(a) \/ SendMessage_Push(a)
           \/ Broadcast \/ Disconnect_Join
  BY <1>2, QuietWaits DEF SendToClient, SendMessage_Test, SendMessage_Push, Broadcast,
                          Disconnect_Join
<1>3. CASE Disconnect
  BY <1>0, <1>3, QuietWaits DEF Disconnect
<1> QED
  BY <1>1, <1>2, <1>3 DEF Next

\* Stop goes on to close only when the thread of the session has ended, or was
\* not created by then and never gets further than its test of running_, and a
\* DISCONNECT event is the last thing of either.
THEOREM StopperWaitsForThread == Spec => []StopWaits
<1>1. Init => StopWaits
  BY DEF Init, StopWaits, End
<1>2. TypeOK /\ StopWaits /\ [Next]_vars => StopWaits'
  <2> SUFFICES ASSUME TypeOK, StopWaits, [Next]_vars PROVE StopWaits'
    OBVIOUS
  <2>1. CASE UNCHANGED vars
    BY <2>1, QuietWaits DEF vars, flags, server_vars, event_vars
  <2> QED
    BY <2>1, SessionWaits, StopperWaits, OtherWaits
<1> QED
  BY <1>1, <1>2, SessionTypeOK, PTL DEF Spec

\* Only ProcessReceivedData adds a message; it runs before the thread has ended,
\* so that a DISCONNECT event can be there already only when Stop did not wait.
LEMMA MessageNeedsThread ==
    ASSUME TypeOK, StopWaits, Next, disconnected, reported' # reported
    PROVE  StoppedBeforeStart
<1>1. ProcessReceivedData
  BY DEF Next, Session, Client, WorkerThread, Worker_End, Receive, Receive_Nothing,
         WorkTick, SendRaw, SendRaw_Unread, SendRaw_Fail, Receive_Lost, Report,
         AddDisconnect, ProcessSending_Take, ProcessSending_Hand, ProcessSending_Done,
         ProcessSendMsg, SendToClient, SendMessage_Test, SendMessage_Push, Broadcast,
         Disconnect, Disconnect_Join, SessionStart, SessionStart_Running,
         SessionStart_Connected, SessionStart_Thread, Stop_Erase, Stopper, SessionStop,
         SessionStop_Connected, SessionStop_Join, SessionStop_Close, DisconnectClient_Event, event_vars
<1> QED
  BY <1>1 DEF ProcessReceivedData, StopWaits, StoppedBeforeStart, TypeOK, End, Uncreated

\* No message of a session follows a DISCONNECT event of it, unless it was
\* stopped before it was started.
THEOREM NoMessageAfterDisconnect == Spec => SilentAfterDisconnect
<1>1. TypeOK /\ StopWaits /\ [Next]_vars =>
        [disconnected /\ reported' # reported => StoppedBeforeStart]_vars
  BY MessageNeedsThread
<1> QED
  BY <1>1, SessionTypeOK, StopperWaitsForThread, PTL DEF Spec, SilentAfterDisconnect
===============================================================================
