------------------------ MODULE JostickTcpClientProofs ------------------------
(***************************************************************************)
(* What holds of the client for any number of messages, files and          *)
(* connections.  The invariants follow each other: types, the worker and   *)
(* its connection, the reports of a loss, the buffer that is drained, and  *)
(* the order of messages.                                                  *)
(***************************************************************************)
EXTENDS JostickTcpClient, SequenceTheorems, FiniteSetTheorems, FunctionTheorems,
        TLAPS

-----------------------------------------------------------------------------
(* Types, in three parts that the provers can take one at a time.          *)

FlagTypes ==
    /\ running_ \in BOOLEAN
    /\ disconnected_flag_ \in BOOLEAN
    /\ was_connected \in BOOLEAN
    /\ closing \in BOOLEAN
    /\ damaged \in BOOLEAN
    /\ overrun \in BOOLEAN

QueueTypes ==
    /\ send_buffers \in [Buffer -> Seq(Message)]
    /\ file_send_queue_ \in Seq(File)
    /\ recv_buffers \in [Buffer -> Seq(Received)]
    /\ handed \in Seq(Message)
    /\ handed_files \in Seq(File)

\* With the reason why what is parsed has a number: the bound on received.
ScalarTypes ==
    /\ socket_ \in {"none", "open"}
    /\ link \in {"up", "stalled", "closed", "reset", "gone"}
    /\ worker \in {"none", "check", "parse", "send_raw", "take", "drain", "files",
                   "finished"}
    /\ current_send_buffer \in Buffer
    /\ send_queue \in Buffer
    /\ current_recv_buffer \in Buffer
    /\ tick \in {"idle", "on_disconnect", "swap", "handle", "on_message"}
    /\ messages \in 0 .. MaxMessages
    /\ files \in 0 .. MaxFiles
    /\ received \in 0 .. MaxReceived
    /\ handled \in 0 .. MaxReceived
    /\ connections \in 0 .. MaxConnections
    /\ reports \in Nat
    /\ worker = "parse" => received < MaxReceived

Types == FlagTypes /\ QueueTypes /\ ScalarTypes

\* While on_message_ runs, what it was called with is in front.
FrontIsHandled == tick = "on_message" => recv_buffers[free_recv_buffer] # <<>>

\* The parts together are the type invariant of the module.
LEMMA TypesAreTypeOK == Types => TypeOK
  BY DEF Types, FlagTypes, QueueTypes, ScalarTypes, TypeOK

\* Flags stay flags.
LEMMA StepFlags ==
    ASSUME FlagTypes, Step
    PROVE  FlagTypes'
<1>1. CASE Connect
  BY <1>1 DEF Connect, FlagTypes, Application, send_vars, recv_vars, main_vars
<1>2. CASE Disconnect
  BY <1>2 DEF Disconnect, FlagTypes, Application, send_vars, recv_vars
<1>3. CASE Disconnect_Join
  BY <1>3 DEF Disconnect_Join, FlagTypes, send_vars, recv_vars
<1>4. CASE SendMsg
  BY <1>4 DEF SendMsg, FlagTypes, free_send_buffer, Racing, connection_vars,
     recv_vars, main_vars
<1>5. CASE SendFile
  BY <1>5 DEF SendFile, FlagTypes, connection_vars, recv_vars, main_vars
<1>6. CASE Tick_Disconnected
  BY <1>6 DEF Tick_Disconnected, FlagTypes, send_vars, recv_vars
<1>7. CASE Tick_SwapRecv
  BY <1>7 DEF Tick_SwapRecv, FlagTypes, free_recv_buffer, connection_vars, send_vars
<1>8. CASE Tick_Handle
  BY <1>8 DEF Tick_Handle, FlagTypes, free_recv_buffer, connection_vars, send_vars
<1>9. CASE Tick_Pop
  BY <1>9 DEF Tick_Pop, FlagTypes, free_recv_buffer, connection_vars, send_vars
<1>10. CASE Tick_SwapSend
  BY <1>10 DEF Tick_SwapSend, FlagTypes, free_send_buffer, connection_vars,
     recv_vars
<1>11. CASE Worker_End
  BY <1>11 DEF Worker_End, FlagTypes, connection_vars, send_vars, recv_vars,
     main_vars
<1>12. CASE Worker_Receive
  BY <1>12 DEF Worker_Receive, FlagTypes, ReportError, send_vars, recv_vars,
     main_vars
<1>13. CASE Worker_Parse
  BY <1>13 DEF Worker_Parse, FlagTypes, connection_vars, send_vars, main_vars
<1>14. CASE Worker_SendRaw
  BY <1>14 DEF Worker_SendRaw, FlagTypes, ReportError, send_vars, recv_vars,
     main_vars
<1>15. CASE ProcessSendMsg_Take
  BY <1>15 DEF ProcessSendMsg_Take, FlagTypes, connection_vars, recv_vars, main_vars
<1>16. CASE ProcessSendMsg_Next
  BY <1>16 DEF ProcessSendMsg_Next, FlagTypes, connection_vars, recv_vars, main_vars
<1>17. CASE ProcessSendMsg_Done
  BY <1>17 DEF ProcessSendMsg_Done, FlagTypes, connection_vars, send_vars,
     recv_vars, main_vars
<1>18. CASE ProcessSendFile_Next
  BY <1>18 DEF ProcessSendFile_Next, FlagTypes, connection_vars, recv_vars,
     main_vars
<1>19. CASE Worker_Status
  BY <1>19 DEF Worker_Status, FlagTypes, send_vars, recv_vars, main_vars
<1>20. CASE PeerStep
  BY <1>20 DEF PeerStep, FlagTypes, send_vars, recv_vars, main_vars
<1>21. QED
  BY <1>1, <1>2, <1>3, <1>4, <1>5, <1>6, <1>7, <1>8, <1>9, <1>10, <1>11, <1>12,
     <1>13, <1>14, <1>15, <1>16, <1>17, <1>18, <1>19, <1>20 DEF Step, Tick,
     WorkerThread

\* Counters stay in their bounds, and every thread is at a step of its code.
LEMMA StepScalars ==
    ASSUME QueueTypes, ScalarTypes, FrontIsHandled, Step
    PROVE  ScalarTypes'
<1>1. CASE Connect
  BY <1>1, BoundAssumption DEF Connect, ScalarTypes, Buffer, Application, send_vars,
     recv_vars, main_vars
<1>2. CASE Disconnect
  BY <1>2, BoundAssumption DEF Disconnect, ScalarTypes, Buffer, Application,
     send_vars, recv_vars
<1>3. CASE Disconnect_Join
  BY <1>3, BoundAssumption DEF Disconnect_Join, ScalarTypes, Buffer, send_vars,
     recv_vars
<1>4. CASE SendMsg
  BY <1>4, BoundAssumption DEF SendMsg, ScalarTypes, Buffer, free_send_buffer,
     Racing, connection_vars, recv_vars, main_vars
<1>5. CASE SendFile
  BY <1>5, BoundAssumption DEF SendFile, ScalarTypes, Buffer, connection_vars,
     recv_vars, main_vars
<1>6. CASE Tick_Disconnected
  BY <1>6, BoundAssumption DEF Tick_Disconnected, ScalarTypes, Buffer, send_vars,
     recv_vars
<1>7. CASE Tick_SwapRecv
  BY <1>7, BoundAssumption DEF Tick_SwapRecv, ScalarTypes, Buffer, free_recv_buffer,
     connection_vars, send_vars
<1>8. CASE Tick_Handle
  <2>1. recv_buffers[free_recv_buffer] \in Seq(Received)
    BY DEF QueueTypes, ScalarTypes, Buffer, free_recv_buffer
  <2>2. Head(recv_buffers[free_recv_buffer]) \in Received
    BY <1>8, <2>1, HeadTailProperties DEF Tick_Handle
  <2>3. handled' \in 0 .. MaxReceived
    BY <1>8, <2>2, BoundAssumption DEF Tick_Handle, Received
  <2>4. QED
    BY <1>8, <2>3 DEF Tick_Handle, ScalarTypes, connection_vars, send_vars
<1>9. CASE Tick_Pop
  BY <1>9, BoundAssumption DEF Tick_Pop, ScalarTypes, Buffer, free_recv_buffer,
     connection_vars, send_vars
<1>10. CASE Tick_SwapSend
  BY <1>10, BoundAssumption DEF Tick_SwapSend, ScalarTypes, Buffer,
     free_send_buffer, connection_vars, recv_vars
<1>11. CASE Worker_End
  BY <1>11, BoundAssumption DEF Worker_End, ScalarTypes, Buffer, connection_vars,
     send_vars, recv_vars, main_vars
<1>12. CASE Worker_Receive
  BY <1>12, BoundAssumption DEF Worker_Receive, ScalarTypes, Buffer, ReportError,
     send_vars, recv_vars, main_vars
<1>13. CASE Worker_Parse
  BY <1>13, BoundAssumption DEF Worker_Parse, ScalarTypes, Buffer, connection_vars,
     send_vars, main_vars
<1>14. CASE Worker_SendRaw
  BY <1>14, BoundAssumption DEF Worker_SendRaw, ScalarTypes, Buffer, ReportError,
     send_vars, recv_vars, main_vars
<1>15. CASE ProcessSendMsg_Take
  BY <1>15, BoundAssumption DEF ProcessSendMsg_Take, ScalarTypes, Buffer,
     connection_vars, recv_vars, main_vars
<1>16. CASE ProcessSendMsg_Next
  BY <1>16, BoundAssumption DEF ProcessSendMsg_Next, ScalarTypes, Buffer,
     connection_vars, recv_vars, main_vars
<1>17. CASE ProcessSendMsg_Done
  BY <1>17, BoundAssumption DEF ProcessSendMsg_Done, ScalarTypes, Buffer,
     connection_vars, send_vars, recv_vars, main_vars
<1>18. CASE ProcessSendFile_Next
  BY <1>18, BoundAssumption DEF ProcessSendFile_Next, ScalarTypes, Buffer,
     connection_vars, recv_vars, main_vars
<1>19. CASE Worker_Status
  BY <1>19, BoundAssumption DEF Worker_Status, ScalarTypes, Buffer, send_vars,
     recv_vars, main_vars
<1>20. CASE PeerStep
  BY <1>20, BoundAssumption DEF PeerStep, ScalarTypes, Buffer, send_vars, recv_vars,
     main_vars
<1>21. QED
  BY <1>1, <1>2, <1>3, <1>4, <1>5, <1>6, <1>7, <1>8, <1>9, <1>10, <1>11, <1>12,
     <1>13, <1>14, <1>15, <1>16, <1>17, <1>18, <1>19, <1>20 DEF Step, Tick,
     WorkerThread

\* The queues hold what was given or received.
LEMMA StepQueues ==
    ASSUME QueueTypes, ScalarTypes, FrontIsHandled, Step
    PROVE  QueueTypes'
<1>1. CASE Connect
  BY <1>1 DEF Connect, QueueTypes, Application, send_vars, recv_vars, main_vars
<1>2. CASE Disconnect
  BY <1>2 DEF Disconnect, QueueTypes, Application, send_vars, recv_vars
<1>3. CASE Disconnect_Join
  BY <1>3 DEF Disconnect_Join, QueueTypes, send_vars, recv_vars
<1>4. CASE SendMsg
  <2>1. CASE send_buffers' = send_buffers
    BY <1>4, <2>1 DEF SendMsg, QueueTypes, recv_vars
  <2>2. CASE send_buffers' # send_buffers
    <3>1. messages + 1 \in Message
      BY <1>4, BoundAssumption DEF SendMsg, ScalarTypes, Message
    <3>2. send_buffers[free_send_buffer] \in Seq(Message)
      BY DEF QueueTypes, ScalarTypes, Buffer, free_send_buffer
    <3>3. Append(send_buffers[free_send_buffer], messages + 1) \in Seq(Message)
      BY <3>1, <3>2, AppendProperties
    <3>4. QED BY <1>4, <2>2, <3>3 DEF SendMsg, QueueTypes, recv_vars
  <2>3. QED BY <2>1, <2>2
<1>5. CASE SendFile
  <2>1. files + 1 \in File
    BY <1>5, BoundAssumption DEF SendFile, ScalarTypes, File
  <2>2. Append(file_send_queue_, files + 1) \in Seq(File)
    BY <2>1, AppendProperties DEF QueueTypes
  <2>3. QED BY <1>5, <2>2 DEF SendFile, QueueTypes, recv_vars
<1>6. CASE Tick_Disconnected
  BY <1>6 DEF Tick_Disconnected, QueueTypes, send_vars, recv_vars
<1>7. CASE Tick_SwapRecv
  BY <1>7 DEF Tick_SwapRecv, QueueTypes, free_recv_buffer, connection_vars,
     send_vars
<1>8. CASE Tick_Handle
  BY <1>8 DEF Tick_Handle, QueueTypes, free_recv_buffer, connection_vars, send_vars
<1>9. CASE Tick_Pop
  <2>1. recv_buffers[free_recv_buffer] \in Seq(Received)
    BY DEF QueueTypes, ScalarTypes, Buffer, free_recv_buffer
  <2>2. recv_buffers[free_recv_buffer] # <<>>
    BY <1>9 DEF Tick_Pop, FrontIsHandled
  <2>3. Tail(recv_buffers[free_recv_buffer]) \in Seq(Received)
    BY <2>1, <2>2, HeadTailProperties
  <2>4. QED BY <1>9, <2>3 DEF Tick_Pop, QueueTypes, send_vars
<1>10. CASE Tick_SwapSend
  BY <1>10 DEF Tick_SwapSend, QueueTypes, free_send_buffer, connection_vars,
     recv_vars
<1>11. CASE Worker_End
  BY <1>11 DEF Worker_End, QueueTypes, connection_vars, send_vars, recv_vars,
     main_vars
<1>12. CASE Worker_Receive
  BY <1>12 DEF Worker_Receive, QueueTypes, ReportError, send_vars, recv_vars,
     main_vars
<1>13. CASE Worker_Parse
  <2>1. received + 1 \in Received
    BY <1>13, BoundAssumption DEF Worker_Parse, ScalarTypes, Received
  <2>2. recv_buffers[current_recv_buffer] \in Seq(Received)
    BY DEF QueueTypes, ScalarTypes
  <2>3. Append(recv_buffers[current_recv_buffer], received + 1) \in Seq(Received)
    BY <2>1, <2>2, AppendProperties
  <2>4. QED BY <1>13, <2>3 DEF Worker_Parse, QueueTypes, send_vars
<1>14. CASE Worker_SendRaw
  BY <1>14 DEF Worker_SendRaw, QueueTypes, ReportError, send_vars, recv_vars,
     main_vars
<1>15. CASE ProcessSendMsg_Take
  BY <1>15 DEF ProcessSendMsg_Take, QueueTypes, connection_vars, recv_vars,
     main_vars
<1>16. CASE ProcessSendMsg_Next
  <2>1. send_buffers[send_queue] \in Seq(Message)
    BY DEF QueueTypes, ScalarTypes
  <2>2. /\ Head(send_buffers[send_queue]) \in Message
        /\ Tail(send_buffers[send_queue]) \in Seq(Message)
    BY <1>16, <2>1, HeadTailProperties DEF ProcessSendMsg_Next
  <2>3. Append(handed, Head(send_buffers[send_queue])) \in Seq(Message)
    BY <2>2, AppendProperties DEF QueueTypes
  <2>4. QED BY <1>16, <2>2, <2>3 DEF ProcessSendMsg_Next, QueueTypes, recv_vars
<1>17. CASE ProcessSendMsg_Done
  BY <1>17 DEF ProcessSendMsg_Done, QueueTypes, connection_vars, send_vars,
     recv_vars, main_vars
<1>18. CASE ProcessSendFile_Next
  <2>1. /\ Head(file_send_queue_) \in File
        /\ Tail(file_send_queue_) \in Seq(File)
    BY <1>18, HeadTailProperties DEF ProcessSendFile_Next, QueueTypes
  <2>2. Append(handed_files, Head(file_send_queue_)) \in Seq(File)
    BY <2>1, AppendProperties DEF QueueTypes
  <2>3. QED BY <1>18, <2>1, <2>2 DEF ProcessSendFile_Next, QueueTypes, recv_vars
<1>19. CASE Worker_Status
  BY <1>19 DEF Worker_Status, QueueTypes, send_vars, recv_vars, main_vars
<1>20. CASE PeerStep
  BY <1>20 DEF PeerStep, QueueTypes, send_vars, recv_vars, main_vars
<1>21. QED
  BY <1>1, <1>2, <1>3, <1>4, <1>5, <1>6, <1>7, <1>8, <1>9, <1>10, <1>11, <1>12,
     <1>13, <1>14, <1>15, <1>16, <1>17, <1>18, <1>19, <1>20 DEF Step, Tick,
     WorkerThread

\* Only Tick takes from the buffer it has exchanged, and the worker fills the
\* other one.
LEMMA StepFront ==
    ASSUME QueueTypes, ScalarTypes, FrontIsHandled, Step
    PROVE  FrontIsHandled'
<1>1. CASE Connect
  BY <1>1 DEF Connect, FrontIsHandled, free_recv_buffer, Application, send_vars,
     recv_vars, main_vars
<1>2. CASE Disconnect
  BY <1>2 DEF Disconnect, FrontIsHandled, free_recv_buffer, Application, send_vars,
     recv_vars
<1>3. CASE Disconnect_Join
  BY <1>3 DEF Disconnect_Join, FrontIsHandled, free_recv_buffer, send_vars,
     recv_vars
<1>4. CASE SendMsg
  BY <1>4 DEF SendMsg, FrontIsHandled, free_recv_buffer, free_send_buffer, Racing,
     connection_vars, recv_vars, main_vars
<1>5. CASE SendFile
  BY <1>5 DEF SendFile, FrontIsHandled, free_recv_buffer, connection_vars,
     recv_vars, main_vars
<1>6. CASE Tick_Disconnected
  BY <1>6 DEF Tick_Disconnected, FrontIsHandled, free_recv_buffer, send_vars,
     recv_vars
<1>7. CASE Tick_SwapRecv
  BY <1>7 DEF Tick_SwapRecv, FrontIsHandled, free_recv_buffer, connection_vars,
     send_vars
<1>8. CASE Tick_Handle
  BY <1>8 DEF Tick_Handle, FrontIsHandled, free_recv_buffer, connection_vars,
     send_vars
<1>9. CASE Tick_Pop
  BY <1>9 DEF Tick_Pop, FrontIsHandled, free_recv_buffer, connection_vars, send_vars
<1>10. CASE Tick_SwapSend
  BY <1>10 DEF Tick_SwapSend, FrontIsHandled, free_recv_buffer, free_send_buffer,
     connection_vars, recv_vars
<1>11. CASE Worker_End
  BY <1>11 DEF Worker_End, FrontIsHandled, free_recv_buffer, connection_vars,
     send_vars, recv_vars, main_vars
<1>12. CASE Worker_Receive
  BY <1>12 DEF Worker_Receive, FrontIsHandled, free_recv_buffer, ReportError,
     send_vars, recv_vars, main_vars
<1>13. CASE Worker_Parse
  <2>1. free_recv_buffer # current_recv_buffer
    BY DEF free_recv_buffer, ScalarTypes, Buffer
  <2>2. recv_buffers'[free_recv_buffer] = recv_buffers[free_recv_buffer]
    BY <1>13, <2>1 DEF Worker_Parse, QueueTypes, ScalarTypes, Buffer, free_recv_buffer
  <2>3. QED
    BY <1>13, <2>2 DEF Worker_Parse, FrontIsHandled, free_recv_buffer, main_vars
<1>14. CASE Worker_SendRaw
  BY <1>14 DEF Worker_SendRaw, FrontIsHandled, free_recv_buffer, ReportError,
     send_vars, recv_vars, main_vars
<1>15. CASE ProcessSendMsg_Take
  BY <1>15 DEF ProcessSendMsg_Take, FrontIsHandled, free_recv_buffer,
     connection_vars, recv_vars, main_vars
<1>16. CASE ProcessSendMsg_Next
  BY <1>16 DEF ProcessSendMsg_Next, FrontIsHandled, free_recv_buffer,
     connection_vars, recv_vars, main_vars
<1>17. CASE ProcessSendMsg_Done
  BY <1>17 DEF ProcessSendMsg_Done, FrontIsHandled, free_recv_buffer,
     connection_vars, send_vars, recv_vars, main_vars
<1>18. CASE ProcessSendFile_Next
  BY <1>18 DEF ProcessSendFile_Next, FrontIsHandled, free_recv_buffer,
     connection_vars, recv_vars, main_vars
<1>19. CASE Worker_Status
  BY <1>19 DEF Worker_Status, FrontIsHandled, free_recv_buffer, send_vars,
     recv_vars, main_vars
<1>20. CASE PeerStep
  BY <1>20 DEF PeerStep, FrontIsHandled, free_recv_buffer, send_vars, recv_vars,
     main_vars
<1>21. QED
  BY <1>1, <1>2, <1>3, <1>4, <1>5, <1>6, <1>7, <1>8, <1>9, <1>10, <1>11, <1>12,
     <1>13, <1>14, <1>15, <1>16, <1>17, <1>18, <1>19, <1>20 DEF Step, Tick,
     WorkerThread

-----------------------------------------------------------------------------
(* The worker and its connection.                                         *)

\* Connect starts a worker when there is none; only Disconnect, having joined
\* it, closes the socket.
LEMMA StepConnection ==
    ASSUME ScalarTypes, WorkerHasConnection, Step
    PROVE  WorkerHasConnection'
<1>1. CASE Connect
  BY <1>1 DEF Connect, WorkerHasConnection, Application, send_vars, recv_vars,
     main_vars
<1>2. CASE Disconnect
  BY <1>2 DEF Disconnect, WorkerHasConnection, Application, send_vars, recv_vars
<1>3. CASE Disconnect_Join
  BY <1>3 DEF Disconnect_Join, WorkerHasConnection, send_vars, recv_vars
<1>4. CASE SendMsg
  BY <1>4 DEF SendMsg, WorkerHasConnection, free_send_buffer, Racing,
     connection_vars, recv_vars, main_vars
<1>5. CASE SendFile
  BY <1>5 DEF SendFile, WorkerHasConnection, connection_vars, recv_vars, main_vars
<1>6. CASE Tick_Disconnected
  BY <1>6 DEF Tick_Disconnected, WorkerHasConnection, send_vars, recv_vars
<1>7. CASE Tick_SwapRecv
  BY <1>7 DEF Tick_SwapRecv, WorkerHasConnection, free_recv_buffer, connection_vars,
     send_vars
<1>8. CASE Tick_Handle
  BY <1>8 DEF Tick_Handle, WorkerHasConnection, free_recv_buffer, connection_vars,
     send_vars
<1>9. CASE Tick_Pop
  BY <1>9 DEF Tick_Pop, WorkerHasConnection, free_recv_buffer, connection_vars,
     send_vars
<1>10. CASE Tick_SwapSend
  BY <1>10 DEF Tick_SwapSend, WorkerHasConnection, free_send_buffer,
     connection_vars, recv_vars
<1>11. CASE Worker_End
  BY <1>11 DEF Worker_End, WorkerHasConnection, connection_vars, send_vars,
     recv_vars, main_vars
<1>12. CASE Worker_Receive
  BY <1>12 DEF Worker_Receive, WorkerHasConnection, ReportError, send_vars,
     recv_vars, main_vars
<1>13. CASE Worker_Parse
  BY <1>13 DEF Worker_Parse, WorkerHasConnection, connection_vars, main_vars
<1>14. CASE Worker_SendRaw
  BY <1>14 DEF Worker_SendRaw, WorkerHasConnection, ReportError, send_vars,
     recv_vars, main_vars
<1>15. CASE ProcessSendMsg_Take
  BY <1>15 DEF ProcessSendMsg_Take, WorkerHasConnection, connection_vars, recv_vars,
     main_vars
<1>16. CASE ProcessSendMsg_Next
  BY <1>16 DEF ProcessSendMsg_Next, WorkerHasConnection, connection_vars, recv_vars,
     main_vars
<1>17. CASE ProcessSendMsg_Done
  BY <1>17 DEF ProcessSendMsg_Done, WorkerHasConnection, connection_vars, send_vars,
     recv_vars, main_vars
<1>18. CASE ProcessSendFile_Next
  BY <1>18 DEF ProcessSendFile_Next, WorkerHasConnection, connection_vars,
     recv_vars, main_vars
<1>19. CASE Worker_Status
  BY <1>19 DEF Worker_Status, WorkerHasConnection, send_vars, recv_vars, main_vars
<1>20. CASE PeerStep
  BY <1>20 DEF PeerStep, WorkerHasConnection, send_vars, recv_vars, main_vars
<1>21. QED
  BY <1>1, <1>2, <1>3, <1>4, <1>5, <1>6, <1>7, <1>8, <1>9, <1>10, <1>11, <1>12,
     <1>13, <1>14, <1>15, <1>16, <1>17, <1>18, <1>19, <1>20 DEF Step, Tick,
     WorkerThread

\* B counts a condition.
B(b) == IF b THEN 1 ELSE 0

\* Every connection accounts for one report: made, due (the flag is set) or
\* still to come (the worker believes to be connected).
LossesCounted ==
    reports + B(disconnected_flag_) + B(was_connected /\ worker # "none") <= connections

\* Worker_Status passes the report on to the flag, Tick_Disconnected to the
\* application.
LEMMA StepLosses ==
    ASSUME FlagTypes, ScalarTypes, WorkerHasConnection, LossesCounted, Step
    PROVE  LossesCounted'
<1>1. CASE Connect
  BY <1>1 DEF Connect, FlagTypes, ScalarTypes, WorkerHasConnection, LossesCounted,
     B, Application, send_vars, recv_vars, main_vars
<1>2. CASE Disconnect
  BY <1>2 DEF Disconnect, FlagTypes, ScalarTypes, WorkerHasConnection,
     LossesCounted, B, Application, send_vars, recv_vars
<1>3. CASE Disconnect_Join
  BY <1>3 DEF Disconnect_Join, FlagTypes, ScalarTypes, WorkerHasConnection,
     LossesCounted, B, send_vars, recv_vars
<1>4. CASE SendMsg
  BY <1>4 DEF SendMsg, FlagTypes, ScalarTypes, WorkerHasConnection, LossesCounted,
     B, free_send_buffer, Racing, connection_vars, recv_vars, main_vars
<1>5. CASE SendFile
  BY <1>5 DEF SendFile, FlagTypes, ScalarTypes, WorkerHasConnection, LossesCounted,
     B, connection_vars, recv_vars, main_vars
<1>6. CASE Tick_Disconnected
  BY <1>6 DEF Tick_Disconnected, FlagTypes, ScalarTypes, WorkerHasConnection,
     LossesCounted, B, send_vars, recv_vars
<1>7. CASE Tick_SwapRecv
  BY <1>7 DEF Tick_SwapRecv, FlagTypes, ScalarTypes, WorkerHasConnection,
     LossesCounted, B, free_recv_buffer, connection_vars, send_vars
<1>8. CASE Tick_Handle
  BY <1>8 DEF Tick_Handle, FlagTypes, ScalarTypes, WorkerHasConnection,
     LossesCounted, B, free_recv_buffer, connection_vars, send_vars
<1>9. CASE Tick_Pop
  BY <1>9 DEF Tick_Pop, FlagTypes, ScalarTypes, WorkerHasConnection, LossesCounted,
     B, free_recv_buffer, connection_vars, send_vars
<1>10. CASE Tick_SwapSend
  BY <1>10 DEF Tick_SwapSend, FlagTypes, ScalarTypes, WorkerHasConnection,
     LossesCounted, B, free_send_buffer, connection_vars, recv_vars
<1>11. CASE Worker_End
  BY <1>11 DEF Worker_End, FlagTypes, ScalarTypes, WorkerHasConnection,
     LossesCounted, B, connection_vars, send_vars, recv_vars, main_vars
<1>12. CASE Worker_Receive
  BY <1>12 DEF Worker_Receive, FlagTypes, ScalarTypes, WorkerHasConnection,
     LossesCounted, B, ReportError, send_vars, recv_vars, main_vars
<1>13. CASE Worker_Parse
  BY <1>13 DEF Worker_Parse, FlagTypes, ScalarTypes, WorkerHasConnection,
     LossesCounted, B, connection_vars, send_vars, main_vars
<1>14. CASE Worker_SendRaw
  BY <1>14 DEF Worker_SendRaw, FlagTypes, ScalarTypes, WorkerHasConnection,
     LossesCounted, B, ReportError, send_vars, recv_vars, main_vars
<1>15. CASE ProcessSendMsg_Take
  BY <1>15 DEF ProcessSendMsg_Take, FlagTypes, ScalarTypes, WorkerHasConnection,
     LossesCounted, B, connection_vars, recv_vars, main_vars
<1>16. CASE ProcessSendMsg_Next
  BY <1>16 DEF ProcessSendMsg_Next, FlagTypes, ScalarTypes, WorkerHasConnection,
     LossesCounted, B, connection_vars, recv_vars, main_vars
<1>17. CASE ProcessSendMsg_Done
  BY <1>17 DEF ProcessSendMsg_Done, FlagTypes, ScalarTypes, WorkerHasConnection,
     LossesCounted, B, connection_vars, send_vars, recv_vars, main_vars
<1>18. CASE ProcessSendFile_Next
  BY <1>18 DEF ProcessSendFile_Next, FlagTypes, ScalarTypes, WorkerHasConnection,
     LossesCounted, B, connection_vars, recv_vars, main_vars
<1>19. CASE Worker_Status
  BY <1>19 DEF Worker_Status, FlagTypes, ScalarTypes, WorkerHasConnection,
     LossesCounted, B, send_vars, recv_vars, main_vars
<1>20. CASE PeerStep
  BY <1>20 DEF PeerStep, FlagTypes, ScalarTypes, WorkerHasConnection, LossesCounted,
     B, send_vars, recv_vars, main_vars
<1>21. QED
  BY <1>1, <1>2, <1>3, <1>4, <1>5, <1>6, <1>7, <1>8, <1>9, <1>10, <1>11, <1>12,
     <1>13, <1>14, <1>15, <1>16, <1>17, <1>18, <1>19, <1>20 DEF Step, Tick,
     WorkerThread

\* A Tick that exchanges the buffers under the worker sets overrun; SendMsg
\* damages the queue only when racing.
LEMMA StepPrivate ==
    ASSUME FlagTypes, ScalarTypes, PrivateUnlessOverrun, Step
    PROVE  PrivateUnlessOverrun'
<1>1. CASE Connect
  BY <1>1 DEF Connect, ScalarTypes, FlagTypes, Buffer, PrivateUnlessOverrun, Racing,
     free_send_buffer, Application, send_vars, recv_vars, main_vars
<1>2. CASE Disconnect
  BY <1>2 DEF Disconnect, ScalarTypes, FlagTypes, Buffer, PrivateUnlessOverrun,
     Racing, free_send_buffer, Application, send_vars, recv_vars
<1>3. CASE Disconnect_Join
  BY <1>3 DEF Disconnect_Join, ScalarTypes, FlagTypes, Buffer, PrivateUnlessOverrun,
     Racing, free_send_buffer, send_vars, recv_vars
<1>4. CASE SendMsg
  BY <1>4 DEF SendMsg, ScalarTypes, FlagTypes, Buffer, PrivateUnlessOverrun, Racing,
     free_send_buffer, free_send_buffer, Racing, connection_vars, recv_vars,
     main_vars
<1>5. CASE SendFile
  BY <1>5 DEF SendFile, ScalarTypes, FlagTypes, Buffer, PrivateUnlessOverrun,
     Racing, free_send_buffer, connection_vars, recv_vars, main_vars
<1>6. CASE Tick_Disconnected
  BY <1>6 DEF Tick_Disconnected, ScalarTypes, FlagTypes, Buffer,
     PrivateUnlessOverrun, Racing, free_send_buffer, send_vars, recv_vars
<1>7. CASE Tick_SwapRecv
  BY <1>7 DEF Tick_SwapRecv, ScalarTypes, FlagTypes, Buffer, PrivateUnlessOverrun,
     Racing, free_send_buffer, free_recv_buffer, connection_vars, send_vars
<1>8. CASE Tick_Handle
  BY <1>8 DEF Tick_Handle, ScalarTypes, FlagTypes, Buffer, PrivateUnlessOverrun,
     Racing, free_send_buffer, free_recv_buffer, connection_vars, send_vars
<1>9. CASE Tick_Pop
  BY <1>9 DEF Tick_Pop, ScalarTypes, FlagTypes, Buffer, PrivateUnlessOverrun,
     Racing, free_send_buffer, free_recv_buffer, connection_vars, send_vars
<1>10. CASE Tick_SwapSend
  BY <1>10 DEF Tick_SwapSend, ScalarTypes, FlagTypes, Buffer, PrivateUnlessOverrun,
     Racing, free_send_buffer, free_send_buffer, connection_vars, recv_vars
<1>11. CASE Worker_End
  BY <1>11 DEF Worker_End, ScalarTypes, FlagTypes, Buffer, PrivateUnlessOverrun,
     Racing, free_send_buffer, connection_vars, send_vars, recv_vars, main_vars
<1>12. CASE Worker_Receive
  BY <1>12 DEF Worker_Receive, ScalarTypes, FlagTypes, Buffer, PrivateUnlessOverrun,
     Racing, free_send_buffer, ReportError, send_vars, recv_vars, main_vars
<1>13. CASE Worker_Parse
  BY <1>13 DEF Worker_Parse, ScalarTypes, FlagTypes, Buffer, PrivateUnlessOverrun,
     Racing, free_send_buffer, connection_vars, send_vars, main_vars
<1>14. CASE Worker_SendRaw
  BY <1>14 DEF Worker_SendRaw, ScalarTypes, FlagTypes, Buffer, PrivateUnlessOverrun,
     Racing, free_send_buffer, ReportError, send_vars, recv_vars, main_vars
<1>15. CASE ProcessSendMsg_Take
  BY <1>15 DEF ProcessSendMsg_Take, ScalarTypes, FlagTypes, Buffer,
     PrivateUnlessOverrun, Racing, free_send_buffer, connection_vars, recv_vars,
     main_vars
<1>16. CASE ProcessSendMsg_Next
  BY <1>16 DEF ProcessSendMsg_Next, ScalarTypes, FlagTypes, Buffer,
     PrivateUnlessOverrun, Racing, free_send_buffer, connection_vars, recv_vars,
     main_vars
<1>17. CASE ProcessSendMsg_Done
  BY <1>17 DEF ProcessSendMsg_Done, ScalarTypes, FlagTypes, Buffer,
     PrivateUnlessOverrun, Racing, free_send_buffer, connection_vars, send_vars,
     recv_vars, main_vars
<1>18. CASE ProcessSendFile_Next
  BY <1>18 DEF ProcessSendFile_Next, ScalarTypes, FlagTypes, Buffer,
     PrivateUnlessOverrun, Racing, free_send_buffer, connection_vars, recv_vars,
     main_vars
<1>19. CASE Worker_Status
  BY <1>19 DEF Worker_Status, ScalarTypes, FlagTypes, Buffer, PrivateUnlessOverrun,
     Racing, free_send_buffer, send_vars, recv_vars, main_vars
<1>20. CASE PeerStep
  BY <1>20 DEF PeerStep, ScalarTypes, FlagTypes, Buffer, PrivateUnlessOverrun,
     Racing, free_send_buffer, send_vars, recv_vars, main_vars
<1>21. QED
  BY <1>1, <1>2, <1>3, <1>4, <1>5, <1>6, <1>7, <1>8, <1>9, <1>10, <1>11, <1>12,
     <1>13, <1>14, <1>15, <1>16, <1>17, <1>18, <1>19, <1>20 DEF Step, Tick,
     WorkerThread

-----------------------------------------------------------------------------
(* The order of messages.                                                  *)

\* Appending to the last of three sequences appends to them all.
LEMMA AppendToLast ==
    ASSUME NEW S, NEW s \in Seq(S), NEW t \in Seq(S), NEW u \in Seq(S), NEW e \in S
    PROVE  s \o t \o Append(u, e) = Append(s \o t \o u, e)
<1>1. s \o t \in Seq(S) /\ (s \o t) \o u \in Seq(S)
  BY ConcatProperties
<1>2. Append(u, e) = u \o <<e>> /\ Append(s \o t \o u, e) = (s \o t \o u) \o <<e>>
  BY <1>1, AppendIsConcat
<1>3. <<e>> \in Seq(S)
  OBVIOUS
<1>4. QED BY <1>1, <1>2, <1>3, ConcatAssociative

\* Moving the head of one sequence to the end of the one before it.
LEMMA MoveHead ==
    ASSUME NEW S, NEW s \in Seq(S), NEW t \in Seq(S), t # <<>>
    PROVE  Append(s, Head(t)) \o Tail(t) = s \o t
<1>1. Head(t) \in S /\ Tail(t) \in Seq(S) /\ <<Head(t)>> \in Seq(S)
  BY HeadTailProperties
<1>2. Append(s, Head(t)) = s \o <<Head(t)>>
  BY <1>1, AppendIsConcat
<1>3. t = <<Head(t)>> \o Tail(t)
  <2>1. <<Head(t)>> \o Tail(t) \in Seq(S)
    BY <1>1, ConcatProperties
  <2>2. Len(t) = Len(<<Head(t)>> \o Tail(t))
    BY <1>1, HeadTailProperties, ConcatProperties
  <2>3. \A i \in 1 .. Len(t) : t[i] = (<<Head(t)>> \o Tail(t))[i]
    BY <1>1, HeadTailProperties, ConcatProperties
  <2>4. QED BY <2>1, <2>2, <2>3, SeqEqual
<1>4. QED BY <1>1, <1>2, <1>3, ConcatAssociative

\* The number given to the next message continues the sequence.
LEMMA NextNumber ==
    ASSUME NEW n \in Nat
    PROVE  Append(Numbers(n), n + 1) = Numbers(n + 1)
<1>1. Numbers(n) \in Seq(Nat) /\ Numbers(n + 1) \in Seq(Nat)
  BY DEF Numbers
<1>2. Len(Numbers(n)) = n /\ Len(Numbers(n + 1)) = n + 1
  BY DEF Numbers
<1>3. Append(Numbers(n), n + 1) \in Seq(Nat)
  BY <1>1, AppendProperties
<1>4. Len(Append(Numbers(n), n + 1)) = n + 1
  BY <1>1, <1>2, AppendProperties
<1>5. \A i \in 1 .. n + 1 : Append(Numbers(n), n + 1)[i] = Numbers(n + 1)[i]
  BY <1>1, <1>2, AppendProperties DEF Numbers
<1>6. QED BY <1>1, <1>2, <1>3, <1>4, <1>5, SeqEqual

\* A message moves from the buffer that is free to the one that is current when
\* that one is empty, and from the head of that one to the protocol.
LEMMA StepOrder ==
    ASSUME FlagTypes, QueueTypes, ScalarTypes, PrivateUnlessOverrun, InOrder, Step
    PROVE  InOrder'
<1>1. CASE Connect
  BY <1>1 DEF Connect, InOrder, free_send_buffer, Application, send_vars, recv_vars,
     main_vars
<1>2. CASE Disconnect
  BY <1>2 DEF Disconnect, InOrder, free_send_buffer, Application, send_vars,
     recv_vars
<1>3. CASE Disconnect_Join
  BY <1>3 DEF Disconnect_Join, InOrder, free_send_buffer, send_vars, recv_vars
<1>4. CASE SendMsg
  <2>1. CASE send_buffers' = send_buffers /\ messages' = messages
    BY <1>4, <2>1 DEF SendMsg, InOrder, free_send_buffer
  <2>2. CASE ~(send_buffers' = send_buffers /\ messages' = messages)
    <3> SUFFICES ASSUME ~overrun
                 PROVE  handed \o send_buffers'[current_send_buffer]
                               \o send_buffers'[free_send_buffer] = Numbers(messages')
      BY <1>4 DEF SendMsg, InOrder, free_send_buffer
    <3> DEFINE cur  == send_buffers[current_send_buffer]
               free == send_buffers[free_send_buffer]
    <3>1. cur \in Seq(Message) /\ free \in Seq(Message) /\ handed \in Seq(Message)
      BY DEF QueueTypes, ScalarTypes, free_send_buffer, Buffer
    <3>2. messages + 1 \in Message /\ messages \in Nat
      BY <1>4, BoundAssumption DEF SendMsg, ScalarTypes, Message
    <3>3. /\ send_buffers'[current_send_buffer] = cur
          /\ send_buffers'[free_send_buffer] = Append(free, messages + 1)
          /\ messages' = messages + 1
      <4>1. /\ current_send_buffer \in Buffer /\ free_send_buffer \in Buffer
            /\ current_send_buffer # free_send_buffer
            /\ send_buffers \in [Buffer -> Seq(Message)]
        BY DEF QueueTypes, ScalarTypes, free_send_buffer, Buffer
      <4>2. QED BY <1>4, <2>2, <4>1 DEF SendMsg
    <3>4. handed \o cur \o Append(free, messages + 1)
             = Append(handed \o cur \o free, messages + 1)
      <4> HIDE DEF cur, free
      <4> QED BY SMTT(30), <3>1, <3>2, AppendToLast
    <3>5. handed \o cur \o free = Numbers(messages)
      BY DEF InOrder
    <3>6. QED BY <3>2, <3>3, <3>4, <3>5, NextNumber
  <2>3. QED BY <2>1, <2>2
<1>5. CASE SendFile
  BY <1>5 DEF SendFile, InOrder, free_send_buffer, connection_vars, recv_vars,
     main_vars
<1>6. CASE Tick_Disconnected
  BY <1>6 DEF Tick_Disconnected, InOrder, free_send_buffer, send_vars, recv_vars
<1>7. CASE Tick_SwapRecv
  BY <1>7 DEF Tick_SwapRecv, InOrder, free_send_buffer, free_recv_buffer,
     connection_vars, send_vars
<1>8. CASE Tick_Handle
  BY <1>8 DEF Tick_Handle, InOrder, free_send_buffer, free_recv_buffer,
     connection_vars, send_vars
<1>9. CASE Tick_Pop
  BY <1>9 DEF Tick_Pop, InOrder, free_send_buffer, free_recv_buffer,
     connection_vars, send_vars
<1>10. CASE Tick_SwapSend
  <2>0. /\ current_send_buffer' = free_send_buffer
        /\ free_send_buffer' = current_send_buffer
        /\ UNCHANGED <<handed, send_buffers, messages>>
    BY <1>10 DEF Tick_SwapSend, free_send_buffer, ScalarTypes, Buffer
  <2> SUFFICES ASSUME ~overrun'
               PROVE  handed \o send_buffers[free_send_buffer]
                             \o send_buffers[current_send_buffer] = Numbers(messages)
    BY <2>0 DEF InOrder
  <2> DEFINE free == send_buffers[free_send_buffer]
  <2>1. ~overrun /\ send_buffers[current_send_buffer] = <<>>
    BY <1>10 DEF Tick_SwapSend, FlagTypes
  <2>2. free \in Seq(Message) /\ handed \in Seq(Message)
    BY DEF QueueTypes, ScalarTypes, free_send_buffer, Buffer
  <2>3. handed \o <<>> \o free = Numbers(messages)
    BY <2>1 DEF InOrder
  <2>4. handed \o <<>> = handed /\ handed \o free \in Seq(Message)
    BY <2>2, ConcatEmptySeq, ConcatProperties
  <2>5. (handed \o free) \o <<>> = handed \o free
    BY <2>4, ConcatEmptySeq
  <2>6. QED BY <2>1, <2>3, <2>4, <2>5
<1>11. CASE Worker_End
  BY <1>11 DEF Worker_End, InOrder, free_send_buffer, connection_vars, send_vars,
     recv_vars, main_vars
<1>12. CASE Worker_Receive
  BY <1>12 DEF Worker_Receive, InOrder, free_send_buffer, ReportError, send_vars,
     recv_vars, main_vars
<1>13. CASE Worker_Parse
  BY <1>13 DEF Worker_Parse, InOrder, free_send_buffer, connection_vars, send_vars,
     main_vars
<1>14. CASE Worker_SendRaw
  BY <1>14 DEF Worker_SendRaw, InOrder, free_send_buffer, ReportError, send_vars,
     recv_vars, main_vars
<1>15. CASE ProcessSendMsg_Take
  BY <1>15 DEF ProcessSendMsg_Take, InOrder, free_send_buffer, connection_vars,
     recv_vars, main_vars
<1>16. CASE ProcessSendMsg_Next
  <2> SUFFICES ASSUME ~overrun
               PROVE  handed' \o send_buffers'[current_send_buffer]
                              \o send_buffers'[free_send_buffer] = Numbers(messages)
    BY <1>16 DEF ProcessSendMsg_Next, InOrder, free_send_buffer
  <2> DEFINE cur  == send_buffers[current_send_buffer]
             free == send_buffers[free_send_buffer]
  <2>1. send_queue = current_send_buffer
    BY <1>16 DEF ProcessSendMsg_Next, PrivateUnlessOverrun, Racing, free_send_buffer,
       ScalarTypes, Buffer
  <2>2. cur \in Seq(Message) /\ handed \in Seq(Message) /\ cur # <<>>
    BY <1>16, <2>1 DEF ProcessSendMsg_Next, QueueTypes, ScalarTypes
  <2>3. /\ send_buffers'[current_send_buffer] = Tail(cur)
        /\ send_buffers'[free_send_buffer] = free
        /\ handed' = Append(handed, Head(cur))
    BY <1>16, <2>1 DEF ProcessSendMsg_Next, QueueTypes, ScalarTypes, free_send_buffer,
       Buffer
  <2>4. Append(handed, Head(cur)) \o Tail(cur) = handed \o cur
    BY <2>2, MoveHead
  <2>5. QED BY <2>3, <2>4 DEF InOrder
<1>17. CASE ProcessSendMsg_Done
  BY <1>17 DEF ProcessSendMsg_Done, InOrder, free_send_buffer, connection_vars,
     send_vars, recv_vars, main_vars
<1>18. CASE ProcessSendFile_Next
  BY <1>18 DEF ProcessSendFile_Next, InOrder, free_send_buffer, connection_vars,
     recv_vars, main_vars
<1>19. CASE Worker_Status
  BY <1>19 DEF Worker_Status, InOrder, free_send_buffer, send_vars, recv_vars,
     main_vars
<1>20. CASE PeerStep
  BY <1>20 DEF PeerStep, InOrder, free_send_buffer, send_vars, recv_vars, main_vars
<1>21. QED
  BY <1>1, <1>2, <1>3, <1>4, <1>5, <1>6, <1>7, <1>8, <1>9, <1>10, <1>11, <1>12,
     <1>13, <1>14, <1>15, <1>16, <1>17, <1>18, <1>19, <1>20 DEF Step, Tick,
     WorkerThread

-----------------------------------------------------------------------------
(* Where messages and files are.                                           *)

\* A queue has finitely many positions that hold a given number.
LEMMA PositionsFinite ==
    ASSUME NEW S, NEW s \in Seq(S), NEW x
    PROVE  /\ IsFiniteSet({i \in DOMAIN s : s[i] = x})
           /\ Occurrences(x, s) \in Nat
<1>1. DOMAIN s = 1 .. Len(s) /\ Len(s) \in Nat
  BY LenProperties
<1>2. IsFiniteSet(1 .. Len(s))
  BY <1>1, FS_Interval
<1>3. {i \in DOMAIN s : s[i] = x} \in SUBSET (1 .. Len(s))
  BY <1>1
<1>4. IsFiniteSet({i \in DOMAIN s : s[i] = x})
  BY <1>2, <1>3, FS_Subset
<1> QED
  BY <1>4, FS_CardinalityType DEF Occurrences

\* A number that was not given out yet is in no queue.
LEMMA FreshOccursNowhere ==
    ASSUME NEW n \in Nat, NEW s \in Seq(1 .. n)
    PROVE  Occurrences(n + 1, s) = 0
<1>1. \A i \in DOMAIN s : s[i] \in 1 .. n
  BY ElementOfSeq, LenProperties
<1>2. {i \in DOMAIN s : s[i] = n + 1} = {}
  BY <1>1
<1> QED
  BY <1>2, FS_EmptySet DEF Occurrences

\* A push adds one occurrence of what is pushed.
LEMMA OccurrencesOfAppend ==
    ASSUME NEW S, NEW s \in Seq(S), NEW e \in S, NEW x
    PROVE  Occurrences(x, Append(s, e)) =
              Occurrences(x, s) + (IF e = x THEN 1 ELSE 0)
<1> DEFINE P == {i \in DOMAIN s : s[i] = x}
           Q == {i \in DOMAIN Append(s, e) : Append(s, e)[i] = x}
<1>1. /\ DOMAIN s = 1 .. Len(s) /\ Len(s) \in Nat
      /\ DOMAIN Append(s, e) = 1 .. Len(s) + 1
      /\ \A i \in 1 .. Len(s) : Append(s, e)[i] = s[i]
      /\ Append(s, e)[Len(s) + 1] = e
  BY LenProperties, AppendProperties
<1>2. IsFiniteSet(P) /\ Cardinality(P) \in Nat
  BY PositionsFinite DEF Occurrences
<1>0. Occurrences(x, s) = Cardinality(P) /\ Occurrences(x, Append(s, e)) = Cardinality(Q)
  BY DEF Occurrences
<1>3. CASE e = x
  <2>1. Q = P \cup {Len(s) + 1} /\ Len(s) + 1 \notin P
    BY <1>1, <1>3
  <2> HIDE DEF P, Q
  <2> QED
    BY <1>0, <1>2, <1>3, <2>1, FS_AddElement
<1>4. CASE e # x
  <2>1. Q = P
    BY <1>1, <1>4
  <2> HIDE DEF P, Q
  <2> QED
    BY <1>0, <1>2, <1>4, <2>1
<1> QED
  BY <1>3, <1>4

\* A pop takes one occurrence of the front away.
LEMMA OccurrencesOfTail ==
    ASSUME NEW S, NEW s \in Seq(S), s # <<>>, NEW x
    PROVE  Occurrences(x, s) =
              Occurrences(x, Tail(s)) + (IF Head(s) = x THEN 1 ELSE 0)
<1> DEFINE P == {i \in DOMAIN s : s[i] = x}
           Q == {i \in DOMAIN Tail(s) : Tail(s)[i] = x}
           next == [i \in Q |-> i + 1]
<1>1. /\ Tail(s) \in Seq(S) /\ Head(s) = s[1]
      /\ Len(s) \in Nat \ {0} /\ Len(Tail(s)) = Len(s) - 1
      /\ DOMAIN s = 1 .. Len(s) /\ DOMAIN Tail(s) = 1 .. Len(s) - 1
      /\ \A i \in 1 .. Len(s) - 1 : Tail(s)[i] = s[i + 1]
  BY HeadTailProperties, LenProperties, EmptySeq
<1>2. /\ IsFiniteSet(P) /\ Cardinality(P) \in Nat
      /\ IsFiniteSet(Q) /\ Cardinality(Q) \in Nat
  BY <1>1, PositionsFinite DEF Occurrences
<1>3. ExistsBijection(Q, P \ {1})
  <2>1. next \in [Q -> P \ {1}]
    BY <1>1
  <2>2. \A i, j \in Q : next[i] = next[j] => i = j
    BY <1>1
  <2>3. \A k \in P \ {1} : \E i \in Q : next[i] = k
    <3> SUFFICES ASSUME NEW k \in P \ {1}
                 PROVE  k - 1 \in Q /\ next[k - 1] = k
      OBVIOUS
    <3>1. k - 1 \in 1 .. Len(s) - 1 /\ k - 1 + 1 = k
      BY <1>1
    <3> QED
      BY <1>1, <3>1
  <2> HIDE DEF next, P, Q
  <2> QED
    BY <2>1, <2>2, <2>3, Fun_IsBij, Fun_ExistsBij
<1>4. Cardinality(P \ {1}) = Cardinality(Q)
  BY <1>2, <1>3, FS_Bijection
<1>5. 1 \in P <=> Head(s) = x
  BY <1>1
<1>6. Cardinality(P \ {1}) = IF 1 \in P THEN Cardinality(P) - 1 ELSE Cardinality(P)
  BY <1>2, FS_RemoveElement
<1>7. Occurrences(x, s) = Cardinality(P) /\ Occurrences(x, Tail(s)) = Cardinality(Q)
  BY DEF Occurrences
<1> HIDE DEF P, Q
<1> QED
  BY <1>2, <1>4, <1>5, <1>6, <1>7

\* Only numbers that were given out are in the queues.
GivenOut ==
    /\ handed \in Seq(1 .. messages)
    /\ send_buffers \in [Buffer -> Seq(1 .. messages)]

\* The steps that touch neither a queue of the sending side nor its history.
sent_vars == <<handed, send_buffers, messages, handed_files, file_send_queue_, files>>

\* All but four steps leave what is to be sent where it is; Tick only decides
\* which of the buffers is next.
LEMMA OtherStepsKeepSent ==
    ASSUME Step
    PROVE  \/ SendMsg \/ SendFile \/ ProcessSendMsg_Next \/ ProcessSendFile_Next
           \/ UNCHANGED sent_vars
<1>1. Connect \/ Disconnect \/ Disconnect_Join \/ PeerStep => UNCHANGED sent_vars
  BY DEF Connect, Disconnect, Disconnect_Join, PeerStep, send_vars, sent_vars
<1>2. Tick => UNCHANGED sent_vars
  BY DEF Tick, Tick_Disconnected, Tick_SwapRecv, Tick_Handle, Tick_Pop, Tick_SwapSend,
     send_vars, sent_vars
<1>3. Worker_End \/ Worker_Receive \/ Worker_Parse \/ Worker_SendRaw \/ Worker_Status
         => UNCHANGED sent_vars
  BY DEF Worker_End, Worker_Receive, Worker_Parse, Worker_SendRaw, Worker_Status,
     send_vars, sent_vars
<1>4. ProcessSendMsg_Take \/ ProcessSendMsg_Done => UNCHANGED sent_vars
  BY DEF ProcessSendMsg_Take, ProcessSendMsg_Done, send_vars, sent_vars
<1> QED
  BY <1>1, <1>2, <1>3, <1>4 DEF Step, WorkerThread

\* HandedOnce, with the messages and the files apart.
MessagesOnce ==
    \A m \in 1 .. messages :
       Occurrences(m, handed) + Occurrences(m, send_buffers[0])
                              + Occurrences(m, send_buffers[1]) = 1

FilesInOrder == handed_files \o file_send_queue_ = Numbers(files)

\* SendMsg gives out one number more and puts it in one of the two buffers; or
\* it damages the queue and gives out none.
LEMMA SendMsgOnce ==
    ASSUME Types, GivenOut, MessagesOnce, SendMsg
    PROVE  GivenOut' /\ MessagesOnce'
<1>1. CASE send_buffers' = send_buffers /\ messages' = messages
  BY <1>1 DEF SendMsg, GivenOut, MessagesOnce
<1>2. CASE ~(send_buffers' = send_buffers /\ messages' = messages)
  <2> DEFINE b == free_send_buffer
             n == messages + 1
  <2>1. /\ messages \in Nat /\ messages' = n /\ handed' = handed
        /\ b \in Buffer /\ Buffer = {0, 1}
        /\ send_buffers' = [send_buffers EXCEPT ![b] = Append(@, n)]
    BY <1>2, BoundAssumption DEF Types, ScalarTypes, SendMsg, free_send_buffer, Buffer
  <2>2. \A s \in Seq(1 .. messages) : s \in Seq(1 .. n)
    BY <2>1, 1 .. messages \subseteq 1 .. n, SeqMonotonic
  <2>3. /\ handed \in Seq(1 .. messages)
        /\ \A c \in Buffer : send_buffers[c] \in Seq(1 .. messages)
    BY DEF GivenOut
  <2>4. /\ \A c \in Buffer \ {b} : send_buffers'[c] = send_buffers[c]
        /\ send_buffers'[b] = Append(send_buffers[b], n)
        /\ DOMAIN send_buffers' = Buffer
    BY <2>1 DEF GivenOut
  <2> HIDE DEF b, n
  <2>5. /\ send_buffers[b] \in Seq(1 .. n) /\ n \in 1 .. n
        /\ Append(send_buffers[b], n) \in Seq(1 .. n)
    <3>1. n \in 1 .. n
      BY <2>1 DEF n
    <3> QED
      BY <2>1, <2>2, <2>3, <3>1, AppendProperties
  <2>6. GivenOut'
    <3>1. \A c \in Buffer : send_buffers'[c] \in Seq(1 .. n)
      BY <2>2, <2>3, <2>4, <2>5
    <3>2. send_buffers' = [c \in Buffer |-> send_buffers'[c]]
      BY <2>1, <2>4 DEF GivenOut
    <3>3. send_buffers' \in [Buffer -> Seq(1 .. n)]
      BY <3>1, <3>2
    <3> QED
      BY <2>1, <2>2, <2>3, <3>3 DEF GivenOut
  <2>7. ASSUME NEW m \in 1 .. n
        PROVE  Occurrences(m, handed') + Occurrences(m, send_buffers'[0])
                                       + Occurrences(m, send_buffers'[1]) = 1
    <3>1. Occurrences(m, send_buffers'[b]) =
             Occurrences(m, send_buffers[b]) + (IF n = m THEN 1 ELSE 0)
      BY <2>4, <2>5, OccurrencesOfAppend
    <3>2. /\ Occurrences(m, handed) \in Nat
          /\ Occurrences(m, send_buffers[0]) \in Nat
          /\ Occurrences(m, send_buffers[1]) \in Nat
      <4>1. send_buffers[0] \in Seq(1 .. messages) /\ send_buffers[1] \in Seq(1 .. messages)
        BY <2>1, <2>3
      <4> QED
        BY <2>3, <4>1, PositionsFinite
    <3>3. CASE m = n
      <4>1. /\ Occurrences(m, handed) = 0
            /\ Occurrences(m, send_buffers[0]) = 0
            /\ Occurrences(m, send_buffers[1]) = 0
        <5>1. send_buffers[0] \in Seq(1 .. messages) /\ send_buffers[1] \in Seq(1 .. messages)
          BY <2>1, <2>3
        <5> QED
          BY <2>1, <2>3, <3>3, <5>1, FreshOccursNowhere DEF n
      <4>2. CASE b = 0
        BY <2>1, <2>4, <3>1, <3>3, <4>1, <4>2
      <4>3. CASE b = 1
        BY <2>1, <2>4, <3>1, <3>3, <4>1, <4>3
      <4> QED
        BY <2>1, <4>2, <4>3
    <3>4. CASE m # n
      <4>1. m \in 1 .. messages
        BY <2>1, <3>4 DEF n
      <4>2. Occurrences(m, handed) + Occurrences(m, send_buffers[0])
                                   + Occurrences(m, send_buffers[1]) = 1
        BY <4>1 DEF MessagesOnce
      <4>3. \A c \in Buffer : Occurrences(m, send_buffers'[c]) = Occurrences(m, send_buffers[c])
        BY <2>4, <3>1, <3>2, <3>4, <2>1
      <4> QED
        BY <2>1, <4>2, <4>3
    <3> QED
      BY <3>3, <3>4
  <2>8. MessagesOnce'
    BY <2>1, <2>7 DEF MessagesOnce
  <2> QED
    BY <2>6, <2>8
<1> QED
  BY <1>1, <1>2

\* The worker hands on the front of the queue it drains and pops that front,
\* also when SendMsg fills the same queue.
LEMMA ProcessSendMsgOnce ==
    ASSUME Types, GivenOut, MessagesOnce, ProcessSendMsg_Next
    PROVE  GivenOut' /\ MessagesOnce'
<1> DEFINE q == send_queue
           S == 1 .. messages
           h == Head(send_buffers[q])
<1>1. /\ q \in Buffer /\ Buffer = {0, 1} /\ messages' = messages
      /\ send_buffers[q] # <<>>
      /\ handed' = Append(handed, h)
      /\ send_buffers' = [send_buffers EXCEPT ![q] = Tail(@)]
  BY DEF Types, ScalarTypes, ProcessSendMsg_Next, Buffer
<1>2. /\ handed \in Seq(S)
      /\ \A c \in Buffer : send_buffers[c] \in Seq(S)
  BY DEF GivenOut
<1>3. /\ \A c \in Buffer \ {q} : send_buffers'[c] = send_buffers[c]
      /\ send_buffers'[q] = Tail(send_buffers[q])
      /\ DOMAIN send_buffers' = Buffer
      /\ send_buffers' = [c \in Buffer |-> send_buffers'[c]]
  BY <1>1 DEF GivenOut
<1>4. h \in S /\ Tail(send_buffers[q]) \in Seq(S)
  <2> HIDE DEF S
  <2> QED
    BY <1>1, <1>2, HeadTailProperties
<1>5. Append(handed, h) \in Seq(S)
  <2> HIDE DEF S, h
  <2> QED
    BY <1>2, <1>4, AppendProperties
<1>6. GivenOut'
  <2>1. \A c \in Buffer : send_buffers'[c] \in Seq(S)
    BY <1>2, <1>3, <1>4
  <2> HIDE DEF h
  <2> QED
    BY <1>1, <1>3, <1>5, <2>1 DEF GivenOut
<1> HIDE DEF q, S, h
<1>7. ASSUME NEW m \in S
      PROVE  Occurrences(m, handed') + Occurrences(m, send_buffers'[0])
                                     + Occurrences(m, send_buffers'[1]) = 1
  <2>1. Occurrences(m, handed') =
           Occurrences(m, handed) + (IF h = m THEN 1 ELSE 0)
    BY <1>1, <1>2, <1>4, OccurrencesOfAppend
  <2>2. Occurrences(m, send_buffers[q]) =
           Occurrences(m, send_buffers'[q]) + (IF h = m THEN 1 ELSE 0)
    <3>1. send_buffers[q] \in Seq(S)
      BY <1>1, <1>2
    <3> QED
      BY <1>1, <1>3, <3>1, OccurrencesOfTail DEF h
  <2>3. /\ Occurrences(m, handed) \in Nat
        /\ \A c \in Buffer : Occurrences(m, send_buffers[c]) \in Nat
        /\ Occurrences(m, send_buffers'[q]) \in Nat
    BY <1>2, <1>3, <1>4, PositionsFinite
  <2>4. Occurrences(m, handed) + Occurrences(m, send_buffers[0])
                               + Occurrences(m, send_buffers[1]) = 1
    BY DEF MessagesOnce, S
  <2>5. CASE q = 0
    BY <1>1, <1>3, <2>1, <2>2, <2>3, <2>4, <2>5
  <2>6. CASE q = 1
    BY <1>1, <1>3, <2>1, <2>2, <2>3, <2>4, <2>6
  <2> QED
    BY <1>1, <2>5, <2>6
<1>8. MessagesOnce'
  BY <1>1, <1>7 DEF MessagesOnce, S
<1> QED
  BY <1>6, <1>8

\* Files are put at one end of their queue and taken from the other.
LEMMA StepFiles ==
    ASSUME Types, FilesInOrder, SendFile \/ ProcessSendFile_Next
    PROVE  FilesInOrder'
<1>0. /\ handed_files \in Seq(File) /\ file_send_queue_ \in Seq(File)
      /\ files \in Nat
  BY BoundAssumption DEF Types, QueueTypes, ScalarTypes
<1>1. CASE SendFile
  <2>1. /\ file_send_queue_' = Append(file_send_queue_, files + 1)
        /\ files' = files + 1 /\ handed_files' = handed_files
        /\ files + 1 \in File
    BY <1>0, <1>1, BoundAssumption DEF SendFile, Types, ScalarTypes, File
  <2>2. /\ <<>> \in Seq(File)
        /\ handed_files \o <<>> = handed_files
    BY <1>0, EmptySeq, ConcatEmptySeq
  <2>3. handed_files \o <<>> \o Append(file_send_queue_, files + 1)
           = Append(handed_files \o <<>> \o file_send_queue_, files + 1)
    BY <1>0, <2>1, <2>2, AppendToLast
  <2>4. handed_files' \o file_send_queue_' = Append(Numbers(files), files + 1)
    BY <2>1, <2>2, <2>3 DEF FilesInOrder
  <2> QED
    BY <1>0, <2>1, <2>4, NextNumber DEF FilesInOrder
<1>2. CASE ProcessSendFile_Next
  <2>1. /\ file_send_queue_ # <<>> /\ files' = files
        /\ handed_files' = Append(handed_files, Head(file_send_queue_))
        /\ file_send_queue_' = Tail(file_send_queue_)
    BY <1>2 DEF ProcessSendFile_Next
  <2> QED
    BY <1>0, <2>1, MoveHead DEF FilesInOrder
<1> QED
  BY <1>1, <1>2

\* HandedOnce with what makes it inductive.
SentInv == GivenOut /\ MessagesOnce /\ FilesInOrder

\* A step of the client keeps every message and file in one place.
LEMMA StepSent == ASSUME Types, SentInv, Step PROVE SentInv'
<1>1. CASE SendMsg
  <2>1. FilesInOrder'
    BY <1>1 DEF SentInv, SendMsg, FilesInOrder
  <2> QED
    BY <1>1, <2>1, SendMsgOnce DEF SentInv
<1>2. CASE ProcessSendMsg_Next
  <2>1. FilesInOrder'
    BY <1>2 DEF SentInv, ProcessSendMsg_Next, FilesInOrder
  <2> QED
    BY <1>2, <2>1, ProcessSendMsgOnce DEF SentInv
<1>3. CASE SendFile \/ ProcessSendFile_Next
  <2>1. UNCHANGED <<handed, send_buffers, messages>>
    BY <1>3 DEF SendFile, ProcessSendFile_Next
  <2>2. GivenOut' /\ MessagesOnce'
    BY <2>1 DEF SentInv, GivenOut, MessagesOnce
  <2> QED
    BY <1>3, <2>2, StepFiles DEF SentInv
<1>4. CASE UNCHANGED sent_vars
  BY <1>4 DEF sent_vars, SentInv, GivenOut, MessagesOnce, FilesInOrder
<1> QED
  BY <1>1, <1>2, <1>3, <1>4, OtherStepsKeepSent

\* Nothing has been given to the client at first.
LEMMA InitSent == Init => SentInv
<1> SUFFICES ASSUME Init
             PROVE  SentInv
  OBVIOUS
<1>1. <<>> \in Seq(1 .. 0)
  BY EmptySeq
<1>2. GivenOut
  BY <1>1 DEF Init, GivenOut
<1>3. MessagesOnce
  BY DEF Init, MessagesOnce
<1>4. Numbers(0) = <<>> /\ <<>> \o <<>> = <<>>
  BY <1>1, ConcatEmptySeq DEF Numbers
<1>5. FilesInOrder
  BY <1>4 DEF Init, FilesInOrder
<1> QED
  BY <1>2, <1>3, <1>5 DEF SentInv

-----------------------------------------------------------------------------
(* The two receive buffers are one queue.                                  *)

\* Between two Ticks nothing is in the buffer that Tick gives to the worker: the
\* exchange puts no message behind a newer one.
TakenIsHandled ==
    tick \in {"idle", "on_disconnect", "swap"} => recv_buffers[free_recv_buffer] = <<>>

\* Buffers of the receiving side, and what Tick does with them.
taken_vars == <<tick, recv_buffers, current_recv_buffer, handled>>

\* The steps of the worker other than the receive callback, the calls of the
\* application and the server leave the receive buffers alone.
LEMMA OtherStepsKeepTaken ==
    ASSUME Step
    PROVE  Tick \/ Worker_Parse \/ UNCHANGED taken_vars
<1>1. Connect \/ Disconnect \/ Disconnect_Join \/ PeerStep => UNCHANGED taken_vars
  BY DEF Connect, Disconnect, Disconnect_Join, PeerStep, recv_vars, main_vars, taken_vars
<1>2. SendMsg \/ SendFile => UNCHANGED taken_vars
  BY DEF SendMsg, SendFile, recv_vars, main_vars, taken_vars
<1>3. Worker_End \/ Worker_Receive \/ Worker_SendRaw \/ Worker_Status
         => UNCHANGED taken_vars
  BY DEF Worker_End, Worker_Receive, Worker_SendRaw, Worker_Status, recv_vars,
     main_vars, taken_vars
<1>4. ProcessSendMsg_Take \/ ProcessSendMsg_Next \/ ProcessSendMsg_Done
         \/ ProcessSendFile_Next => UNCHANGED taken_vars
  BY DEF ProcessSendMsg_Take, ProcessSendMsg_Next, ProcessSendMsg_Done,
     ProcessSendFile_Next, recv_vars, main_vars, taken_vars
<1> QED
  BY <1>1, <1>2, <1>3, <1>4 DEF Step, WorkerThread

\* Head and tail of a concatenation whose first part is not empty.
LEMMA FrontOfConcat ==
    ASSUME NEW S, NEW s \in Seq(S), NEW t \in Seq(S), s # <<>>
    PROVE  /\ s \o t # <<>>
           /\ Head(s \o t) = Head(s)
           /\ Tail(s \o t) = Tail(s) \o t
<1>1. Len(s) \in Nat \ {0} /\ Len(t) \in Nat
  BY LenProperties, EmptySeq
<1>2. Len(s \o t) = Len(s) + Len(t) /\ s \o t \in Seq(S)
  BY ConcatProperties
<1> QED
  BY <1>1, <1>2, SMTT(30)

\* Appending to the second part appends to the whole.
LEMMA BackOfConcat ==
    ASSUME NEW S, NEW s \in Seq(S), NEW t \in Seq(S), NEW e \in S
    PROVE  s \o Append(t, e) = Append(s \o t, e)
<1> QED
  BY SMTT(30)

\* The two buffers are different ones, with messages in each.
LEMMA BuffersApart ==
    ASSUME Types
    PROVE  /\ current_recv_buffer \in Buffer /\ free_recv_buffer \in Buffer
           /\ current_recv_buffer # free_recv_buffer
           /\ 1 - free_recv_buffer = current_recv_buffer
           /\ recv_buffers[current_recv_buffer] \in Seq(Received)
           /\ recv_buffers[free_recv_buffer] \in Seq(Received)
<1>1. /\ current_recv_buffer \in Buffer /\ free_recv_buffer \in Buffer
      /\ current_recv_buffer # free_recv_buffer
      /\ 1 - free_recv_buffer = current_recv_buffer
  BY DEF Types, ScalarTypes, Buffer, free_recv_buffer
<1> QED
  BY <1>1 DEF Types, QueueTypes

\* The receive callback adds to the buffer that Tick has not taken.
LEMMA ParseIsAdd ==
    ASSUME Types, FrontIsHandled, TakenIsHandled, Worker_Parse
    PROVE  TakenIsHandled' /\ ReceiveQueue!Next
<1> DEFINE c == current_recv_buffer
           f == free_recv_buffer
<1>1. /\ c \in Buffer /\ f \in Buffer /\ c # f
      /\ recv_buffers[c] \in Seq(Received) /\ recv_buffers[f] \in Seq(Received)
  BY BuffersApart
<1>2. /\ tick' = tick /\ handled' = handled
      /\ current_recv_buffer' = c /\ free_recv_buffer' = f
      /\ recv_buffers'[c] = Append(recv_buffers[c], received + 1)
      /\ recv_buffers'[f] = recv_buffers[f]
  BY <1>1 DEF Worker_Parse, main_vars, free_recv_buffer, Types, QueueTypes
<1>3. received + 1 \in Received
  BY BoundAssumption DEF Worker_Parse, Types, ScalarTypes, Received
<1>4. TakenIsHandled'
  BY <1>2 DEF TakenIsHandled
<1> DEFINE taken == IF tick = "on_message" THEN Tail(recv_buffers[f]) ELSE recv_buffers[f]
<1>5. taken \in Seq(Received)
  BY <1>1, HeadTailProperties DEF FrontIsHandled
<1>6. Arrived = taken \o recv_buffers[c] /\ Arrived' = taken \o recv_buffers'[c]
  BY <1>2 DEF Arrived
<1> HIDE DEF taken
<1>7. taken \o Append(recv_buffers[c], received + 1)
         = Append(taken \o recv_buffers[c], received + 1)
  BY <1>1, <1>3, <1>5, BackOfConcat
<1>8. ReceiveQueue!Add(received + 1)
  BY <1>2, <1>6, <1>7 DEF ReceiveQueue!Add
<1> QED
  BY <1>3, <1>4, <1>8 DEF ReceiveQueue!Next

\* Tick delivers when it calls on_message_: the exchange of the buffers and the
\* pop after the handler do not show.
LEMMA TickIsDeliver ==
    ASSUME Types, FrontIsHandled, TakenIsHandled, Tick
    PROVE  TakenIsHandled' /\ [ReceiveQueue!Next]_(ReceiveQueue!vars)
<1> DEFINE c == current_recv_buffer
           f == free_recv_buffer
<1>0. /\ c \in Buffer /\ f \in Buffer /\ c # f /\ 1 - f = c
      /\ recv_buffers[c] \in Seq(Received) /\ recv_buffers[f] \in Seq(Received)
  BY BuffersApart
<1>1. CASE Tick_Disconnected
  <2>1. /\ tick = "idle" /\ tick' \in {"on_disconnect", "swap"}
        /\ UNCHANGED <<recv_buffers, current_recv_buffer, handled>>
    BY <1>1 DEF Tick_Disconnected, recv_vars
  <2>2. free_recv_buffer' = f
    BY <2>1 DEF free_recv_buffer
  <2> QED
    BY <2>1, <2>2 DEF TakenIsHandled, Arrived, ReceiveQueue!vars
<1>2. CASE Tick_SwapRecv
  <2>1. /\ tick \in {"on_disconnect", "swap"} /\ tick' = "handle"
        /\ recv_buffers' = recv_buffers /\ handled' = handled
        /\ current_recv_buffer' = f
    BY <1>2 DEF Tick_SwapRecv
  <2>2. free_recv_buffer' = c
    BY <1>0, <2>1 DEF free_recv_buffer
  <2>3. recv_buffers[f] = <<>>
    BY <2>1 DEF TakenIsHandled
  <2>4. Arrived = <<>> \o recv_buffers[c] /\ Arrived' = recv_buffers[c] \o <<>>
    BY <2>1, <2>2, <2>3 DEF Arrived
  <2>5. <<>> \o recv_buffers[c] = recv_buffers[c] \o <<>>
    BY <1>0, ConcatEmptySeq
  <2> QED
    BY <2>1, <2>4, <2>5 DEF TakenIsHandled, ReceiveQueue!vars
<1>3. CASE Tick_Handle
  <2>1. /\ tick = "handle" /\ tick' = "on_message"
        /\ recv_buffers[f] # <<>> /\ handled' = Head(recv_buffers[f])
        /\ recv_buffers' = recv_buffers /\ current_recv_buffer' = c
    BY <1>3 DEF Tick_Handle
  <2>2. free_recv_buffer' = f
    BY <2>1 DEF free_recv_buffer
  <2>3. /\ Arrived = recv_buffers[f] \o recv_buffers[c]
        /\ Arrived' = Tail(recv_buffers[f]) \o recv_buffers[c]
    BY <2>1, <2>2 DEF Arrived
  <2>4. ReceiveQueue!Deliver
    <3>1. /\ recv_buffers[f] \o recv_buffers[c] # <<>>
          /\ Head(recv_buffers[f] \o recv_buffers[c]) = Head(recv_buffers[f])
          /\ Tail(recv_buffers[f] \o recv_buffers[c]) =
                Tail(recv_buffers[f]) \o recv_buffers[c]
      BY <1>0, <2>1, FrontOfConcat
    <3> QED
      BY <2>1, <2>3, <3>1 DEF ReceiveQueue!Deliver
  <2> QED
    BY <2>1, <2>4 DEF TakenIsHandled, ReceiveQueue!Next
<1>4. CASE Tick_Pop
  <2>1. /\ tick = "on_message" /\ tick' = "handle" /\ handled' = handled
        /\ recv_buffers'[f] = Tail(recv_buffers[f])
        /\ recv_buffers'[c] = recv_buffers[c]
        /\ current_recv_buffer' = c
    BY <1>0, <1>4 DEF Tick_Pop, Types, QueueTypes
  <2>2. free_recv_buffer' = f
    BY <2>1 DEF free_recv_buffer
  <2>3. Arrived' = Arrived
    BY <2>1, <2>2 DEF Arrived
  <2> QED
    BY <2>1, <2>3 DEF TakenIsHandled, ReceiveQueue!vars
<1>5. CASE Tick_SwapSend
  <2>1. /\ tick = "handle" /\ tick' = "idle" /\ recv_buffers[f] = <<>>
        /\ UNCHANGED <<recv_buffers, current_recv_buffer, handled>>
    BY <1>5 DEF Tick_SwapSend, recv_vars
  <2>2. free_recv_buffer' = f
    BY <2>1 DEF free_recv_buffer
  <2> QED
    BY <2>1, <2>2 DEF TakenIsHandled, Arrived, ReceiveQueue!vars
<1> QED
  BY <1>1, <1>2, <1>3, <1>4, <1>5 DEF Tick

\* Every step adds, delivers or does not show in the queue.
LEMMA StepIsQueue ==
    ASSUME Types, FrontIsHandled, TakenIsHandled, Step
    PROVE  TakenIsHandled' /\ [ReceiveQueue!Next]_(ReceiveQueue!vars)
<1>1. CASE UNCHANGED taken_vars
  BY <1>1 DEF taken_vars, TakenIsHandled, Arrived, free_recv_buffer, ReceiveQueue!vars
<1> QED
  BY <1>1, ParseIsAdd, TickIsDeliver, OtherStepsKeepTaken

\* At first the queue is empty.
LEMMA InitQueue == Init => ReceiveQueue!Init /\ TakenIsHandled
<1>1. <<>> \o <<>> = <<>>
  BY EmptySeq, ConcatEmptySeq
<1>2. ASSUME Init
      PROVE  /\ recv_buffers[current_recv_buffer] = <<>>
             /\ recv_buffers[free_recv_buffer] = <<>>
             /\ tick = "idle" /\ handled = None
  BY <1>2 DEF Init, Buffer, free_recv_buffer
<1> QED
  BY <1>1, <1>2 DEF ReceiveQueue!Init, Arrived, TakenIsHandled

-----------------------------------------------------------------------------
(* The theorems.                                                           *)

\* The inductive invariant of the client.
ClientInv ==
    /\ Types
    /\ FrontIsHandled
    /\ WorkerHasConnection
    /\ LossesCounted
    /\ PrivateUnlessOverrun
    /\ InOrder
    /\ SentInv
    /\ TakenIsHandled

\* It holds initially, with nothing sent or received.
LEMMA InitClient == Init => ClientInv
<1> SUFFICES ASSUME Init
             PROVE  ClientInv
  OBVIOUS
<1>1. FlagTypes
  BY DEF Init, FlagTypes
<1>2. ScalarTypes
  BY BoundAssumption DEF Init, ScalarTypes, Buffer, None
<1>3. QueueTypes
  BY DEF Init, QueueTypes
<1>4. FrontIsHandled
  BY DEF Init, FrontIsHandled
<1>5. WorkerHasConnection
  BY DEF Init, WorkerHasConnection
<1>6. LossesCounted
  BY DEF Init, LossesCounted, B
<1>7. PrivateUnlessOverrun
  BY DEF Init, PrivateUnlessOverrun, Racing
<1>8. InOrder
  <2>1. Numbers(0) = <<>>
    BY DEF Numbers
  <2>2. handed \o send_buffers[current_send_buffer] \o send_buffers[free_send_buffer]
           = <<>> \o <<>> \o <<>> /\ messages = 0
    BY DEF Init, free_send_buffer, Buffer
  <2>3. <<>> \o <<>> = <<>>
    BY ConcatEmptySeq, <<>> \in Seq(Nat)
  <2>4. QED BY <2>1, <2>2, <2>3 DEF InOrder
<1>9. SentInv /\ TakenIsHandled
  BY InitSent, InitQueue
<1>10. QED
  BY <1>1, <1>2, <1>3, <1>4, <1>5, <1>6, <1>7, <1>8, <1>9 DEF ClientInv, Types

\* Every step of the client preserves it, and so does standing still once a
\* queue is damaged.
LEMMA NextClient == ClientInv /\ [Next]_vars => ClientInv'
<1> SUFFICES ASSUME ClientInv, [Next]_vars
             PROVE  ClientInv'
  OBVIOUS
<1>1. CASE Step
  BY <1>1, StepFlags, StepScalars, StepQueues, StepFront, StepConnection, StepLosses,
     StepPrivate, StepOrder, StepSent, StepIsQueue DEF ClientInv, Types
<1>2. CASE UNCHANGED vars
  <2>1. Types' /\ FrontIsHandled'
    BY <1>2 DEF ClientInv, vars, connection_vars, send_vars, recv_vars, main_vars,
       Types, FlagTypes, ScalarTypes, QueueTypes, FrontIsHandled, free_recv_buffer
  <2>2. WorkerHasConnection' /\ LossesCounted'
    BY <1>2 DEF ClientInv, vars, connection_vars, main_vars, WorkerHasConnection,
       LossesCounted
  <2>3. PrivateUnlessOverrun' /\ InOrder'
    BY <1>2 DEF ClientInv, vars, send_vars, PrivateUnlessOverrun, InOrder, Racing,
       free_send_buffer
  <2>4. SentInv' /\ TakenIsHandled'
    BY <1>2 DEF ClientInv, vars, send_vars, recv_vars, main_vars, SentInv, GivenOut,
       MessagesOnce, FilesInOrder, TakenIsHandled, free_recv_buffer
  <2>5. QED BY <2>1, <2>2, <2>3, <2>4 DEF ClientInv
<1>3. QED BY <1>1, <1>2 DEF Next

\* The invariant holds in every reachable state of the client, for any bounds.
THEOREM ClientInvariant == Spec => []ClientInv
  BY InitClient, NextClient, PTL DEF Spec

\* Every variable keeps its type: in particular the buffer that Tick pops after
\* on_message_ returns is never empty.
THEOREM ClientTypes == Spec => []TypeOK
<1>1. ClientInv => TypeOK
  BY TypesAreTypeOK DEF ClientInv
<1>2. QED BY <1>1, ClientInvariant, PTL

\* A worker runs only for the connection that is open, and Connect never
\* starts a second one.
THEOREM WorkerRunsWithConnection == Spec => []WorkerHasConnection
<1>1. ClientInv => WorkerHasConnection
  BY DEF ClientInv
<1>2. QED BY <1>1, ClientInvariant, PTL

\* on_disconnect_ is called for no more losses than there were connections.
THEOREM LossReportedOnce == Spec => []ReportedOnce
<1>1. ClientInv => ReportedOnce
  BY DEF ClientInv, Types, FlagTypes, ScalarTypes, LossesCounted, B, ReportedOnce
<1>2. QED BY <1>1, ClientInvariant, PTL

\* Until a Tick is early, SendMsg does not touch the queue the worker drains.
THEOREM DrainPrivateUnlessOverrun == Spec => []PrivateUnlessOverrun
<1>1. ClientInv => PrivateUnlessOverrun
  BY DEF ClientInv
<1>2. QED BY <1>1, ClientInvariant, PTL

\* Until a Tick is early, messages reach the protocol in the order of SendMsg.
THEOREM MessagesInOrder == Spec => []InOrder
<1>1. ClientInv => InOrder
  BY DEF ClientInv
<1>2. QED BY <1>1, ClientInvariant, PTL

\* Whatever the interleaving of SendMsg, SendFile, Tick, Connect, Disconnect and
\* the worker: each message is in one of the buffers or was handed to the
\* protocol once, also when Ticks are early, and files keep their order.
THEOREM MessagesHandedOnce == Spec => []HandedOnce
<1>1. ClientInv => HandedOnce
  BY DEF ClientInv, SentInv, MessagesOnce, FilesInOrder, HandedOnce
<1>2. QED BY <1>1, ClientInvariant, PTL

\* The two receive buffers behave as one first-in first-out queue: on_message_
\* is called for what arrived, in this order and once each.
THEOREM ReceiveBuffersAreQueue == Spec => ReceiveQueueSpec
<1>1. ClientInv /\ [Next]_vars => [ReceiveQueue!Next]_(ReceiveQueue!vars)
  <2>1. CASE UNCHANGED vars
    BY <2>1 DEF vars, recv_vars, main_vars, Arrived, free_recv_buffer, ReceiveQueue!vars
  <2> QED
    BY <2>1, StepIsQueue DEF Next, ClientInv
<1> QED
  BY <1>1, InitQueue, ClientInvariant, PTL DEF Spec, ReceiveQueueSpec, ReceiveQueue!Spec
===============================================================================
