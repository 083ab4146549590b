----------------------------- MODULE JTCPProtocol -----------------------------
(***************************************************************************)
(* One direction of a connection: the JTCPProtocol object that sends, the  *)
(* TCP stream, and the JTCPProtocol object that receives.  Each object is  *)
(* driven by one thread, the worker of a client or of a session.           *)
(*                                                                         *)
(* The stream carries units of bytes.  Unit n of a packet is <<p, n>>: the *)
(* first HeaderSize units are its PacketHeader, the others its data.       *)
(***************************************************************************)
EXTENDS Naturals, Sequences, FiniteSets

CONSTANTS
    Message,     \* text messages, each sent at most once
    File,        \* files, each sent at most once
    MessageSize, \* units of a message
    FileSize,    \* units of a file
    ChunkSize,   \* FILE_CHUNK_SIZE
    ChunkHeader, \* units of what goes before a chunk of a file: name and numbers
    Priority,    \* the priorities in use
    HeaderSize,  \* sizeof(PacketHeader), in units
    LenModulus,  \* 2^16: the length that SendRaw gets is a uint16_t
    RecvMax      \* what one recv returns at most

ASSUME SizeAssumption ==
    /\ HeaderSize \in Nat \ {0}
    /\ LenModulus \in Nat \ {0}
    /\ RecvMax \in Nat \ {0}
    /\ Priority \subseteq Nat
    /\ MessageSize \in [Message -> Nat]
    /\ FileSize \in [File -> Nat]
    /\ ChunkHeader \in [File -> Nat]
    /\ ChunkSize \in Nat \ {0}
    /\ Message \cap File = {}

ASSUME FileAssumption == IsFiniteSet(File)

Item   == Message \cup File
FileId == 1 .. Cardinality(File)

\* A packet says what it is a part of, and for a file which chunk.  Messages
\* carry packet_index 0 and total_packets 1, and no file identifier.
Packet == [of : Item, file_id : FileId \cup {0}, index : Nat, total : Nat, priority : Priority]

\* Mutant of Chunks: the number of whole chunks.
Chunks_RoundedDown == [f \in File |-> FileSize[f] \div ChunkSize]

\* Into how many chunks sendFile cuts a file.
Chunks == [f \in File |-> (FileSize[f] + ChunkSize - 1) \div ChunkSize]

\* std::min(FILE_CHUNK_SIZE, file_size - i * FILE_CHUNK_SIZE).  The difference
\* is a size_t, and huge if there is no chunk i.
ChunkLength(f, i) ==
    LET rest == FileSize[f] - i * ChunkSize IN
    IF rest \in 0 .. ChunkSize THEN rest ELSE ChunkSize

\* data_size in the header of a packet: the units of its serialized data.
DataSize(p) ==
    IF p.of \in Message THEN MessageSize[p.of]
                        ELSE ChunkHeader[p.of] + ChunkLength(p.of, p.index)

VARIABLES
    send_queue,           \* packets waiting in the priority queue
    sent,                 \* what sendMessage and sendFile were called with
    next_file_id,
    stream,               \* units sent and not yet received
    link,                 \* "up", or "down" once a send has failed
    receive_buffer,       \* units received and not yet parsed
    file_reassembly_map,  \* per file_id: the chunks received, by index
    delivered             \* what receive_callback was called with, in order

vars == <<send_queue, sent, next_file_id, stream, link, receive_buffer,
          file_reassembly_map, delivered>>

sender_vars   == <<send_queue, sent, next_file_id>>
receiver_vars == <<receive_buffer, file_reassembly_map, delivered>>

(***************************************************************************)
(* A part is [of, index, whole]: which chunk of which item it is, and      *)
(* whether its data are the units that were sent for it.  A message is one *)
(* part.  What is delivered is an item with the sequence of its parts.     *)
(***************************************************************************)
Part  == [of : Item, index : Nat, whole : BOOLEAN]
Unit  == Packet \X (Nat \ {0})
NoReassembly == [i \in {} |-> 0]   \* no entry for the file_id

TypeOK ==
    /\ send_queue \subseteq Packet
    /\ sent \subseteq Item
    /\ next_file_id \in 1 .. Cardinality(File) + 1
    /\ stream \in Seq(Unit)
    /\ link \in {"up", "down"}
    /\ receive_buffer \in Seq(Unit)
    /\ DOMAIN file_reassembly_map = FileId
    /\ \A f \in FileId : \A i \in DOMAIN file_reassembly_map[f] :
          i \in Nat /\ file_reassembly_map[f][i] \in Part
    /\ delivered \in Seq([of : Item, parts : Seq(Part)])

Init ==
    /\ send_queue = {}
    /\ sent = {}
    /\ next_file_id = 1
    /\ stream = <<>>
    /\ link = "up"
    /\ receive_buffer = <<>>
    /\ file_reassembly_map = [f \in FileId |-> NoReassembly]
    /\ delivered = <<>>

-----------------------------------------------------------------------------
(* The sending object.                                                     *)

\* Mutant of SendMessage: a message takes a file identifier as well.
SendMessage_TakesId(m, prio) ==
    /\ m \notin sent
    /\ sent' = sent \cup {m}
    /\ next_file_id' = next_file_id + 1
    /\ send_queue' = send_queue \cup
          {[of |-> m, file_id |-> 0, index |-> 0, total |-> 1, priority |-> prio]}
    /\ UNCHANGED <<stream, link, receiver_vars>>

SendMessage(m, prio) ==
    /\ m \notin sent
    /\ sent' = sent \cup {m}
    /\ send_queue' = send_queue \cup
          {[of |-> m, file_id |-> 0, index |-> 0, total |-> 1, priority |-> prio]}
    /\ UNCHANGED <<next_file_id, stream, link, receiver_vars>>

\* Takes a new file_id and queues every chunk; an empty file has none.  A file
\* that cannot be opened changes nothing.
SendFile(f, prio) ==
    /\ f \notin sent
    /\ sent' = sent \cup {f}
    /\ next_file_id' = next_file_id + 1
    /\ send_queue' = send_queue \cup
          {[of |-> f, file_id |-> next_file_id, index |-> i, total |-> Chunks[f],
            priority |-> prio] : i \in {j \in 0 .. Chunks[f] : j < Chunks[f]}}
    /\ UNCHANGED <<stream, link, receiver_vars>>

\* The packets that std::priority_queue may have on top: operator< compares
\* priorities only, so the order of equal ones is that of the heap.
Top == {p \in send_queue : \A q \in send_queue : q.priority <= p.priority}

\* What sendPacket writes: the header, then the data, with the length cut to
\* the uint16_t that the senders of client and session pass to SendRaw.
Wire(p) == [n \in 1 .. HeaderSize + (DataSize(p) % LenModulus) |-> <<p, n>>]

\* One packet per WorkTick.
ProcessSendData ==
    /\ link = "up"
    /\ \E p \in Top :
          /\ send_queue' = send_queue \ {p}
          /\ stream' = stream \o Wire(p)
    /\ UNCHANGED <<sent, next_file_id, link, receiver_vars>>

\* SendRaw fails: the connection is broken, any part of what was on its way
\* may be lost, and the packet goes back to the queue.
ProcessSendData_Fail ==
    /\ link = "up"
    /\ \E p \in Top : LET written == stream \o Wire(p) IN
          \E n \in 0 .. Len(written) - 1 : stream' = SubSeq(written, 1, n)
    /\ link' = "down"
    /\ UNCHANGED <<sender_vars, receiver_vars>>

-----------------------------------------------------------------------------
(* The receiving object.                                                   *)

Front == receive_buffer[1][1]
Size  == HeaderSize + DataSize(Front)

\* The units at the front of the buffer are a header.  When they are not, the
\* program takes them for one with arbitrary fields; the model stops there: that
\* happens only after a packet was delivered with units of the next one.
Framed ==
    /\ Len(receive_buffer) >= HeaderSize
    /\ \A n \in 1 .. HeaderSize : receive_buffer[n] = <<Front, n>>

\* Mutant of HasPacket: wants a unit more than the packet has.
HasPacket_OffByOne == Framed /\ Len(receive_buffer) > Size

\* The buffer holds the whole packet that its header announces.
HasPacket == Framed /\ Len(receive_buffer) >= Size

\* recv, and onDataReceived: the packets received before have been parsed.
Receive ==
    /\ ~HasPacket
    /\ \E n \in 1 .. RecvMax :
          /\ n <= Len(stream)
          /\ receive_buffer' = receive_buffer \o SubSeq(stream, 1, n)
          /\ stream' = SubSeq(stream, n + 1, Len(stream))
    /\ UNCHANGED <<sender_vars, link, file_reassembly_map, delivered>>

\* The units the header announces are taken for the data of the packet.
FrontPart ==
    [of |-> Front.of, index |-> Front.index,
     whole |-> \A n \in HeaderSize + 1 .. Size : receive_buffer[n] = <<Front, n>>]

Consume(n) == receive_buffer' = SubSeq(receive_buffer, n + 1, Len(receive_buffer))

Deliver(x, parts) == delivered' = Append(delivered, [of |-> x, parts |-> parts])

ReceiveMessage ==
    /\ HasPacket
    /\ Front.of \in Message
    /\ Deliver(Front.of, <<FrontPart>>)
    /\ Consume(Size)
    /\ UNCHANGED <<sender_vars, stream, link, file_reassembly_map>>

\* Mutant of Reassembly: chunks are kept in the order of their arrival.
Reassembly_Arrival ==
    LET old == file_reassembly_map[Front.file_id] IN
    [i \in DOMAIN old \cup {Cardinality(DOMAIN old)} |->
        IF i \in DOMAIN old THEN old[i] ELSE FrontPart]

\* The chunks of the file at the front, with the one that has arrived.
Reassembly ==
    LET old == file_reassembly_map[Front.file_id] IN
    [i \in DOMAIN old \cup {Front.index} |-> IF i = Front.index THEN FrontPart ELSE old[i]]

IsComplete == Cardinality(DOMAIN Reassembly) = Front.total

\* No packet has an index that the code would find invalid, as SendFile gives
\* each the number of chunks it counts the indices up to.
ReceiveChunk ==
    /\ HasPacket
    /\ Front.of \in File
    /\ ~IsComplete
    /\ file_reassembly_map' = [file_reassembly_map EXCEPT ![Front.file_id] = Reassembly]
    /\ Consume(Size)
    /\ UNCHANGED <<sender_vars, stream, link, delivered>>

\* Mutant of ReceiveLastChunk: the entry is not erased.
ReceiveLastChunk_NoErase ==
    /\ HasPacket
    /\ Front.of \in File
    /\ IsComplete
    /\ Deliver(Front.of, [n \in 1 .. Front.total |-> Reassembly[n - 1]])
    /\ file_reassembly_map' = [file_reassembly_map EXCEPT ![Front.file_id] = Reassembly]
    /\ Consume(Size)
    /\ UNCHANGED <<sender_vars, stream, link>>

\* The file is assembled in the order of its chunks and delivered.
ReceiveLastChunk ==
    /\ HasPacket
    /\ Front.of \in File
    /\ IsComplete
    /\ Deliver(Front.of, [n \in 1 .. Front.total |-> Reassembly[n - 1]])
    /\ file_reassembly_map' = [file_reassembly_map EXCEPT ![Front.file_id] = NoReassembly]
    /\ Consume(Size)
    /\ UNCHANGED <<sender_vars, stream, link>>

ProcessReceivedData ==
    ReceiveMessage \/ ReceiveChunk \/ ReceiveLastChunk

-----------------------------------------------------------------------------
Next ==
    \/ \E m \in Message, prio \in Priority : SendMessage(m, prio)
    \/ \E f \in File, prio \in Priority : SendFile(f, prio)
    \/ ProcessSendData
    \/ ProcessSendData_Fail
    \/ Receive
    \/ ProcessReceivedData

Spec == Init /\ [][Next]_vars

(***************************************************************************)
(* Both workers call WorkTick in a loop, and TCP delivers what it accepted *)
(* while the connection lasts.                                             *)
(***************************************************************************)
Fairness ==
    /\ WF_vars(ProcessSendData)
    /\ WF_vars(Receive)
    /\ WF_vars(ProcessReceivedData)

FairSpec == Spec /\ Fairness

-----------------------------------------------------------------------------
\* The numbers of the pieces that an item has to be sent in: of the chunks that
\* begin before the end of the file.
Indices(x) ==
    IF x \in File THEN {k \in 0 .. FileSize[x] : k * ChunkSize < FileSize[x]} ELSE {0}

\* What is delivered is what was sent: a message with its own bytes, a file
\* with all its chunks up to its last byte, in the order of the file although
\* packets of equal priority leave the queue in any order, and nothing twice.
Intact ==
    /\ \A i \in DOMAIN delivered :
          LET x == delivered[i].of parts == delivered[i].parts IN
          /\ x \in sent
          /\ \A n \in DOMAIN parts : parts[n] = [of |-> x, index |-> n - 1, whole |-> TRUE]
          /\ {n - 1 : n \in DOMAIN parts} = Indices(x)
    /\ \A i, j \in DOMAIN delivered : delivered[i].of = delivered[j].of => i = j

OnTheWay(x, k) ==
    \E units \in {stream, receive_buffer} : \E i \in DOMAIN units :
        units[i][2] = 1 /\ units[i][1].of = x /\ units[i][1].index = k

Stored(x, k) ==
    \E f \in FileId : \E i \in DOMAIN file_reassembly_map[f] :
        i = k /\ file_reassembly_map[f][i].of = x

Places(x, k) ==
    {place \in {"queue", "wire", "stored", "delivered"} :
        \/ place = "queue" /\ \E p \in send_queue : p.of = x /\ p.index = k
        \/ place = "wire" /\ OnTheWay(x, k)
        \/ place = "stored" /\ Stored(x, k)
        \/ place = "delivered" /\ \E i \in DOMAIN delivered : delivered[i].of = x}

\* While the connection lasts every part of what was sent is in one place: in
\* the queue, on its way, among the chunks of an incomplete file, or delivered.
NothingLost ==
    link = "up" => \A x \in sent : \A k \in Indices(x) :
        \E place \in Places(x, k) : Places(x, k) = {place}

\* The reassembly map holds incomplete files only: no entry outlives its file.
ReassemblyIncomplete ==
    \A f \in FileId : \A k \in DOMAIN file_reassembly_map[f] :
        LET part == file_reassembly_map[f][k] IN
        /\ \E i \in Indices(part.of) : i \notin DOMAIN file_reassembly_map[f]
        /\ \A i \in DOMAIN delivered : delivered[i].of # part.of

\* Everything that is sent is delivered unless the connection breaks, an empty
\* file excepted: it has no packet.
AllDelivered ==
    \A x \in Item : (x \in sent /\ Indices(x) # {})
        ~> (link = "down" \/ \E i \in DOMAIN delivered : delivered[i].of = x)
===============================================================================
