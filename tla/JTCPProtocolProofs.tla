--------------------------- MODULE JTCPProtocolProofs ---------------------------
(***************************************************************************)
(* What the protocol delivers, for any messages and files, any sizes and   *)
(* any pieces that recv returns: everything that is sent while the link is *)
(* up, intact and once, as long as no packet is longer than the length     *)
(* that SendRaw gets can say.                                              *)
(***************************************************************************)
EXTENDS JTCPProtocol, SequenceTheorems, FiniteSetTheorems, TLAPS

\* The sender lambdas cut the length of no packet.
Fits ==
    /\ \A m \in Message : MessageSize[m] < LenModulus
    /\ \A f \in File : ChunkHeader[f] + ChunkSize < LenModulus

-----------------------------------------------------------------------------
(* The units between the two objects.                                      *)

\* What was sent and not parsed yet: receive_buffer, then stream.
Total == Len(receive_buffer) + Len(stream)
Flow  == [i \in 1 .. Total |-> IF i <= Len(receive_buffer) THEN receive_buffer[i]
                               ELSE stream[i - Len(receive_buffer)]]

SizeOf(p) == HeaderSize + DataSize(p)

\* The n units of u are packets one after the other: around each unit there are
\* those of its packet, in their places.
Blocks(u, n) ==
    \A i \in 1 .. n :
        /\ u[i][2] <= SizeOf(u[i][1])
        /\ u[i][2] <= i
        /\ \A k \in 1 .. SizeOf(u[i][1]) :
              i - u[i][2] + k <= n => u[i - u[i][2] + k] = <<u[i][1], k>>

\* The last packet of u is complete, too.
Complete(u, n) == \A i \in 1 .. n : i - u[i][2] + SizeOf(u[i][1]) <= n

\* No unit of a packet is there twice.
Distinct(u, n) == \A i, j \in 1 .. n : u[i] = u[j] => i = j

\* The units are packets, all of them complete while the link is up; a packet
\* that is in the queue was not written as a whole.
FlowSound ==
    /\ Blocks(Flow, Total)
    /\ Distinct(Flow, Total)
    /\ link = "up" => Complete(Flow, Total)
    /\ \A p \in send_queue : \A i \in 1 .. Total : Flow[i] # <<p, SizeOf(p)>>

-----------------------------------------------------------------------------
(* The packets, wherever they are.                                         *)

Packets == send_queue \cup {Flow[i][1] : i \in 1 .. Total}

\* How many packets an item takes.
Parts(x) == IF x \in File THEN Chunks[x] ELSE 1

\* What packet k of item x looks like when x has identifier id[x] and was sent
\* with priority pr[x].
PacketOf(x, k, id, pr) ==
    [of |-> x, file_id |-> id[x], index |-> k, total |-> Parts(x), priority |-> pr[x]]

\* Files have identifiers of their own, and all packets and chunks go by them.
Labelled(id, pr) ==
    /\ \A m \in Message : id[m] = 0
    /\ \A f \in File \cap sent : id[f] \in 1 .. next_file_id - 1
    /\ \A f, g \in File \cap sent : id[f] = id[g] => f = g
    /\ \A p \in Packets : /\ p.of \in sent /\ p.index < Parts(p.of)
                          /\ p = PacketOf(p.of, p.index, id, pr)
    /\ \A f \in FileId : \A k \in DOMAIN file_reassembly_map[f] :
          LET c == file_reassembly_map[f][k] IN
          /\ c.of \in File \cap sent /\ id[c.of] = f /\ k < Chunks[c.of]
          /\ c = [of |-> c.of, index |-> k, whole |-> TRUE]

LabelsSound == \E id \in [Item -> FileId \cup {0}], pr \in [Item -> Nat] : Labelled(id, pr)

\* What was delivered is nowhere else, and a chunk that was stored is not on its
\* way any more.
NothingTwice ==
    /\ \A p \in Packets : p.of \in File => p.index \notin DOMAIN file_reassembly_map[p.file_id]
    /\ \A i \in DOMAIN delivered :
          /\ \A p \in Packets : p.of # delivered[i].of
          /\ \A f \in FileId : \A k \in DOMAIN file_reassembly_map[f] :
                file_reassembly_map[f][k].of # delivered[i].of

\* While the link is up each part of what was sent is somewhere.
Somewhere(x, k) ==
    \/ \E p \in Packets : p.of = x /\ p.index = k
    \/ Stored(x, k)
    \/ \E i \in DOMAIN delivered : delivered[i].of = x

PartsKept ==
    link = "up" => \A x \in sent : \A k \in Nat : k < Parts(x) => Somewhere(x, k)

\* The identifiers are counted, and a file that is not complete lacks a chunk.
IdsCounted == next_file_id = Cardinality(sent \cap File) + 1

LacksChunk ==
    \A f \in FileId : \A k \in DOMAIN file_reassembly_map[f] :
        Cardinality(DOMAIN file_reassembly_map[f]) < Chunks[file_reassembly_map[f][k].of]

\* What is delivered is what was sent, as far as sendFile counts the chunks.
IntactParts ==
    /\ \A i \in DOMAIN delivered :
          /\ delivered[i].of \in sent
          /\ delivered[i].parts =
                [n \in 1 .. Parts(delivered[i].of) |->
                    [of |-> delivered[i].of, index |-> n - 1, whole |-> TRUE]]
    /\ \A i, j \in DOMAIN delivered : delivered[i].of = delivered[j].of => i = j

ProtocolInv ==
    /\ Fits
    /\ TypeOK
    /\ FlowSound
    /\ LabelsSound
    /\ NothingTwice
    /\ PartsKept
    /\ IdsCounted
    /\ LacksChunk
    /\ IntactParts

-----------------------------------------------------------------------------
(* Sequences of units, apart from the state.                               *)

\* No chunk is longer than FILE_CHUNK_SIZE.
LEMMA ChunkLengthNat ==
    ASSUME NEW f \in File, NEW i \in Nat
    PROVE  ChunkLength(f, i) \in 0 .. ChunkSize
  BY SizeAssumption DEF ChunkLength

\* The data of a packet.
LEMMA DataSizeNat ==
    ASSUME NEW p \in Packet
    PROVE  /\ DataSize(p) \in Nat
           /\ p.of \in File => DataSize(p) <= ChunkHeader[p.of] + ChunkSize
<1>1. /\ p.of \in Message \/ p.of \in File
      /\ p.index \in Nat
  BY DEF Packet, Item
<1>2. CASE p.of \in Message
  BY <1>2, SizeAssumption DEF DataSize
<1>3. CASE p.of \in File
  <2>1. p.of \notin Message
    BY <1>3, SizeAssumption
  <2>2. ChunkLength(p.of, p.index) \in 0 .. ChunkSize
    BY <1>1, <1>3, ChunkLengthNat
  <2>3. ChunkHeader[p.of] \in Nat /\ ChunkSize \in Nat
    BY <1>3, SizeAssumption
  <2> QED
    BY <2>1, <2>2, <2>3 DEF DataSize
<1> QED
  BY <1>1, <1>2, <1>3

\* A packet has a header, and so at least one unit.
LEMMA SizeNat == \A p \in Packet : SizeOf(p) \in Nat \ {0}
  BY SizeAssumption, DataSizeNat DEF SizeOf

\* The length of no packet is cut.
LEMMA DataSizeFits ==
    ASSUME Fits, NEW p \in Packet
    PROVE  DataSize(p) % LenModulus = DataSize(p)
<1>1. DataSize(p) \in Nat /\ LenModulus \in Nat \ {0}
  BY DataSizeNat, SizeAssumption
<1>2. DataSize(p) < LenModulus
  <2>1. CASE p.of \in Message
    BY <2>1 DEF Fits, DataSize
  <2>2. CASE p.of \in File
    <3>1. DataSize(p) <= ChunkHeader[p.of] + ChunkSize
      BY <2>2, DataSizeNat
    <3>2. ChunkHeader[p.of] \in Nat /\ ChunkSize \in Nat
      BY <2>2, SizeAssumption
    <3> QED
      BY <1>1, <2>2, <3>1, <3>2 DEF Fits
  <2> QED
    BY <2>1, <2>2 DEF Packet, Item
<1> QED
  BY <1>1, <1>2

\* Units[n] are those of n units.
Units(n) == [1 .. n -> Unit]

\* The components of a unit.
LEMMA UnitType ==
    ASSUME NEW n \in Nat, NEW u \in Units(n), NEW i \in 1 .. n
    PROVE  /\ u[i][1] \in Packet /\ u[i][2] \in Nat \ {0} /\ u[i] = <<u[i][1], u[i][2]>>
           /\ SizeOf(u[i][1]) \in Nat \ {0}
<1>1. u[i] \in Unit
  BY DEF Units
<1>2. u[i][1] \in Packet /\ u[i][2] \in Nat \ {0} /\ u[i] = <<u[i][1], u[i][2]>>
  BY <1>1 DEF Unit
<1> QED
  BY <1>2, SizeNat

\* The first unit begins a packet, and what follows are the rest of it.
LEMMA FrontBlock ==
    ASSUME NEW n \in Nat, NEW u \in Units(n), Blocks(u, n), n > 0
    PROVE  /\ u[1][1] \in Packet
           /\ \A k \in 1 .. SizeOf(u[1][1]) : k <= n => u[k] = <<u[1][1], k>>
<1>1. 1 \in 1 .. n
  OBVIOUS
<1>2. u[1][1] \in Packet /\ u[1][2] \in Nat \ {0} /\ SizeOf(u[1][1]) \in Nat
  BY <1>1, UnitType
<1>3. u[1][2] <= 1
  BY <1>1 DEF Blocks
<1>4. u[1][2] = 1
  BY <1>2, <1>3
<1>5. \A k \in 1 .. SizeOf(u[1][1]) : 1 - 1 + k <= n => u[1 - 1 + k] = <<u[1][1], k>>
  BY <1>1, <1>4 DEF Blocks
<1> QED
  BY <1>2, <1>5

\* What is left when units are thrown away at the end.
LEMMA CutBlocks ==
    ASSUME NEW n \in Nat, NEW u \in Units(n), NEW m \in 0 .. n, NEW w \in Units(m),
           Blocks(u, n), Distinct(u, n), \A i \in 1 .. m : w[i] = u[i]
    PROVE  Blocks(w, m) /\ Distinct(w, m)
<1>1. Distinct(w, m)
  BY DEF Distinct
<1>2. ASSUME NEW i \in 1 .. m
      PROVE  /\ w[i][2] <= SizeOf(w[i][1]) /\ w[i][2] <= i
             /\ \A k \in 1 .. SizeOf(w[i][1]) :
                   i - w[i][2] + k <= m => w[i - w[i][2] + k] = <<w[i][1], k>>
  <2>1. i \in 1 .. n /\ w[i] = u[i]
    OBVIOUS
  <2>2. u[i][2] \in Nat \ {0} /\ SizeOf(u[i][1]) \in Nat
    BY <2>1, UnitType
  <2>3. u[i][2] <= SizeOf(u[i][1]) /\ u[i][2] <= i
    BY <2>1 DEF Blocks
  <2>4. ASSUME NEW k \in 1 .. SizeOf(u[i][1]), i - u[i][2] + k <= m
        PROVE  w[i - u[i][2] + k] = <<u[i][1], k>>
    <3>1. i - u[i][2] + k \in 1 .. m /\ i - u[i][2] + k <= n
      BY <2>2, <2>3, <2>4
    <3>2. u[i - u[i][2] + k] = <<u[i][1], k>>
      BY <2>1, <3>1 DEF Blocks
    <3> QED
      BY <3>1, <3>2
  <2> QED
    BY <2>1, <2>3, <2>4
<1> QED
  BY <1>1, <1>2 DEF Blocks

\* What is left when the first packet is taken away.
LEMMA DropBlock ==
    ASSUME NEW n \in Nat, NEW u \in Units(n), Blocks(u, n), Distinct(u, n), n > 0,
           NEW s \in Nat, s = SizeOf(u[1][1]), s <= n,
           NEW m \in Nat, m = n - s, NEW w \in Units(m),
           \A i \in 1 .. m : w[i] = u[s + i]
    PROVE  /\ Blocks(w, m) /\ Distinct(w, m)
           /\ Complete(u, n) => Complete(w, m)
           /\ \A i \in 1 .. m : w[i][1] # u[1][1]
           /\ \A i \in 1 .. n : u[i][1] # u[1][1] => i > s
<1> DEFINE p == u[1][1]
<1>1. p \in Packet /\ \A k \in 1 .. s : u[k] = <<p, k>>
  BY FrontBlock
<1> HIDE DEF p
<1>2. ASSUME NEW i \in 1 .. n, u[i][1] = p
      PROVE  i <= s
  <2>1. u[i][2] \in 1 .. s /\ u[i] = <<p, u[i][2]>>
    BY <1>2, UnitType DEF Blocks, p
  <2>2. u[u[i][2]] = u[i] /\ u[i][2] \in 1 .. n
    BY <1>1, <2>1
  <2>3. u[i][2] = i
    BY <2>2 DEF Distinct
  <2> QED
    BY <2>1, <2>3
<1>3. ASSUME NEW i \in 1 .. m, NEW j \in 1 .. n, j = s + i
      PROVE  /\ w[i] = u[j] /\ u[j][1] # p
             /\ u[j][2] \in Nat \ {0} /\ SizeOf(u[j][1]) \in Nat
             /\ u[j][2] <= SizeOf(u[j][1]) /\ u[j][2] <= i
  <2>1. w[i] = u[j]
    BY <1>3
  <2>2. u[j][1] # p
    BY <1>2, <1>3
  <2>3. u[j][2] \in Nat \ {0} /\ SizeOf(u[j][1]) \in Nat
    BY UnitType
  <2>4. /\ u[j][2] <= SizeOf(u[j][1]) /\ u[j][2] <= j
        /\ \A k \in 1 .. SizeOf(u[j][1]) :
              j - u[j][2] + k <= n => u[j - u[j][2] + k] = <<u[j][1], k>>
    BY DEF Blocks
  <2>5. CASE u[j][2] > i
    <3> DEFINE b == j - u[j][2] + 1
    <3>1. b \in 1 .. s /\ 1 \in 1 .. SizeOf(u[j][1]) /\ b <= n
      <4>1. PICK d \in Nat \ {0}, z \in Nat :
               d = u[j][2] /\ z = SizeOf(u[j][1]) /\ d <= z /\ d <= j /\ d > i
        BY <2>3, <2>4, <2>5
      <4>2. j - d + 1 \in 1 .. s /\ 1 \in 1 .. z /\ j - d + 1 <= n
        BY <1>3, <4>1
      <4> QED
        BY <4>1, <4>2
    <3>2. u[b] = <<u[j][1], 1>>
      BY <2>4, <3>1
    <3>3. u[b] = <<p, b>>
      BY <1>1, <3>1
    <3> QED
      BY <2>2, <3>2, <3>3
  <2> QED
    BY <2>1, <2>2, <2>3, <2>4, <2>5
<1>4. Distinct(w, m)
  <2> SUFFICES ASSUME NEW i \in 1 .. m, NEW j \in 1 .. m, w[i] = w[j]
               PROVE  i = j
    BY DEF Distinct
  <2>1. s + i \in 1 .. n /\ s + j \in 1 .. n
    OBVIOUS
  <2>2. s + i = s + j
    BY <2>1 DEF Distinct
  <2> QED
    BY <2>2
<1>5. Blocks(w, m)
  <2> SUFFICES ASSUME NEW i \in 1 .. m
               PROVE  /\ w[i][2] <= SizeOf(w[i][1]) /\ w[i][2] <= i
                      /\ \A k \in 1 .. SizeOf(w[i][1]) :
                            i - w[i][2] + k <= m => w[i - w[i][2] + k] = <<w[i][1], k>>
    BY DEF Blocks
  <2>1. PICK j \in 1 .. n : j = s + i
    OBVIOUS
  <2>2. /\ w[i] = u[j] /\ u[j][2] \in Nat \ {0} /\ SizeOf(u[j][1]) \in Nat
        /\ u[j][2] <= SizeOf(u[j][1]) /\ u[j][2] <= i
    BY <1>3, <2>1
  <2>3. \A k \in 1 .. SizeOf(u[j][1]) :
           j - u[j][2] + k <= n => u[j - u[j][2] + k] = <<u[j][1], k>>
    BY DEF Blocks
  <2>4. ASSUME NEW k \in 1 .. SizeOf(u[j][1]), i - u[j][2] + k <= m
        PROVE  w[i - u[j][2] + k] = <<u[j][1], k>>
    <3>1. PICK l \in 1 .. m : l = i - u[j][2] + k
      BY <2>2, <2>4
    <3>2. w[l] = u[s + l]
      OBVIOUS
    <3>3. s + l = j - u[j][2] + k /\ j - u[j][2] + k <= n
      BY <2>1, <2>2, <3>1
    <3> QED
      BY <2>2, <2>3, <3>1, <3>2, <3>3
  <2> QED
    BY <2>2, <2>4
<1>6. ASSUME Complete(u, n)
      PROVE  Complete(w, m)
  <2> SUFFICES ASSUME NEW i \in 1 .. m
               PROVE  i - w[i][2] + SizeOf(w[i][1]) <= m
    BY DEF Complete
  <2>1. PICK j \in 1 .. n : j = s + i
    OBVIOUS
  <2>2. j - u[j][2] + SizeOf(u[j][1]) <= n
    BY <1>6 DEF Complete
  <2>3. w[i] = u[j] /\ u[j][2] \in Nat /\ SizeOf(u[j][1]) \in Nat
    BY <1>3, <2>1
  <2> QED
    BY <2>1, <2>2, <2>3
<1>7. ASSUME NEW i \in 1 .. n, u[i][1] # p
      PROVE  i > s
  <2>1. CASE i <= s
    BY <1>1, <1>7, <2>1
  <2> QED
    BY <2>1
<1>8. ASSUME NEW i \in 1 .. m
      PROVE  w[i][1] # p
  <2>1. PICK j \in 1 .. n : j = s + i
    OBVIOUS
  <2> QED
    BY <1>3, <2>1
<1> QED
  BY <1>4, <1>5, <1>6, <1>7, <1>8 DEF p

\* A packet that is written follows the others.
LEMMA AddBlock ==
    ASSUME NEW n \in Nat, NEW u \in Units(n), Blocks(u, n), Distinct(u, n), Complete(u, n),
           NEW p \in Packet, NEW s \in Nat, s = SizeOf(p),
           \A i \in 1 .. n : u[i][1] # p,
           NEW w \in Units(n + s),
           \A i \in 1 .. n : w[i] = u[i],
           \A k \in 1 .. s : w[n + k] = <<p, k>>
    PROVE  Blocks(w, n + s) /\ Distinct(w, n + s) /\ Complete(w, n + s)
<1>1. ASSUME NEW i \in 1 .. n
      PROVE  /\ w[i] = u[i] /\ u[i][1] # p
             /\ u[i][2] \in Nat \ {0} /\ SizeOf(u[i][1]) \in Nat
             /\ u[i][2] <= SizeOf(u[i][1]) /\ u[i][2] <= i
             /\ i - u[i][2] + SizeOf(u[i][1]) <= n
             /\ \A k \in 1 .. SizeOf(u[i][1]) : u[i - u[i][2] + k] = <<u[i][1], k>>
  <2>1. u[i][2] \in Nat \ {0} /\ SizeOf(u[i][1]) \in Nat
    BY UnitType
  <2>2. i - u[i][2] + SizeOf(u[i][1]) <= n
    BY DEF Complete
  <2>3. u[i][2] <= SizeOf(u[i][1]) /\ u[i][2] <= i
    BY DEF Blocks
  <2>4. ASSUME NEW k \in 1 .. SizeOf(u[i][1])
        PROVE  u[i - u[i][2] + k] = <<u[i][1], k>>
    <3>1. i - u[i][2] + k <= n
      BY <2>1, <2>2
    <3> QED
      BY <3>1 DEF Blocks
  <2> QED
    BY <2>1, <2>2, <2>3, <2>4
<1>2. ASSUME NEW i \in 1 .. n + s, i > n
      PROVE  /\ i - n \in 1 .. s /\ w[i] = <<p, i - n>>
  <2>1. i - n \in 1 .. s /\ n + (i - n) = i
    BY <1>2
  <2> QED
    BY <2>1
<1>3. Blocks(w, n + s)
  <2> SUFFICES ASSUME NEW i \in 1 .. n + s
               PROVE  /\ w[i][2] <= SizeOf(w[i][1]) /\ w[i][2] <= i
                      /\ \A k \in 1 .. SizeOf(w[i][1]) :
                            i - w[i][2] + k <= n + s => w[i - w[i][2] + k] = <<w[i][1], k>>
    BY DEF Blocks
  <2>1. CASE i <= n
    <3>0. i \in 1 .. n
      BY <2>1
    <3>1. ASSUME NEW k \in 1 .. SizeOf(u[i][1])
          PROVE  w[i - u[i][2] + k] = <<u[i][1], k>>
      <4>1. i - u[i][2] + k \in 1 .. n
        BY <1>1, <3>0
      <4> QED
        BY <1>1, <3>0, <4>1
    <3> QED
      BY <1>1, <3>0, <3>1
  <2>2. CASE i > n
    <3>1. w[i][1] = p /\ w[i][2] = i - n /\ i - n \in 1 .. s
      BY <1>2, <2>2
    <3>2. \A k \in 1 .. s : i - (i - n) + k = n + k
      BY <2>2
    <3> QED
      BY SMTT(30), <3>1, <3>2
  <2> QED
    BY <2>1, <2>2
<1>4. Distinct(w, n + s)
  <2> SUFFICES ASSUME NEW i \in 1 .. n + s, NEW j \in 1 .. n + s, w[i] = w[j]
               PROVE  i = j
    BY DEF Distinct
  <2>1. CASE i <= n /\ j <= n
    BY <2>1 DEF Distinct
  <2>2. CASE i > n /\ j > n
    <3>1. i - n = j - n
      BY <1>2, <2>2
    <3> QED
      BY <3>1
  <2>3. CASE i <= n /\ j > n
    BY <1>1, <1>2, <2>3
  <2>4. CASE i > n /\ j <= n
    BY <1>1, <1>2, <2>4
  <2> QED
    BY <2>1, <2>2, <2>3, <2>4
<1>5. Complete(w, n + s)
  <2> SUFFICES ASSUME NEW i \in 1 .. n + s
               PROVE  i - w[i][2] + SizeOf(w[i][1]) <= n + s
    BY DEF Complete
  <2>1. CASE i <= n
    BY <1>1, <2>1
  <2>2. CASE i > n
    BY <1>2, <2>2
  <2> QED
    BY <2>1, <2>2
<1> QED
  BY <1>3, <1>4, <1>5

-----------------------------------------------------------------------------
(* What the steps do to the flow.                                          *)

\* Where the elements of two sequences are in their concatenation.
LEMMA Joined ==
    ASSUME NEW S, NEW s \in Seq(S), NEW t \in Seq(S)
    PROVE  /\ s \o t \in Seq(S) /\ Len(s) \in Nat /\ Len(t) \in Nat
           /\ Len(s \o t) = Len(s) + Len(t)
           /\ \A j \in 1 .. Len(s) : (s \o t)[j] = s[j]
           /\ \A j \in 1 .. Len(t) : (s \o t)[Len(s) + j] = t[j]
<1> DEFINE v == s \o t
<1>1. Len(s) \in Nat /\ Len(t) \in Nat /\ v \in Seq(S)
  BY LenProperties, ConcatProperties
<1>2. /\ Len(v) = Len(s) + Len(t)
      /\ \A i \in 1 .. Len(s) + Len(t) : v[i] = IF i <= Len(s) THEN s[i] ELSE t[i - Len(s)]
  BY ConcatProperties
<1> HIDE DEF v
<1>3. \A j \in 1 .. Len(s) : v[j] = s[j]
  BY <1>1, <1>2
<1>4. \A j \in 1 .. Len(t) : v[Len(s) + j] = t[j]
  BY SMTT(30), <1>1, <1>2
<1> QED
  BY <1>1, <1>2, <1>3, <1>4 DEF v

\* The two parts of a sequence that is cut after n elements.
LEMMA Cut ==
    ASSUME NEW S, NEW s \in Seq(S), NEW n \in Nat, n <= Len(s)
    PROVE  /\ SubSeq(s, 1, n) \in Seq(S) /\ Len(SubSeq(s, 1, n)) = n
           /\ \A j \in 1 .. n : SubSeq(s, 1, n)[j] = s[j]
           /\ SubSeq(s, n + 1, Len(s)) \in Seq(S)
           /\ Len(SubSeq(s, n + 1, Len(s))) = Len(s) - n
           /\ \A j \in 1 .. Len(s) - n : SubSeq(s, n + 1, Len(s))[j] = s[n + j]
<1>1. Len(s) \in Nat
  BY LenProperties
<1>2. \A i \in 1 .. Len(s) : s[i] \in S
  BY <1>1, ElementOfSeq
<1>3. SubSeq(s, 1, n) \in Seq(S)
  <2>1. \A i \in 1 .. n : s[i] \in S
    BY <1>1, <1>2
  <2> QED
    BY <1>1, <2>1, SubSeqProperties
<1>4. SubSeq(s, n + 1, Len(s)) \in Seq(S)
  <2>1. \A i \in (n + 1) .. Len(s) : s[i] \in S
    BY <1>1, <1>2
  <2> QED
    BY <1>1, <2>1, SubSeqProperties
<1>5. Len(SubSeq(s, 1, n)) = n /\ \A j \in 1 .. n : SubSeq(s, 1, n)[j] = s[j]
  BY <1>1
<1>6. /\ Len(SubSeq(s, n + 1, Len(s))) = Len(s) - n
      /\ \A j \in 1 .. Len(s) - n : SubSeq(s, n + 1, Len(s))[j] = s[n + j]
  BY <1>1
<1> QED
  BY <1>3, <1>4, <1>5, <1>6

\* The flow made of a buffer and a stream.
Joint(b, x) == [i \in 1 .. Len(b) + Len(x) |-> IF i <= Len(b) THEN b[i] ELSE x[i - Len(b)]]

\* It has the units of both, in order.
LEMMA JointUnits ==
    ASSUME NEW b \in Seq(Unit), NEW x \in Seq(Unit)
    PROVE  /\ Len(b) \in Nat /\ Len(x) \in Nat
           /\ Joint(b, x) \in Units(Len(b) + Len(x))
           /\ \A i \in 1 .. Len(b) : Joint(b, x)[i] = b[i]
           /\ \A i \in 1 .. Len(x) : Joint(b, x)[Len(b) + i] = x[i]
<1>1. Len(b) \in Nat /\ Len(x) \in Nat
  BY LenProperties
<1>2. /\ \A i \in 1 .. Len(b) : b[i] \in Unit
      /\ \A i \in 1 .. Len(x) : x[i] \in Unit
  BY <1>1, ElementOfSeq
<1>3. /\ \A i \in 1 .. Len(b) : Joint(b, x)[i] = b[i]
      /\ \A i \in 1 .. Len(x) : Joint(b, x)[Len(b) + i] = x[i]
  BY <1>1 DEF Joint
<1>4. ASSUME NEW i \in 1 .. Len(b) + Len(x)
      PROVE  (IF i <= Len(b) THEN b[i] ELSE x[i - Len(b)]) \in Unit
  <2>1. CASE i <= Len(b)
    BY <1>1, <1>2, <2>1
  <2>2. CASE i > Len(b)
    <3>1. i - Len(b) \in 1 .. Len(x)
      BY <1>1, <2>2
    <3> QED
      BY <1>1, <1>2, <2>2, <3>1
  <2> QED
    BY <1>1, <2>1, <2>2
<1>5. Joint(b, x) \in Units(Len(b) + Len(x))
  BY <1>4 DEF Joint, Units
<1> QED
  BY <1>1, <1>3, <1>5

\* The state's own flow.
LEMMA FlowType ==
    ASSUME TypeOK
    PROVE  /\ Total \in Nat /\ Flow \in Units(Total)
           /\ Flow = Joint(receive_buffer, stream)
           /\ receive_buffer \in Seq(Unit) /\ stream \in Seq(Unit)
           /\ Len(receive_buffer) \in Nat /\ Len(stream) \in Nat
           /\ Total = Len(receive_buffer) + Len(stream)
<1>1. receive_buffer \in Seq(Unit) /\ stream \in Seq(Unit)
  BY DEF TypeOK
<1>2. Flow = Joint(receive_buffer, stream)
  BY DEF Flow, Total, Joint
<1> QED
  BY <1>1, <1>2, JointUnits DEF Total

\* recv moves units from the stream to the buffer.
LEMMA MovedUnits ==
    ASSUME NEW b \in Seq(Unit), NEW x \in Seq(Unit), NEW n \in Nat, n <= Len(x)
    PROVE  LET c == b \o SubSeq(x, 1, n)
               y == SubSeq(x, n + 1, Len(x))
           IN  /\ c \in Seq(Unit) /\ y \in Seq(Unit)
               /\ Len(c) + Len(y) = Len(b) + Len(x)
               /\ Joint(c, y) = Joint(b, x)
<1> DEFINE p == SubSeq(x, 1, n)
           c == b \o p
           y == SubSeq(x, n + 1, Len(x))
<1>1. /\ p \in Seq(Unit) /\ Len(p) = n /\ \A j \in 1 .. n : p[j] = x[j]
      /\ y \in Seq(Unit) /\ Len(y) = Len(x) - n /\ \A j \in 1 .. Len(x) - n : y[j] = x[n + j]
  BY Cut
<1> HIDE DEF p, y
<1>2. /\ c \in Seq(Unit) /\ Len(b) \in Nat /\ Len(c) = Len(b) + n
      /\ \A j \in 1 .. Len(b) : c[j] = b[j]
      /\ \A j \in 1 .. n : c[Len(b) + j] = p[j]
  <2>1. p \in Seq(Unit)
    BY <1>1
  <2>2. /\ c \in Seq(Unit) /\ Len(b) \in Nat /\ Len(c) = Len(b) + Len(p)
        /\ \A j \in 1 .. Len(b) : c[j] = b[j]
        /\ \A j \in 1 .. Len(p) : c[Len(b) + j] = p[j]
    BY <2>1, Joined
  <2> QED
    BY <1>1, <2>2
<1> HIDE DEF c
<1>3. Len(x) \in Nat /\ Len(c) + Len(y) = Len(b) + Len(x)
  BY <1>1, <1>2, LenProperties
<1>4. ASSUME NEW i \in 1 .. Len(b) + Len(x)
      PROVE  (IF i <= Len(c) THEN c[i] ELSE y[i - Len(c)])
                = (IF i <= Len(b) THEN b[i] ELSE x[i - Len(b)])
  <2>1. CASE i <= Len(b)
    BY <1>2, <1>3, <2>1
  <2>2. CASE i > Len(b) /\ i <= Len(c)
    <3>1. i - Len(b) \in 1 .. n /\ Len(b) + (i - Len(b)) = i
      BY <1>2, <1>3, <2>2
    <3>2. c[Len(b) + (i - Len(b))] = x[i - Len(b)]
      BY <1>1, <1>2, <3>1
    <3> QED
      BY <1>2, <1>3, <2>2, <3>1, <3>2
  <2>3. CASE i > Len(c)
    <3>1. i - Len(c) \in 1 .. Len(x) - n /\ n + (i - Len(c)) = i - Len(b)
      BY <1>2, <1>3, <2>3
    <3>2. y[i - Len(c)] = x[n + (i - Len(c))]
      BY <1>1, <3>1
    <3> QED
      BY <1>2, <1>3, <2>3, <3>1, <3>2
  <2> QED
    BY <1>2, <1>3, <2>1, <2>2, <2>3
<1>5. Joint(c, y) = Joint(b, x)
  BY <1>3, <1>4 DEF Joint
<1> QED
  BY <1>1, <1>2, <1>3, <1>5 DEF c, p, y

\* A packet that is parsed leaves the buffer.
LEMMA ConsumedUnits ==
    ASSUME NEW b \in Seq(Unit), NEW x \in Seq(Unit), NEW n \in Nat, n <= Len(b)
    PROVE  LET c == SubSeq(b, n + 1, Len(b))
               m == Len(c) + Len(x)
           IN  /\ c \in Seq(Unit) /\ m \in Nat /\ m = Len(b) + Len(x) - n
               /\ \A i \in 1 .. m : Joint(c, x)[i] = Joint(b, x)[n + i]
<1> DEFINE c == SubSeq(b, n + 1, Len(b))
<1>1. c \in Seq(Unit) /\ Len(c) = Len(b) - n /\ \A j \in 1 .. Len(b) - n : c[j] = b[n + j]
  BY Cut
<1> HIDE DEF c
<1>2. /\ Len(b) \in Nat /\ Len(x) \in Nat
      /\ \A i \in 1 .. Len(b) : Joint(b, x)[i] = b[i]
      /\ \A i \in 1 .. Len(x) : Joint(b, x)[Len(b) + i] = x[i]
      /\ \A i \in 1 .. Len(c) : Joint(c, x)[i] = c[i]
      /\ \A i \in 1 .. Len(x) : Joint(c, x)[Len(c) + i] = x[i]
  BY <1>1, JointUnits
<1>3. ASSUME NEW i \in 1 .. Len(c) + Len(x)
      PROVE  Joint(c, x)[i] = Joint(b, x)[n + i]
  <2>1. CASE i <= Len(c)
    <3>1. i \in 1 .. Len(b) - n /\ n + i \in 1 .. Len(b)
      BY <1>1, <1>2, <2>1
    <3> QED
      BY <1>1, <1>2, <2>1, <3>1
  <2>2. CASE i > Len(c)
    <3>1. /\ i - Len(c) \in 1 .. Len(x) /\ Len(c) + (i - Len(c)) = i
          /\ Len(b) + (i - Len(c)) = n + i
      BY <1>1, <1>2, <2>2
    <3>2. /\ Joint(c, x)[Len(c) + (i - Len(c))] = x[i - Len(c)]
          /\ Joint(b, x)[Len(b) + (i - Len(c))] = x[i - Len(c)]
      BY <1>2, <3>1
    <3> QED
      BY <3>1, <3>2
  <2> QED
    BY <1>1, <1>2, <2>1, <2>2
<1>4. Len(c) + Len(x) \in Nat /\ Len(c) + Len(x) = Len(b) + Len(x) - n
  BY <1>1, <1>2
<1> QED
  BY <1>1, <1>3, <1>4 DEF c

\* A packet that is written comes last.
LEMMA WrittenUnits ==
    ASSUME NEW b \in Seq(Unit), NEW x \in Seq(Unit), NEW y \in Seq(Unit)
    PROVE  /\ x \o y \in Seq(Unit)
           /\ Len(b) + Len(x \o y) = Len(b) + Len(x) + Len(y)
           /\ \A i \in 1 .. Len(b) + Len(x) : Joint(b, x \o y)[i] = Joint(b, x)[i]
           /\ \A i \in 1 .. Len(y) : Joint(b, x \o y)[Len(b) + Len(x) + i] = y[i]
<1> DEFINE v == x \o y
<1>1. /\ v \in Seq(Unit) /\ Len(x) \in Nat /\ Len(y) \in Nat
      /\ Len(v) = Len(x) + Len(y)
      /\ \A j \in 1 .. Len(x) : v[j] = x[j]
      /\ \A j \in 1 .. Len(y) : v[Len(x) + j] = y[j]
  BY Joined
<1> HIDE DEF v
<1>2. /\ Len(b) \in Nat
      /\ \A i \in 1 .. Len(b) : Joint(b, x)[i] = b[i] /\ Joint(b, v)[i] = b[i]
      /\ \A i \in 1 .. Len(x) : Joint(b, x)[Len(b) + i] = x[i]
      /\ \A i \in 1 .. Len(v) : Joint(b, v)[Len(b) + i] = v[i]
  BY <1>1, JointUnits
<1>3. ASSUME NEW i \in 1 .. Len(b) + Len(x)
      PROVE  Joint(b, v)[i] = Joint(b, x)[i]
  <2>1. CASE i <= Len(b)
    BY <1>1, <1>2, <2>1
  <2>2. CASE i > Len(b)
    <3>1. /\ i - Len(b) \in 1 .. Len(x) /\ i - Len(b) \in 1 .. Len(v)
          /\ Len(b) + (i - Len(b)) = i
      BY <1>1, <1>2, <2>2
    <3>2. /\ Joint(b, v)[Len(b) + (i - Len(b))] = v[i - Len(b)]
          /\ Joint(b, x)[Len(b) + (i - Len(b))] = x[i - Len(b)]
      BY <1>2, <3>1
    <3> QED
      BY <1>1, <3>1, <3>2
  <2> QED
    BY <1>1, <1>2, <2>1, <2>2
<1>4. ASSUME NEW i \in 1 .. Len(y)
      PROVE  Joint(b, v)[Len(b) + Len(x) + i] = y[i]
  <2>1. Len(x) + i \in 1 .. Len(v) /\ Len(b) + Len(x) + i = Len(b) + (Len(x) + i)
    BY <1>1, <1>2
  <2> QED
    BY <1>1, <1>2, <2>1
<1> QED
  BY <1>1, <1>2, <1>3, <1>4 DEF v

\* What is left in the stream when its end is lost.
LEMMA LostUnits ==
    ASSUME NEW b \in Seq(Unit), NEW x \in Seq(Unit), NEW n \in Nat, n <= Len(x)
    PROVE  /\ SubSeq(x, 1, n) \in Seq(Unit)
           /\ Len(b) + Len(SubSeq(x, 1, n)) = Len(b) + n
           /\ \A i \in 1 .. Len(b) + n : Joint(b, SubSeq(x, 1, n))[i] = Joint(b, x)[i]
<1> DEFINE y == SubSeq(x, 1, n)
<1>1. y \in Seq(Unit) /\ Len(y) = n /\ \A j \in 1 .. n : y[j] = x[j]
  BY Cut
<1> HIDE DEF y
<1>2. /\ Len(b) \in Nat /\ Len(x) \in Nat
      /\ \A i \in 1 .. Len(b) : Joint(b, x)[i] = b[i] /\ Joint(b, y)[i] = b[i]
      /\ \A i \in 1 .. Len(x) : Joint(b, x)[Len(b) + i] = x[i]
      /\ \A i \in 1 .. Len(y) : Joint(b, y)[Len(b) + i] = y[i]
  BY <1>1, JointUnits
<1>3. ASSUME NEW i \in 1 .. Len(b) + n
      PROVE  Joint(b, y)[i] = Joint(b, x)[i]
  <2>1. CASE i <= Len(b)
    BY <1>2, <2>1
  <2>2. CASE i > Len(b)
    <3>1. /\ i - Len(b) \in 1 .. n /\ i - Len(b) \in 1 .. Len(x)
          /\ Len(b) + (i - Len(b)) = i
      BY <1>1, <1>2, <2>2
    <3>2. /\ Joint(b, y)[Len(b) + (i - Len(b))] = y[i - Len(b)]
          /\ Joint(b, x)[Len(b) + (i - Len(b))] = x[i - Len(b)]
      BY <1>1, <1>2, <3>1
    <3> QED
      BY <1>1, <3>1, <3>2
  <2> QED
    BY <1>2, <2>1, <2>2
<1> QED
  BY <1>1, <1>3 DEF y

-----------------------------------------------------------------------------
(* The steps keep the flow in order, and packets go nowhere else.          *)

\* What sendPacket writes of a packet that fits.
LEMMA WireUnits ==
    ASSUME Fits, NEW p \in Packet
    PROVE  /\ Wire(p) \in Seq(Unit) /\ Len(Wire(p)) = SizeOf(p)
           /\ \A k \in 1 .. SizeOf(p) : Wire(p)[k] = <<p, k>>
<1>1. SizeOf(p) \in Nat
  BY SizeNat
<1>2. Wire(p) = [k \in 1 .. SizeOf(p) |-> <<p, k>>]
  BY DataSizeFits DEF Wire, SizeOf
<1>3. \A k \in 1 .. SizeOf(p) : <<p, k>> \in Unit
  BY <1>1 DEF Unit
<1> QED
  BY <1>1, <1>2, <1>3

\* What is in the queue while the link is up was not written at all.
LEMMA QueueApart ==
    ASSUME TypeOK, FlowSound, link = "up", NEW p \in send_queue, NEW i \in 1 .. Total
    PROVE  Flow[i][1] # p
<1> SUFFICES ASSUME Flow[i][1] = p
             PROVE  FALSE
  OBVIOUS
<1>1. /\ Total \in Nat /\ Flow \in Units(Total)
      /\ Flow[i][2] \in Nat \ {0} /\ SizeOf(p) \in Nat \ {0}
  BY FlowType, UnitType
<1> DEFINE j == i - Flow[i][2] + SizeOf(p)
<1>2. j <= Total /\ Flow[i][2] <= i
  BY DEF FlowSound, Complete, Blocks
<1>3. j \in 1 .. Total
  BY <1>1, <1>2
<1>4. \A k \in 1 .. SizeOf(p) : i - Flow[i][2] + k <= Total => Flow[i - Flow[i][2] + k] = <<p, k>>
  BY DEF FlowSound, Blocks
<1>5. Flow[j] = <<p, SizeOf(p)>>
  BY <1>1, <1>2, <1>4
<1> QED
  BY <1>3, <1>5 DEF FlowSound

\* recv changes neither the flow nor the packets.
LEMMA ReceiveFlow ==
    ASSUME TypeOK, FlowSound, Receive
    PROVE  /\ receive_buffer' \in Seq(Unit) /\ stream' \in Seq(Unit)
           /\ FlowSound' /\ Packets' = Packets
<1>1. PICK n \in 1 .. RecvMax :
         /\ n <= Len(stream)
         /\ receive_buffer' = receive_buffer \o SubSeq(stream, 1, n)
         /\ stream' = SubSeq(stream, n + 1, Len(stream))
  BY DEF Receive
<1>2. n \in Nat /\ receive_buffer \in Seq(Unit) /\ stream \in Seq(Unit)
  BY SizeAssumption DEF TypeOK
<1>3. /\ receive_buffer' \in Seq(Unit) /\ stream' \in Seq(Unit)
      /\ Len(receive_buffer') + Len(stream') = Len(receive_buffer) + Len(stream)
      /\ Joint(receive_buffer', stream') = Joint(receive_buffer, stream)
  BY <1>1, <1>2, MovedUnits
<1>4. Total' = Total /\ Flow' = Flow
  BY <1>3 DEF Total, Flow, Joint
<1>5. UNCHANGED <<send_queue, link>>
  BY DEF Receive, sender_vars
<1> QED
  BY <1>3, <1>4, <1>5 DEF FlowSound, Blocks, Distinct, Complete, Packets

\* A packet that is written completely goes from the queue to the flow.
LEMMA SendFlow ==
    ASSUME Fits, TypeOK, FlowSound, ProcessSendData
    PROVE  /\ send_queue' \subseteq Packet /\ stream' \in Seq(Unit)
           /\ FlowSound' /\ Packets' = Packets
<1>1. PICK p \in send_queue :
         send_queue' = send_queue \ {p} /\ stream' = stream \o Wire(p)
  BY DEF ProcessSendData, Top
<1>2. link = "up" /\ link' = link /\ receive_buffer' = receive_buffer
  BY DEF ProcessSendData, receiver_vars
<1>3. p \in Packet /\ send_queue' \subseteq Packet
  BY <1>1 DEF TypeOK
<1>4. PICK s \in Nat : s = SizeOf(p) /\ s # 0
  BY <1>3, SizeNat
<1>5. PICK y \in Seq(Unit) :
         y = Wire(p) /\ Len(y) = s /\ \A k \in 1 .. s : y[k] = <<p, k>>
  BY <1>3, <1>4, WireUnits
<1>6. /\ Total \in Nat /\ Flow \in Units(Total)
      /\ Flow = Joint(receive_buffer, stream)
      /\ receive_buffer \in Seq(Unit) /\ stream \in Seq(Unit)
      /\ Len(receive_buffer) \in Nat /\ Len(stream) \in Nat
      /\ Total = Len(receive_buffer) + Len(stream)
  BY FlowType
<1>7. /\ stream' \in Seq(Unit)
      /\ Len(receive_buffer) + Len(stream') = Total + s
      /\ \A i \in 1 .. Total : Joint(receive_buffer, stream')[i] = Flow[i]
      /\ \A i \in 1 .. s : Joint(receive_buffer, stream')[Total + i] = y[i]
  <2>1. stream' = stream \o y
    BY <1>1, <1>5
  <2>2. /\ stream' \in Seq(Unit)
        /\ Len(receive_buffer) + Len(stream') = Len(receive_buffer) + Len(stream) + Len(y)
        /\ \A i \in 1 .. Len(receive_buffer) + Len(stream) :
              Joint(receive_buffer, stream')[i] = Joint(receive_buffer, stream)[i]
        /\ \A i \in 1 .. Len(y) :
              Joint(receive_buffer, stream')[Len(receive_buffer) + Len(stream) + i] = y[i]
    BY <1>6, <2>1, WrittenUnits
  <2> QED
    BY <1>5, <1>6, <2>2
<1>8. /\ Total' = Total + s /\ Flow' \in Units(Total + s)
      /\ \A i \in 1 .. Total : Flow'[i] = Flow[i]
      /\ \A k \in 1 .. s : Flow'[Total + k] = <<p, k>>
  <2>1. Total' = Total + s /\ Flow' = Joint(receive_buffer, stream')
    BY <1>2, <1>7 DEF Total, Flow, Joint
  <2>2. Joint(receive_buffer, stream') \in Units(Total + s)
    BY <1>6, <1>7, JointUnits
  <2> QED
    BY <1>5, <1>7, <2>1, <2>2
<1>9. \A i \in 1 .. Total : Flow[i][1] # p
  BY <1>2, QueueApart
<1>10. Blocks(Flow', Total + s) /\ Distinct(Flow', Total + s) /\ Complete(Flow', Total + s)
  BY ZenonT(60), <1>2, <1>3, <1>4, <1>6, <1>8, <1>9, AddBlock DEF FlowSound
<1>11. \A i \in 1 .. Total + s : i > Total => Flow'[i][1] = p
  <2> SUFFICES ASSUME NEW i \in 1 .. Total + s, i > Total
               PROVE  Flow'[i][1] = p
    OBVIOUS
  <2>1. i - Total \in 1 .. s /\ Total + (i - Total) = i
    BY <1>6
  <2>2. Flow'[Total + (i - Total)] = <<p, i - Total>>
    BY <1>8, <2>1
  <2> QED
    BY <2>1, <2>2
<1>12. ASSUME NEW q \in send_queue', NEW i \in 1 .. Total + s
       PROVE  Flow'[i] # <<q, SizeOf(q)>>
  <2>1. q \in send_queue /\ q # p
    BY <1>1
  <2>2. CASE i <= Total
    BY <1>6, <1>8, <2>1, <2>2 DEF FlowSound
  <2>3. CASE i > Total
    BY <1>11, <2>1, <2>3
  <2> QED
    BY <1>6, <2>2, <2>3
<1>13. FlowSound'
  <2>1. \A q \in send_queue' : SizeOf(q)' = SizeOf(q)
    BY DEF SizeOf
  <2>2. Blocks(Flow, Total)' /\ Distinct(Flow, Total)' /\ Complete(Flow, Total)'
    BY <1>8, <1>10 DEF Blocks, Distinct, Complete, SizeOf
  <2> QED
    BY <1>8, <1>12, <2>2 DEF FlowSound, SizeOf
<1>14. Packets' = Packets
  <2>1. ASSUME NEW q \in Packets'
        PROVE  q \in Packets
    <3>1. CASE q \in send_queue'
      BY <1>1, <3>1 DEF Packets
    <3>2. ASSUME NEW i \in 1 .. Total + s, q = Flow'[i][1]
          PROVE  q \in Packets
      <4>1. CASE i <= Total
        <5>1. i \in 1 .. Total
          BY <1>6, <4>1
        <5>2. q = Flow[i][1]
          BY <1>8, <3>2, <5>1
        <5> QED
          BY <5>1, <5>2, Zenon DEF Packets
      <4>2. CASE i > Total
        <5>1. q = p
          BY <1>11, <3>2, <4>2
        <5> QED
          BY <1>2, <5>1, Zenon DEF Packets
      <4> QED
        BY <1>6, <4>1, <4>2
    <3> QED
      BY <1>8, <2>1, <3>1, <3>2 DEF Packets
  <2>2. ASSUME NEW q \in Packets
        PROVE  q \in Packets'
    <3>1. CASE q = p
      <4>1. Total + 1 \in 1 .. Total + s /\ 1 \in 1 .. s
        BY <1>4, <1>6
      <4>2. Flow'[Total + 1] = <<p, 1>>
        BY <1>8, <4>1
      <4>3. Flow'[Total + 1][1] = p
        BY <4>2
      <4> QED
        BY <1>8, <3>1, <4>1, <4>3 DEF Packets
    <3>2. CASE q \in send_queue /\ q # p
      BY <1>1, <3>2 DEF Packets
    <3>3. ASSUME NEW i \in 1 .. Total, q = Flow[i][1]
          PROVE  q \in Packets'
      <4>1. i \in 1 .. Total + s /\ Flow'[i] = Flow[i]
        BY <1>6, <1>8
      <4> QED
        BY <1>8, <3>3, <4>1 DEF Packets
    <3> QED
      BY <2>2, <3>1, <3>2, <3>3 DEF Packets
  <2> QED
    BY <2>1, <2>2
<1> QED
  BY <1>3, <1>7, <1>13, <1>14

\* When a send fails the end of what was on its way is lost, at least the last
\* unit of the packet, which stays in the queue.
LEMMA FailFlow ==
    ASSUME Fits, TypeOK, FlowSound, ProcessSendData_Fail
    PROVE  /\ stream' \in Seq(Unit)
           /\ FlowSound' /\ Packets' \subseteq Packets
<1>0. PICK p \in Top : \E n \in 0 .. Len(stream \o Wire(p)) - 1 :
         stream' = SubSeq(stream \o Wire(p), 1, n)
  BY ZenonT(30) DEF ProcessSendData_Fail
<1>1. PICK n \in 0 .. Len(stream \o Wire(p)) - 1 : stream' = SubSeq(stream \o Wire(p), 1, n)
  BY <1>0
<1> p \in send_queue
  BY DEF Top
<1>2. /\ link = "up" /\ link' = "down" /\ send_queue' = send_queue
      /\ receive_buffer' = receive_buffer
  BY DEF ProcessSendData_Fail, receiver_vars, sender_vars
<1>3. p \in Packet
  BY DEF TypeOK
<1>4. PICK s \in Nat : s = SizeOf(p) /\ s # 0
  BY <1>3, SizeNat
<1>5. PICK y \in Seq(Unit) :
         y = Wire(p) /\ Len(y) = s /\ \A k \in 1 .. s : y[k] = <<p, k>>
  BY <1>3, <1>4, WireUnits
<1>6. /\ Total \in Nat /\ Flow \in Units(Total)
      /\ Flow = Joint(receive_buffer, stream)
      /\ receive_buffer \in Seq(Unit) /\ stream \in Seq(Unit)
      /\ Len(receive_buffer) \in Nat /\ Len(stream) \in Nat
      /\ Total = Len(receive_buffer) + Len(stream)
  BY FlowType
<1> DEFINE x == stream \o y
           w == Joint(receive_buffer, x)
<1>7. /\ x \in Seq(Unit)
      /\ Len(receive_buffer) + Len(x) = Len(receive_buffer) + Len(stream) + Len(y)
      /\ \A i \in 1 .. Len(receive_buffer) + Len(stream) :
            w[i] = Joint(receive_buffer, stream)[i]
      /\ \A i \in 1 .. Len(y) : w[Len(receive_buffer) + Len(stream) + i] = y[i]
  BY <1>6, WrittenUnits
<1> HIDE DEF x
<1>8. /\ Len(receive_buffer) + Len(x) = Total + s
      /\ w \in Units(Total + s)
      /\ \A i \in 1 .. Total : w[i] = Flow[i]
      /\ \A i \in 1 .. s : w[Total + i] = <<p, i>>
  <2>1. w \in Units(Len(receive_buffer) + Len(x))
    BY <1>6, <1>7, JointUnits
  <2> HIDE DEF w
  <2> QED
    BY <1>5, <1>6, <1>7, <2>1
<1> HIDE DEF w
<1>9. Blocks(w, Total + s) /\ Distinct(w, Total + s)
  <2>1. \A i \in 1 .. Total : Flow[i][1] # p
    BY <1>2, QueueApart
  <2> QED
    BY ZenonT(60), <1>2, <1>3, <1>4, <1>6, <1>8, <2>1, AddBlock DEF FlowSound
<1>10. /\ n \in Nat /\ n <= Len(x) /\ Len(receive_buffer) + n < Total + s
       /\ stream' = SubSeq(x, 1, n)
  <2>1. stream \o Wire(p) = x
    BY <1>5 DEF x
  <2>2. Len(x) \in Nat
    BY <1>7, LenProperties
  <2> QED
    BY <1>1, <1>6, <1>8, <2>1, <2>2
<1>11. PICK m \in 0 .. Total + s : m = Len(receive_buffer) + n /\ m < Total + s
  BY <1>6, <1>10
<1>12. /\ stream' \in Seq(Unit) /\ Total' = m /\ Flow' \in Units(m)
       /\ \A i \in 1 .. m : Flow'[i] = w[i]
  <2>1. /\ stream' \in Seq(Unit)
        /\ Len(receive_buffer) + Len(stream') = Len(receive_buffer) + n
        /\ \A i \in 1 .. Len(receive_buffer) + n :
              Joint(receive_buffer, stream')[i] = Joint(receive_buffer, x)[i]
    <3>1. /\ SubSeq(x, 1, n) \in Seq(Unit)
          /\ Len(receive_buffer) + Len(SubSeq(x, 1, n)) = Len(receive_buffer) + n
          /\ \A i \in 1 .. Len(receive_buffer) + n :
                Joint(receive_buffer, SubSeq(x, 1, n))[i] = Joint(receive_buffer, x)[i]
      BY SMTT(30), <1>6, <1>7, <1>10, LostUnits
    <3> QED
      BY <1>10, <3>1
  <2>2. Total' = m /\ Flow' = Joint(receive_buffer, stream')
    BY <1>2, <1>11, <2>1 DEF Total, Flow, Joint
  <2>3. Joint(receive_buffer, stream') \in Units(m)
    BY <1>6, <1>11, <2>1, JointUnits
  <2> QED
    BY <1>11, <2>1, <2>2, <2>3 DEF w
<1>13. Blocks(Flow', m) /\ Distinct(Flow', m)
  <2>1. Total + s \in Nat
    BY <1>6
  <2> QED
    BY <1>8, <1>9, <1>12, <2>1, CutBlocks
<1>14. ASSUME NEW i \in 1 .. m
       PROVE  \/ i \in 1 .. Total /\ Flow'[i] = Flow[i]
              \/ Flow'[i][1] = p /\ Flow'[i][2] < s
  <2>1. CASE i <= Total
    <3>1. i \in 1 .. Total
      BY <1>6, <2>1
    <3>2. Flow'[i] = Flow[i]
      BY <1>8, <1>12, <3>1
    <3> QED
      BY <3>1, <3>2
  <2>2. CASE i > Total
    <3>1. i - Total \in 1 .. s /\ i - Total < s /\ Total + (i - Total) = i /\ i \in 1 .. Total + s
      BY <1>6, <1>11, <2>2
    <3>2. w[Total + (i - Total)] = <<p, i - Total>>
      BY <1>8, <3>1
    <3> QED
      BY <1>12, <3>1, <3>2
  <2> QED
    BY <1>6, <2>1, <2>2
<1>15. ASSUME NEW q \in send_queue, NEW i \in 1 .. m
       PROVE  Flow'[i] # <<q, SizeOf(q)>>
  <2>1. CASE i \in 1 .. Total /\ Flow'[i] = Flow[i]
    BY <2>1 DEF FlowSound
  <2>2. CASE Flow'[i][1] = p /\ Flow'[i][2] < s
    BY <1>4, <2>2
  <2> QED
    BY <1>14, <2>1, <2>2
<1>16. FlowSound'
  <2>1. Blocks(Flow, Total)' /\ Distinct(Flow, Total)'
    BY <1>12, <1>13 DEF Blocks, Distinct, SizeOf
  <2> QED
    BY <1>2, <1>12, <1>15, <2>1 DEF FlowSound, SizeOf
<1>17. Packets' \subseteq Packets
  <2> SUFFICES ASSUME NEW q \in Packets'
               PROVE  q \in Packets
    OBVIOUS
  <2>1. CASE q \in send_queue
    BY <2>1 DEF Packets
  <2>2. ASSUME NEW i \in 1 .. m, q = Flow'[i][1]
        PROVE  q \in Packets
    BY <1>14, <2>2 DEF Packets
  <2> QED
    BY <1>2, <1>12, <2>1, <2>2 DEF Packets
<1> QED
  BY <1>12, <1>16, <1>17

\* A packet that is parsed leaves the flow with all its units, which were those
\* that its sender wrote.
LEMMA ParseFlow ==
    ASSUME Fits, TypeOK, FlowSound, HasPacket, Consume(Size),
           UNCHANGED <<stream, send_queue, link>>
    PROVE  /\ receive_buffer' \in Seq(Unit)
           /\ Front \in Packet /\ Front \in Packets
           /\ FlowSound' /\ Packets' = Packets \ {Front}
           /\ FrontPart = [of |-> Front.of, index |-> Front.index, whole |-> TRUE]
<1> DEFINE p == Front
<1>1. /\ Total \in Nat /\ Flow \in Units(Total)
      /\ Flow = Joint(receive_buffer, stream)
      /\ receive_buffer \in Seq(Unit) /\ stream \in Seq(Unit)
      /\ Len(receive_buffer) \in Nat /\ Len(stream) \in Nat
      /\ Total = Len(receive_buffer) + Len(stream)
  BY FlowType
<1>2. Len(receive_buffer) >= HeaderSize /\ Size <= Len(receive_buffer)
  BY DEF HasPacket, Framed
<1>3. HeaderSize \in Nat /\ HeaderSize > 0
  BY SizeAssumption
<1>4. \A i \in 1 .. Len(receive_buffer) : Flow[i] = receive_buffer[i]
  BY <1>1, JointUnits
<1>5. /\ 1 \in 1 .. Len(receive_buffer) /\ 1 \in 1 .. Total /\ Total > 0
      /\ Flow[1][1] = p
  BY <1>1, <1>2, <1>3, <1>4 DEF Front
<1>6. /\ p \in Packet
      /\ \A k \in 1 .. SizeOf(p) : k <= Total => Flow[k] = <<p, k>>
  BY <1>1, <1>5, FrontBlock DEF FlowSound
<1> HIDE DEF p
<1>7. PICK s \in Nat : s = SizeOf(p) /\ s # 0 /\ s <= Len(receive_buffer) /\ s <= Total /\ s = Size
  <2>1. SizeOf(p) \in Nat \ {0}
    BY <1>6, SizeNat
  <2>2. Size = SizeOf(p)
    BY DEF Size, SizeOf, p
  <2> QED
    BY <1>1, <1>2, <2>1, <2>2
<1>8. \A k \in 1 .. s : Flow[k] = <<p, k>> /\ receive_buffer[k] = <<p, k>>
  BY <1>1, <1>4, <1>6, <1>7
<1>9. PICK m \in Nat :
         /\ m = Total - s /\ Total' = m /\ Flow' \in Units(m)
         /\ receive_buffer' \in Seq(Unit)
         /\ \A i \in 1 .. m : Flow'[i] = Flow[s + i]
  <2>1. receive_buffer' = SubSeq(receive_buffer, s + 1, Len(receive_buffer))
    BY <1>7 DEF Consume
  <2>2. /\ receive_buffer' \in Seq(Unit) /\ Len(receive_buffer') + Len(stream) \in Nat
        /\ Len(receive_buffer') + Len(stream) = Len(receive_buffer) + Len(stream) - s
        /\ \A i \in 1 .. Len(receive_buffer') + Len(stream) :
              Joint(receive_buffer', stream)[i] = Joint(receive_buffer, stream)[s + i]
    BY <1>1, <1>7, <2>1, ConsumedUnits
  <2>3. Total' = Len(receive_buffer') + Len(stream) /\ Flow' = Joint(receive_buffer', stream)
    BY DEF Total, Flow, Joint
  <2>4. Joint(receive_buffer', stream) \in Units(Len(receive_buffer') + Len(stream))
    BY <1>1, <2>2, JointUnits
  <2> QED
    BY <1>1, <2>2, <2>3, <2>4
<1>10. /\ Blocks(Flow', m) /\ Distinct(Flow', m)
       /\ Complete(Flow, Total) => Complete(Flow', m)
       /\ \A i \in 1 .. m : Flow'[i][1] # p
       /\ \A i \in 1 .. Total : Flow[i][1] # p => i > s
  <2>1. s = SizeOf(Flow[1][1]) /\ s <= Total /\ m = Total - s
    BY <1>5, <1>7, <1>9
  <2>2. Blocks(Flow, Total) /\ Distinct(Flow, Total)
    BY DEF FlowSound
  <2>3. /\ Blocks(Flow', m) /\ Distinct(Flow', m)
        /\ Complete(Flow, Total) => Complete(Flow', m)
        /\ \A i \in 1 .. m : Flow'[i][1] # Flow[1][1]
        /\ \A i \in 1 .. Total : Flow[i][1] # Flow[1][1] => i > s
    <3>1. PICK u \in Units(Total) : u = Flow
      BY <1>1
    <3>2. PICK w \in Units(m) : w = Flow'
      BY <1>9
    <3>3. s = SizeOf(u[1][1]) /\ Blocks(u, Total) /\ Distinct(u, Total)
      BY <2>1, <2>2, <3>1
    <3>4. \A i \in 1 .. m : w[i] = u[s + i]
      BY <1>9, <3>1, <3>2
    <3>5. Total \in Nat /\ Total > 0 /\ m \in Nat
      BY <1>1, <1>5
    <3>6. /\ Blocks(w, m) /\ Distinct(w, m)
          /\ Complete(u, Total) => Complete(w, m)
          /\ \A i \in 1 .. m : w[i][1] # u[1][1]
          /\ \A i \in 1 .. Total : u[i][1] # u[1][1] => i > s
      BY <2>1, <3>3, <3>4, <3>5, DropBlock
    <3> QED
      BY <3>1, <3>2, <3>6
  <2> QED
    BY <1>5, <2>3
<1>11. p \notin send_queue
  <2>1. s \in 1 .. Total /\ Flow[s] = <<p, SizeOf(p)>>
    BY <1>1, <1>7, <1>8
  <2> QED
    BY <2>1 DEF FlowSound
<1>12. FlowSound'
  <2>1. Blocks(Flow, Total)' /\ Distinct(Flow, Total)'
    BY <1>9, <1>10 DEF Blocks, Distinct, SizeOf
  <2>2. link' = "up" => Complete(Flow, Total)'
    BY <1>9, <1>10 DEF Complete, SizeOf, FlowSound
  <2>3. ASSUME NEW q \in send_queue, NEW i \in 1 .. m
        PROVE  Flow'[i] # <<q, SizeOf(q)>>
    <3>1. s + i \in 1 .. Total /\ Flow'[i] = Flow[s + i]
      BY <1>1, <1>9
    <3> QED
      BY <3>1 DEF FlowSound
  <2> QED
    BY <1>9, <2>1, <2>2, <2>3 DEF FlowSound, SizeOf
<1>13. p \in Packets
  BY <1>5 DEF Packets
<1>14. Packets' = Packets \ {p}
  <2>1. ASSUME NEW q \in Packets'
        PROVE  q \in Packets \ {p}
    <3>1. CASE q \in send_queue
      BY <1>11, <3>1 DEF Packets
    <3>2. ASSUME NEW i \in 1 .. m, q = Flow'[i][1]
          PROVE  q \in Packets \ {p}
      <4>1. s + i \in 1 .. Total /\ Flow'[i] = Flow[s + i]
        BY <1>1, <1>9
      <4> QED
        BY <1>10, <3>2, <4>1 DEF Packets
    <3> QED
      BY <1>9, <2>1, <3>1, <3>2 DEF Packets
  <2>2. ASSUME NEW q \in Packets, q # p
        PROVE  q \in Packets'
    <3>1. CASE q \in send_queue
      BY <3>1 DEF Packets
    <3>2. ASSUME NEW i \in 1 .. Total, q = Flow[i][1]
          PROVE  q \in Packets'
      <4>1. i > s
        BY <1>10, <2>2, <3>2
      <4>2. i - s \in 1 .. m /\ s + (i - s) = i
        BY <1>1, <1>9, <4>1
      <4>3. Flow'[i - s] = Flow[s + (i - s)]
        BY <1>9, <4>2
      <4> QED
        BY <1>9, <3>2, <4>2, <4>3 DEF Packets
    <3> QED
      BY <2>2, <3>1, <3>2 DEF Packets
  <2> QED
    BY <2>1, <2>2
<1>15. \A k \in HeaderSize + 1 .. Size : receive_buffer[k] = <<p, k>>
  BY <1>3, <1>7, <1>8
<1> QED
  BY <1>6, <1>9, <1>12, <1>13, <1>14, <1>15 DEF FrontPart, p

-----------------------------------------------------------------------------
(* Where the packets of an item are.                                       *)

\* All packets are packets.
LEMMA PacketsType == ASSUME TypeOK PROVE Packets \subseteq Packet
<1>1. \A i \in 1 .. Total : Flow[i][1] \in Packet
  BY FlowType, UnitType
<1> QED
  BY <1>1 DEF Packets, TypeOK

\* The chunks that sendFile counts are those that begin before the end of the file.
LEMMA ChunksAreIndices ==
    ASSUME NEW n \in Nat, NEW c \in Nat, c > 0, NEW k \in Nat
    PROVE  /\ (n + c - 1) \div c \in Nat
           /\ k < (n + c - 1) \div c <=> k * c < n
<1> DEFINE q == (n + c - 1) \div c
           r == (n + c - 1) % c
<1>1. q \in Nat /\ r \in 0 .. c - 1 /\ n + c - 1 = q * c + r
  BY SMTT(30)
<1> HIDE DEF q, r
<1>2. ASSUME k < q PROVE k * c < n
  <2>1. (k + 1) * c <= q * c
    BY <1>1, <1>2, SMTT(30)
  <2>2. (k + 1) * c = k * c + c /\ k * c \in Nat /\ q * c \in Nat
    BY <1>1, SMTT(30)
  <2> QED
    BY <1>1, <2>1, <2>2
<1>3. ASSUME q <= k PROVE n <= k * c
  <2>1. q * c <= k * c
    BY <1>1, <1>3, SMTT(30)
  <2>2. k * c \in Nat /\ q * c \in Nat
    BY <1>1, SMTT(30)
  <2> QED
    BY <1>1, <2>1, <2>2
<1>4. k * c \in Nat
  BY SMTT(30)
<1> QED
  BY <1>1, <1>2, <1>3, <1>4 DEF q

\* So the parts that are sent are those that an item has.
LEMMA PartsAreIndices ==
    ASSUME NEW x \in Item
    PROVE  Parts(x) \in Nat /\ Indices(x) = {k \in Nat : k < Parts(x)}
<1>1. CASE x \in File
  <2> DEFINE n == FileSize[x]
  <2>1. n \in Nat /\ ChunkSize \in Nat /\ ChunkSize > 0
    BY <1>1, SizeAssumption
  <2>2. Parts(x) = (n + ChunkSize - 1) \div ChunkSize
    BY <1>1 DEF Parts, Chunks
  <2>3. Indices(x) = {k \in 0 .. n : k * ChunkSize < n}
    BY <1>1 DEF Indices
  <2> HIDE DEF n
  <2>4. ASSUME NEW k \in Nat, k * ChunkSize < n PROVE k \in 0 .. n
    BY <2>1, <2>4, SMTT(30)
  <2>5. Parts(x) \in Nat /\ \A k \in Nat : k < Parts(x) <=> k * ChunkSize < n
    BY <2>1, <2>2, ChunksAreIndices
  <2> QED
    BY <2>3, <2>4, <2>5
<1>2. CASE x \notin File
  BY <1>2 DEF Parts, Indices
<1> QED
  BY <1>1, <1>2

\* Files are given as many chunks as they have, messages one part.
LEMMA PartsNat ==
    /\ \A x \in Item : Parts(x) \in Nat
    /\ \A f \in File : Parts(f) = Chunks[f] /\ Chunks[f] \in Nat
    /\ \A m \in Message : Parts(m) = 1 /\ m \notin File
    /\ \A m \in Message : m \in Item
    /\ \A f \in File : f \in Item
<1>1. \A x \in Item : Parts(x) \in Nat
  BY PartsAreIndices
<1> QED
  BY <1>1, SizeAssumption DEF Parts, Item

\* What a label says of a packet.
LEMMA PacketKnown ==
    ASSUME TypeOK, NEW id, NEW pr, Labelled(id, pr), NEW p \in Packets
    PROVE  /\ p \in Packet /\ p.of \in sent /\ p.of \in Item
           /\ p.index \in Nat /\ p.index < Parts(p.of)
           /\ p.file_id = id[p.of] /\ p.total = Parts(p.of)
           /\ \A q \in Packets : q.of = p.of /\ q.index = p.index => q = p
           /\ p.of \in File => p.file_id \in FileId
<1>1. p \in Packet
  BY PacketsType
<1>2. p.of \in Item /\ p.index \in Nat
  BY <1>1 DEF Packet
<1>3. p.of \in sent /\ p.index < Parts(p.of) /\ p = PacketOf(p.of, p.index, id, pr)
  BY DEF Labelled
<1>4. p.file_id = id[p.of] /\ p.total = Parts(p.of)
  BY <1>3 DEF PacketOf
<1>5. ASSUME NEW q \in Packets, q.of = p.of, q.index = p.index
      PROVE  q = p
  <2>1. q = PacketOf(q.of, q.index, id, pr)
    BY DEF Labelled
  <2> QED
    BY <1>3, <1>5, <2>1
<1>6. ASSUME p.of \in File
      PROVE  p.file_id \in FileId
  <2>1. p.file_id \in 1 .. next_file_id - 1
    BY <1>3, <1>4, <1>6 DEF Labelled
  <2>2. Cardinality(File) \in Nat
    BY FileAssumption, FS_CardinalityType
  <2>3. next_file_id \in 1 .. Cardinality(File) + 1
    BY DEF TypeOK
  <2> QED
    BY <2>1, <2>2, <2>3 DEF FileId
<1> QED
  BY <1>1, <1>2, <1>3, <1>4, <1>5, <1>6

\* What a label says of the chunks that are stored under an identifier.
LEMMA ChunksKnown ==
    ASSUME TypeOK, NEW id, NEW pr, Labelled(id, pr),
           NEW f \in FileId, NEW k \in DOMAIN file_reassembly_map[f]
    PROVE  LET x == file_reassembly_map[f][k].of IN
           /\ x \in File /\ x \in sent /\ id[x] = f
           /\ k \in Nat /\ k < Chunks[x]
           /\ file_reassembly_map[f][k] = [of |-> x, index |-> k, whole |-> TRUE]
           /\ \A g \in File \cap sent : id[g] = f => x = g
  BY DEF Labelled, TypeOK

\* The chunks stored under an identifier are all of one file.
LEMMA OneFileUnderId ==
    ASSUME TypeOK, LabelsSound, NEW f \in FileId, NEW k \in DOMAIN file_reassembly_map[f],
           NEW i \in DOMAIN file_reassembly_map[f]
    PROVE  i \in Nat /\ i < Parts(file_reassembly_map[f][k].of)
<1> DEFINE x == file_reassembly_map[f][k].of
           y == file_reassembly_map[f][i].of
<1>1. PICK id \in [Item -> FileId \cup {0}], pr \in [Item -> Nat] : Labelled(id, pr)
  BY DEF LabelsSound
<1>2. \A j \in DOMAIN file_reassembly_map[f] :
         /\ file_reassembly_map[f][j].of \in File \cap sent
         /\ id[file_reassembly_map[f][j].of] = f
         /\ j \in Nat /\ j < Chunks[file_reassembly_map[f][j].of]
  BY <1>1 DEF Labelled, TypeOK
<1>3. \A g, h \in File \cap sent : id[g] = id[h] => g = h
  BY <1>1 DEF Labelled
<1>4. /\ x \in File \cap sent /\ id[x] = f /\ y \in File \cap sent /\ id[y] = f
      /\ i \in Nat /\ i < Chunks[y]
  BY <1>2
<1> HIDE DEF x, y
<1>5. y = x
  BY <1>3, <1>4
<1>6. Parts(x) = Chunks[x]
  BY <1>4 DEF Parts
<1> QED
  BY <1>4, <1>5, <1>6 DEF x

\* The parts of the invariant that speak of packets and not of units.
Kept == LabelsSound /\ NothingTwice /\ PartsKept /\ LacksChunk /\ IntactParts

\* A step that moves packets keeps them, and may lose some with the link.
LEMMA MovesKept ==
    ASSUME Kept, Packets' \subseteq Packets,
           link' = "up" => link = "up" /\ Packets' = Packets,
           UNCHANGED <<sent, next_file_id, file_reassembly_map, delivered>>
    PROVE  Kept'
<1>1. LabelsSound'
  <2>1. PICK id \in [Item -> FileId \cup {0}], pr \in [Item -> Nat] : Labelled(id, pr)
    BY DEF Kept, LabelsSound
  <2>2. Labelled(id, pr)'
    BY <2>1 DEF Labelled, PacketOf
  <2> QED
    BY <2>2 DEF LabelsSound
<1>2. NothingTwice'
  BY DEF Kept, NothingTwice
<1>3. PartsKept'
  <2> SUFFICES ASSUME link' = "up", NEW x \in sent, NEW k \in Nat, k < Parts(x)
               PROVE  Somewhere(x, k)'
    BY DEF PartsKept
  <2>1. Somewhere(x, k)
    BY DEF Kept, PartsKept
  <2> QED
    BY <2>1 DEF Somewhere, Stored
<1>4. LacksChunk' /\ IntactParts'
  BY DEF Kept, LacksChunk, IntactParts
<1> QED
  BY <1>1, <1>2, <1>3, <1>4 DEF Kept

-----------------------------------------------------------------------------
(* Sending.                                                                *)

\* The packets of an item.
PacketsOf(x, i, prio) ==
    {[of |-> x, file_id |-> i, index |-> k, total |-> Parts(x), priority |-> prio] :
        k \in {j \in 0 .. Parts(x) : j < Parts(x)}}

\* sendMessage and sendFile queue the packets of an item that was not sent, under
\* an identifier that no other file has.
Sends(x, i, prio) ==
    /\ x \in Item /\ x \notin sent /\ sent' = sent \cup {x}
    /\ i \in FileId \cup {0} /\ prio \in Priority
    /\ send_queue' = send_queue \cup PacketsOf(x, i, prio)
    /\ x \in Message => i = 0 /\ next_file_id' = next_file_id
    /\ x \in File => i = next_file_id /\ next_file_id' = next_file_id + 1
    /\ UNCHANGED <<stream, link, receiver_vars>>

\* N are packets of an item, one for each part.
OnePerPart(N, x, i, prio) ==
    /\ N \subseteq Packet
    /\ \A p \in N : /\ p.of = x /\ p.index \in Nat /\ p.index < Parts(x)
                   /\ p.file_id = i /\ p.total = Parts(x) /\ p.priority = prio
    /\ \A k \in Nat : k < Parts(x) => \E p \in N : p.of = x /\ p.index = k

\* Those that are queued are.
LEMMA PacketsOfItem ==
    ASSUME NEW x \in Item, NEW i \in FileId \cup {0}, NEW prio \in Priority
    PROVE  OnePerPart(PacketsOf(x, i, prio), x, i, prio)
<1>1. Parts(x) \in Nat /\ prio \in Nat
  BY PartsNat, SizeAssumption
<1>2. ASSUME NEW p \in PacketsOf(x, i, prio)
      PROVE  /\ p \in Packet
             /\ p.of = x /\ p.index \in Nat /\ p.index < Parts(x)
             /\ p.file_id = i /\ p.total = Parts(x) /\ p.priority = prio
  <2>1. PICK k \in 0 .. Parts(x) :
           /\ k < Parts(x)
           /\ p = [of |-> x, file_id |-> i, index |-> k, total |-> Parts(x), priority |-> prio]
    BY DEF PacketsOf
  <2>2. k \in Nat
    BY <1>1
  <2>3. p \in Packet
    BY <1>1, <2>1, <2>2 DEF Packet
  <2> QED
    BY <2>1, <2>2, <2>3
<1>3. ASSUME NEW k \in Nat, k < Parts(x)
      PROVE  \E p \in PacketsOf(x, i, prio) : p.of = x /\ p.index = k
  <2>1. k \in 0 .. Parts(x)
    BY <1>1, <1>3
  <2>2. [of |-> x, file_id |-> i, index |-> k, total |-> Parts(x), priority |-> prio]
            \in PacketsOf(x, i, prio)
    BY <1>3, <2>1 DEF PacketsOf
  <2> QED
    BY <2>2
<1> QED
  BY <1>2, <1>3 DEF OnePerPart

\* The flow does not change, and the packets are joined by those of the item.
LEMMA SendsFlow ==
    ASSUME TypeOK, FlowSound, LabelsSound, NEW x, NEW i, NEW prio, Sends(x, i, prio)
    PROVE  /\ send_queue' \subseteq Packet
           /\ FlowSound' /\ Packets' = Packets \cup PacketsOf(x, i, prio)
<1> DEFINE N == PacketsOf(x, i, prio)
<1>1. PICK id \in [Item -> FileId \cup {0}], pr \in [Item -> Nat] : Labelled(id, pr)
  BY DEF LabelsSound
<1>0. x \in Item /\ i \in FileId \cup {0} /\ prio \in Priority /\ x \notin sent
  BY DEF Sends
<1>2. N \subseteq Packet /\ \A p \in N : p.of = x
  <2>1. OnePerPart(PacketsOf(x, i, prio), x, i, prio)
    BY <1>0, PacketsOfItem
  <2> QED
    BY <2>1 DEF OnePerPart
<1>3. send_queue' = send_queue \cup N /\ UNCHANGED <<stream, link, receive_buffer>>
  BY DEF Sends, receiver_vars
<1> HIDE DEF N
<1>4. Total' = Total /\ Flow' = Flow
  BY <1>3 DEF Total, Flow
<1>5. Packets' = Packets \cup N
  BY <1>3, <1>4 DEF Packets
<1>6. ASSUME NEW q \in N, NEW j \in 1 .. Total
      PROVE  Flow[j] # <<q, SizeOf(q)>>
  <2>1. Flow[j][1] \in Packets
    BY DEF Packets
  <2>2. Flow[j][1].of \in sent
    BY <1>1, <2>1, PacketKnown
  <2> QED
    BY <1>0, <1>2, <2>2
<1>7. FlowSound'
  <2>1. \A q \in send_queue' : \A j \in 1 .. Total : Flow[j] # <<q, SizeOf(q)>>
    BY <1>3, <1>6 DEF FlowSound
  <2> QED
    BY <1>3, <1>4, <2>1 DEF FlowSound, Blocks, Distinct, Complete, SizeOf
<1>8. send_queue' \subseteq Packet
  BY <1>2, <1>3 DEF TypeOK
<1> QED
  BY <1>5, <1>7, <1>8 DEF N

\* The new item has a label, and what was there before keeps its own.
LEMMA SendsKept ==
    ASSUME TypeOK, FlowSound, Kept, NEW x, NEW i, NEW prio, Sends(x, i, prio)
    PROVE  Kept'
<1> DEFINE N == PacketsOf(x, i, prio)
<1>1. PICK id \in [Item -> FileId \cup {0}], pr \in [Item -> Nat] : Labelled(id, pr)
  BY DEF Kept, LabelsSound
<1>2. /\ x \in Item /\ x \notin sent /\ sent' = sent \cup {x}
      /\ i \in FileId \cup {0} /\ prio \in Priority
      /\ x \in Message => i = 0 /\ next_file_id' = next_file_id
      /\ x \in File => i = next_file_id /\ next_file_id' = next_file_id + 1
      /\ UNCHANGED <<link, file_reassembly_map, delivered>>
  BY DEF Sends, receiver_vars
<1>3. Packets' = Packets \cup N
  BY SendsFlow DEF Kept
<1>4. /\ \A p \in N : /\ p \in Packet /\ p.of = x /\ p.index \in Nat /\ p.index < Parts(x)
                      /\ p.file_id = i /\ p.total = Parts(x) /\ p.priority = prio
      /\ \A k \in Nat : k < Parts(x) => \E p \in N : p.of = x /\ p.index = k
  <2>1. OnePerPart(PacketsOf(x, i, prio), x, i, prio)
    BY <1>2, PacketsOfItem
  <2> QED
    BY <2>1 DEF OnePerPart
<1> HIDE DEF N
<1>5. next_file_id \in Nat
  BY FileAssumption, FS_CardinalityType DEF TypeOK
<1>6. x \in File => DOMAIN file_reassembly_map[i] = {}
  <2> SUFFICES ASSUME x \in File, NEW k \in DOMAIN file_reassembly_map[i]
               PROVE  FALSE
    OBVIOUS
  <2>1. i \in FileId /\ i = next_file_id
    BY <1>2, <1>5 DEF TypeOK
  <2> DEFINE g == file_reassembly_map[i][k].of
  <2>2. g \in File /\ g \in sent /\ id[g] = i
    BY <1>1, <2>1 DEF Labelled
  <2> HIDE DEF g
  <2>3. id[g] \in 1 .. next_file_id - 1
    BY <1>1, <2>2 DEF Labelled
  <2> QED
    BY <1>5, <2>1, <2>2, <2>3
<1>7. LabelsSound'
  <2> DEFINE id1 == [id EXCEPT ![x] = i]
             pr1 == [pr EXCEPT ![x] = prio]
  <2>1. /\ id1 \in [Item -> FileId \cup {0}] /\ pr1 \in [Item -> Nat]
        /\ id1[x] = i /\ pr1[x] = prio
        /\ \A y \in Item : y # x => id1[y] = id[y] /\ pr1[y] = pr[y]
    BY <1>2, SizeAssumption
  <2> HIDE DEF id1, pr1
  <2>2. \A y \in sent : y \in Item /\ id1[y] = id[y] /\ pr1[y] = pr[y]
    BY <1>2, <2>1 DEF TypeOK
  <2>3. \A m \in Message : id1[m] = 0
    BY <1>1, <1>2, <2>1, PartsNat DEF Labelled
  <2>4. \A f \in File \cap sent' : id1[f] \in 1 .. next_file_id' - 1
    <3> SUFFICES ASSUME NEW f \in File, f \in sent'
                 PROVE  id1[f] \in 1 .. next_file_id' - 1
      OBVIOUS
    <3>1. next_file_id' \in Nat /\ next_file_id' >= next_file_id /\ next_file_id >= 1
      BY <1>2, <1>5 DEF TypeOK, Item
    <3>2. CASE f = x
      BY <1>2, <1>5, <2>1, <3>1, <3>2
    <3>3. CASE f # x
      <4>1. f \in sent /\ id[f] \in 1 .. next_file_id - 1
        BY <1>1, <1>2, <3>3 DEF Labelled
      <4> QED
        BY <1>5, <2>2, <3>1, <4>1
    <3> QED
      BY <3>2, <3>3
  <2>5. \A f, g \in File \cap sent' : id1[f] = id1[g] => f = g
    <3> SUFFICES ASSUME NEW f \in File \cap sent', NEW g \in File \cap sent', id1[f] = id1[g]
                 PROVE  f = g
      OBVIOUS
    <3>1. \A h \in File \cap sent : id1[h] = id[h] /\ id[h] \in 1 .. next_file_id - 1
      BY <1>1, <2>2 DEF Labelled
    <3>2. x \in File => \A h \in File \cap sent : id1[h] # id1[x]
      BY <1>2, <1>5, <2>1, <3>1
    <3>3. CASE f \in sent /\ g \in sent
      BY <1>1, <3>1, <3>3 DEF Labelled
    <3> QED
      BY <1>2, <3>2, <3>3
  <2>6. ASSUME NEW p \in Packets'
        PROVE  /\ p.of \in sent' /\ p.index < Parts(p.of)
               /\ p = PacketOf(p.of, p.index, id1, pr1)
    <3>1. CASE p \in Packets
      <4>1. p.of \in sent /\ p.index < Parts(p.of) /\ p = PacketOf(p.of, p.index, id, pr)
        BY <1>1, <3>1 DEF Labelled
      <4>2. PacketOf(p.of, p.index, id, pr) = PacketOf(p.of, p.index, id1, pr1)
        BY <2>2, <4>1 DEF PacketOf
      <4> QED
        BY <1>2, <4>1, <4>2
    <3>2. CASE p \in N
      <4>1. p = [of |-> p.of, file_id |-> p.file_id, index |-> p.index, total |-> p.total,
                 priority |-> p.priority]
        BY <1>4, <3>2 DEF Packet
      <4> QED
        BY <1>2, <1>4, <2>1, <3>2, <4>1 DEF PacketOf
    <3> QED
      BY <1>3, <3>1, <3>2
  <2>7. ASSUME NEW f \in FileId, NEW k \in DOMAIN file_reassembly_map[f]
        PROVE  LET c == file_reassembly_map[f][k] IN
               /\ c.of \in File \cap sent' /\ id1[c.of] = f /\ k < Chunks[c.of]
               /\ c = [of |-> c.of, index |-> k, whole |-> TRUE]
    BY <1>1, <1>2, <2>2, ChunksKnown
  <2>8. Labelled(id1, pr1)'
    BY <1>2, <2>3, <2>4, <2>5, <2>6, <2>7 DEF Labelled, PacketOf
  <2> QED
    BY <2>1, <2>8 DEF LabelsSound
<1>8. NothingTwice'
  <2>1. ASSUME NEW p \in Packets', p.of \in File
        PROVE  p.index \notin DOMAIN file_reassembly_map[p.file_id]
    <3>1. CASE p \in Packets
      BY <2>1, <3>1 DEF Kept, NothingTwice
    <3>2. CASE p \in N
      BY <1>4, <1>6, <2>1, <3>2
    <3> QED
      BY <1>3, <3>1, <3>2
  <2>2. ASSUME NEW j \in DOMAIN delivered
        PROVE  \A p \in Packets' : p.of # delivered[j].of
    <3>1. delivered[j].of \in sent
      BY DEF Kept, IntactParts
    <3>2. \A p \in Packets : p.of # delivered[j].of
      BY DEF Kept, NothingTwice
    <3> QED
      BY <1>2, <1>3, <1>4, <3>1, <3>2
  <2> QED
    BY <1>2, <2>1, <2>2 DEF Kept, NothingTwice
<1>9. PartsKept'
  <2> SUFFICES ASSUME link = "up", NEW y \in sent', NEW k \in Nat, k < Parts(y)
               PROVE  Somewhere(y, k)'
    BY <1>2 DEF PartsKept
  <2>1. CASE y = x
    BY <1>3, <1>4, <2>1 DEF Somewhere
  <2>2. CASE y \in sent
    <3>1. Somewhere(y, k)
      BY <2>2 DEF Kept, PartsKept
    <3> QED
      BY <1>2, <1>3, <3>1 DEF Somewhere, Stored
  <2> QED
    BY <1>2, <2>1, <2>2
<1>10. LacksChunk' /\ IntactParts'
  BY <1>2 DEF Kept, LacksChunk, IntactParts
<1> QED
  BY <1>7, <1>8, <1>9, <1>10 DEF Kept

-----------------------------------------------------------------------------
(* Receiving.                                                              *)

\* What receive_callback was called with before, and the item that is new.
LEMMA Appended ==
    ASSUME NEW S, NEW s \in Seq(S), NEW e \in S
    PROVE  /\ Append(s, e) \in Seq(S)
           /\ \A j \in DOMAIN s : j \in DOMAIN Append(s, e) /\ Append(s, e)[j] = s[j]
           /\ Len(s) + 1 \in DOMAIN Append(s, e) /\ Append(s, e)[Len(s) + 1] = e
           /\ \A j \in DOMAIN Append(s, e) : j \in DOMAIN s \/ j = Len(s) + 1
<1> DEFINE t == Append(s, e)
<1>1. /\ t \in Seq(S) /\ Len(t) = Len(s) + 1
      /\ \A j \in 1 .. Len(s) : t[j] = s[j]
      /\ t[Len(s) + 1] = e
  BY AppendProperties
<1>2. DOMAIN s = 1 .. Len(s) /\ DOMAIN t = 1 .. Len(t) /\ Len(s) \in Nat
  BY <1>1, LenProperties
<1> HIDE DEF t
<1> QED
  BY <1>1, <1>2 DEF t

\* All the parts of an item, each with its own bytes.
AllParts(x) == [n \in 1 .. Parts(x) |-> [of |-> x, index |-> n - 1, whole |-> TRUE]]

\* They are a sequence of parts.
LEMMA AllPartsType == ASSUME NEW x \in Item PROVE AllParts(x) \in Seq(Part)
<1>1. Parts(x) \in Nat
  BY PartsNat
<1>2. \A n \in 1 .. Parts(x) : [of |-> x, index |-> n - 1, whole |-> TRUE] \in Part
  BY <1>1 DEF Part
<1> QED
  BY <1>1, <1>2 DEF AllParts

\* The last packet of an item was taken, its chunks were taken out of the map, and
\* all of it was delivered.
LEMMA DeliverKept ==
    ASSUME TypeOK, Kept, NEW p \in Packets, Packets' = Packets \ {p},
           UNCHANGED <<sent, next_file_id, link>>,
           delivered' = Append(delivered, [of |-> p.of, parts |-> AllParts(p.of)]),
           \A q \in Packets : q.of = p.of => q = p,
           \A f \in FileId :
              \/ /\ file_reassembly_map'[f] = file_reassembly_map[f]
                 /\ \A k \in DOMAIN file_reassembly_map[f] : file_reassembly_map[f][k].of # p.of
              \/ /\ DOMAIN file_reassembly_map'[f] = {}
                 /\ \A k \in DOMAIN file_reassembly_map[f] : file_reassembly_map[f][k].of = p.of
    PROVE  Kept' /\ delivered' \in Seq([of : Item, parts : Seq(Part)])
<1> DEFINE x == p.of
<1>1. PICK id \in [Item -> FileId \cup {0}], pr \in [Item -> Nat] : Labelled(id, pr)
  BY DEF Kept, LabelsSound
<1>2. p \in Packet /\ x \in sent /\ x \in Item
  BY <1>1, PacketKnown
<1>3. [of |-> x, parts |-> AllParts(x)] \in [of : Item, parts : Seq(Part)]
  BY <1>2, AllPartsType
<1>4. PICK n : n = Len(delivered) + 1
  OBVIOUS
<1>5. /\ delivered' \in Seq([of : Item, parts : Seq(Part)])
      /\ \A j \in DOMAIN delivered : j \in DOMAIN delivered' /\ delivered'[j] = delivered[j]
      /\ n \in DOMAIN delivered' /\ delivered'[n] = [of |-> x, parts |-> AllParts(x)]
      /\ \A j \in DOMAIN delivered' : j \in DOMAIN delivered \/ j = n
  <2>1. delivered \in Seq([of : Item, parts : Seq(Part)])
    BY DEF TypeOK
  <2> QED
    BY <1>3, <1>4, <2>1, Appended
<1>6. \A j \in DOMAIN delivered : delivered[j].of # x
  BY DEF Kept, NothingTwice
<1>7. delivered'[n].of = x /\ delivered'[n].parts = AllParts(x)
  BY <1>5
<1> HIDE DEF x
<1>8. \A f \in FileId : \A k \in DOMAIN file_reassembly_map'[f] :
         /\ file_reassembly_map'[f] = file_reassembly_map[f]
         /\ k \in DOMAIN file_reassembly_map[f]
         /\ file_reassembly_map[f][k].of # x
  BY DEF x
<1>9. LabelsSound'
  <2>1. Labelled(id, pr)'
    BY <1>1, <1>8 DEF Labelled, PacketOf
  <2> QED
    BY <2>1 DEF LabelsSound
<1>10. NothingTwice'
  <2>1. ASSUME NEW q \in Packets', q.of \in File
        PROVE  q.index \notin DOMAIN file_reassembly_map'[q.file_id]
    <3>1. q \in Packets
      OBVIOUS
    <3>2. q.file_id \in FileId
      BY <1>1, <2>1, <3>1, PacketKnown
    <3>3. q.index \notin DOMAIN file_reassembly_map[q.file_id]
      BY <2>1, <3>1 DEF Kept, NothingTwice
    <3> QED
      BY <1>8, <3>2, <3>3
  <2>2. ASSUME NEW j \in DOMAIN delivered', NEW q \in Packets'
        PROVE  q.of # delivered'[j].of
    <3>1. q \in Packets /\ q.of # x
      BY DEF x
    <3>2. CASE j \in DOMAIN delivered
      BY <1>5, <3>1, <3>2 DEF Kept, NothingTwice
    <3> QED
      BY <1>5, <1>7, <3>1, <3>2
  <2>3. ASSUME NEW j \in DOMAIN delivered', NEW f \in FileId, NEW k \in DOMAIN file_reassembly_map'[f]
        PROVE  file_reassembly_map'[f][k].of # delivered'[j].of
    <3>1. /\ file_reassembly_map'[f] = file_reassembly_map[f]
          /\ k \in DOMAIN file_reassembly_map[f]
          /\ file_reassembly_map[f][k].of # x
      BY <1>8
    <3>2. CASE j \in DOMAIN delivered
      <4>1. delivered'[j] = delivered[j]
        BY <1>5, <3>2
      <4>2. file_reassembly_map[f][k].of # delivered[j].of
        BY <3>1, <3>2 DEF Kept, NothingTwice
      <4> QED
        BY <3>1, <4>1, <4>2
    <3>3. CASE j = n
      BY <1>7, <3>1, <3>3
    <3> QED
      BY <1>5, <3>2, <3>3
  <2> QED
    BY <2>1, <2>2, <2>3 DEF NothingTwice
<1>11. PartsKept'
  <2> SUFFICES ASSUME link = "up", NEW y \in sent, NEW k \in Nat, k < Parts(y)
               PROVE  Somewhere(y, k)'
    BY DEF PartsKept
  <2>1. CASE y = x
    BY <1>5, <1>7, <2>1 DEF Somewhere
  <2>2. CASE y # x
    <3>1. CASE \E q \in Packets : q.of = y /\ q.index = k
      BY <2>2, <3>1 DEF Somewhere, x
    <3>2. CASE Stored(y, k)
      <4>1. PICK f \in FileId : k \in DOMAIN file_reassembly_map[f] /\ file_reassembly_map[f][k].of = y
        BY <3>2 DEF Stored
      <4>2. file_reassembly_map'[f] = file_reassembly_map[f]
        BY <2>2, <4>1 DEF x
      <4> QED
        BY <4>1, <4>2 DEF Somewhere, Stored
    <3>3. CASE \E j \in DOMAIN delivered : delivered[j].of = y
      BY <1>5, <3>3 DEF Somewhere
    <3> QED
      BY <3>1, <3>2, <3>3 DEF Kept, PartsKept, Somewhere
  <2> QED
    BY <2>1, <2>2
<1>12. LacksChunk'
  BY <1>8 DEF Kept, LacksChunk
<1>13. IntactParts'
  <2>1. ASSUME NEW j \in DOMAIN delivered'
        PROVE  delivered'[j].of \in sent /\ delivered'[j].parts = AllParts(delivered'[j].of)
    <3>1. CASE j \in DOMAIN delivered
      <4>1. delivered'[j] = delivered[j]
        BY <1>5, <3>1
      <4>2. delivered[j].of \in sent /\ delivered[j].parts = AllParts(delivered[j].of)
        BY <3>1 DEF Kept, IntactParts, AllParts
      <4> QED
        BY <4>1, <4>2
    <3> QED
      BY <1>2, <1>5, <1>7, <3>1
  <2>2. ASSUME NEW i \in DOMAIN delivered', NEW j \in DOMAIN delivered',
               delivered'[i].of = delivered'[j].of
        PROVE  i = j
    <3>1. CASE i \in DOMAIN delivered /\ j \in DOMAIN delivered
      BY <1>5, <2>2, <3>1 DEF Kept, IntactParts
    <3> QED
      BY SMTT(30), <1>5, <1>6, <1>7, <2>2, <3>1
  <2> QED
    BY <2>1, <2>2 DEF IntactParts, AllParts, Parts
<1> QED
  BY <1>5, <1>9, <1>10, <1>11, <1>12, <1>13 DEF Kept

\* A message is its only packet.
LEMMA MessageFlow ==
    ASSUME Fits, TypeOK, FlowSound, Kept, ReceiveMessage
    PROVE  /\ receive_buffer' \in Seq(Unit) /\ FlowSound'
           /\ Kept' /\ delivered' \in Seq([of : Item, parts : Seq(Part)])
<1> DEFINE p == Front
<1>1. /\ HasPacket /\ p.of \in Message /\ Consume(Size)
      /\ delivered' = Append(delivered, [of |-> p.of, parts |-> <<FrontPart>>])
      /\ UNCHANGED <<send_queue, sent, next_file_id, stream, link, file_reassembly_map>>
  BY DEF ReceiveMessage, Deliver, sender_vars
<1>2. /\ receive_buffer' \in Seq(Unit) /\ FlowSound'
      /\ p \in Packets /\ Packets' = Packets \ {p}
      /\ FrontPart = [of |-> p.of, index |-> p.index, whole |-> TRUE]
  BY <1>1, ParseFlow
<1> HIDE DEF p
<1>3. PICK id \in [Item -> FileId \cup {0}], pr \in [Item -> Nat] : Labelled(id, pr)
  BY DEF Kept, LabelsSound
<1>4. /\ p.index \in Nat /\ p.index < Parts(p.of)
      /\ \A q \in Packets : q.of = p.of /\ q.index = p.index => q = p
  BY <1>2, <1>3, PacketKnown
<1>5. Parts(p.of) = 1 /\ p.index = 0
  BY <1>1, <1>4, PartsNat
<1>6. \A q \in Packets : q.of = p.of => q = p
  <2> SUFFICES ASSUME NEW q \in Packets, q.of = p.of
               PROVE  q.index = 0
    BY <1>4, <1>5
  <2>1. q.index \in Nat /\ q.index < Parts(q.of)
    BY <1>3, PacketKnown
  <2> QED
    BY <1>5, <2>1
<1>7. <<FrontPart>> = AllParts(p.of)
  <2> DEFINE c == [of |-> p.of, index |-> 0, whole |-> TRUE]
  <2>1. FrontPart = c
    BY <1>2, <1>5
  <2>2. AllParts(p.of) = [n \in 1 .. 1 |-> c]
    <3>1. \A n \in 1 .. 1 : n - 1 = 0
      OBVIOUS
    <3>2. AllParts(p.of) = [n \in 1 .. 1 |-> [of |-> p.of, index |-> n - 1, whole |-> TRUE]]
      BY <1>5 DEF AllParts
    <3> QED
      BY <3>1, <3>2
  <2> HIDE DEF c
  <2>3. <<c>> = [n \in 1 .. 1 |-> c]
    OBVIOUS
  <2> QED
    BY <2>1, <2>2, <2>3
<1>8. \A f \in FileId : \A k \in DOMAIN file_reassembly_map[f] : file_reassembly_map[f][k].of # p.of
  <2> SUFFICES ASSUME NEW f \in FileId, NEW k \in DOMAIN file_reassembly_map[f]
               PROVE  file_reassembly_map[f][k].of \in File
    BY <1>1, PartsNat
  <2> QED
    BY <1>3 DEF Labelled
<1>9. delivered' = Append(delivered, [of |-> p.of, parts |-> AllParts(p.of)])
  BY <1>1, <1>7
<1>10. Kept' /\ delivered' \in Seq([of : Item, parts : Seq(Part)])
  BY <1>1, <1>2, <1>6, <1>8, <1>9, DeliverKept
<1> QED
  BY <1>2, <1>10

\* The chunks of a file with one that was on its way: those that are there are
\* chunks of the file, and they are all of them when they are as many.
LEMMA Reassembled ==
    ASSUME TypeOK, NothingTwice, NEW id, NEW pr, Labelled(id, pr),
           NEW p \in Packets, p.of \in File,
           NEW old, old = file_reassembly_map[p.file_id],
           NEW D, D = DOMAIN old \cup {p.index}
    PROVE  /\ p.file_id \in FileId /\ p.index \notin DOMAIN old
           /\ \A k \in DOMAIN old : old[k] = [of |-> p.of, index |-> k, whole |-> TRUE]
           /\ p.total = Chunks[p.of] /\ p.total \in Nat
           /\ Cardinality(D) <= p.total
           /\ Cardinality(D) = p.total => \A k \in Nat : k < p.total => k \in D
<1>1. /\ p.of \in sent /\ p.index \in Nat /\ p.index < Parts(p.of)
      /\ p.file_id = id[p.of] /\ p.total = Parts(p.of) /\ p.file_id \in FileId
  BY PacketKnown
<1>2. p.total = Chunks[p.of] /\ p.total \in Nat
  BY <1>1, PartsNat
<1>3. p.index \notin DOMAIN old
  BY DEF NothingTwice
<1>4. ASSUME NEW k \in DOMAIN old
      PROVE  /\ old[k] = [of |-> p.of, index |-> k, whole |-> TRUE]
             /\ k \in Nat /\ k < p.total
  <2>1. k \in DOMAIN file_reassembly_map[p.file_id] /\ old[k] = file_reassembly_map[p.file_id][k]
    OBVIOUS
  <2>2. k \in Nat
    BY <1>1, <2>1 DEF TypeOK
  <2>3. /\ old[k].of \in File \cap sent /\ id[old[k].of] = p.file_id /\ k < Chunks[old[k].of]
        /\ old[k] = [of |-> old[k].of, index |-> k, whole |-> TRUE]
    BY <1>1, <2>1 DEF Labelled
  <2>4. old[k].of = p.of
    BY <1>1, <2>3 DEF Labelled
  <2> QED
    BY <1>2, <2>2, <2>3, <2>4
<1>5. PICK n \in Nat : n + 1 = p.total
  <2>1. p.total > 0
    BY <1>1, <1>2
  <2> QED
    BY <1>2, <2>1
<1>6. D \in SUBSET (0 .. n)
  <2> SUFFICES ASSUME NEW k \in D
               PROVE  k \in 0 .. n
    OBVIOUS
  <2>1. k \in Nat /\ k < p.total
    <3>1. CASE k = p.index
      BY <1>1, <3>1
    <3>2. CASE k \in DOMAIN old
      BY <1>4, <3>2
    <3> QED
      BY <3>1, <3>2
  <2> QED
    BY <1>5, <2>1
<1>7. IsFiniteSet(0 .. n) /\ Cardinality(0 .. n) = n + 1
  <2>1. /\ IsFiniteSet(0 .. n)
        /\ Cardinality(0 .. n) = IF 0 > n THEN 0 ELSE n - 0 + 1
    BY FS_Interval
  <2> QED
    BY <2>1
<1>8. /\ IsFiniteSet(D) /\ Cardinality(D) <= Cardinality(0 .. n)
      /\ Cardinality(0 .. n) = Cardinality(D) => 0 .. n = D
  BY <1>6, <1>7, FS_Subset
<1>9. Cardinality(D) = p.total => \A k \in Nat : k < p.total => k \in D
  <2> SUFFICES ASSUME Cardinality(D) = p.total, NEW k \in Nat, k < p.total
               PROVE  k \in D
    OBVIOUS
  <2>1. 0 .. n = D
    BY <1>5, <1>7, <1>8
  <2>2. k \in 0 .. n
    BY <1>5
  <2> QED
    BY <2>1, <2>2
<1> QED
  BY <1>1, <1>2, <1>3, <1>4, <1>5, <1>7, <1>8, <1>9

\* A chunk of a file that is not complete goes from the flow to the map.
LEMMA ChunkFlow ==
    ASSUME Fits, TypeOK, FlowSound, Kept, ReceiveChunk
    PROVE  /\ receive_buffer' \in Seq(Unit) /\ FlowSound' /\ Kept'
           /\ DOMAIN file_reassembly_map' = FileId
           /\ \A f \in FileId : \A i \in DOMAIN file_reassembly_map'[f] :
                 i \in Nat /\ file_reassembly_map'[f][i] \in Part
<1> DEFINE p == Front
           old == file_reassembly_map[p.file_id]
           new == Reassembly
<1>1. /\ HasPacket /\ p.of \in File /\ ~IsComplete /\ Consume(Size)
      /\ file_reassembly_map' = [file_reassembly_map EXCEPT ![p.file_id] = new]
      /\ UNCHANGED <<send_queue, sent, next_file_id, stream, link, delivered>>
  BY DEF ReceiveChunk, sender_vars
<1>2. /\ receive_buffer' \in Seq(Unit) /\ FlowSound'
      /\ p \in Packets /\ Packets' = Packets \ {p}
      /\ FrontPart = [of |-> p.of, index |-> p.index, whole |-> TRUE]
  BY <1>1, ParseFlow
<1>3. /\ DOMAIN new = DOMAIN old \cup {p.index}
      /\ new[p.index] = [of |-> p.of, index |-> p.index, whole |-> TRUE]
      /\ \A k \in DOMAIN old : k # p.index => new[k] = old[k]
  BY <1>2 DEF Reassembly
<1>4. Cardinality(DOMAIN new) # p.total
  BY <1>1 DEF IsComplete
<1> HIDE DEF p, new
<1>5. PICK id \in [Item -> FileId \cup {0}], pr \in [Item -> Nat] : Labelled(id, pr)
  BY DEF Kept, LabelsSound
<1>6. /\ p.file_id \in FileId /\ p.index \notin DOMAIN old
      /\ \A k \in DOMAIN old : old[k] = [of |-> p.of, index |-> k, whole |-> TRUE]
      /\ p.total = Chunks[p.of] /\ p.total \in Nat
      /\ Cardinality(DOMAIN new) <= p.total
  <2>1. NothingTwice
    BY DEF Kept
  <2> QED
    BY ZenonT(60), <1>1, <1>2, <1>3, <1>5, <2>1, Reassembled
<1>7. /\ p.of \in sent /\ p.of \in Item /\ p.index \in Nat /\ p.index < Parts(p.of)
      /\ p.file_id = id[p.of]
      /\ \A q \in Packets : q.of = p.of /\ q.index = p.index => q = p
  BY <1>2, <1>5, PacketKnown
<1>8. \A k \in DOMAIN new : /\ new[k] = [of |-> p.of, index |-> k, whole |-> TRUE]
                            /\ new[k].of = p.of
  <2>1. \A k \in DOMAIN new : new[k] = [of |-> p.of, index |-> k, whole |-> TRUE]
    BY <1>3, <1>6
  <2> QED
    BY <2>1
<1>9. /\ DOMAIN file_reassembly_map' = FileId
      /\ file_reassembly_map'[p.file_id] = new
      /\ \A f \in FileId : f # p.file_id => file_reassembly_map'[f] = file_reassembly_map[f]
  BY <1>1, <1>6 DEF TypeOK
<1>10. \A k \in DOMAIN new : k \in Nat /\ k < Chunks[p.of] /\ new[k] \in Part
  <2> SUFFICES ASSUME NEW k \in DOMAIN new
               PROVE  k \in Nat /\ k < Chunks[p.of]
    <3>1. \A k \in DOMAIN new : k \in Nat => new[k] \in Part
      <4> SUFFICES ASSUME NEW j \in DOMAIN new, j \in Nat
                   PROVE  new[j] \in Part
        OBVIOUS
      <4>1. [of |-> p.of, index |-> j, whole |-> TRUE] \in Part
        BY <1>7 DEF Part
      <4>2. new[j] = [of |-> p.of, index |-> j, whole |-> TRUE]
        BY <1>8
      <4> QED
        BY <4>1, <4>2
    <3> QED
      BY <3>1
  <2>1. CASE k = p.index
    BY <1>1, <1>7, <2>1, PartsNat
  <2>2. CASE k \in DOMAIN old
    <3>1. k \in DOMAIN file_reassembly_map[p.file_id]
      BY <2>2
    <3>2. k \in Nat
      BY <1>6, <3>1 DEF TypeOK
    <3>3. k < Chunks[old[k].of]
      BY <1>5, <1>6, <3>1 DEF Labelled
    <3>4. old[k].of = p.of
      <4>1. old[k] = [of |-> p.of, index |-> k, whole |-> TRUE]
        BY <1>6, <2>2
      <4> QED
        BY <4>1
    <3> QED
      BY <3>2, <3>3, <3>4
  <2> QED
    BY <1>3, <2>1, <2>2
<1>11. \A k \in DOMAIN file_reassembly_map'[p.file_id] :
          /\ k \in DOMAIN new /\ file_reassembly_map'[p.file_id][k] = new[k]
          /\ file_reassembly_map'[p.file_id][k].of = p.of
  BY <1>8, <1>9
<1>12. \A f \in FileId : \A k \in DOMAIN file_reassembly_map'[f] :
          k \in Nat /\ file_reassembly_map'[f][k] \in Part
  <2>1. ASSUME NEW f \in FileId, f # p.file_id
        PROVE  \A k \in DOMAIN file_reassembly_map'[f] :
                  k \in Nat /\ file_reassembly_map'[f][k] \in Part
    BY <1>9, <2>1 DEF TypeOK
  <2> QED
    BY <1>9, <1>10, <2>1
<1>13. LabelsSound'
  <2>1. ASSUME NEW f \in FileId, NEW k \in DOMAIN file_reassembly_map'[f]
        PROVE  LET c == file_reassembly_map'[f][k] IN
               /\ c.of \in File \cap sent /\ id[c.of] = f /\ k < Chunks[c.of]
               /\ c = [of |-> c.of, index |-> k, whole |-> TRUE]
    <3>1. CASE f # p.file_id
      <4>1. file_reassembly_map'[f] = file_reassembly_map[f]
        BY <1>9, <3>1
      <4> QED
        BY <1>5, <4>1 DEF Labelled
    <3>2. CASE f = p.file_id
      <4>1. /\ k \in DOMAIN new /\ file_reassembly_map'[f][k] = new[k]
            /\ new[k].of = p.of
        BY <1>8, <1>9, <3>2
      <4>2. new[k] = [of |-> new[k].of, index |-> k, whole |-> TRUE] /\ k < Chunks[p.of]
        BY <1>8, <1>10, <4>1
      <4> QED
        BY <1>1, <1>7, <3>2, <4>1, <4>2
    <3> QED
      BY <3>1, <3>2
  <2>2. Labelled(id, pr)'
    BY <1>1, <1>2, <1>5, <2>1 DEF Labelled, PacketOf
  <2> QED
    BY <2>2 DEF LabelsSound
<1>14. NothingTwice'
  <2>1. ASSUME NEW q \in Packets', q.of \in File
        PROVE  q.index \notin DOMAIN file_reassembly_map'[q.file_id]
    <3>1. q \in Packets /\ q # p
      BY <1>2
    <3>2. q.file_id \in FileId /\ q.of \in sent /\ q.file_id = id[q.of]
      BY <1>5, <2>1, <3>1, PacketKnown
    <3>3. q.index \notin DOMAIN file_reassembly_map[q.file_id]
      BY <2>1, <3>1 DEF Kept, NothingTwice
    <3>4. CASE q.file_id # p.file_id
      BY <1>9, <3>2, <3>3, <3>4
    <3>5. CASE q.file_id = p.file_id
      <4>1. q.of = p.of
        <5>1. \A f, g \in File \cap sent : id[f] = id[g] => f = g
          BY <1>5 DEF Labelled
        <5>2. id[q.of] = id[p.of] /\ q.of \in File \cap sent /\ p.of \in File \cap sent
          BY <1>1, <1>7, <2>1, <3>2, <3>5
        <5> QED
          BY <5>1, <5>2
      <4>2. q.index # p.index
        BY <1>7, <3>1, <4>1
      <4> QED
        BY <1>3, <1>9, <3>3, <3>5, <4>2
    <3> QED
      BY <3>4, <3>5
  <2>2. ASSUME NEW j \in DOMAIN delivered, NEW f \in FileId, NEW k \in DOMAIN file_reassembly_map'[f]
        PROVE  file_reassembly_map'[f][k].of # delivered[j].of
    <3>1. p.of # delivered[j].of
      BY <1>2 DEF Kept, NothingTwice
    <3>2. CASE f # p.file_id
      <4>1. file_reassembly_map'[f] = file_reassembly_map[f]
        BY <1>9, <3>2
      <4> QED
        BY <4>1 DEF Kept, NothingTwice
    <3>3. CASE f = p.file_id
      <4>1. file_reassembly_map'[f][k].of = p.of
        BY <1>11, <3>3
      <4> QED
        BY <3>1, <4>1
    <3> QED
      BY <3>2, <3>3
  <2>3. ASSUME NEW j \in DOMAIN delivered, NEW q \in Packets'
        PROVE  q.of # delivered[j].of
    BY <1>2 DEF Kept, NothingTwice
  <2> QED
    BY <1>1, <2>1, <2>2, <2>3 DEF NothingTwice
<1>15. PartsKept'
  <2> SUFFICES ASSUME link = "up", NEW y \in sent, NEW k \in Nat, k < Parts(y)
               PROVE  Somewhere(y, k)'
    BY <1>1 DEF PartsKept
  <2>1. CASE y = p.of /\ k = p.index
    <3>1. k \in DOMAIN new /\ file_reassembly_map'[p.file_id][k].of = y
      BY <1>3, <1>9, <2>1
    <3>2. Stored(y, k)'
      BY <1>6, <1>9, <3>1 DEF Stored
    <3> QED
      BY <3>2 DEF Somewhere
  <2>2. CASE \E q \in Packets : q.of = y /\ q.index = k /\ q # p
    BY <1>2, <2>2 DEF Somewhere
  <2>3. CASE Stored(y, k)
    <3>1. PICK f \in FileId : k \in DOMAIN file_reassembly_map[f] /\ file_reassembly_map[f][k].of = y
      BY <2>3 DEF Stored
    <3>2. k \in DOMAIN file_reassembly_map'[f] /\ file_reassembly_map'[f][k].of = y
      <4>1. CASE f # p.file_id
        BY <1>9, <3>1, <4>1
      <4>2. CASE f = p.file_id
        <5>1. k \in DOMAIN new /\ new[k] = old[k] /\ file_reassembly_map'[f] = new
          BY <1>3, <1>6, <1>9, <3>1, <4>2
        <5> QED
          BY <3>1, <4>2, <5>1
      <4> QED
        BY <4>1, <4>2
    <3>3. Stored(y, k)'
      BY <3>1, <3>2 DEF Stored
    <3> QED
      BY <3>3 DEF Somewhere
  <2>4. CASE \E j \in DOMAIN delivered : delivered[j].of = y
    BY <1>1, <2>4 DEF Somewhere
  <2> QED
    BY <2>1, <2>2, <2>3, <2>4 DEF Kept, PartsKept, Somewhere
<1>16. LacksChunk'
  <2> SUFFICES ASSUME NEW f \in FileId, NEW k \in DOMAIN file_reassembly_map'[f]
               PROVE  Cardinality(DOMAIN file_reassembly_map'[f])
                         < Chunks[file_reassembly_map'[f][k].of]
    BY DEF LacksChunk
  <2>1. CASE f # p.file_id
    <3>1. file_reassembly_map'[f] = file_reassembly_map[f]
      BY <1>9, <2>1
    <3> QED
      BY <3>1 DEF Kept, LacksChunk
  <2>2. CASE f = p.file_id
    <3>1. file_reassembly_map'[f] = new /\ file_reassembly_map'[f][k].of = p.of
      BY <1>9, <1>11, <2>2
    <3>2. Cardinality(DOMAIN new) < Chunks[p.of]
      <4>1. Cardinality(DOMAIN new) \in Nat
        <5>1. DOMAIN new \in SUBSET (0 .. Chunks[p.of])
          BY <1>6, <1>10
        <5>2. IsFiniteSet(0 .. Chunks[p.of])
          BY <1>6, FS_Interval
        <5> QED
          BY <5>1, <5>2, FS_Subset, FS_CardinalityType
      <4> QED
        BY <1>4, <1>6, <4>1
    <3> QED
      BY <3>1, <3>2
  <2> QED
    BY <2>1, <2>2
<1>17. IntactParts'
  BY <1>1 DEF Kept, IntactParts
<1> QED
  BY <1>2, <1>9, <1>12, <1>13, <1>14, <1>15, <1>16, <1>17 DEF Kept

\* The chunk that completes a file: all its chunks are there.
LEMMA LastChunkFlow ==
    ASSUME Fits, TypeOK, FlowSound, Kept, ReceiveLastChunk
    PROVE  /\ receive_buffer' \in Seq(Unit) /\ FlowSound' /\ Kept'
           /\ delivered' \in Seq([of : Item, parts : Seq(Part)])
           /\ DOMAIN file_reassembly_map' = FileId
           /\ \A f \in FileId : \A i \in DOMAIN file_reassembly_map'[f] :
                 i \in Nat /\ file_reassembly_map'[f][i] \in Part
<1> DEFINE p == Front
           old == file_reassembly_map[p.file_id]
           new == Reassembly
<1>1. /\ HasPacket /\ p.of \in File /\ IsComplete /\ Consume(Size)
      /\ delivered' = Append(delivered,
            [of |-> p.of, parts |-> [n \in 1 .. p.total |-> new[n - 1]]])
      /\ file_reassembly_map' = [file_reassembly_map EXCEPT ![p.file_id] = NoReassembly]
      /\ UNCHANGED <<send_queue, sent, next_file_id, stream, link>>
  BY DEF ReceiveLastChunk, Deliver, sender_vars
<1>2. /\ receive_buffer' \in Seq(Unit) /\ FlowSound'
      /\ p \in Packets /\ Packets' = Packets \ {p}
      /\ FrontPart = [of |-> p.of, index |-> p.index, whole |-> TRUE]
  BY <1>1, ParseFlow
<1>3. /\ DOMAIN new = DOMAIN old \cup {p.index}
      /\ new[p.index] = [of |-> p.of, index |-> p.index, whole |-> TRUE]
      /\ \A k \in DOMAIN old : k # p.index => new[k] = old[k]
  BY <1>2 DEF Reassembly
<1>4. Cardinality(DOMAIN new) = p.total
  BY <1>1 DEF IsComplete
<1> HIDE DEF p, new
<1>5. PICK id \in [Item -> FileId \cup {0}], pr \in [Item -> Nat] : Labelled(id, pr)
  BY DEF Kept, LabelsSound
<1>6. /\ p.file_id \in FileId /\ p.index \notin DOMAIN old
      /\ \A k \in DOMAIN old : old[k] = [of |-> p.of, index |-> k, whole |-> TRUE]
      /\ p.total = Chunks[p.of] /\ p.total \in Nat
      /\ \A k \in Nat : k < p.total => k \in DOMAIN new
  <2>1. NothingTwice
    BY DEF Kept
  <2> QED
    BY ZenonT(60), <1>1, <1>2, <1>3, <1>4, <1>5, <2>1, Reassembled
<1>7. /\ p.of \in sent /\ p.of \in Item /\ p.file_id = id[p.of] /\ p.total = Parts(p.of)
      /\ \A q \in Packets : q.of = p.of /\ q.index = p.index => q = p
  BY <1>2, <1>5, PacketKnown
<1>8. [n \in 1 .. p.total |-> new[n - 1]] = AllParts(p.of)
  <2>1. ASSUME NEW n \in 1 .. p.total
        PROVE  new[n - 1] = [of |-> p.of, index |-> n - 1, whole |-> TRUE]
    <3>1. n - 1 \in DOMAIN new
      BY <1>6
    <3> QED
      BY <1>3, <1>6, <3>1
  <2> QED
    BY <1>7, <2>1 DEF AllParts
<1>9. \A q \in Packets : q.of = p.of => q = p
  <2> SUFFICES ASSUME NEW q \in Packets, q.of = p.of
               PROVE  q.index = p.index
    BY <1>7
  <2>1. q.index \in Nat /\ q.index < p.total /\ q.file_id = p.file_id
    BY <1>5, <1>7, PacketKnown
  <2>2. q.index \notin DOMAIN old
    BY <1>1, <2>1 DEF Kept, NothingTwice
  <2> QED
    BY <1>3, <1>6, <2>1, <2>2
<1>10. /\ DOMAIN file_reassembly_map' = FileId
       /\ DOMAIN file_reassembly_map'[p.file_id] = {}
       /\ \A f \in FileId : f # p.file_id => file_reassembly_map'[f] = file_reassembly_map[f]
  BY <1>1, <1>6 DEF TypeOK, NoReassembly
<1>11. ASSUME NEW f \in FileId, f # p.file_id, NEW k \in DOMAIN file_reassembly_map[f]
       PROVE  file_reassembly_map[f][k].of # p.of
  <2>1. id[file_reassembly_map[f][k].of] = f
    BY <1>5 DEF Labelled
  <2> QED
    BY <1>7, <1>11, <2>1
<1>12. delivered' = Append(delivered, [of |-> p.of, parts |-> AllParts(p.of)])
  BY <1>1, <1>8
<1>13. \A k \in DOMAIN old : old[k].of = p.of
  <2> SUFFICES ASSUME NEW k \in DOMAIN old
               PROVE  old[k].of = p.of
    OBVIOUS
  <2>1. old[k] = [of |-> p.of, index |-> k, whole |-> TRUE]
    BY <1>6
  <2> QED
    BY <2>1
<1>14. Kept' /\ delivered' \in Seq([of : Item, parts : Seq(Part)])
  <2>1. \A f \in FileId :
           \/ /\ file_reassembly_map'[f] = file_reassembly_map[f]
              /\ \A k \in DOMAIN file_reassembly_map[f] : file_reassembly_map[f][k].of # p.of
           \/ /\ DOMAIN file_reassembly_map'[f] = {}
              /\ \A k \in DOMAIN file_reassembly_map[f] : file_reassembly_map[f][k].of = p.of
    BY <1>10, <1>11, <1>13
  <2> QED
    BY <1>1, <1>2, <1>9, <1>12, <2>1, DeliverKept
<1>15. \A f \in FileId : \A i \in DOMAIN file_reassembly_map'[f] :
          i \in Nat /\ file_reassembly_map'[f][i] \in Part
  BY <1>10 DEF TypeOK
<1> QED
  BY <1>2, <1>10, <1>14, <1>15

-----------------------------------------------------------------------------
(* The theorems.                                                           *)

\* sendFile finds an identifier that is left: it gives one to each file.
LEMMA IdLeft ==
    ASSUME TypeOK, IdsCounted, NEW f \in File, f \notin sent
    PROVE  /\ next_file_id \in FileId
           /\ next_file_id + 1 \in 1 .. Cardinality(File) + 1
           /\ next_file_id + 1 = Cardinality((sent \cup {f}) \cap File) + 1
<1> DEFINE A == sent \cap File
           B == A \cup {f}
<1>1. B = (sent \cup {f}) \cap File /\ f \notin A /\ A \in SUBSET File /\ B \in SUBSET File
  OBVIOUS
<1>2. IsFiniteSet(A) /\ Cardinality(A) \in Nat
  BY <1>1, FileAssumption, FS_Subset, FS_CardinalityType
<1> HIDE DEF A
<1>3. Cardinality(B) = Cardinality(A) + 1
  BY <1>1, <1>2, FS_AddElement
<1> HIDE DEF B
<1>4. Cardinality(B) <= Cardinality(File) /\ Cardinality(File) \in Nat
  BY <1>1, FileAssumption, FS_Subset, FS_CardinalityType
<1>5. next_file_id = Cardinality(A) + 1
  BY DEF IdsCounted, A
<1> QED
  BY <1>1, <1>2, <1>3, <1>4, <1>5 DEF FileId

\* The calls that send are sends of an item.
LEMMA SendMessageSends ==
    ASSUME TypeOK, IdsCounted, NEW m \in Message, NEW prio \in Priority, SendMessage(m, prio)
    PROVE  /\ Sends(m, 0, prio) /\ next_file_id' = next_file_id /\ sent' \subseteq Item
           /\ IdsCounted'
<1>1. /\ m \notin sent /\ sent' = sent \cup {m} /\ next_file_id' = next_file_id
      /\ send_queue' = send_queue \cup
            {[of |-> m, file_id |-> 0, index |-> 0, total |-> 1, priority |-> prio]}
      /\ UNCHANGED <<stream, link, receiver_vars>>
  BY DEF SendMessage
<1>2. m \in Item /\ m \notin File /\ Parts(m) = 1
  BY PartsNat
<1>3. PacketsOf(m, 0, prio)
        = {[of |-> m, file_id |-> 0, index |-> 0, total |-> 1, priority |-> prio]}
  <2>1. {j \in 0 .. Parts(m) : j < Parts(m)} = {0}
    BY <1>2
  <2> QED
    BY <1>2, <2>1 DEF PacketsOf
<1>4. Sends(m, 0, prio)
  BY <1>1, <1>2, <1>3 DEF Sends
<1>5. sent' \subseteq Item
  BY <1>1, <1>2 DEF TypeOK
<1>6. sent' \cap File = sent \cap File
  BY <1>1, <1>2
<1> QED
  BY <1>1, <1>4, <1>5, <1>6 DEF IdsCounted

\* A file takes the next identifier.
LEMMA SendFileSends ==
    ASSUME TypeOK, IdsCounted, NEW f \in File, NEW prio \in Priority, SendFile(f, prio)
    PROVE  /\ Sends(f, next_file_id, prio) /\ sent' \subseteq Item
           /\ next_file_id' \in 1 .. Cardinality(File) + 1
           /\ IdsCounted'
<1>1. /\ f \notin sent /\ sent' = sent \cup {f} /\ next_file_id' = next_file_id + 1
      /\ send_queue' = send_queue \cup
            {[of |-> f, file_id |-> next_file_id, index |-> i, total |-> Chunks[f],
              priority |-> prio] : i \in {j \in 0 .. Chunks[f] : j < Chunks[f]}}
      /\ UNCHANGED <<stream, link, receiver_vars>>
  BY DEF SendFile
<1>2. f \in Item /\ f \notin Message /\ Parts(f) = Chunks[f]
  BY PartsNat
<1>3. /\ next_file_id \in FileId
      /\ next_file_id + 1 \in 1 .. Cardinality(File) + 1
      /\ next_file_id + 1 = Cardinality((sent \cup {f}) \cap File) + 1
  BY <1>1, IdLeft
<1>4. send_queue' = send_queue \cup PacketsOf(f, next_file_id, prio)
  BY <1>1, <1>2 DEF PacketsOf
<1>5. Sends(f, next_file_id, prio)
  BY <1>1, <1>2, <1>3, <1>4 DEF Sends
<1>6. sent' \subseteq Item
  BY <1>1, <1>2 DEF TypeOK
<1> QED
  BY <1>1, <1>3, <1>5, <1>6 DEF IdsCounted

\* Nothing was sent.
LEMMA ProtocolStart == ASSUME Fits, Init PROVE ProtocolInv
<1>1. /\ send_queue = {} /\ sent = {} /\ next_file_id = 1 /\ stream = <<>> /\ link = "up"
      /\ receive_buffer = <<>> /\ delivered = <<>>
      /\ file_reassembly_map = [f \in FileId |-> NoReassembly]
  BY DEF Init
<1>2. Cardinality(File) \in Nat
  BY FileAssumption, FS_CardinalityType
<1>3. \A f \in FileId : DOMAIN file_reassembly_map[f] = {}
  BY <1>1 DEF NoReassembly
<1>4. TypeOK
  BY <1>1, <1>2, <1>3 DEF TypeOK
<1>5. Total = 0
  BY <1>1 DEF Total
<1>6. FlowSound
  BY <1>1, <1>5 DEF FlowSound, Blocks, Distinct, Complete
<1>7. Packets = {}
  BY <1>1, <1>5 DEF Packets
<1>8. LabelsSound
  <2> DEFINE zero == [x \in Item |-> 0]
  <2>1. zero \in [Item -> FileId \cup {0}] /\ zero \in [Item -> Nat]
    OBVIOUS
  <2>2. \A m \in Message : zero[m] = 0
    BY PartsNat
  <2> HIDE DEF zero
  <2>3. Labelled(zero, zero)
    BY <1>1, <1>3, <1>7, <2>2 DEF Labelled
  <2> QED
    BY <2>1, <2>3 DEF LabelsSound
<1>9. NothingTwice /\ PartsKept /\ LacksChunk /\ IntactParts
  BY <1>1, <1>3, <1>7 DEF NothingTwice, PartsKept, LacksChunk, IntactParts
<1>10. IdsCounted
  <2>1. sent \cap File = {}
    BY <1>1
  <2> QED
    BY <1>1, <2>1, FS_EmptySet DEF IdsCounted
<1> QED
  BY <1>4, <1>6, <1>8, <1>9, <1>10 DEF ProtocolInv

\* Every step keeps the invariant.
LEMMA ProtocolStep == ASSUME ProtocolInv, [Next]_vars PROVE ProtocolInv'
<1>1. Fits /\ TypeOK /\ FlowSound /\ Kept /\ IdsCounted
  BY DEF ProtocolInv, Kept
<1> SUFFICES TypeOK' /\ FlowSound' /\ Kept' /\ IdsCounted'
  BY <1>1 DEF ProtocolInv, Kept, Fits
<1>2. ASSUME NEW m \in Message, NEW prio \in Priority, SendMessage(m, prio)
      PROVE  TypeOK' /\ FlowSound' /\ Kept' /\ IdsCounted'
  <2>1. /\ Sends(m, 0, prio) /\ next_file_id' = next_file_id /\ sent' \subseteq Item
        /\ IdsCounted'
    BY <1>1, <1>2, SendMessageSends
  <2>2. send_queue' \subseteq Packet /\ FlowSound'
    BY <1>1, <2>1, SendsFlow DEF Kept
  <2>3. Kept'
    BY <1>1, <2>1, SendsKept
  <2>4. TypeOK'
    BY <1>1, <1>2, <2>1, <2>2 DEF TypeOK, SendMessage, receiver_vars
  <2> QED
    BY <2>1, <2>2, <2>3, <2>4
<1>3. ASSUME NEW f \in File, NEW prio \in Priority, SendFile(f, prio)
      PROVE  TypeOK' /\ FlowSound' /\ Kept' /\ IdsCounted'
  <2>1. /\ Sends(f, next_file_id, prio) /\ sent' \subseteq Item
        /\ next_file_id' \in 1 .. Cardinality(File) + 1
        /\ IdsCounted'
    BY <1>1, <1>3, SendFileSends
  <2>2. send_queue' \subseteq Packet /\ FlowSound'
    BY <1>1, <2>1, SendsFlow DEF Kept
  <2>3. Kept'
    BY <1>1, <2>1, SendsKept
  <2>4. TypeOK'
    BY <1>1, <1>3, <2>1, <2>2 DEF TypeOK, SendFile, receiver_vars
  <2> QED
    BY <2>1, <2>2, <2>3, <2>4
<1>4. CASE ProcessSendData
  <2>1. UNCHANGED <<sent, next_file_id, link, receive_buffer, file_reassembly_map, delivered>>
    BY <1>4 DEF ProcessSendData, receiver_vars
  <2>2. /\ send_queue' \subseteq Packet /\ stream' \in Seq(Unit)
        /\ FlowSound' /\ Packets' = Packets
    BY <1>1, <1>4, SendFlow
  <2>3. Kept'
    BY <1>1, <2>1, <2>2, MovesKept
  <2>4. TypeOK' /\ IdsCounted'
    BY <1>1, <2>1, <2>2 DEF TypeOK, IdsCounted
  <2> QED
    BY <2>2, <2>3, <2>4
<1>5. CASE ProcessSendData_Fail
  <2>1. /\ UNCHANGED <<send_queue, sent, next_file_id, receive_buffer, file_reassembly_map, delivered>>
        /\ link' = "down"
    BY <1>5 DEF ProcessSendData_Fail, sender_vars, receiver_vars
  <2>2. stream' \in Seq(Unit) /\ FlowSound' /\ Packets' \subseteq Packets
    BY <1>1, <1>5, FailFlow
  <2>3. Kept'
    BY <1>1, <2>1, <2>2, MovesKept
  <2>4. TypeOK' /\ IdsCounted'
    BY <1>1, <2>1, <2>2 DEF TypeOK, IdsCounted
  <2> QED
    BY <2>2, <2>3, <2>4
<1>6. CASE Receive
  <2>1. UNCHANGED <<send_queue, sent, next_file_id, link, file_reassembly_map, delivered>>
    BY <1>6 DEF Receive, sender_vars
  <2>2. /\ receive_buffer' \in Seq(Unit) /\ stream' \in Seq(Unit)
        /\ FlowSound' /\ Packets' = Packets
    BY <1>1, <1>6, ReceiveFlow
  <2>3. Kept'
    BY <1>1, <2>1, <2>2, MovesKept
  <2>4. TypeOK' /\ IdsCounted'
    BY <1>1, <2>1, <2>2 DEF TypeOK, IdsCounted
  <2> QED
    BY <2>2, <2>3, <2>4
<1>7. CASE ReceiveMessage
  <2>1. UNCHANGED <<send_queue, sent, next_file_id, stream, link, file_reassembly_map>>
    BY <1>7 DEF ReceiveMessage, sender_vars
  <2>2. /\ receive_buffer' \in Seq(Unit) /\ FlowSound'
        /\ Kept' /\ delivered' \in Seq([of : Item, parts : Seq(Part)])
    BY <1>1, <1>7, MessageFlow
  <2>3. TypeOK' /\ IdsCounted'
    BY <1>1, <2>1, <2>2 DEF TypeOK, IdsCounted
  <2> QED
    BY <2>2, <2>3
<1>8. CASE ReceiveChunk
  <2>1. UNCHANGED <<send_queue, sent, next_file_id, stream, link, delivered>>
    BY <1>8 DEF ReceiveChunk, sender_vars
  <2>2. /\ receive_buffer' \in Seq(Unit) /\ FlowSound' /\ Kept'
        /\ DOMAIN file_reassembly_map' = FileId
        /\ \A f \in FileId : \A i \in DOMAIN file_reassembly_map'[f] :
              i \in Nat /\ file_reassembly_map'[f][i] \in Part
    BY <1>1, <1>8, ChunkFlow
  <2>3. TypeOK' /\ IdsCounted'
    BY <1>1, <2>1, <2>2 DEF TypeOK, IdsCounted
  <2> QED
    BY <2>2, <2>3
<1>9. CASE ReceiveLastChunk
  <2>1. UNCHANGED <<send_queue, sent, next_file_id, stream, link>>
    BY <1>9 DEF ReceiveLastChunk, sender_vars
  <2>2. /\ receive_buffer' \in Seq(Unit) /\ FlowSound' /\ Kept'
        /\ delivered' \in Seq([of : Item, parts : Seq(Part)])
        /\ DOMAIN file_reassembly_map' = FileId
        /\ \A f \in FileId : \A i \in DOMAIN file_reassembly_map'[f] :
              i \in Nat /\ file_reassembly_map'[f][i] \in Part
    BY <1>1, <1>9, LastChunkFlow
  <2>3. TypeOK' /\ IdsCounted'
    BY <1>1, <2>1, <2>2 DEF TypeOK, IdsCounted
  <2> QED
    BY <2>2, <2>3
<1>10. CASE UNCHANGED vars
  <2>1. /\ Total' = Total /\ Flow' = Flow
        /\ UNCHANGED <<send_queue, sent, next_file_id, stream, link, receive_buffer,
                       file_reassembly_map, delivered>>
    BY <1>10 DEF vars, Total, Flow
  <2>2. FlowSound' /\ Packets' = Packets
    BY <1>1, <2>1 DEF FlowSound, Blocks, Distinct, Complete, SizeOf, Packets
  <2>3. Kept'
    BY <1>1, <2>1, <2>2, MovesKept
  <2>4. TypeOK' /\ IdsCounted'
    BY <1>1, <2>1 DEF TypeOK, IdsCounted
  <2> QED
    BY <2>2, <2>3, <2>4
<1> QED
  BY <1>2, <1>3, <1>4, <1>5, <1>6, <1>7, <1>8, <1>9, <1>10 DEF Next, ProcessReceivedData

\* As long as no packet is too long the whole of the invariant holds: packets are
\* in order on their way, and each part of what was sent is in one place.
THEOREM ProtocolInvariant == Fits => (Spec => []ProtocolInv)
<1>1. Fits /\ Init => ProtocolInv
  BY ProtocolStart
<1>2. ProtocolInv /\ [Next]_vars => ProtocolInv'
  BY ProtocolStep
<1>3. Fits => (Init => ProtocolInv)
  BY <1>1
<1> QED
  BY <1>2, <1>3, PTL DEF Spec

\* Every variable keeps its type: sendFile never runs out of identifiers, and only
\* parts of items are put together.
THEOREM ProtocolTypes == Fits => (Spec => []TypeOK)
<1>1. ProtocolInv => TypeOK
  BY DEF ProtocolInv
<1> QED
  BY <1>1, ProtocolInvariant, PTL

\* receive_callback gets each message and file once and as it was sent, however
\* the packets were ordered in the queue and cut by recv.
THEOREM DeliveredIntact == Fits => (Spec => []Intact)
<1>1. ProtocolInv => Intact
  <2> SUFFICES ASSUME TypeOK, IntactParts PROVE Intact
    BY DEF ProtocolInv
  <2>1. ASSUME NEW i \in DOMAIN delivered
        PROVE  LET x == delivered[i].of parts == delivered[i].parts IN
               /\ x \in sent
               /\ \A n \in DOMAIN parts : parts[n] = [of |-> x, index |-> n - 1, whole |-> TRUE]
               /\ {n - 1 : n \in DOMAIN parts} = Indices(x)
    <3> DEFINE x == delivered[i].of
               parts == delivered[i].parts
               q == Parts(x)
    <3>1. x \in sent /\ x \in Item
      BY DEF IntactParts, TypeOK
    <3>2. parts = [n \in 1 .. q |-> [of |-> x, index |-> n - 1, whole |-> TRUE]]
      BY DEF IntactParts
    <3>3. q \in Nat /\ Indices(x) = {k \in Nat : k < q}
      BY <3>1, PartsAreIndices
    <3> HIDE DEF x, parts, q
    <3>4. {n - 1 : n \in 1 .. q} = {k \in Nat : k < q}
      <4>1. \A k \in Nat : k < q => k + 1 \in 1 .. q /\ k = (k + 1) - 1
        BY <3>3
      <4>2. \A n \in 1 .. q : n - 1 \in Nat /\ n - 1 < q
        BY <3>3
      <4> QED
        BY <4>1, <4>2
    <3>5. DOMAIN parts = 1 .. q
      BY <3>2
    <3>6. \A n \in DOMAIN parts : parts[n] = [of |-> x, index |-> n - 1, whole |-> TRUE]
      BY <3>2, <3>5
    <3>7. {n - 1 : n \in DOMAIN parts} = Indices(x)
      BY <3>3, <3>4, <3>5, Zenon
    <3> QED
      BY <3>1, <3>6, <3>7 DEF x, parts
  <2> QED
    BY <2>1 DEF Intact, IntactParts
<1> QED
  BY <1>1, ProtocolInvariant, PTL

\* No entry of file_reassembly_map is left behind by a file that was delivered.
THEOREM NoEntryLeft == Fits => (Spec => []ReassemblyIncomplete)
<1>1. ProtocolInv => ReassemblyIncomplete
  <2> SUFFICES ASSUME ProtocolInv, NEW f \in FileId, NEW k \in DOMAIN file_reassembly_map[f]
               PROVE  LET part == file_reassembly_map[f][k] IN
                      /\ \E i \in Indices(part.of) : i \notin DOMAIN file_reassembly_map[f]
                      /\ \A i \in DOMAIN delivered : delivered[i].of # part.of
    BY DEF ReassemblyIncomplete
  <2> DEFINE x == file_reassembly_map[f][k].of
             d == DOMAIN file_reassembly_map[f]
             q == Parts(x)
  <2>1. \A i \in DOMAIN delivered : delivered[i].of # x
    BY DEF ProtocolInv, NothingTwice
  <2>2. x \in File /\ Cardinality(d) < Chunks[x]
    BY ChunksKnown DEF ProtocolInv, LacksChunk, LabelsSound
  <2>3. q = Chunks[x] /\ q \in Nat /\ Indices(x) = {i \in Nat : i < q}
    BY <2>2, PartsAreIndices DEF Parts, Item
  <2>4. \A i \in d : i \in Nat /\ i < q
    BY <2>2, <2>3, OneFileUnderId DEF ProtocolInv
  <2> HIDE DEF x, d, q
  <2>5. \E i \in Indices(x) : i \notin d
    <3> SUFFICES ASSUME d = Indices(x) PROVE FALSE
      BY <2>3, <2>4
    <3>1. d = 0 .. q - 1
      BY <2>3
    <3>2. Cardinality(d) = q
      <4>1. 0 \in Int /\ q - 1 \in Int
        BY <2>3
      <4>2. Cardinality(0 .. q - 1) = IF 0 > q - 1 THEN 0 ELSE q - 1 - 0 + 1
        BY <4>1, FS_Interval
      <4>3. (IF 0 > q - 1 THEN 0 ELSE q - 1 - 0 + 1) = q
        BY <2>3
      <4> QED
        BY <3>1, <4>2, <4>3, Zenon
    <3> QED
      BY <2>2, <2>3, <3>2
  <2> QED
    BY <2>1, <2>5 DEF x, d
<1> QED
  BY <1>1, ProtocolInvariant, PTL

\* While the link is up a packet that is not in the queue is on its way from its
\* first unit on.
LEMMA OnTheWayPackets ==
    ASSUME TypeOK, FlowSound, link = "up", NEW x, NEW k
    PROVE  OnTheWay(x, k) <=> \E i \in 1 .. Total : Flow[i][1].of = x /\ Flow[i][1].index = k
<1>1. /\ Total \in Nat /\ Flow \in Units(Total)
      /\ Flow = Joint(receive_buffer, stream)
      /\ receive_buffer \in Seq(Unit) /\ stream \in Seq(Unit)
      /\ Len(receive_buffer) \in Nat /\ Len(stream) \in Nat
      /\ Total = Len(receive_buffer) + Len(stream)
  BY FlowType
<1>2. /\ \A i \in 1 .. Len(receive_buffer) : Flow[i] = receive_buffer[i]
      /\ \A i \in 1 .. Len(stream) : Flow[Len(receive_buffer) + i] = stream[i]
  BY <1>1, JointUnits
<1>3. DOMAIN receive_buffer = 1 .. Len(receive_buffer) /\ DOMAIN stream = 1 .. Len(stream)
  BY <1>1, LenProperties
<1>4. ASSUME OnTheWay(x, k)
      PROVE  \E i \in 1 .. Total : Flow[i][1].of = x /\ Flow[i][1].index = k
  <2>1. CASE \E i \in DOMAIN receive_buffer :
                receive_buffer[i][1].of = x /\ receive_buffer[i][1].index = k
    <3>1. PICK i \in 1 .. Len(receive_buffer) :
             receive_buffer[i][1].of = x /\ receive_buffer[i][1].index = k
      BY <1>3, <2>1
    <3>2. i \in 1 .. Total /\ Flow[i] = receive_buffer[i]
      BY <1>1, <1>2
    <3> QED
      BY <3>1, <3>2
  <2>2. CASE \E i \in DOMAIN stream : stream[i][1].of = x /\ stream[i][1].index = k
    <3>1. PICK i \in 1 .. Len(stream) : stream[i][1].of = x /\ stream[i][1].index = k
      BY <1>3, <2>2
    <3>2. Len(receive_buffer) + i \in 1 .. Total /\ Flow[Len(receive_buffer) + i] = stream[i]
      BY <1>1, <1>2
    <3> QED
      BY <3>1, <3>2
  <2> QED
    BY <1>4, <2>1, <2>2 DEF OnTheWay
<1>5. ASSUME NEW i \in 1 .. Total, Flow[i][1].of = x, Flow[i][1].index = k
      PROVE  OnTheWay(x, k)
  <2> DEFINE p == Flow[i][1]
  <2>1. /\ Flow[i][2] \in Nat \ {0} /\ SizeOf(p) \in Nat \ {0} /\ Flow[i][2] <= i
    BY <1>1, UnitType DEF FlowSound, Blocks
  <2>2. PICK j \in 1 .. Total : j = i - Flow[i][2] + 1
    BY <1>1, <2>1
  <2>3. Flow[j] = <<p, 1>>
    <3>1. \A n \in 1 .. SizeOf(p) : i - Flow[i][2] + n <= Total
             => Flow[i - Flow[i][2] + n] = <<p, n>>
      BY DEF FlowSound, Blocks
    <3>2. 1 \in 1 .. SizeOf(p) /\ i - Flow[i][2] + 1 <= Total
      BY <1>1, <2>1, <2>2
    <3> QED
      BY <2>2, <3>1, <3>2
  <2>4. Flow[j][2] = 1 /\ Flow[j][1].of = x /\ Flow[j][1].index = k
    BY <1>5, <2>3
  <2>5. CASE j <= Len(receive_buffer)
    <3>1. j \in DOMAIN receive_buffer /\ receive_buffer[j] = Flow[j]
      BY <1>1, <1>2, <1>3, <2>5
    <3> QED
      BY <2>4, <3>1 DEF OnTheWay
  <2>6. CASE j > Len(receive_buffer)
    <3>1. /\ j - Len(receive_buffer) \in 1 .. Len(stream)
          /\ Len(receive_buffer) + (j - Len(receive_buffer)) = j
      BY <1>1, <2>6
    <3>2. stream[j - Len(receive_buffer)] = Flow[j]
      BY <1>2, <3>1
    <3>3. j - Len(receive_buffer) \in DOMAIN stream
      BY <1>3, <3>1
    <3> QED
      BY <2>4, <3>2, <3>3 DEF OnTheWay
  <2> QED
    BY <1>1, <2>5, <2>6
<1> QED
  BY <1>4, <1>5

\* The queue and the flow have no packet in common, the chunks none that is a packet.
LEMMA OnePlace ==
    ASSUME ProtocolInv, link = "up", NEW x \in sent, NEW k \in Nat, k < Parts(x)
    PROVE  \E place \in Places(x, k) : Places(x, k) = {place}
<1> DEFINE Q == \E p \in send_queue : p.of = x /\ p.index = k
           W == \E i \in 1 .. Total : Flow[i][1].of = x /\ Flow[i][1].index = k
           S == Stored(x, k)
           D == \E i \in DOMAIN delivered : delivered[i].of = x
<1>1. TypeOK /\ FlowSound /\ NothingTwice
  BY DEF ProtocolInv
<1>2. PICK id \in [Item -> FileId \cup {0}], pr \in [Item -> Nat] : Labelled(id, pr)
  BY DEF ProtocolInv, LabelsSound
<1>3. OnTheWay(x, k) <=> W
  BY <1>1, OnTheWayPackets
<1>4. Q \/ W \/ S \/ D
  <2>1. Somewhere(x, k)
    BY DEF ProtocolInv, PartsKept
  <2>2. CASE \E p \in Packets : p.of = x /\ p.index = k
    BY <2>2 DEF Packets
  <2> QED
    BY <2>1, <2>2 DEF Somewhere
<1>5. (Q \/ W) => \E p \in Packets : p.of = x /\ p.index = k
  BY DEF Packets
<1>6. ~ (Q /\ W)
  <2> SUFFICES ASSUME NEW p \in send_queue, p.of = x, p.index = k,
                      NEW i \in 1 .. Total, Flow[i][1].of = x, Flow[i][1].index = k
               PROVE  FALSE
    OBVIOUS
  <2>1. p \in Packets /\ Flow[i][1] \in Packets
    BY DEF Packets
  <2>2. Flow[i][1] = p
    BY <1>1, <1>2, <2>1, PacketKnown
  <2> QED
    BY <1>1, <2>2, QueueApart
<1>7. ~ ((Q \/ W) /\ S)
  <2> SUFFICES ASSUME NEW p \in Packets, p.of = x, p.index = k,
                      NEW f \in FileId, k \in DOMAIN file_reassembly_map[f],
                      file_reassembly_map[f][k].of = x
               PROVE  FALSE
    BY <1>5 DEF Stored
  <2>1. p.file_id = id[x]
    BY <1>1, <1>2, PacketKnown
  <2>2. x \in File /\ id[x] = f
    <3>1. /\ file_reassembly_map[f][k].of \in File
          /\ id[file_reassembly_map[f][k].of] = f
      BY <1>2 DEF Labelled
    <3> QED
      BY <3>1
  <2> QED
    BY <1>1, <2>1, <2>2 DEF NothingTwice
<1>8. ~ ((Q \/ W) /\ D)
  BY <1>1, <1>5 DEF NothingTwice
<1>9. ~ (S /\ D)
  BY <1>1 DEF NothingTwice, Stored
<1>10. Places(x, k) =
          {place \in {"queue", "wire", "stored", "delivered"} :
              \/ place = "queue" /\ Q
              \/ place = "wire" /\ W
              \/ place = "stored" /\ S
              \/ place = "delivered" /\ D}
  BY <1>3 DEF Places
<1> HIDE DEF Q, W, S, D
<1>11. CASE Q
  <2>1. Places(x, k) = {"queue"}
    BY <1>6, <1>7, <1>8, <1>10, <1>11
  <2> QED
    BY <2>1
<1>12. CASE W
  <2>1. Places(x, k) = {"wire"}
    BY <1>6, <1>7, <1>8, <1>10, <1>12
  <2> QED
    BY <2>1
<1>13. CASE S
  <2>1. Places(x, k) = {"stored"}
    BY <1>7, <1>9, <1>10, <1>13
  <2> QED
    BY <2>1
<1>14. CASE D
  <2>1. Places(x, k) = {"delivered"}
    BY <1>8, <1>9, <1>10, <1>14
  <2> QED
    BY <2>1
<1> QED
  BY <1>4, <1>11, <1>12, <1>13, <1>14

\* Unless the connection breaks nothing that was sent is lost, or there twice: each
\* part is in the queue, on its way, stored, or delivered.
THEOREM NothingIsLost == Fits => (Spec => []NothingLost)
<1>1. ProtocolInv => NothingLost
  <2> SUFFICES ASSUME ProtocolInv, link = "up", NEW x \in sent, NEW k \in Indices(x)
               PROVE  \E place \in Places(x, k) : Places(x, k) = {place}
    BY DEF NothingLost
  <2>1. x \in Item
    BY DEF ProtocolInv, TypeOK
  <2>2. k \in Nat /\ k < Parts(x)
    BY <2>1, PartsAreIndices
  <2> QED
    BY <2>2, OnePlace
<1> QED
  BY <1>1, ProtocolInvariant, PTL
===============================================================================
