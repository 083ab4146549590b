------------------------ MODULE JostickTcpStreamProofs ------------------------
(***************************************************************************)
(* ArrivesOnce, for any size of packets and pieces: what an end receives   *)
(* is what the other has written.  The units between two ends are made of  *)
(* whole packets, the next ones written and not yet received, and of the   *)
(* beginning of the packet that is being written; a failure may leave a    *)
(* part of a packet at the end, after which nothing is written any more.   *)
(*                                                                         *)
(* And LostInLastRound: close() by the client takes nothing away that is   *)
(* on its way to the session, unless it resets the connection, so what the *)
(* session received at its end is all but what WorkerThread leaves unread  *)
(* in the round that finds the closing.                                    *)
(***************************************************************************)
EXTENDS JostickTcpSessionProofs

-----------------------------------------------------------------------------
(* Sequences of units, apart from the state.                               *)

\* How many units come before packet q, counted from 0.
Start(q) == q * PacketSize

\* g has been received of what was written, w, and the whole packets in u are
\* the next ones.
Flows(u, g, w) ==
    /\ Len(g) <= Len(w)
    /\ \A i \in 1 .. Len(g) : g[i] = w[i]
    /\ \A q \in Nat : Start(q + 1) <= Len(u) =>
          /\ Len(g) + q + 1 <= Len(w)
          /\ \A r \in 1 .. PacketSize : u[Start(q) + r] = <<w[Len(g) + q + 1], r>>

\* u ends, after a units, with the first k units of packet m.
EndsWith(u, a, m, k) ==
    /\ Len(u) = a + k
    /\ \A r \in 1 .. k : u[a + r] = <<m, r>>

\* After all packets of w that are not in g come k units of packet m.
EndsIn(u, g, w, m, k) == EndsWith(u, Start(Len(w) - Len(g)), m, k)

\* p is what comes after g in w.
Continues(p, g, w) == \A i \in 1 .. Len(p) : p[i] = w[Len(g) + i]

\* What the provers need to know of products.
LEMMA StartNat == \A q \in Nat : Start(q) \in Nat
<1>1. \A a, c \in Nat : a * c \in Nat
  BY SMTT(30)
<1> QED
  BY <1>1, SizeAssumption DEF Start

\* Places of packets add up ...
LEMMA StartSum == \A q, k \in Nat : Start(q + k) = Start(q) + Start(k)
<1>1. \A a, b, c \in Nat : (a + b) * c = a * c + b * c
  BY SMTT(30)
<1> QED
  BY <1>1, SizeAssumption DEF Start

\* ... a packet takes PacketSize units ...
LEMMA StartNext == \A q \in Nat : Start(q + 1) = Start(q) + PacketSize
<1>1. \A a, c \in Nat : (a + 1) * c = a * c + c
  BY SMTT(30)
<1> QED
  BY <1>1, SizeAssumption DEF Start

\* ... and later packets come later.
LEMMA StartOrder == \A q, k \in Nat : q <= k <=> Start(q) <= Start(k)
<1>1. PacketSize \in Nat /\ PacketSize > 0
  BY SizeAssumption
<1>2. \A a, b, c \in Nat : a <= b => a * c <= b * c
  BY SMTT(30)
<1>3. \A a, b, c \in Nat : c > 0 /\ a * c <= b * c => a <= b
  BY SMTT(30)
<1> QED
  BY <1>1, <1>2, <1>3 DEF Start

\* The first message of a queue goes to the end of another.
LEMMA MovedMessage ==
    ASSUME NEW S, NEW s \in Seq(S), NEW t \in Seq(S), t # <<>>
    PROVE  Append(s, Head(t)) \o Tail(t) = s \o t
<1>1. Head(t) \in S /\ Tail(t) \in Seq(S) /\ t = <<Head(t)>> \o Tail(t)
  BY HeadTailProperties
<1>2. Append(s, Head(t)) = s \o <<Head(t)>>
  BY <1>1, AppendIsConcat
<1>3. <<Head(t)>> \in Seq(S)
  BY <1>1
<1>4. (s \o <<Head(t)>>) \o Tail(t) = s \o (<<Head(t)>> \o Tail(t))
  BY <1>1, <1>3, ConcatAssociative
<1> QED
  BY <1>1, <1>2, <1>4

\* What follows the first c elements of a sequence.
LEMMA RestOfSeq ==
    ASSUME NEW S, NEW s \in Seq(S), NEW c \in Nat, c <= Len(s)
    PROVE  /\ SubSeq(s, c + 1, Len(s)) \in Seq(S)
           /\ Len(SubSeq(s, c + 1, Len(s))) = Len(s) - c
           /\ \A j \in 1 .. Len(s) - c : SubSeq(s, c + 1, Len(s))[j] = s[c + j]
<1>1. Len(s) \in Nat
  BY LenProperties
<1>2. SubSeq(s, c + 1, Len(s)) \in Seq(S)
  BY <1>1, PartOfSeq
<1>3. \A i \in (c + 1) .. Len(s) : s[i] \in S
  BY <1>1, ElementOfSeq
<1>4. /\ Len(SubSeq(s, c + 1, Len(s))) = Len(s) - c
      /\ \A j \in 1 .. Len(s) - c : SubSeq(s, c + 1, Len(s))[j] = s[c + j]
  BY <1>1
<1> QED
  BY <1>2, <1>4

\* Where the elements of two sequences are in their concatenation.
LEMMA Joined ==
    ASSUME NEW S, NEW s \in Seq(S), NEW t \in Seq(S)
    PROVE  /\ Len(s \o t) = Len(s) + Len(t)
           /\ \A j \in 1 .. Len(s) : (s \o t)[j] = s[j]
           /\ \A j \in 1 .. Len(t) : (s \o t)[Len(s) + j] = t[j]
<1> DEFINE v == s \o t
<1>1. Len(s) \in Nat /\ Len(t) \in Nat
  BY LenProperties
<1>2. /\ Len(v) = Len(s) + Len(t)
      /\ \A i \in 1 .. Len(s) + Len(t) : v[i] = IF i <= Len(s) THEN s[i] ELSE t[i - Len(s)]
  BY ConcatProperties
<1> HIDE DEF v
<1>3. \A j \in 1 .. Len(s) : v[j] = s[j]
  BY <1>1, <1>2
<1>4. \A j \in 1 .. Len(t) : v[Len(s) + j] = t[j]
  BY <1>1, <1>2
<1> QED
  BY <1>2, <1>3, <1>4 DEF v

\* The beginning of a concatenation, and what is left of it.
LEMMA HeadOfConcat ==
    ASSUME NEW S, NEW s \in Seq(S), NEW t \in Seq(S), NEW n \in 0 .. Len(t)
    PROVE  s \o SubSeq(t, 1, n) = SubSeq(s \o t, 1, Len(s) + n)
<1> DEFINE p == SubSeq(t, 1, n)
           v == s \o t
           x == s \o p
           y == SubSeq(v, 1, Len(s) + n)
<1>1. Len(s) \in Nat /\ Len(t) \in Nat /\ n \in Nat /\ n <= Len(t)
  BY LenProperties
<1>2. v \in Seq(S) /\ Len(v) = Len(s) + Len(t)
  BY ConcatProperties
<1>3. /\ \A j \in 1 .. Len(s) : v[j] = s[j]
      /\ \A j \in 1 .. Len(t) : v[Len(s) + j] = t[j]
  BY Joined
<1>4. p \in Seq(S)
  BY <1>1, PartOfSeq
<1>5. Len(p) = n /\ \A j \in 1 .. n : p[j] = t[j]
  BY <1>1
<1> HIDE DEF p, v
<1>6. x \in Seq(S)
  BY <1>4, ConcatProperties
<1>7. /\ Len(x) = Len(s) + Len(p)
      /\ \A j \in 1 .. Len(s) : x[j] = s[j]
      /\ \A j \in 1 .. Len(p) : x[Len(s) + j] = p[j]
  BY <1>4, Joined
<1>8. y \in Seq(S)
  BY <1>1, <1>2, PartOfSeq
<1>9. Len(y) = Len(s) + n /\ \A j \in 1 .. Len(s) + n : y[j] = v[j]
  BY <1>1, <1>2
<1> HIDE DEF x, y
<1>10. ASSUME NEW j \in 1 .. Len(s) + n
       PROVE  x[j] = y[j]
  <2>1. CASE j <= Len(s)
    BY <1>1, <1>3, <1>7, <1>9, <2>1
  <2>2. CASE j > Len(s)
    <3>1. j - Len(s) \in 1 .. n /\ j - Len(s) \in 1 .. Len(t) /\ j = Len(s) + (j - Len(s))
      BY <1>1, <2>2
    <3>2. x[j] = p[j - Len(s)] /\ v[j] = t[j - Len(s)] /\ p[j - Len(s)] = t[j - Len(s)]
      BY <1>3, <1>5, <1>7, <3>1
    <3> QED
      BY <1>9, <3>2
  <2> QED
    BY <1>1, <2>1, <2>2
<1>11. x = y
  BY <1>5, <1>6, <1>7, <1>8, <1>9, <1>10, SeqEqual
<1> QED
  BY <1>11 DEF x, y, p, v

\* The end of a concatenation, from a place in its first part.
LEMMA RestOfConcat ==
    ASSUME NEW S, NEW s \in Seq(S), NEW t \in Seq(S), NEW c \in 0 .. Len(s)
    PROVE  SubSeq(s, c + 1, Len(s)) \o t = SubSeq(s \o t, c + 1, Len(s \o t))
<1> DEFINE p == SubSeq(s, c + 1, Len(s))
           v == s \o t
           x == p \o t
           y == SubSeq(v, c + 1, Len(v))
<1>1. Len(s) \in Nat /\ Len(t) \in Nat /\ c \in Nat /\ c <= Len(s)
  BY LenProperties
<1>2. v \in Seq(S) /\ Len(v) = Len(s) + Len(t)
  BY ConcatProperties
<1>3. /\ \A j \in 1 .. Len(s) : v[j] = s[j]
      /\ \A j \in 1 .. Len(t) : v[Len(s) + j] = t[j]
  BY Joined
<1>4. /\ p \in Seq(S) /\ Len(p) = Len(s) - c
      /\ \A j \in 1 .. Len(s) - c : p[j] = s[c + j]
  BY <1>1, RestOfSeq
<1> HIDE DEF v
<1>5. /\ y \in Seq(S) /\ Len(y) = Len(v) - c
      /\ \A j \in 1 .. Len(v) - c : y[j] = v[c + j]
  <2>1. c <= Len(v)
    BY <1>1, <1>2
  <2> QED
    BY <1>1, <1>2, <2>1, RestOfSeq
<1> HIDE DEF p, y
<1>6. x \in Seq(S)
  BY <1>4, ConcatProperties
<1>7. /\ Len(x) = Len(p) + Len(t)
      /\ \A j \in 1 .. Len(p) : x[j] = p[j]
      /\ \A j \in 1 .. Len(t) : x[Len(p) + j] = t[j]
  <2>1. p \in Seq(S)
    BY <1>4
  <2> QED
    BY <2>1, Joined
<1> HIDE DEF x
<1>8. Len(x) = Len(y) /\ Len(x) = Len(s) - c + Len(t)
  <2>1. Len(p) = Len(s) - c /\ Len(y) = Len(v) - c /\ Len(x) = Len(p) + Len(t)
    BY <1>4, <1>5, <1>7
  <2> QED
    BY <1>1, <1>2, <2>1
<1>9. ASSUME NEW j \in 1 .. Len(x)
      PROVE  x[j] = y[j]
  <2>0. j \in 1 .. Len(s) - c + Len(t) /\ Len(p) = Len(s) - c
    BY <1>4, <1>8
  <2>1. y[j] = v[c + j]
    <3>1. j \in 1 .. Len(v) - c
      BY <1>1, <1>2, <2>0
    <3> QED
      BY <1>5, <3>1
  <2>2. CASE j <= Len(s) - c
    <3>1. j \in 1 .. Len(s) - c /\ c + j \in 1 .. Len(s)
      BY <1>1, <2>0, <2>2
    <3> QED
      BY <1>3, <1>4, <1>7, <2>0, <2>1, <3>1
  <2>3. CASE j > Len(s) - c
    <3> DEFINE i == j - (Len(s) - c)
    <3>1. i \in 1 .. Len(t) /\ j = Len(p) + i /\ c + j = Len(s) + i
      BY <1>1, <2>0, <2>3
    <3> HIDE DEF i
    <3>2. x[j] = t[i]
      BY <1>7, <3>1
    <3>3. v[c + j] = t[i]
      BY <1>3, <3>1
    <3> QED
      BY <2>1, <3>2, <3>3
  <2> QED
    BY <1>1, <2>0, <2>2, <2>3
<1>10. x = y
  <2>1. x \in Seq(S) /\ y \in Seq(S) /\ Len(x) = Len(y)
    BY <1>5, <1>6, <1>8
  <2> QED
    BY <1>9, <2>1, SeqEqual
<1> QED
  BY <1>10 DEF x, y, p, v

\* Units may be thrown away at the end.
LEMMA CutFlows ==
    ASSUME NEW u \in Seq(Unit), NEW g \in Seq(Message \cup {None}), NEW w \in Seq(Message),
           NEW n \in 0 .. Len(u), Flows(u, g, w)
    PROVE  Flows(SubSeq(u, 1, n), g, w)
<1> DEFINE v == SubSeq(u, 1, n)
<1>1. PacketSize \in Nat /\ PacketSize > 0 /\ Len(u) \in Nat
  BY SizeAssumption, LenProperties
<1>2. Len(v) = n /\ \A j \in 1 .. n : v[j] = u[j]
  BY <1>1
<1> HIDE DEF v
<1>3. ASSUME NEW q \in Nat, Start(q + 1) <= Len(v)
      PROVE  /\ Len(g) + q + 1 <= Len(w)
             /\ \A r \in 1 .. PacketSize : v[Start(q) + r] = <<w[Len(g) + q + 1], r>>
  <2>1. Start(q + 1) = Start(q) + PacketSize /\ Start(q) \in Nat
    BY <1>1, StartNext, StartNat
  <2>2. Start(q + 1) <= Len(u)
    BY <1>1, <1>2, <1>3, <2>1
  <2>3. \A r \in 1 .. PacketSize : Start(q) + r \in 1 .. n
    BY <1>1, <1>2, <1>3, <2>1
  <2> QED
    BY <1>2, <2>2, <2>3 DEF Flows
<1> QED
  BY <1>3 DEF Flows, v

\* More may be written of which no unit arrives.
LEMMA MoreWritten ==
    ASSUME NEW u \in Seq(Unit), NEW g \in Seq(Message \cup {None}), NEW w \in Seq(Message),
           NEW m \in Message, Flows(u, g, w)
    PROVE  Flows(u, g, Append(w, m))
<1>1. /\ Len(w) \in Nat /\ Len(g) \in Nat
      /\ Len(Append(w, m)) = Len(w) + 1
      /\ \A i \in 1 .. Len(w) : Append(w, m)[i] = w[i]
  BY LenProperties
<1>2. \A q \in Nat : Len(g) + q + 1 <= Len(w) => Len(g) + q + 1 \in 1 .. Len(w)
  BY <1>1
<1>3. Len(g) <= Len(Append(w, m)) /\ \A i \in 1 .. Len(g) : i \in 1 .. Len(w)
  BY <1>1 DEF Flows
<1>4. \A i \in 1 .. Len(g) : g[i] = Append(w, m)[i]
  BY <1>1, <1>3 DEF Flows
<1>5. ASSUME NEW q \in Nat, Start(q + 1) <= Len(u)
      PROVE  /\ Len(g) + q + 1 <= Len(Append(w, m))
             /\ \A r \in 1 .. PacketSize :
                   u[Start(q) + r] = <<Append(w, m)[Len(g) + q + 1], r>>
  <2>1. /\ Len(g) + q + 1 <= Len(w)
        /\ \A r \in 1 .. PacketSize : u[Start(q) + r] = <<w[Len(g) + q + 1], r>>
    BY <1>5 DEF Flows
  <2>2. Append(w, m)[Len(g) + q + 1] = w[Len(g) + q + 1]
    BY <1>1, <1>2, <2>1
  <2>3. Len(g) + q + 1 <= Len(Append(w, m))
    BY <1>1, <2>1
  <2> QED
    BY <2>1, <2>2, <2>3
<1> QED
  BY <1>3, <1>4, <1>5 DEF Flows

\* The first packets are received: p has the messages whose packets they are.
LEMMA TakeFlows ==
    ASSUME NEW u \in Seq(Unit), NEW g \in Seq(Message \cup {None}), NEW w \in Seq(Message),
           NEW p \in Seq(Message \cup {None}), Start(Len(p)) <= Len(u),
           Flows(u, g, w), Continues(p, g, w)
    PROVE  /\ Flows(SubSeq(u, Start(Len(p)) + 1, Len(u)), g \o p, w)
           /\ \A m, n : EndsIn(u, g, w, m, n) /\ n \in Nat =>
                 EndsIn(SubSeq(u, Start(Len(p)) + 1, Len(u)), g \o p, w, m, n)
<1> DEFINE k == Len(p)
           v == SubSeq(u, Start(Len(p)) + 1, Len(u))
           h == g \o p
<1>1. /\ Len(h) = Len(g) + k
      /\ \A i \in 1 .. Len(g) : h[i] = g[i]
      /\ \A i \in 1 .. k : h[Len(g) + i] = p[i]
  BY Joined
<1>2. /\ PacketSize \in Nat /\ PacketSize > 0
      /\ Len(u) \in Nat /\ Len(g) \in Nat /\ Len(w) \in Nat /\ k \in Nat
  BY SizeAssumption, LenProperties
<1>3. \A i \in 1 .. k : p[i] = w[Len(g) + i]
  BY DEF Continues
<1>4. Start(k) \in Nat /\ Start(k) <= Len(u)
  BY <1>2, StartNat
<1>5. Len(v) = Len(u) - Start(k) /\ \A j \in 1 .. Len(v) : v[j] = u[Start(k) + j]
  <2> DEFINE c == Start(k)
  <2>1. c \in Nat /\ c <= Len(u)
    BY <1>4
  <2> HIDE DEF c
  <2> DEFINE t == SubSeq(u, c + 1, Len(u))
  <2>2. Len(t) = Len(u) - c /\ \A j \in 1 .. Len(u) - c : t[j] = u[c + j]
    BY <2>1, RestOfSeq
  <2> HIDE DEF t
  <2>3. Len(t) = Len(u) - c /\ \A j \in 1 .. Len(t) : t[j] = u[c + j]
    BY <2>2
  <2> QED
    BY <2>3 DEF t, c
<1> HIDE DEF k, v, h
<1>6. Len(h) <= Len(w)
  <2>1. CASE k = 0
    BY <1>1, <2>1 DEF Flows
  <2>2. CASE k > 0
    <3>1. k - 1 \in Nat /\ (k - 1) + 1 = k
      BY <1>2, <2>2
    <3>2. Start((k - 1) + 1) <= Len(u)
      BY <1>4, <3>1
    <3>3. Len(g) + (k - 1) + 1 <= Len(w)
      BY <3>1, <3>2 DEF Flows
    <3> QED
      BY <1>1, <1>2, <3>3
  <2> QED
    BY <1>2, <2>1, <2>2
<1>7. \A i \in 1 .. Len(h) : h[i] = w[i]
  <2> SUFFICES ASSUME NEW i \in 1 .. Len(h) PROVE h[i] = w[i]
    OBVIOUS
  <2>1. CASE i <= Len(g)
    BY <1>1, <1>2, <2>1 DEF Flows
  <2>2. CASE i > Len(g)
    <3>1. i - Len(g) \in 1 .. k /\ Len(g) + (i - Len(g)) = i
      BY <1>1, <1>2, <2>2
    <3> QED
      BY <1>1, <1>3, <3>1
  <2> QED
    BY <1>2, <2>1, <2>2
<1>8. ASSUME NEW q \in Nat, Start(q + 1) <= Len(v)
      PROVE  /\ Len(h) + q + 1 <= Len(w)
             /\ \A r \in 1 .. PacketSize : v[Start(q) + r] = <<w[Len(h) + q + 1], r>>
  <2> DEFINE t == q + k
  <2>1. t \in Nat /\ Start(t) = Start(q) + Start(k)
    BY <1>2, StartSum
  <2>2. Len(g) + t + 1 = Len(h) + q + 1
    BY <1>1, <1>2
  <2> HIDE DEF t
  <2>3. Start(t + 1) = Start(t) + PacketSize
        /\ Start(q + 1) = Start(q) + PacketSize /\ Start(q) \in Nat
    BY <2>1, StartNext, StartNat
  <2>4. Start(t + 1) <= Len(u)
    BY SMTT(30), <1>2, <1>4, <1>5, <1>8, <2>1, <2>3
  <2>5. /\ Len(g) + t + 1 <= Len(w)
        /\ \A r \in 1 .. PacketSize : u[Start(t) + r] = <<w[Len(g) + t + 1], r>>
    BY <2>1, <2>4 DEF Flows
  <2>6. \A r \in 1 .. PacketSize : /\ Start(q) + r \in 1 .. Len(v)
                                   /\ Start(k) + (Start(q) + r) = Start(t) + r
    <3>1. Len(v) \in Int
      BY <1>2, <1>4, <1>5
    <3>2. Start(q) + PacketSize <= Len(v)
      BY <1>8, <2>3
    <3>3. \A r \in 1 .. PacketSize : Start(q) + r \in 1 .. Len(v)
      BY <1>2, <2>3, <3>1, <3>2
    <3>4. \A r \in 1 .. PacketSize : Start(k) + (Start(q) + r) = Start(t) + r
      BY <1>2, <1>4, <2>1, <2>3
    <3> QED
      BY <3>3, <3>4
  <2> QED
    BY <1>5, <2>2, <2>5, <2>6
<1>9. ASSUME NEW m, NEW n \in Nat, EndsIn(u, g, w, m, n)
      PROVE  EndsIn(v, h, w, m, n)
  <2> DEFINE a == Len(w) - Len(g)
             b == Len(w) - Len(h)
  <2>1. a \in Nat /\ b \in Nat /\ a = b + k
    BY <1>1, <1>2, <1>6
  <2>2. Len(u) = Start(a) + n /\ \A r \in 1 .. n : u[Start(a) + r] = <<m, r>>
    BY <1>9 DEF EndsIn, EndsWith
  <2> HIDE DEF a, b
  <2>3. Start(a) = Start(b) + Start(k) /\ Start(b) \in Nat
    BY <1>2, <2>1, StartSum, StartNat
  <2>4. Len(v) = Start(b) + n
    BY <1>4, <1>5, <2>2, <2>3
  <2>5. \A r \in 1 .. n : /\ Start(b) + r \in 1 .. Len(v)
                          /\ Start(k) + (Start(b) + r) = Start(a) + r
    BY <1>4, <2>3, <2>4
  <2>6. \A r \in 1 .. n : v[Start(b) + r] = <<m, r>>
    BY <1>5, <2>2, <2>5
  <2> QED
    BY <2>4, <2>6 DEF EndsIn, EndsWith, b
<1>10. Flows(v, h, w)
  BY <1>6, <1>7, <1>8 DEF Flows
<1> QED
  BY <1>9, <1>10 DEF v, h, k

\* Units k + 1 to k + n of packet m arrive behind the others.
Grown(u, m, k, n) == u \o SubSeq(Packet(m), k + 1, k + n)

\* Such a part of a packet, unit by unit.
LEMMA PartUnits ==
    ASSUME NEW m \in Message, NEW k \in Nat, NEW n \in Nat \ {0}, k + n <= PacketSize
    PROVE  /\ SubSeq(Packet(m), k + 1, k + n) \in Seq(Unit)
           /\ Len(SubSeq(Packet(m), k + 1, k + n)) = n
           /\ \A j \in 1 .. n : SubSeq(Packet(m), k + 1, k + n)[j] = <<m, k + j>>
<1> DEFINE p == SubSeq(Packet(m), k + 1, k + n)
<1>1. PacketSize \in Nat
  BY SizeAssumption
<1>2. \A j \in 1 .. PacketSize : Packet(m)[j] = <<m, j>> /\ <<m, j>> \in Unit
  BY DEF Packet, Unit
<1>3. \A j \in (k + 1) .. (k + n) : j \in 1 .. PacketSize
  BY <1>1
<1>4. \A j \in (k + 1) .. (k + n) : Packet(m)[j] \in Unit
  BY <1>2, <1>3
<1>5. /\ p \in Seq(Unit)
      /\ Len(p) = IF k + 1 <= k + n THEN (k + n) - (k + 1) + 1 ELSE 0
      /\ \A j \in 1 .. ((k + n) - (k + 1) + 1) : p[j] = Packet(m)[(k + 1) + j - 1]
  BY <1>4, SubSeqProperties
<1> HIDE DEF p
<1>6. Len(p) = n /\ (k + n) - (k + 1) + 1 = n
  BY <1>5
<1>7. \A j \in 1 .. n : (k + 1) + j - 1 = k + j /\ k + j \in 1 .. PacketSize
  BY <1>1
<1>8. \A j \in 1 .. n : p[j] = <<m, k + j>>
  BY <1>2, <1>5, <1>6, <1>7
<1> QED
  BY <1>5, <1>6, <1>8 DEF p

\* What was there stays, and the last packet has n units more.
LEMMA GrownUnits ==
    ASSUME NEW u \in Seq(Unit), NEW m \in Message, NEW k \in Nat, NEW n \in Nat \ {0},
           k + n <= PacketSize, NEW a \in Nat, EndsWith(u, a, m, k)
    PROVE  /\ Grown(u, m, k, n) \in Seq(Unit)
           /\ \A j \in 1 .. a : Grown(u, m, k, n)[j] = u[j]
           /\ EndsWith(Grown(u, m, k, n), a, m, k + n)
<1> DEFINE p == SubSeq(Packet(m), k + 1, k + n)
           v == Grown(u, m, k, n)
<1>1. p \in Seq(Unit) /\ Len(p) = n /\ \A j \in 1 .. n : p[j] = <<m, k + j>>
  BY PartUnits
<1> HIDE DEF p
<1>2. /\ v \in Seq(Unit) /\ Len(v) = Len(u) + Len(p)
      /\ \A j \in 1 .. Len(u) : v[j] = u[j]
      /\ \A j \in 1 .. Len(p) : v[Len(u) + j] = p[j]
  <2>1. p \in Seq(Unit)
    BY <1>1
  <2>2. /\ Len(u \o p) = Len(u) + Len(p)
        /\ \A j \in 1 .. Len(u) : (u \o p)[j] = u[j]
        /\ \A j \in 1 .. Len(p) : (u \o p)[Len(u) + j] = p[j]
    BY <2>1, Joined
  <2>3. v = u \o p
    BY DEF Grown, p
  <2>4. u \o p \in Seq(Unit)
    BY <2>1, ConcatProperties
  <2> HIDE DEF v
  <2> QED
    BY <2>2, <2>3, <2>4
<1>3. Len(u) = a + k /\ \A r \in 1 .. k : u[a + r] = <<m, r>>
  BY DEF EndsWith
<1> HIDE DEF v
<1>4. ASSUME NEW r \in 1 .. k + n
      PROVE  v[a + r] = <<m, r>>
  <2>1. CASE r <= k
    <3>1. a + r \in 1 .. Len(u) /\ r \in 1 .. k
      BY <1>3, <1>4, <2>1
    <3> QED
      BY <1>2, <1>3, <3>1
  <2>2. CASE r > k
    <3>1. a + r = Len(u) + (r - k) /\ r - k \in 1 .. n /\ k + (r - k) = r
      BY <1>3, <1>4, <2>2
    <3> QED
      BY <1>1, <1>2, <3>1
  <2> QED
    BY <1>4, <2>1, <2>2
<1>5. \A j \in 1 .. a : v[j] = u[j]
  BY <1>2, <1>3
<1>6. Len(v) = a + (k + n)
  BY <1>1, <1>2, <1>3
<1> QED
  BY <1>2, <1>4, <1>5, <1>6 DEF v, EndsWith

\* A part of the packet is written, and its last unit is not among it.
LEMMA PartWritten ==
    ASSUME NEW u \in Seq(Unit), NEW g \in Seq(Message \cup {None}), NEW w \in Seq(Message),
           NEW m \in Message, NEW k \in Nat, NEW n \in Nat \ {0}, k + n < PacketSize,
           Flows(u, g, w), EndsIn(u, g, w, m, k)
    PROVE  Flows(Grown(u, m, k, n), g, w) /\ EndsIn(Grown(u, m, k, n), g, w, m, k + n)
<1> DEFINE v == Grown(u, m, k, n)
           b == Len(w) - Len(g)
           a == Start(b)
<1>1. PacketSize \in Nat /\ PacketSize > 0 /\ Len(u) \in Nat /\ b \in Nat
  BY SizeAssumption, LenProperties DEF Flows
<1>2. EndsWith(u, a, m, k)
  BY DEF EndsIn
<1> HIDE DEF b
<1>3. a \in Nat /\ Start(b + 1) = a + PacketSize
  BY <1>1, StartNat, StartNext
<1> HIDE DEF a
<1>4. /\ \A j \in 1 .. a : v[j] = u[j]
      /\ EndsWith(v, a, m, k + n)
  <2>1. k + n <= PacketSize
    BY <1>1
  <2> QED
    BY <1>2, <1>3, <2>1, GrownUnits
<1>5. Len(v) = a + (k + n) /\ Len(u) = a + k
  BY <1>2, <1>4 DEF EndsWith
<1> HIDE DEF v
<1>6. ASSUME NEW q \in Nat, Start(q + 1) <= Len(v)
      PROVE  /\ Len(g) + q + 1 <= Len(w)
             /\ \A r \in 1 .. PacketSize : v[Start(q) + r] = <<w[Len(g) + q + 1], r>>
  <2>1. Start(q + 1) = Start(q) + PacketSize /\ Start(q) \in Nat
    BY StartNext, StartNat
  <2>2. q + 1 <= b
    <3>1. ~(Start(b + 1) <= Start(q + 1))
      BY <1>1, <1>3, <1>5, <1>6, <2>1
    <3>2. ~(b + 1 <= q + 1)
      BY <1>1, <3>1, StartOrder
    <3> QED
      BY <1>1, <3>2
  <2>3. Start(q + 1) <= a
    BY <1>1, <2>2, StartOrder DEF a
  <2>4. Start(q + 1) <= Len(u)
    BY <1>1, <1>3, <1>5, <2>1, <2>3
  <2>5. \A r \in 1 .. PacketSize : Start(q) + r \in 1 .. a
    BY SMTT(30), <1>1, <1>3, <2>1, <2>3
  <2>6. /\ Len(g) + q + 1 <= Len(w)
        /\ \A r \in 1 .. PacketSize : u[Start(q) + r] = <<w[Len(g) + q + 1], r>>
    BY <2>4 DEF Flows
  <2> QED
    BY <1>4, <2>5, <2>6
<1>7. Flows(v, g, w)
  BY <1>6 DEF Flows
<1> QED
  BY <1>4, <1>7 DEF EndsIn, v, a, b

\* Its last unit is written: the packet is whole.
LEMMA RestWritten ==
    ASSUME NEW u \in Seq(Unit), NEW g \in Seq(Message \cup {None}), NEW w \in Seq(Message),
           NEW m \in Message, NEW k \in Nat, NEW n \in Nat \ {0}, k + n = PacketSize,
           Flows(u, g, w), EndsIn(u, g, w, m, k)
    PROVE  /\ Flows(Grown(u, m, k, n), g, Append(w, m))
           /\ \A x : EndsIn(Grown(u, m, k, n), g, Append(w, m), x, 0)
<1> DEFINE v == Grown(u, m, k, n)
           b == Len(w) - Len(g)
           a == Start(b)
           y == Append(w, m)
<1>1. /\ PacketSize \in Nat /\ PacketSize > 0 /\ Len(u) \in Nat
      /\ Len(w) \in Nat /\ Len(g) \in Nat /\ Len(g) <= Len(w)
      /\ b \in Nat /\ Len(w) = Len(g) + b
  BY SizeAssumption, LenProperties DEF Flows
<1>2. EndsWith(u, a, m, k)
  BY DEF EndsIn
<1>3. /\ Len(y) = Len(w) + 1 /\ y[Len(w) + 1] = m
      /\ \A i \in 1 .. Len(w) : y[i] = w[i]
  BY AppendProperties
<1> HIDE DEF b, y
<1>4. a \in Nat /\ Start(b + 1) = a + PacketSize
  BY <1>1, StartNat, StartNext
<1> HIDE DEF a
<1>5. /\ \A j \in 1 .. a : v[j] = u[j]
      /\ EndsWith(v, a, m, k + n)
  <2>1. k + n <= PacketSize
    BY <1>1
  <2> QED
    BY <1>2, <1>4, <2>1, GrownUnits
<1>6. Len(u) = a + k /\ Len(v) = Start(b + 1) /\ \A r \in 1 .. PacketSize : v[a + r] = <<m, r>>
  <2>1. Len(v) = a + (k + n) /\ k + n = PacketSize
    BY <1>5 DEF EndsWith
  <2> QED
    BY <1>2, <1>4, <1>5, <2>1 DEF EndsWith
<1> HIDE DEF v
<1>7. ASSUME NEW q \in Nat, Start(q + 1) <= Len(v)
      PROVE  /\ Len(g) + q + 1 <= Len(y)
             /\ \A r \in 1 .. PacketSize : v[Start(q) + r] = <<y[Len(g) + q + 1], r>>
  <2>1. q + 1 <= b + 1
    BY <1>1, <1>6, <1>7, StartOrder
  <2>2. CASE q = b
    <3>1. Len(g) + q + 1 = Len(w) + 1
      BY <1>1, <2>2
    <3>2. Len(g) + q + 1 <= Len(y) /\ y[Len(g) + q + 1] = m
      BY <1>1, <1>3, <3>1
    <3> QED
      BY <1>6, <2>2, <3>2 DEF a
  <2>3. CASE q # b
    <3>1. q + 1 <= b
      BY <1>1, <2>1, <2>3
    <3>2. Start(q + 1) <= a
      BY <1>1, <3>1, StartOrder DEF a
    <3>3. Start(q + 1) = Start(q) + PacketSize /\ Start(q) \in Nat
      BY StartNext, StartNat
    <3>4. Start(q + 1) <= Len(u)
      <4>1. Len(u) = a + k
        BY <1>6
      <4> QED
        BY <1>1, <1>4, <3>2, <3>3, <4>1
    <3>5. \A r \in 1 .. PacketSize : Start(q) + r \in 1 .. a
      BY SMTT(30), <1>1, <1>4, <3>2, <3>3
    <3>6. /\ Len(g) + q + 1 <= Len(w)
          /\ \A r \in 1 .. PacketSize : u[Start(q) + r] = <<w[Len(g) + q + 1], r>>
      BY <3>4 DEF Flows
    <3>7. Len(g) + q + 1 \in 1 .. Len(w) /\ Len(g) + q + 1 <= Len(y)
      BY <1>1, <1>3, <3>6
    <3>8. y[Len(g) + q + 1] = w[Len(g) + q + 1]
      BY <1>3, <3>7
    <3> QED
      BY <1>5, <3>5, <3>6, <3>7, <3>8
  <2> QED
    BY <2>2, <2>3
<1>8. Len(g) <= Len(y) /\ \A i \in 1 .. Len(g) : g[i] = y[i]
  <2>1. \A i \in 1 .. Len(g) : i \in 1 .. Len(w)
    BY <1>1
  <2> QED
    BY <1>1, <1>3, <2>1 DEF Flows
<1>9. ASSUME NEW x PROVE EndsIn(v, g, y, x, 0)
  <2>1. Len(y) - Len(g) = b + 1
    BY <1>1, <1>3
  <2>2. Len(v) = Start(b + 1) + 0
    BY <1>1, <1>4, <1>6
  <2>3. \A r \in 1 .. 0 : v[Start(b + 1) + r] = <<x, r>>
    OBVIOUS
  <2> QED
    BY <2>1, <2>2, <2>3 DEF EndsIn, EndsWith
<1>10. Flows(v, g, y)
  BY <1>7, <1>8 DEF Flows
<1> QED
  BY <1>9, <1>10 DEF v, y

-----------------------------------------------------------------------------
(* The stream between two ends.                                            *)

\* What has been written for e and is not yet parsed.
Units(e) == receive_buffer[e] \o wire[e]

\* What d writes can still arrive: a session that is new will be started.
Open(d) == socket_[d] /\ socket_[Peer(d)] /\ (running_[d] \/ worker[d] = "new")

\* How many units of its packet d has written.
Begun(d) == IF packet[d] = None THEN 0 ELSE PacketSize - left[d]

Stream(e) ==
    /\ Flows(Units(e), Received(e), written[Peer(e)])
    /\ Open(Peer(e)) =>
          EndsIn(Units(e), Received(e), written[Peer(e)], packet[Peer(e)], Begun(Peer(e)))

Streams == \A e \in End : Stream(e)

\* A worker has a packet while it is in SendRaw.
WritesPacket == \A e \in End : packet[e] # None <=> worker[e] = "write"

Consistent == Types /\ WritesPacket /\ Streams

\* The two ends, and what is received at each.
LEMMA Ends ==
    /\ End = {"session", "client"} /\ "session" # "client"
    /\ \A e \in End : Peer(e) \in End /\ Peer(e) # e /\ Peer(Peer(e)) = e
    /\ \A e, d \in End : d # e => d = Peer(e)
  BY DEF End, Peer

\* What is received, and what is to be parsed, at an end.
LEMMA ReceivedType ==
    ASSUME TypeOK, NEW e \in End
    PROVE  Received(e) \in Seq(Message \cup {None}) /\ Units(e) \in Seq(Unit)
<1>1. /\ recv_queue_["session"] \in Seq(Message \cup {None})
      /\ recv_queue_["client"] \in Seq(Message \cup {None})
      /\ reported \in Seq(Message \cup {None})
  BY Ends DEF TypeOK
<1>2. reported \o recv_queue_["session"] \in Seq(Message \cup {None})
  BY <1>1, ConcatProperties
<1>3. receive_buffer[e] \in Seq(Unit) /\ wire[e] \in Seq(Unit)
  BY DEF TypeOK
<1>4. Units(e) \in Seq(Unit)
  BY <1>3, ConcatProperties DEF Units
<1> QED
  BY <1>1, <1>2, <1>4 DEF Received

\* A step that has no part in a stream, but may close it.
LEMMA SameStream ==
    ASSUME NEW e \in End, Stream(e),
           Units(e)' = Units(e), Received(e)' = Received(e),
           written'[Peer(e)] = written[Peer(e)],
           Open(Peer(e))' => Open(Peer(e)) /\ packet'[Peer(e)] = packet[Peer(e)]
                                /\ Begun(Peer(e))' = Begun(Peer(e))
    PROVE  Stream(e)'
<1>1. Flows(Units(e), Received(e), written[Peer(e)])'
  BY DEF Stream, Flows, Start
<1>2. ASSUME Open(Peer(e))'
      PROVE  EndsIn(Units(e), Received(e), written[Peer(e)], packet[Peer(e)], Begun(Peer(e)))'
  BY <1>2 DEF Stream, EndsIn, EndsWith, Start
<1> QED
  BY <1>1, <1>2 DEF Stream

\* Most steps have no part in either stream.
LEMMA QuietStreams ==
    ASSUME Streams, UNCHANGED <<receive_buffer, wire, recv_queue_, reported, written>>,
           \A d \in End : Open(d)' => Open(d) /\ packet'[d] = packet[d] /\ Begun(d)' = Begun(d)
    PROVE  Streams'
<1> SUFFICES ASSUME NEW e \in End PROVE Stream(e)'
  BY DEF Streams
<1>1. Peer(e) \in End
  BY Ends
<1>2. Units(e)' = Units(e) /\ Received(e)' = Received(e)
  BY DEF Units, Received
<1> QED
  BY <1>1, <1>2, SameStream DEF Streams

\* A step that throws units away ends the stream.
LEMMA CutStream ==
    ASSUME TypeOK, NEW e \in End, Stream(e), NEW n \in 0 .. Len(wire[e]),
           UNCHANGED <<receive_buffer, recv_queue_, reported>>,
           written'[Peer(e)] = written[Peer(e)],
           wire'[e] = SubSeq(wire[e], 1, n), ~Open(Peer(e))'
    PROVE  Stream(e)'
<1> DEFINE b == receive_buffer[e]
           x == wire[e]
           u == Units(e)
<1>1. b \in Seq(Unit) /\ x \in Seq(Unit) /\ Len(b) \in Nat /\ Len(x) \in Nat
  BY LenProperties DEF TypeOK
<1>2. Len(b) + n \in 0 .. Len(u)
  <2>1. Len(u) = Len(b) + Len(x)
    BY <1>1, Joined DEF Units
  <2>2. n \in 0 .. Len(x)
    OBVIOUS
  <2> HIDE DEF u, b, x
  <2>3. Len(b) \in Nat /\ Len(x) \in Nat
    BY <1>1
  <2> QED
    BY <2>1, <2>2, <2>3
<1>3. Units(e)' = b \o SubSeq(x, 1, n)
  BY DEF Units
<1>4. b \o SubSeq(x, 1, n) = SubSeq(b \o x, 1, Len(b) + n)
  BY <1>1, HeadOfConcat
<1>5. Units(e)' = SubSeq(u, 1, Len(b) + n)
  BY <1>3, <1>4 DEF Units
<1>6. /\ u \in Seq(Unit) /\ Received(e) \in Seq(Message \cup {None})
      /\ written[Peer(e)] \in Seq(Message)
  BY ReceivedType, Ends DEF TypeOK
<1>7. Flows(u, Received(e), written[Peer(e)])
  BY DEF Stream
<1>8. Flows(SubSeq(u, 1, Len(b) + n), Received(e), written[Peer(e)])
  BY <1>2, <1>6, <1>7, CutFlows
<1>9. Received(e)' = Received(e) /\ written'[Peer(e)] = written[Peer(e)]
  BY DEF Received
<1>10. Flows(Units(e), Received(e), written[Peer(e)])'
  BY <1>5, <1>8, <1>9 DEF Flows, Start
<1> QED
  BY <1>10 DEF Stream

-----------------------------------------------------------------------------
(* The steps of a worker.                                                  *)

\* What a worker has parsed is next in what the other end has written.
LEMMA ParsedContinues ==
    ASSUME TypeOK, NEW e \in End, NEW g \in Seq(Message \cup {None}), NEW w \in Seq(Message),
           Flows(Units(e), g, w)
    PROVE  Continues(Parsed(e), g, w) /\ Start(Len(Parsed(e))) <= Len(receive_buffer[e])
<1> DEFINE b == receive_buffer[e]
           x == wire[e]
           u == Units(e)
           k == Len(b) \div PacketSize
<1>1. b \in Seq(Unit) /\ x \in Seq(Unit) /\ Len(b) \in Nat /\ Len(x) \in Nat
      /\ PacketSize \in Nat /\ PacketSize > 0
  BY SizeAssumption, LenProperties DEF TypeOK
<1>2. Len(u) = Len(b) + Len(x) /\ \A j \in 1 .. Len(b) : u[j] = b[j]
  <2>1. b \in Seq(Unit) /\ x \in Seq(Unit) /\ u = b \o x
    BY <1>1 DEF Units
  <2> HIDE DEF b, x, u
  <2> QED
    BY <2>1, Joined
<1>3. k \in Nat /\ Start(k) <= Len(b)
  BY <1>1, WholePackets DEF Start
<1>4. Parsed(e) = [i \in 1 .. k |->
        LET first == b[Start(i - 1) + 1][1]
            units == [n \in 1 .. PacketSize |-> b[Start(i - 1) + n]]
        IN  IF units = Packet(first) THEN first ELSE None]
  BY DEF Parsed, Start
<1> HIDE DEF b, x, u, k
<1>5. Len(Parsed(e)) = k
  BY <1>3, <1>4
<1>6. ASSUME NEW i \in 1 .. k
      PROVE  Parsed(e)[i] = w[Len(g) + i]
  <2> DEFINE q == i - 1
             m == w[Len(g) + i]
  <2>1. q \in Nat /\ q + 1 = i /\ i \in Nat /\ i <= k
    BY <1>3, <1>6
  <2>2. Start(q + 1) <= Start(k)
    BY <1>3, <2>1, StartOrder
  <2>3. Start(q + 1) = Start(q) + PacketSize /\ Start(q) \in Nat
    BY <2>1, StartNext, StartNat
  <2>4. Start(k) \in Nat
    BY <1>3, StartNat
  <2> HIDE DEF q
  <2>5. Start(q) + PacketSize <= Len(b)
    BY <1>1, <1>3, <2>2, <2>3, <2>4
  <2>6. Start(q + 1) <= Len(u)
    BY <1>1, <1>2, <2>3, <2>5
  <2>7. Len(g) + q + 1 = Len(g) + i
    BY <2>1, LenProperties
  <2>8. \A r \in 1 .. PacketSize : u[Start(q) + r] = <<m, r>>
    BY <2>1, <2>6, <2>7 DEF Flows, u
  <2>9. \A r \in 1 .. PacketSize : Start(q) + r \in 1 .. Len(b)
    BY <1>1, <2>3, <2>5
  <2>10. \A r \in 1 .. PacketSize : b[Start(q) + r] = <<m, r>>
    BY <1>2, <2>8, <2>9
  <2> HIDE DEF m
  <2>11. b[Start(q) + 1][1] = m
    <3>1. 1 \in 1 .. PacketSize
      BY <1>1
    <3> QED
      BY <2>10, <3>1
  <2>12. [n \in 1 .. PacketSize |-> b[Start(q) + n]] = Packet(m)
    BY <2>10 DEF Packet
  <2>13. Parsed(e)[i] = IF [n \in 1 .. PacketSize |-> b[Start(q) + n]] = Packet(b[Start(q) + 1][1])
                           THEN b[Start(q) + 1][1] ELSE None
    BY <1>4, <1>6 DEF q
  <2> QED
    BY <2>11, <2>12, <2>13 DEF m
<1>7. Continues(Parsed(e), g, w)
  BY <1>5, <1>6 DEF Continues
<1> QED
  BY <1>3, <1>5, <1>7 DEF b

\* Concatenation of units.
LEMMA Associative ==
    ASSUME NEW s \in Seq(Unit), NEW t \in Seq(Unit), NEW u \in Seq(Unit)
    PROVE  (s \o t) \o u = s \o (t \o u)
  BY ConcatAssociative

\* recv moves units from the wire to the buffer.
LEMMA MovedUnits ==
    ASSUME NEW b \in Seq(Unit), NEW x \in Seq(Unit), NEW n \in 1 .. Len(x)
    PROVE  (b \o SubSeq(x, 1, n)) \o SubSeq(x, n + 1, Len(x)) = b \o x
<1> DEFINE p == SubSeq(x, 1, n)
           t == SubSeq(x, n + 1, Len(x))
<1>1. Len(x) \in Nat /\ n \in Nat /\ n <= Len(x) /\ n >= 1
  BY LenProperties
<1>2. p \in Seq(Unit) /\ t \in Seq(Unit)
  BY <1>1, PartOfSeq
<1>3. p \o t = x
  <2>1. SubSeq(x, 1, n) \o SubSeq(x, n + 1, Len(x)) = SubSeq(x, 1, Len(x))
    BY <1>1, ConcatAdjacentSubSeq
  <2> QED
    BY <1>1, <2>1, SubSeqFull
<1> HIDE DEF p, t
<1>4. (b \o p) \o t = b \o (p \o t)
  BY <1>2, Associative
<1> QED
  BY <1>3, <1>4 DEF p, t

\* recv moves units from the wire to the buffer: between them the same units.
LEMMA ReceiveUnits ==
    ASSUME TypeOK, NEW d \in End, Receive(d), NEW e \in End
    PROVE  Units(e)' = Units(e)
<1>1. PICK n \in {i \in 1 .. RecvMax : i <= Len(wire[d])} :
        /\ receive_buffer' = [receive_buffer EXCEPT ![d] = @ \o SubSeq(wire[d], 1, n)]
        /\ wire' = [wire EXCEPT ![d] = SubSeq(@, n + 1, Len(@))]
  BY DEF Receive
<1>2. receive_buffer'[d] \o wire'[d] = receive_buffer[d] \o wire[d]
  <2> DEFINE b == receive_buffer[d]
             x == wire[d]
  <2>1. b \in Seq(Unit) /\ x \in Seq(Unit) /\ n \in 1 .. Len(x)
    BY SizeAssumption, LenProperties DEF TypeOK
  <2>2. receive_buffer'[d] = b \o SubSeq(x, 1, n) /\ wire'[d] = SubSeq(x, n + 1, Len(x))
    BY <1>1 DEF TypeOK
  <2> HIDE DEF b, x
  <2>3. (b \o SubSeq(x, 1, n)) \o SubSeq(x, n + 1, Len(x)) = b \o x
    BY <2>1, MovedUnits
  <2> QED
    BY <2>2, <2>3 DEF b, x
<1> QED
  BY <1>1, <1>2 DEF Units, TypeOK

\* So recv changes no stream.
LEMMA ReceiveStreams ==
    ASSUME Consistent, NEW d \in End, Receive(d)
    PROVE  Streams'
<1>0. TypeOK /\ Streams
  BY DEF Consistent, Types
<1>1. /\ worker' = [worker EXCEPT ![d] = AfterRecv(d)] /\ worker[d] = "recv"
      /\ UNCHANGED <<running_, socket_, recv_queue_, reported, written, packet, left>>
  BY DEF Receive, Goto, flags, protocol_vars, event_vars
<1> SUFFICES ASSUME NEW e \in End PROVE Stream(e)'
  BY DEF Streams
<1>2. Units(e)' = Units(e)
  BY <1>0, ReceiveUnits
<1>3. Received(e)' = Received(e) /\ Begun(Peer(e))' = Begun(Peer(e))
  BY <1>1 DEF Received, Begun
<1>4. Open(Peer(e))' => Open(Peer(e))
  BY <1>0, <1>1, Ends DEF Open, TypeOK, AfterRecv
<1> QED
  BY <1>0, <1>1, <1>2, <1>3, <1>4, SameStream DEF Streams

\* WorkTick takes whole packets out of the units, and they are received then.
LEMMA WorkTickUnits ==
    ASSUME TypeOK, Streams, NEW d \in End, WorkTick(d)
    PROVE  /\ Start(Len(Parsed(d))) <= Len(Units(d))
           /\ Units(d)' = SubSeq(Units(d), Start(Len(Parsed(d))) + 1, Len(Units(d)))
           /\ Received(d)' = Received(d) \o Parsed(d)
<1> DEFINE b == receive_buffer[d]
           x == wire[d]
           u == Units(d)
           g == Received(d)
           w == written[Peer(d)]
           p == Parsed(d)
<1>1. /\ recv_queue_' = [recv_queue_ EXCEPT ![d] = @ \o Parsed(d)]
      /\ receive_buffer' = [receive_buffer EXCEPT ![d] =
                               SubSeq(@, Len(Parsed(d)) * PacketSize + 1, Len(@))]
      /\ UNCHANGED <<wire, reported>>
  BY DEF WorkTick, socket_vars, event_vars
<1>2. /\ u \in Seq(Unit) /\ g \in Seq(Message \cup {None})
      /\ w \in Seq(Message) /\ p \in Seq(Message \cup {None})
      /\ b \in Seq(Unit) /\ x \in Seq(Unit)
  BY Ends, ReceivedType, ParsedType DEF TypeOK
<1>3. Flows(u, g, w)
  BY DEF Streams, Stream
<1>4. Start(Len(p)) <= Len(b)
  BY <1>2, <1>3, ParsedContinues
<1>5. Start(Len(p)) \in 0 .. Len(b)
  BY <1>2, <1>4, StartNat, LenProperties
<1>6. Start(Len(p)) <= Len(u)
  <2>1. Len(u) = Len(b) + Len(x)
    BY <1>2, Joined DEF Units
  <2>2. Len(b) \in Nat /\ Len(x) \in Nat
    BY <1>2, LenProperties
  <2> DEFINE c == Start(Len(p))
  <2>3. c \in Nat /\ c <= Len(b)
    BY <1>5, <2>2
  <2> HIDE DEF u, b, x, c
  <2>4. c <= Len(u)
    BY <2>1, <2>2, <2>3
  <2> QED
    BY <2>4 DEF c
<1>7. Units(d)' = SubSeq(u, Start(Len(p)) + 1, Len(u))
  <2> DEFINE c == Start(Len(p))
  <2>1. Units(d)' = SubSeq(b, c + 1, Len(b)) \o x
    BY <1>1 DEF Units, TypeOK, Start
  <2>2. c \in 0 .. Len(b)
    BY <1>5
  <2> HIDE DEF c, b, x
  <2>3. SubSeq(b, c + 1, Len(b)) \o x = SubSeq(b \o x, c + 1, Len(b \o x))
    BY <1>2, <2>2, RestOfConcat
  <2>4. u = b \o x
    BY DEF Units, b, x
  <2> QED
    BY <2>1, <2>3, <2>4 DEF c
<1>8. Received(d)' = g \o p
  <2> DEFINE M == Message \cup {None}
             l == recv_queue_[d]
  <2>1. reported \in Seq(M) /\ l \in Seq(M) /\ p \in Seq(M)
    BY <1>2 DEF TypeOK
  <2>2. recv_queue_'[d] = recv_queue_[d] \o p /\ reported' = reported
    BY <1>1 DEF TypeOK
  <2> HIDE DEF M, p, l
  <2>3. (reported \o l) \o p = reported \o (l \o p)
    BY <2>1, ConcatAssociative
  <2>4. CASE d = "session"
    BY <2>2, <2>3, <2>4 DEF Received, l
  <2>5. CASE d = "client"
    BY <2>2, <2>5, Ends DEF Received
  <2> QED
    BY <2>4, <2>5, Ends
<1> QED
  BY <1>6, <1>7, <1>8

\* WorkTick parses what is whole, and begins with a packet of its own.
LEMMA WorkTickStreams ==
    ASSUME Consistent, NEW d \in End, WorkTick(d)
    PROVE  Streams'
<1>0. TypeOK /\ Streams /\ WritesPacket /\ WriterHasPacket
  BY DEF Consistent, Types
<1>1. /\ recv_queue_' = [recv_queue_ EXCEPT ![d] = @ \o Parsed(d)]
      /\ receive_buffer' = [receive_buffer EXCEPT ![d] =
                               SubSeq(@, Len(Parsed(d)) * PacketSize + 1, Len(@))]
      /\ worker[d] = "tick"
      /\ UNCHANGED <<running_, socket_, wire, reported, written>>
  BY DEF WorkTick, flags, socket_vars, event_vars
<1>2. \A e \in End : Open(e)' => Open(e)
  <2>1. \A e \in End : worker'[e] = "new" => worker[e] = "new"
    BY <1>0 DEF WorkTick, Goto, AfterTick, TypeOK
  <2> QED
    BY <1>1, <2>1 DEF Open
<1>3. Begun(d) = 0 /\ Begun(d)' = 0
  <2>1. packet[d] = None
    BY <1>0, <1>1 DEF WritesPacket
  <2>2. PacketSize - PacketSize = 0
    BY SizeAssumption
  <2>3. packet'[d] = None \/ left'[d] = PacketSize
    BY <1>0, <2>1 DEF WorkTick, TypeOK
  <2> QED
    BY <2>1, <2>2, <2>3 DEF Begun
<1>4. \A e \in End : e # d => packet'[e] = packet[e] /\ left'[e] = left[e]
  BY <1>0 DEF WorkTick, TypeOK
<1>5. Stream(d)'
  <2> DEFINE b == receive_buffer[d]
             x == wire[d]
             u == Units(d)
             g == Received(d)
             w == written[Peer(d)]
             p == Parsed(d)
             o == Peer(d)
  <2>1. /\ u \in Seq(Unit) /\ g \in Seq(Message \cup {None})
        /\ w \in Seq(Message) /\ p \in Seq(Message \cup {None})
        /\ b \in Seq(Unit) /\ x \in Seq(Unit)
    BY <1>0, Ends, ReceivedType, ParsedType DEF TypeOK
  <2>2. Flows(u, g, w)
    BY <1>0 DEF Streams, Stream
  <2>3. Continues(p, g, w) /\ Start(Len(p)) <= Len(b)
    BY <1>0, <2>1, <2>2, ParsedContinues
  <2>4. /\ Start(Len(p)) <= Len(u)
        /\ Units(d)' = SubSeq(u, Start(Len(p)) + 1, Len(u))
        /\ Received(d)' = g \o p
    BY <1>0, WorkTickUnits
  <2>5. written'[o] = w /\ o \in End /\ o # d
    BY <1>1, Ends
  <2>6. packet'[o] = packet[o] /\ Begun(o)' = Begun(o)
    BY <1>4, <2>5 DEF Begun
  <2> HIDE DEF b, x, u, g, w, p
  <2>7. Flows(SubSeq(u, Start(Len(p)) + 1, Len(u)), g \o p, w)
    BY <2>1, <2>2, <2>3, <2>4, TakeFlows
  <2>8. ASSUME NEW m, NEW n \in Nat, EndsIn(u, g, w, m, n)
         PROVE  EndsIn(SubSeq(u, Start(Len(p)) + 1, Len(u)), g \o p, w, m, n)
    BY <2>1, <2>2, <2>3, <2>4, <2>8, TakeFlows
  <2>9. Begun(o) \in Nat
    BY SMTT(30), <1>0, <2>5, SizeAssumption DEF Begun, TypeOK
  <2>10. Open(o) => EndsIn(u, g, w, packet[o], Begun(o))
    BY <1>0 DEF Streams, Stream, u, g, w
  <2>11. Flows(Units(d), Received(d), written[Peer(d)])'
    BY <2>4, <2>5, <2>7 DEF Flows, Start
  <2>12. Open(o)' => EndsIn(Units(d), Received(d), written[o], packet[o], Begun(o))'
    <3>1. Open(o) => EndsIn(SubSeq(u, Start(Len(p)) + 1, Len(u)), g \o p, w, packet[o], Begun(o))
      BY <2>8, <2>9, <2>10
    <3> QED
      BY <1>2, <2>4, <2>5, <2>6, <3>1 DEF EndsIn, EndsWith, Start
  <2> QED
    BY <2>11, <2>12 DEF Stream
<1>6. Stream(Peer(d))'
  <2> DEFINE e == Peer(d)
  <2>1. e \in End /\ e # d /\ Peer(e) = d
    BY Ends
  <2> HIDE DEF e
  <2>2. Units(e)' = Units(e) /\ Received(e)' = Received(e) /\ written'[d] = written[d]
    <3>1. receive_buffer'[e] = receive_buffer[e] /\ wire'[e] = wire[e]
          /\ recv_queue_'[e] = recv_queue_[e] /\ reported' = reported
      BY <1>0, <1>1, <2>1 DEF TypeOK
    <3>2. Units(e)' = Units(e)
      BY <3>1 DEF Units
    <3>3. Received(e)' = Received(e)
      BY <2>1, <3>1, Ends DEF Received
    <3> QED
      BY <1>1, <3>2, <3>3
  <2>3. Stream(e)
    BY <1>0, <2>1 DEF Streams
  <2>4. Flows(Units(e), Received(e), written[d])'
    BY <2>1, <2>2, <2>3 DEF Stream, Flows, Start
  <2>5. ASSUME Open(d)'
        PROVE  EndsIn(Units(e), Received(e), written[d], packet[d], Begun(d))'
    <3>1. EndsIn(Units(e), Received(e), written[d], packet[d], 0)
      BY <1>2, <1>3, <2>1, <2>3, <2>5 DEF Stream
    <3> QED
      BY <1>3, <2>2, <3>1 DEF EndsIn, EndsWith, Start
  <2> QED
    BY <2>1, <2>4, <2>5 DEF Stream, e
<1> QED
  BY <1>5, <1>6, Ends DEF Streams

\* SendRaw adds units of its packet to what arrives at the other end.
LEMMA SendRawStreams ==
    ASSUME Consistent, NEW d \in End, SendRaw(d)
    PROVE  Streams'
<1> DEFINE o == Peer(d)
           m == packet[d]
           k == PacketSize - left[d]
           u == Units(o)
           g == Received(o)
           w == written[d]
<1>0. TypeOK /\ Streams /\ WriterHasPacket
  BY DEF Consistent, Types
<1>1. PICK n \in 1 .. left[d] :
        /\ LET from == PacketSize - left[d] + 1 IN
           wire' = [wire EXCEPT ![Peer(d)] = @ \o SubSeq(Packet(packet[d]), from, from + n - 1)]
        /\ left' = [left EXCEPT ![d] = @ - n]
        /\ IF n = left[d] THEN Written(d) ELSE UNCHANGED <<written, packet, worker>>
  BY DEF SendRaw
<1>2. /\ worker[d] = "write" /\ running_[d] /\ socket_[d] /\ socket_[Peer(d)]
      /\ UNCHANGED <<running_, socket_, receive_buffer, recv_queue_, reported>>
  BY DEF SendRaw, flags, receive_vars, event_vars
<1>3. o \in End /\ o # d /\ Peer(o) = d
  BY Ends
<1>4. /\ m \in Message /\ left[d] \in 1 .. PacketSize /\ PacketSize \in Nat
      /\ k \in Nat /\ n \in Nat \ {0} /\ k + n <= PacketSize
      /\ k + 1 + n - 1 = k + n /\ PacketSize - (left[d] - n) = k + n
      /\ n = left[d] <=> k + n = PacketSize
  BY <1>0, <1>2, SizeAssumption DEF WriterHasPacket
<1>5. m # None
  BY <1>4, SizeAssumption DEF Message, None
<1>6. Begun(d) = k
  BY <1>5 DEF Begun
<1>7. /\ u \in Seq(Unit) /\ g \in Seq(Message \cup {None}) /\ w \in Seq(Message)
      /\ receive_buffer[o] \in Seq(Unit) /\ wire[o] \in Seq(Unit)
  BY <1>0, <1>3, ReceivedType DEF TypeOK
<1>8. Units(o)' = Grown(u, m, k, n)
  <2> DEFINE p == SubSeq(Packet(m), k + 1, k + n)
             b == receive_buffer[o]
             x == wire[o]
  <2>1. wire'[o] = x \o p
    BY <1>0, <1>1, <1>3, <1>4 DEF TypeOK
  <2>2. p \in Seq(Unit)
    BY <1>4, PartUnits
  <2>3. b \in Seq(Unit) /\ x \in Seq(Unit)
    BY <1>7
  <2>4. Units(o)' = b \o wire'[o]
    BY <1>2 DEF Units
  <2> HIDE DEF p, b, x
  <2>5. (b \o x) \o p = b \o (x \o p)
    BY <2>2, <2>3, Associative
  <2> QED
    BY <2>1, <2>4, <2>5 DEF Grown, Units, p, b, x
<1>9. Received(o)' = g
  BY <1>2 DEF Received
<1>10. Open(d) /\ Flows(u, g, w) /\ EndsIn(u, g, w, m, k)
  BY <1>0, <1>2, <1>3, <1>6 DEF Open, Streams, Stream
<1> HIDE DEF u, g, w
<1>11. Stream(o)'
  <2>1. CASE n = left[d]
    <3>1. packet'[d] = None /\ written'[d] = Append(w, m)
      BY <1>0, <1>1, <2>1 DEF Written, TypeOK, w
    <3>2. /\ Flows(Grown(u, m, k, n), g, Append(w, m))
          /\ EndsIn(Grown(u, m, k, n), g, Append(w, m), None, 0)
      <4>1. k + n = PacketSize
        BY <1>4, <2>1
      <4> HIDE DEF m, k
      <4> QED
        BY <1>4, <1>7, <1>10, <4>1, RestWritten
    <3>3. Begun(d)' = 0
      BY <3>1 DEF Begun
    <3>4. Flows(Units(o), Received(o), written[d])'
      BY <1>8, <1>9, <3>1, <3>2 DEF Flows, Start
    <3>5. EndsIn(Units(o), Received(o), written[d], packet[d], Begun(d))'
      BY <1>8, <1>9, <3>1, <3>2, <3>3 DEF EndsIn, EndsWith, Start
    <3> QED
      BY <1>3, <3>4, <3>5 DEF Stream
  <2>2. CASE n # left[d]
    <3>1. packet' = packet /\ written' = written /\ left'[d] = left[d] - n
      BY <1>0, <1>1, <2>2 DEF TypeOK
    <3>2. Flows(Grown(u, m, k, n), g, w) /\ EndsIn(Grown(u, m, k, n), g, w, m, k + n)
      <4>1. k + n < PacketSize
        BY <1>4, <2>2
      <4> HIDE DEF m, k
      <4> QED
        BY <1>4, <1>7, <1>10, <4>1, PartWritten
    <3>3. Begun(d)' = k + n /\ packet'[d] = m
      BY <1>4, <1>5, <3>1 DEF Begun
    <3>4. written'[d] = w
      BY <3>1 DEF w
    <3>5. Flows(Units(o), Received(o), written[d])'
      BY <1>8, <1>9, <3>2, <3>4 DEF Flows, Start
    <3>6. EndsIn(Units(o), Received(o), written[d], packet[d], Begun(d))'
      <4> HIDE DEF m, k
      <4> QED
        BY <1>8, <1>9, <3>2, <3>3, <3>4 DEF EndsIn, EndsWith, Start
    <3> QED
      BY <1>3, <3>5, <3>6 DEF Stream
  <2> QED
    BY <2>1, <2>2
<1>12. Stream(d)'
  <2>1. /\ wire'[d] = wire[d] /\ packet'[o] = packet[o] /\ left'[o] = left[o]
        /\ written'[o] = written[o] /\ worker'[o] = worker[o]
    BY SMTT(30), <1>0, <1>1, <1>3 DEF TypeOK, Written, Goto
  <2>2. Units(d)' = Units(d) /\ Received(d)' = Received(d)
    BY <1>2, <2>1 DEF Units, Received
  <2>3. Begun(o)' = Begun(o) /\ (Open(o)' => Open(o))
    BY <1>2, <2>1 DEF Begun, Open
  <2>4. Stream(d)
    BY <1>0 DEF Streams
  <2> QED
    BY <2>1, <2>2, <2>3, <2>4, SameStream
<1> QED
  BY <1>3, <1>11, <1>12, Ends DEF Streams

\* The peer has closed: what is written then does not arrive.
LEMMA SendRawUnreadStreams ==
    ASSUME Consistent, NEW d \in End, SendRaw_Unread(d)
    PROVE  Streams'
<1> DEFINE o == Peer(d)
<1>0. TypeOK /\ Streams /\ WriterHasPacket
  BY DEF Consistent, Types
<1>1. /\ worker[d] = "write" /\ ~socket_[Peer(d)] /\ Reset(d, wire) /\ Written(d)
      /\ UNCHANGED <<running_, socket_, receive_buffer, recv_queue_, reported>>
  BY DEF SendRaw_Unread, flags, receive_vars, event_vars
<1>2. o \in End /\ o # d /\ Peer(o) = d
  BY Ends
<1>3. \A e \in End : ~Open(e)'
  BY <1>1, <1>2, Ends DEF Open
<1>4. PICK n \in 0 .. Len(wire[d]) : wire' = [wire EXCEPT ![d] = SubSeq(wire[d], 1, n)]
  BY <1>1 DEF Reset
<1>5. written' = [written EXCEPT ![d] = Append(@, packet[d])]
  BY <1>1 DEF Written
<1>6. Stream(o)'
  <2>1. /\ Units(o) \in Seq(Unit) /\ Received(o) \in Seq(Message \cup {None})
        /\ written[d] \in Seq(Message) /\ packet[d] \in Message
    BY <1>0, <1>1, <1>2, ReceivedType DEF TypeOK, WriterHasPacket
  <2>2. Flows(Units(o), Received(o), written[d])
    BY <1>0, <1>2 DEF Streams, Stream
  <2>3. Flows(Units(o), Received(o), Append(written[d], packet[d]))
    BY <2>1, <2>2, MoreWritten
  <2>4. wire'[o] = wire[o] /\ written'[d] = Append(written[d], packet[d])
    BY <1>0, <1>2, <1>4, <1>5 DEF TypeOK
  <2>5. Units(o)' = Units(o) /\ Received(o)' = Received(o)
    BY <1>1, <2>4 DEF Units, Received
  <2>6. Flows(Units(o), Received(o), written[d])'
    BY <2>3, <2>4, <2>5 DEF Flows, Start
  <2> QED
    BY <1>2, <1>3, <2>6 DEF Stream
<1>7. Stream(d)'
  <2>1. wire'[d] = SubSeq(wire[d], 1, n) /\ written'[o] = written[o]
    BY <1>0, <1>2, <1>4, <1>5 DEF TypeOK
  <2>2. Stream(d)
    BY <1>0 DEF Streams
  <2> QED
    BY <1>0, <1>1, <1>2, <1>3, <2>1, <2>2, CutStream
<1> QED
  BY <1>2, <1>6, <1>7, Ends DEF Streams

\* The part of a packet that SendRaw leaves behind is the end of the stream.
LEMMA SendRawFailStreams ==
    ASSUME Consistent, NEW d \in End, SendRaw_Fail(d)
    PROVE  Streams'
<1>0. TypeOK /\ Streams
  BY DEF Consistent, Types
<1>1. /\ worker[d] = "write" /\ Broken(d)
      /\ packet' = [packet EXCEPT ![d] = None] /\ left' = [left EXCEPT ![d] = 0]
      /\ worker' = [worker EXCEPT ![d] = AfterTick(d)]
      /\ UNCHANGED <<running_, socket_, wire, receive_buffer, recv_queue_, reported, written>>
  BY DEF SendRaw_Fail, Goto, flags, socket_vars, receive_vars, event_vars
<1>2. ~Open(d)'
  BY <1>0, <1>1 DEF Open, Broken, AfterTick, TypeOK
<1>3. \A e \in End : e # d => worker'[e] = worker[e] /\ packet'[e] = packet[e] /\ left'[e] = left[e]
  BY <1>0, <1>1 DEF TypeOK
<1>4. \A e \in End : Open(e)' =>
         Open(e) /\ packet'[e] = packet[e] /\ Begun(e)' = Begun(e)
  BY <1>1, <1>2, <1>3 DEF Open, Begun
<1> QED
  BY <1>0, <1>1, <1>4, QuietStreams

-----------------------------------------------------------------------------
(* Every step.                                                             *)

\* A step of a worker.
LEMMA WorkerStreams ==
    ASSUME Consistent, NEW d \in End, WorkerThread(d)
    PROVE  Streams'
<1>1. CASE Worker_End(d) \/ Receive_Nothing(d)
  <2>0. TypeOK /\ Streams
    BY DEF Consistent, Types
  <2>1. /\ UNCHANGED <<running_, socket_, wire, receive_buffer, recv_queue_, reported, written,
                       packet, left>>
        /\ \A e \in End : worker'[e] = "new" => worker[e] = "new"
    BY <1>1, <2>0 DEF Worker_End, Receive_Nothing, Goto, AfterRecv, TypeOK, flags, socket_vars,
                      receive_vars, protocol_vars, event_vars
  <2>2. \A e \in End : Open(e)' =>
           Open(e) /\ packet'[e] = packet[e] /\ Begun(e)' = Begun(e)
    BY <2>1 DEF Open, Begun
  <2> QED
    BY <2>0, <2>1, <2>2, QuietStreams
<1> QED
  BY <1>1, ReceiveStreams, WorkTickStreams, SendRawStreams, SendRawUnreadStreams,
     SendRawFailStreams DEF WorkerThread

\* An event for each message: what has been received stays the same.
LEMMA EventReceived ==
    ASSUME TypeOK, ProcessReceivedData, NEW e \in End
    PROVE  Received(e)' = Received(e)
<1> DEFINE M == Message \cup {None}
           l == recv_queue_["session"]
<1>1. reported' \o recv_queue_'["session"] = reported \o l
  <2>1. CASE l = <<>>
    BY <2>1 DEF ProcessReceivedData, event_vars
  <2>2. CASE l # <<>>
    <3>1. reported \in Seq(M) /\ l \in Seq(M)
      BY Ends DEF TypeOK
    <3>2. reported' = Append(reported, Head(l)) /\ recv_queue_'["session"] = Tail(l)
      BY SMTT(30), <2>2, Ends DEF ProcessReceivedData, AddMessage, TypeOK
    <3> HIDE DEF l, M
    <3>3. Append(reported, Head(l)) \o Tail(l) = reported \o l
      BY <2>2, <3>1, MovedMessage
    <3> QED
      BY <3>2, <3>3
  <2> QED
    BY <2>1, <2>2
<1>2. recv_queue_'["client"] = recv_queue_["client"]
  BY Ends DEF ProcessReceivedData, TypeOK
<1> QED
  BY <1>1, <1>2 DEF Received

\* So events change no stream.
LEMMA EventStreams ==
    ASSUME Consistent, ProcessReceivedData
    PROVE  Streams'
<1>0. TypeOK /\ Streams
  BY DEF Consistent, Types
<1>1. UNCHANGED <<running_, socket_, wire, receive_buffer, written, packet, left>>
  BY DEF ProcessReceivedData, flags, socket_vars, protocol_vars
<1>2. \A e \in End : worker'[e] = "new" => worker[e] = "new"
  BY <1>0 DEF ProcessReceivedData, Goto, TypeOK
<1> SUFFICES ASSUME NEW e \in End PROVE Stream(e)'
  BY DEF Streams
<1>3. Units(e)' = Units(e) /\ Received(e)' = Received(e)
  BY <1>0, <1>1, EventReceived DEF Units
<1>4. Open(Peer(e))' => Open(Peer(e))
  BY <1>1, <1>2, Ends DEF Open
<1> QED
  BY <1>0, <1>1, <1>3, <1>4, SameStream DEF Streams, Begun

\* close() throws units away, and both streams are closed then.
LEMMA CloseStreams ==
    ASSUME Consistent, NEW d \in End, Close(d),
           UNCHANGED <<receive_buffer, recv_queue_, reported, written>>
    PROVE  Streams'
<1>0. TypeOK /\ Streams
  BY DEF Consistent, Types
<1>1. \A e \in End : ~Open(Peer(e))'
  BY <1>0, Ends DEF Close, Open, TypeOK
<1>2. ASSUME NEW e \in End PROVE \E n \in 0 .. Len(wire[e]) : wire'[e] = SubSeq(wire[e], 1, n)
  <2>1. wire[e] \in Seq(Unit) /\ Len(wire[e]) \in Nat
    BY <1>0, LenProperties DEF TypeOK
  <2>2. SubSeq(wire[e], 1, 0) = <<>> /\ SubSeq(wire[e], 1, Len(wire[e])) = wire[e]
    BY <2>1, SubSeqEmpty, SubSeqFull
  <2>3. 0 \in 0 .. Len(wire[e]) /\ Len(wire[e]) \in 0 .. Len(wire[e])
    BY <2>1
  <2>4. CASE e = d
    <3>1. wire'[e] = <<>>
      BY SMTT(30), <1>0, <2>4, Ends DEF Close, Reset, TypeOK
    <3> QED
      BY <2>2, <2>3, <3>1
  <2>5. CASE e = Peer(d) /\ wire'[e] = wire[e]
    BY <2>2, <2>3, <2>5
  <2>6. CASE e = Peer(d) /\ wire'[e] # wire[e]
    BY SMTT(30), <1>0, <2>6, Ends DEF Close, Reset, TypeOK
  <2> QED
    BY <2>4, <2>5, <2>6, Ends
<1>3. ASSUME NEW e \in End PROVE Stream(e)'
  BY <1>0, <1>1, <1>2, CutStream DEF Streams
<1> QED
  BY <1>3 DEF Streams

\* All the other steps are no part of the streams.
LEMMA OtherStreams ==
    ASSUME Consistent, Next, ~WorkerThread("session"), ~WorkerThread("client"),
           ~ProcessReceivedData, ~Disconnect_Join, ~SessionStop_Close
    PROVE  Streams'
<1>0. TypeOK /\ Streams
  BY DEF Consistent, Types
<1>1. UNCHANGED <<socket_, wire, receive_buffer, recv_queue_, reported, written, packet, left>>
  BY DEF Next, Session, Client, Receive_Lost, Report, AddDisconnect, ProcessSending_Take,
         ProcessSending_Hand, ProcessSending_Done, ProcessSendMsg, SendToClient,
         SendMessage_Test, SendMessage_Push, Broadcast, Disconnect, SessionStart,
         SessionStart_Running, SessionStart_Connected, SessionStart_Thread, Stop_Erase,
         Stopper, SessionStop, SessionStop_Connected, SessionStop_Join, DisconnectClient_Event, socket_vars,
         receive_vars, protocol_vars, event_vars
<1>2. ASSUME NEW e \in End
      PROVE  (running_'[e] \/ worker'[e] = "new") => (running_[e] \/ worker[e] = "new")
  BY <1>0 DEF TypeOK, Goto, flags,
         Next, Session, Client, Receive_Lost, Report, ProcessSending_Take,
         ProcessSending_Hand, ProcessSending_Done, ProcessSendMsg, SendToClient,
         SendMessage_Test, SendMessage_Push, Broadcast, Disconnect, SessionStart,
         SessionStart_Running, SessionStart_Connected, SessionStart_Thread, Stop_Erase,
         Stopper, SessionStop, SessionStop_Connected, SessionStop_Join, DisconnectClient_Event
<1>3. \A e \in End : Open(e)' =>
         Open(e) /\ packet'[e] = packet[e] /\ Begun(e)' = Begun(e)
  BY <1>1, <1>2 DEF Open, Begun
<1> QED
  BY <1>0, <1>1, <1>3, QuietStreams

\* Every step keeps both streams.
LEMMA NextStreams ==
    ASSUME Consistent, Next
    PROVE  Streams'
<1>1. CASE WorkerThread("session") \/ WorkerThread("client")
  BY <1>1, WorkerStreams, Ends
<1>2. CASE Disconnect_Join \/ SessionStop_Close
  BY <1>2, CloseStreams, Ends DEF Disconnect_Join, SessionStop_Close, receive_vars,
                                  protocol_vars, event_vars
<1> QED
  BY <1>1, <1>2, EventStreams, OtherStreams

\* A packet is let go when the worker leaves SendRaw.
LEMMA NextWritesPacket ==
    ASSUME Consistent, Next
    PROVE  WritesPacket'
<1>0. TypeOK /\ WritesPacket /\ WriterHasPacket /\ None \notin Message
  BY SizeAssumption DEF Consistent, Types, Message, None
<1> USE DEF WritesPacket, Goto
<1>1. ASSUME NEW d \in End, WorkTick(d)
      PROVE  WritesPacket'
  BY SMTT(30), <1>0, <1>1 DEF WorkTick, AfterTick, TypeOK
<1>2. ASSUME NEW d \in End, SendRaw(d)
      PROVE  WritesPacket'
  <2>1. CASE Written(d)
    BY <1>0, <1>2, <2>1 DEF Written, AfterTick, TypeOK
  <2>2. CASE UNCHANGED <<written, packet, worker>>
    BY <1>0, <2>2
  <2> QED
    BY <1>2, <2>1, <2>2 DEF SendRaw
<1>3. ASSUME NEW d \in End, SendRaw_Unread(d) \/ SendRaw_Fail(d)
      PROVE  WritesPacket'
  BY <1>0, <1>3 DEF SendRaw_Unread, SendRaw_Fail, Written, AfterTick, TypeOK
<1>4. ASSUME NEW d \in End, Worker_End(d) \/ Receive(d) \/ Receive_Nothing(d)
      PROVE  WritesPacket'
  BY <1>0, <1>4 DEF Worker_End, Receive, Receive_Nothing, AfterRecv, TypeOK, protocol_vars
<1>5. ASSUME \/ Receive_Lost \/ Report \/ ProcessReceivedData \/ ProcessSending_Take
             \/ ProcessSending_Hand \/ ProcessSending_Done \/ ProcessSendMsg \/ SessionStart
      PROVE  WritesPacket'
  BY <1>0, <1>5 DEF Receive_Lost, Report, ProcessReceivedData, ProcessSending_Take,
     ProcessSending_Hand, ProcessSending_Done, ProcessSendMsg, SessionStart,
     SessionStart_Running, SessionStart_Connected, SessionStart_Thread, TypeOK, protocol_vars
<1>6. ASSUME \/ \E a \in App : SendToClient(a) \/ SendMessage_Test(a) \/ SendMessage_Push(a)
             \/ Broadcast \/ Disconnect \/ Disconnect_Join \/ Stop_Erase \/ Stopper
      PROVE  WritesPacket'
  BY <1>0, <1>6 DEF SendToClient, SendMessage_Test, SendMessage_Push, Broadcast, Disconnect,
     Disconnect_Join, Stop_Erase, Stopper, SessionStop, SessionStop_Connected,
     SessionStop_Join, SessionStop_Close, DisconnectClient_Event, protocol_vars
<1> QED
  BY <1>1, <1>2, <1>3, <1>4, <1>5, <1>6, Ends DEF Next, Session, Client, WorkerThread

\* At first nothing has been written.
LEMMA InitStreams == Init => WritesPacket /\ Streams
<1> SUFFICES ASSUME Init PROVE WritesPacket /\ Streams
  OBVIOUS
<1>0. TypeOK
  BY InitTypes DEF Types
<1>1. WritesPacket
  BY DEF Init, WritesPacket, End, None
<1>2. ASSUME NEW e \in End PROVE Stream(e)
  <2>1. Units(e) = <<>> /\ Received(e) = <<>>
    <3>1. \A S : <<>> \in Seq(S) /\ Len(<<>>) = 0
      BY EmptySeq
    <3>2. <<>> \o <<>> = <<>>
      BY <3>1, ConcatEmptySeq
    <3> QED
      BY <3>2, Ends DEF Init, Units, Received
  <2>2. written[Peer(e)] = <<>> /\ Begun(Peer(e)) = 0 /\ packet[Peer(e)] = None
    BY Ends DEF Init, Begun
  <2>3. Flows(<<>>, <<>>, <<>>)
    <3>1. ASSUME NEW q \in Nat PROVE ~(Start(q + 1) <= 0)
      <4>1. PacketSize \in Nat /\ PacketSize > 0
        BY SizeAssumption
      <4>2. Start(q + 1) = Start(q) + PacketSize /\ Start(q) \in Nat
        BY StartNat, StartNext
      <4> QED
        BY <4>1, <4>2
    <3> QED
      BY <3>1 DEF Flows
  <2>4. EndsIn(<<>>, <<>>, <<>>, None, 0)
    <3>1. Start(0) = 0
      BY SizeAssumption DEF Start
    <3> QED
      BY <3>1 DEF EndsIn, EndsWith
  <2> QED
    BY <2>1, <2>2, <2>3, <2>4 DEF Stream
<1> QED
  BY <1>1, <1>2 DEF Streams

\* The units between the two ends are those of whole packets, in the order in
\* which they were written, and of a part of the next one.
THEOREM StreamsConsistent == Spec => []Consistent
<1>1. Consistent /\ [Next]_vars => Consistent'
  <2> SUFFICES ASSUME Consistent, [Next]_vars PROVE Consistent'
    OBVIOUS
  <2>1. Types'
    BY LoopTypes, OtherTypes DEF Consistent, vars, flags, socket_vars, receive_vars,
       protocol_vars, send_vars, server_vars, event_vars, Types, TypeOK, WriterHasPacket
  <2>2. CASE UNCHANGED vars
    <3>1. /\ UNCHANGED <<receive_buffer, wire, recv_queue_, reported, written>>
          /\ UNCHANGED <<socket_, running_, worker, packet, left>>
      BY <2>2 DEF vars, flags, socket_vars, receive_vars, protocol_vars, event_vars
    <3>2. Streams'
      BY <3>1, QuietStreams DEF Consistent, Open, Begun
    <3> QED
      BY <2>1, <3>1, <3>2 DEF Consistent, WritesPacket
  <2> QED
    BY <2>1, <2>2, NextStreams, NextWritesPacket DEF Consistent
<1> QED
  BY <1>1, InitTypes, InitStreams, PTL DEF Spec, Consistent

\* So what has been received is a prefix of what was written.
LEMMA ReceivedPrefix ==
    ASSUME TypeOK, Streams, NEW e \in End
    PROVE  IsPrefix(Received(e), written[Peer(e)])
<1> DEFINE g == Received(e)
           w == written[Peer(e)]
<1>1. Len(g) \in Nat /\ Len(w) \in Nat /\ g \in Seq(Message \cup {None}) /\ w \in Seq(Message)
  BY ReceivedType, Ends, LenProperties DEF TypeOK
<1>2. Len(g) <= Len(w) /\ \A i \in 1 .. Len(g) : g[i] = w[i]
  BY DEF Streams, Stream, Flows
<1> HIDE DEF g, w
<1>3. w \in Seq(Message \cup {None})
  BY <1>1, SeqMonotonic
<1>4. SubSeq(g, 1, Len(g)) = g
  BY <1>1, SubSeqFull
<1>5. /\ SubSeq(w, 1, Len(g)) \in Seq(Message \cup {None})
      /\ Len(SubSeq(w, 1, Len(g))) = Len(g)
      /\ \A i \in 1 .. Len(g) : SubSeq(w, 1, Len(g))[i] = w[i]
  <2>1. SubSeq(w, 1, Len(g)) \in Seq(Message \cup {None})
    BY <1>1, <1>2, <1>3, PartOfSeq
  <2> QED
    BY <1>1, <1>2, <2>1
<1>6. g = SubSeq(w, 1, Len(g))
  BY <1>1, <1>2, <1>5, SeqEqual
<1> QED
  BY <1>2, <1>4, <1>6 DEF IsPrefix, g, w

-----------------------------------------------------------------------------
(* Each message is kept until it has been written.                         *)

Kept(e) ==
    /\ IsInjective(written[e])
    /\ given[e] = send_queue[e] \cup ToSet(written[e]) \cup ({packet[e]} \ {None})
    /\ send_queue[e] \cap ToSet(written[e]) = {}
    /\ packet[e] \notin send_queue[e] \cup ToSet(written[e])

\* How many messages of the session have been handed to the protocol, or dropped.
Handed == pushed - Len(send_queue_) - Len(sending)

\* The messages on their way to the protocol are those that come next.
Numbered ==
    /\ Len(send_queue_) + Len(sending) <= pushed
    /\ \A i \in 1 .. Len(sending) : sending[i] = Handed + i
    /\ \A i \in 1 .. Len(send_queue_) : send_queue_[i] = pushed - Len(send_queue_) + i
    /\ \A m \in given["session"] : m <= Handed

\* One more message at the end of those written.
LEMMA OneMore ==
    ASSUME NEW w \in Seq(Message), NEW m \in Message
    PROVE  /\ ToSet(Append(w, m)) = ToSet(w) \cup {m}
           /\ IsInjective(w) /\ m \notin ToSet(w) => IsInjective(Append(w, m))
<1> DEFINE y == Append(w, m)
<1>1. /\ Len(w) \in Nat /\ DOMAIN w = 1 .. Len(w)
      /\ y \in Seq(Message) /\ Len(y) = Len(w) + 1 /\ y[Len(w) + 1] = m
      /\ \A i \in 1 .. Len(w) : y[i] = w[i]
  BY AppendProperties, LenProperties
<1> HIDE DEF y
<1>2. DOMAIN y = 1 .. Len(w) + 1
  BY <1>1, LenProperties
<1>3. \A i \in 1 .. Len(w) + 1 : i \in 1 .. Len(w) \/ i = Len(w) + 1
  BY <1>1
<1>4. 1 .. Len(w) \subseteq 1 .. Len(w) + 1 /\ Len(w) + 1 \in 1 .. Len(w) + 1
  BY <1>1
<1>5. ToSet(y) = ToSet(w) \cup {m}
  BY <1>1, <1>2, <1>3, <1>4 DEF ToSet
<1>6. ASSUME IsInjective(w), m \notin ToSet(w)
      PROVE  IsInjective(y)
  <2>1. \A i \in 1 .. Len(w) : y[i] # m
    BY <1>1, <1>6 DEF ToSet
  <2> QED
    BY <1>1, <1>2, <1>3, <1>6, <2>1 DEF IsInjective
<1> QED
  BY <1>5, <1>6 DEF y

\* A step that does not concern the messages of an end.
LEMMA SameKept ==
    ASSUME NEW e \in End, Kept(e),
           /\ given'[e] = given[e] /\ send_queue'[e] = send_queue[e]
           /\ written'[e] = written[e] /\ packet'[e] = packet[e]
    PROVE  Kept(e)'
  BY DEF Kept, ToSet, IsInjective

\* What has been written becomes one more.
LEMMA WrittenKept ==
    ASSUME TypeOK, NEW d \in End, Kept(d), packet[d] \in Message, Written(d),
           given'[d] = given[d], send_queue'[d] = send_queue[d]
    PROVE  Kept(d)'
<1> DEFINE w == written[d]
           m == packet[d]
<1>1. w \in Seq(Message) /\ None \notin Message /\ send_queue[d] \subseteq Message
  BY SMTT(30), SizeAssumption DEF TypeOK, Message, None
<1>2. written'[d] = Append(w, m) /\ packet'[d] = None
  BY DEF Written, TypeOK
<1>3. /\ ToSet(Append(w, m)) = ToSet(w) \cup {m}
      /\ IsInjective(w) /\ m \notin ToSet(w) => IsInjective(Append(w, m))
  BY <1>1, OneMore
<1>4. \A x \in ToSet(w) : x \in Message
  <2>1. DOMAIN w = 1 .. Len(w)
    BY <1>1, LenProperties
  <2> QED
    BY <1>1, <2>1, ElementOfSeq DEF ToSet
<1>5. ToSet(written[d])' = ToSet(w) \cup {m} /\ IsInjective(written[d])'
  <2>1. ToSet(written[d])' = ToSet(Append(w, m))
    BY <1>2 DEF ToSet
  <2>2. IsInjective(written[d])' <=> IsInjective(Append(w, m))
    BY <1>2 DEF IsInjective
  <2> QED
    BY <1>3, <2>1, <2>2 DEF Kept
<1> QED
  BY <1>1, <1>2, <1>4, <1>5 DEF Kept

\* A worker moves its messages from the queue to the packet, and on, or back.
LEMMA WorkerKept ==
    ASSUME Consistent, NEW d \in End, Kept(d), WorkerThread(d)
    PROVE  Kept(d)'
<1>0. TypeOK /\ WritesPacket /\ WriterHasPacket /\ None \notin Message
  BY SizeAssumption DEF Consistent, Types, Message, None
<1>1. CASE Worker_End(d) \/ Receive(d) \/ Receive_Nothing(d)
  BY <1>1, SameKept DEF Worker_End, Receive, Receive_Nothing, protocol_vars
<1>2. CASE WorkTick(d)
  <2>1. given'[d] = given[d] /\ written'[d] = written[d] /\ packet[d] = None
    BY <1>0, <1>2 DEF WorkTick, WritesPacket
  <2>2. CASE UNCHANGED <<send_queue, packet>>
    BY <2>1, <2>2, SameKept
  <2>3. ASSUME NEW m \in send_queue[d], send_queue'[d] = send_queue[d] \ {m}, packet'[d] = m
        PROVE  Kept(d)'
    <3>1. m # None
      BY <1>0 DEF TypeOK
    <3>2. ToSet(written[d])' = ToSet(written[d])
          /\ (IsInjective(written[d])' <=> IsInjective(written[d]))
      BY <2>1 DEF ToSet, IsInjective
    <3> QED
      BY <2>1, <2>3, <3>1, <3>2 DEF Kept
  <2> QED
    BY <1>0, <1>2, <2>2, <2>3 DEF WorkTick, TypeOK
<1>3. CASE SendRaw(d)
  <2>1. UNCHANGED <<given, send_queue>> /\ packet[d] \in Message
    BY <1>0, <1>3 DEF SendRaw, WriterHasPacket
  <2>2. CASE Written(d)
    BY <1>0, <2>1, <2>2, WrittenKept
  <2>3. CASE UNCHANGED <<written, packet, worker>>
    BY <2>1, <2>3, SameKept
  <2> QED
    BY <1>3, <2>2, <2>3 DEF SendRaw
<1>4. CASE SendRaw_Unread(d)
  BY <1>0, <1>4, WrittenKept DEF SendRaw_Unread, WriterHasPacket
<1>5. CASE SendRaw_Fail(d)
  <2>1. /\ given'[d] = given[d] /\ written'[d] = written[d]
        /\ packet'[d] = None /\ send_queue'[d] = send_queue[d] \cup {packet[d]}
        /\ packet[d] \in Message
    BY <1>0, <1>5 DEF SendRaw_Fail, TypeOK, WriterHasPacket
  <2>2. ToSet(written[d])' = ToSet(written[d])
        /\ (IsInjective(written[d])' <=> IsInjective(written[d]))
    BY <2>1 DEF ToSet, IsInjective
  <2>3. None \notin send_queue[d] /\ None \notin ToSet(written[d])
    <3>1. written[d] \in Seq(Message) /\ DOMAIN written[d] = 1 .. Len(written[d])
      BY <1>0, LenProperties DEF TypeOK
    <3> QED
      BY <1>0, <3>1, ElementOfSeq DEF ToSet, TypeOK
  <2> QED
    BY <1>0, <2>1, <2>2, <2>3 DEF Kept
<1> QED
  BY <1>1, <1>2, <1>3, <1>4, <1>5 DEF WorkerThread

\* It leaves those of the other end alone.
LEMMA OtherKept ==
    ASSUME TypeOK, NEW d \in End, NEW e \in End, e # d, Kept(e), WorkerThread(d)
    PROVE  Kept(e)'
<1>1. CASE \/ Worker_End(d) \/ Receive(d) \/ Receive_Nothing(d) \/ WorkTick(d)
           \/ SendRaw_Unread(d) \/ SendRaw_Fail(d)
  BY <1>1, SameKept DEF Worker_End, Receive, Receive_Nothing, WorkTick, SendRaw_Unread,
                        SendRaw_Fail, Written, protocol_vars, TypeOK
<1>2. CASE SendRaw(d)
  <2>1. UNCHANGED <<given, send_queue>>
    BY <1>2 DEF SendRaw
  <2>2. CASE Written(d)
    BY <2>1, <2>2, SameKept DEF Written, TypeOK
  <2>3. CASE UNCHANGED <<written, packet, worker>>
    BY <2>1, <2>3, SameKept
  <2> QED
    BY <1>2, <2>2, <2>3 DEF SendRaw
<1> QED
  BY <1>1, <1>2 DEF WorkerThread

\* A message that has not been given to the protocol before is added to the queue.
LEMMA GivenKept ==
    ASSUME TypeOK, NEW e \in End, Kept(e), NEW M \in SUBSET Message, M \cap given[e] = {},
           given'[e] = given[e] \cup M, send_queue'[e] = send_queue[e] \cup M,
           UNCHANGED <<written, packet>>
    PROVE  Kept(e)'
<1>1. None \notin Message
  BY SizeAssumption DEF Message, None
<1>2. ToSet(written[e])' = ToSet(written[e])
      /\ (IsInjective(written[e])' <=> IsInjective(written[e]))
  BY DEF ToSet, IsInjective
<1> QED
  BY <1>1, <1>2 DEF Kept

\* The next message of those taken is one that was not given before.
LEMMA HandKept ==
    ASSUME TypeOK, Numbered, Kept("session"), ProcessSending_Hand
    PROVE  Kept("session")' /\ Numbered'
<1> DEFINE m == Head(sending)
<1>1. /\ sending \in Seq(Message) /\ sending # <<>> /\ "session" \in End
      /\ pushed \in Nat /\ send_queue_ \in Seq(Message)
  BY Ends, SizeAssumption DEF ProcessSending_Hand, TypeOK
<1>2. /\ Len(sending) \in Nat /\ Len(send_queue_) \in Nat /\ Len(sending) > 0
      /\ m = sending[1] /\ m \in Message
      /\ Len(Tail(sending)) = Len(sending) - 1
      /\ \A i \in 1 .. Len(sending) - 1 : Tail(sending)[i] = sending[i + 1]
  <2>1. /\ m \in Message /\ Tail(sending) \in Seq(Message)
        /\ Len(Tail(sending)) = Len(sending) - 1
        /\ \A i \in 1 .. Len(Tail(sending)) : Tail(sending)[i] = sending[i + 1]
    BY <1>1, HeadTailProperties
  <2>2. Len(sending) \in Nat /\ Len(send_queue_) \in Nat /\ Len(sending) \in Nat \ {0}
    BY <1>1, EmptySeq, LenProperties
  <2>3. m = sending[1]
    BY <1>1
  <2> QED
    BY <2>1, <2>2, <2>3
<1>3. /\ given'["session"] = given["session"] \cup {m}
      /\ send_queue'["session"] = send_queue["session"] \cup {m}
      /\ sending' = Tail(sending) /\ UNCHANGED <<written, packet, send_queue_, pushed>>
  BY <1>1 DEF ProcessSending_Hand, TypeOK
<1>4. m = Handed + 1 /\ Handed \in Nat
  BY <1>1, <1>2 DEF Numbered, Handed
<1>5. \A x \in given["session"] : x \in Nat /\ x <= Handed
  <2>1. given["session"] \subseteq Message
    BY <1>1 DEF TypeOK
  <2>2. \A x \in Message : x \in Nat
    BY DEF Message
  <2> QED
    BY <2>1, <2>2 DEF Numbered
<1>6. Kept("session")'
  <2>1. {m} \cap given["session"] = {}
    BY <1>4, <1>5
  <2>2. {m} \in SUBSET Message
    BY <1>2
  <2> QED
    BY <1>1, <1>3, <2>1, <2>2, GivenKept
<1>7. Handed' = Handed + 1
  BY <1>1, <1>2, <1>3 DEF Handed
<1>8. \A i \in 1 .. Len(sending') : sending'[i] = Handed' + i
  <2>1. \A i \in 1 .. Len(sending) - 1 : i + 1 \in 1 .. Len(sending)
    BY <1>2
  <2>2. \A i \in 1 .. Len(sending) : sending[i] = Handed + i
    BY DEF Numbered
  <2>3. ASSUME NEW i \in 1 .. Len(sending) - 1 PROVE Tail(sending)[i] = Handed + 1 + i
    <3>1. Tail(sending)[i] = Handed + (i + 1)
      BY <1>2, <2>1, <2>2
    <3> QED
      BY <1>2, <1>4, <3>1
  <2> QED
    BY <1>2, <1>3, <1>7, <2>3
<1>9. \A x \in given'["session"] : x <= Handed'
  BY <1>3, <1>4, <1>5, <1>7
<1>10. Len(send_queue_') + Len(sending') <= pushed'
       /\ \A i \in 1 .. Len(send_queue_') : send_queue_'[i] = pushed' - Len(send_queue_') + i
  BY <1>1, <1>2, <1>3 DEF Numbered
<1> QED
  BY <1>6, <1>8, <1>9, <1>10 DEF Numbered

\* The session takes all there is, or drops what it has taken.
LEMMA TakeNumbered ==
    ASSUME TypeOK, Numbered, ProcessSending_Take \/ ProcessSending_Done
    PROVE  Numbered'
<1>1. /\ Len(sending) \in Nat /\ Len(send_queue_) \in Nat /\ pushed \in Nat
      /\ Len(<<>>) = 0 /\ "session" \in End
  BY SizeAssumption, EmptySeq, LenProperties, Ends DEF TypeOK
<1>2. \A x \in given["session"] : x \in Nat /\ x <= Handed
  <2>1. given["session"] \subseteq Message
    BY <1>1 DEF TypeOK
  <2>2. \A x \in Message : x \in Nat
    BY DEF Message
  <2> QED
    BY <2>1, <2>2 DEF Numbered
<1>3. CASE ProcessSending_Take
  <2>1. /\ sending' = send_queue_ /\ send_queue_' = <<>>
        /\ UNCHANGED <<given, pushed>>
    BY <1>3 DEF ProcessSending_Take, protocol_vars
  <2>2. Handed' = pushed - Len(send_queue_) /\ Handed <= Handed' /\ Handed' \in Int
        /\ Handed \in Int
    BY <1>1, <2>1 DEF Handed
  <2>3. \A i \in 1 .. Len(sending') : sending'[i] = Handed' + i
    BY <2>1, <2>2 DEF Numbered
  <2>4. \A x \in given'["session"] : x <= Handed'
    BY <1>2, <2>1, <2>2
  <2>5. /\ Len(send_queue_') + Len(sending') <= pushed'
        /\ \A i \in 1 .. Len(send_queue_') : send_queue_'[i] = pushed' - Len(send_queue_') + i
    BY <1>1, <2>1 DEF Numbered
  <2> QED
    BY <2>3, <2>4, <2>5 DEF Numbered
<1>4. CASE ProcessSending_Done
  <2>1. sending' = <<>> /\ UNCHANGED <<given, pushed, send_queue_>>
    BY <1>4 DEF ProcessSending_Done, protocol_vars
  <2>2. Handed <= Handed' /\ Handed' \in Int /\ Handed \in Int
    BY <1>1, <2>1 DEF Handed
  <2>3. \A i \in 1 .. Len(sending') : sending'[i] = Handed' + i
    BY <1>1, <2>1
  <2>4. \A x \in given'["session"] : x <= Handed'
    BY <1>2, <2>1, <2>2
  <2>5. /\ Len(send_queue_') + Len(sending') <= pushed'
        /\ \A i \in 1 .. Len(send_queue_') : send_queue_'[i] = pushed' - Len(send_queue_') + i
    BY <1>1, <2>1 DEF Numbered
  <2> QED
    BY <2>3, <2>4, <2>5 DEF Numbered
<1> QED
  BY <1>3, <1>4

\* A push gives the message the next number.
LEMMA PushNumbered ==
    ASSUME TypeOK, Numbered, Push, UNCHANGED <<given, sending>>
    PROVE  Numbered'
<1>1. /\ Len(sending) \in Nat /\ Len(send_queue_) \in Nat /\ pushed \in Nat
      /\ send_queue_ \in Seq(Message)
  BY SizeAssumption, LenProperties DEF TypeOK
<1>2. pushed + 1 \in Message /\ pushed' = pushed + 1
  BY <1>1, SizeAssumption DEF Push, Message, TypeOK
<1>3. /\ Len(send_queue_') = Len(send_queue_) + 1
      /\ \A i \in 1 .. Len(send_queue_) : send_queue_'[i] = send_queue_[i]
      /\ send_queue_'[Len(send_queue_) + 1] = pushed + 1
  BY <1>1, <1>2, AppendProperties DEF Push
<1>4. Handed' = Handed
  BY <1>1, <1>2, <1>3 DEF Handed
<1>5. \A i \in 1 .. Len(send_queue_') : send_queue_'[i] = pushed' - Len(send_queue_') + i
  <2>1. pushed' - Len(send_queue_') = pushed - Len(send_queue_)
    BY <1>1, <1>2, <1>3
  <2>2. \A i \in 1 .. Len(send_queue_') : i \in 1 .. Len(send_queue_) \/ i = Len(send_queue_) + 1
    BY <1>1, <1>3
  <2>3. pushed + 1 = pushed - Len(send_queue_) + (Len(send_queue_) + 1)
    BY <1>1
  <2> QED
    BY <1>3, <2>1, <2>2, <2>3 DEF Numbered
<1>6. Len(send_queue_') + Len(sending') <= pushed'
  BY <1>1, <1>2, <1>3 DEF Numbered
<1> QED
  BY <1>4, <1>5, <1>6 DEF Numbered

\* The client's messages that are new are those not given before.
LEMMA QueueKept ==
    ASSUME TypeOK, Kept("client"), ProcessSendMsg
    PROVE  Kept("client")'
<1>1. PICK n \in 0 .. MaxSent : LET sent == given["client"] \cup 1 .. n IN
        /\ given' = [given EXCEPT !["client"] = sent]
        /\ send_queue' = [send_queue EXCEPT !["client"] = @ \cup (sent \ given["client"])]
  BY DEF ProcessSendMsg
<1> DEFINE M == (1 .. n) \ given["client"]
<1>2. M \in SUBSET Message /\ M \cap given["client"] = {}
  BY SizeAssumption DEF Message
<1>3. /\ given'["client"] = given["client"] \cup M
      /\ send_queue'["client"] = send_queue["client"] \cup M
      /\ UNCHANGED <<written, packet>>
  BY SMTT(30), <1>1, Ends DEF TypeOK, ProcessSendMsg
<1> QED
  BY <1>2, <1>3, GivenKept, Ends


\* The steps that take a part in the queues of neither end.
LEMMA IdleKept ==
    ASSUME Numbered, \A e \in End : Kept(e),
           UNCHANGED <<given, send_queue, written, packet>>
    PROVE  /\ \A e \in End : Kept(e)'
           /\ UNCHANGED <<send_queue_, sending, pushed>> => Numbered'
<1>1. \A e \in End : Kept(e)'
  BY SameKept
<1>2. UNCHANGED <<send_queue_, sending, pushed>> => Numbered'
  BY DEF Numbered, Handed
<1> QED
  BY <1>1, <1>2

\* Every step keeps the messages of both ends.
LEMMA NextKept ==
    ASSUME Consistent, Numbered, \A e \in End : Kept(e), Next
    PROVE  Numbered' /\ \A e \in End : Kept(e)'
<1>0. TypeOK /\ "session" \in End /\ "client" \in End
  BY Ends DEF Consistent, Types
<1>1. ASSUME NEW d \in End, WorkerThread(d)
      PROVE  Numbered' /\ \A e \in End : Kept(e)'
  <2>1. \A e \in End : Kept(e)'
    BY <1>0, <1>1, WorkerKept, OtherKept
  <2>2. UNCHANGED <<given, send_queue_, sending, pushed>>
    BY <1>1 DEF WorkerThread, Worker_End, Receive, Receive_Nothing, WorkTick, SendRaw,
                SendRaw_Unread, SendRaw_Fail, protocol_vars, send_vars
  <2> QED
    BY <2>1, <2>2 DEF Numbered, Handed
<1>2. CASE ProcessSending_Hand
  <2>1. \A e \in End : e # "session" =>
          /\ given'[e] = given[e] /\ send_queue'[e] = send_queue[e]
          /\ written'[e] = written[e] /\ packet'[e] = packet[e]
    BY <1>0, <1>2 DEF ProcessSending_Hand, TypeOK
  <2> QED
    BY <1>0, <1>2, <2>1, HandKept, SameKept
<1>3. CASE ProcessSending_Take \/ ProcessSending_Done
  BY <1>0, <1>3, TakeNumbered, IdleKept DEF ProcessSending_Take, ProcessSending_Done, protocol_vars
<1>4. CASE ProcessSendMsg
  <2>1. \A e \in End : e # "client" =>
          /\ given'[e] = given[e] /\ send_queue'[e] = send_queue[e]
          /\ written'[e] = written[e] /\ packet'[e] = packet[e]
    BY <1>0, <1>4 DEF ProcessSendMsg, TypeOK
  <2>2. given'["session"] = given["session"] /\ UNCHANGED <<send_queue_, sending, pushed>>
    BY <1>0, <1>4, <2>1, Ends DEF ProcessSendMsg, send_vars
  <2>3. Numbered'
    BY <2>2 DEF Numbered, Handed
  <2> QED
    BY <1>0, <1>4, <2>1, <2>3, QueueKept, SameKept
<1>5. CASE Broadcast \/ \E a \in App : SendMessage_Push(a)
  BY <1>0, <1>5, PushNumbered, IdleKept DEF Broadcast, SendMessage_Push, protocol_vars
<1>6. CASE \/ Receive_Lost \/ Report \/ ProcessReceivedData
           \/ \E a \in App : SendToClient(a) \/ SendMessage_Test(a)
           \/ Disconnect \/ Disconnect_Join \/ SessionStart \/ Stop_Erase \/ Stopper
  <2>1. UNCHANGED <<given, send_queue, written, packet, send_queue_, sending, pushed>>
    BY <1>6 DEF Receive_Lost, Report, ProcessReceivedData, SendToClient, SendMessage_Test,
       Disconnect, Disconnect_Join, SessionStart, SessionStart_Running,
       SessionStart_Connected, SessionStart_Thread, Stop_Erase, Stopper, SessionStop,
       SessionStop_Connected, SessionStop_Join, SessionStop_Close, DisconnectClient_Event,
       protocol_vars, send_vars
  <2> QED
    BY <2>1, IdleKept
<1> QED
  BY <1>0, <1>1, <1>2, <1>3, <1>4, <1>5, <1>6 DEF Next, Session, Client

\* Messages are numbered in the order of the calls, and each is kept.
THEOREM MessagesKept == Spec => [](Numbered /\ KeptUntilWritten)
<1> DEFINE Inv == Numbered /\ \A e \in End : Kept(e)
<1>1. Init => Inv
  <2> SUFFICES ASSUME Init PROVE Inv
    OBVIOUS
  <2>1. Len(<<>>) = 0 /\ DOMAIN <<>> = {}
    BY EmptySeq
  <2>2. Numbered
    BY <2>1, Ends DEF Init, Numbered, Handed
  <2>3. ToSet(<<>>) = {} /\ IsInjective(<<>>)
    BY <2>1 DEF ToSet, IsInjective
  <2>4. \A e \in End : Kept(e)
    BY <2>3 DEF Init, Kept
  <2> QED
    BY <2>2, <2>4
<1>2. Consistent /\ Inv /\ [Next]_vars => Inv'
  <2> SUFFICES ASSUME Consistent, Inv, [Next]_vars PROVE Inv'
    OBVIOUS
  <2>1. CASE UNCHANGED vars
    BY <2>1, IdleKept DEF vars, protocol_vars, send_vars
  <2> QED
    BY <2>1, NextKept
<1>3. Inv => Numbered /\ KeptUntilWritten
  BY DEF KeptUntilWritten, Kept
<1> HIDE DEF Inv
<1> QED
  BY <1>1, <1>2, <1>3, StreamsConsistent, PTL DEF Spec

\* A sequence without its first message has the others.
LEMMA OneLess ==
    ASSUME NEW w \in Seq(Message), w # <<>>
    PROVE  ToSet(w) = ToSet(Tail(w)) \cup {Head(w)}
<1>1. /\ Len(w) \in Nat \ {0} /\ DOMAIN w = 1 .. Len(w) /\ Head(w) = w[1]
      /\ DOMAIN Tail(w) = 1 .. Len(w) - 1
      /\ \A i \in 1 .. Len(w) - 1 : Tail(w)[i] = w[i + 1]
  BY HeadTailProperties, EmptySeq, LenProperties
<1>2. \A i \in 1 .. Len(w) : i = 1 \/ (i - 1 \in 1 .. Len(w) - 1 /\ i - 1 + 1 = i)
  BY <1>1
<1>3. \A i \in 1 .. Len(w) - 1 : i + 1 \in 1 .. Len(w)
  BY <1>1
<1>4. ASSUME NEW x \in ToSet(w) PROVE x \in ToSet(Tail(w)) \cup {Head(w)}
  <2>1. PICK i \in 1 .. Len(w) : x = w[i]
    BY <1>1, <1>4 DEF ToSet
  <2>2. i = 1 \/ (i - 1 \in 1 .. Len(w) - 1 /\ i - 1 + 1 = i)
    BY <1>2
  <2>3. i # 1 => x = Tail(w)[i - 1]
    BY <1>1, <2>1, <2>2
  <2> QED
    BY <1>1, <2>1, <2>2, <2>3 DEF ToSet
<1>5. ToSet(Tail(w)) \subseteq ToSet(w)
  BY <1>1, <1>3 DEF ToSet
<1>6. Head(w) \in ToSet(w)
  BY <1>1 DEF ToSet
<1> QED
  BY <1>4, <1>5, <1>6

\* Where the messages are that were pushed.
Held == ToSet(send_queue_) \cup ToSet(sending) \cup given["session"]

\* The session can have dropped messages, or have been stopped before it was
\* asked for any.
MayDrop == ~connected_ /\ worker["session"] \notin {"new", "start_connected"}

\* ProcessSending has emptied the queue it took before it takes the next; and no
\* message was pushed before connected_ was set, or dropped before it was cleared.
NothingDropped ==
    /\ worker["session"] # "hand" => sending = <<>>
    /\ ~MayDrop => 1 .. pushed = Held

\* A step that leaves the queues of the session alone.
LEMMA QuietHeld ==
    ASSUME NothingDropped, UNCHANGED <<send_queue_, sending, pushed>>,
           given'["session"] = given["session"],
           worker["session"] # "hand" \/ worker'["session"] = "hand",
           MayDrop => MayDrop'
    PROVE  NothingDropped'
<1>1. Held' = Held
  BY Zenon DEF Held, ToSet
<1> QED
  BY <1>1 DEF NothingDropped

\* ProcessSending moves the messages on, and drops them only when connected_ is
\* not set.
LEMMA SendingHeld ==
    ASSUME TypeOK, NothingDropped,
           ProcessSending_Take \/ ProcessSending_Hand \/ ProcessSending_Done
    PROVE  NothingDropped'
<1>0. /\ "session" \in End /\ worker \in [End -> Place]
      /\ sending \in Seq(Message) /\ given \in [End -> SUBSET Message]
  BY Ends DEF TypeOK
<1>1. ToSet(<<>>) = {}
  BY EmptySeq DEF ToSet
<1>2. CASE ProcessSending_Take
  <2>1. /\ sending = <<>> /\ sending' = send_queue_ /\ send_queue_' = <<>>
        /\ UNCHANGED <<given, pushed, connected_>>
        /\ worker["session"] = "take" /\ worker'["session"] = "hand"
    BY <1>0, <1>2 DEF ProcessSending_Take, NothingDropped, Goto, flags, protocol_vars
  <2>2. ToSet(sending)' = ToSet(send_queue_) /\ ToSet(send_queue_)' = {} /\ ToSet(sending) = {}
    BY <1>1, <2>1 DEF ToSet
  <2>3. Held' = Held /\ (MayDrop => MayDrop')
    BY <2>1, <2>2 DEF Held, MayDrop
  <2> QED
    BY <2>1, <2>3 DEF NothingDropped
<1>3. CASE ProcessSending_Hand
  <2>1. /\ sending # <<>> /\ sending' = Tail(sending)
        /\ given'["session"] = given["session"] \cup {Head(sending)}
        /\ UNCHANGED <<send_queue_, pushed, connected_, worker>>
        /\ worker["session"] = "hand"
    BY <1>0, <1>3 DEF ProcessSending_Hand, flags
  <2>2. ToSet(sending) = ToSet(sending)' \cup {Head(sending)} /\ ToSet(send_queue_)' = ToSet(send_queue_)
    <3>1. ToSet(sending) = ToSet(Tail(sending)) \cup {Head(sending)}
      BY <1>0, <2>1, OneLess
    <3> QED
      BY <2>1, <3>1 DEF ToSet
  <2>3. Held' = Held /\ (MayDrop <=> MayDrop')
    BY <2>1, <2>2 DEF Held, MayDrop
  <2> QED
    BY <2>1, <2>3 DEF NothingDropped
<1>4. CASE ProcessSending_Done
  <2>1. /\ sending' = <<>> /\ (sending = <<>> \/ ~connected_)
        /\ UNCHANGED <<given, pushed, connected_, send_queue_>>
        /\ worker["session"] = "hand" /\ worker'["session"] = "tick"
    BY <1>0, <1>4 DEF ProcessSending_Done, Goto, flags, protocol_vars
  <2>2. ToSet(send_queue_)' = ToSet(send_queue_) /\ (sending = <<>> => ToSet(sending)' = ToSet(sending))
    BY <2>1 DEF ToSet
  <2>3. ~MayDrop' => ~MayDrop /\ Held' = Held
    BY <2>1, <2>2 DEF Held, MayDrop
  <2> QED
    BY <2>1, <2>3 DEF NothingDropped
<1> QED
  BY <1>2, <1>3, <1>4

\* A push adds the next number.
LEMMA PushHeld ==
    ASSUME TypeOK, NothingDropped, Push, UNCHANGED <<given, sending, worker, connected_>>
    PROVE  NothingDropped'
<1>1. pushed \in Nat /\ send_queue_ \in Seq(Message)
  BY SizeAssumption DEF TypeOK
<1>2. /\ pushed + 1 \in Message /\ pushed' = pushed + 1
      /\ send_queue_' = Append(send_queue_, pushed + 1)
  BY <1>1, SizeAssumption DEF Push, Message, TypeOK
<1>3. ToSet(Append(send_queue_, pushed + 1)) = ToSet(send_queue_) \cup {pushed + 1}
  BY <1>1, <1>2, OneMore
<1>4. 1 .. pushed' = 1 .. pushed \cup {pushed + 1}
  BY <1>1, <1>2
<1>5. ToSet(send_queue_)' = ToSet(send_queue_) \cup {pushed + 1} /\ ToSet(sending)' = ToSet(sending)
  BY <1>2, <1>3 DEF ToSet
<1>6. Held' = Held \cup {pushed + 1} /\ (MayDrop <=> MayDrop')
  BY <1>5 DEF Held, MayDrop
<1> QED
  BY <1>4, <1>6 DEF NothingDropped

\* The threads of the server other than the session's, and the application.
LEMMA OtherHeld ==
    ASSUME TypeOK, NothingDropped, Next, ~(Session \/ Client)
    PROVE  NothingDropped'
<1>0. /\ "session" \in End /\ worker \in [End -> Place]
  BY Ends DEF TypeOK
<1>1. CASE Broadcast \/ \E a \in App : SendMessage_Push(a)
  BY <1>1, PushHeld DEF Broadcast, SendMessage_Push, protocol_vars, flags
<1>2. CASE SessionStart
  <2>1. /\ UNCHANGED <<send_queue_, sending, pushed, given>>
        /\ worker["session"] # "hand"
        /\ MayDrop => MayDrop'
    BY <1>0, <1>2 DEF SessionStart, SessionStart_Running, SessionStart_Connected,
       SessionStart_Thread, Goto, MayDrop, flags, protocol_vars, send_vars
  <2> QED
    BY <2>1, QuietHeld
<1>3. CASE \/ \E a \in App : SendToClient(a) \/ SendMessage_Test(a)
           \/ Disconnect \/ Disconnect_Join \/ Stop_Erase \/ Stopper
  <2>1. UNCHANGED <<send_queue_, sending, pushed, given, worker>> /\ (connected_' => connected_)
    BY <1>3 DEF SendToClient, SendMessage_Test, Disconnect, Disconnect_Join, Stop_Erase,
       Stopper, SessionStop, SessionStop_Connected, SessionStop_Join, SessionStop_Close,
       DisconnectClient_Event, protocol_vars, send_vars, flags
  <2> QED
    BY <2>1, QuietHeld DEF MayDrop
<1> QED
  BY <1>1, <1>2, <1>3 DEF Next

\* The other steps of the session's thread, and the client.
LEMMA LoopHeld ==
    ASSUME TypeOK, NothingDropped, Session \/ Client
    PROVE  NothingDropped'
<1>0. /\ "session" \in End /\ "client" \in End /\ "session" # "client"
      /\ worker \in [End -> Place] /\ given \in [End -> SUBSET Message]
  BY Ends DEF TypeOK
<1>1. CASE ProcessSending_Take \/ ProcessSending_Hand \/ ProcessSending_Done
  BY <1>1, SendingHeld
<1>2. CASE WorkerThread("session") \/ Receive_Lost \/ Report \/ ProcessReceivedData
  <2>1. /\ UNCHANGED <<send_queue_, sending, pushed, given>> /\ (connected_' => connected_)
        /\ worker["session"] # "hand"
    BY <1>2 DEF WorkerThread, Worker_End, Receive, Receive_Nothing, WorkTick, SendRaw,
       SendRaw_Unread, SendRaw_Fail, Receive_Lost, Report, ProcessReceivedData,
       protocol_vars, send_vars, flags
  <2>2. worker'["session"] \notin {"new", "start_connected"} \/ worker' = worker
    BY <1>0, <1>2 DEF WorkerThread, Worker_End, Receive, Receive_Nothing, WorkTick, SendRaw,
       SendRaw_Unread, SendRaw_Fail, Written, Receive_Lost, Report, ProcessReceivedData,
       AfterRecv, AfterTick, Goto
  <2> QED
    BY <2>1, <2>2, QuietHeld DEF MayDrop
<1>3. CASE Client
  <2>1. /\ UNCHANGED <<send_queue_, sending, pushed, connected_>>
        /\ given'["session"] = given["session"]
    BY <1>0, <1>3 DEF Client, WorkerThread, Worker_End, Receive, Receive_Nothing, WorkTick,
       SendRaw, SendRaw_Unread, SendRaw_Fail, ProcessSendMsg, protocol_vars, send_vars, flags
  <2>2. worker'["session"] = worker["session"]
    BY <1>0, <1>3 DEF Client, WorkerThread, Worker_End, Receive, Receive_Nothing, WorkTick,
       SendRaw, SendRaw_Unread, SendRaw_Fail, Written, ProcessSendMsg, Goto
  <2> QED
    BY <2>1, <2>2, QuietHeld DEF MayDrop
<1> QED
  BY <1>1, <1>2, <1>3 DEF Session

\* No message that was pushed is dropped as long as the session is connected.
THEOREM PushedMessagesKept == Spec => []PushedIsKept
<1>1. Init => NothingDropped
  <2> SUFFICES ASSUME Init PROVE NothingDropped
    OBVIOUS
  <2>1. ToSet(<<>>) = {}
    BY EmptySeq DEF ToSet
  <2>2. Held = {} /\ 1 .. pushed = {} /\ worker["session"] = "new"
    BY <2>1, Ends DEF Init, Held
  <2> QED
    BY <2>2 DEF Init, NothingDropped
<1>2. TypeOK /\ NothingDropped /\ [Next]_vars => NothingDropped'
  <2> SUFFICES ASSUME TypeOK, NothingDropped, [Next]_vars PROVE NothingDropped'
    OBVIOUS
  <2>1. CASE UNCHANGED vars
    <3>1. UNCHANGED <<send_queue_, sending, pushed, given, worker, connected_>>
      BY <2>1 DEF vars, protocol_vars, send_vars, flags
    <3> QED
      BY <3>1, QuietHeld DEF MayDrop
  <2> QED
    BY <2>1, OtherHeld, LoopHeld
<1>3. NothingDropped => PushedIsKept
  BY DEF NothingDropped, PushedIsKept, MayDrop, Held
<1> QED
  BY <1>1, <1>2, <1>3, SessionTypeOK, PTL DEF Spec

\* What either end receives is what the other has written, in that order and
\* each once, for any size of packets, of what recv returns and of what the
\* kernel takes, and wherever SendRaw fails; and nothing is missing of what the
\* application sends as long as the session is connected.
THEOREM MessagesArriveOnce == Spec => []ArrivesOnce
<1>1. Consistent /\ KeptUntilWritten /\ PushedIsKept => ArrivesOnce
  BY ReceivedPrefix DEF Consistent, Types, ArrivesOnce
<1> QED
  BY <1>1, StreamsConsistent, MessagesKept, PushedMessagesKept, PTL

-----------------------------------------------------------------------------
(* What a session that the client has closed still gets.                   *)

\* As long as neither end has thrown units away, all that the client has written
\* is received or on its way, part of a packet that was given up included.
AllThere ==
    socket_["session"] /\ ~cut["session"] =>
        Start(Len(written["client"])) <= Start(Len(Received("session"))) + Len(Units("session"))

\* A thread that ended by itself did so because the client has closed and there
\* was nothing more to read; nothing can come after that.
LastRead ==
    worker["session"] \in {"report", "finished"} /\ running_["session"] /\ socket_["session"] =>
        wire["session"] = <<>> /\ ~socket_["client"]

\* What is whole in the buffer after recv has added to less than a packet.
RoundMax == (PacketSize - 1 + RecvMax) \div PacketSize

\* WorkTick leaves less than a packet in the buffer; and it runs when there is
\* an event for everything it found the last time.
Rounds ==
    /\ Len(receive_buffer["session"]) <= PacketSize - 1 + RecvMax
    /\ worker["session"] \in Uncreated \cup {"recv", "report", "write", "finished"} =>
          Len(receive_buffer["session"]) < PacketSize
    /\ Len(recv_queue_["session"]) <= RoundMax
    /\ worker["session"] \in {"take", "hand", "tick"} => recv_queue_["session"] = <<>>

\* Whole packets and the beginning of one more are there: so is all of w.
LEMMA EndsThere ==
    ASSUME NEW u, NEW g, NEW w, NEW m, NEW k \in Nat,
           Len(g) \in Nat, Len(w) \in Nat, Flows(u, g, w), EndsIn(u, g, w, m, k)
    PROVE  Start(Len(w)) <= Start(Len(g)) + Len(u)
<1> DEFINE n == Len(w) - Len(g)
<1>1. n \in Nat /\ n + Len(g) = Len(w)
  BY DEF Flows
<1>2. Len(u) = Start(n) + k
  BY DEF EndsIn, EndsWith
<1> HIDE DEF n
<1>3. Start(n + Len(g)) = Start(n) + Start(Len(g))
  BY <1>1, StartSum
<1>4. Start(n) \in Nat /\ Start(Len(g)) \in Nat
  BY <1>1, StartNat
<1> QED
  BY <1>1, <1>2, <1>3, <1>4

\* Most steps have no part in what is there.
LEMMA SameThere ==
    ASSUME AllThere, Units("session")' = Units("session"),
           Received("session")' = Received("session"),
           written'["client"] = written["client"],
           socket_'["session"] => socket_["session"], cut["session"] => cut'["session"]
    PROVE  AllThere'
  BY DEF AllThere, Start

\* The same, variable by variable.
LEMMA QuietThere ==
    ASSUME AllThere, receive_buffer'["session"] = receive_buffer["session"],
           wire'["session"] = wire["session"],
           recv_queue_'["session"] = recv_queue_["session"], reported' = reported,
           written'["client"] = written["client"],
           socket_'["session"] => socket_["session"], cut["session"] => cut'["session"]
    PROVE  AllThere'
<1>1. Units("session")' = Units("session") /\ Received("session")' = Received("session")
  BY DEF Units, Received
<1> QED
  BY <1>1, SameThere

\* SendRaw adds to what is there before a packet counts as written.
LEMMA SendRawThere ==
    ASSUME Consistent, Consistent', SendRaw("client")
    PROVE  AllThere'
<1>0. "session" \in End /\ "client" \in End /\ Peer("session") = "client"
      /\ Peer("client") = "session"
  BY DEF End, Peer
<1>1. Open("client")'
  <2>1. /\ running_["client"] /\ socket_["client"] /\ socket_["session"]
        /\ running_' = running_ /\ socket_' = socket_
    BY <1>0 DEF SendRaw, flags
  <2> QED
    BY <1>0, <2>1 DEF Open
<1>2. Stream("session")' /\ TypeOK'
  BY <1>0 DEF Consistent, Streams, Types
<1> DEFINE u == Units("session")'
           g == Received("session")'
           w == written'["client"]
           m == packet'["client"]
           k == Begun("client")'
<1>3. Flows(u, g, w) /\ EndsIn(u, g, w, m, k)
  BY <1>0, <1>1, <1>2 DEF Stream, Flows, EndsIn, EndsWith, Start
<1>4. k \in Nat
  <2>1. left'["client"] \in 0 .. PacketSize /\ PacketSize \in Nat
    BY <1>0, <1>2, SizeAssumption DEF TypeOK
  <2> QED
    BY <2>1 DEF Begun
<1>5. Len(g) \in Nat /\ Len(w) \in Nat
  <2>1. /\ recv_queue_'["session"] \in Seq(Message \cup {None})
        /\ reported' \in Seq(Message \cup {None})
        /\ w \in Seq(Message)
    BY <1>0, <1>2 DEF TypeOK
  <2>2. g = reported' \o recv_queue_'["session"]
    BY DEF Received
  <2> HIDE DEF g, w
  <2>3. g \in Seq(Message \cup {None})
    BY <2>1, <2>2, ConcatProperties
  <2> QED
    BY <2>1, <2>3, LenProperties
<1> HIDE DEF u, g, w, m, k
<1>6. Start(Len(w)) <= Start(Len(g)) + Len(u)
  BY <1>3, <1>4, <1>5, EndsThere
<1> QED
  BY <1>6 DEF AllThere, Start, u, g, w

\* WorkTick takes as many packets from the units as it adds to what is received.
LEMMA WorkTickThere ==
    ASSUME Consistent, AllThere, WorkTick("session")
    PROVE  AllThere'
<1> DEFINE u == Units("session")
           g == Received("session")
           w == written["client"]
           p == Parsed("session")
           c == Start(Len(p))
<1>0. TypeOK /\ Streams /\ "session" \in End
  BY Ends DEF Consistent, Types
<1>1. c <= Len(u) /\ Units("session")' = SubSeq(u, c + 1, Len(u))
      /\ Received("session")' = g \o p
  BY <1>0, WorkTickUnits
<1>2. /\ u \in Seq(Unit) /\ g \in Seq(Message \cup {None})
      /\ p \in Seq(Message \cup {None})
  BY <1>0, ReceivedType, ParsedType
<1>3. UNCHANGED <<written, socket_, cut>>
  BY DEF WorkTick, socket_vars
<1> HIDE DEF u, g, p
<1>4. Len(u) \in Nat /\ Len(g) \in Nat /\ Len(p) \in Nat /\ c \in Nat
      /\ Start(Len(g)) \in Nat
  BY <1>2, LenProperties, StartNat
<1>5. Start(Len(g \o p)) = Start(Len(g)) + c
  <2>1. Len(g \o p) = Len(g) + Len(p)
    BY <1>2, ConcatProperties
  <2> QED
    BY <1>4, <2>1, StartSum
<1> HIDE DEF c
<1>6. Len(SubSeq(u, c + 1, Len(u))) = Len(u) - c
  BY <1>1, <1>2, <1>4, RestOfSeq
<1> HIDE DEF w
<1>7. Start(Len(Received("session")'))
         + Len(Units("session")') = Start(Len(g)) + Len(u)
  <2>1. Start(Len(Received("session")')) = Start(Len(g \o p))
    BY <1>1, Zenon
  <2>2. Len(Units("session")') = Len(SubSeq(u, c + 1, Len(u)))
    BY <1>1, Zenon
  <2>3. (Start(Len(g)) + c) + (Len(u) - c) = Start(Len(g)) + Len(u)
    BY <1>4
  <2> QED
    BY <1>5, <1>6, <2>1, <2>2, <2>3, Zenon
<1> QED
  BY <1>3, <1>7 DEF AllThere, Start, u, g

\* close() by the client throws nothing away that is on its way to the session,
\* or resets the connection; close() by the session ends it.
LEMMA CloseThere ==
    ASSUME TypeOK, AllThere, NEW d \in End, Close(d),
           UNCHANGED <<receive_buffer, recv_queue_, reported, written>>
    PROVE  AllThere'
<1>0. "session" \in End /\ "client" \in End /\ Peer("client") = "session"
      /\ "session" # "client"
  BY DEF End, Peer
<1>1. CASE d = "session"
  BY <1>0, <1>1 DEF Close, AllThere, TypeOK
<1>2. CASE d = "client" /\ UNCHANGED cut
  <2>1. \/ wire' = [wire EXCEPT !["client"] = <<>>]
        \/ cut' = [cut EXCEPT !["session"] = TRUE]
    BY <1>0, <1>2 DEF Close, Reset
  <2>2. CASE wire' = [wire EXCEPT !["client"] = <<>>]
    <3>1. wire'["session"] = wire["session"] /\ socket_'["session"] = socket_["session"]
      BY <1>0, <1>2, <2>2 DEF Close, TypeOK
    <3> QED
      BY <1>2, <3>1, QuietThere
  <2>3. CASE cut' = [cut EXCEPT !["session"] = TRUE]
    BY <1>0, <2>3 DEF AllThere, TypeOK
  <2> QED
    BY <2>1, <2>2, <2>3
<1>3. CASE d = "client" /\ ~UNCHANGED cut
  <2>1. cut'["session"]
    BY <1>0, <1>3 DEF Close, Reset, TypeOK
  <2> QED
    BY <2>1 DEF AllThere
<1> QED
  BY <1>1, <1>2, <1>3, Ends

\* A step of a worker.
LEMMA WorkerThere ==
    ASSUME Consistent, Consistent', AllThere, NEW d \in End, WorkerThread(d)
    PROVE  AllThere'
<1>0. /\ TypeOK /\ "session" \in End /\ "client" \in End /\ "session" # "client"
      /\ Peer("client") = "session" /\ Peer("session") = "client"
      /\ d \in {"session", "client"}
  BY DEF Consistent, Types, End, Peer
<1>1. CASE Worker_End(d) \/ Receive_Nothing(d) \/ SendRaw_Fail(d)
  BY <1>1, QuietThere DEF Worker_End, Receive_Nothing, SendRaw_Fail, socket_vars, receive_vars,
                          protocol_vars, event_vars
<1>2. CASE Receive(d)
  <2>1. Units("session")' = Units("session")
    BY <1>0, <1>2, ReceiveUnits
  <2>2. UNCHANGED <<recv_queue_, reported, written, socket_, cut>>
    BY <1>2 DEF Receive, protocol_vars, event_vars
  <2> QED
    BY <2>1, <2>2, SameThere DEF Received
<1>3. CASE WorkTick(d) /\ d = "client"
  <2>1. /\ receive_buffer'["session"] = receive_buffer["session"]
        /\ recv_queue_'["session"] = recv_queue_["session"]
        /\ UNCHANGED <<wire, socket_, cut, reported, written>>
    BY <1>0, <1>3 DEF WorkTick, TypeOK, socket_vars, event_vars
  <2> QED
    BY <2>1, QuietThere
<1>4. CASE WorkTick(d) /\ d = "session"
  BY <1>4, WorkTickThere
<1>5. CASE SendRaw(d) /\ d = "session"
  <2>1. wire'["session"] = wire["session"] /\ written'["client"] = written["client"]
    BY SMTT(30), <1>0, <1>5 DEF SendRaw, Written, TypeOK
  <2>2. UNCHANGED <<receive_buffer, recv_queue_, reported, socket_, cut>>
    BY <1>5 DEF SendRaw, receive_vars, event_vars
  <2> QED
    BY <2>1, <2>2, QuietThere
<1>6. CASE SendRaw(d) /\ d = "client"
  BY <1>6, SendRawThere
<1>7. CASE SendRaw_Unread(d)
  <2>1. CASE d = "session"
    <3>1. cut'["session"]
      BY <1>0, <1>7, <2>1 DEF SendRaw_Unread, Reset, TypeOK
    <3> QED
      BY <3>1 DEF AllThere
  <2>2. CASE d = "client"
    <3>1. ~socket_'["session"]
      BY <1>0, <1>7, <2>2 DEF SendRaw_Unread
    <3> QED
      BY <3>1 DEF AllThere
  <2> QED
    BY <1>0, <2>1, <2>2
<1> QED
  BY <1>0, <1>1, <1>2, <1>3, <1>4, <1>5, <1>6, <1>7 DEF WorkerThread

\* Every step.
LEMMA NextThere ==
    ASSUME Consistent, Consistent', AllThere, Next
    PROVE  AllThere'
<1>0. TypeOK /\ "session" \in End /\ "client" \in End
  BY Ends DEF Consistent, Types
<1>1. CASE WorkerThread("session") \/ WorkerThread("client")
  BY <1>0, <1>1, WorkerThere
<1>2. CASE Disconnect_Join \/ SessionStop_Close
  BY <1>0, <1>2, CloseThere DEF Disconnect_Join, SessionStop_Close, receive_vars,
                                protocol_vars, event_vars
<1>3. CASE ProcessReceivedData
  <2>1. UNCHANGED <<receive_buffer, wire, written, socket_, cut>>
    BY <1>3 DEF ProcessReceivedData, socket_vars, protocol_vars
  <2> QED
    BY <1>0, <1>3, <2>1, EventReceived, SameThere DEF Units
<1>4. CASE ~(\/ WorkerThread("session") \/ WorkerThread("client") \/ ProcessReceivedData
             \/ Disconnect_Join \/ SessionStop_Close)
  <2>1. UNCHANGED <<receive_buffer, wire, recv_queue_, reported, written, socket_, cut>>
    BY <1>4 DEF Next, Session, Client, Receive_Lost, Report, AddDisconnect,
         ProcessSending_Take, ProcessSending_Hand, ProcessSending_Done, ProcessSendMsg,
         SendToClient, SendMessage_Test, SendMessage_Push, Broadcast, Disconnect,
         SessionStart, SessionStart_Running, SessionStart_Connected, SessionStart_Thread,
         Stop_Erase, Stopper, SessionStop, SessionStop_Connected, SessionStop_Join,
         DisconnectClient_Event, socket_vars, receive_vars, protocol_vars, event_vars
  <2> QED
    BY <2>1, QuietThere
<1> QED
  BY <1>1, <1>2, <1>3, <1>4

\* A step of the other threads, and of the session's own thread before its end,
\* keeps what the last recv has found.
LEMMA NextLastRead ==
    ASSUME TypeOK, LastRead, Next
    PROVE  LastRead'
<1> DEFINE Ended == worker["session"] \in {"report", "finished"}
<1>0. /\ "session" \in End /\ "client" \in End /\ "session" # "client"
      /\ Peer("client") = "session" /\ Peer("session") = "client"
      /\ worker \in [End -> Place] /\ running_ \in [End -> BOOLEAN]
      /\ socket_ \in [End -> BOOLEAN] /\ wire \in [End -> Seq(Unit)]
  BY DEF TypeOK, End, Peer
<1> USE DEF Goto
<1>1. CASE Receive_Lost
  <2>1. Lost("session") /\ UNCHANGED <<socket_, wire>>
    BY <1>1 DEF Receive_Lost, socket_vars
  <2> QED
    BY <1>0, <2>1 DEF Lost, LastRead
<1>2. CASE Worker_End("session")
  BY <1>0, <1>2 DEF Worker_End, flags, LastRead
<1>3. CASE Report
  BY <1>0, <1>3 DEF Report, flags, socket_vars, LastRead
<1>4. CASE \/ Receive("session") \/ Receive_Nothing("session") \/ WorkTick("session")
           \/ SendRaw("session") \/ SendRaw_Unread("session") \/ SendRaw_Fail("session")
           \/ ProcessReceivedData \/ ProcessSending_Take \/ ProcessSending_Hand
           \/ ProcessSending_Done \/ SessionStart
  <2>1. worker'["session"] \notin {"report", "finished"}
    BY <1>0, <1>4 DEF Receive, Receive_Nothing, WorkTick, SendRaw, SendRaw_Unread, SendRaw_Fail,
                      Written, AfterRecv, AfterTick, ProcessReceivedData, ProcessSending_Take,
                      ProcessSending_Hand, ProcessSending_Done, SessionStart,
                      SessionStart_Running, SessionStart_Connected, SessionStart_Thread
  <2> QED
    BY <2>1 DEF LastRead
<1>5. CASE \/ Worker_End("client") \/ Receive_Nothing("client") \/ WorkTick("client")
           \/ SendRaw_Fail("client") \/ ProcessSendMsg
  <2>1. worker'["session"] = worker["session"] /\ UNCHANGED <<running_, socket_, wire>>
    BY <1>0, <1>5 DEF Worker_End, Receive_Nothing, WorkTick, SendRaw_Fail, ProcessSendMsg,
                      flags, socket_vars
  <2> QED
    BY <2>1 DEF LastRead
<1>6. CASE Receive("client")
  <2>1. worker'["session"] = worker["session"] /\ UNCHANGED <<running_, socket_>>
        /\ wire'["session"] = wire["session"]
    BY <1>0, <1>6 DEF Receive, flags
  <2> QED
    BY <2>1 DEF LastRead
<1>7. CASE SendRaw("client") \/ SendRaw_Unread("client")
  <2>1. worker'["session"] = worker["session"] /\ UNCHANGED <<running_, socket_>>
        /\ socket_["client"]
    BY <1>0, <1>7 DEF SendRaw, SendRaw_Unread, Written, flags
  <2> QED
    BY <2>1 DEF LastRead
<1>8. CASE Disconnect_Join
  <2>1. worker' = worker /\ running_' = running_ /\ socket_["client"]
        /\ socket_'["session"] = socket_["session"]
    BY <1>0, <1>8 DEF Disconnect_Join, Close, flags
  <2> QED
    BY <2>1 DEF LastRead
<1>9. CASE SessionStop_Close
  <2>1. ~socket_'["session"]
    BY <1>0, <1>9 DEF SessionStop_Close, Close
  <2> QED
    BY <2>1 DEF LastRead
<1>10. CASE \/ \E a \in App : SendToClient(a) \/ SendMessage_Test(a) \/ SendMessage_Push(a)
            \/ Broadcast \/ Disconnect \/ Stop_Erase \/ SessionStop
            \/ SessionStop_Connected \/ SessionStop_Join \/ DisconnectClient_Event
  <2>1. worker' = worker /\ UNCHANGED <<socket_, wire>>
        /\ (running_'["session"] => running_["session"])
    BY <1>0, <1>10 DEF SendToClient, SendMessage_Test, SendMessage_Push, Broadcast, Disconnect,
                       Stop_Erase, SessionStop, SessionStop_Connected, SessionStop_Join,
                       DisconnectClient_Event, flags, socket_vars
  <2> QED
    BY <2>1 DEF LastRead
<1> QED
  BY <1>1, <1>2, <1>3, <1>4, <1>5, <1>6, <1>7, <1>8, <1>9, <1>10
     DEF Next, Session, Client, WorkerThread, Stopper

\* Whole packets of a buffer, and what is left of it without them.
LEMMA RestOfPackets ==
    ASSUME NEW n \in Nat, NEW p \in Nat, p > 0
    PROVE  /\ n - (n \div p) * p < p
           /\ \A m \in Nat : n <= m => n \div p <= m \div p
<1>1. n - (n \div p) * p < p
  BY SMTT(30)
<1>2. \A m \in Nat : n <= m => n \div p <= m \div p
  BY SMTT(30)
<1> QED
  BY <1>1, <1>2

\* A step that leaves the buffer and the parsed messages alone, to a place where
\* no more is asked of them.
LEMMA QuietRounds ==
    ASSUME Rounds, receive_buffer'["session"] = receive_buffer["session"],
           recv_queue_'["session"] = recv_queue_["session"],
           \/ worker'["session"] = worker["session"]
           \/ /\ worker["session"] \in Uncreated \cup {"recv", "report", "write", "finished"}
              /\ worker'["session"] \in Uncreated \cup {"recv", "report", "finished", "events"}
           \/ /\ worker["session"] \in {"take", "hand", "tick"}
              /\ worker'["session"] \in {"take", "hand", "tick"}
    PROVE  Rounds'
  BY DEF Rounds, RoundMax, Uncreated

\* recv adds RecvMax units at most to less than a packet.
LEMMA ReceiveRounds ==
    ASSUME TypeOK, Rounds, Receive("session")
    PROVE  Rounds'
<1> DEFINE b == receive_buffer["session"]
           x == wire["session"]
<1>0. /\ "session" \in End /\ b \in Seq(Unit) /\ x \in Seq(Unit)
      /\ Len(b) \in Nat /\ Len(x) \in Nat
      /\ PacketSize \in Nat /\ RecvMax \in Nat
  BY SizeAssumption, LenProperties DEF TypeOK, End
<1>1. PICK n \in {i \in 1 .. RecvMax : i <= Len(x)} :
        receive_buffer'["session"] = b \o SubSeq(x, 1, n)
  BY <1>0 DEF Receive, TypeOK
<1>2. Len(b) < PacketSize /\ recv_queue_' = recv_queue_ /\ worker'["session"] = "events"
  BY <1>0 DEF Receive, Goto, AfterRecv, TypeOK, Rounds
<1>3. n \in Nat /\ n <= RecvMax /\ n <= Len(x) /\ n >= 1
  BY <1>0, <1>1
<1> HIDE DEF b, x
<1>4. SubSeq(x, 1, n) \in Seq(Unit) /\ Len(SubSeq(x, 1, n)) = n
  <2>1. SubSeq(x, 1, n) \in Seq(Unit)
    BY <1>0, <1>3, PartOfSeq
  <2> QED
    BY <1>0, <1>3, <2>1, SubSeqProperties
<1>5. Len(receive_buffer'["session"]) = Len(b) + n
  BY <1>0, <1>1, <1>4, ConcatProperties
<1>6. Len(receive_buffer'["session"]) <= PacketSize - 1 + RecvMax
  BY <1>0, <1>2, <1>3, <1>5
<1> QED
  BY <1>2, <1>6 DEF Rounds, RoundMax, Uncreated

\* WorkTick takes what is whole out of the buffer, and nothing else is in
\* recv_queue_ then.
LEMMA WorkTickRounds ==
    ASSUME TypeOK, Rounds, WorkTick("session")
    PROVE  Rounds'
<1> DEFINE b == receive_buffer["session"]
           p == Parsed("session")
           k == Len(b) \div PacketSize
<1>0. /\ "session" \in End /\ b \in Seq(Unit) /\ Len(b) \in Nat
      /\ PacketSize \in Nat /\ PacketSize > 0 /\ RecvMax \in Nat
      /\ p \in Seq(Message \cup {None})
  <2>1. "session" \in End /\ b \in Seq(Unit)
    BY DEF TypeOK, End
  <2>2. p \in Seq(Message \cup {None})
    BY <2>1, ParsedType
  <2> HIDE DEF b, p
  <2> QED
    BY <2>1, <2>2, SizeAssumption, LenProperties
<1>1. /\ recv_queue_["session"] = <<>> /\ Len(b) <= PacketSize - 1 + RecvMax
  BY DEF WorkTick, Rounds
<1>2. /\ recv_queue_'["session"] = <<>> \o p
      /\ receive_buffer'["session"] = SubSeq(b, Len(p) * PacketSize + 1, Len(b))
      /\ worker'["session"] \in {"recv", "write"}
  BY <1>0, <1>1 DEF WorkTick, Goto, AfterTick, TypeOK
<1>3. k \in Nat /\ k * PacketSize \in Nat /\ k * PacketSize <= Len(b)
  BY <1>0, WholePackets
<1>4. Len(p) = k
  BY <1>3 DEF Parsed
<1>5. /\ Len(b) - k * PacketSize < PacketSize
      /\ \A m \in Nat : Len(b) <= m => k <= m \div PacketSize
  BY <1>0, RestOfPackets
<1> DEFINE c == k * PacketSize
<1>6. c \in Nat /\ c <= Len(b) /\ Len(b) - c < PacketSize
      /\ receive_buffer'["session"] = SubSeq(b, c + 1, Len(b))
  BY <1>2, <1>3, <1>4, <1>5
<1> HIDE DEF b, p, k, c
<1>7. Len(SubSeq(b, c + 1, Len(b))) = Len(b) - c
  BY <1>0, <1>6, RestOfSeq
<1>8. /\ Len(receive_buffer'["session"]) < PacketSize
      /\ Len(receive_buffer'["session"]) <= PacketSize - 1 + RecvMax
  BY <1>0, <1>6, <1>7
<1>9. recv_queue_'["session"] = p
  BY <1>0, <1>2, ConcatEmptySeq
<1>10. k <= RoundMax
  <2>1. PacketSize - 1 + RecvMax \in Nat
    BY <1>0
  <2> QED
    BY <1>1, <1>5, <2>1 DEF RoundMax
<1>11. Len(recv_queue_'["session"]) <= RoundMax
  BY <1>4, <1>9, <1>10
<1> QED
  BY <1>2, <1>8, <1>11 DEF Rounds, RoundMax

\* An event takes one message out of recv_queue_, or there is none left.
LEMMA EventRounds ==
    ASSUME TypeOK, Rounds, ProcessReceivedData
    PROVE  Rounds'
<1> DEFINE l == recv_queue_["session"]
           b == receive_buffer["session"]
<1>0. /\ "session" \in End /\ l \in Seq(Message \cup {None})
      /\ worker["session"] = "events" /\ receive_buffer' = receive_buffer
      /\ worker \in [End -> Place]
  BY DEF ProcessReceivedData, TypeOK, End
<1>1. CASE l = <<>>
  <2>1. worker'["session"] = "take" /\ recv_queue_' = recv_queue_
    BY <1>0, <1>1 DEF ProcessReceivedData, Goto
  <2> QED
    BY <1>0, <1>1, <2>1 DEF Rounds, RoundMax, Uncreated
<1>2. CASE l # <<>>
  <2>1. worker' = worker /\ recv_queue_'["session"] = Tail(l)
    BY <1>0, <1>2 DEF ProcessReceivedData, TypeOK
  <2>2. Len(Tail(l)) = Len(l) - 1 /\ Len(l) \in Nat
    <3> HIDE DEF l
    <3> QED
      BY <1>0, <1>2, HeadTailProperties, LenProperties
  <2>3. RoundMax \in Nat
    BY SizeAssumption, WholePackets DEF RoundMax
  <2>4. Len(recv_queue_'["session"]) <= RoundMax
    BY <2>1, <2>2, <2>3 DEF Rounds
  <2> QED
    BY <1>0, <2>1, <2>4 DEF Rounds, RoundMax
<1> QED
  BY <1>1, <1>2

\* Every step keeps the bounds of a round.
LEMMA NextRounds ==
    ASSUME TypeOK, Rounds, Next
    PROVE  Rounds'
<1>0. /\ "session" \in End /\ "client" \in End /\ "session" # "client"
      /\ worker \in [End -> Place]
  BY DEF TypeOK, End
<1> USE DEF Goto
<1>1. CASE \/ Worker_End("session") \/ Receive_Nothing("session") \/ Receive_Lost \/ Report
           \/ SessionStart \/ ProcessSending_Take \/ ProcessSending_Hand \/ ProcessSending_Done
           \/ SendRaw_Fail("session")
  <2>1. UNCHANGED <<receive_buffer, recv_queue_>>
    BY <1>1 DEF Worker_End, Receive_Nothing, Receive_Lost, Report, SessionStart,
       SessionStart_Running, SessionStart_Connected, SessionStart_Thread,
       ProcessSending_Take, ProcessSending_Hand, ProcessSending_Done, SendRaw_Fail, receive_vars
  <2>2. \/ worker'["session"] = worker["session"]
        \/ /\ worker["session"] \in Uncreated \cup {"recv", "report", "write", "finished"}
           /\ worker'["session"] \in Uncreated \cup {"recv", "report", "finished", "events"}
        \/ /\ worker["session"] \in {"take", "hand", "tick"}
           /\ worker'["session"] \in {"take", "hand", "tick"}
    BY <1>0, <1>1 DEF Worker_End, Receive_Nothing, Receive_Lost, Report, SessionStart,
       SessionStart_Running, SessionStart_Connected, SessionStart_Thread,
       ProcessSending_Take, ProcessSending_Hand, ProcessSending_Done, SendRaw_Fail,
       AfterRecv, AfterTick, Uncreated
  <2> QED
    BY <2>1, <2>2, QuietRounds
<1>2. CASE SendRaw("session") \/ SendRaw_Unread("session")
  <2>1. UNCHANGED <<receive_buffer, recv_queue_>> /\ worker["session"] = "write"
    BY <1>2 DEF SendRaw, SendRaw_Unread, receive_vars
  <2>2. worker'["session"] \in {"write", "recv"}
    BY <1>0, <1>2, <2>1 DEF SendRaw, SendRaw_Unread, Written, AfterTick
  <2> QED
    BY <2>1, <2>2, QuietRounds
<1>3. CASE WorkerThread("client") \/ ProcessSendMsg
  <2>1. receive_buffer'["session"] = receive_buffer["session"]
    BY <1>0, <1>3 DEF WorkerThread, Worker_End, Receive, Receive_Nothing, WorkTick, SendRaw,
       SendRaw_Unread, SendRaw_Fail, ProcessSendMsg, receive_vars, TypeOK
  <2>2. recv_queue_'["session"] = recv_queue_["session"]
    BY <1>0, <1>3 DEF WorkerThread, Worker_End, Receive, Receive_Nothing, WorkTick, SendRaw,
       SendRaw_Unread, SendRaw_Fail, ProcessSendMsg, receive_vars, TypeOK
  <2>3. worker'["session"] = worker["session"]
    BY <1>0, <1>3 DEF WorkerThread, Worker_End, Receive, Receive_Nothing, WorkTick, SendRaw,
       SendRaw_Unread, SendRaw_Fail, Written, ProcessSendMsg
  <2> QED
    BY <2>1, <2>2, <2>3, QuietRounds
<1>4. CASE \/ \E a \in App : SendToClient(a) \/ SendMessage_Test(a) \/ SendMessage_Push(a)
           \/ Broadcast \/ Disconnect \/ Disconnect_Join \/ Stop_Erase \/ Stopper
  <2>1. UNCHANGED <<worker, receive_buffer, recv_queue_>>
    BY <1>4 DEF SendToClient, SendMessage_Test, SendMessage_Push, Broadcast, Disconnect,
       Disconnect_Join, Stop_Erase, Stopper, SessionStop, SessionStop_Connected,
       SessionStop_Join, SessionStop_Close, DisconnectClient_Event, receive_vars
  <2> QED
    BY <2>1, QuietRounds
<1> QED
  BY <1>1, <1>2, <1>3, <1>4, ReceiveRounds, WorkTickRounds, EventRounds
     DEF Next, Session, Client, WorkerThread

\* The three hold together.
LastInv == AllThere /\ LastRead /\ Rounds

\* At first nothing is written, received or on its way.
LEMMA InitLast == Init => LastInv
<1> SUFFICES ASSUME Init PROVE LastInv
  OBVIOUS
<1>1. Len(<<>>) = 0 /\ <<>> \o <<>> = <<>>
  BY EmptySeq, ConcatEmptySeq
<1>2. /\ Len(written["client"]) = 0 /\ Len(Received("session")) = 0
      /\ Len(Units("session")) = 0
  BY <1>1 DEF Init, End, Received, Units
<1>3. Start(0) = 0
  BY SizeAssumption DEF Start
<1>4. AllThere
  BY <1>2, <1>3 DEF AllThere
<1>5. LastRead
  BY DEF Init, End, LastRead
<1>6. RoundMax \in Nat
  BY SizeAssumption, WholePackets DEF RoundMax
<1>7. Rounds
  BY <1>1, <1>6, SizeAssumption DEF Init, End, Rounds
<1> QED
  BY <1>4, <1>5, <1>7 DEF LastInv

\* The invariant of the last round holds in every reachable state.
THEOREM LastRoundInvariant == Spec => []LastInv
<1>1. Consistent /\ Consistent' /\ LastInv /\ [Next]_vars => LastInv'
  <2> SUFFICES ASSUME Consistent, Consistent', LastInv, [Next]_vars PROVE LastInv'
    OBVIOUS
  <2>1. CASE UNCHANGED vars
    <3>1. UNCHANGED <<worker, running_, socket_, cut, wire, receive_buffer, recv_queue_,
                      reported, written>>
      BY <2>1 DEF vars, flags, socket_vars, receive_vars, protocol_vars, event_vars
    <3>2. AllThere'
      BY <3>1, QuietThere DEF LastInv
    <3>3. LastRead' /\ Rounds'
      BY <3>1, QuietRounds DEF LastInv, LastRead
    <3> QED
      BY <3>2, <3>3 DEF LastInv
  <2> QED
    BY <2>1, NextThere, NextLastRead, NextRounds DEF LastInv, Consistent, Types
<1> QED
  BY <1>1, InitLast, StreamsConsistent, PTL DEF Spec

\* Less than a packet is left of what was written, so that all of it has been
\* received.
LEMMA NothingLeft ==
    ASSUME Consistent, LastInv, worker["session"] = "finished", running_["session"],
           socket_["session"], ~cut["session"]
    PROVE  Received("session") = written["client"]
<1> DEFINE b == receive_buffer["session"]
           u == Units("session")
           g == Received("session")
           w == written["client"]
<1>0. TypeOK /\ Streams /\ "session" \in End /\ Peer("session") = "client"
      /\ "client" \in End
  BY DEF Consistent, Types, End, Peer
<1>1. /\ g \in Seq(Message \cup {None}) /\ w \in Seq(Message) /\ b \in Seq(Unit)
      /\ Len(g) \in Nat /\ Len(w) \in Nat /\ Len(b) \in Nat
  BY <1>0, ReceivedType, LenProperties DEF TypeOK
<1>2. u = b
  <2>1. wire["session"] = <<>>
    BY DEF LastInv, LastRead
  <2> QED
    BY <1>1, <2>1, ConcatEmptySeq DEF Units
<1>3. Len(b) < PacketSize
  BY DEF LastInv, Rounds
<1>4. Start(Len(w)) <= Start(Len(g)) + Len(b)
  BY <1>2 DEF LastInv, AllThere
<1>5. Len(g) <= Len(w) /\ \A i \in 1 .. Len(g) : g[i] = w[i]
  BY <1>0 DEF Streams, Stream, Flows
<1> HIDE DEF b, u, g, w
<1>6. Len(g) = Len(w)
  <2> SUFFICES ASSUME Len(g) + 1 <= Len(w) PROVE FALSE
    BY <1>1, <1>5
  <2>1. Start(Len(g) + 1) <= Start(Len(w))
    BY <1>1, StartOrder
  <2>2. Start(Len(g) + 1) = Start(Len(g)) + PacketSize
    BY <1>1, StartNext
  <2>3. Start(Len(g)) \in Nat /\ Start(Len(w)) \in Nat /\ PacketSize \in Nat
    BY <1>1, StartNat, SizeAssumption
  <2> QED
    BY <1>1, <1>3, <1>4, <2>1, <2>2, <2>3
<1>7. w \in Seq(Message \cup {None})
  BY <1>1, SeqMonotonic
<1> QED
  BY <1>1, <1>5, <1>6, <1>7, SeqEqual DEF g, w

\* A session that ends because the client has closed in order has received all
\* that the client had written, however SendRaw and recv cut it and also when the
\* client gave up in the middle of a packet; and no more of it than one round can
\* parse is without an event.
THEOREM ClosedSessionGotAll == Spec => []LostInLastRound
<1>1. Consistent /\ LastInv => LostInLastRound
  BY NothingLeft DEF LostInLastRound, LastInv, Rounds, RoundMax
<1> QED
  BY <1>1, StreamsConsistent, LastRoundInvariant, PTL
===============================================================================
