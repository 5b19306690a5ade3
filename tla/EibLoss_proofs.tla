---------------------------- MODULE EibLoss_proofs ----------------------------
(***************************************************************************)
(* No packet is lost between the device and a reader without a trace, for  *)
(* every number of packets, receivers and every size of FIFO and buffers.  *)
(*                                                                         *)
(* The argument follows the numbers of the packets.  Those in the FIFO, in *)
(* the buffer of the receiver and in its socket are three increasing       *)
(* sequences, one after the other, all beyond the last one that was read;  *)
(* and a number that is in none of them was lost before the FIFO, or is    *)
(* below all of them and its loss is, or was, about to be told.            *)
(***************************************************************************)
EXTENDS EibDriver_proofs

Elements(s) == {s[i] : i \in 1 .. Len(s)}
Increasing(s) == \A i, j \in 1 .. Len(s) : i < j => s[i] < s[j]
Before(A, B) == \A x \in A : \A y \in B : x < y

\* The packets c of a FIFO after the last packet read: the gaps between them
\* are explained.
Explained(c, from, lost, flag) ==
    /\ Increasing(c) /\ Before({from}, Elements(c))
    /\ \A x \in Elements(c) : \A p \in from + 1 .. x :
          p \in Elements(c) \cup lost \/ (flag /\ Before({p}, Elements(c)))

\* And while there is a receiver, with d in its buffer and s in its socket: so
\* is every packet up to the one that the device has sent.
Coming(c, d, s, from, to, lost, flag) ==
    /\ Increasing(c) /\ Increasing(d) /\ Increasing(s)
    /\ Before(Elements(c), Elements(d)) /\ Before(Elements(c) \cup Elements(d), Elements(s))
    /\ Before({from}, Elements(c) \cup Elements(d) \cup Elements(s))
    /\ Before(Elements(c) \cup Elements(d) \cup Elements(s), {to + 1})
    /\ \A p \in from + 1 .. to :
          \/ p \in Elements(c) \cup Elements(d) \cup Elements(s) \cup lost
          \/ flag /\ Before({p}, Elements(c) \cup Elements(d) \cup Elements(s))

Flow ==
    /\ Before({last} \cup Elements(Contents(fifo)), {sent + 1})
    /\ Explained(Contents(fifo), last, missing, fifo.overflow \/ told)
    /\ \A r \in Receivers : Alive(r) =>
          Coming(Contents(fifo), data[r], socket, last, sent, missing, fifo.overflow \/ told)

-----------------------------------------------------------------------------
\* Numbered packets are natural numbers.
LEMMA Numbers ==
    ASSUME NEW s \in Seq(Packet)
    PROVE  Elements(s) \subseteq Int /\ Elements(s) \subseteq Packet
  BY PacketAssumption, BoundsAssumption DEF Elements

LEMMA EmptyElements == Elements(<<>>) = {} /\ Increasing(<<>>)
  BY DEF Elements, Increasing

LEMMA AppendElements ==
    ASSUME NEW s \in Seq(Packet), NEW p \in Packet, Increasing(s), Before(Elements(s), {p})
    PROVE  /\ Elements(Append(s, p)) = Elements(s) \cup {p}
           /\ Increasing(Append(s, p)) /\ Append(s, p) \in Seq(Packet)
  <1>1. /\ Len(Append(s, p)) = Len(s) + 1 /\ Len(s) \in Nat
        /\ \A i \in 1 .. Len(s) : Append(s, p)[i] = s[i]
        /\ Append(s, p)[Len(s) + 1] = p /\ Append(s, p) \in Seq(Packet)
    BY AppendProperties
  <1>2. Elements(Append(s, p)) = Elements(s) \cup {p}
    BY <1>1 DEF Elements
  <1>3. Increasing(Append(s, p))
    <2> SUFFICES ASSUME NEW i \in 1 .. Len(s) + 1, NEW j \in 1 .. Len(s) + 1, i < j
                 PROVE  Append(s, p)[i] < Append(s, p)[j]
      BY <1>1 DEF Increasing
    <2>1. i \in 1 .. Len(s) /\ s[i] \in Elements(s)
      BY <1>1 DEF Elements
    <2>2. CASE j = Len(s) + 1
      BY <1>1, <2>1, <2>2 DEF Before
    <2>3. CASE j \in 1 .. Len(s)
      BY <1>1, <2>1, <2>3 DEF Increasing
    <2> QED BY <1>1, <2>2, <2>3
  <1> QED BY <1>1, <1>2, <1>3

LEMMA TailElements ==
    ASSUME NEW s \in Seq(Packet), s # <<>>, Increasing(s)
    PROVE  /\ Elements(s) = {Head(s)} \cup Elements(Tail(s)) /\ Head(s) \in Packet
           /\ Increasing(Tail(s)) /\ Before({Head(s)}, Elements(Tail(s)))
           /\ Tail(s) \in Seq(Packet)
  <1>1. /\ Len(Tail(s)) = Len(s) - 1 /\ Len(s) \in Nat \ {0} /\ Head(s) = s[1]
        /\ \A i \in 1 .. Len(s) - 1 : Tail(s)[i] = s[i + 1]
        /\ Tail(s) \in Seq(Packet)
    BY HeadTailProperties
  <1>2. Elements(s) = {Head(s)} \cup Elements(Tail(s))
    <2>1. ASSUME NEW i \in 1 .. Len(s) PROVE s[i] \in {Head(s)} \cup Elements(Tail(s))
      <3>1. CASE i = 1
        BY <1>1, <3>1
      <3>2. CASE i # 1
        <4>1. i - 1 \in 1 .. Len(Tail(s)) /\ Tail(s)[i - 1] = s[i]
          BY <1>1, <3>2
        <4> QED BY <4>1 DEF Elements
      <3> QED BY <3>1, <3>2
    <2>2. ASSUME NEW i \in 1 .. Len(Tail(s)) PROVE Tail(s)[i] \in Elements(s)
      <3>1. i + 1 \in 1 .. Len(s) /\ Tail(s)[i] = s[i + 1]
        BY <1>1
      <3> QED BY <3>1 DEF Elements
    <2>3. Head(s) \in Elements(s)
      BY <1>1 DEF Elements
    <2> QED BY <2>1, <2>2, <2>3 DEF Elements
  <1>3. Increasing(Tail(s))
    BY <1>1 DEF Increasing
  <1>4. Before({Head(s)}, Elements(Tail(s)))
    BY <1>1 DEF Increasing, Before, Elements
  <1> QED BY <1>1, <1>2, <1>3, <1>4

\* The last element of an increasing sequence is its largest.
LEMMA LastElement ==
    ASSUME NEW s \in Seq(Packet), s # <<>>, Increasing(s)
    PROVE  s[Len(s)] \in Elements(s) /\ \A x \in Elements(s) : x <= s[Len(s)]
  <1>1. Len(s) \in Nat \ {0} /\ \A i \in 1 .. Len(s) : s[i] \in Int
    BY PacketAssumption, BoundsAssumption
  <1> QED BY <1>1 DEF Elements, Increasing

\* A sequence cut in two, and two sequences joined.
LEMMA SplitElements ==
    ASSUME NEW s \in Seq(Packet), NEW k \in 0 .. Len(s), Increasing(s)
    PROVE  LET a == SubSeq(s, 1, k)
               b == SubSeq(s, k + 1, Len(s))
           IN  /\ Elements(s) = Elements(a) \cup Elements(b)
               /\ Elements(a) = {s[i] : i \in 1 .. k}
               /\ Increasing(a) /\ Increasing(b) /\ Before(Elements(a), Elements(b))
               /\ a \in Seq(Packet) /\ b \in Seq(Packet)
  <1> DEFINE a == SubSeq(s, 1, k)
             b == SubSeq(s, k + 1, Len(s))
  <1>1. /\ Len(a) = k /\ a \in Seq(Packet) /\ Len(s) \in Nat
        /\ \A i \in 1 .. k : a[i] = s[i]
    BY SubSeqProperties
  <1>2. /\ Len(b) = Len(s) - k /\ b \in Seq(Packet)
        /\ \A i \in 1 .. Len(s) - k : b[i] = s[k + i]
    BY <1>1, SubSeqProperties
  <1> HIDE DEF a, b
  <1>3. Elements(a) = {s[i] : i \in 1 .. k}
    BY <1>1 DEF Elements
  <1>4. Elements(b) = {s[i] : i \in k + 1 .. Len(s)}
    <2>1. ASSUME NEW i \in k + 1 .. Len(s) PROVE s[i] \in Elements(b)
      <3>1. i - k \in 1 .. Len(b) /\ b[i - k] = s[i]
        BY <1>1, <1>2
      <3> QED BY <3>1 DEF Elements
    <2>2. ASSUME NEW i \in 1 .. Len(b) PROVE \E j \in k + 1 .. Len(s) : b[i] = s[j]
      <3>1. k + i \in k + 1 .. Len(s) /\ b[i] = s[k + i]
        BY <1>1, <1>2
      <3> QED BY <3>1
    <2> QED BY <2>1, <2>2 DEF Elements
  <1>5. Elements(s) = Elements(a) \cup Elements(b)
    <2>1. 1 .. Len(s) = (1 .. k) \cup (k + 1 .. Len(s))
      BY <1>1
    <2> QED BY <2>1, <1>3, <1>4 DEF Elements
  <1>6. Increasing(a) /\ Increasing(b)
    <2>1. Increasing(a)
      BY <1>1 DEF Increasing
    <2>2. ASSUME NEW i \in 1 .. Len(b), NEW j \in 1 .. Len(b), i < j PROVE b[i] < b[j]
      <3>1. /\ k + i \in 1 .. Len(s) /\ k + j \in 1 .. Len(s) /\ k + i < k + j
            /\ b[i] = s[k + i] /\ b[j] = s[k + j]
        BY <1>1, <1>2, <2>2
      <3> QED BY <3>1 DEF Increasing
    <2> QED BY <2>1, <2>2 DEF Increasing
  <1>7. Before(Elements(a), Elements(b))
    BY <1>1, <1>3, <1>4 DEF Before, Increasing
  <1> QED BY <1>1, <1>2, <1>3, <1>5, <1>6, <1>7 DEF a, b

LEMMA JoinElements ==
    ASSUME NEW a \in Seq(Packet), NEW b \in Seq(Packet), Increasing(a), Increasing(b),
           Before(Elements(a), Elements(b))
    PROVE  /\ Elements(a \o b) = Elements(a) \cup Elements(b)
           /\ Increasing(a \o b) /\ a \o b \in Seq(Packet)
  <1>1. /\ Len(a \o b) = Len(a) + Len(b) /\ Len(a) \in Nat /\ Len(b) \in Nat
        /\ \A i \in 1 .. Len(a) : (a \o b)[i] = a[i]
        /\ \A i \in Len(a) + 1 .. Len(a) + Len(b) : (a \o b)[i] = b[i - Len(a)]
        /\ a \o b \in Seq(Packet)
    BY ConcatProperties
  <1>2. Elements(a \o b) = Elements(a) \cup Elements(b)
    <2>1. ASSUME NEW i \in 1 .. Len(b) PROVE b[i] \in Elements(a \o b)
      <3>1. i + Len(a) \in Len(a) + 1 .. Len(a) + Len(b) /\ (i + Len(a)) - Len(a) = i
        BY <1>1
      <3>2. (a \o b)[i + Len(a)] = b[i]
        BY <1>1, <3>1
      <3> QED BY <1>1, <3>1, <3>2 DEF Elements
    <2>2. ASSUME NEW i \in 1 .. Len(a) PROVE a[i] \in Elements(a \o b)
      BY <1>1 DEF Elements
    <2>3. ASSUME NEW i \in 1 .. Len(a \o b)
          PROVE  (a \o b)[i] \in Elements(a) \cup Elements(b)
      BY <1>1 DEF Elements
    <2> QED BY <2>1, <2>2, <2>3 DEF Elements
  <1>3. Increasing(a \o b)
    <2> DEFINE c == a \o b
    <2> SUFFICES ASSUME NEW i \in 1 .. Len(c), NEW j \in 1 .. Len(c), i < j
                 PROVE  c[i] < c[j]
      BY DEF Increasing
    <2>a. /\ Len(c) = Len(a) + Len(b) /\ Len(a) \in Nat /\ Len(b) \in Nat
          /\ \A n \in 1 .. Len(a) : c[n] = a[n]
          /\ \A n \in Len(a) + 1 .. Len(a) + Len(b) : c[n] = b[n - Len(a)]
      BY <1>1
    <2> HIDE DEF c
    <2>1. \A n \in 1 .. Len(c) : \/ n \in 1 .. Len(a) /\ c[n] = a[n]
                                 \/ n - Len(a) \in 1 .. Len(b) /\ c[n] = b[n - Len(a)]
      <3> TAKE n \in 1 .. Len(c)
      <3>1. CASE n \in 1 .. Len(a)
        BY <2>a, <3>1
      <3>2. CASE n \notin 1 .. Len(a)
        <4>1. n \in Len(a) + 1 .. Len(a) + Len(b) /\ n - Len(a) \in 1 .. Len(b)
          BY <2>a, <3>2
        <4> QED BY <2>a, <4>1
      <3> QED BY <3>1, <3>2
    <2>2. CASE i \in 1 .. Len(a) /\ c[i] = a[i] /\ j \in 1 .. Len(a) /\ c[j] = a[j]
      BY <2>2 DEF Increasing
    <2>3. CASE /\ i \in 1 .. Len(a) /\ c[i] = a[i]
               /\ j - Len(a) \in 1 .. Len(b) /\ c[j] = b[j - Len(a)]
      BY <2>3 DEF Before, Elements
    <2>4. CASE /\ i - Len(a) \in 1 .. Len(b) /\ c[i] = b[i - Len(a)]
               /\ j - Len(a) \in 1 .. Len(b) /\ c[j] = b[j - Len(a)]
      <3>1. i - Len(a) < j - Len(a)
        BY <1>1, <2>4
      <3> QED BY <2>4, <3>1 DEF Increasing
    <2>5. i - Len(a) \in 1 .. Len(b) => j \notin 1 .. Len(a)
      BY <1>1
    <2> QED BY <2>1, <2>2, <2>3, <2>4, <2>5
  <1> QED BY <1>1, <1>2, <1>3

-----------------------------------------------------------------------------
(* What the steps do to the three sequences. *)

LEMMA ComingExplains ==
    ASSUME NEW c \in Seq(Packet), NEW d \in Seq(Packet), NEW s \in Seq(Packet),
           NEW from \in Int, NEW to \in Int, NEW lost, NEW flag \in BOOLEAN,
           Coming(c, d, s, from, to, lost, flag)
    PROVE  Explained(c, from, lost, flag)
  <1>1. Elements(c) \subseteq Int /\ Elements(d) \subseteq Int /\ Elements(s) \subseteq Int
    BY Numbers
  <1>2. ASSUME NEW x \in Elements(c), NEW p \in from + 1 .. x
        PROVE  p \in Elements(c) \cup lost \/ (flag /\ Before({p}, Elements(c)))
    <2>1. p \in from + 1 .. to /\ p \notin Elements(d) /\ p \notin Elements(s)
      BY <1>1 DEF Coming, Before
    <2> QED BY <2>1 DEF Coming, Before
  <1> QED BY <1>2 DEF Coming, Explained, Before

\* A new session.
LEMMA NewFlow ==
    ASSUME NEW from \in Int, NEW lost, NEW flag
    PROVE  /\ Explained(<<>>, from, lost, flag)
           /\ Coming(<<>>, <<>>, <<>>, from, from, lost, flag)
  BY EmptyElements DEF Explained, Coming, Before

\* The device sends a packet, which waits in the socket or is lost there.
LEMMA SendFlow ==
    ASSUME NEW c \in Seq(Packet), NEW d \in Seq(Packet), NEW s \in Seq(Packet),
           NEW from \in Int, NEW to \in Int, NEW lost, NEW flag \in BOOLEAN,
           from <= to, to + 1 \in Packet,
           Coming(c, d, s, from, to, lost, flag)
    PROVE  /\ Coming(c, d, Append(s, to + 1), from, to + 1, lost, flag)
           /\ Coming(c, d, s, from, to + 1, lost \cup {to + 1}, flag)
  <1>1. Elements(c) \subseteq Int /\ Elements(d) \subseteq Int /\ Elements(s) \subseteq Int
    BY Numbers
  <1>2. Before(Elements(s), {to + 1}) /\ Increasing(s)
    BY DEF Coming, Before
  <1>3. /\ Elements(Append(s, to + 1)) = Elements(s) \cup {to + 1}
        /\ Increasing(Append(s, to + 1))
    BY <1>2, AppendElements
  <1>4. \A p \in from + 1 .. to + 1 : p \in from + 1 .. to \/ p = to + 1
    OBVIOUS
  <1>5. Coming(c, d, Append(s, to + 1), from, to + 1, lost, flag)
    BY <1>1, <1>3, <1>4 DEF Coming, Before
  <1>6. Coming(c, d, s, from, to + 1, lost \cup {to + 1}, flag)
    BY <1>1, <1>4 DEF Coming, Before
  <1> QED BY <1>5, <1>6
\* The flag only has to be raised.
LEMMA FlagFlow ==
    ASSUME NEW c, NEW d, NEW s, NEW from, NEW to, NEW lost, NEW flag, NEW raised, flag => raised
    PROVE  /\ Explained(c, from, lost, flag) => Explained(c, from, lost, raised)
           /\ Coming(c, d, s, from, to, lost, flag) => Coming(c, d, s, from, to, lost, raised)
  BY DEF Explained, Coming

\* The handler takes k packets from its socket, into its buffer or nowhere.
LEMMA ReceiveFlow ==
    ASSUME NEW c \in Seq(Packet), NEW d \in Seq(Packet), NEW s \in Seq(Packet),
           NEW from \in Int, NEW to \in Int, NEW lost, NEW flag \in BOOLEAN,
           NEW k \in 0 .. Len(s), Coming(c, d, s, from, to, lost, flag)
    PROVE  LET rest == SubSeq(s, k + 1, Len(s))
           IN  /\ Coming(c, d \o SubSeq(s, 1, k), rest, from, to, lost, flag)
               /\ Coming(c, d, rest, from, to, lost \cup {s[i] : i \in 1 .. k}, flag)
  <1> DEFINE a == SubSeq(s, 1, k)
             b == SubSeq(s, k + 1, Len(s))
  <1>1. Elements(c) \subseteq Int /\ Elements(d) \subseteq Int /\ Elements(s) \subseteq Int
    BY Numbers
  <1>2. /\ Elements(s) = Elements(a) \cup Elements(b) /\ Elements(a) = {s[i] : i \in 1 .. k}
        /\ Increasing(a) /\ Increasing(b) /\ Before(Elements(a), Elements(b))
        /\ a \in Seq(Packet) /\ b \in Seq(Packet)
    BY SplitElements DEF Coming
  <1> HIDE DEF a, b
  <1>3. Before(Elements(d), Elements(a)) /\ Increasing(d)
    BY <1>2 DEF Coming, Before
  <1>4. Elements(d \o a) = Elements(d) \cup Elements(a) /\ Increasing(d \o a)
    BY <1>2, <1>3, JoinElements
  <1>5. Coming(c, d \o a, b, from, to, lost, flag)
    BY <1>1, <1>2, <1>4 DEF Coming, Before
  <1>6. Coming(c, d, b, from, to, lost \cup Elements(a), flag)
    BY <1>1, <1>2 DEF Coming, Before
  <1> QED BY <1>2, <1>5, <1>6 DEF a, b

\* The handler inserts the first packet of its buffer, and the oldest of a full
\* FIFO may have to go.
LEMMA InsertFlow ==
    ASSUME NEW c \in Seq(Packet), NEW d \in Seq(Packet), NEW s \in Seq(Packet),
           NEW from \in Int, NEW to \in Int, NEW lost, NEW flag \in BOOLEAN,
           d # <<>>, Coming(c, d, s, from, to, lost, flag)
    PROVE  /\ Coming(Append(c, Head(d)), Tail(d), s, from, to, lost, flag)
           /\ c # <<>> =>
                Coming(Append(Tail(c), Head(d)), Tail(d), s, from, to, lost, TRUE)
  <1>1. Elements(c) \subseteq Int /\ Elements(d) \subseteq Int /\ Elements(s) \subseteq Int
    BY Numbers
  <1>2. /\ Elements(d) = {Head(d)} \cup Elements(Tail(d)) /\ Head(d) \in Packet
        /\ Increasing(Tail(d)) /\ Before({Head(d)}, Elements(Tail(d)))
    BY TailElements DEF Coming
  <1>3. Before(Elements(c), {Head(d)}) /\ Increasing(c)
    BY <1>2 DEF Coming, Before
  <1>4. /\ Elements(Append(c, Head(d))) = Elements(c) \cup {Head(d)}
        /\ Increasing(Append(c, Head(d)))
    BY <1>2, <1>3, AppendElements
  <1>5. Coming(Append(c, Head(d)), Tail(d), s, from, to, lost, flag)
    BY <1>1, <1>2, <1>4 DEF Coming, Before
  <1>6. ASSUME c # <<>>
        PROVE  Coming(Append(Tail(c), Head(d)), Tail(d), s, from, to, lost, TRUE)
    <2>1. /\ Elements(c) = {Head(c)} \cup Elements(Tail(c)) /\ Tail(c) \in Seq(Packet)
          /\ Increasing(Tail(c)) /\ Before({Head(c)}, Elements(Tail(c)))
      BY <1>3, <1>6, TailElements
    <2>2. Before(Elements(Tail(c)), {Head(d)})
      BY <1>3, <2>1 DEF Before
    <2>3. /\ Elements(Append(Tail(c), Head(d))) = Elements(Tail(c)) \cup {Head(d)}
          /\ Increasing(Append(Tail(c), Head(d)))
      BY <1>2, <2>1, <2>2, AppendElements
    <2> QED BY <1>1, <1>2, <2>1, <2>3 DEF Coming, Before
  <1> QED BY <1>5, <1>6

\* A reader takes the oldest packet, or it goes with the report of a loss.
LEMMA TakeFlow ==
    ASSUME NEW c \in Seq(Packet), NEW d \in Seq(Packet), NEW s \in Seq(Packet),
           NEW from \in Int, NEW to \in Int, NEW lost, NEW flag \in BOOLEAN, c # <<>>
    PROVE  LET later == {p \in lost : p > Head(c)}
           IN  /\ Explained(c, from, lost, flag) =>
                     /\ Explained(Tail(c), Head(c), later, FALSE)
                     /\ Explained(Tail(c), from, lost, TRUE)
               /\ Coming(c, d, s, from, to, lost, flag) =>
                     /\ Coming(Tail(c), d, s, Head(c), to, later, FALSE)
                     /\ Coming(Tail(c), d, s, from, to, lost, TRUE)
  <1> DEFINE later == {p \in lost : p > Head(c)}
  <1>1. Elements(c) \subseteq Int /\ Elements(d) \subseteq Int /\ Elements(s) \subseteq Int
    BY Numbers
  <1>2. Increasing(c) => /\ Elements(c) = {Head(c)} \cup Elements(Tail(c))
                         /\ Head(c) \in Packet /\ Increasing(Tail(c))
                         /\ Before({Head(c)}, Elements(Tail(c)))
    BY TailElements
  <1>3. ASSUME Explained(c, from, lost, flag)
        PROVE  /\ Explained(Tail(c), Head(c), later, FALSE)
               /\ Explained(Tail(c), from, lost, TRUE)
    <2>a. /\ Increasing(c) /\ Head(c) \in Elements(c) /\ from < Head(c)
          /\ \A x \in Elements(c) : Head(c) <= x
      <3>1. Increasing(c) /\ Before({from}, Elements(c))
        BY <1>3 DEF Explained
      <3>2. Head(c) \in Elements(c) /\ from < Head(c)
        BY <1>2, <3>1 DEF Before
      <3>3. ASSUME NEW x \in Elements(c) PROVE Head(c) <= x
        <4>1. x = Head(c) \/ (x \in Elements(Tail(c)) /\ Head(c) < x)
          BY <1>2, <3>1 DEF Before
        <4>2. x \in Int /\ Head(c) \in Int
          BY <1>1, <3>2
        <4> QED BY <4>1, <4>2
      <3> QED BY <3>1, <3>2, <3>3
    <2>b. ASSUME NEW x \in Elements(Tail(c)), NEW p \in Head(c) + 1 .. x
          PROVE  p \in Elements(Tail(c)) \cup later
      <3>1. x \in Elements(c) /\ p \in from + 1 .. x /\ p > Head(c)
        BY <1>1, <1>2, <2>a
      <3>2. p \in Elements(c) \cup lost
        BY <1>1, <1>3, <2>a, <3>1 DEF Explained, Before
      <3> QED BY <1>2, <2>a, <3>1, <3>2
    <2>1. Explained(Tail(c), Head(c), later, FALSE)
      BY <1>2, <2>a, <2>b DEF Explained
    <2>2. Explained(Tail(c), from, lost, TRUE)
      BY <1>1, <1>2, <1>3 DEF Explained, Before
    <2> QED BY <2>1, <2>2
  <1>4. ASSUME Coming(c, d, s, from, to, lost, flag)
        PROVE  /\ Coming(Tail(c), d, s, Head(c), to, later, FALSE)
               /\ Coming(Tail(c), d, s, from, to, lost, TRUE)
    <2> DEFINE all == Elements(c) \cup Elements(d) \cup Elements(s)
               others == Elements(Tail(c)) \cup Elements(d) \cup Elements(s)
    <2>a. /\ Increasing(c) /\ Head(c) \in Elements(c) /\ from < Head(c)
          /\ Before({Head(c)}, others) /\ all = {Head(c)} \cup others
      BY <1>1, <1>2, <1>4 DEF Coming, Before
    <2>b. ASSUME NEW p \in Head(c) + 1 .. to
          PROVE  p \in others \cup later
      <3>1. p \in from + 1 .. to /\ p > Head(c)
        BY <1>1, <1>2, <2>a
      <3>2. p \in all \cup lost
        BY <1>1, <1>4, <2>a, <3>1 DEF Coming, Before
      <3> QED BY <1>2, <2>a, <3>1, <3>2
    <2>1. Coming(Tail(c), d, s, Head(c), to, later, FALSE)
      BY <1>2, <1>4, <2>a, <2>b DEF Coming, Before
    <2>2. Coming(Tail(c), d, s, from, to, lost, TRUE)
      BY <1>1, <1>2, <1>4 DEF Coming, Before
    <2> QED BY <2>1, <2>2
  <1> QED BY <1>3, <1>4

\* All packets of the FIFO are cleared.
LEMMA ClearFlow ==
    ASSUME NEW c \in Seq(Packet), NEW d \in Seq(Packet), NEW s \in Seq(Packet),
           NEW from \in Int, NEW to \in Int, NEW lost, NEW flag \in BOOLEAN, c # <<>>,
           Coming(c, d, s, from, to, lost, flag)
    PROVE  Coming(<<>>, d, s, c[Len(c)], to, {p \in lost : p > c[Len(c)]}, flag)
  <1>1. Elements(c) \subseteq Int /\ Elements(d) \subseteq Int /\ Elements(s) \subseteq Int
    BY Numbers
  <1>2. c[Len(c)] \in Elements(c) /\ \A x \in Elements(c) : x <= c[Len(c)]
    BY LastElement DEF Coming
  <1> QED BY <1>1, <1>2, EmptyElements DEF Coming, Before

-----------------------------------------------------------------------------
(* The steps of the driver. *)

\* Most steps leave the packets where they are and start no receiver.
Quiet ==
    /\ UNCHANGED <<fifo, socket, last, missing, told, sent>>
    /\ \A r \in Receivers : Alive(r)' => Alive(r) /\ data'[r] = data[r]

\* The packets and the numbers in the types that the lemmas above ask for.
LEMMA FlowTypes ==
    ASSUME IInv
    PROVE  /\ Contents(fifo) \in Seq(Packet) /\ socket \in Seq(Packet)
           /\ last \in Int /\ sent \in Int /\ sent \in 0 .. MaxPackets
           /\ (fifo.overflow \/ told) \in BOOLEAN
           /\ \A r \in Receivers : data[r] \in Seq(Packet)
  BY BoundsAssumption DEF IInv, TypeOK, Stored, IsFIFO

LEMMA QuietFlow == Flow /\ Quiet => Flow'
  BY DEF Flow, Quiet

LEMMA QuietSteps ==
    ASSUME IInv, NEW t \in Threads, NEW r \in Receivers,
           \/ \E c \in Calls : Call(t, c)
           \/ Lock(t) \/ Command(t) \/ SetDataCallback(t) \/ StopReceiver(t) \/ NothingToStop(t)
           \/ Join(t) \/ Relock(t) \/ RequestMaster(t) \/ SoftRealtimeSelected(t)
           \/ SoftRealtimeRefused(t) \/ EnableRefused(t) \/ Connect(t) \/ Disable(t)
           \/ Close(t) \/ ReadTimesOut(t) \/ ReadStarts(t)
           \/ ReceiverEnds(r) \/ DataArrived(r) \/ LockFIFO(r) \/ CallbackReturns(r)
           \/ SetFIFOSize
    PROVE  Quiet
  <1> USE ThreadFacts DEF Quiet, Alive, At, Goto
  <1>1. ASSUME NEW c \in Calls, Call(t, c) PROVE Quiet
    BY <1>1
    DEF Call, Home, LockedCalls, SelectCalls, driver, receiver, device, history, IInv,
       Places, TypeOK
  <1>2. CASE Lock(t)
    <2>1. pc' = [pc EXCEPT ![t] = after[t]] /\ pc[t] = "lock"
      BY <1>2 DEF Lock
    <2> QED BY <1>2, <2>1 DEF Lock, receiver, device, history, IInv, Places
  <1>3. CASE Command(t)
    BY <1>3
    DEF Command, Return, Over, Home, Nobody, receiver, device, history, IInv, Places,
       TypeOK
  <1>4. CASE SetDataCallback(t)
    BY <1>4
    DEF SetDataCallback, Return, Over, Home, Nobody, receiver, device, history, IInv,
       Places, TypeOK
  <1>5. CASE StopReceiver(t)
    BY <1>5
    DEF StopReceiver, Nobody, receiver, device, history, IInv, Places, TypeOK
  <1>6. CASE NothingToStop(t)
    BY <1>6
    DEF NothingToStop, driver, receiver, device, history, IInv, Places, TypeOK
  <1>7. CASE Join(t)
    BY <1>7
    DEF Join, driver, receiver, device, history, IInv, Places, TypeOK
  <1>8. CASE Relock(t)
    BY <1>8
    DEF Relock, Nobody, receiver, device, history, IInv, Places, TypeOK
  <1>9. CASE RequestMaster(t)
    BY <1>9
    DEF RequestMaster, SelectCalls, Return, Over, Home, Nobody, receiver, device,
       history, IInv, Places, TypeOK
  <1>10. CASE SoftRealtimeSelected(t)
    BY <1>10
    DEF SoftRealtimeSelected, Return, Over, Home, Nobody, receiver, history, IInv,
       Places, TypeOK
  <1>11. CASE SoftRealtimeRefused(t)
    BY <1>11
    DEF SoftRealtimeRefused, ReleaseUnlessMaster, Nobody, receiver, device, history,
       IInv, Places, TypeOK
  <1>12. CASE EnableRefused(t)
    BY <1>12
    DEF EnableRefused, Return, Over, Home, Nobody, receiver, device, history, IInv,
       Places, TypeOK
  <1>13. CASE Connect(t)
    BY <1>13
    DEF Connect, Return, Over, Home, Nobody, receiver, history, IInv, Places, TypeOK
  <1>14. CASE Disable(t)
    BY <1>14
    DEF Disable, Return, Over, Home, Nobody, receiver, history, IInv, Places, TypeOK
  <1>15. CASE Close(t)
    BY <1>15
    DEF Close, driver, receiver, device, history, IInv, Places, TypeOK
  <1>16. CASE ReadTimesOut(t)
    BY <1>16
    DEF ReadTimesOut, Nobody, Over, Home, driver, receiver, device, history, IInv,
       Places, TypeOK
  <1>17. CASE ReadStarts(t)
    BY <1>17
    DEF ReadStarts, Nobody, Min2, receiver, device, history, IInv, Places, TypeOK
  <1>18. CASE ReceiverEnds(r)
    BY <1>18
    DEF ReceiverEnds, ThreadEnds, driver, device, history, IInv, Places, TypeOK
  <1>19. CASE DataArrived(r)
    BY <1>19
    DEF DataArrived, driver, device, history, IInv, Places, TypeOK
  <1>20. CASE LockFIFO(r)
    BY <1>20
    DEF LockFIFO, Nobody, receiver, device, history, IInv, Places, TypeOK
  <1>21. CASE CallbackReturns(r)
    BY <1>21
    DEF CallbackReturns, driver, device, history, IInv, Places, TypeOK
  <1>22. CASE SetFIFOSize
    BY <1>22
    DEF SetFIFOSize, receiver, device, history, IInv, Places, TypeOK
  <1> QED BY <1>1, <1>2, <1>3, <1>4, <1>5, <1>6, <1>7, <1>8, <1>9, <1>10, <1>11, <1>12,
       <1>13, <1>14, <1>15, <1>16, <1>17, <1>18, <1>19, <1>20, <1>21, <1>22

\* A new queue, and no receiver.
LEMMA NobodyFlow ==
    ASSUME last' \in Int, Before({last'}, {sent' + 1}), Contents(fifo') = <<>>,
           \A r \in Receivers : ~Alive(r)'
    PROVE  Flow'
  BY NewFlow, EmptyElements DEF Flow

\* A new session, and the receiver that is started for it.
LEMMA SessionFlow ==
    ASSUME IInv, NewSession, sent' = sent,
           \A r \in Receivers : Alive(r)' => data'[r] = <<>>
    PROVE  Flow'
  <1>1. fifosize \in Nat /\ fifosize # 1
    BY SizesAssumption DEF IInv, TypeOK
  <1>2. /\ Contents(fifo') = <<>> /\ socket' = <<>> /\ last' = sent' /\ sent' \in Int
        /\ last' \in Int
    BY <1>1, Created, FlowTypes DEF NewSession
  <1>3. Before({last'} \cup Elements(Contents(fifo')), {sent' + 1})
    BY <1>2, EmptyElements DEF Before
  <1> QED BY <1>2, <1>3, NewFlow DEF Flow

\* With one receiver, what it is bound to receive is all there is to show.
LEMMA ComingFlow ==
    ASSUME IInv', NEW r \in Receivers, \A s \in Receivers : Alive(s)' => s = r,
           Coming(Contents(fifo'), data'[r], socket', last', sent', missing',
                  fifo'.overflow \/ told'),
           last' < sent' + 1
    PROVE  Flow'
  <1>1. /\ Contents(fifo') \in Seq(Packet) /\ socket' \in Seq(Packet)
        /\ last' \in Int /\ sent' \in Int /\ sent' \in 0 .. MaxPackets
        /\ (fifo'.overflow \/ told') \in BOOLEAN /\ data'[r] \in Seq(Packet)
    BY BoundsAssumption DEF IInv, TypeOK, Stored, IsFIFO
  <1>2. Explained(Contents(fifo'), last', missing', fifo'.overflow \/ told')
    BY <1>1, ComingExplains
  <1>3. Before({last'} \cup Elements(Contents(fifo')), {sent' + 1})
    <2>1. \A x \in Elements(Contents(fifo')) : x < sent' + 1
      BY DEF Coming, Before
    <2> QED BY <2>1 DEF Before
  <1> QED BY <1>2, <1>3 DEF Flow

\* A mode change that leaves no receiver and nothing in the FIFO.
LEMMA OverFlow ==
    ASSUME IInv, Flow, pc[App] = "stopped" \/ ~threadrunning, Over(App),
           fifo' = DestroyedFIFO \/ fifo' = CreateFIFO(fifosize),
           sent' = sent, last' = last \/ last' = sent
    PROVE  Flow'
  <1>1. 0 \in Nat /\ 0 # 1 /\ fifosize \in Nat /\ fifosize # 1
    BY SizesAssumption DEF IInv, TypeOK
  <1>2. Contents(fifo') = <<>>
    BY <1>1, Created DEF DestroyedFIFO
  <1>3. \A r \in Receivers : ~Alive(r)'
    BY ThreadFacts DEF IInv, Places, Started, Alive, Over, Goto, Home
  <1>4. last' \in Int /\ Before({last'}, {sent' + 1})
    BY FlowTypes DEF Flow, Before
  <1> QED BY <1>2, <1>3, <1>4, NobodyFlow

\* The start of a receiver begins with a new session.
LEMMA StartFlow ==
    ASSUME IInv, NewSession, sent' = sent, NEW k, NEW to,
           StartThread(App, k, to), pc[App] = "stopped" \/ ~threadrunning
    PROVE  Flow'
  <1> PICK r \in Receivers : /\ pc' = [pc EXCEPT ![r] = "wait", ![App] = to]
                             /\ data' = [data EXCEPT ![r] = <<>>]
    BY DEF StartThread
  <1>1. \A s \in Receivers : ~Alive(s)
    BY DEF IInv, Started
  <1>2. \A s \in Receivers : Alive(s)' => data'[s] = <<>>
    BY <1>1, ThreadFacts DEF Alive, IInv, Places, TypeOK
  <1> QED BY <1>2, SessionFlow

\* A read takes the oldest packet, or tells of a loss.
LEMMA ReadFlow ==
    ASSUME IInv, Flow, NEW t \in Threads, ReadElement(t)
    PROVE  Flow'
  <1> DEFINE c == Contents(fifo)
             flag == fifo.overflow \/ told
  <1>1. IsFIFO(fifo)
    BY DEF IInv, TypeOK
  <1>2. UNCHANGED <<data, socket, sent>> /\ \A r \in Receivers : Alive(r)' => Alive(r)
    BY ThreadFacts DEF ReadElement, receiver, device, Unlock, Over, Goto, At, Home, Alive, IInv,
       Places
  <1>3. CASE UNCHANGED <<fifo, history>>
    BY <1>2, <1>3 DEF Flow, history
  <1>4. CASE /\ NumElements(fifo) > 0 /\ told' = TRUE /\ UNCHANGED <<last, missing>>
             /\ fifo' = Reported(fifo)
    <2>1. Contents(fifo') = c
      BY <1>1, <1>4, ReportedFlag
    <2> QED BY <1>2, <1>4, <2>1, FlagFlow DEF Flow
  <1>5. ASSUME NumElements(fifo) > 0
        PROVE  /\ c # <<>> /\ Contents(RemoveElementFIFO(fifo)) = Tail(c)
               /\ Head(c) = Oldest(fifo) /\ IsFIFO(RemoveElementFIFO(fifo))
               /\ RemoveElementFIFO(fifo).overflow = fifo.overflow
               /\ Elements(c) = {Head(c)} \cup Elements(Tail(c)) /\ Head(c) \in Int
    <2>1. /\ c # <<>> /\ Contents(RemoveElementFIFO(fifo)) = Tail(c)
          /\ Head(c) = Oldest(fifo) /\ IsFIFO(RemoveElementFIFO(fifo))
          /\ RemoveElementFIFO(fifo).overflow = fifo.overflow
      BY <1>1, <1>5, Removed
    <2>2. Elements(c) = {Head(c)} \cup Elements(Tail(c)) /\ Head(c) \in Packet
      BY <2>1, FlowTypes, TailElements DEF Flow, Explained
    <2> QED BY <2>1, <2>2, PacketAssumption, BoundsAssumption
  <1>6. CASE /\ NumElements(fifo) > 0 /\ told' = TRUE /\ UNCHANGED <<last, missing>>
             /\ fifo' = RetrieveFIFO(fifo)
    <2>1. Contents(fifo') = Tail(c)
      BY <1>5, <1>6, ReportedFlag DEF RetrieveFIFO
    <2>2. (fifo'.overflow \/ told') = TRUE
      BY <1>6
    <2>3. Explained(Tail(c), last, missing, TRUE)
      BY <1>5, <1>6, FlowTypes, TakeFlow DEF Flow
    <2>4. ASSUME NEW r \in Receivers, Alive(r)
          PROVE  Coming(Tail(c), data[r], socket, last, sent, missing, TRUE)
      BY <1>5, <1>6, <2>4, FlowTypes, TakeFlow DEF Flow
    <2>5. Before({last} \cup Elements(Tail(c)), {sent + 1})
      BY <1>5, <1>6 DEF Flow, Before
    <2> QED BY <1>2, <1>6, <2>1, <2>2, <2>3, <2>4, <2>5 DEF Flow
  <1>7. CASE /\ NumElements(fifo) > 0 /\ ~fifo.overflow /\ fifo' = RemoveElementFIFO(fifo)
             /\ last' = Oldest(fifo) /\ told' = FALSE
             /\ missing' = {p \in missing : p > last'}
    <2>1. Contents(fifo') = Tail(c) /\ last' = Head(c) /\ (fifo'.overflow \/ told') = FALSE
      BY <1>5, <1>7
    <2>a. missing' = {p \in missing : p > Head(c)}
      BY <1>7, <2>1
    <2>2. Explained(Tail(c), last', missing', FALSE)
      BY <1>5, <1>7, <2>1, <2>a, FlowTypes, TakeFlow DEF Flow
    <2>3. ASSUME NEW r \in Receivers, Alive(r)
          PROVE  Coming(Tail(c), data[r], socket, last', sent, missing', FALSE)
      <3>1. Coming(c, data[r], socket, last, sent, missing, flag) /\ data[r] \in Seq(Packet)
        BY <2>3, FlowTypes DEF Flow
      <3>2. Coming(Tail(c), data[r], socket, Head(c), sent, {p \in missing : p > Head(c)},
                   FALSE)
        BY <1>5, <1>7, <3>1, FlowTypes, TakeFlow
      <3> QED BY <2>1, <2>a, <3>2
    <2>4. Before({last'} \cup Elements(Tail(c)), {sent + 1})
      BY <1>5, <1>7, <2>1 DEF Flow, Before
    <2> QED BY <1>2, <2>1, <2>2, <2>3, <2>4 DEF Flow
  <1> QED BY <1>3, <1>4, <1>6, <1>7 DEF ReadElement

\* A clear is a read of everything.
LEMMA ClearStepFlow ==
    ASSUME IInv, Flow, NEW t \in Threads, Clear(t)
    PROVE  Flow'
  <1> DEFINE c == Contents(fifo)
  <1>1. /\ IsFIFO(fifo) /\ Contents(fifo') = <<>> /\ fifo'.overflow = fifo.overflow
        /\ Len(c) = NumElements(fifo)
    BY Cleared, ContentsLength DEF Clear, IInv, TypeOK
  <1>2. UNCHANGED <<data, socket, sent, told>> /\ \A r \in Receivers : Alive(r)' => Alive(r)
    BY ThreadFacts DEF Clear, receiver, device, Over, Goto, At, Home, Alive, IInv, Places
  <1>3. missing' = {p \in missing : p > last'}
    BY DEF Clear
  <1>4. CASE c = <<>>
    <2>1. last' = last
      BY <1>4 DEF Clear
    <2>2. ASSUME NEW r \in Receivers, Alive(r)
          PROVE  Coming(<<>>, data[r], socket, last, sent, missing', fifo.overflow \/ told)
      <3>1. Coming(<<>>, data[r], socket, last, sent, missing, fifo.overflow \/ told)
        BY <1>4, <2>2 DEF Flow
      <3>2. \A p \in last + 1 .. sent : p \in missing => p \in missing'
        BY <1>3, <2>1, FlowTypes
      <3> QED BY <3>1, <3>2 DEF Coming
    <2>3. last' \in Int /\ Before({last'} \cup Elements(<<>>), {sent' + 1})
      BY <1>2, <2>1, FlowTypes, EmptyElements DEF Flow, Before
    <2> QED BY <1>1, <1>2, <2>1, <2>2, <2>3, NewFlow DEF Flow
  <1>5. CASE c # <<>>
    <2>1. last' = c[Len(c)]
      BY <1>1, <1>5 DEF Clear
    <2>2. last' \in Elements(c) /\ last' \in Int
      BY <1>5, <2>1, FlowTypes, LastElement, Numbers DEF Flow, Explained
    <2>a. missing' = {p \in missing : p > c[Len(c)]}
      BY <1>3, <2>1
    <2>3. ASSUME NEW r \in Receivers, Alive(r)
          PROVE  Coming(<<>>, data[r], socket, last', sent, missing', fifo.overflow \/ told)
      BY <1>5, <2>1, <2>a, <2>3, FlowTypes, ClearFlow DEF Flow
    <2>4. Before({last'} \cup Elements(<<>>), {sent' + 1})
      BY <1>2, <2>2, EmptyElements DEF Flow, Before
    <2> QED BY <1>1, <1>2, <2>2, <2>3, <2>4, NewFlow DEF Flow
  <1> QED BY <1>4, <1>5

\* What a receive takes goes to the buffer, or is dropped.
LEMMA SocketFlow ==
    ASSUME IInv, Flow, NEW r \in Receivers, Alive(r), NEW k \in 0 .. Len(socket),
           UNCHANGED <<fifo, last, told, sent>>, socket' = SubSeq(socket, k + 1, Len(socket)),
           \A s \in Receivers : Alive(s)' => s = r,
           \/ missing' = missing /\ data'[r] = data[r] \o SubSeq(socket, 1, k)
           \/ missing' = missing \cup {socket[i] : i \in 1 .. k} /\ data'[r] = data[r]
           \/ missing' = missing \cup {socket[i] : i \in 1 .. k} /\ ~Alive(r)'
    PROVE  Flow'
  <1> DEFINE c == Contents(fifo)
             flag == fifo.overflow \/ told
  <1>1. Coming(c, data[r], socket, last, sent, missing, flag)
    BY DEF Flow
  <1>2. /\ Coming(c, data[r] \o SubSeq(socket, 1, k), socket', last, sent, missing, flag)
        /\ Coming(c, data[r], socket', last, sent, missing \cup {socket[i] : i \in 1 .. k},
                  flag)
    BY <1>1, FlowTypes, ReceiveFlow
  <1>3. Explained(c, last, missing', flag)
    BY DEF Flow, Explained
  <1> QED BY <1>2, <1>3 DEF Flow

\* The three places where a handler takes packets from its socket.
LEMMA ReceiverFlow ==
    ASSUME IInv, Flow, NEW r \in Receivers,
           ReceiveEnds(r) \/ Receive(r) \/ UnlockFIFO(r)
    PROVE  Flow'
  <1>1. /\ Chunk(r) \in 0 .. Len(socket) /\ Received(r) \in 0 .. Len(socket)
        /\ Len(socket) \in Nat /\ Alive(r) /\ \A s \in Receivers : Alive(s) => s = r
    <2>1. Alive(r)
      BY DEF ReceiveEnds, Receive, UnlockFIFO, Receiving, At, Alive
    <2> QED BY <2>1, ChunkRange, FlowTypes DEF IInv, Started
  <1>2. \A s \in Receivers : Alive(s)' => s = r
    BY <1>1, ThreadFacts DEF ReceiveEnds, ThreadEnds, Receive, UnlockFIFO, Goto, Alive, IInv, Places
  <1>3. Truncated(r) => /\ Chunk(r) = 0 /\ Received(r) = 1
                        /\ {socket[i] : i \in 1 .. 1} = {Head(socket)}
    BY FlowTypes DEF Truncated, Received
  <1>4. CASE ReceiveEnds(r)
    <2>1. ~Alive(r)'
      BY <1>4, ThreadFacts DEF ReceiveEnds, ThreadEnds, Goto, Alive, IInv, Places
    <2> QED BY <1>1, <1>2, <1>4, <2>1, SocketFlow DEF ReceiveEnds, SocketAfter
  <1>5. CASE Receive(r) \/ UnlockFIFO(r)
    <2>1. /\ UNCHANGED <<fifo, last, told, sent>>
          /\ socket' = SubSeq(socket, Received(r) + 1, Len(socket))
          /\ missing' = IF Truncated(r) THEN missing \cup {Head(socket)} ELSE missing
      BY <1>5 DEF Receive, UnlockFIFO, driver, SocketAfter
    <2>2. data'[r] = data[r] \o SubSeq(socket, 1, Chunk(r))
      <3>1. CASE Receive(r)
        BY <3>1 DEF Receive, IInv, TypeOK
      <3>2. CASE UnlockFIFO(r)
        <4>1. Chunk(r) = 0 /\ data' = data /\ data[r] \in Seq(Packet) /\ socket \in Seq(Packet)
          BY <3>2, FlowTypes DEF UnlockFIFO, receiver
        <4>2. SubSeq(socket, 1, 0) = <<>>
          BY <4>1, SubSeqEmpty
        <4> QED BY <4>1, <4>2, ConcatEmptySeq
      <3> QED BY <1>5, <3>1, <3>2
    <2>3. CASE Truncated(r)
      <3>1. SubSeq(socket, 1, 0) = <<>> /\ data[r] \o <<>> = data[r]
        BY FlowTypes, SubSeqEmpty, ConcatEmptySeq
      <3>2. data'[r] = data[r]
        BY <1>3, <2>2, <2>3, <3>1
      <3> QED BY <1>1, <1>2, <1>3, <2>1, <2>3, <3>2, SocketFlow
    <2>4. CASE ~Truncated(r)
      <3>1. Received(r) = Chunk(r)
        BY <2>4 DEF Received
      <3> QED BY <1>1, <1>2, <2>1, <2>2, <2>4, <3>1, SocketFlow
    <2> QED BY <2>3, <2>4
  <1> QED BY <1>4, <1>5

\* An insertion moves the first packet of the buffer to the FIFO.
LEMMA InsertStepFlow ==
    ASSUME IInv, IInv', Flow, NEW r \in Receivers, Insert(r)
    PROVE  Flow'
  <1> DEFINE c == Contents(fifo)
             d == data[r]
             flag == fifo.overflow \/ told
  <1>1. /\ UNCHANGED <<socket, sent, last, missing, told>>
        /\ \A s \in Receivers : Alive(s)' => s = r
    BY ThreadFacts DEF Insert, At, Goto, device, history, Alive, IInv, Places, Started
  <1>2. CASE UNCHANGED <<fifo, data>>
    <2>1. \A s \in Receivers : Alive(s)' => Alive(s)
      BY <1>1 DEF Insert, At, Alive
    <2> QED BY <1>1, <1>2, <2>1 DEF Flow
  <1>3. CASE left[r] > 0 /\ data' = [data EXCEPT ![r] = Tail(d)]
             /\ fifo' = InsertFIFO(fifo, Head(d))
    <2>1. /\ d \in Seq(Packet) /\ d # <<>> /\ Head(d) \in Packet /\ fifo.max > 1
          /\ IsFIFO(fifo) /\ Alive(r) /\ data'[r] = Tail(d)
      <3>1. pc[r] = "insert" /\ left[r] \in Nat /\ left[r] <= Len(d) /\ d \in Seq(Packet)
        BY <1>3, ThreadFacts DEF Insert, At, IInv, TypeOK, Buffers
      <3> QED BY <1>3, <3>1, SMTT(30) DEF IInv, Started, Alive, TypeOK
    <2>2. /\ NumElements(fifo) \in Nat /\ NumElements(fifo) <= fifo.max - 1 /\ fifo.max \in Nat
          /\ Len(c) = NumElements(fifo)
      BY <2>1, Count, ContentsLength DEF IsFIFO
    <2>3. Coming(c, d, socket, last, sent, missing, flag) /\ last' < sent' + 1
      <3>1. last < sent + 1 /\ last \in Int /\ sent \in Int
        BY FlowTypes DEF Flow, Before
      <3>2. Coming(c, d, socket, last, sent, missing, flag)
        BY <2>1 DEF Flow
      <3> QED BY <1>1, <3>1, <3>2
    <2>4. CASE NumElements(fifo) < fifo.max - 1
      <3>1. Contents(fifo') = Append(c, Head(d)) /\ (fifo'.overflow \/ told') = flag
        <4>1. /\ Contents(InsertFIFO(fifo, Head(d))) = Append(c, Head(d))
              /\ InsertFIFO(fifo, Head(d)).overflow = fifo.overflow
          BY <2>1, <2>4, Inserted, Zenon
        <4> QED BY <1>1, <1>3, <4>1, Zenon
      <3>2. Coming(Append(c, Head(d)), Tail(d), socket, last, sent, missing, flag)
        BY <2>1, <2>3, FlowTypes, InsertFlow
      <3> QED BY <1>1, <2>1, <2>3, <3>1, <3>2, ComingFlow
    <2>5. CASE NumElements(fifo) = fifo.max - 1
      <3>1. Contents(fifo') = Append(Tail(c), Head(d)) /\ (fifo'.overflow \/ told') = TRUE
        BY <1>1, <1>3, <2>1, <2>5, Inserted
      <3>2. c # <<>>
        BY <2>1, <2>2, <2>5
      <3>3. Coming(Append(Tail(c), Head(d)), Tail(d), socket, last, sent, missing, TRUE)
        BY <2>1, <2>3, <3>2, FlowTypes, InsertFlow
      <3> QED BY <1>1, <2>1, <2>3, <3>1, <3>3, ComingFlow
    <2> QED BY <2>2, <2>4, <2>5
  <1> QED BY <1>2, <1>3 DEF Insert

\* The device sends while its buffers and the socket are as they are.
LEMMA SendStepFlow ==
    ASSUME IInv, Flow, Send
    PROVE  Flow'
  <1> DEFINE flag == fifo.overflow \/ told
  <1>1. /\ sent' = sent + 1 /\ sent + 1 \in Packet /\ sent \in Int /\ last \in Int /\ last <= sent
        /\ UNCHANGED <<fifo, data, last, told>>
        /\ \A r \in Receivers : Alive(r)' => Alive(r)
    <2>1. sent' = sent + 1 /\ UNCHANGED <<fifo, data, last, told, pc>> /\ sent < MaxPackets
      BY DEF Send, driver, receiver
    <2>2. sent \in 0 .. MaxPackets /\ sent \in Int /\ last \in Int
      BY FlowTypes
    <2>3. last < sent + 1
      BY DEF Flow, Before
    <2>4. sent + 1 \in Packet
      BY <2>1, <2>2, PacketAssumption, BoundsAssumption
    <2> QED BY <2>1, <2>2, <2>3, <2>4 DEF Alive
  <1>2. Elements(Contents(fifo)) \subseteq Int
    BY FlowTypes, Numbers
  <1>3. Before({last'} \cup Elements(Contents(fifo')), {sent' + 1})
    BY <1>1, <1>2 DEF Flow, Before
  <1>4. missing \subseteq missing'
    BY DEF Send
  <1>5. Explained(Contents(fifo), last, missing', flag)
    BY <1>4 DEF Flow, Explained
  <1>6. ASSUME NEW r \in Receivers, Alive(r)
        PROVE  Coming(Contents(fifo), data[r], socket', last, sent', missing', flag)
    <2>1. Coming(Contents(fifo), data[r], socket, last, sent, missing, flag)
      BY <1>6 DEF Flow
    <2>2. /\ Coming(Contents(fifo), data[r], Append(socket, sent + 1), last, sent + 1, missing,
                    flag)
          /\ Coming(Contents(fifo), data[r], socket, last, sent + 1, missing \cup {sent + 1},
                    flag)
      BY <1>1, <2>1, FlowTypes, SendFlow
    <2> QED BY <1>1, <2>2 DEF Send
  <1> QED BY <1>1, <1>3, <1>5, <1>6 DEF Flow

LEMMA StepFlow ==
    ASSUME CallbackRule, IInv, Flow, [Next]_vars
    PROVE  Flow'
  <1>1. IInv'
    BY StepIInv
  <1>3. ASSUME NEW t \in Threads,
               \/ SelectSoftRealtime(t) \/ Enable(t)
               \/ SelectStreaming(t) /\ StartThread(t, "strm", "started")
        PROVE  Flow'
    <2>1. t = App /\ (pc[App] = "stopped" \/ ~threadrunning)
      BY <1>3, ProgramOnly DEF SelectSoftRealtime, Enable, SelectStreaming, Stopped, At
    <2> QED BY <1>3, <2>1, StartFlow DEF SelectSoftRealtime, Enable, SelectStreaming
  <1>4. ASSUME NEW t \in Threads, AfterRefusal(t) PROVE Flow'
    <2>1. t = App /\ pc[App] = "stopped"
      BY <1>4, ProgramOnly DEF AfterRefusal, Stopped, At
    <2>2. \A r \in Receivers : ~Alive(r)'
      BY <1>4, <2>1, ThreadFacts DEF AfterRefusal, Return, Over, Goto, Home, IInv, Places,
         Started, Alive
    <2> QED BY <1>4, <2>2 DEF AfterRefusal, history, Flow
  <1>5. ASSUME NEW t \in Threads, ModeStep(t) PROVE Flow'
    <2>1. SelectStreaming(t) => Return(t) \/ StartThread(t, "strm", "started")
      BY DEF SelectStreaming
    <2>2. PICK r : r \in Receivers
      BY ReceiversAssumption
    <2>3. CASE \/ Lock(t) \/ Command(t) \/ SetDataCallback(t) \/ StopReceiver(t)
               \/ NothingToStop(t) \/ Join(t) \/ Relock(t) \/ RequestMaster(t)
               \/ SoftRealtimeSelected(t) \/ SoftRealtimeRefused(t) \/ EnableRefused(t)
               \/ Connect(t) \/ Disable(t) \/ Close(t)
      BY <2>2, <2>3, QuietSteps, QuietFlow
    <2>4. CASE \/ SelectStreaming(t) /\ Return(t)
               \/ SelectFails(t) \/ SelectPolling(t) \/ EnableFails(t)
               \/ TransferOver(t) \/ Closed(t)
      <3>1. t = App /\ (pc[App] = "stopped" \/ ~threadrunning)
        BY <2>4, ProgramOnly DEF SelectFails, SelectStreaming, SelectPolling, EnableFails,
           TransferOver, Closed, Stopped, At
      <3>2. /\ fifo' = DestroyedFIFO \/ fifo' = CreateFIFO(fifosize)
            /\ sent' = sent /\ (last' = last \/ last' = sent)
        BY <2>4 DEF SelectFails, SelectStreaming, SelectPolling, EnableFails, TransferOver,
           Closed, NewSession, history, device
      <3>3. Over(t)
        BY <2>4 DEF SelectFails, SelectPolling, EnableFails, TransferOver, Closed, Return
      <3> QED BY <3>1, <3>2, <3>3, OverFlow
    <2>5. CASE SelectStreaming(t)
      BY <1>3, <2>1, <2>4, <2>5
    <2>6. CASE SelectSoftRealtime(t) \/ Enable(t) \/ AfterRefusal(t)
      BY <1>3, <1>4, <2>6
    <2> QED BY <1>5, <2>3, <2>4, <2>5, <2>6 DEF ModeStep
  <1>6. ASSUME NEW t \in Threads, (\E c \in Calls : Call(t, c)) \/ ReadStep(t) \/ SetFIFOSize
        PROVE  Flow'
    <2>1. PICK r : r \in Receivers
      BY ReceiversAssumption
    <2> QED BY <1>6, <2>1, QuietSteps, QuietFlow, ReadFlow, ClearStepFlow DEF ReadStep
  <1>7. ASSUME NEW r \in Receivers, ReceiverStep(r) PROVE Flow'
    BY <1>1, <1>7, ThreadFacts, QuietSteps, QuietFlow, ReceiverFlow, InsertStepFlow
    DEF ReceiverStep
  <1>8. CASE UNCHANGED vars
    BY <1>8 DEF vars, driver, receiver, device, history, Flow, Alive
  <1> QED BY <1>5, <1>6, <1>7, <1>8, SendStepFlow, ThreadFacts DEF Next

-----------------------------------------------------------------------------
\* The packets stay explained in every behaviour.
THEOREM FlowInvariance ==
    ASSUME CallbackRule
    PROVE  Spec => [](IInv /\ Flow)
  <1>1. Init => Flow
    <2>1. 0 \in Nat /\ 0 # 1
      OBVIOUS
    <2>2. Init => Contents(fifo) = <<>> /\ \A r \in Receivers : ~Alive(r)
      BY <2>1, Created, ThreadFacts DEF Init, DestroyedFIFO, Alive
    <2> QED BY <2>2, NewFlow, EmptyElements DEF Init, Flow, Before
  <1>2. IInv /\ Flow /\ [Next]_vars => IInv' /\ Flow'
    BY StepIInv, StepFlow
  <1> QED BY <1>1, <1>2, InitIInv, PTL DEF Spec

\* A reader meets the packets in order, and each that is missing was lost before
\* the FIFO or its loss was told.
THEOREM NoLossUnnoticed ==
    ASSUME CallbackRule
    PROVE  Spec => NoSilentLoss
  <1>1. IInv /\ Flow => [\A t \in Threads : ReadElement(t) /\ last' # last =>
                           /\ last' > last
                           /\ told \/ \A p \in last + 1 .. last' - 1 : p \in missing]_vars
    <2> SUFFICES ASSUME IInv, Flow, NEW t \in Threads, ReadElement(t), last' # last
                 PROVE  /\ last' > last
                        /\ told \/ \A p \in last + 1 .. last' - 1 : p \in missing
      OBVIOUS
    <2> DEFINE c == Contents(fifo)
    <2>1. NumElements(fifo) > 0 /\ ~fifo.overflow /\ last' = Oldest(fifo)
      BY DEF ReadElement, history
    <2>2. c # <<>> /\ last' = Head(c)
      BY <2>1, Removed DEF IInv, TypeOK
    <2>3. /\ Elements(c) = {Head(c)} \cup Elements(Tail(c)) /\ Head(c) \in Packet
          /\ Before({Head(c)}, Elements(Tail(c))) /\ Tail(c) \in Seq(Packet)
      BY <2>2, FlowTypes, TailElements DEF Flow, Explained
    <2>4. Elements(c) \subseteq Int /\ last \in Int
      BY FlowTypes, Numbers
    <2>5. last' \in Elements(c) /\ last < last'
      BY <2>2, <2>3 DEF Flow, Explained, Before
    <2>6. ASSUME ~told, NEW p \in last + 1 .. last' - 1
          PROVE  p \in missing
      <3>1. p \in last + 1 .. last' /\ p \notin Elements(c)
        BY <2>2, <2>3, <2>4, <2>5 DEF Before
      <3> QED BY <2>1, <2>5, <2>6, <3>1 DEF Flow, Explained
    <2> QED BY <2>4, <2>5, <2>6
  <1> QED BY <1>1, FlowInvariance, PTL DEF NoSilentLoss
=============================================================================
