--------------------------- MODULE EibFifo_proofs ---------------------------
(***************************************************************************)
(* What the operations of the ring do to the packets in it, for a ring of  *)
(* any size: an insertion appends, to a full ring after dropping the       *)
(* oldest, a removal takes the oldest, and no index leaves the ring.       *)
(***************************************************************************)
EXTENDS EibFifo, SequenceTheorems, TLAPS

\* A ring holds at most one packet less than it has slots, and none without slots.
LEMMA Count ==
    ASSUME NEW f, IsFIFO(f)
    PROVE  /\ NumElements(f) \in Nat
           /\ f.max > 0 => NumElements(f) <= f.max - 1
           /\ NumElements(f) > 0 => f.max > 1 /\ f.start \in 0 .. f.max - 1
  BY DEF IsFIFO, NumElements, DestroyedFIFO, CreateFIFO

\* The contents are a sequence of as many elements.
LEMMA ContentsLength ==
    ASSUME NEW f, IsFIFO(f)
    PROVE  /\ Len(Contents(f)) = NumElements(f)
           /\ Contents(f) \in Seq(Packet \cup {NoPacket})
           /\ \A i \in 1 .. NumElements(f) : Contents(f)[i] = f.data[Place(f, i - 1)]
  <1>1. NumElements(f) \in Nat
    BY Count
  <1>2. \A i \in 1 .. NumElements(f) : f.data[Place(f, i - 1)] \in Packet \cup {NoPacket}
    <2> SUFFICES ASSUME NEW i \in 1 .. NumElements(f)
                 PROVE  f.data[Place(f, i - 1)] \in Packet \cup {NoPacket}
      OBVIOUS
    <2>a. /\ NumElements(f) \in Nat /\ NumElements(f) <= f.max - 1
          /\ f.max \in Nat /\ f.start \in 0 .. f.max - 1
      BY Count DEF IsFIFO
    <2>1. Place(f, i - 1) \in 0 .. f.max - 1
      BY <2>a DEF Place
    <2> QED BY <2>1 DEF IsFIFO
  <1> QED BY <1>1, <1>2, IsASeq DEF Contents

\* A new FIFO, and one that was destroyed.
LEMMA Created ==
    ASSUME NEW max \in Nat, max # 1
    PROVE  /\ IsFIFO(CreateFIFO(max)) /\ CreateFIFO(max).max = max
           /\ Contents(CreateFIFO(max)) = <<>> /\ CreateFIFO(max).overflow = FALSE
  <1>1. IsFIFO(CreateFIFO(max))
    BY DEF IsFIFO, CreateFIFO, DestroyedFIFO
  <1>2. NumElements(CreateFIFO(max)) = 0
    BY DEF NumElements, CreateFIFO
  <1> QED BY <1>1, <1>2, ContentsLength, EmptySeq DEF CreateFIFO

LEMMA Cleared ==
    ASSUME NEW f, IsFIFO(f)
    PROVE  /\ IsFIFO(ClearFIFO(f)) /\ ClearFIFO(f).max = f.max
           /\ Contents(ClearFIFO(f)) = <<>> /\ ClearFIFO(f).overflow = f.overflow
  <1>1. /\ IsFIFO(ClearFIFO(f)) /\ ClearFIFO(f).max = f.max
        /\ ClearFIFO(f).overflow = f.overflow
    BY DEF IsFIFO, ClearFIFO, DestroyedFIFO, CreateFIFO
  <1>2. NumElements(ClearFIFO(f)) = 0
    BY <1>1 DEF NumElements, ClearFIFO, IsFIFO
  <1> QED BY <1>1, <1>2, ContentsLength, EmptySeq

\* Telling the reader of a loss leaves the packets.
LEMMA ReportedFlag ==
    ASSUME NEW f, IsFIFO(f)
    PROVE  /\ IsFIFO(Reported(f)) /\ Reported(f).max = f.max
           /\ Contents(Reported(f)) = Contents(f) /\ Reported(f).overflow = FALSE
  <1>1. IsFIFO(Reported(f))
    BY DEF IsFIFO, Reported, DestroyedFIFO, CreateFIFO
  <1>2. NumElements(Reported(f)) = NumElements(f)
    BY DEF NumElements, Reported, IsFIFO
  <1> QED BY <1>1, <1>2 DEF Reported, IsFIFO, Contents, Place

\* A FIFO stays one when its fields stay in their ranges.
LEMMA Fields ==
    ASSUME NEW f, NEW D, NEW m \in Nat, NEW s \in Nat, NEW e \in Nat, NEW o \in BOOLEAN,
           NEW i \in 0 .. m - 1, NEW p \in D,
           f \in [data : [0 .. m - 1 -> D], max : {m}, start : Nat, end : Nat,
                 overflow : BOOLEAN]
    PROVE  [f EXCEPT !.data[i] = p, !.end = e, !.overflow = o, !.start = s]
             \in [data : [0 .. m - 1 -> D], max : {m}, start : Nat, end : Nat,
                 overflow : BOOLEAN]
  OBVIOUS

\* The packet is put at the end; a full ring gives up its oldest.
LEMMA Inserted ==
    ASSUME NEW f, IsFIFO(f), f.max > 1, NEW p \in Packet
    PROVE  /\ IsFIFO(InsertFIFO(f, p)) /\ InsertFIFO(f, p).max = f.max
           /\ NumElements(f) < f.max - 1 =>
                /\ Contents(InsertFIFO(f, p)) = Append(Contents(f), p)
                /\ InsertFIFO(f, p).overflow = f.overflow
           /\ NumElements(f) = f.max - 1 =>
                /\ Contents(InsertFIFO(f, p)) = Append(Tail(Contents(f)), p)
                /\ InsertFIFO(f, p).overflow = TRUE
  <1> DEFINE g == InsertFIFO(f, p)
             n == NumElements(f)
             full == n = f.max - 1
  <1>1. /\ n \in Nat /\ n <= f.max - 1 /\ f.max \in Nat
        /\ f.start \in 0 .. f.max - 1 /\ f.end \in 0 .. f.max - 1
    BY Count DEF IsFIFO
  <1>2. /\ Wrapped(f, f.end) \in 0 .. f.max - 1 /\ Wrapped(f, f.start) \in 0 .. f.max - 1
        /\ full <=> Wrapped(f, f.end) = f.start
    BY <1>1 DEF Wrapped, NumElements
  <1>3. /\ g.max = f.max /\ g.end = Wrapped(f, f.end)
        /\ g.start = IF full THEN Wrapped(f, f.start) ELSE f.start
        /\ g.overflow = (f.overflow \/ full)
        /\ g.data = [f.data EXCEPT ![f.end] = p]
    BY <1>2 DEF InsertFIFO, IsFIFO
  <1>4. IsFIFO(g)
    <2>1. g.data \in [0 .. g.max - 1 -> Packet \cup {NoPacket}]
      BY <1>1, <1>3 DEF IsFIFO
    <2>2. g.start \in 0 .. g.max - 1 /\ g.end \in 0 .. g.max - 1 /\ g.overflow \in BOOLEAN
      BY <1>1, <1>2, <1>3 DEF IsFIFO
    <2>3. g \in [data : [0 .. f.max - 1 -> Packet \cup {NoPacket}], max : {f.max},
                start : Nat, end : Nat, overflow : BOOLEAN]
      <3>1. g = [f EXCEPT !.data[f.end] = p, !.end = g.end, !.overflow = g.overflow,
                          !.start = g.start]
        BY <1>2, <1>3 DEF InsertFIFO
      <3>2. g.start \in Nat /\ g.end \in Nat
        BY <1>1, <1>3, <2>2
      <3>3. /\ f \in [data : [0 .. f.max - 1 -> Packet \cup {NoPacket}], max : {f.max},
                       start : Nat, end : Nat, overflow : BOOLEAN]
            /\ f.max \in Nat /\ f.end \in 0 .. f.max - 1 /\ p \in Packet \cup {NoPacket}
        BY <1>1 DEF IsFIFO
      <3> HIDE DEF g
      <3>4. g.overflow \in BOOLEAN
        BY <2>2
      <3>5. [f EXCEPT !.data[f.end] = p, !.end = g.end, !.overflow = g.overflow,
                     !.start = g.start]
              \in [data : [0 .. f.max - 1 -> Packet \cup {NoPacket}], max : {f.max},
                  start : Nat, end : Nat, overflow : BOOLEAN]
        BY ONLY <3>2, <3>3, <3>4, Fields
      <3> QED BY <3>1, <3>5
    <2> QED BY <1>1, <1>3, <2>2, <2>3 DEF IsFIFO
  <1>5. NumElements(g) = IF full THEN n ELSE n + 1
    BY <1>1, <1>2, <1>3 DEF NumElements, Wrapped
  <1>6. /\ Contents(f) \in Seq(Packet \cup {NoPacket}) /\ Len(Contents(f)) = n
        /\ Contents(g) \in Seq(Packet \cup {NoPacket}) /\ Len(Contents(g)) = NumElements(g)
        /\ \A i \in 1 .. n : Contents(f)[i] = f.data[Place(f, i - 1)]
        /\ \A i \in 1 .. NumElements(g) : Contents(g)[i] = g.data[Place(g, i - 1)]
    BY <1>4, ContentsLength
  <1>7. /\ Place(f, n) = f.end
        /\ \A i \in 0 .. n - 1 : Place(f, i) \in 0 .. f.max - 1 /\ Place(f, i) # f.end
    BY <1>1 DEF Place, NumElements
  <1>8. \A j \in 0 .. f.max - 1 : g.data[j] = IF j = f.end THEN p ELSE f.data[j]
    BY <1>3 DEF IsFIFO
  <1>9. ~full => Contents(g) = Append(Contents(f), p)
    <2> SUFFICES ASSUME ~full PROVE Contents(g) = Append(Contents(f), p)
      OBVIOUS
    <2>1. \A i \in 1 .. n + 1 : Place(g, i - 1) = Place(f, i - 1)
      BY <1>3 DEF Place
    <2>2. /\ Append(Contents(f), p) \in Seq(Packet \cup {NoPacket})
          /\ Len(Append(Contents(f), p)) = n + 1
          /\ \A i \in 1 .. n : Append(Contents(f), p)[i] = Contents(f)[i]
          /\ Append(Contents(f), p)[n + 1] = p
      BY <1>6, <1>1, AppendProperties
    <2>3. \A i \in 1 .. n + 1 : Contents(g)[i] = Append(Contents(f), p)[i]
      <3> SUFFICES ASSUME NEW i \in 1 .. n + 1
                   PROVE  Contents(g)[i] = Append(Contents(f), p)[i]
        OBVIOUS
      <3>1. Contents(g)[i] = g.data[Place(f, i - 1)]
        BY <1>1, <1>5, <1>6, <2>1
      <3>a. i = n + 1 \/ (i \in 1 .. n /\ i - 1 \in 0 .. n - 1)
        BY <1>1
      <3>2. CASE i = n + 1
        BY <3>1, <3>2, <1>1, <1>7, <1>8, <2>2
      <3>3. CASE i \in 1 .. n
        <4>1. Contents(g)[i] = f.data[Place(f, i - 1)]
          BY <3>1, <3>3, <3>a, <1>1, <1>7, <1>8
        <4> QED BY <4>1, <3>3, <1>6, <2>2
      <3> QED BY <3>2, <3>3, <3>a
    <2> QED BY <1>1, <1>5, <1>6, <2>2, <2>3, SeqEqual
  <1>10. full => Contents(g) = Append(Tail(Contents(f)), p)
    <2> SUFFICES ASSUME full PROVE Contents(g) = Append(Tail(Contents(f)), p)
      OBVIOUS
    <2> DEFINE t == Tail(Contents(f))
    <2>a. g.start = Wrapped(f, f.start) /\ g.max = f.max
      BY <1>3
    <2>1. \A i \in 1 .. n : Place(g, i - 1) = Place(f, i)
      BY <1>1, <2>a DEF Place, Wrapped
    <2>2. /\ t \in Seq(Packet \cup {NoPacket}) /\ Len(t) = n - 1
          /\ \A i \in 1 .. n - 1 : t[i] = Contents(f)[i + 1]
      <3>1. Contents(f) # <<>>
        BY <1>1, <1>6
      <3> QED BY <3>1, <1>1, <1>6, HeadTailProperties
    <2>3. /\ Append(t, p) \in Seq(Packet \cup {NoPacket}) /\ Len(Append(t, p)) = n
          /\ \A i \in 1 .. n - 1 : Append(t, p)[i] = t[i]
          /\ Append(t, p)[n] = p
      BY <2>2, <1>1, AppendProperties
    <2>4. \A i \in 1 .. n : Contents(g)[i] = Append(t, p)[i]
      <3> SUFFICES ASSUME NEW i \in 1 .. n PROVE Contents(g)[i] = Append(t, p)[i]
        OBVIOUS
      <3>1. Contents(g)[i] = g.data[Place(f, i)]
        BY <1>1, <1>5, <1>6, <2>1
      <3>a. i = n \/ i \in 1 .. n - 1
        BY <1>1
      <3>2. CASE i = n
        BY <3>1, <3>2, <1>1, <1>7, <1>8, <2>3
      <3>3. CASE i \in 1 .. n - 1
        <4>1. Contents(g)[i] = f.data[Place(f, i)]
          BY <3>1, <3>3, <1>1, <1>7, <1>8
        <4>2. i + 1 \in 1 .. n /\ (i + 1) - 1 = i
          BY <3>3, <1>1
        <4>3. Contents(f)[i + 1] = f.data[Place(f, i)]
          BY <4>2, <1>6
        <4> QED BY <4>1, <4>3, <3>3, <2>2, <2>3
      <3> QED BY <3>2, <3>3, <3>a
    <2> QED BY <1>1, <1>5, <1>6, <2>3, <2>4, SeqEqual
  <1> QED BY <1>1, <1>3, <1>4, <1>9, <1>10 DEF IsFIFO

\* What a reader takes is the head of the contents, and the tail remains.
LEMMA Removed ==
    ASSUME NEW f, IsFIFO(f), NumElements(f) > 0
    PROVE  /\ IsFIFO(RemoveElementFIFO(f)) /\ RemoveElementFIFO(f).max = f.max
           /\ RemoveElementFIFO(f).overflow = f.overflow
           /\ Contents(f) # <<>> /\ Oldest(f) = Head(Contents(f))
           /\ Contents(RemoveElementFIFO(f)) = Tail(Contents(f))
  <1> DEFINE g == RemoveElementFIFO(f)
             n == NumElements(f)
             t == Tail(Contents(f))
  <1>1. /\ n \in Nat /\ n > 0 /\ n <= f.max - 1 /\ f.max \in Nat
        /\ f.start \in 0 .. f.max - 1 /\ f.end \in 0 .. f.max - 1
    BY Count DEF IsFIFO
  <1>2. /\ g.max = f.max /\ g.end = f.end /\ g.start = Wrapped(f, f.start)
        /\ g.overflow = f.overflow /\ g.data = f.data
    BY DEF RemoveElementFIFO, IsFIFO
  <1>3. Wrapped(f, f.start) \in 0 .. f.max - 1
    BY <1>1 DEF Wrapped
  <1>4. IsFIFO(g)
    BY <1>1, <1>2, <1>3 DEF RemoveElementFIFO, IsFIFO
  <1>5. NumElements(g) = n - 1
    BY <1>1, <1>2, <1>3 DEF NumElements, Wrapped
  <1>6. /\ Contents(f) \in Seq(Packet \cup {NoPacket}) /\ Len(Contents(f)) = n
        /\ Contents(g) \in Seq(Packet \cup {NoPacket}) /\ Len(Contents(g)) = n - 1
        /\ \A i \in 1 .. n : Contents(f)[i] = f.data[Place(f, i - 1)]
        /\ \A i \in 1 .. n - 1 : Contents(g)[i] = g.data[Place(g, i - 1)]
    BY <1>4, <1>5, ContentsLength
  <1>7. Contents(f) # <<>>
    BY <1>1, <1>6
  <1>8. /\ t \in Seq(Packet \cup {NoPacket}) /\ Len(t) = n - 1
        /\ \A i \in 1 .. n - 1 : t[i] = Contents(f)[i + 1]
    BY <1>1, <1>6, <1>7, HeadTailProperties
  <1>9. \A i \in 1 .. n - 1 : Contents(g)[i] = t[i]
    <2> SUFFICES ASSUME NEW i \in 1 .. n - 1 PROVE Contents(g)[i] = t[i]
      OBVIOUS
    <2>1. Place(g, i - 1) = Place(f, i)
      BY <1>1, <1>2 DEF Place, Wrapped
    <2>2. i + 1 \in 1 .. n /\ (i + 1) - 1 = i
      BY <1>1
    <2> QED BY <2>1, <2>2, <1>2, <1>6, <1>8
  <1>10. Contents(g) = t
    BY <1>1, <1>6, <1>8, <1>9, SeqEqual
  <1>11. Oldest(f) = Head(Contents(f))
    <2>1. Place(f, 1 - 1) = f.start /\ 1 \in 1 .. n
      BY <1>1 DEF Place
    <2>2. Contents(f)[1] = f.data[f.start]
      BY <2>1, <1>6
    <2> QED BY <2>2, <1>6, <1>7, HeadTailProperties DEF Oldest
  <1> QED BY <1>2, <1>4, <1>7, <1>10, <1>11
=============================================================================
