--------------------------- MODULE EibDriver_proofs ---------------------------
(***************************************************************************)
(* The threads and the FIFO of the driver for every number of receivers,   *)
(* of packets and every size of FIFO and buffers: there is one receiver at *)
(* a time, it has a FIFO, and for its readers the ring is a queue.         *)
(*                                                                         *)
(* All of it holds as long as the callback does not end the receiver that  *)
(* it runs on.  The argument follows the ends of the receivers: the        *)
(* program waits for the one that it started (`thread'), and between the   *)
(* join and the start of the next one there is none, hence nobody to meet  *)
(* the FIFO that is replaced without its lock.                             *)
(***************************************************************************)
EXTENDS EibDriver, EibFifo_proofs, FiniteSetTheorems

\* The callback does not end the transfer of recorded data.
CallbackRule == "disable" \notin CallbackCalls

ProgramPlaces ==
    {"idle", "stop", "join", "relock", "stopped", "srtCommand", "started", "connect",
     "lock", "read", "element", "clear"} \cup LockedCalls
CallbackPlaces ==
    {"lock", "command", "setCallback", "enable", "read", "element", "clear"}
ReceiverPlaces ==
    {"dead", "wait", "lockFIFO", "flush", "receive", "insert", "callback"} \cup CallbackPlaces

\* Where the threads can be: no receiver ends another or selects a mode.
Places ==
    /\ pc \in [Threads -> ProgramPlaces \cup ReceiverPlaces]
    /\ pc[App] \in ProgramPlaces
    /\ \A r \in Receivers : pc[r] \in ReceiverPlaces
    /\ \A t \in Threads : pc[t] = "lock" => after[t] \in LockedCalls
    /\ \A r \in Receivers : pc[r] = "lock" => after[r] \in CallbackPlaces

\* The one receiver is the one that the program started and will wait for.
Started ==
    /\ \A r \in Receivers : Alive(r) => thread = r /\ threadrunning /\ fifo.max > 1
    /\ pc[App] \in {"relock", "stopped"} => \A r \in Receivers : ~Alive(r)

\* A handler inserts what it has.
Buffers ==
    \A r \in Receivers : /\ pc[r] = "flush" => data[r] # <<>>
                         /\ pc[r] = "insert" => left[r] <= Len(data[r])

Stored == Contents(fifo) \in Seq(Packet)

\* The type invariant in parts.
DriverOK ==
    /\ open \in BOOLEAN /\ threadlock \in Threads \cup {Nobody}
    /\ fifolock \in Threads \cup {Nobody}
    /\ threadendflag \in BOOLEAN /\ threadrunning \in BOOLEAN
    /\ threadtype \in {"none", "srt", "strm", "rec"} /\ thread \in Threads
    /\ master \in BOOLEAN /\ IsFIFO(fifo) /\ fifosize \in Sizes /\ callback \in BOOLEAN
CallsOK ==
    /\ after \in [Threads -> Calls \cup {"none", "srtRefused", "connectFailed"}]
    /\ left \in [Threads -> Nat] /\ was_master \in BOOLEAN
ReceiversOK ==
    /\ kind \in [Receivers -> {"none", "srt", "strm", "rec"}]
    /\ data \in [Receivers -> Seq(Packet)]
    /\ \A r \in Receivers : Len(data[r]) <= BufferSize
    /\ num \in [Receivers -> Nat]
DeviceOK ==
    /\ transfer \in {"none", "srt", "strm", "rec"} /\ sent \in 0 .. MaxPackets
    /\ socket \in Seq(Packet) /\ last \in 0 .. MaxPackets
    /\ missing \subseteq Packet /\ told \in BOOLEAN

IInv == TypeOK /\ Places /\ Started /\ Buffers /\ Stored

-----------------------------------------------------------------------------
LEMMA ThreadFacts ==
    /\ App \in Threads /\ Receivers \subseteq Threads /\ App \notin Receivers
    /\ Nobody \notin Threads /\ \A t \in Threads : t = App \/ t \in Receivers
  BY ReceiversAssumption DEF App, Threads, Nobody

LEMMA PacketFacts == \A p \in Packet : p \in Nat \ {0} /\ p <= MaxPackets
  BY PacketAssumption, BoundsAssumption

\* What a step may do to the FIFO.
FifoChange ==
    \/ fifo' = fifo
    \/ fifo' = DestroyedFIFO \/ fifo' = CreateFIFO(fifosize)
    \/ fifo.max > 1 /\ \E p \in Packet : fifo' = InsertFIFO(fifo, p)
    \/ NumElements(fifo) > 0 /\ ~fifo.overflow /\ fifo' = RemoveElementFIFO(fifo)
    \/ NumElements(fifo) > 0 /\ fifo.overflow /\ fifo' \in {RetrieveFIFO(fifo), Reported(fifo)}
    \/ fifo' = ClearFIFO(fifo)

LEMMA FifoSteps ==
    ASSUME IInv, Next
    PROVE  FifoChange
  <1> USE DEF FifoChange
  <1>1. ASSUME NEW t \in Threads, NEW c \in Calls, Call(t, c) PROVE FifoChange
    BY <1>1
    DEF Call, At, Home, LockedCalls, SelectCalls, Goto, driver, receiver, device,
       history
  <1>2. ASSUME NEW t \in Threads, Lock(t) PROVE FifoChange
    BY <1>2
    DEF Lock, At, Nobody, Goto, receiver, device, history
  <1>3. ASSUME NEW t \in Threads, Command(t) PROVE FifoChange
    BY <1>3
    DEF Command, At, Return, Over, Goto, Home, Nobody, receiver, device, history
  <1>4. ASSUME NEW t \in Threads, SetDataCallback(t) PROVE FifoChange
    BY <1>4
    DEF SetDataCallback, At, Return, Over, Goto, Home, Nobody, receiver, device, history
  <1>5. ASSUME NEW t \in Threads, StopReceiver(t) PROVE FifoChange
    BY <1>5
    DEF StopReceiver, At, Goto, Nobody, receiver, device, history
  <1>6. ASSUME NEW t \in Threads, NothingToStop(t) PROVE FifoChange
    BY <1>6
    DEF NothingToStop, At, Goto, driver, receiver, device, history
  <1>7. ASSUME NEW t \in Threads, Join(t) PROVE FifoChange
    BY <1>7
    DEF Join, At, Alive, Goto, driver, receiver, device, history
  <1>8. ASSUME NEW t \in Threads, Relock(t) PROVE FifoChange
    BY <1>8
    DEF Relock, At, Nobody, Goto, receiver, device, history
  <1>9. ASSUME NEW t \in Threads, RequestMaster(t) PROVE FifoChange
    BY <1>9
    DEF RequestMaster, SelectCalls, Goto, Return, Over, Home, Nobody, receiver, device,
       history
  <1>10. ASSUME NEW t \in Threads, SelectFails(t) PROVE FifoChange
    BY <1>10
    DEF SelectFails, Stopped, At, history, NewSession, Return, Over, Goto, Home, Nobody,
       NoThread
  <1>11. ASSUME NEW t \in Threads, SelectSoftRealtime(t) PROVE FifoChange
    BY <1>11
    DEF SelectSoftRealtime, Stopped, At, NewSession, StartThread, Alive
  <1>12. ASSUME NEW t \in Threads, SoftRealtimeSelected(t) PROVE FifoChange
    BY <1>12
    DEF SoftRealtimeSelected, At, Return, Over, Goto, Home, Nobody, receiver, history
  <1>13. ASSUME NEW t \in Threads, SoftRealtimeRefused(t) PROVE FifoChange
    BY <1>13
    DEF SoftRealtimeRefused, At, ReleaseUnlessMaster, Goto, Nobody, receiver, device,
       history
  <1>14. ASSUME NEW t \in Threads, AfterRefusal(t) PROVE FifoChange
    BY <1>14
    DEF AfterRefusal, Stopped, At, Return, Over, Goto, Home, Nobody, receiver, history
  <1>15. ASSUME NEW t \in Threads, SelectStreaming(t) PROVE FifoChange
    BY <1>15
    DEF SelectStreaming, Stopped, At, NewSession, ReleaseUnlessMaster, Return, Over,
       Goto, Home, Nobody, NoThread, StartThread, Alive
  <1>16. ASSUME NEW t \in Threads, SelectPolling(t) PROVE FifoChange
    BY <1>16
    DEF SelectPolling, Stopped, At, Return, Over, Goto, Home, Nobody,
       ReleaseUnlessMaster, receiver, history
  <1>17. ASSUME NEW t \in Threads, EnableRefused(t) PROVE FifoChange
    BY <1>17
    DEF EnableRefused, At, Return, Over, Goto, Home, Nobody, receiver, device, history
  <1>18. ASSUME NEW t \in Threads, EnableFails(t) PROVE FifoChange
    BY <1>18
    DEF EnableFails, At, Return, Over, Goto, Home, Nobody, NoThread, device, history
  <1>19. ASSUME NEW t \in Threads, Enable(t) PROVE FifoChange
    BY <1>19
    DEF Enable, At, NewSession, StartThread, Alive
  <1>20. ASSUME NEW t \in Threads, Connect(t) PROVE FifoChange
    BY <1>20
    DEF Connect, At, Return, Over, Goto, Home, Nobody, receiver, history
  <1>21. ASSUME NEW t \in Threads, Disable(t) PROVE FifoChange
    BY <1>21
    DEF Disable, At, Return, Over, Goto, Home, Nobody, receiver, history
  <1>22. ASSUME NEW t \in Threads, TransferOver(t) PROVE FifoChange
    BY <1>22
    DEF TransferOver, Stopped, At, Return, Over, Goto, Home, Nobody, receiver, history
  <1>23. ASSUME NEW t \in Threads, Close(t) PROVE FifoChange
    BY <1>23
    DEF Close, At, Goto, driver, receiver, device, history
  <1>24. ASSUME NEW t \in Threads, Closed(t) PROVE FifoChange
    BY <1>24
    DEF Closed, Stopped, At, Return, Over, Goto, Home, Nobody, receiver, history
  <1>25. ASSUME NEW t \in Threads, ReadTimesOut(t) PROVE FifoChange
    BY <1>25
    DEF ReadTimesOut, At, Nobody, Over, Goto, Home, driver, receiver, device, history
  <1>26. ASSUME NEW t \in Threads, ReadStarts(t) PROVE FifoChange
    BY <1>26
    DEF ReadStarts, At, Nobody, Goto, Min2, receiver, device, history
  <1>27. ASSUME NEW t \in Threads, ReadElement(t) PROVE FifoChange
    BY <1>27
    DEF ReadElement, At, Unlock, Over, Goto, Home, Nobody, history, receiver, device
  <1>28. ASSUME NEW t \in Threads, Clear(t) PROVE FifoChange
    BY <1>28
    DEF Clear, At, Nobody, Over, Goto, Home, receiver, device
  <1>29. ASSUME NEW r \in Receivers, ReceiverEnds(r) PROVE FifoChange
    BY <1>29
    DEF ReceiverEnds, At, ThreadEnds, Goto, driver, device, history
  <1>30. ASSUME NEW r \in Receivers, DataArrived(r) PROVE FifoChange
    BY <1>30
    DEF DataArrived, At, Goto, driver, device, history
  <1>31. ASSUME NEW r \in Receivers, LockFIFO(r) PROVE FifoChange
    BY <1>31
    DEF LockFIFO, At, Nobody, Goto, receiver, device, history
  <1>32. ASSUME NEW r \in Receivers, ReceiveEnds(r) PROVE FifoChange
    BY <1>32
    DEF ReceiveEnds, Receiving, At, Chunk, Min2, Nobody, ThreadEnds, Goto, SocketAfter,
       Received, Truncated
  <1>33. ASSUME NEW r \in Receivers, Receive(r) PROVE FifoChange
    BY <1>33
    DEF Receive, Receiving, At, Chunk, Min2, Goto, SocketAfter, Received, Truncated,
       driver
  <1>34. ASSUME NEW r \in Receivers, Insert(r) PROVE FifoChange
    <2>1. CASE fifo' = fifo
      BY <2>1
    <2>2. CASE left[r] > 0
      <3>1. data[r] \in Seq(Packet) /\ Len(data[r]) > 0 /\ pc[r] = "insert"
        BY <1>34, <2>2, ThreadFacts DEF Insert, At, IInv, TypeOK, Buffers
      <3>2. Head(data[r]) \in Packet /\ fifo.max > 1
        BY <3>1 DEF IInv, Started, Alive
      <3> QED BY <1>34, <2>2, <3>2 DEF Insert
    <2> QED BY <1>34, <2>1, <2>2 DEF Insert
  <1>35. ASSUME NEW r \in Receivers, UnlockFIFO(r) PROVE FifoChange
    BY <1>35
    DEF UnlockFIFO, At, Chunk, Min2, Nobody, SocketAfter, Received, Truncated, Goto,
       receiver
  <1>36. ASSUME NEW r \in Receivers, CallbackReturns(r) PROVE FifoChange
    BY <1>36
    DEF CallbackReturns, At, Goto, driver, device, history
  <1>37. ASSUME SetFIFOSize PROVE FifoChange
    BY <1>37
    DEF SetFIFOSize, At, receiver, device, history
  <1>38. ASSUME Send PROVE FifoChange
    BY <1>38
    DEF Send, driver, receiver
  <1> QED BY <1>1, <1>2, <1>3, <1>4, <1>5, <1>6, <1>7, <1>8, <1>9, <1>10, <1>11, <1>12,
       <1>13, <1>14, <1>15, <1>16, <1>17, <1>18, <1>19, <1>20, <1>21, <1>22, <1>23,
       <1>24, <1>25, <1>26, <1>27, <1>28, <1>29, <1>30, <1>31, <1>32, <1>33, <1>34,
       <1>35, <1>36, <1>37, <1>38
    DEF Next, ModeStep, ReadStep, ReceiverStep

LEMMA StepStored ==
    ASSUME IInv, Next
    PROVE  IsFIFO(fifo') /\ Stored'
  <1>1. IsFIFO(fifo) /\ Contents(fifo) \in Seq(Packet) /\ fifosize \in Nat \ {0, 1}
    BY SizesAssumption DEF IInv, TypeOK, Stored
  <1>2. CASE fifo' = fifo
    BY <1>1, <1>2 DEF Stored
  <1>3. CASE fifo' = DestroyedFIFO \/ fifo' = CreateFIFO(fifosize)
    <2>1. IsFIFO(fifo') /\ Contents(fifo') = <<>>
      <3>1. 0 \in Nat /\ 0 # 1 /\ fifosize \in Nat /\ fifosize # 1
        BY <1>1
      <3> QED BY <1>3, <3>1, Created DEF DestroyedFIFO
    <2> QED BY <2>1, EmptySeq DEF Stored
  <1>4. ASSUME fifo.max > 1, NEW p \in Packet, fifo' = InsertFIFO(fifo, p)
        PROVE  IsFIFO(fifo') /\ Stored'
    <2>1. IsFIFO(fifo')
      BY <1>1, <1>4, Inserted
    <2>2. NumElements(fifo) \in Nat /\ NumElements(fifo) <= fifo.max - 1 /\ fifo.max \in Nat
      BY <1>1, <1>4, Count DEF IsFIFO
    <2>3. CASE NumElements(fifo) < fifo.max - 1
      <3>1. Contents(fifo') = Append(Contents(fifo), p)
        BY <1>1, <1>4, <2>3, Inserted
      <3> QED BY <1>1, <1>4, <2>1, <3>1, AppendProperties DEF Stored
    <2>4. CASE NumElements(fifo) = fifo.max - 1
      <3>1. Contents(fifo) # <<>>
        BY <1>1, <1>4, <2>2, <2>4, ContentsLength
      <3>2. Tail(Contents(fifo)) \in Seq(Packet)
        BY <1>1, <3>1, HeadTailProperties
      <3>3. Contents(fifo') = Append(Tail(Contents(fifo)), p)
        BY <1>1, <1>4, <2>4, Inserted
      <3> QED BY <2>1, <3>2, <3>3, AppendProperties DEF Stored
    <2> QED BY <2>2, <2>3, <2>4
  <1>5. CASE NumElements(fifo) > 0 /\ fifo' = RemoveElementFIFO(fifo)
    BY <1>1, <1>5, Removed, HeadTailProperties DEF Stored
  <1>6. CASE NumElements(fifo) > 0 /\ fifo' = RetrieveFIFO(fifo)
    <2>1. /\ IsFIFO(RemoveElementFIFO(fifo))
          /\ Contents(RemoveElementFIFO(fifo)) \in Seq(Packet)
      BY <1>1, <1>6, Removed, HeadTailProperties
    <2> QED BY <1>6, <2>1, ReportedFlag DEF RetrieveFIFO, Stored
  <1>7. CASE fifo' = Reported(fifo)
    BY <1>1, <1>7, ReportedFlag DEF Stored
  <1>8. CASE fifo' = ClearFIFO(fifo)
    BY <1>1, <1>8, Cleared, EmptySeq DEF Stored
  <1> QED BY <1>2, <1>3, <1>4, <1>5, <1>6, <1>7, <1>8, FifoSteps DEF FifoChange

\* A thread that moves to a place of its own keeps the places.
LEMMA Moved ==
    ASSUME IInv, NEW t \in Threads, NEW x, pc' = [pc EXCEPT ![t] = x],
           t = App => x \in ProgramPlaces, t \in Receivers => x \in ReceiverPlaces,
           \A s \in Threads \ {t} : after'[s] = after[s],
           x = "lock" => /\ after'[t] \in LockedCalls
                         /\ t \in Receivers => after'[t] \in CallbackPlaces
    PROVE  Places'
  BY ThreadFacts DEF IInv, Places

\* Only the program is where a mode changes or a receiver is started.
LEMMA ProgramOnly ==
    ASSUME IInv, NEW t \in Threads,
           \/ pc[t] \in {"stop", "join", "relock", "stopped", "srtCommand", "started",
                         "connect", "disable", "close"} \cup SelectCalls
           \/ pc[t] = "enable" /\ ~threadrunning
    PROVE  t = App
  BY ThreadFacts DEF IInv, Places, ReceiverPlaces, CallbackPlaces, Started, Alive, SelectCalls

\* The start of a receiver where there is none.
LEMMA ThreadStarted ==
    ASSUME IInv, NEW k, NEW to \in {"srtCommand", "started", "connect"},
           StartThread(App, k, to), after' = after, fifo'.max > 1,
           pc[App] = "stopped" \/ ~threadrunning
    PROVE  Places' /\ Started' /\ Buffers'
  <1> PICK r \in Receivers :
          /\ pc' = [pc EXCEPT ![r] = "wait", ![App] = to]
          /\ thread' = r /\ threadrunning' = TRUE
          /\ data' = [data EXCEPT ![r] = <<>>]
    BY DEF StartThread
  <1>1. \A s \in Receivers : ~Alive(s)
    BY DEF IInv, Started
  <1>2. /\ pc'[App] = to /\ pc'[r] = "wait"
        /\ \A s \in Receivers \ {r} : pc'[s] = pc[s] /\ pc[s] = "dead"
        /\ pc' \in [Threads -> ProgramPlaces \cup ReceiverPlaces]
    BY <1>1, ThreadFacts DEF IInv, Places, Alive, ProgramPlaces, ReceiverPlaces
  <1>3. Places'
    BY <1>2, ThreadFacts DEF IInv, Places, ProgramPlaces, ReceiverPlaces
  <1>4. Started'
    BY <1>2 DEF Started, Alive
  <1>5. Buffers'
    BY <1>2 DEF Buffers
  <1> QED BY <1>3, <1>4, <1>5

\* A new FIFO has room.
LEMMA NewFifo ==
    ASSUME IInv, NewSession
    PROVE  fifo'.max > 1 /\ IsFIFO(fifo')
  <1>1. fifosize \in Nat /\ fifosize > 1 /\ fifosize # 1
    BY SizesAssumption DEF IInv, TypeOK
  <1> QED BY <1>1, Created DEF NewSession

\* Readers, handlers and clears keep the ring.
LEMMA RingKept ==
    ASSUME IInv
    PROVE  /\ \A p \in Packet : fifo.max > 1 => InsertFIFO(fifo, p).max = fifo.max
           /\ NumElements(fifo) > 0 => /\ RemoveElementFIFO(fifo).max = fifo.max
                                       /\ RetrieveFIFO(fifo).max = fifo.max
           /\ Reported(fifo).max = fifo.max /\ ClearFIFO(fifo).max = fifo.max
  <1>1. IsFIFO(fifo)
    BY DEF IInv, TypeOK
  <1> QED BY <1>1, Inserted, Removed, ReportedFlag, Cleared DEF RetrieveFIFO

\* What a handler takes from the socket fits in its buffer.
LEMMA ChunkRange ==
    ASSUME IInv, NEW r \in Receivers
    PROVE  /\ Chunk(r) \in Nat /\ Chunk(r) <= Len(socket) /\ Chunk(r) <= BufferSize - Len(data[r])
           /\ Received(r) \in Nat /\ Received(r) <= Len(socket)
           /\ SocketAfter(r) \in Seq(Packet)
  <1>1. /\ Len(socket) \in Nat /\ Len(data[r]) \in Nat /\ Len(data[r]) <= BufferSize
        /\ BufferSize \in Nat \ {0} /\ socket \in Seq(Packet)
    BY BoundsAssumption DEF IInv, TypeOK
  <1>2. Chunk(r) \in Nat /\ Chunk(r) <= Len(socket) /\ Chunk(r) <= BufferSize - Len(data[r])
    <2>1. \A a, b \in Nat : Min2(a, b) \in Nat /\ Min2(a, b) <= a /\ Min2(a, b) <= b
      BY DEF Min2
    <2>2. /\ BufferSize - Len(data[r]) \in Nat
          /\ (IF kind[r] = "rec" THEN BufferSize ELSE 1) \in Nat
      BY <1>1
    <2> DEFINE m == Min2(BufferSize - Len(data[r]), IF kind[r] = "rec" THEN BufferSize ELSE 1)
    <2>3. m \in Nat /\ m <= BufferSize - Len(data[r])
      BY <2>1, <2>2
    <2>4. Chunk(r) = Min2(Len(socket), m)
      BY DEF Chunk
    <2> HIDE DEF m
    <2>5. Chunk(r) \in Nat /\ Chunk(r) <= Len(socket) /\ Chunk(r) <= m
      BY <1>1, <2>1, <2>3, <2>4
    <2> QED BY <1>1, <2>2, <2>3, <2>5
  <1>3. Received(r) \in Nat /\ Received(r) <= Len(socket)
    BY <1>1, <1>2 DEF Received, Truncated
  <1> QED BY <1>1, <1>2, <1>3, SubSeqProperties DEF SocketAfter

LEMMA StepPlaces ==
    ASSUME IInv, Next, CallbackRule
    PROVE  Places'
  <1> USE ThreadFacts DEF At, Goto
  <1>1. ASSUME NEW t \in Threads, NEW c \in Calls, Call(t, c) PROVE Places'
    <2>1. c \in AppCalls \cup CallbackCalls /\ after' = [after EXCEPT ![t] = c]
      BY <1>1 DEF Call
    <2>2. t \in Receivers /\ c \in LockedCalls => c \in CallbackPlaces
      BY <1>1, CallsAssumption DEF Call, CallbackRule, LockedCalls, SelectCalls, Calls,
         CallbackPlaces
    <2>3. \E x \in {"lock", "read", "clear"} :
             pc' = [pc EXCEPT ![t] = x] /\ (x = "lock" => c \in LockedCalls)
      BY <1>1 DEF Call
    <2>4. /\ after'[t] = c /\ \A s \in Threads \ {t} : after'[s] = after[s]
      BY <2>1 DEF IInv, TypeOK
    <2> QED BY <2>2, <2>3, <2>4, Moved DEF ProgramPlaces, ReceiverPlaces, CallbackPlaces
  <1>2. ASSUME NEW t \in Threads, Lock(t) PROVE Places'
    BY <1>2
    DEF Lock, Nobody, receiver, device, history, CallbackRule, IInv, Places,
       ProgramPlaces, ReceiverPlaces, CallbackPlaces, TypeOK
  <1>3. ASSUME NEW t \in Threads, Command(t) PROVE Places'
    BY <1>3
    DEF Command, Return, Over, Home, Nobody, receiver, device, history, CallbackRule,
       IInv, Places, ProgramPlaces, ReceiverPlaces, CallbackPlaces, TypeOK
  <1>4. ASSUME NEW t \in Threads, SetDataCallback(t) PROVE Places'
    BY <1>4
    DEF SetDataCallback, Return, Over, Home, Nobody, receiver, device, history,
       CallbackRule, IInv, Places, ProgramPlaces, ReceiverPlaces, CallbackPlaces, TypeOK
  <1>5. ASSUME NEW t \in Threads, StopReceiver(t) PROVE Places'
    BY <1>5
    DEF StopReceiver, Nobody, receiver, device, history, CallbackRule, IInv, Places,
       ProgramPlaces, ReceiverPlaces, CallbackPlaces, TypeOK
  <1>6. ASSUME NEW t \in Threads, NothingToStop(t) PROVE Places'
    BY <1>6
    DEF NothingToStop, driver, receiver, device, history, CallbackRule, IInv, Places,
       ProgramPlaces, ReceiverPlaces, CallbackPlaces, TypeOK
  <1>7. ASSUME NEW t \in Threads, Join(t) PROVE Places'
    BY <1>7
    DEF Join, Alive, driver, receiver, device, history, CallbackRule, IInv, Places,
       ProgramPlaces, ReceiverPlaces, CallbackPlaces, TypeOK
  <1>8. ASSUME NEW t \in Threads, Relock(t) PROVE Places'
    BY <1>8
    DEF Relock, Nobody, receiver, device, history, CallbackRule, IInv, Places,
       ProgramPlaces, ReceiverPlaces, CallbackPlaces, TypeOK
  <1>9. ASSUME NEW t \in Threads, RequestMaster(t) PROVE Places'
    <2>1. t = App
      BY <1>9, ProgramOnly DEF RequestMaster
    <2>2. \E x \in {"stop", "idle"} : pc' = [pc EXCEPT ![t] = x]
      BY <1>9, <2>1 DEF RequestMaster, Return, Over, Home
    <2>3. \A s \in Threads \ {t} : after'[s] = after[s]
      BY <1>9 DEF RequestMaster, Return, Over, IInv, TypeOK
    <2> QED BY <2>1, <2>2, <2>3, Moved DEF ProgramPlaces
  <1>10. ASSUME NEW t \in Threads, SelectFails(t) PROVE Places'
    BY <1>10
    DEF SelectFails, Stopped, history, NewSession, Return, Over, Home, Nobody, NoThread,
       CallbackRule, IInv, Places, ProgramPlaces, ReceiverPlaces, CallbackPlaces, TypeOK
  <1>11. ASSUME NEW t \in Threads, SelectSoftRealtime(t) PROVE Places'
    <2>1. t = App
      BY <1>11, ProgramOnly DEF SelectSoftRealtime, Stopped
    <2> QED BY <1>11, <2>1, NewFifo, ThreadStarted DEF SelectSoftRealtime, Stopped
  <1>12. ASSUME NEW t \in Threads, SoftRealtimeSelected(t) PROVE Places'
    BY <1>12
    DEF SoftRealtimeSelected, Return, Over, Home, Nobody, receiver, history,
       CallbackRule, IInv, Places, ProgramPlaces, ReceiverPlaces, CallbackPlaces, TypeOK
  <1>13. ASSUME NEW t \in Threads, SoftRealtimeRefused(t) PROVE Places'
    BY <1>13
    DEF SoftRealtimeRefused, ReleaseUnlessMaster, Nobody, receiver, device, history,
       CallbackRule, IInv, Places, ProgramPlaces, ReceiverPlaces, CallbackPlaces, TypeOK
  <1>14. ASSUME NEW t \in Threads, AfterRefusal(t) PROVE Places'
    BY <1>14
    DEF AfterRefusal, Stopped, Return, Over, Home, Nobody, receiver, history,
       CallbackRule, IInv, Places, ProgramPlaces, ReceiverPlaces, CallbackPlaces, TypeOK
  <1>15. ASSUME NEW t \in Threads, SelectStreaming(t) PROVE Places'
    <2>1. t = App
      BY <1>15, ProgramOnly DEF SelectStreaming, Stopped
    <2>2. CASE StartThread(t, "strm", "started") /\ UNCHANGED after
      BY <1>15, <2>1, <2>2, NewFifo, ThreadStarted DEF SelectStreaming, Stopped
    <2>3. CASE Return(t)
      BY <2>1, <2>3, Moved DEF Return, Over, Home, ProgramPlaces, IInv, TypeOK
    <2> QED BY <1>15, <2>2, <2>3 DEF SelectStreaming
  <1>16. ASSUME NEW t \in Threads, SelectPolling(t) PROVE Places'
    BY <1>16
    DEF SelectPolling, Stopped, Return, Over, Home, Nobody, ReleaseUnlessMaster,
       receiver, history, CallbackRule, IInv, Places, ProgramPlaces, ReceiverPlaces,
       CallbackPlaces, TypeOK
  <1>17. ASSUME NEW t \in Threads, EnableRefused(t) PROVE Places'
    BY <1>17
    DEF EnableRefused, Return, Over, Home, Nobody, receiver, device, history,
       CallbackRule, IInv, Places, ProgramPlaces, ReceiverPlaces, CallbackPlaces, TypeOK
  <1>18. ASSUME NEW t \in Threads, EnableFails(t) PROVE Places'
    BY <1>18
    DEF EnableFails, Return, Over, Home, Nobody, NoThread, device, history,
       CallbackRule, IInv, Places, ProgramPlaces, ReceiverPlaces, CallbackPlaces, TypeOK
  <1>19. ASSUME NEW t \in Threads, Enable(t) PROVE Places'
    <2>1. t = App
      BY <1>19, ProgramOnly DEF Enable, Stopped
    <2> QED BY <1>19, <2>1, NewFifo, ThreadStarted DEF Enable, Stopped
  <1>20. ASSUME NEW t \in Threads, Connect(t) PROVE Places'
    <2>1. t = App
      BY <1>20, ProgramOnly DEF Connect, Stopped
    <2>2. \E x \in {"idle", "join"} : pc' = [pc EXCEPT ![t] = x]
      BY <1>20, <2>1 DEF Connect, Return, Over, Home
    <2>3. \A s \in Threads \ {t} : after'[s] = after[s]
      BY <1>20 DEF Connect, Return, Over, IInv, TypeOK
    <2> QED BY <2>1, <2>2, <2>3, Moved DEF ProgramPlaces
  <1>21. ASSUME NEW t \in Threads, Disable(t) PROVE Places'
    <2>1. t = App
      BY <1>21, ProgramOnly DEF Disable, Stopped
    <2>2. \E x \in {"idle", "stop"} : pc' = [pc EXCEPT ![t] = x]
      BY <1>21, <2>1 DEF Disable, Return, Over, Home
    <2>3. \A s \in Threads \ {t} : after'[s] = after[s]
      BY <1>21 DEF Disable, Return, Over, IInv, TypeOK
    <2> QED BY <2>1, <2>2, <2>3, Moved DEF ProgramPlaces
  <1>22. ASSUME NEW t \in Threads, TransferOver(t) PROVE Places'
    BY <1>22
    DEF TransferOver, Stopped, Return, Over, Home, Nobody, receiver, history,
       CallbackRule, IInv, Places, ProgramPlaces, ReceiverPlaces, CallbackPlaces, TypeOK
  <1>23. ASSUME NEW t \in Threads, Close(t) PROVE Places'
    BY <1>23
    DEF Close, driver, receiver, device, history, CallbackRule, IInv, Places,
       ProgramPlaces, ReceiverPlaces, CallbackPlaces, TypeOK
  <1>24. ASSUME NEW t \in Threads, Closed(t) PROVE Places'
    BY <1>24
    DEF Closed, Stopped, Return, Over, Home, Nobody, receiver, history, CallbackRule,
       IInv, Places, ProgramPlaces, ReceiverPlaces, CallbackPlaces, TypeOK
  <1>25. ASSUME NEW t \in Threads, ReadTimesOut(t) PROVE Places'
    BY <1>25
    DEF ReadTimesOut, Nobody, Over, Home, driver, receiver, device, history,
       CallbackRule, IInv, Places, ProgramPlaces, ReceiverPlaces, CallbackPlaces, TypeOK
  <1>26. ASSUME NEW t \in Threads, ReadStarts(t) PROVE Places'
    BY <1>26
    DEF ReadStarts, Nobody, Min2, receiver, device, history, CallbackRule, IInv, Places,
       ProgramPlaces, ReceiverPlaces, CallbackPlaces, TypeOK
  <1>27. ASSUME NEW t \in Threads, ReadElement(t) PROVE Places'
    <2>1. CASE pc' = pc /\ after' = after
      BY <2>1 DEF IInv, Places
    <2>2. CASE Unlock(t)
      <3>1. /\ t = App => Home(t) = "idle"
            /\ t \in Receivers => Home(t) = "callback"
        BY DEF Home
      <3>2. /\ pc' = [pc EXCEPT ![t] = Home(t)]
            /\ \A s \in Threads \ {t} : after'[s] = after[s]
        BY <2>2 DEF Unlock, Over, IInv, TypeOK
      <3> QED BY <3>1, <3>2, Moved DEF ProgramPlaces, ReceiverPlaces
    <2> QED BY <1>27, <2>1, <2>2 DEF ReadElement
  <1>28. ASSUME NEW t \in Threads, Clear(t) PROVE Places'
    BY <1>28
    DEF Clear, Nobody, Over, Home, receiver, device, CallbackRule, IInv, Places,
       ProgramPlaces, ReceiverPlaces, CallbackPlaces, TypeOK
  <1>29. ASSUME NEW r \in Receivers, ReceiverEnds(r) PROVE Places'
    BY <1>29
    DEF ReceiverEnds, ThreadEnds, driver, device, history, CallbackRule, IInv, Places,
       ProgramPlaces, ReceiverPlaces, CallbackPlaces, TypeOK
  <1>30. ASSUME NEW r \in Receivers, DataArrived(r) PROVE Places'
    BY <1>30
    DEF DataArrived, driver, device, history, CallbackRule, IInv, Places, ProgramPlaces,
       ReceiverPlaces, CallbackPlaces, TypeOK
  <1>31. ASSUME NEW r \in Receivers, LockFIFO(r) PROVE Places'
    BY <1>31
    DEF LockFIFO, Nobody, receiver, device, history, CallbackRule, IInv, Places,
       ProgramPlaces, ReceiverPlaces, CallbackPlaces, TypeOK
  <1>32. ASSUME NEW r \in Receivers, ReceiveEnds(r) PROVE Places'
    BY <1>32
    DEF ReceiveEnds, Receiving, Chunk, Min2, Nobody, ThreadEnds, SocketAfter, Received,
       Truncated, CallbackRule, IInv, Places, ProgramPlaces, ReceiverPlaces,
       CallbackPlaces, TypeOK
  <1>33. ASSUME NEW r \in Receivers, Receive(r) PROVE Places'
    BY <1>33
    DEF Receive, Receiving, Chunk, Min2, SocketAfter, Received, Truncated, driver,
       CallbackRule, IInv, Places, ProgramPlaces, ReceiverPlaces, CallbackPlaces, TypeOK
  <1>34. ASSUME NEW r \in Receivers, Insert(r) PROVE Places'
    <2>1. CASE pc' = pc
      BY <1>34, <2>1 DEF Insert, IInv, Places
    <2>2. CASE Goto(r, "receive")
      BY <1>34, <2>2, Moved DEF Insert, ReceiverPlaces
    <2> QED BY <1>34, <2>1, <2>2 DEF Insert
  <1>35. ASSUME NEW r \in Receivers, UnlockFIFO(r) PROVE Places'
    BY <1>35
    DEF UnlockFIFO, Chunk, Min2, Nobody, SocketAfter, Received, Truncated, receiver,
       CallbackRule, IInv, Places, ProgramPlaces, ReceiverPlaces, CallbackPlaces, TypeOK
  <1>36. ASSUME NEW r \in Receivers, CallbackReturns(r) PROVE Places'
    BY <1>36
    DEF CallbackReturns, driver, device, history, CallbackRule, IInv, Places,
       ProgramPlaces, ReceiverPlaces, CallbackPlaces, TypeOK
  <1>37. ASSUME SetFIFOSize PROVE Places'
    BY <1>37
    DEF SetFIFOSize, receiver, device, history, CallbackRule, IInv, Places,
       ProgramPlaces, ReceiverPlaces, CallbackPlaces, TypeOK
  <1>38. ASSUME Send PROVE Places'
    BY <1>38
    DEF Send, driver, receiver, CallbackRule, IInv, Places, ProgramPlaces,
       ReceiverPlaces, CallbackPlaces, TypeOK
  <1> QED BY <1>1, <1>2, <1>3, <1>4, <1>5, <1>6, <1>7, <1>8, <1>9, <1>10, <1>11, <1>12,
       <1>13, <1>14, <1>15, <1>16, <1>17, <1>18, <1>19, <1>20, <1>21, <1>22, <1>23,
       <1>24, <1>25, <1>26, <1>27, <1>28, <1>29, <1>30, <1>31, <1>32, <1>33, <1>34,
       <1>35, <1>36, <1>37, <1>38
    DEF Next, ModeStep, ReadStep, ReceiverStep

LEMMA StepStarted ==
    ASSUME IInv, Next, CallbackRule
    PROVE  Started'
  <1> USE ThreadFacts DEF At, Goto
  <1>1. ASSUME NEW t \in Threads, NEW c \in Calls, Call(t, c) PROVE Started'
    BY <1>1
    DEF Call, Home, LockedCalls, SelectCalls, driver, receiver, device, history, IInv,
       Places, ReceiverPlaces, CallbackPlaces, TypeOK, Started, Alive
  <1>2. ASSUME NEW t \in Threads, Lock(t) PROVE Started'
    <2>1. after[t] \notin {"dead", "relock", "stopped"} /\ pc' = [pc EXCEPT ![t] = after[t]]
      BY <1>2 DEF Lock, IInv, Places, LockedCalls, SelectCalls
    <2> QED BY <1>2, <2>1 DEF Lock, IInv, Places, TypeOK, Started, Alive
  <1>3. ASSUME NEW t \in Threads, Command(t) PROVE Started'
    BY <1>3
    DEF Command, Return, Over, Home, Nobody, receiver, device, history, IInv, Places,
       ReceiverPlaces, CallbackPlaces, TypeOK, Started, Alive
  <1>4. ASSUME NEW t \in Threads, SetDataCallback(t) PROVE Started'
    BY <1>4
    DEF SetDataCallback, Return, Over, Home, Nobody, receiver, device, history, IInv,
       Places, ReceiverPlaces, CallbackPlaces, TypeOK, Started, Alive
  <1>5. ASSUME NEW t \in Threads, StopReceiver(t) PROVE Started'
    BY <1>5
    DEF StopReceiver, Nobody, receiver, device, history, IInv, Places, ReceiverPlaces,
       CallbackPlaces, TypeOK, Started, Alive
  <1>6. ASSUME NEW t \in Threads, NothingToStop(t) PROVE Started'
    BY <1>6
    DEF NothingToStop, driver, receiver, device, history, IInv, Places, ReceiverPlaces,
       CallbackPlaces, TypeOK, Started, Alive
  <1>7. ASSUME NEW t \in Threads, Join(t) PROVE Started'
    BY <1>7
    DEF Join, driver, receiver, device, history, IInv, Places, ReceiverPlaces,
       CallbackPlaces, TypeOK, Started, Alive
  <1>8. ASSUME NEW t \in Threads, Relock(t) PROVE Started'
    BY <1>8
    DEF Relock, Nobody, receiver, device, history, IInv, Places, ReceiverPlaces,
       CallbackPlaces, TypeOK, Started, Alive
  <1>9. ASSUME NEW t \in Threads, RequestMaster(t) PROVE Started'
    BY <1>9, SMTT(30)
    DEF RequestMaster, SelectCalls, Return, Over, Home, Nobody, receiver, device,
       history, IInv, Places, ReceiverPlaces, CallbackPlaces, TypeOK, Started, Alive
  <1>10. ASSUME NEW t \in Threads, SelectFails(t) PROVE Started'
    BY <1>10
    DEF SelectFails, Stopped, history, NewSession, Return, Over, Home, Nobody, NoThread,
       IInv, Places, ReceiverPlaces, CallbackPlaces, TypeOK, Started, Alive
  <1>11. ASSUME NEW t \in Threads, SelectSoftRealtime(t) PROVE Started'
    <2>1. t = App
      BY <1>11, ProgramOnly DEF SelectSoftRealtime, Stopped
    <2> QED BY <1>11, <2>1, NewFifo, ThreadStarted DEF SelectSoftRealtime, Stopped
  <1>12. ASSUME NEW t \in Threads, SoftRealtimeSelected(t) PROVE Started'
    BY <1>12
    DEF SoftRealtimeSelected, Return, Over, Home, Nobody, receiver, history, IInv,
       Places, ReceiverPlaces, CallbackPlaces, TypeOK, Started, Alive
  <1>13. ASSUME NEW t \in Threads, SoftRealtimeRefused(t) PROVE Started'
    BY <1>13
    DEF SoftRealtimeRefused, ReleaseUnlessMaster, Nobody, receiver, device, history,
       IInv, Places, ReceiverPlaces, CallbackPlaces, TypeOK, Started, Alive
  <1>14. ASSUME NEW t \in Threads, AfterRefusal(t) PROVE Started'
    BY <1>14
    DEF AfterRefusal, Stopped, Return, Over, Home, Nobody, receiver, history, IInv,
       Places, ReceiverPlaces, CallbackPlaces, TypeOK, Started, Alive
  <1>15. ASSUME NEW t \in Threads, SelectStreaming(t) PROVE Started'
    <2>1. t = App
      BY <1>15, ProgramOnly DEF SelectStreaming, Stopped
    <2>2. CASE StartThread(t, "strm", "started") /\ UNCHANGED after
      BY <1>15, <2>1, <2>2, NewFifo, ThreadStarted DEF SelectStreaming, Stopped
    <2>3. CASE Return(t) /\ NoThread
      BY <1>15, <2>1, <2>3 DEF SelectStreaming, Stopped, Return, Over, Home, NoThread, IInv,
         Places, Started, Alive
    <2> QED BY <1>15, <2>2, <2>3 DEF SelectStreaming
  <1>16. ASSUME NEW t \in Threads, SelectPolling(t) PROVE Started'
    BY <1>16
    DEF SelectPolling, Stopped, Return, Over, Home, Nobody, ReleaseUnlessMaster,
       receiver, history, IInv, Places, ReceiverPlaces, CallbackPlaces, TypeOK, Started,
       Alive
  <1>17. ASSUME NEW t \in Threads, EnableRefused(t) PROVE Started'
    BY <1>17
    DEF EnableRefused, Return, Over, Home, Nobody, receiver, device, history, IInv,
       Places, ReceiverPlaces, CallbackPlaces, TypeOK, Started, Alive
  <1>18. ASSUME NEW t \in Threads, EnableFails(t) PROVE Started'
    BY <1>18
    DEF EnableFails, Return, Over, Home, Nobody, NoThread, device, history, IInv,
       Places, ReceiverPlaces, CallbackPlaces, TypeOK, Started, Alive
  <1>19. ASSUME NEW t \in Threads, Enable(t) PROVE Started'
    <2>1. t = App
      BY <1>19, ProgramOnly DEF Enable, Stopped
    <2> QED BY <1>19, <2>1, NewFifo, ThreadStarted DEF Enable, Stopped
  <1>20. ASSUME NEW t \in Threads, Connect(t) PROVE Started'
    BY <1>20
    DEF Connect, Return, Over, Home, Nobody, receiver, history, IInv, Places,
       ReceiverPlaces, CallbackPlaces, TypeOK, Started, Alive
  <1>21. ASSUME NEW t \in Threads, Disable(t) PROVE Started'
    BY <1>21, SMTT(30)
    DEF Disable, Return, Over, Home, Nobody, receiver, history, IInv, Places,
       ReceiverPlaces, CallbackPlaces, TypeOK, Started, Alive
  <1>22. ASSUME NEW t \in Threads, TransferOver(t) PROVE Started'
    BY <1>22
    DEF TransferOver, Stopped, Return, Over, Home, Nobody, receiver, history, IInv,
       Places, ReceiverPlaces, CallbackPlaces, TypeOK, Started, Alive
  <1>23. ASSUME NEW t \in Threads, Close(t) PROVE Started'
    BY <1>23
    DEF Close, driver, receiver, device, history, IInv, Places, ReceiverPlaces,
       CallbackPlaces, TypeOK, Started, Alive
  <1>24. ASSUME NEW t \in Threads, Closed(t) PROVE Started'
    BY <1>24
    DEF Closed, Stopped, Return, Over, Home, Nobody, receiver, history, IInv, Places,
       ReceiverPlaces, CallbackPlaces, TypeOK, Started, Alive
  <1>25. ASSUME NEW t \in Threads, ReadTimesOut(t) PROVE Started'
    BY <1>25
    DEF ReadTimesOut, Nobody, Over, Home, driver, receiver, device, history, IInv,
       Places, ReceiverPlaces, CallbackPlaces, TypeOK, Started, Alive
  <1>26. ASSUME NEW t \in Threads, ReadStarts(t) PROVE Started'
    BY <1>26
    DEF ReadStarts, Nobody, Min2, receiver, device, history, IInv, Places,
       ReceiverPlaces, CallbackPlaces, TypeOK, Started, Alive
  <1>27. ASSUME NEW t \in Threads, ReadElement(t) PROVE Started'
    <2>1. fifo'.max = fifo.max
      BY <1>27, RingKept DEF ReadElement
    <2>2. CASE pc' = pc
      BY <1>27, <2>1, <2>2 DEF ReadElement, IInv, Started, Alive
    <2>3. CASE Unlock(t)
      BY <1>27, <2>1, <2>3 DEF ReadElement, Unlock, Over, Home, IInv, Places, Started, Alive
    <2> QED BY <1>27, <2>2, <2>3 DEF ReadElement
  <1>28. ASSUME NEW t \in Threads, Clear(t) PROVE Started'
    <2>1. fifo'.max = fifo.max
      BY <1>28, RingKept DEF Clear
    <2> QED BY <1>28, <2>1 DEF Clear, Over, Home, IInv, Places, Started, Alive
  <1>29. ASSUME NEW r \in Receivers, ReceiverEnds(r) PROVE Started'
    BY <1>29
    DEF ReceiverEnds, ThreadEnds, driver, device, history, IInv, Places, ReceiverPlaces,
       CallbackPlaces, TypeOK, Started, Alive
  <1>30. ASSUME NEW r \in Receivers, DataArrived(r) PROVE Started'
    BY <1>30
    DEF DataArrived, driver, device, history, IInv, Places, ReceiverPlaces,
       CallbackPlaces, TypeOK, Started, Alive
  <1>31. ASSUME NEW r \in Receivers, LockFIFO(r) PROVE Started'
    BY <1>31
    DEF LockFIFO, Nobody, receiver, device, history, IInv, Places, ReceiverPlaces,
       CallbackPlaces, TypeOK, Started, Alive
  <1>32. ASSUME NEW r \in Receivers, ReceiveEnds(r) PROVE Started'
    BY <1>32
    DEF ReceiveEnds, Receiving, Chunk, Min2, Nobody, ThreadEnds, SocketAfter, Received,
       Truncated, IInv, Places, ReceiverPlaces, CallbackPlaces, TypeOK, Started, Alive
  <1>33. ASSUME NEW r \in Receivers, Receive(r) PROVE Started'
    BY <1>33
    DEF Receive, Receiving, Chunk, Min2, SocketAfter, Received, Truncated, driver, IInv,
       Places, ReceiverPlaces, CallbackPlaces, TypeOK, Started, Alive
  <1>34. ASSUME NEW r \in Receivers, Insert(r) PROVE Started'
    <2>1. CASE pc' = pc
      <3>1. left[r] > 0 /\ pc[r] = "insert"
        BY <1>34, <2>1 DEF Insert, IInv, Places
      <3>2. /\ data[r] \in Seq(Packet) /\ Len(data[r]) > 0 /\ fifo.max > 1
        BY <3>1 DEF IInv, TypeOK, Buffers, Started, Alive
      <3>3. Head(data[r]) \in Packet
        BY <3>2
      <3>4. fifo'.max = fifo.max
        BY <1>34, <3>1, <3>2, <3>3, RingKept DEF Insert
      <3> QED BY <1>34, <2>1, <3>4 DEF Insert, IInv, Started, Alive
    <2>2. CASE Goto(r, "receive") /\ fifo' = fifo
      BY <1>34, <2>2 DEF Insert, IInv, Places, Started, Alive
    <2> QED BY <1>34, <2>1, <2>2 DEF Insert
  <1>35. ASSUME NEW r \in Receivers, UnlockFIFO(r) PROVE Started'
    BY <1>35
    DEF UnlockFIFO, Chunk, Min2, Nobody, SocketAfter, Received, Truncated, receiver,
       IInv, Places, ReceiverPlaces, CallbackPlaces, TypeOK, Started, Alive
  <1>36. ASSUME NEW r \in Receivers, CallbackReturns(r) PROVE Started'
    BY <1>36
    DEF CallbackReturns, driver, device, history, IInv, Places, ReceiverPlaces,
       CallbackPlaces, TypeOK, Started, Alive
  <1>37. ASSUME SetFIFOSize PROVE Started'
    BY <1>37
    DEF SetFIFOSize, receiver, device, history, IInv, Places, ReceiverPlaces,
       CallbackPlaces, TypeOK, Started, Alive
  <1>38. ASSUME Send PROVE Started'
    BY <1>38
    DEF Send, driver, receiver, IInv, Places, ReceiverPlaces, CallbackPlaces, TypeOK,
       Started, Alive
  <1> QED BY <1>1, <1>2, <1>3, <1>4, <1>5, <1>6, <1>7, <1>8, <1>9, <1>10, <1>11, <1>12,
       <1>13, <1>14, <1>15, <1>16, <1>17, <1>18, <1>19, <1>20, <1>21, <1>22, <1>23,
       <1>24, <1>25, <1>26, <1>27, <1>28, <1>29, <1>30, <1>31, <1>32, <1>33, <1>34,
       <1>35, <1>36, <1>37, <1>38
    DEF Next, ModeStep, ReadStep, ReceiverStep

LEMMA StepBuffers ==
    ASSUME IInv, Next
    PROVE  Buffers'
  <1> USE ThreadFacts DEF At, Goto
  <1>1. ASSUME NEW t \in Threads, NEW c \in Calls, Call(t, c) PROVE Buffers'
    BY <1>1
    DEF Call, Home, LockedCalls, SelectCalls, driver, receiver, device, history, IInv,
       Places, TypeOK, Buffers
  <1>2. ASSUME NEW t \in Threads, Lock(t) PROVE Buffers'
    <2>1. pc' = [pc EXCEPT ![t] = after[t]] /\ UNCHANGED <<data, left>>
      BY <1>2 DEF Lock, receiver
    <2>2. t \in Receivers => after[t] \notin {"flush", "insert"}
      BY <1>2 DEF Lock, IInv, Places, CallbackPlaces
    <2> QED BY <2>1, <2>2 DEF IInv, Places, Buffers
  <1>3. ASSUME NEW t \in Threads, Command(t) PROVE Buffers'
    BY <1>3
    DEF Command, Return, Over, Home, Nobody, receiver, device, history, IInv, Places,
       TypeOK, Buffers
  <1>4. ASSUME NEW t \in Threads, SetDataCallback(t) PROVE Buffers'
    BY <1>4
    DEF SetDataCallback, Return, Over, Home, Nobody, receiver, device, history, IInv,
       Places, TypeOK, Buffers
  <1>5. ASSUME NEW t \in Threads, StopReceiver(t) PROVE Buffers'
    BY <1>5
    DEF StopReceiver, Nobody, receiver, device, history, IInv, Places, TypeOK, Buffers
  <1>6. ASSUME NEW t \in Threads, NothingToStop(t) PROVE Buffers'
    BY <1>6
    DEF NothingToStop, driver, receiver, device, history, IInv, Places, TypeOK, Buffers
  <1>7. ASSUME NEW t \in Threads, Join(t) PROVE Buffers'
    BY <1>7
    DEF Join, Alive, driver, receiver, device, history, IInv, Places, TypeOK, Buffers
  <1>8. ASSUME NEW t \in Threads, Relock(t) PROVE Buffers'
    BY <1>8
    DEF Relock, Nobody, receiver, device, history, IInv, Places, TypeOK, Buffers
  <1>9. ASSUME NEW t \in Threads, RequestMaster(t) PROVE Buffers'
    BY <1>9
    DEF RequestMaster, SelectCalls, Return, Over, Home, Nobody, receiver, device,
       history, IInv, Places, TypeOK, Buffers
  <1>10. ASSUME NEW t \in Threads, SelectFails(t) PROVE Buffers'
    BY <1>10
    DEF SelectFails, Stopped, history, NewSession, Return, Over, Home, Nobody, NoThread,
       IInv, Places, TypeOK, Buffers
  <1>11. ASSUME NEW t \in Threads, SelectSoftRealtime(t) PROVE Buffers'
    <2>1. t = App
      BY <1>11, ProgramOnly DEF SelectSoftRealtime, Stopped
    <2> QED BY <1>11, <2>1, NewFifo, ThreadStarted DEF SelectSoftRealtime, Stopped
  <1>12. ASSUME NEW t \in Threads, SoftRealtimeSelected(t) PROVE Buffers'
    BY <1>12
    DEF SoftRealtimeSelected, Return, Over, Home, Nobody, receiver, history, IInv,
       Places, TypeOK, Buffers
  <1>13. ASSUME NEW t \in Threads, SoftRealtimeRefused(t) PROVE Buffers'
    BY <1>13
    DEF SoftRealtimeRefused, ReleaseUnlessMaster, Nobody, receiver, device, history,
       IInv, Places, TypeOK, Buffers
  <1>14. ASSUME NEW t \in Threads, AfterRefusal(t) PROVE Buffers'
    BY <1>14
    DEF AfterRefusal, Stopped, Return, Over, Home, Nobody, receiver, history, IInv,
       Places, TypeOK, Buffers
  <1>15. ASSUME NEW t \in Threads, SelectStreaming(t) PROVE Buffers'
    <2>1. t = App
      BY <1>15, ProgramOnly DEF SelectStreaming, Stopped
    <2>2. CASE StartThread(t, "strm", "started") /\ UNCHANGED after
      BY <1>15, <2>1, <2>2, NewFifo, ThreadStarted DEF SelectStreaming, Stopped
    <2>3. CASE Return(t) /\ NoThread
      BY <1>15, <2>1, <2>3 DEF SelectStreaming, Stopped, Return, Over, Home, NoThread, IInv,
         Places, TypeOK, Buffers
    <2> QED BY <1>15, <2>2, <2>3 DEF SelectStreaming
  <1>16. ASSUME NEW t \in Threads, SelectPolling(t) PROVE Buffers'
    BY <1>16
    DEF SelectPolling, Stopped, Return, Over, Home, Nobody, ReleaseUnlessMaster,
       receiver, history, IInv, Places, TypeOK, Buffers
  <1>17. ASSUME NEW t \in Threads, EnableRefused(t) PROVE Buffers'
    BY <1>17
    DEF EnableRefused, Return, Over, Home, Nobody, receiver, device, history, IInv,
       Places, TypeOK, Buffers
  <1>18. ASSUME NEW t \in Threads, EnableFails(t) PROVE Buffers'
    BY <1>18
    DEF EnableFails, Return, Over, Home, Nobody, NoThread, device, history, IInv,
       Places, TypeOK, Buffers
  <1>19. ASSUME NEW t \in Threads, Enable(t) PROVE Buffers'
    <2>1. t = App
      BY <1>19, ProgramOnly DEF Enable, Stopped
    <2> QED BY <1>19, <2>1, NewFifo, ThreadStarted DEF Enable, Stopped
  <1>20. ASSUME NEW t \in Threads, Connect(t) PROVE Buffers'
    BY <1>20
    DEF Connect, Return, Over, Home, Nobody, receiver, history, IInv, Places, TypeOK,
       Buffers
  <1>21. ASSUME NEW t \in Threads, Disable(t) PROVE Buffers'
    BY <1>21
    DEF Disable, Return, Over, Home, Nobody, receiver, history, IInv, Places, TypeOK,
       Buffers
  <1>22. ASSUME NEW t \in Threads, TransferOver(t) PROVE Buffers'
    BY <1>22
    DEF TransferOver, Stopped, Return, Over, Home, Nobody, receiver, history, IInv,
       Places, TypeOK, Buffers
  <1>23. ASSUME NEW t \in Threads, Close(t) PROVE Buffers'
    BY <1>23
    DEF Close, driver, receiver, device, history, IInv, Places, TypeOK, Buffers
  <1>24. ASSUME NEW t \in Threads, Closed(t) PROVE Buffers'
    BY <1>24
    DEF Closed, Stopped, Return, Over, Home, Nobody, receiver, history, IInv, Places,
       TypeOK, Buffers
  <1>25. ASSUME NEW t \in Threads, ReadTimesOut(t) PROVE Buffers'
    BY <1>25
    DEF ReadTimesOut, Nobody, Over, Home, driver, receiver, device, history, IInv,
       Places, TypeOK, Buffers
  <1>26. ASSUME NEW t \in Threads, ReadStarts(t) PROVE Buffers'
    BY <1>26
    DEF ReadStarts, Nobody, Min2, receiver, device, history, IInv, Places, TypeOK,
       Buffers
  <1>27. ASSUME NEW t \in Threads, ReadElement(t) PROVE Buffers'
    BY <1>27
    DEF ReadElement, Unlock, Over, Home, Nobody, history, receiver, device, IInv,
       Places, TypeOK, Buffers
  <1>28. ASSUME NEW t \in Threads, Clear(t) PROVE Buffers'
    BY <1>28
    DEF Clear, Nobody, Over, Home, receiver, device, IInv, Places, TypeOK, Buffers
  <1>29. ASSUME NEW r \in Receivers, ReceiverEnds(r) PROVE Buffers'
    BY <1>29
    DEF ReceiverEnds, ThreadEnds, driver, device, history, IInv, Places, TypeOK, Buffers
  <1>30. ASSUME NEW r \in Receivers, DataArrived(r) PROVE Buffers'
    BY <1>30
    DEF DataArrived, driver, device, history, IInv, Places, TypeOK, Buffers
  <1>31. ASSUME NEW r \in Receivers, LockFIFO(r) PROVE Buffers'
    BY <1>31
    DEF LockFIFO, Nobody, receiver, device, history, IInv, Places, TypeOK, Buffers
  <1>32. ASSUME NEW r \in Receivers, ReceiveEnds(r) PROVE Buffers'
    BY <1>32
    DEF ReceiveEnds, Receiving, Chunk, Min2, Nobody, ThreadEnds, SocketAfter, Received,
       Truncated, IInv, Places, TypeOK, Buffers
  <1>33. ASSUME NEW r \in Receivers, Receive(r) PROVE Buffers'
    <2> DEFINE d == data[r] \o SubSeq(socket, 1, Chunk(r))
    <2>1. Chunk(r) \in Nat /\ Chunk(r) <= Len(socket)
      BY ChunkRange
    <2>2. SubSeq(socket, 1, Chunk(r)) \in Seq(Packet) /\ Len(SubSeq(socket, 1, Chunk(r))) = Chunk(r)
      BY <2>1, SubSeqProperties DEF IInv, TypeOK
    <2>a. NumElements(fifo) \in Nat /\ fifo.max \in Nat
      BY Count DEF IInv, TypeOK, IsFIFO
    <2>3. data[r] \in Seq(Packet) /\ Len(data[r]) \in Nat /\ FreeElements(fifo) \in Nat
      BY <2>a DEF IInv, TypeOK, FreeElements
    <2>4. d \in Seq(Packet) /\ Len(d) = Len(data[r]) + Chunk(r)
      BY <2>2, <2>3, ConcatProperties
    <2>5. Len(d) > 0
      BY <1>33, <2>1, <2>3, <2>4 DEF Receive, Receiving, IInv, Buffers
    <2>6. data'[r] = d /\ left'[r] = (IF kind[r] = "srt" THEN 1 ELSE Min2(Len(d), FreeElements(fifo)))
      BY <1>33 DEF Receive, IInv, TypeOK
    <2>7. left'[r] <= Len(d)
      BY <2>3, <2>4, <2>5, <2>6 DEF Min2
    <2>8. \A s \in Receivers \ {r} : data'[s] = data[s] /\ left'[s] = left[s] /\ pc'[s] = pc[s]
      BY <1>33 DEF Receive, IInv, TypeOK, Places
    <2>9. pc'[r] = "insert"
      BY <1>33 DEF Receive, IInv, Places
    <2> HIDE DEF d
    <2> QED BY <2>6, <2>7, <2>8, <2>9 DEF IInv, Buffers
  <1>34. ASSUME NEW r \in Receivers, Insert(r) PROVE Buffers'
    <2>1. CASE left[r] = 0 /\ Goto(r, "receive") /\ UNCHANGED <<data, left>>
      BY <1>34, <2>1 DEF IInv, Places, Buffers
    <2>2. CASE left[r] > 0 /\ pc' = pc
      <3>1. /\ left[r] \in Nat /\ data[r] \in Seq(Packet) /\ left[r] <= Len(data[r])
            /\ pc[r] = "insert"
        BY <1>34, <2>2 DEF Insert, IInv, TypeOK, Buffers
      <3>2. /\ data'[r] = Tail(data[r]) /\ left'[r] = left[r] - 1
            /\ \A s \in Receivers \ {r} : data'[s] = data[s] /\ left'[s] = left[s]
        BY <1>34, <2>2 DEF Insert, IInv, TypeOK
      <3>3. Len(Tail(data[r])) = Len(data[r]) - 1
        BY <2>2, <3>1
      <3>4. left'[r] <= Len(data'[r])
        BY <2>2, <3>1, <3>2, <3>3
      <3> QED BY <2>2, <3>1, <3>2, <3>4 DEF IInv, Buffers
    <2> QED BY <1>34, <2>1, <2>2 DEF Insert
  <1>35. ASSUME NEW r \in Receivers, UnlockFIFO(r) PROVE Buffers'
    BY <1>35
    DEF UnlockFIFO, Chunk, Min2, Nobody, SocketAfter, Received, Truncated, receiver,
       IInv, Places, TypeOK, Buffers
  <1>36. ASSUME NEW r \in Receivers, CallbackReturns(r) PROVE Buffers'
    BY <1>36
    DEF CallbackReturns, driver, device, history, IInv, Places, TypeOK, Buffers
  <1>37. ASSUME SetFIFOSize PROVE Buffers'
    BY <1>37
    DEF SetFIFOSize, receiver, device, history, IInv, Places, TypeOK, Buffers
  <1>38. ASSUME Send PROVE Buffers'
    BY <1>38
    DEF Send, driver, receiver, IInv, Places, TypeOK, Buffers
  <1> QED BY <1>1, <1>2, <1>3, <1>4, <1>5, <1>6, <1>7, <1>8, <1>9, <1>10, <1>11, <1>12,
       <1>13, <1>14, <1>15, <1>16, <1>17, <1>18, <1>19, <1>20, <1>21, <1>22, <1>23,
       <1>24, <1>25, <1>26, <1>27, <1>28, <1>29, <1>30, <1>31, <1>32, <1>33, <1>34,
       <1>35, <1>36, <1>37, <1>38
    DEF Next, ModeStep, ReadStep, ReceiverStep

\* The end of a call, the start of a receiver and a new session keep the types.
LEMMA ReturnOK ==
    ASSUME CallsOK, NEW t \in Threads, Over(t), was_master' \in BOOLEAN
    PROVE  CallsOK'
  BY DEF CallsOK, Over

LEMMA StartOK ==
    ASSUME ReceiversOK, NEW t, NEW to, NEW k \in {"srt", "strm", "rec"},
           StartThread(t, k, to)
    PROVE  ReceiversOK'
  <1> PICK r \in Receivers : /\ kind' = [kind EXCEPT ![r] = k]
                             /\ data' = [data EXCEPT ![r] = <<>>] /\ num' = num
    BY DEF StartThread
  <1>1. <<>> \in Seq(Packet) /\ Len(<<>>) = 0 /\ 0 <= BufferSize
    BY BoundsAssumption, EmptySeq
  <1> QED BY <1>1 DEF ReceiversOK

LEMMA SessionOK ==
    ASSUME DeviceOK, NewSession, sent' = sent, transfer' \in {"none", "srt", "strm", "rec"}
    PROVE  DeviceOK'
  BY EmptySeq DEF DeviceOK, NewSession

LEMMA OldestPacket ==
    ASSUME IInv, NumElements(fifo) > 0
    PROVE  Oldest(fifo) \in Packet /\ RemoveElementFIFO(fifo).max = fifo.max
  BY Removed, HeadTailProperties DEF IInv, TypeOK, Stored

LEMMA StepTypeOK ==
    ASSUME IInv, Next
    PROVE  TypeOK'
  <1> USE ThreadFacts DEF At, Goto
  <1>a. TypeOK <=> DriverOK /\ CallsOK /\ ReceiversOK /\ DeviceOK
    BY DEF TypeOK, DriverOK, CallsOK, ReceiversOK, DeviceOK
  <1>b. TypeOK' <=> DriverOK' /\ CallsOK' /\ ReceiversOK' /\ DeviceOK'
    BY DEF TypeOK, DriverOK, CallsOK, ReceiversOK, DeviceOK
  <1>c. DriverOK /\ CallsOK /\ ReceiversOK /\ DeviceOK
    BY <1>a DEF IInv
  <1>d. IsFIFO(fifo')
    BY StepStored
  <1>1. ASSUME NEW t \in Threads, NEW c \in Calls, Call(t, c) PROVE TypeOK'
    <2>1. DriverOK'
      BY <1>1, <1>c, <1>d
      DEF Call, Home, LockedCalls, SelectCalls, driver, receiver, device, history,
         DriverOK
    <2>2. CallsOK'
      <3>1. left' \in [Threads -> Nat]
        <4>1. \A cnt \in 1 .. MaxRead : cnt \in Nat
          BY BoundsAssumption
        <4>2. CASE left' = left
          BY <1>c, <4>2 DEF CallsOK
        <4>3. CASE \E cnt \in 1 .. MaxRead : left' = [left EXCEPT ![t] = cnt]
          BY <1>c, <4>1, <4>3 DEF CallsOK
        <4> QED BY <1>1, <4>2, <4>3 DEF Call
      <3> QED BY <1>1, <1>c, <3>1 DEF Call, CallsOK
    <2>3. ReceiversOK'
      BY <1>1, <1>c
      DEF Call, Home, LockedCalls, SelectCalls, driver, receiver, device, history,
         ReceiversOK
    <2>4. DeviceOK'
      BY <1>1, <1>c
      DEF Call, Home, LockedCalls, SelectCalls, driver, receiver, device, history,
         DeviceOK
    <2> QED BY <1>b, <2>1, <2>2, <2>3, <2>4
  <1>2. ASSUME NEW t \in Threads, Lock(t) PROVE TypeOK'
    <2>1. DriverOK'
      BY <1>2, <1>c, <1>d
      DEF Lock, Nobody, receiver, device, history, DriverOK
    <2>2. CallsOK'
      BY <1>2, <1>c
      DEF Lock, Nobody, receiver, device, history, CallsOK
    <2>3. ReceiversOK'
      BY <1>2, <1>c
      DEF Lock, Nobody, receiver, device, history, ReceiversOK
    <2>4. DeviceOK'
      BY <1>2, <1>c
      DEF Lock, Nobody, receiver, device, history, DeviceOK
    <2> QED BY <1>b, <2>1, <2>2, <2>3, <2>4
  <1>3. ASSUME NEW t \in Threads, Command(t) PROVE TypeOK'
    BY <1>3, <1>d
    DEF Command, Return, Over, Home, Nobody, receiver, device, history, IInv, Places,
       TypeOK
  <1>4. ASSUME NEW t \in Threads, SetDataCallback(t) PROVE TypeOK'
    BY <1>4, <1>d
    DEF SetDataCallback, Return, Over, Home, Nobody, receiver, device, history, IInv,
       Places, TypeOK
  <1>5. ASSUME NEW t \in Threads, StopReceiver(t) PROVE TypeOK'
    BY <1>5, <1>d
    DEF StopReceiver, Nobody, receiver, device, history, IInv, Places, TypeOK
  <1>6. ASSUME NEW t \in Threads, NothingToStop(t) PROVE TypeOK'
    BY <1>6, <1>d
    DEF NothingToStop, driver, receiver, device, history, IInv, Places, TypeOK
  <1>7. ASSUME NEW t \in Threads, Join(t) PROVE TypeOK'
    BY <1>7, <1>d
    DEF Join, Alive, driver, receiver, device, history, IInv, Places, TypeOK
  <1>8. ASSUME NEW t \in Threads, Relock(t) PROVE TypeOK'
    BY <1>8, <1>d
    DEF Relock, Nobody, receiver, device, history, IInv, Places, TypeOK
  <1>9. ASSUME NEW t \in Threads, RequestMaster(t) PROVE TypeOK'
    <2>1. DriverOK'
      BY <1>9, <1>c, <1>d
      DEF RequestMaster, SelectCalls, Return, Over, Home, Nobody, receiver, device,
         history, DriverOK
    <2>2. CallsOK'
      <3>1. CASE Return(t)
        BY <1>c, <3>1, ReturnOK DEF Return, CallsOK
      <3>2. CASE was_master' = master /\ UNCHANGED <<after, left>>
        BY <1>c, <3>2 DEF CallsOK, DriverOK
      <3> QED BY <1>9, <3>1, <3>2 DEF RequestMaster
    <2>3. ReceiversOK'
      BY <1>9, <1>c
      DEF RequestMaster, SelectCalls, Return, Over, Home, Nobody, receiver, device,
         history, ReceiversOK
    <2>4. DeviceOK'
      BY <1>9, <1>c
      DEF RequestMaster, SelectCalls, Return, Over, Home, Nobody, receiver, device,
         history, DeviceOK
    <2> QED BY <1>b, <2>1, <2>2, <2>3, <2>4
  <1>10. ASSUME NEW t \in Threads, SelectFails(t) PROVE TypeOK'
    <2>1. DriverOK'
      BY <1>10, <1>c, <1>d
      DEF SelectFails, Stopped, history, NewSession, Return, Over, Home, Nobody,
         NoThread, DriverOK
    <2>2. CallsOK'
      BY <1>10, <1>c
      DEF SelectFails, Stopped, history, NewSession, Return, Over, Home, Nobody,
         NoThread, CallsOK
    <2>3. ReceiversOK'
      BY <1>10, <1>c
      DEF SelectFails, Stopped, history, NewSession, Return, Over, Home, Nobody,
         NoThread, ReceiversOK
    <2>4. DeviceOK'
      <3>1. CASE UNCHANGED <<socket, history>>
        BY <1>10, <1>c, <3>1 DEF SelectFails, history, DeviceOK
      <3>2. CASE NewSession
        BY <1>10, <1>c, <3>2, SessionOK DEF SelectFails, DeviceOK
      <3> QED BY <1>10, <3>1, <3>2 DEF SelectFails
    <2> QED BY <1>b, <2>1, <2>2, <2>3, <2>4
  <1>11. ASSUME NEW t \in Threads, SelectSoftRealtime(t) PROVE TypeOK'
    <2>1. DriverOK'
      BY <1>11, <1>c, <1>d
      DEF SelectSoftRealtime, Stopped, NewSession, StartThread, Alive, DriverOK
    <2>2. CallsOK'
      BY <1>11, <1>c
      DEF SelectSoftRealtime, Stopped, NewSession, StartThread, Alive, CallsOK
    <2>3. ReceiversOK'
      BY <1>11, <1>c, StartOK DEF SelectSoftRealtime
    <2>4. DeviceOK'
      BY <1>11, <1>c, SessionOK DEF SelectSoftRealtime, DeviceOK
    <2> QED BY <1>b, <2>1, <2>2, <2>3, <2>4
  <1>12. ASSUME NEW t \in Threads, SoftRealtimeSelected(t) PROVE TypeOK'
    BY <1>12, <1>d
    DEF SoftRealtimeSelected, Return, Over, Home, Nobody, receiver, history, IInv,
       Places, TypeOK
  <1>13. ASSUME NEW t \in Threads, SoftRealtimeRefused(t) PROVE TypeOK'
    BY <1>13, <1>d
    DEF SoftRealtimeRefused, ReleaseUnlessMaster, Nobody, receiver, device, history,
       IInv, Places, TypeOK
  <1>14. ASSUME NEW t \in Threads, AfterRefusal(t) PROVE TypeOK'
    BY <1>14, <1>d
    DEF AfterRefusal, Stopped, Return, Over, Home, Nobody, receiver, history, IInv,
       Places, TypeOK
  <1>15. ASSUME NEW t \in Threads, SelectStreaming(t) PROVE TypeOK'
    <2>1. DriverOK'
      BY <1>15, <1>c, <1>d
      DEF SelectStreaming, Stopped, NewSession, ReleaseUnlessMaster, Return, Over, Home,
         Nobody, NoThread, StartThread, Alive, DriverOK
    <2>2. CallsOK'
      BY <1>15, <1>c, ReturnOK DEF SelectStreaming, Return, CallsOK
    <2>3. ReceiversOK'
      <3>1. CASE NoThread
        BY <1>c, <3>1 DEF NoThread, ReceiversOK
      <3>2. CASE StartThread(t, "strm", "started")
        BY <1>c, <3>2, StartOK
      <3> QED BY <1>15, <3>1, <3>2 DEF SelectStreaming
    <2>4. DeviceOK'
      BY <1>15, <1>c, SessionOK DEF SelectStreaming, DeviceOK
    <2> QED BY <1>b, <2>1, <2>2, <2>3, <2>4
  <1>16. ASSUME NEW t \in Threads, SelectPolling(t) PROVE TypeOK'
    <2>1. DriverOK'
      BY <1>16, <1>c, <1>d
      DEF SelectPolling, Stopped, Return, Over, Home, Nobody, ReleaseUnlessMaster,
         receiver, history, DriverOK
    <2>2. CallsOK'
      BY <1>16, <1>c
      DEF SelectPolling, Stopped, Return, Over, Home, Nobody, ReleaseUnlessMaster,
         receiver, history, CallsOK
    <2>3. ReceiversOK'
      BY <1>16, <1>c
      DEF SelectPolling, Stopped, Return, Over, Home, Nobody, ReleaseUnlessMaster,
         receiver, history, ReceiversOK
    <2>4. DeviceOK'
      BY <1>16, <1>c
      DEF SelectPolling, Stopped, Return, Over, Home, Nobody, ReleaseUnlessMaster,
         receiver, history, DeviceOK
    <2> QED BY <1>b, <2>1, <2>2, <2>3, <2>4
  <1>17. ASSUME NEW t \in Threads, EnableRefused(t) PROVE TypeOK'
    BY <1>17, <1>d
    DEF EnableRefused, Return, Over, Home, Nobody, receiver, device, history, IInv,
       Places, TypeOK
  <1>18. ASSUME NEW t \in Threads, EnableFails(t) PROVE TypeOK'
    BY <1>18, <1>d
    DEF EnableFails, Return, Over, Home, Nobody, NoThread, device, history, IInv,
       Places, TypeOK
  <1>19. ASSUME NEW t \in Threads, Enable(t) PROVE TypeOK'
    <2>1. DriverOK'
      BY <1>19, <1>c, <1>d
      DEF Enable, NewSession, StartThread, Alive, DriverOK
    <2>2. CallsOK'
      BY <1>19, <1>c
      DEF Enable, NewSession, StartThread, Alive, CallsOK
    <2>3. ReceiversOK'
      BY <1>19, <1>c, StartOK DEF Enable
    <2>4. DeviceOK'
      BY <1>19, <1>c, SessionOK DEF Enable, DeviceOK
    <2> QED BY <1>b, <2>1, <2>2, <2>3, <2>4
  <1>20. ASSUME NEW t \in Threads, Connect(t) PROVE TypeOK'
    <2>1. DriverOK'
      BY <1>20, <1>c, <1>d
      DEF Connect, Return, Over, Home, Nobody, receiver, history, DriverOK
    <2>2. CallsOK'
      <3>1. CASE Return(t)
        BY <1>c, <3>1, ReturnOK DEF Return, CallsOK
      <3>2. CASE after' = [after EXCEPT ![t] = "connectFailed"] /\ UNCHANGED <<left, was_master>>
        BY <1>c, <3>2 DEF CallsOK
      <3> QED BY <1>20, <3>1, <3>2 DEF Connect
    <2>3. ReceiversOK'
      BY <1>20, <1>c
      DEF Connect, Return, Over, Home, Nobody, receiver, history, ReceiversOK
    <2>4. DeviceOK'
      BY <1>20, <1>c
      DEF Connect, Return, Over, Home, Nobody, receiver, history, DeviceOK
    <2> QED BY <1>b, <2>1, <2>2, <2>3, <2>4
  <1>21. ASSUME NEW t \in Threads, Disable(t) PROVE TypeOK'
    <2>1. DriverOK'
      BY <1>21, <1>c, <1>d
      DEF Disable, Return, Over, Home, Nobody, receiver, history, DriverOK
    <2>2. CallsOK'
      <3>1. CASE Return(t)
        BY <1>c, <3>1, ReturnOK DEF Return, CallsOK
      <3>2. CASE UNCHANGED <<after, left, was_master>>
        BY <1>c, <3>2 DEF CallsOK
      <3> QED BY <1>21, <3>1, <3>2 DEF Disable
    <2>3. ReceiversOK'
      BY <1>21, <1>c
      DEF Disable, Return, Over, Home, Nobody, receiver, history, ReceiversOK
    <2>4. DeviceOK'
      BY <1>21, <1>c
      DEF Disable, Return, Over, Home, Nobody, receiver, history, DeviceOK
    <2> QED BY <1>b, <2>1, <2>2, <2>3, <2>4
  <1>22. ASSUME NEW t \in Threads, TransferOver(t) PROVE TypeOK'
    BY <1>22, <1>d
    DEF TransferOver, Stopped, Return, Over, Home, Nobody, receiver, history, IInv,
       Places, TypeOK
  <1>23. ASSUME NEW t \in Threads, Close(t) PROVE TypeOK'
    BY <1>23, <1>d
    DEF Close, driver, receiver, device, history, IInv, Places, TypeOK
  <1>24. ASSUME NEW t \in Threads, Closed(t) PROVE TypeOK'
    <2>1. DriverOK'
      BY <1>24, <1>c, <1>d
      DEF Closed, Stopped, Return, Over, Home, Nobody, receiver, history, DriverOK
    <2>2. CallsOK'
      BY <1>24, <1>c
      DEF Closed, Stopped, Return, Over, Home, Nobody, receiver, history, CallsOK
    <2>3. ReceiversOK'
      BY <1>24, <1>c
      DEF Closed, Stopped, Return, Over, Home, Nobody, receiver, history, ReceiversOK
    <2>4. DeviceOK'
      BY <1>24, <1>c
      DEF Closed, Stopped, Return, Over, Home, Nobody, receiver, history, DeviceOK
    <2> QED BY <1>b, <2>1, <2>2, <2>3, <2>4
  <1>25. ASSUME NEW t \in Threads, ReadTimesOut(t) PROVE TypeOK'
    BY <1>25, <1>d
    DEF ReadTimesOut, Nobody, Over, Home, driver, receiver, device, history, IInv,
       Places, TypeOK
  <1>26. ASSUME NEW t \in Threads, ReadStarts(t) PROVE TypeOK'
    <2>1. DriverOK'
      BY <1>26, <1>c, <1>d
      DEF ReadStarts, Nobody, Min2, receiver, device, history, DriverOK
    <2>2. CallsOK'
      <3>1. NumElements(fifo) \in Nat /\ left[t] \in Nat
        BY <1>c, Count DEF DriverOK, CallsOK
      <3>2. Min2(left[t], NumElements(fifo)) \in Nat
        BY <3>1 DEF Min2
      <3> QED BY <1>26, <1>c, <3>2 DEF ReadStarts, CallsOK
    <2>3. ReceiversOK'
      BY <1>26, <1>c
      DEF ReadStarts, Nobody, Min2, receiver, device, history, ReceiversOK
    <2>4. DeviceOK'
      BY <1>26, <1>c
      DEF ReadStarts, Nobody, Min2, receiver, device, history, DeviceOK
    <2> QED BY <1>b, <2>1, <2>2, <2>3, <2>4
  <1>27. ASSUME NEW t \in Threads, ReadElement(t) PROVE TypeOK'
    <2>1. DriverOK'
      BY <1>27, <1>c, <1>d
      DEF ReadElement, Unlock, Over, Home, Nobody, history, receiver, device, DriverOK
    <2>2. CallsOK'
      BY <1>27, <1>c
      DEF ReadElement, Unlock, Over, Home, Nobody, history, receiver, device, CallsOK
    <2>3. ReceiversOK'
      BY <1>27, <1>c
      DEF ReadElement, Unlock, Over, Home, Nobody, history, receiver, device,
         ReceiversOK
    <2>4. DeviceOK'
      <3>1. CASE last' = Oldest(fifo) /\ NumElements(fifo) > 0 /\ told' = FALSE
                 /\ missing' = {p \in missing : p > last'}
        <4>1. last' \in 0 .. MaxPackets
          BY <3>1, OldestPacket, PacketAssumption, BoundsAssumption
        <4> QED BY <1>27, <1>c, <3>1, <4>1 DEF ReadElement, device, DeviceOK
      <3>2. CASE UNCHANGED <<last, missing>> /\ told' \in BOOLEAN
        BY <1>27, <1>c, <3>2 DEF ReadElement, device, DeviceOK
      <3> QED BY <1>27, <1>c, <3>1, <3>2 DEF ReadElement, history, DeviceOK
    <2> QED BY <1>b, <2>1, <2>2, <2>3, <2>4
  <1>28. ASSUME NEW t \in Threads, Clear(t) PROVE TypeOK'
    <2>1. DriverOK'
      BY <1>28, <1>c, <1>d
      DEF Clear, Nobody, Over, Home, receiver, device, DriverOK
    <2>2. CallsOK'
      BY <1>28, <1>c
      DEF Clear, Nobody, Over, Home, receiver, device, CallsOK
    <2>3. ReceiversOK'
      BY <1>28, <1>c
      DEF Clear, Nobody, Over, Home, receiver, device, ReceiversOK
    <2>4. DeviceOK'
      <3>1. last' \in 0 .. MaxPackets
        <4>1. IsFIFO(fifo) /\ Contents(fifo) \in Seq(Packet)
              /\ Len(Contents(fifo)) = NumElements(fifo)
          BY ContentsLength DEF IInv, TypeOK, Stored
        <4>2. Contents(fifo) # <<>> => Contents(fifo)[NumElements(fifo)] \in Packet
          BY <4>1
        <4> QED BY <1>28, <1>c, <4>2, PacketAssumption, BoundsAssumption DEF Clear, DeviceOK
      <3> QED BY <1>28, <1>c, <3>1 DEF Clear, device, DeviceOK
    <2> QED BY <1>b, <2>1, <2>2, <2>3, <2>4
  <1>29. ASSUME NEW r \in Receivers, ReceiverEnds(r) PROVE TypeOK'
    <2>1. DriverOK'
      BY <1>29, <1>c, <1>d
      DEF ReceiverEnds, ThreadEnds, driver, device, history, DriverOK
    <2>2. CallsOK'
      BY <1>29, <1>c
      DEF ReceiverEnds, ThreadEnds, driver, device, history, CallsOK
    <2>3. ReceiversOK'
      <3>1. <<>> \in Seq(Packet) /\ Len(<<>>) = 0 /\ 0 <= BufferSize
        BY BoundsAssumption, EmptySeq
      <3> QED BY <1>29, <1>c, <3>1 DEF ReceiverEnds, ThreadEnds, ReceiversOK
    <2>4. DeviceOK'
      BY <1>29, <1>c
      DEF ReceiverEnds, ThreadEnds, driver, device, history, DeviceOK
    <2> QED BY <1>b, <2>1, <2>2, <2>3, <2>4
  <1>30. ASSUME NEW r \in Receivers, DataArrived(r) PROVE TypeOK'
    BY <1>30, <1>d
    DEF DataArrived, driver, device, history, IInv, Places, TypeOK
  <1>31. ASSUME NEW r \in Receivers, LockFIFO(r) PROVE TypeOK'
    <2>1. DriverOK'
      BY <1>31, <1>c, <1>d
      DEF LockFIFO, Nobody, receiver, device, history, DriverOK
    <2>2. CallsOK'
      BY <1>31, <1>c
      DEF LockFIFO, Nobody, receiver, device, history, CallsOK
    <2>3. ReceiversOK'
      BY <1>31, <1>c
      DEF LockFIFO, Nobody, receiver, device, history, ReceiversOK
    <2>4. DeviceOK'
      BY <1>31, <1>c
      DEF LockFIFO, Nobody, receiver, device, history, DeviceOK
    <2> QED BY <1>b, <2>1, <2>2, <2>3, <2>4
  <1>32. ASSUME NEW r \in Receivers, ReceiveEnds(r) PROVE TypeOK'
    <2>1. DriverOK'
      BY <1>32, <1>c, <1>d
      DEF ReceiveEnds, Receiving, Chunk, Min2, Nobody, ThreadEnds, SocketAfter,
         Received, Truncated, DriverOK
    <2>2. CallsOK'
      BY <1>32, <1>c
      DEF ReceiveEnds, Receiving, Chunk, Min2, Nobody, ThreadEnds, SocketAfter,
         Received, Truncated, CallsOK
    <2>3. ReceiversOK'
      <3>1. <<>> \in Seq(Packet) /\ Len(<<>>) = 0 /\ 0 <= BufferSize
        BY BoundsAssumption, EmptySeq
      <3> QED BY <1>32, <1>c, <3>1 DEF ReceiveEnds, ThreadEnds, ReceiversOK
    <2>4. DeviceOK'
      <3>1. /\ Received(r) \in Nat /\ Received(r) <= Len(socket)
            /\ SocketAfter(r) \in Seq(Packet)
        BY ChunkRange
      <3>2. {socket[i] : i \in 1 .. Received(r)} \subseteq Packet
        BY <1>c, <3>1 DEF DeviceOK
      <3> QED BY <1>32, <1>c, <3>1, <3>2 DEF ReceiveEnds, DeviceOK
    <2> QED BY <1>b, <2>1, <2>2, <2>3, <2>4
  <1>33. ASSUME NEW r \in Receivers, Receive(r) PROVE TypeOK'
    <2>1. DriverOK'
      BY <1>33, <1>c, <1>d
      DEF Receive, Receiving, Chunk, Min2, SocketAfter, Received, Truncated, driver,
         DriverOK
    <2>2. CallsOK'
      <3>1. NumElements(fifo) \in Nat /\ fifo.max \in Nat
        BY Count, <1>c DEF DriverOK, IsFIFO
      <3>2. FreeElements(fifo) \in Nat
        BY <3>1 DEF FreeElements
      <3>3. data'[r] \in Seq(Packet)
        <4>1. SubSeq(socket, 1, Chunk(r)) \in Seq(Packet)
          BY <1>c, ChunkRange, SubSeqProperties DEF DeviceOK
        <4> QED BY <1>33, <1>c, <4>1, ConcatProperties DEF Receive, ReceiversOK
      <3>4. Len(data'[r]) \in Nat
        BY <3>3
      <3>5. Min2(Len(data'[r]), FreeElements(fifo)) \in Nat
        BY <3>2, <3>4 DEF Min2
      <3> QED BY <1>33, <1>c, <3>5 DEF Receive, CallsOK
    <2>3. ReceiversOK'
      <3>1. /\ Chunk(r) \in Nat /\ Chunk(r) <= Len(socket)
            /\ Chunk(r) <= BufferSize - Len(data[r])
        BY ChunkRange
      <3>2. /\ SubSeq(socket, 1, Chunk(r)) \in Seq(Packet)
            /\ Len(SubSeq(socket, 1, Chunk(r))) = Chunk(r)
        BY <1>c, <3>1, SubSeqProperties DEF DeviceOK
      <3>3. /\ data[r] \o SubSeq(socket, 1, Chunk(r)) \in Seq(Packet)
            /\ Len(data[r] \o SubSeq(socket, 1, Chunk(r))) = Len(data[r]) + Chunk(r)
        BY <1>c, <3>2, ConcatProperties DEF ReceiversOK
      <3>4. Len(data[r] \o SubSeq(socket, 1, Chunk(r))) <= BufferSize
        BY <1>c, <3>1, <3>3, BoundsAssumption DEF ReceiversOK
      <3> QED BY <1>33, <1>c, <3>3, <3>4 DEF Receive, ReceiversOK
    <2>4. DeviceOK'
      <3>1. SocketAfter(r) \in Seq(Packet)
        BY ChunkRange
      <3>2. Truncated(r) => Head(socket) \in Packet
        BY <1>c DEF Truncated, DeviceOK
      <3> QED BY <1>33, <1>c, <3>1, <3>2 DEF Receive, DeviceOK
    <2> QED BY <1>b, <2>1, <2>2, <2>3, <2>4
  <1>34. ASSUME NEW r \in Receivers, Insert(r) PROVE TypeOK'
    <2>1. DriverOK'
      BY <1>34, <1>c, <1>d
      DEF Insert, device, history, DriverOK
    <2>2. CallsOK'
      BY <1>34, <1>c
      DEF Insert, device, history, CallsOK
    <2>3. ReceiversOK'
      <3>1. NumElements(fifo') \in Nat
        BY <1>d, Count
      <3>2. CASE UNCHANGED <<data, num>>
        BY <1>34, <1>c, <3>2 DEF Insert, ReceiversOK
      <3>3. CASE left[r] > 0 /\ data' = [data EXCEPT ![r] = Tail(data[r])]
                 /\ num' = [num EXCEPT ![r] = NumElements(fifo')]
        <4>1. data[r] \in Seq(Packet) /\ Len(data[r]) > 0 /\ Len(data[r]) <= BufferSize
          BY <1>34, <1>c, <3>3 DEF Insert, IInv, Buffers, ReceiversOK, CallsOK
        <4>2. Tail(data[r]) \in Seq(Packet) /\ Len(Tail(data[r])) = Len(data[r]) - 1
          BY <4>1
        <4>3. Len(Tail(data[r])) <= BufferSize
          BY <4>1, <4>2, BoundsAssumption
        <4> QED BY <1>34, <1>c, <3>1, <3>3, <4>2, <4>3 DEF Insert, ReceiversOK
      <3> QED BY <1>34, <3>2, <3>3 DEF Insert
    <2>4. DeviceOK'
      BY <1>34, <1>c
      DEF Insert, device, history, DeviceOK
    <2> QED BY <1>b, <2>1, <2>2, <2>3, <2>4
  <1>35. ASSUME NEW r \in Receivers, UnlockFIFO(r) PROVE TypeOK'
    <2>1. DriverOK'
      BY <1>35, <1>c, <1>d
      DEF UnlockFIFO, Chunk, Min2, Nobody, SocketAfter, Received, Truncated, receiver,
         DriverOK
    <2>2. CallsOK'
      BY <1>35, <1>c
      DEF UnlockFIFO, Chunk, Min2, Nobody, SocketAfter, Received, Truncated, receiver,
         CallsOK
    <2>3. ReceiversOK'
      BY <1>35, <1>c
      DEF UnlockFIFO, Chunk, Min2, Nobody, SocketAfter, Received, Truncated, receiver,
         ReceiversOK
    <2>4. DeviceOK'
      <3>1. SocketAfter(r) \in Seq(Packet)
        BY ChunkRange
      <3>2. Truncated(r) => Head(socket) \in Packet
        BY <1>c DEF Truncated, DeviceOK
      <3> QED BY <1>35, <1>c, <3>1, <3>2 DEF UnlockFIFO, DeviceOK
    <2> QED BY <1>b, <2>1, <2>2, <2>3, <2>4
  <1>36. ASSUME NEW r \in Receivers, CallbackReturns(r) PROVE TypeOK'
    BY <1>36, <1>d
    DEF CallbackReturns, driver, device, history, IInv, Places, TypeOK
  <1>37. ASSUME SetFIFOSize PROVE TypeOK'
    BY <1>37, <1>d
    DEF SetFIFOSize, receiver, device, history, IInv, Places, TypeOK
  <1>38. ASSUME Send PROVE TypeOK'
    <2>1. DriverOK'
      BY <1>38, <1>c, <1>d
      DEF Send, driver, receiver, DriverOK
    <2>2. CallsOK'
      BY <1>38, <1>c
      DEF Send, driver, receiver, CallsOK
    <2>3. ReceiversOK'
      BY <1>38, <1>c
      DEF Send, driver, receiver, ReceiversOK
    <2>4. DeviceOK'
      <3>1. sent' \in 0 .. MaxPackets /\ sent' \in Packet
        BY <1>38, <1>c, PacketAssumption, BoundsAssumption DEF Send, DeviceOK
      <3>2. Append(socket, sent') \in Seq(Packet)
        BY <1>c, <3>1, AppendProperties DEF DeviceOK
      <3> QED BY <1>38, <1>c, <3>1, <3>2 DEF Send, DeviceOK
    <2> QED BY <1>b, <2>1, <2>2, <2>3, <2>4
  <1> QED BY <1>1, <1>2, <1>3, <1>4, <1>5, <1>6, <1>7, <1>8, <1>9, <1>10, <1>11, <1>12,
       <1>13, <1>14, <1>15, <1>16, <1>17, <1>18, <1>19, <1>20, <1>21, <1>22, <1>23,
       <1>24, <1>25, <1>26, <1>27, <1>28, <1>29, <1>30, <1>31, <1>32, <1>33, <1>34,
       <1>35, <1>36, <1>37, <1>38
    DEF Next, ModeStep, ReadStep, ReceiverStep

LEMMA InitIInv == Init => IInv
  <1> SUFFICES ASSUME Init PROVE IInv
    OBVIOUS
  <1>1. IsFIFO(fifo) /\ Contents(fifo) = <<>>
    <2>1. 0 \in Nat /\ 0 # 1
      OBVIOUS
    <2> QED BY <2>1, Created DEF Init, DestroyedFIFO
  <1>2. 0 \in 0 .. MaxPackets /\ <<>> \in Seq(Packet) /\ Len(<<>>) = 0 /\ 0 <= BufferSize
    BY BoundsAssumption, EmptySeq
  <1>3. DriverOK
    BY <1>1, ThreadFacts DEF Init, DriverOK
  <1>4. CallsOK /\ ReceiversOK /\ DeviceOK
    BY <1>2 DEF Init, CallsOK, ReceiversOK, DeviceOK
  <1>5. TypeOK
    BY <1>3, <1>4 DEF TypeOK, DriverOK, CallsOK, ReceiversOK, DeviceOK
  <1>6. Places
    BY ThreadFacts DEF Init, Places, ProgramPlaces, ReceiverPlaces
  <1>7. Started /\ Buffers /\ Stored
    BY <1>1, <1>2, ThreadFacts DEF Init, Started, Alive, Buffers, Stored
  <1> QED BY <1>5, <1>6, <1>7 DEF IInv

LEMMA StepIInv ==
    ASSUME CallbackRule
    PROVE  IInv /\ [Next]_vars => IInv'
  <1> SUFFICES ASSUME IInv, [Next]_vars PROVE IInv'
    OBVIOUS
  <1>1. CASE Next
    BY <1>1, StepTypeOK, StepPlaces, StepStarted, StepBuffers, StepStored DEF IInv
  <1>2. CASE UNCHANGED vars
    BY <1>2 DEF vars, driver, receiver, device, history, IInv, TypeOK, Places, Started,
       Alive, Buffers, Stored
  <1> QED BY <1>1, <1>2

\* A change of the FIFO is a step of the queue or leaves it.
LEMMA QueueStep == IInv /\ [Next]_vars => [Queue!Next]_Queue!vars
  <1> SUFFICES ASSUME IInv, [Next]_vars PROVE [Queue!Next]_Queue!vars
    OBVIOUS
  <1> DEFINE cap == IF fifo.max = 0 THEN 0 ELSE fifo.max - 1
             q == Contents(fifo)
  <1>1. /\ IsFIFO(fifo) /\ q \in Seq(Packet) /\ fifosize \in Nat \ {0, 1}
        /\ fifo.max \in Nat /\ fifo.overflow \in BOOLEAN
        /\ NumElements(fifo) \in Nat /\ Len(q) = NumElements(fifo)
    BY SizesAssumption, Count, ContentsLength DEF IInv, TypeOK, Stored, IsFIFO
  <1> USE DEF Queue!Next, Queue!vars
  <1>2. CASE fifo' = fifo
    BY <1>2
  <1>3. ASSUME NEW max \in Nat, max # 1, fifo' = CreateFIFO(max)
        PROVE  Queue!Renew
    <2>1. fifo'.max = max /\ Contents(fifo') = <<>> /\ fifo'.overflow = FALSE
      BY <1>3, Created
    <2>2. cap' \in Nat
      BY <1>3, <2>1
    <2> QED BY <2>1, <2>2 DEF Queue!Renew
  <1>4. CASE fifo' = DestroyedFIFO \/ fifo' = CreateFIFO(fifosize)
    BY <1>1, <1>3, <1>4 DEF DestroyedFIFO
  <1>5. ASSUME fifo.max > 1, NEW p \in Packet, fifo' = InsertFIFO(fifo, p)
        PROVE  Queue!Put /\ cap' = cap
    <2>1. fifo'.max = fifo.max /\ NumElements(fifo) <= fifo.max - 1
      <3>1. InsertFIFO(fifo, p).max = fifo.max
        BY <1>1, <1>5, Inserted
      <3>2. NumElements(fifo) <= fifo.max - 1
        BY <1>1, <1>5, Count
      <3> QED BY <1>5, <3>1, <3>2
    <2>2. CASE NumElements(fifo) < fifo.max - 1
      <3>1. Contents(fifo') = Append(q, p) /\ fifo'.overflow = fifo.overflow
        BY <1>1, <1>5, <2>2, Inserted
      <3>2. Len(q) < cap
        BY <1>1, <1>5, <2>2
      <3> QED BY <2>1, <3>1, <3>2 DEF Queue!Put
    <2>3. CASE NumElements(fifo) = fifo.max - 1
      <3>1. Contents(fifo') = Append(Tail(q), p) /\ fifo'.overflow = TRUE
        BY <1>1, <1>5, <2>3, Inserted
      <3>2. Len(q) = cap /\ cap > 0
        BY <1>1, <1>5, <2>3
      <3> QED BY <2>1, <3>1, <3>2 DEF Queue!Put
    <2> QED BY <1>1, <2>1, <2>2, <2>3
  <1>6. CASE NumElements(fifo) > 0 /\ ~fifo.overflow /\ fifo' = RemoveElementFIFO(fifo)
    BY <1>1, <1>6, Removed DEF Queue!Take
  <1>7. CASE NumElements(fifo) > 0 /\ fifo.overflow /\ fifo' = RetrieveFIFO(fifo)
    <2>1. LET g == RemoveElementFIFO(fifo)
          IN  IsFIFO(g) /\ g.max = fifo.max /\ Contents(g) = Tail(q) /\ q # <<>>
      BY <1>1, <1>7, Removed
    <2>2. fifo'.max = fifo.max /\ Contents(fifo') = Tail(q) /\ fifo'.overflow = FALSE
      BY <1>7, <2>1, ReportedFlag DEF RetrieveFIFO
    <2> QED BY <1>7, <2>1, <2>2 DEF Queue!Report
  <1>8. CASE NumElements(fifo) > 0 /\ fifo.overflow /\ fifo' = Reported(fifo)
    <2>1. q # <<>>
      BY <1>1, <1>8
    <2> QED BY <1>1, <1>8, <2>1, ReportedFlag DEF Queue!Report
  <1>9. CASE fifo' = ClearFIFO(fifo)
    BY <1>1, <1>9, Cleared DEF Queue!Clear
  <1>10. CASE UNCHANGED vars
    BY <1>2, <1>10 DEF vars, driver
  <1>11. CASE Next
    BY <1>2, <1>4, <1>5, <1>6, <1>7, <1>8, <1>9, <1>11, FifoSteps DEF FifoChange
  <1> QED BY <1>10, <1>11

-----------------------------------------------------------------------------
\* The inductive invariant holds in every behaviour, provided that the callback
\* does not end the receiver it runs on.
THEOREM Invariance ==
    ASSUME CallbackRule
    PROVE  Spec => []IInv
  BY InitIInv, StepIInv, PTL DEF Spec

\* The FIFO's indices stay in the ring, and locks, places and buffers in range.
THEOREM TypeCorrect ==
    ASSUME CallbackRule
    PROVE  Spec => []TypeOK
  <1>1. IInv => TypeOK
    BY DEF IInv
  <1> QED BY <1>1, Invariance, PTL

\* There is never a second receiver, and none while a mode changes.
THEOREM NoSecondReceiver ==
    ASSUME CallbackRule
    PROVE  Spec => []OneReceiver
  <1>1. IInv => OneReceiver
    <2> SUFFICES ASSUME IInv PROVE OneReceiver
      OBVIOUS
    <2> DEFINE alive == {r \in Receivers : Alive(r)}
    <2>1. alive \subseteq {thread}
      BY DEF IInv, Started
    <2>2. IsFiniteSet({thread}) /\ Cardinality({thread}) = 1
      BY FS_Singleton
    <2>3. Cardinality(alive) <= 1
      BY <2>1, <2>2, FS_Subset
    <2>4. ASSUME NEW t \in Threads, At(t, "stopped")
          PROVE  \A r \in Receivers : ~Alive(r)
      <3>1. t = App
        BY <2>4, ProgramOnly DEF At
      <3> QED BY <2>4, <3>1 DEF At, IInv, Started
    <2> QED BY <2>3, <2>4 DEF OneReceiver
  <1> QED BY <1>1, Invariance, PTL

\* A receiver always has a FIFO with room for a packet.
THEOREM FifoWhileReceiving ==
    ASSUME CallbackRule
    PROVE  Spec => []ReceiverHasFifo
  <1>1. IInv => ReceiverHasFifo
    BY DEF IInv, Started, ReceiverHasFifo
  <1> QED BY <1>1, Invariance, PTL

\* The ring implements the queue that PacketFifo specifies.
THEOREM RingIsQueue ==
    ASSUME CallbackRule
    PROVE  Spec => FifoIsQueue
  <1>1. Init => Queue!Init
    <2>1. 0 \in Nat /\ 0 # 1
      OBVIOUS
    <2> QED BY <2>1, Created DEF Init, Queue!Init, DestroyedFIFO
  <1> QED BY <1>1, QueueStep, Invariance, PTL DEF Spec, FifoIsQueue, Queue!Spec

=============================================================================
