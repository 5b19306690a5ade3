--------------------------- MODULE DaqRing_proofs ---------------------------
(***************************************************************************)
(* The event ring of DaqRing for every number of events and of slots: the  *)
(* type invariant, the exclusion of the two threads from one slot, and the *)
(* order, the headers and the count of the events in the run file, all     *)
(* from one inductive invariant.                                           *)
(*                                                                         *)
(* The argument counts the events in the ring.  `Pending' of them were     *)
(* posted and not released; as long as nobody has stopped the run the two  *)
(* semaphores are what is left of the ring and of these events, minus what *)
(* the threads hold.  A stop adds posts to both, so the equations become   *)
(* bounds; but who takes a surplus post meets forced_stop before it        *)
(* touches the ring, and who is already inside keeps the room it had.      *)
(***************************************************************************)
EXTENDS DaqRing, TLAPS

Reading == IF producer \in {"read", "laser", "post"} THEN 1 ELSE 0
Holding == IF producer = "check" THEN 1 ELSE Reading
Writing == IF consumer \in {"time", "laser", "data", "post"} THEN 1 ELSE 0
Taking == IF consumer = "check" THEN 1 ELSE Writing
\* Events whose slot the consumer has released, and those now in the ring.
Released == Len(file) - (IF consumer = "post" THEN 1 ELSE 0)
Pending == written_ev - Reading - Released
Wrap(x) == IF x >= NBuffers THEN x - NBuffers ELSE x
Posted(step) == IF handler.at \in step THEN 0 ELSE 1

\* Where the threads are and how far their counters have come.
Progress ==
    /\ producer \in {"wait", "check", "loop"} => written_ev < NEvents
    /\ producer \in {"read", "laser", "post"} => written_ev > 0
    /\ consumer = "open" => file = <<>> /\ read_ev = 0
    /\ consumer \in {"wait", "check", "time", "laser", "data"} => read_ev = Len(file) + 1
    /\ consumer = "post" => read_ev = Len(file) /\ read_ev > 0
    /\ consumer = "close" => \/ read_ev = NEvents /\ Len(file) = NEvents
                             \/ read_ev = Len(file) + 1 /\ handler.at # "none"
    /\ HeaderCount
    /\ handler.at # "over" => lost_ev = 0
    /\ handler.at # "none" \/ consumer = "unlock" => forced_stop
    /\ forced_stop => handler.at # "none" \/ consumer \in {"unlock", "done"}

\* The semaphores and the ring.
Counts ==
    /\ Pending \in 0 .. NBuffers
    /\ Pending + Reading <= NBuffers /\ Writing <= Pending
    /\ ~forced_stop => /\ emptyBuffers = NBuffers - Pending - Holding
                       /\ fullBuffers = Pending - Taking
    /\ forced_stop =>
          /\ emptyBuffers <= NBuffers - Pending - Reading + Posted({"none", "empty"})
                             + (IF consumer = "done" THEN 1 ELSE 0)
          /\ fullBuffers <= Pending - Writing + Posted({"none", "empty", "full"})

\* The slots between the two addresses hold the next events of the file.
Contents ==
    /\ waddr = Wrap(raddr + Pending)
    /\ \A i \in 0 .. NBuffers - 1 :
          i < Pending => buffer[Wrap(raddr + i)] = Released + 1 + i
    /\ producer \in {"laser", "post"} => buffer[waddr] = written_ev
    /\ FileInOrder

\* The global header is the producer's, at most the ring's length ahead.
Headers ==
    /\ eh = written_ev /\ laser <= written_ev
    /\ consumer \in {"laser", "data"} => /\ record.time > Len(file)
                                         /\ record.time <= Len(file) + NBuffers
    /\ consumer = "data" => record.laser <= Len(file) + NBuffers
    /\ HeaderAhead

IInv == TypeOK /\ Progress /\ Counts /\ Contents /\ Headers


-----------------------------------------------------------------------------
\* The wrapped address stays in the ring, and taking a step from the slot of
\* the reader or beyond it is a step of the wrapped address.
LEMMA WrapSlot ==
    ASSUME NEW r \in Slots, NEW k \in 0 .. NBuffers
    PROVE  /\ Wrap(r + k) \in Slots
           /\ k < NBuffers => NextSlot(Wrap(r + k)) = Wrap(r + k + 1)
           /\ k < NBuffers => Wrap(NextSlot(r) + k) = Wrap(r + k + 1)
           /\ Wrap(r) = r /\ Wrap(r + 0) = r
  BY BuffersAssumption DEF Slots, Wrap, NextSlot

\* Within one turn of the ring, different distances are different slots.
LEMMA WrapInjective ==
    ASSUME NEW r \in Slots, NEW i \in 0 .. NBuffers - 1, NEW k \in 0 .. NBuffers - 1,
           Wrap(r + i) = Wrap(r + k)
    PROVE  i = k
  BY BuffersAssumption DEF Slots, Wrap

LEMMA InitIInv == Init => IInv
  <1> SUFFICES ASSUME Init PROVE IInv
    OBVIOUS
  <1>1. TypeOK
    BY EventsAssumption, BuffersAssumption DEF Init, TypeOK, ProducerPC, ConsumerPC,
       HandlerPC, Threads, Slots, Events
  <1>2. Progress
    BY EventsAssumption DEF Init, Progress, HeaderCount
  <1>3. Counts
    <2>1. Reading = 0 /\ Holding = 0 /\ Writing = 0 /\ Taking = 0
      BY DEF Init, Reading, Holding, Writing, Taking
    <2>2. Released = 0
      BY DEF Init, Released
    <2>3. Pending = 0
      BY <2>1, <2>2 DEF Init, Pending
    <2> QED BY <2>1, <2>3, BuffersAssumption DEF Init, Counts
  <1>4. Contents
    BY BuffersAssumption DEF Init, Contents, Wrap, Pending, Reading, Released, FileInOrder
  <1>5. Headers
    BY DEF Init, Headers, HeaderAhead
  <1> QED BY <1>1, <1>2, <1>3, <1>4, <1>5 DEF IInv

LEMMA StepIInv == IInv /\ [Next]_vars => IInv'
  <1> SUFFICES ASSUME IInv, [Next]_vars PROVE IInv'
    OBVIOUS
  <1> USE EventsAssumption, BuffersAssumption DEF IInv
  <1>a. /\ Reading \in 0 .. 1 /\ Holding \in 0 .. 1 /\ Writing \in 0 .. 1
        /\ Taking \in 0 .. 1
        /\ Released \in Int /\ Pending \in 0 .. NBuffers
    BY DEF Reading, Holding, Writing, Taking, Released, Counts, TypeOK
  <1>b. \A s : Posted(s) \in 0 .. 1
    BY DEF Posted

  <1>1. CASE ProducerWait
    <2>1. TypeOK'
      BY <1>1 DEF ProducerWait, ProducerGo, Runs, consumerVars, TypeOK, ProducerPC,
         ConsumerPC, HandlerPC, Threads, Slots, Events
    <2>2. Progress'
      BY <1>1 DEF ProducerWait, ProducerGo, Runs, consumerVars, Progress, HeaderCount,
         TypeOK, Events
    <2>3. Counts'
      BY <1>1, SMTT(30)
        DEF ProducerWait, ProducerGo, Runs, consumerVars, Counts, Pending, Reading,
         Holding, Writing, Taking, Released, Posted, TypeOK, Slots, Events
    <2>4. Contents'
      BY <1>1 DEF ProducerWait, ProducerGo, Runs, consumerVars, Contents, FileInOrder,
         Pending, Reading, Released, Wrap, TypeOK, Slots, Events
    <2>5. Headers'
      BY <1>1 DEF ProducerWait, ProducerGo, Runs, consumerVars, Headers, HeaderAhead,
         TypeOK, Events
    <2> QED BY <2>1, <2>2, <2>3, <2>4, <2>5
  <1>2. CASE ProducerCheck
    <2>1. TypeOK'
      <3>1. CASE forced_stop
        BY <1>2, <3>1 DEF ProducerCheck, ProducerGo, Runs, consumerVars, TypeOK,
           ProducerPC, ConsumerPC, HandlerPC, Threads, Slots, Events, Progress
      <3>2. CASE ~forced_stop
        BY <1>2, <3>2, SMTT(30) DEF ProducerCheck, ProducerGo, Runs, consumerVars, TypeOK,
           ProducerPC, ConsumerPC, HandlerPC, Threads, Slots, Events, Progress
      <3> QED BY <3>1, <3>2
    <2>2. Progress'
      <3>1. CASE forced_stop
        BY <1>2, <3>1 DEF ProducerCheck, ProducerGo, Runs, consumerVars, Progress,
           HeaderCount, TypeOK, Events
      <3>2. CASE ~forced_stop
        BY <1>2, <3>2 DEF ProducerCheck, ProducerGo, Runs, consumerVars, Progress,
           HeaderCount, TypeOK, Events
      <3> QED BY <3>1, <3>2
    <2>3. Counts'
      <3>1. CASE forced_stop
        BY <1>2, <3>1 DEF ProducerCheck, ProducerGo, Runs, consumerVars, Counts, Pending,
           Reading, Holding, Writing, Taking, Released, Posted, TypeOK, Slots, Events
      <3>2. CASE ~forced_stop
        <4>1. Reading = 0 /\ Reading' = 1 /\ Holding = 1 /\ Holding' = 1
              /\ Writing' = Writing /\ Taking' = Taking /\ Released' = Released
              /\ Pending' = Pending
          BY <1>2, <3>2, <1>a DEF ProducerCheck, ProducerGo, Runs, consumerVars, Reading,
             Holding, Writing, Taking, Released, Pending, TypeOK, Slots, Events
        <4>2. /\ Posted({"none", "empty"})' = Posted({"none", "empty"})
              /\ Posted({"none", "empty", "full"})' = Posted({"none", "empty", "full"})
          BY <1>2 DEF ProducerCheck, ProducerGo, Runs, consumerVars, Posted, TypeOK,
             HandlerPC
        <4> QED BY <1>2, <3>2, <4>1, <4>2, <1>a, <1>b DEF ProducerCheck, ProducerGo,
             Runs, consumerVars, Counts, TypeOK, Slots, Events
      <3> QED BY <3>1, <3>2
    <2>4. Contents'
      <3>1. CASE forced_stop
        BY <1>2, <3>1 DEF ProducerCheck, ProducerGo, Runs, consumerVars, Contents,
           FileInOrder, Pending, Reading, Released, Wrap, TypeOK, Slots, Events
      <3>2. CASE ~forced_stop
        <4>1. Pending' = Pending /\ Released' = Released
          BY <1>2, <3>2 DEF ProducerCheck, ProducerGo, Runs, consumerVars, Pending,
             Reading, Released, TypeOK, Events
        <4> QED BY <1>2, <3>2, <4>1 DEF ProducerCheck, ProducerGo, Runs, consumerVars,
             Contents, FileInOrder, Wrap
      <3> QED BY <3>1, <3>2
    <2>5. Headers'
      <3>1. CASE forced_stop
        BY <1>2, <3>1 DEF ProducerCheck, ProducerGo, Runs, consumerVars, Headers,
           HeaderAhead, TypeOK, Events
      <3>2. CASE ~forced_stop
        BY <1>2, <3>2 DEF ProducerCheck, ProducerGo, Runs, consumerVars, Headers,
           HeaderAhead, TypeOK, Events
      <3> QED BY <3>1, <3>2
    <2> QED BY <2>1, <2>2, <2>3, <2>4, <2>5
  <1>3. CASE ProducerRead
    <2>1. TypeOK'
      BY <1>3 DEF ProducerRead, ProducerGo, Runs, consumerVars, TypeOK, ProducerPC,
         ConsumerPC, HandlerPC, Threads, Slots, Events
    <2>2. Progress'
      BY <1>3 DEF ProducerRead, ProducerGo, Runs, consumerVars, Progress, HeaderCount,
         TypeOK, Events
    <2>3. Counts'
      BY <1>3 DEF ProducerRead, ProducerGo, Runs, consumerVars, Counts, Pending, Reading,
         Holding, Writing, Taking, Released, Posted, TypeOK, Slots, Events
    <2>4. Contents'
      <3>1. Pending' = Pending /\ Released' = Released /\ Pending < NBuffers
        BY <1>3, <1>a, SMTT(30)
          DEF ProducerRead, ProducerGo, Runs, consumerVars, Pending, Reading,
           Released, Counts, TypeOK, Events
      <3>2. ASSUME NEW i \in 0 .. NBuffers - 1, i < Pending
            PROVE  buffer'[Wrap(raddr + i)] = buffer[Wrap(raddr + i)]
        <4>1. Wrap(raddr + i) # waddr
          BY <3>1, <3>2, <1>a, WrapInjective DEF Contents, TypeOK
        <4> QED BY <1>3, <4>1, <3>2, WrapSlot DEF ProducerRead, TypeOK
      <3>3. buffer'[waddr] = written_ev
        BY <1>3 DEF ProducerRead, TypeOK
      <3> QED BY <1>3, <3>1, <3>2, <3>3 DEF ProducerRead, ProducerGo, Runs, consumerVars,
           Contents, FileInOrder, Wrap
    <2>5. Headers'
      BY <1>3 DEF ProducerRead, ProducerGo, Runs, consumerVars, Headers, HeaderAhead,
         TypeOK, Events
    <2> QED BY <2>1, <2>2, <2>3, <2>4, <2>5
  <1>4. CASE ProducerLaser
    <2>1. TypeOK'
      BY <1>4 DEF ProducerLaser, ProducerGo, Runs, consumerVars, TypeOK, ProducerPC,
         ConsumerPC, HandlerPC, Threads, Slots, Events
    <2>2. Progress'
      BY <1>4 DEF ProducerLaser, ProducerGo, Runs, consumerVars, Progress, HeaderCount,
         TypeOK, Events
    <2>3. Counts'
      BY <1>4 DEF ProducerLaser, ProducerGo, Runs, consumerVars, Counts, Pending,
         Reading, Holding, Writing, Taking, Released, Posted, TypeOK, Slots, Events
    <2>4. Contents'
      BY <1>4 DEF ProducerLaser, ProducerGo, Runs, consumerVars, Contents, FileInOrder,
         Pending, Reading, Released, Wrap, TypeOK, Slots, Events
    <2>5. Headers'
      <3>1. laser' <= written_ev
        BY <1>4 DEF ProducerLaser, Headers, TypeOK, Events
      <3> QED BY <1>4, <3>1 DEF ProducerLaser, ProducerGo, Runs, consumerVars, Headers,
           HeaderAhead
    <2> QED BY <2>1, <2>2, <2>3, <2>4, <2>5
  <1>5. CASE ProducerPost
    <2>1. TypeOK'
      <3>1. fullBuffers <= NBuffers
        <4>1. Reading = 1
          BY <1>5 DEF ProducerPost, ProducerGo, Reading
        <4>2. Pending < NBuffers
          BY <4>1, <1>a DEF Counts
        <4> QED BY <4>2, <1>a, <1>b DEF Counts, TypeOK
      <3> QED BY <1>5, <3>1, SMTT(30)
                DEF ProducerPost, ProducerGo, Runs, consumerVars, TypeOK,
           ProducerPC, ConsumerPC, HandlerPC, Threads, Slots, Events
    <2>2. Progress'
      BY <1>5 DEF ProducerPost, ProducerGo, Runs, consumerVars, Progress, HeaderCount,
         TypeOK, Events
    <2>3. Counts'
      <3>1a. Reading = 1 /\ Reading' = 0 /\ Holding = 1 /\ Holding' = 0
             /\ Writing' = Writing /\ Taking' = Taking /\ Released' = Released
        BY <1>5, <1>a DEF ProducerPost, ProducerGo, Runs, consumerVars, Reading, Holding,
           Writing, Taking, Released, Pending, TypeOK, Slots, Events
      <3>1b. Pending' = Pending + 1
        BY <1>5, <1>a, <3>1a DEF ProducerPost, ProducerGo, Runs, consumerVars, Pending,
           TypeOK, Slots, Events
      <3>1. (Reading = 1 /\ Reading' = 0 /\ Holding = 1 /\ Holding' = 0
            /\ Writing' = Writing /\ Taking' = Taking /\ Released' = Released)
            /\ (Pending' = Pending + 1)
        BY <3>1a, <3>1b
      <3>2. /\ Posted({"none", "empty"})' = Posted({"none", "empty"})
            /\ Posted({"none", "empty", "full"})' = Posted({"none", "empty", "full"})
        BY <1>5 DEF ProducerPost, ProducerGo, Runs, consumerVars, Posted, TypeOK, HandlerPC
      <3>3. Pending' \in 0 .. NBuffers /\ Pending' + Reading' <= NBuffers
            /\ Writing' <= Pending'
        BY <1>5, <3>1, <1>a DEF ProducerPost, ProducerGo, Runs, Counts, TypeOK
      <3>4. ~forced_stop' => /\ emptyBuffers' = NBuffers - Pending' - Holding'
                            /\ fullBuffers' = Pending' - Taking'
        BY <1>5, <3>1, <1>a DEF ProducerPost, ProducerGo, Runs, consumerVars, Counts, TypeOK
      <3>5. forced_stop' =>
              /\ emptyBuffers' <= NBuffers - Pending' - Reading'
                                  + Posted({"none", "empty"})'
                                  + (IF consumer' = "done" THEN 1 ELSE 0)
              /\ fullBuffers' <= Pending' - Writing' + Posted({"none", "empty", "full"})'
        BY <1>5, <3>1, <3>2, <1>a, <1>b DEF ProducerPost, ProducerGo, Runs, consumerVars,
           Counts, TypeOK
      <3> QED BY <3>3, <3>4, <3>5 DEF Counts
    <2>4. Contents'
      <3>1. Reading = 1 /\ Reading' = 0 /\ Released' = Released
        BY <1>5 DEF ProducerPost, ProducerGo, Runs, consumerVars, Reading, Released
      <3>2. Pending' = Pending + 1 /\ Released + 1 + Pending = written_ev
            /\ Pending < NBuffers
        BY <1>5, <3>1, <1>a DEF ProducerPost, ProducerGo, Runs, consumerVars, Pending,
           Counts, TypeOK, Events
      <3>3. waddr' = Wrap(raddr + Pending') /\ Wrap(raddr + Pending) = waddr
        <4>1. raddr \in Slots /\ Pending \in 0 .. NBuffers
          BY <1>a DEF TypeOK
        <4>2. NextSlot(Wrap(raddr + Pending)) = Wrap(raddr + Pending + 1)
          BY <3>2, <4>1, WrapSlot
        <4>3. raddr + Pending + 1 = raddr + (Pending + 1)
          BY <4>1 DEF Slots
        <4> QED BY <1>5, <3>2, <4>2, <4>3 DEF ProducerPost, Contents
      <3>4. buffer[Wrap(raddr + Pending)] = Released + 1 + Pending
        BY <1>5, <3>2, <3>3 DEF ProducerPost, ProducerGo, Contents
      <3>5. ASSUME NEW i \in 0 .. NBuffers - 1, i < Pending'
            PROVE  buffer[Wrap(raddr + i)] = Released + 1 + i
        BY <3>2, <3>4, <3>5, <1>a DEF Contents
      <3> QED BY <1>5, <3>1, <3>3, <3>5 DEF ProducerPost, ProducerGo, Runs, consumerVars,
           Contents, FileInOrder, Wrap
    <2>5. Headers'
      BY <1>5 DEF ProducerPost, ProducerGo, Runs, consumerVars, Headers, HeaderAhead,
         TypeOK, Events
    <2> QED BY <2>1, <2>2, <2>3, <2>4, <2>5
  <1>6. CASE ProducerLoop
    <2>1. TypeOK'
      BY <1>6 DEF ProducerLoop, ProducerGo, Runs, consumerVars, TypeOK, ProducerPC,
         ConsumerPC, HandlerPC, Threads, Slots, Events
    <2>2. Progress'
      BY <1>6 DEF ProducerLoop, ProducerGo, Runs, consumerVars, Progress, HeaderCount,
         TypeOK, Events
    <2>3. Counts'
      BY <1>6 DEF ProducerLoop, ProducerGo, Runs, consumerVars, Counts, Pending, Reading,
         Holding, Writing, Taking, Released, Posted, TypeOK, Slots, Events
    <2>4. Contents'
      BY <1>6 DEF ProducerLoop, ProducerGo, Runs, consumerVars, Contents, FileInOrder,
         Pending, Reading, Released, Wrap, TypeOK, Slots, Events
    <2>5. Headers'
      BY <1>6 DEF ProducerLoop, ProducerGo, Runs, consumerVars, Headers, HeaderAhead,
         TypeOK, Events
    <2> QED BY <2>1, <2>2, <2>3, <2>4, <2>5
  <1>7. CASE ConsumerOpen
    <2>1. TypeOK'
      BY <1>7 DEF ConsumerOpen, ConsumerGo, Runs, producerVars, TypeOK, ProducerPC,
         ConsumerPC, HandlerPC, Threads, Slots, Events, Progress
    <2>2. Progress'
      BY <1>7 DEF ConsumerOpen, ConsumerGo, Runs, producerVars, Progress, HeaderCount,
         TypeOK, Events
    <2>3. Counts'
      BY <1>7 DEF ConsumerOpen, ConsumerGo, Runs, producerVars, Counts, Pending, Reading,
         Holding, Writing, Taking, Released, Posted, TypeOK, Slots, Events
    <2>4. Contents'
      BY <1>7 DEF ConsumerOpen, ConsumerGo, Runs, producerVars, Contents, FileInOrder,
         Pending, Reading, Released, Wrap, TypeOK, Slots, Events
    <2>5. Headers'
      BY <1>7 DEF ConsumerOpen, ConsumerGo, Runs, producerVars, Headers, HeaderAhead,
         TypeOK, Events
    <2> QED BY <2>1, <2>2, <2>3, <2>4, <2>5
  <1>8. CASE ConsumerOpenFails
    <2>1. TypeOK'
      BY <1>8 DEF ConsumerOpenFails, ConsumerGo, Runs, producerVars, TypeOK, ProducerPC,
         ConsumerPC, HandlerPC, Threads, Slots, Events
    <2>2. Progress'
      BY <1>8 DEF ConsumerOpenFails, ConsumerGo, Runs, producerVars, Progress,
         HeaderCount, TypeOK, Events
    <2>3. Counts'
      BY <1>8, SMTT(30) DEF ConsumerOpenFails, ConsumerGo, Runs, producerVars, Counts, Pending,
         Reading, Holding, Writing, Taking, Released, Posted, TypeOK, Slots, Events
    <2>4. Contents'
      BY <1>8 DEF ConsumerOpenFails, ConsumerGo, Runs, producerVars, Contents,
         FileInOrder, Pending, Reading, Released, Wrap, TypeOK, Slots, Events
    <2>5. Headers'
      BY <1>8 DEF ConsumerOpenFails, ConsumerGo, Runs, producerVars, Headers,
         HeaderAhead, TypeOK, Events
    <2> QED BY <2>1, <2>2, <2>3, <2>4, <2>5
  <1>9. CASE ConsumerWait
    <2>1. TypeOK'
      BY <1>9 DEF ConsumerWait, ConsumerGo, Runs, producerVars, TypeOK, ProducerPC,
         ConsumerPC, HandlerPC, Threads, Slots, Events
    <2>2. Progress'
      BY <1>9 DEF ConsumerWait, ConsumerGo, Runs, producerVars, Progress, HeaderCount,
         TypeOK, Events
    <2>3. Counts'
      BY <1>9 DEF ConsumerWait, ConsumerGo, Runs, producerVars, Counts, Pending, Reading,
         Holding, Writing, Taking, Released, Posted, TypeOK, Slots, Events
    <2>4. Contents'
      BY <1>9 DEF ConsumerWait, ConsumerGo, Runs, producerVars, Contents, FileInOrder,
         Pending, Reading, Released, Wrap, TypeOK, Slots, Events
    <2>5. Headers'
      BY <1>9 DEF ConsumerWait, ConsumerGo, Runs, producerVars, Headers, HeaderAhead,
         TypeOK, Events
    <2> QED BY <2>1, <2>2, <2>3, <2>4, <2>5
  <1>10. CASE ConsumerCheck
    <2>1. TypeOK'
      BY <1>10 DEF ConsumerCheck, ConsumerGo, Runs, producerVars, TypeOK, ProducerPC,
         ConsumerPC, HandlerPC, Threads, Slots, Events
    <2>2. Progress'
      BY <1>10 DEF ConsumerCheck, ConsumerGo, Runs, producerVars, Progress, HeaderCount,
         TypeOK, Events
    <2>3. Counts'
      <3>1a. Taking = 1 /\ (forced_stop => Writing' = 0 /\ Writing = 0)
             /\ (~forced_stop => Taking' = 1 /\ Writing' = 1 /\ Writing = 0)
             /\ Reading' = Reading /\ Holding' = Holding /\ Released' = Released
        BY <1>10, <1>a DEF ConsumerCheck, ConsumerGo, Runs, producerVars, Reading,
           Holding, Writing, Taking, Released, Pending, TypeOK, Slots, Events
      <3>1b. Pending' = Pending
        BY <1>10, <1>a, <3>1a DEF ConsumerCheck, ConsumerGo, Runs, producerVars, Pending,
           TypeOK, Slots, Events
      <3>1. (Taking = 1 /\ (forced_stop => Writing' = 0 /\ Writing = 0)
            /\ (~forced_stop => Taking' = 1 /\ Writing' = 1 /\ Writing = 0)
            /\ Reading' = Reading /\ Holding' = Holding /\ Released' = Released)
            /\ (Pending' = Pending)
        BY <3>1a, <3>1b
      <3>2. /\ Posted({"none", "empty"})' = Posted({"none", "empty"})
            /\ Posted({"none", "empty", "full"})' = Posted({"none", "empty", "full"})
        BY <1>10 DEF ConsumerCheck, ConsumerGo, Runs, producerVars, Posted, TypeOK,
           HandlerPC
      <3>3. Pending' \in 0 .. NBuffers /\ Pending' + Reading' <= NBuffers
            /\ Writing' <= Pending'
        BY <1>10, <3>1, <1>a DEF ConsumerCheck, ConsumerGo, Runs, Counts, TypeOK
      <3>4. ~forced_stop' => /\ emptyBuffers' = NBuffers - Pending' - Holding'
                            /\ fullBuffers' = Pending' - Taking'
        BY <1>10, <3>1, <1>a DEF ConsumerCheck, ConsumerGo, Runs, producerVars, Counts,
           TypeOK
      <3>5. forced_stop' =>
              /\ emptyBuffers' <= NBuffers - Pending' - Reading'
                                  + Posted({"none", "empty"})'
                                  + (IF consumer' = "done" THEN 1 ELSE 0)
              /\ fullBuffers' <= Pending' - Writing' + Posted({"none", "empty", "full"})'
        BY <1>10, <3>1, <3>2, <1>a, <1>b DEF ConsumerCheck, ConsumerGo, Runs,
           producerVars, Counts, TypeOK
      <3> QED BY <3>3, <3>4, <3>5 DEF Counts
    <2>4. Contents'
      BY <1>10 DEF ConsumerCheck, ConsumerGo, Runs, producerVars, Contents, FileInOrder,
         Pending, Reading, Released, Wrap, TypeOK, Slots, Events
    <2>5. Headers'
      BY <1>10 DEF ConsumerCheck, ConsumerGo, Runs, producerVars, Headers, HeaderAhead,
         TypeOK, Events
    <2> QED BY <2>1, <2>2, <2>3, <2>4, <2>5
  <1>11. CASE ConsumerTime
    <2>1. TypeOK'
      BY <1>11, ZenonT(30) DEF ConsumerTime, ConsumerGo, Runs, producerVars, TypeOK, ProducerPC,
         ConsumerPC, HandlerPC, Threads, Slots, Events
    <2>2. Progress'
      BY <1>11 DEF ConsumerTime, ConsumerGo, Runs, producerVars, Progress, HeaderCount,
         TypeOK, Events
    <2>3. Counts'
      BY <1>11 DEF ConsumerTime, ConsumerGo, Runs, producerVars, Counts, Pending,
         Reading, Holding, Writing, Taking, Released, Posted, TypeOK, Slots, Events
    <2>4. Contents'
      BY <1>11 DEF ConsumerTime, ConsumerGo, Runs, producerVars, Contents, FileInOrder,
         Pending, Reading, Released, Wrap, TypeOK, Slots, Events
    <2>5. Headers'
      <3>1. /\ Released = Len(file) /\ Released < written_ev
            /\ written_ev <= Released + NBuffers
        <4>1. Writing = 1 /\ Released = Len(file)
          BY <1>11 DEF ConsumerTime, ConsumerGo, Writing, Released, TypeOK
        <4> QED BY <4>1, <1>a DEF Counts, Pending, TypeOK, Events
      <3>2. record'.time = written_ev
        BY <1>11 DEF ConsumerTime, Headers, TypeOK
      <3> QED BY <1>11, <3>1, <3>2 DEF ConsumerTime, ConsumerGo, Runs, producerVars,
           Headers, HeaderAhead, TypeOK, Events
    <2> QED BY <2>1, <2>2, <2>3, <2>4, <2>5
  <1>12. CASE ConsumerLaser
    <2>1. TypeOK'
      BY <1>12, ZenonT(30)
        DEF ConsumerLaser, ConsumerGo, Runs, producerVars, TypeOK, ProducerPC,
         ConsumerPC, HandlerPC, Threads, Slots, Events
    <2>2. Progress'
      BY <1>12 DEF ConsumerLaser, ConsumerGo, Runs, producerVars, Progress, HeaderCount,
         TypeOK, Events
    <2>3. Counts'
      BY <1>12 DEF ConsumerLaser, ConsumerGo, Runs, producerVars, Counts, Pending,
         Reading, Holding, Writing, Taking, Released, Posted, TypeOK, Slots, Events
    <2>4. Contents'
      BY <1>12 DEF ConsumerLaser, ConsumerGo, Runs, producerVars, Contents, FileInOrder,
         Pending, Reading, Released, Wrap, TypeOK, Slots, Events
    <2>5. Headers'
      <3>1. /\ Released = Len(file) /\ Released < written_ev
            /\ written_ev <= Released + NBuffers
        <4>1. Writing = 1 /\ Released = Len(file)
          BY <1>12 DEF ConsumerLaser, ConsumerGo, Writing, Released, TypeOK
        <4> QED BY <4>1, <1>a DEF Counts, Pending, TypeOK, Events
      <3>2. record'.laser <= written_ev /\ record'.laser \in Int
            /\ record'.time = record.time
        BY <1>12 DEF ConsumerLaser, Headers, TypeOK, Events
      <3> QED BY <1>12, <3>1, <3>2 DEF ConsumerLaser, ConsumerGo, Runs, producerVars,
           Headers, HeaderAhead, TypeOK, Events
    <2> QED BY <2>1, <2>2, <2>3, <2>4, <2>5
  <1>13. CASE ConsumerData
    <2>1. TypeOK'
      <3>1. Len(file') <= NEvents /\ file' \in Seq([time : Events, laser : Events,
            data : Events])
        BY <1>13 DEF ConsumerData, ConsumerGo, Runs, Progress, TypeOK, Events, Slots
      <3> QED BY <1>13, <3>1 DEF ConsumerData, ConsumerGo, Runs, producerVars, TypeOK,
           ProducerPC, ConsumerPC, HandlerPC, Threads, Slots, Events
    <2>2. Progress'
      BY <1>13 DEF ConsumerData, ConsumerGo, Runs, producerVars, Progress, HeaderCount,
         TypeOK, Events
    <2>3. Counts'
      <3>1. Reading' = Reading /\ Holding' = Holding /\ Writing' = Writing
            /\ Taking' = Taking /\ Released' = Released /\ Pending' = Pending
        BY <1>13, <1>a DEF ConsumerData, ConsumerGo, Runs, producerVars, Reading,
           Holding, Writing, Taking, Released, Pending, TypeOK, Slots, Events
      <3>2. /\ Posted({"none", "empty"})' = Posted({"none", "empty"})
            /\ Posted({"none", "empty", "full"})' = Posted({"none", "empty", "full"})
        BY <1>13 DEF ConsumerData, ConsumerGo, Runs, producerVars, Posted, TypeOK, HandlerPC
      <3> QED BY <1>13, <3>1, <3>2, <1>a, <1>b DEF ConsumerData, ConsumerGo, Runs,
           producerVars, Counts, TypeOK, Slots, Events
    <2>4. Contents'
      <3>1. Pending' = Pending /\ Released' = Released /\ Released = Len(file)
            /\ Pending > 0
        BY <1>13, <1>a, SMTT(30) DEF ConsumerData, ConsumerGo, Runs, producerVars, Pending,
           Reading, Released, Counts, Writing, TypeOK, Events
      <3>2. buffer[raddr] = Len(file) + 1
        <4>1. buffer[Wrap(raddr + 0)] = Released + 1 + 0
          BY <3>1 DEF Contents
        <4> QED BY <4>1, <3>1, <1>a, WrapSlot DEF TypeOK
      <3>3. FileInOrder'
        BY <1>13, <3>2 DEF ConsumerData, Contents, FileInOrder, TypeOK
      <3> QED BY <1>13, <3>1, <3>3 DEF ConsumerData, ConsumerGo, Runs, producerVars,
           Contents, Wrap
    <2>5. Headers'
      <3>1. buffer[raddr] = Len(file) + 1
        BY <1>13, <2>4 DEF ConsumerData, Contents, FileInOrder, TypeOK
      <3>2. /\ record.time > Len(file) /\ record.time <= Len(file) + NBuffers
            /\ record.laser <= Len(file) + NBuffers
            /\ record.time \in Int /\ record.laser \in Int
        BY <1>13 DEF ConsumerData, ConsumerGo, Headers, TypeOK, Events
      <3>3. HeaderAhead'
        <4>1. ASSUME NEW i \in 1 .. Len(file')
              PROVE  /\ file'[i].time >= file'[i].data
                     /\ file'[i].time < file'[i].data + NBuffers
                     /\ file'[i].laser < file'[i].data + NBuffers
          <5>1. CASE i = Len(file) + 1
            BY <1>13, <5>1, <3>1, <3>2 DEF ConsumerData, TypeOK
          <5>2. CASE i \in 1 .. Len(file)
            BY <1>13, <5>2 DEF ConsumerData, Headers, HeaderAhead, TypeOK
          <5> QED BY <1>13, <5>1, <5>2 DEF ConsumerData, TypeOK
        <4> QED BY <4>1 DEF HeaderAhead
      <3> QED BY <1>13, <3>3 DEF ConsumerData, ConsumerGo, Runs, producerVars, Headers
    <2> QED BY <2>1, <2>2, <2>3, <2>4, <2>5
  <1>14. CASE ConsumerPost
    <2>1. TypeOK'
      <3>1. emptyBuffers' \in 0 .. NBuffers + 2
        <4>1. Writing = 1
          BY <1>14 DEF ConsumerPost, ConsumerGo, Writing
        <4> QED BY <1>14, <4>1, <1>a, <1>b DEF ConsumerPost, ConsumerGo, Counts, TypeOK
      <3>2. read_ev' \in Events /\ raddr' \in Slots /\ consumer' \in ConsumerPC
        BY <1>14 DEF ConsumerPost, ConsumerGo, NextSlot, TypeOK, Events, Slots, ConsumerPC
      <3> QED BY <1>14, <3>1, <3>2 DEF ConsumerPost, ConsumerGo, Runs, producerVars, TypeOK
    <2>2. Progress'
      <3>1. CASE read_ev < NEvents
        BY <1>14, <3>1, SMTT(30) DEF ConsumerPost, ConsumerGo, Runs, producerVars, Progress,
           HeaderCount, TypeOK, Events
      <3>2. CASE ~(read_ev < NEvents)
        <4>1. consumer' = "close" /\ read_ev' = read_ev
          BY <1>14, <3>2 DEF ConsumerPost, ConsumerGo
        <4>2. read_ev = NEvents /\ Len(file) = NEvents
          BY <1>14, <3>2 DEF ConsumerPost, ConsumerGo, Progress, TypeOK, Events
        <4> QED BY <1>14, <4>1, <4>2 DEF ConsumerPost, ConsumerGo, Runs, producerVars,
             Progress, HeaderCount
      <3> QED BY <3>1, <3>2
    <2>3. Counts'
      <3>1a. Writing = 1 /\ Writing' = 0 /\ Taking = 1 /\ Taking' = 0
             /\ Reading' = Reading /\ Holding' = Holding
        BY <1>14, <1>a DEF ConsumerPost, ConsumerGo, Runs, producerVars, Reading,
           Holding, Writing, Taking, Released, Pending, TypeOK, Slots, Events
      <3>1b. Released' = Released + 1
        BY <1>14, <1>a, <3>1a, SMTT(30)
          DEF ConsumerPost, ConsumerGo, Runs, producerVars, Released,
           TypeOK, Slots, Events
      <3>1c. Pending' = Pending - 1
        BY <1>14, <1>a, <3>1a, <3>1b DEF ConsumerPost, ConsumerGo, Runs, producerVars,
           Pending, TypeOK, Slots, Events
      <3>1. (Writing = 1 /\ Writing' = 0 /\ Taking = 1 /\ Taking' = 0
            /\ Reading' = Reading /\ Holding' = Holding) /\ (Released' = Released + 1)
            /\ (Pending' = Pending - 1)
        BY <3>1a, <3>1b, <3>1c
      <3>2. /\ Posted({"none", "empty"})' = Posted({"none", "empty"})
            /\ Posted({"none", "empty", "full"})' = Posted({"none", "empty", "full"})
        BY <1>14 DEF ConsumerPost, ConsumerGo, Runs, producerVars, Posted, TypeOK, HandlerPC
      <3>3. Pending' \in 0 .. NBuffers /\ Pending' + Reading' <= NBuffers
            /\ Writing' <= Pending'
        BY <1>14, <3>1, <1>a DEF ConsumerPost, ConsumerGo, Runs, Counts, TypeOK
      <3>4. ~forced_stop' => /\ emptyBuffers' = NBuffers - Pending' - Holding'
                            /\ fullBuffers' = Pending' - Taking'
        BY <1>14, <3>1, <1>a DEF ConsumerPost, ConsumerGo, Runs, producerVars, Counts,
           TypeOK
      <3>5. forced_stop' =>
              /\ emptyBuffers' <= NBuffers - Pending' - Reading'
                                  + Posted({"none", "empty"})'
                                  + (IF consumer' = "done" THEN 1 ELSE 0)
              /\ fullBuffers' <= Pending' - Writing' + Posted({"none", "empty", "full"})'
        BY <1>14, <3>1, <3>2, <1>a, <1>b DEF ConsumerPost, ConsumerGo, Runs,
           producerVars, Counts, TypeOK
      <3> QED BY <3>3, <3>4, <3>5 DEF Counts
    <2>4. Contents'
      <3>1. Writing = 1 /\ Released' = Released + 1 /\ Reading' = Reading
        BY <1>14 DEF ConsumerPost, ConsumerGo, Runs, producerVars, Reading, Released,
           Writing, TypeOK
      <3>2. Pending' = Pending - 1 /\ Pending > 0
        BY <1>14, <3>1, <1>a DEF ConsumerPost, ConsumerGo, Runs, producerVars, Pending,
           Counts, TypeOK, Events
      <3>3. raddr \in Slots /\ raddr' = NextSlot(raddr)
        BY <1>14 DEF ConsumerPost, TypeOK
      <3>4. ASSUME NEW i \in 0 .. NBuffers - 1, i < Pending'
            PROVE  buffer[Wrap(raddr' + i)] = Released' + 1 + i
        <4>1. i + 1 \in 0 .. NBuffers - 1 /\ i + 1 < Pending /\ i \in 0 .. NBuffers
              /\ raddr + i + 1 = raddr + (i + 1) /\ i < NBuffers
          BY <3>2, <3>3, <3>4, <1>a DEF Slots
        <4>2. buffer[Wrap(raddr + (i + 1))] = Released + 1 + (i + 1)
          BY <4>1 DEF Contents
        <4>3. Wrap(NextSlot(raddr) + i) = Wrap(raddr + (i + 1))
          BY <3>3, <4>1, WrapSlot
        <4> QED BY <3>1, <3>3, <4>2, <4>3, <1>a
      <3>5. Wrap(raddr' + Pending') = Wrap(raddr + Pending)
        <4>1. Pending' \in 0 .. NBuffers /\ Pending' < NBuffers
              /\ raddr + Pending' + 1 = raddr + Pending
          BY <3>2, <3>3, <1>a DEF Slots
        <4> QED BY <3>3, <4>1, WrapSlot
      <3> QED BY <1>14, <3>4, <3>5 DEF ConsumerPost, ConsumerGo, Runs, producerVars,
           Contents, FileInOrder, Wrap
    <2>5. Headers'
      BY <1>14 DEF ConsumerPost, ConsumerGo, Runs, producerVars, Headers, HeaderAhead,
         TypeOK, Events
    <2> QED BY <2>1, <2>2, <2>3, <2>4, <2>5
  <1>15. CASE ConsumerClose
    <2>1. TypeOK'
      BY <1>15 DEF ConsumerClose, ConsumerGo, Runs, producerVars, TypeOK, ProducerPC,
         ConsumerPC, HandlerPC, Threads, Slots, Events
    <2>2. Progress'
      BY <1>15 DEF ConsumerClose, ConsumerGo, Runs, producerVars, Progress, HeaderCount,
         TypeOK, Events
    <2>3. Counts'
      BY <1>15, SMTT(30) DEF ConsumerClose, ConsumerGo, Runs, producerVars, Counts, Pending,
         Reading, Holding, Writing, Taking, Released, Posted, TypeOK, Slots, Events
    <2>4. Contents'
      BY <1>15 DEF ConsumerClose, ConsumerGo, Runs, producerVars, Contents, FileInOrder,
         Pending, Reading, Released, Wrap, TypeOK, Slots, Events
    <2>5. Headers'
      BY <1>15 DEF ConsumerClose, ConsumerGo, Runs, producerVars, Headers, HeaderAhead,
         TypeOK, Events
    <2> QED BY <2>1, <2>2, <2>3, <2>4, <2>5
  <1>16. CASE ConsumerUnlock
    <2>1. TypeOK'
      <3>1. emptyBuffers <= NBuffers + 1
        BY <1>16, <1>a, <1>b DEF ConsumerUnlock, ConsumerGo, Runs, Counts, TypeOK,
           Holding, Reading, Posted
      <3> QED BY <1>16, <3>1 DEF ConsumerUnlock, ConsumerGo, Runs, producerVars, TypeOK,
           ProducerPC, ConsumerPC, HandlerPC, Threads, Slots, Events
    <2>2. Progress'
      BY <1>16 DEF ConsumerUnlock, ConsumerGo, Runs, producerVars, Progress, HeaderCount,
         TypeOK, Events
    <2>3. Counts'
      <3>1a. Reading' = Reading /\ Holding' = Holding /\ Writing' = Writing
             /\ Taking' = Taking /\ Released' = Released
        BY <1>16, <1>a DEF ConsumerUnlock, ConsumerGo, Runs, producerVars, Reading,
           Holding, Writing, Taking, Released, Pending, TypeOK, Slots, Events
      <3>1b. Pending' = Pending
        BY <1>16, <1>a, <3>1a DEF ConsumerUnlock, ConsumerGo, Runs, producerVars,
           Pending, TypeOK, Slots, Events
      <3>1. (Reading' = Reading /\ Holding' = Holding /\ Writing' = Writing
            /\ Taking' = Taking /\ Released' = Released) /\ (Pending' = Pending)
        BY <3>1a, <3>1b
      <3>2. /\ Posted({"none", "empty"})' = Posted({"none", "empty"})
            /\ Posted({"none", "empty", "full"})' = Posted({"none", "empty", "full"})
        BY <1>16 DEF ConsumerUnlock, ConsumerGo, Runs, producerVars, Posted, TypeOK,
           HandlerPC
      <3>3. Pending' \in 0 .. NBuffers /\ Pending' + Reading' <= NBuffers
            /\ Writing' <= Pending'
        BY <1>16, <3>1, <1>a DEF ConsumerUnlock, ConsumerGo, Runs, Counts, TypeOK
      <3>4. ~forced_stop' => /\ emptyBuffers' = NBuffers - Pending' - Holding'
                            /\ fullBuffers' = Pending' - Taking'
        BY <1>16, <3>1, <1>a DEF ConsumerUnlock, ConsumerGo, Runs, producerVars, Counts,
           TypeOK, Progress
      <3>5. forced_stop' =>
              /\ emptyBuffers' <= NBuffers - Pending' - Reading'
                                  + Posted({"none", "empty"})'
                                  + (IF consumer' = "done" THEN 1 ELSE 0)
              /\ fullBuffers' <= Pending' - Writing' + Posted({"none", "empty", "full"})'
        BY <1>16, <3>1, <3>2, <1>a, <1>b DEF ConsumerUnlock, ConsumerGo, Runs,
           producerVars, Counts, TypeOK, Progress
      <3> QED BY <3>3, <3>4, <3>5 DEF Counts
    <2>4. Contents'
      BY <1>16 DEF ConsumerUnlock, ConsumerGo, Runs, producerVars, Contents, FileInOrder,
         Pending, Reading, Released, Wrap, TypeOK, Slots, Events
    <2>5. Headers'
      BY <1>16 DEF ConsumerUnlock, ConsumerGo, Runs, producerVars, Headers, HeaderAhead,
         TypeOK, Events
    <2> QED BY <2>1, <2>2, <2>3, <2>4, <2>5
  <1>17. CASE MainJoin
    <2>1. TypeOK'
      BY <1>17 DEF MainJoin, Runs, producerVars, consumerVars, TypeOK, ProducerPC,
         ConsumerPC, HandlerPC, Threads, Slots, Events
    <2>2. Progress'
      BY <1>17 DEF MainJoin, Runs, producerVars, consumerVars, Progress, HeaderCount,
         TypeOK, Events
    <2>3. Counts'
      BY <1>17 DEF MainJoin, Runs, producerVars, consumerVars, Counts, Pending, Reading,
         Holding, Writing, Taking, Released, Posted, TypeOK, Slots, Events
    <2>4. Contents'
      BY <1>17 DEF MainJoin, Runs, producerVars, consumerVars, Contents, FileInOrder,
         Pending, Reading, Released, Wrap, TypeOK, Slots, Events
    <2>5. Headers'
      BY <1>17 DEF MainJoin, Runs, producerVars, consumerVars, Headers, HeaderAhead,
         TypeOK, Events
    <2> QED BY <2>1, <2>2, <2>3, <2>4, <2>5
  <1>18. CASE Signal
    <2>1. TypeOK'
      BY <1>18 DEF Signal, producerVars, consumerVars, TypeOK, ProducerPC, ConsumerPC,
         HandlerPC, Threads, Slots, Events
    <2>2. Progress'
      BY <1>18 DEF Signal, producerVars, consumerVars, Progress, HeaderCount, TypeOK, Events
    <2>3. Counts'
      <3>1a. Reading' = Reading /\ Holding' = Holding /\ Writing' = Writing
             /\ Taking' = Taking /\ Released' = Released /\ Holding >= Reading
             /\ Taking >= Writing
        BY <1>18, <1>a DEF Signal, producerVars, consumerVars, Reading, Holding, Writing,
           Taking, Released, Pending, TypeOK, Slots, Events
      <3>1b. Pending' = Pending
        BY <1>18, <1>a, <3>1a DEF Signal, producerVars, consumerVars, Pending, TypeOK,
           Slots, Events
      <3>1. (Reading' = Reading /\ Holding' = Holding /\ Writing' = Writing
            /\ Taking' = Taking /\ Released' = Released /\ Holding >= Reading
            /\ Taking >= Writing) /\ (Pending' = Pending)
        BY <3>1a, <3>1b
      <3>3. Pending' \in 0 .. NBuffers /\ Pending' + Reading' <= NBuffers
            /\ Writing' <= Pending'
        BY <1>18, <3>1, <1>a DEF Signal, Counts, TypeOK
      <3>4. ~forced_stop' => /\ emptyBuffers' = NBuffers - Pending' - Holding'
                            /\ fullBuffers' = Pending' - Taking'
        BY <1>18, <3>1, <1>a DEF Signal, producerVars, consumerVars, Counts, TypeOK,
           Progress, Posted
      <3>5. forced_stop' =>
              /\ emptyBuffers' <= NBuffers - Pending' - Reading'
                                  + Posted({"none", "empty"})'
                                  + (IF consumer' = "done" THEN 1 ELSE 0)
              /\ fullBuffers' <= Pending' - Writing' + Posted({"none", "empty", "full"})'
        BY <1>18, <3>1, <1>a, <1>b DEF Signal, producerVars, consumerVars, Counts,
           TypeOK, Progress, Posted
      <3> QED BY <3>3, <3>4, <3>5 DEF Counts
    <2>4. Contents'
      BY <1>18 DEF Signal, producerVars, consumerVars, Contents, FileInOrder, Pending,
         Reading, Released, Wrap, TypeOK, Slots, Events
    <2>5. Headers'
      BY <1>18 DEF Signal, producerVars, consumerVars, Headers, HeaderAhead, TypeOK, Events
    <2> QED BY <2>1, <2>2, <2>3, <2>4, <2>5
  <1>19. CASE HandlerPostEmpty
    <2>1. TypeOK'
      <3>1. emptyBuffers' \in 0 .. NBuffers + 2
        BY <1>19, <1>a, <1>b, SMTT(30)
          DEF HandlerPostEmpty, HandlerGo, Progress, Counts, TypeOK,
           Posted
      <3>2. handler' \in [at : HandlerPC, on : Threads]
        BY <1>19 DEF HandlerPostEmpty, HandlerGo, TypeOK, HandlerPC
      <3> QED BY <1>19, <3>1, <3>2 DEF HandlerPostEmpty, HandlerGo, producerVars,
           consumerVars, TypeOK
    <2>2. Progress'
      BY <1>19 DEF HandlerPostEmpty, HandlerGo, producerVars, consumerVars, Progress,
         HeaderCount, TypeOK, Events
    <2>3. Counts'
      <3>1a. Reading' = Reading /\ Holding' = Holding /\ Writing' = Writing
             /\ Taking' = Taking /\ Released' = Released
        BY <1>19, <1>a DEF HandlerPostEmpty, HandlerGo, producerVars, consumerVars,
           Reading, Holding, Writing, Taking, Released, Pending, TypeOK, Slots, Events
      <3>1b. Pending' = Pending
        BY <1>19, <1>a, <3>1a DEF HandlerPostEmpty, HandlerGo, producerVars,
           consumerVars, Pending, TypeOK, Slots, Events
      <3>1. (Reading' = Reading /\ Holding' = Holding /\ Writing' = Writing
            /\ Taking' = Taking /\ Released' = Released) /\ (Pending' = Pending)
        BY <3>1a, <3>1b
      <3>2. Posted({"none", "empty"}) = 0 /\ Posted({"none", "empty"})' = 1
            /\ Posted({"none", "empty", "full"})' = Posted({"none", "empty", "full"})
        BY <1>19 DEF HandlerPostEmpty, HandlerGo, producerVars, consumerVars, Posted,
           TypeOK, HandlerPC
      <3>3. Pending' \in 0 .. NBuffers /\ Pending' + Reading' <= NBuffers
            /\ Writing' <= Pending'
        BY <1>19, <3>1, <1>a DEF HandlerPostEmpty, HandlerGo, Counts, TypeOK
      <3>4. ~forced_stop' => /\ emptyBuffers' = NBuffers - Pending' - Holding'
                            /\ fullBuffers' = Pending' - Taking'
        BY <1>19, <3>1, <1>a DEF HandlerPostEmpty, HandlerGo, producerVars, consumerVars,
           Counts, TypeOK, Progress
      <3>5. forced_stop' =>
              /\ emptyBuffers' <= NBuffers - Pending' - Reading'
                                  + Posted({"none", "empty"})'
                                  + (IF consumer' = "done" THEN 1 ELSE 0)
              /\ fullBuffers' <= Pending' - Writing' + Posted({"none", "empty", "full"})'
        BY <1>19, <3>1, <3>2, <1>a, <1>b, SMTT(30)
        DEF HandlerPostEmpty, HandlerGo, producerVars, consumerVars, Counts, TypeOK, Progress
      <3> QED BY <3>3, <3>4, <3>5 DEF Counts
    <2>4. Contents'
      BY <1>19 DEF HandlerPostEmpty, HandlerGo, producerVars, consumerVars, Contents,
         FileInOrder, Pending, Reading, Released, Wrap, TypeOK, Slots, Events
    <2>5. Headers'
      BY <1>19 DEF HandlerPostEmpty, HandlerGo, producerVars, consumerVars, Headers,
         HeaderAhead, TypeOK, Events
    <2> QED BY <2>1, <2>2, <2>3, <2>4, <2>5
  <1>20. CASE HandlerPostFull
    <2>1. TypeOK'
      <3>1. fullBuffers' \in 0 .. NBuffers + 1
        BY <1>20, <1>a, <1>b DEF HandlerPostFull, HandlerGo, Progress, Counts, TypeOK,
           Posted
      <3>2. handler' \in [at : HandlerPC, on : Threads]
        BY <1>20 DEF HandlerPostFull, HandlerGo, TypeOK, HandlerPC
      <3> QED BY <1>20, <3>1, <3>2 DEF HandlerPostFull, HandlerGo, producerVars,
           consumerVars, TypeOK
    <2>2. Progress'
      BY <1>20 DEF HandlerPostFull, HandlerGo, producerVars, consumerVars, Progress,
         HeaderCount, TypeOK, Events
    <2>3. Counts'
      <3>1a. Reading' = Reading /\ Holding' = Holding /\ Writing' = Writing
             /\ Taking' = Taking /\ Released' = Released
        BY <1>20, <1>a DEF HandlerPostFull, HandlerGo, producerVars, consumerVars,
           Reading, Holding, Writing, Taking, Released, Pending, TypeOK, Slots, Events
      <3>1b. Pending' = Pending
        BY <1>20, <1>a, <3>1a DEF HandlerPostFull, HandlerGo, producerVars, consumerVars,
           Pending, TypeOK, Slots, Events
      <3>1. (Reading' = Reading /\ Holding' = Holding /\ Writing' = Writing
            /\ Taking' = Taking /\ Released' = Released) /\ (Pending' = Pending)
        BY <3>1a, <3>1b
      <3>2. Posted({"none", "empty"}) = 1 /\ Posted({"none", "empty"})' = 1
            /\ Posted({"none", "empty", "full"}) = 0 /\ Posted({"none", "empty",
            "full"})' = 1
        BY <1>20 DEF HandlerPostFull, HandlerGo, producerVars, consumerVars, Posted,
           TypeOK, HandlerPC
      <3>3. Pending' \in 0 .. NBuffers /\ Pending' + Reading' <= NBuffers
            /\ Writing' <= Pending'
        BY <1>20, <3>1, <1>a DEF HandlerPostFull, HandlerGo, Counts, TypeOK
      <3>4. ~forced_stop' => /\ emptyBuffers' = NBuffers - Pending' - Holding'
                            /\ fullBuffers' = Pending' - Taking'
        BY <1>20, <3>1, <1>a DEF HandlerPostFull, HandlerGo, producerVars, consumerVars,
           Counts, TypeOK, Progress
      <3>5. forced_stop' =>
              /\ emptyBuffers' <= NBuffers - Pending' - Reading'
                                  + Posted({"none", "empty"})'
                                  + (IF consumer' = "done" THEN 1 ELSE 0)
              /\ fullBuffers' <= Pending' - Writing' + Posted({"none", "empty", "full"})'
        BY <1>20, <3>1, <3>2, <1>a, <1>b DEF HandlerPostFull, HandlerGo, producerVars,
           consumerVars, Counts, TypeOK, Progress
      <3> QED BY <3>3, <3>4, <3>5 DEF Counts
    <2>4. Contents'
      BY <1>20 DEF HandlerPostFull, HandlerGo, producerVars, consumerVars, Contents,
         FileInOrder, Pending, Reading, Released, Wrap, TypeOK, Slots, Events
    <2>5. Headers'
      BY <1>20 DEF HandlerPostFull, HandlerGo, producerVars, consumerVars, Headers,
         HeaderAhead, TypeOK, Events
    <2> QED BY <2>1, <2>2, <2>3, <2>4, <2>5
  <1>21. CASE HandlerClose
    <2>1. TypeOK'
      BY <1>21 DEF HandlerClose, HandlerGo, producerVars, consumerVars, TypeOK,
         ProducerPC, ConsumerPC, HandlerPC, Threads, Slots, Events
    <2>2. Progress'
      BY <1>21 DEF HandlerClose, HandlerGo, producerVars, consumerVars, Progress,
         HeaderCount, TypeOK, Events
    <2>3. Counts'
      BY <1>21 DEF HandlerClose, HandlerGo, producerVars, consumerVars, Counts, Pending,
         Reading, Holding, Writing, Taking, Released, Posted, TypeOK, Slots, Events
    <2>4. Contents'
      BY <1>21 DEF HandlerClose, HandlerGo, producerVars, consumerVars, Contents,
         FileInOrder, Pending, Reading, Released, Wrap, TypeOK, Slots, Events
    <2>5. Headers'
      BY <1>21 DEF HandlerClose, HandlerGo, producerVars, consumerVars, Headers,
         HeaderAhead, TypeOK, Events
    <2> QED BY <2>1, <2>2, <2>3, <2>4, <2>5
  <1>22. CASE HandlerReturn
    <2>1. TypeOK'
      <3>1. handler' \in [at : HandlerPC, on : Threads]
        BY <1>22 DEF HandlerReturn, HandlerGo, TypeOK, HandlerPC
      <3>2. producer' \in ProducerPC /\ consumer' \in ConsumerPC /\ lost_ev' \in 0 .. 1
        BY <1>22 DEF HandlerReturn, HandlerGo, TypeOK, Progress, ProducerPC, ConsumerPC
      <3> QED BY <1>22, <3>1, <3>2 DEF HandlerReturn, HandlerGo, producerVars,
           consumerVars, TypeOK
    <2>2. Progress'
      BY <1>22 DEF HandlerReturn, HandlerGo, producerVars, consumerVars, Progress,
         HeaderCount, TypeOK, Events
    <2>3. Counts'
      <3>1. Reading' = Reading /\ Writing' = Writing /\ Released' = Released
            /\ Pending' = Pending /\ forced_stop
        BY <1>22, <1>a DEF HandlerReturn, HandlerGo, producerVars, consumerVars, Reading,
           Holding, Writing, Taking, Released, Pending, TypeOK, Slots, Events, Progress
      <3>2. /\ Posted({"none", "empty"})' = Posted({"none", "empty"})
            /\ Posted({"none", "empty", "full"})' = Posted({"none", "empty", "full"})
        BY <1>22 DEF HandlerReturn, HandlerGo, producerVars, consumerVars, Posted,
           TypeOK, HandlerPC
      <3> QED BY <1>22, <3>1, <3>2, <1>a, <1>b DEF HandlerReturn, HandlerGo,
           producerVars, consumerVars, Counts, TypeOK, Slots, Events
    <2>4. Contents'
      BY <1>22 DEF HandlerReturn, HandlerGo, producerVars, consumerVars, Contents,
         FileInOrder, Pending, Reading, Released, Wrap, TypeOK, Slots, Events
    <2>5. Headers'
      BY <1>22 DEF HandlerReturn, HandlerGo, producerVars, consumerVars, Headers,
         HeaderAhead, TypeOK, Events
    <2> QED BY <2>1, <2>2, <2>3, <2>4, <2>5
  <1>23. CASE UNCHANGED vars
    BY <1>23 DEF vars, producerVars, consumerVars, TypeOK, Progress, HeaderCount, Counts,
       Contents, Headers, FileInOrder, HeaderAhead,
       Pending, Reading, Holding, Writing, Taking, Released, Posted, Wrap
  <1> QED
    BY <1>1, <1>2, <1>3, <1>4, <1>5, <1>6, <1>7, <1>8, <1>9, <1>10, <1>11, <1>12, <1>13,
       <1>14, <1>15, <1>16, <1>17, <1>18, <1>19, <1>20, <1>21, <1>22, <1>23
    DEF Next, ProducerStep, ConsumerStep, HandlerStep

-----------------------------------------------------------------------------
\* The inductive invariant holds in every behaviour.
THEOREM Invariance == Spec => []IInv
  BY InitIInv, StepIInv, PTL DEF Spec

\* Addresses, semaphores and counters stay in their ranges.
THEOREM TypeCorrect == Spec => []TypeOK
  <1>1. IInv => TypeOK
    BY DEF IInv
  <1> QED BY <1>1, Invariance, PTL

\* The threads are never in the same slot, whoever posts the semaphores.
THEOREM Exclusion == Spec => []SlotExclusion
  <1>1. IInv => SlotExclusion
    <2> SUFFICES ASSUME IInv, producer = "read", Writing = 1 PROVE waddr # raddr
      BY DEF SlotExclusion, Writing
    <2>1. Pending \in 0 .. NBuffers /\ Pending > 0 /\ Pending < NBuffers
      BY BuffersAssumption DEF IInv, Counts, Reading
    <2> QED BY <2>1, BuffersAssumption DEF IInv, TypeOK, Slots, Contents, Wrap
  <1> QED BY <1>1, Invariance, PTL

\* The run file is the sequence of the events 1, 2, 3 ...
THEOREM Order == Spec => []FileInOrder
  <1>1. IInv => FileInOrder
    BY DEF IInv, Contents
  <1> QED BY <1>1, Invariance, PTL

\* The header written with an event is at most one ring ahead of it.
THEOREM HeadersBounded == Spec => []HeaderAhead
  <1>1. IInv => HeaderAhead
    BY DEF IInv, Headers
  <1> QED BY <1>1, Invariance, PTL

\* The count in the header of a closed file.
THEOREM CountOfHeader == Spec => []HeaderCount
  <1>1. IInv => HeaderCount
    BY DEF IInv, Progress
  <1> QED BY <1>1, Invariance, PTL
=============================================================================
