------------------------------- MODULE DaqRing -------------------------------
(***************************************************************************)
(* The event ring of the prototype DAQ (src/prototype/DAQ_1.6.3).  The     *)
(* thread producer() reads the digitizer boards over VME into the slots of *)
(* a ring, the thread consumer() writes them to the run file, and          *)
(* termination_handler() may run on any thread at any time.  The two       *)
(* semaphores guard the slots; the event header `eh' and the encoder       *)
(* reading `laser' are globals that nothing guards.                        *)
(*                                                                         *)
(* Data are reduced to event numbers: buffer[s] is the event whose samples *)
(* are in slot s, eh the event whose time is in the global header, laser   *)
(* the event after whose read-out the encoder was read (any one field of   *)
(* the structure; the fields are copied one by one).  One signal is        *)
(* modelled, and the copies for the GUI monitor in shared memory are not.  *)
(***************************************************************************)
EXTENDS Integers, Sequences

CONSTANTS
    NEvents,   \* events asked for on the command line (daqpar.nevents)
    NBuffers,  \* slots of the ring (N_BUFFERS)
    UseLaser   \* is the encoder read after each event (daqpar.Laser is 0)?

ASSUME EventsAssumption == NEvents \in Nat \ {0}
ASSUME BuffersAssumption == NBuffers \in Nat \ {0}

VARIABLES
    producer, consumer,         \* where the two threads are
    main,                       \* main() waits in pthread_join, then ends
    emptyBuffers, fullBuffers,  \* the semaphores
    forced_stop, linkOpen,      \* stop flag; the handle of the VME bridge is valid
    written_ev, lost_ev, eh, laser, waddr, buffer,
    read_ev, raddr, record,     \* record: the header fields written so far
    file, rhEvents,             \* the run file: its events, number_of_events of its header
    handler                     \* [at, on]: next step of the handler, its thread

producerVars == <<producer, written_ev, lost_ev, eh, laser, waddr, buffer>>
consumerVars == <<consumer, read_ev, raddr, record, file, rhEvents>>
vars == <<producerVars, consumerVars, main, emptyBuffers, fullBuffers,
          forced_stop, linkOpen, handler>>

Slots == 0 .. NBuffers - 1
Events == 0 .. NEvents     \* 0: none yet
ProducerPC == {"wait", "check", "read", "laser", "post", "loop", "done"}
ConsumerPC == {"open", "wait", "check", "time", "laser", "data", "post",
               "close", "unlock", "done"}
HandlerPC == {"none", "empty", "full", "close", "return", "over"}
Threads == {"producer", "consumer", "main"}

\* Mutant: the address is not wrapped.
NextSlotPast(s) == s + 1
NextSlot(s) == IF s + 1 = NBuffers THEN 0 ELSE s + 1
\* A thread stands still while the handler runs on it.
Runs(thread) == handler.at \in {"none", "over"} \/ handler.on # thread

Init ==
    /\ producer = "wait" /\ consumer = "open" /\ main = "join"
    /\ emptyBuffers = NBuffers /\ fullBuffers = 0
    /\ forced_stop = FALSE /\ linkOpen = TRUE
    /\ written_ev = 0 /\ lost_ev = 0 /\ eh = 0 /\ laser = 0 /\ waddr = 0
    /\ buffer = [s \in Slots |-> 0]
    /\ read_ev = 0 /\ raddr = 0 /\ record = [time |-> 0, laser |-> 0]
    /\ file = <<>> /\ rhEvents = NEvents
    /\ handler = [at |-> "none", on |-> "main"]

-----------------------------------------------------------------------------
(* The producer. *)

ProducerGo(from, to) ==
    /\ Runs("producer") /\ producer = from /\ producer' = to
    /\ UNCHANGED <<consumerVars, main, linkOpen, handler, forced_stop>>

ProducerWait ==
    /\ ProducerGo("wait", "check")
    /\ emptyBuffers > 0 /\ emptyBuffers' = emptyBuffers - 1
    /\ UNCHANGED <<fullBuffers, written_ev, lost_ev, eh, laser, waddr, buffer>>

\* Mutants: the flag is not looked at; the header is written before the count.
ProducerCheckNever ==
    /\ ProducerGo("check", "read") /\ written_ev < NEvents
    /\ written_ev' = written_ev + 1 /\ eh' = written_ev + 1
    /\ UNCHANGED <<emptyBuffers, fullBuffers, lost_ev, laser, waddr, buffer>>

ProducerCheckStale ==
    /\ IF forced_stop
       THEN ProducerGo("check", "done") /\ UNCHANGED <<written_ev, eh>>
       ELSE /\ ProducerGo("check", "read")
            /\ written_ev' = written_ev + 1 /\ eh' = written_ev
    /\ UNCHANGED <<emptyBuffers, fullBuffers, lost_ev, laser, waddr, buffer>>

\* The header of the new event overwrites the one in `eh'.
ProducerCheck ==
    /\ IF forced_stop
       THEN ProducerGo("check", "done") /\ UNCHANGED <<written_ev, eh>>
       ELSE /\ ProducerGo("check", "read")
            /\ written_ev' = written_ev + 1 /\ eh' = written_ev + 1
    /\ UNCHANGED <<emptyBuffers, fullBuffers, lost_ev, laser, waddr, buffer>>

\* daq_v1724_MBLT() until it succeeds; without the handle it never does.
ProducerRead ==
    /\ ProducerGo("read", IF UseLaser THEN "laser" ELSE "post")
    /\ linkOpen
    /\ buffer' = [buffer EXCEPT ![waddr] = written_ev]
    /\ UNCHANGED <<emptyBuffers, fullBuffers, written_ev, lost_ev, eh, laser, waddr>>

\* readPos() keeps the old reading when it gets no packet.
ProducerLaser ==
    /\ ProducerGo("laser", "post")
    /\ laser' \in {laser, written_ev}
    /\ UNCHANGED <<emptyBuffers, fullBuffers, written_ev, lost_ev, eh, waddr, buffer>>

ProducerPost ==
    /\ ProducerGo("post", IF written_ev = NEvents THEN "done" ELSE "loop")
    /\ fullBuffers' = fullBuffers + 1 /\ waddr' = NextSlot(waddr)
    /\ UNCHANGED <<emptyBuffers, written_ev, lost_ev, eh, laser, buffer>>

ProducerLoop ==
    /\ ProducerGo("loop", IF forced_stop THEN "done" ELSE "wait")
    /\ UNCHANGED <<emptyBuffers, fullBuffers, written_ev, lost_ev, eh, laser, waddr, buffer>>

ProducerStep ==
    \/ ProducerWait \/ ProducerCheck \/ ProducerRead \/ ProducerLaser
    \/ ProducerPost \/ ProducerLoop

-----------------------------------------------------------------------------
(* The consumer. *)

ConsumerGo(from, to) ==
    /\ Runs("consumer") /\ consumer = from /\ consumer' = to
    /\ UNCHANGED <<producerVars, main, linkOpen, handler>>

\* do { read_ev++; ... : the count is raised before the event is there.
ConsumerOpen ==
    /\ ConsumerGo("open", "wait") /\ read_ev' = read_ev + 1
    /\ UNCHANGED <<emptyBuffers, fullBuffers, forced_stop, raddr, record, file, rhEvents>>

ConsumerOpenFails ==
    /\ ConsumerGo("open", "done")
    /\ UNCHANGED <<emptyBuffers, fullBuffers, forced_stop, read_ev, raddr, record,
                   file, rhEvents>>

ConsumerWait ==
    /\ ConsumerGo("wait", "check")
    /\ fullBuffers > 0 /\ fullBuffers' = fullBuffers - 1
    /\ UNCHANGED <<emptyBuffers, forced_stop, read_ev, raddr, record, file, rhEvents>>

\* Mutant: the flag is not looked at.
ConsumerCheckNever ==
    /\ ConsumerGo("check", "time")
    /\ UNCHANGED <<emptyBuffers, fullBuffers, forced_stop, read_ev, raddr, record,
                   file, rhEvents>>

ConsumerCheck ==
    /\ ConsumerGo("check", IF forced_stop THEN "close" ELSE "time")
    /\ UNCHANGED <<emptyBuffers, fullBuffers, forced_stop, read_ev, raddr, record,
                   file, rhEvents>>

ConsumerTime ==
    /\ ConsumerGo("time", "laser") /\ record' = [record EXCEPT !.time = eh]
    /\ UNCHANGED <<emptyBuffers, fullBuffers, forced_stop, read_ev, raddr, file, rhEvents>>

ConsumerLaser ==
    /\ ConsumerGo("laser", "data") /\ record' = [record EXCEPT !.laser = laser]
    /\ UNCHANGED <<emptyBuffers, fullBuffers, forced_stop, read_ev, raddr, file, rhEvents>>

ConsumerData ==
    /\ ConsumerGo("data", "post")
    /\ file' = Append(file, [time |-> record.time, laser |-> record.laser,
                             data |-> buffer[raddr]])
    /\ UNCHANGED <<emptyBuffers, fullBuffers, forced_stop, read_ev, raddr, record, rhEvents>>

\* Mutants: the count is raised once more; the slot is not given back.
ConsumerPostCounts ==
    /\ raddr' = NextSlot(raddr) /\ emptyBuffers' = emptyBuffers + 1
    /\ ConsumerGo("post", IF read_ev < NEvents THEN "wait" ELSE "close")
    /\ read_ev' = read_ev + 1
    /\ UNCHANGED <<fullBuffers, forced_stop, record, file, rhEvents>>

ConsumerPostKeeps ==
    /\ raddr' = NextSlot(raddr)
    /\ \/ read_ev < NEvents /\ ConsumerGo("post", "wait") /\ read_ev' = read_ev + 1
       \/ read_ev >= NEvents /\ ConsumerGo("post", "close") /\ UNCHANGED read_ev
    /\ UNCHANGED <<emptyBuffers, fullBuffers, forced_stop, record, file, rhEvents>>

ConsumerPost ==
    /\ raddr' = NextSlot(raddr) /\ emptyBuffers' = emptyBuffers + 1
    /\ \/ read_ev < NEvents /\ ConsumerGo("post", "wait") /\ read_ev' = read_ev + 1
       \/ read_ev >= NEvents /\ ConsumerGo("post", "close") /\ UNCHANGED read_ev
    /\ UNCHANGED <<fullBuffers, forced_stop, record, file, rhEvents>>

ConsumerClose ==
    /\ ConsumerGo("close", "unlock") /\ rhEvents' = read_ev /\ forced_stop' = TRUE
    /\ UNCHANGED <<emptyBuffers, fullBuffers, read_ev, raddr, record, file>>

ConsumerUnlock ==
    /\ ConsumerGo("unlock", "done") /\ emptyBuffers' = emptyBuffers + 1
    /\ UNCHANGED <<fullBuffers, forced_stop, read_ev, raddr, record, file, rhEvents>>

ConsumerStep ==
    \/ ConsumerWait \/ ConsumerCheck \/ ConsumerTime \/ ConsumerLaser
    \/ ConsumerData \/ ConsumerPost \/ ConsumerClose \/ ConsumerUnlock

-----------------------------------------------------------------------------
(* main() and the signal handler. *)

MainJoin ==
    /\ Runs("main") /\ main = "join" /\ producer = "done" /\ consumer = "done"
    /\ main' = "done" /\ linkOpen' = FALSE
    /\ UNCHANGED <<producerVars, consumerVars, emptyBuffers, fullBuffers,
                   forced_stop, handler>>

Signal ==
    /\ handler.at = "none" /\ main = "join" /\ forced_stop' = TRUE
    /\ \E t \in Threads :
          /\ t = "producer" => producer # "done"
          /\ t = "consumer" => consumer # "done"
          /\ handler' = [at |-> "empty", on |-> t]
    /\ UNCHANGED <<producerVars, consumerVars, main, emptyBuffers, fullBuffers, linkOpen>>

HandlerGo(from, to) ==
    /\ handler.at = from /\ handler' = [handler EXCEPT !.at = to]
    /\ UNCHANGED <<main, forced_stop>>

HandlerPostEmpty ==
    /\ HandlerGo("empty", "full") /\ emptyBuffers' = emptyBuffers + 1
    /\ UNCHANGED <<producerVars, consumerVars, fullBuffers, linkOpen>>

\* Mutant: only the producer is woken.
HandlerPostFullNot ==
    /\ HandlerGo("full", "close")
    /\ UNCHANGED <<producerVars, consumerVars, emptyBuffers, fullBuffers, linkOpen>>

HandlerPostFull ==
    /\ HandlerGo("full", "close") /\ fullBuffers' = fullBuffers + 1
    /\ UNCHANGED <<producerVars, consumerVars, emptyBuffers, linkOpen>>

\* daq_vme_end() and closeEIB(), while the producer may be reading.
HandlerClose ==
    /\ HandlerGo("close", "return") /\ linkOpen' = FALSE
    /\ UNCHANGED <<producerVars, consumerVars, emptyBuffers, fullBuffers>>

\* sem_wait() of the interrupted thread fails with EINTR: the producer counts
\* a lost event, the consumer does not look at the result.  A thread that had
\* not entered sem_wait() goes on as before.
HandlerReturn ==
    /\ HandlerGo("return", "over")
    /\ \/ UNCHANGED <<producer, lost_ev, consumer>>
       \/ /\ handler.on = "producer" /\ producer = "wait"
          /\ producer' = "loop" /\ lost_ev' = lost_ev + 1 /\ UNCHANGED consumer
       \/ /\ handler.on = "consumer" /\ consumer = "wait"
          /\ consumer' = "check" /\ UNCHANGED <<producer, lost_ev>>
    /\ UNCHANGED <<written_ev, eh, laser, waddr, buffer, read_ev, raddr, record,
                   file, rhEvents, emptyBuffers, fullBuffers, linkOpen>>

HandlerStep == HandlerPostEmpty \/ HandlerPostFull \/ HandlerClose \/ HandlerReturn

Next ==
    \/ ProducerStep \/ ConsumerOpen \/ ConsumerOpenFails \/ ConsumerStep
    \/ MainJoin \/ Signal \/ HandlerStep

\* While the links are open the boards and the encoder deliver data; closeEIB()
\* on the thread that holds the driver's locks may never return.
Fairness ==
    /\ WF_vars(ProducerStep /\ (producer = "laser" => linkOpen))
    /\ WF_vars(ConsumerOpen \/ ConsumerOpenFails) /\ WF_vars(ConsumerStep)
    /\ WF_vars(HandlerStep /\ ~(handler = [at |-> "close", on |-> "producer"]
                               /\ producer = "laser"))

Spec == Init /\ [][Next]_vars
FairSpec == Spec /\ Fairness

-----------------------------------------------------------------------------
(* Properties. *)

\* The type invariant: the addresses stay inside the ring, the file holds at
\* most the events asked for, and the semaphores exceed the number of slots
\* only by the posts of the handler and of the consumer's end.
TypeOK ==
    /\ producer \in ProducerPC /\ consumer \in ConsumerPC /\ main \in {"join", "done"}
    /\ emptyBuffers \in 0 .. NBuffers + 2 /\ fullBuffers \in 0 .. NBuffers + 1
    /\ forced_stop \in BOOLEAN /\ linkOpen \in BOOLEAN
    /\ written_ev \in Events /\ lost_ev \in 0 .. 1 /\ eh \in Events /\ laser \in Events
    /\ waddr \in Slots /\ raddr \in Slots /\ buffer \in [Slots -> Events]
    /\ read_ev \in Events /\ record \in [time : Events, laser : Events]
    /\ file \in Seq([time : Events, laser : Events, data : Events])
    /\ Len(file) <= NEvents /\ rhEvents \in Events
    /\ handler \in [at : HandlerPC, on : Threads]

\* The producer never fills the slot the consumer is writing to the file, also
\* after the posts with which the handler and the consumer wake the other
\* thread: whoever takes such a post has to see forced_stop (daq_vme.c:746,
\* daq_writer.c:105).
SlotExclusion ==
    producer = "read" /\ consumer \in {"time", "laser", "data", "post"} => waddr # raddr

\* The samples reach the file in the order they were read, none missing, none
\* twice, over every wrap of the ring and whenever the run is stopped.
FileInOrder == \A i \in 1 .. Len(file) : file[i].data = i

\* Header fields are never older than their event (time) and run ahead of it by
\* less than the length of the ring: the header is the producer's current one.
HeaderAhead ==
    \A i \in 1 .. Len(file) :
        /\ file[i].time >= file[i].data
        /\ file[i].time < file[i].data + NBuffers /\ file[i].laser < file[i].data + NBuffers

\* number_of_events of the closed file is exact after a complete run, and one
\* too many after a run that was stopped before (daq_writer.c:102, 105, 207).
HeaderCount ==
    consumer \in {"unlock", "done"} /\ read_ev > 0 =>
        /\ rhEvents = IF Len(file) = NEvents THEN NEvents ELSE Len(file) + 1
        /\ Len(file) = NEvents \/ handler.at # "none"

\* Once the file is open and no signal comes, the run ends with all its events
\* in the file and the right count in its header.
RunCompletes ==
    consumer = "wait" ~>
        \/ handler.at # "none"
        \/ producer = "done" /\ consumer = "done" /\ Len(file) = NEvents
           /\ rhEvents = NEvents

\* A stop ends the consumer, and the producer too unless it is inside a read
\* of hardware that the handler has closed (daq_vme.c:760 tries for ever) or,
\* standing on this very thread, is closing.
StopReleasesThreads ==
    forced_stop ~> /\ consumer = "done"
                   /\ \/ producer = "done"
                      \/ /\ producer \in {"read", "laser"}
                         /\ ~linkOpen \/ handler.on = "producer"
=============================================================================
