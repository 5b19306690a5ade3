--------------------------- MODULE LaserMessaging ---------------------------
(***************************************************************************)
(* The data path of one laser run: run control (runControl.py) and the     *)
(* encoder reader (devices/encoder.c) send requests over ZeroMQ REQ        *)
(* sockets to a broker (ROUTER/DEALER), which passes them to the assembler *)
(* (REP).  The assembler acknowledges a request, merges it into one        *)
(* LaserData record and, for every encoder event, appends the record to    *)
(* the run's text file and to the TCP stream of the DAQ.                   *)
(*                                                                         *)
(* Data abstraction: a run control message is the scan step it describes   *)
(* (count_run; the other fields change with it), an encoder message is its *)
(* trigger count, and a LaserData record is the pair of both.              *)
(***************************************************************************)
EXTENDS Integers, Sequences

CONSTANTS NumSteps,    \* index of the last scan step; bounds the run
          MaxTrigger,  \* bound on the triggers the EIB sees in one run
          FifoSize,    \* packets the EIB driver's FIFO holds
          Connect      \* is the assembler started with -c (stream to the DAQ)?

ASSUME ConstantsAssumption ==
    /\ NumSteps \in Nat
    /\ MaxTrigger \in Nat
    /\ FifoSize \in Nat \ {0}
    /\ Connect \in BOOLEAN

ID_RUNCONTROL == 1
ID_ENCODER    == 2
Clients       == {ID_RUNCONTROL, ID_ENCODER}

Hello == -1                      \* the two values of a message's state field
Data  == 0
Unset == -1                      \* count_run and count_trigger of LaserData()

LastSend == 2 * NumSteps + 1     \* every step is sent twice, starting at 0

VARIABLES
    rc,         \* where run control is
    sends,      \* number of the data message run control sends next
    enc,        \* where the encoder process is
    stop,       \* the flag CtrlHandler sets in the encoder process
    event,      \* EventData.TriggerCount, the event the encoder handles
    trig,       \* triggers counted by the EIB
    lo,         \* triggers lo+1..trig are in the driver's FIFO
    overflow,   \* the FIFO's overflow flag
    at,         \* at[p]: where p's request, or the ack for it, is
    msg,        \* msg[p]: the last message p sent
    brokerUp,   \* is the broker process running?
    asm,        \* where the assembler is
    hand,       \* the message the assembler handles
    alive,      \* clients whose hello the assembler has
    data,       \* the assembler's LaserData record
    txt,        \* lines of Run-<n>.txt
    stream,     \* records sent to the DAQ over TCP
    link,       \* is the TCP connection to the DAQ usable?
    pending,    \* processes with an undelivered SIGINT
    announced,  \* history: step of the last data message of run control
    fresh,      \* history: was it sent after both hellos were in?
    confirmed,  \* history: last such step acknowledged to run control
    acked       \* history: triggers acknowledged to the encoder

rcVars   == <<rc, sends, announced, fresh, confirmed>>
encVars  == <<enc, stop, event, acked>>
eibVars  == <<trig, lo, overflow>>
netVars  == <<at, msg>>
asmVars  == <<asm, hand, alive, data>>
logVars  == <<txt, stream, link>>
vars     == <<rcVars, encVars, eibVars, netVars, asmVars, logVars, brokerUp, pending>>

-----------------------------------------------------------------------------
Places    == {"idle", "inbox", "backend", "acks", "outbox"}
RcRunning == {"hello", "helloWait", "init", "ready", "wait"}
RcEnded   == {"done", "crashed"}
RcStates  == RcRunning \cup {"stopAssembler", "stopBroker", "stopEncoder"} \cup RcEnded
EncLoopStates == {"loop", "clear", "send", "wait"}
EncStates == {"off", "hello", "helloWait", "config", "closing", "exited"} \cup EncLoopStates
AsmStates == {"accept", "recv", "unpack", "sendServer", "writeTxt", "stopped"}
Processes == {"assembler", "broker", "encoder"}

Steps    == 0 .. NumSteps
Triggers == 1 .. MaxTrigger
Record   == [step : Steps \cup {Unset}, trig : Triggers \cup {Unset}]

\* Mutant: one hello is enough.
ReadyAny == alive # {}

\* recv_hellos() returned True: the assembler is past its hello loop.
Ready == alive = Clients

\* The process exists and can be signalled.
Running(p) == CASE p = "assembler" -> asm # "stopped"
                [] p = "broker"    -> brokerUp
                [] p = "encoder"   -> enc \notin {"off", "exited"}

-----------------------------------------------------------------------------
Init ==
    /\ rc = "hello" /\ sends = 0
    /\ enc = "off" /\ stop = FALSE /\ event = 0
    /\ trig = 0 /\ lo = 0 /\ overflow = FALSE
    /\ at = [p \in Clients |-> "idle"]
    /\ msg = [p \in Clients |-> [state |-> Hello, val |-> Unset]]
    /\ brokerUp = TRUE
    /\ asm = IF Connect THEN "accept" ELSE "recv"
    /\ hand = [from |-> ID_RUNCONTROL, state |-> Hello, val |-> Unset]
    /\ alive = {}
    /\ data = [step |-> Unset, trig |-> Unset]
    /\ txt = <<>> /\ stream = <<>> /\ link = Connect
    /\ pending = {}
    /\ announced = Unset /\ fresh = FALSE /\ confirmed = Unset /\ acked = {}

-----------------------------------------------------------------------------
(* REQ sockets: a client sends one request and then waits for its ack.     *)

Request(p, state, val) ==
    /\ at[p] = "idle"
    /\ at' = [at EXCEPT ![p] = "inbox"]
    /\ msg' = [msg EXCEPT ![p] = [state |-> state, val |-> val]]

RecvAck(p) ==
    /\ at[p] = "outbox"
    /\ at' = [at EXCEPT ![p] = "idle"]
    /\ UNCHANGED msg

-----------------------------------------------------------------------------
(* Run control.                                                            *)

RcSendHello ==
    /\ rc = "hello"
    /\ Request(ID_RUNCONTROL, Hello, Unset)
    /\ rc' = "helloWait"
    /\ UNCHANGED <<sends, announced, fresh, confirmed, encVars, eibVars, asmVars, logVars, brokerUp, pending>>

RcHelloAcked ==
    /\ rc = "helloWait"
    /\ RecvAck(ID_RUNCONTROL)
    /\ rc' = "init"
    /\ UNCHANGED <<sends, announced, fresh, confirmed, encVars, eibVars, asmVars, logVars, brokerUp, pending>>

\* Mutant: the encoder is started together with the broker and the assembler.
RcStartEncoderEarly ==
    /\ \/ rc = "hello" /\ enc = "off" /\ enc' = "hello" /\ UNCHANGED rc
       \/ rc = "init" /\ rc' = "ready" /\ UNCHANGED enc
    /\ UNCHANGED <<sends, announced, fresh, confirmed, stop, event, acked,
                   eibVars, netVars, asmVars, logVars, brokerUp, pending>>

\* The rest of init() and startup(); initMotors() starts the encoder process.
RcStartEncoder ==
    /\ rc = "init"
    /\ rc' = "ready"
    /\ enc' = "hello"
    /\ UNCHANGED <<sends, announced, fresh, confirmed, stop, event, acked,
                   eibVars, netVars, asmVars, logVars, brokerUp, pending>>

\* send_data(data): update_mirror_data() and the start of run() for step 0,
\* the start and the end of the loop body for every later step.
RcSendData ==
    /\ rc = "ready"
    /\ Request(ID_RUNCONTROL, Data, sends \div 2)
    /\ rc' = "wait"
    /\ announced' = sends \div 2
    /\ fresh' = Ready
    /\ UNCHANGED <<sends, confirmed, encVars, eibVars, asmVars, logVars, brokerUp, pending>>

RcDataAcked ==
    /\ rc = "wait"
    /\ RecvAck(ID_RUNCONTROL)
    /\ rc' = IF sends = LastSend THEN "stopAssembler" ELSE "ready"
    /\ sends' = sends + 1
    /\ confirmed' = IF fresh THEN announced ELSE confirmed
    /\ UNCHANGED <<announced, fresh, encVars, eibVars, asmVars, logVars, brokerUp, pending>>

\* Serial ports that are not open yet make every device command raise, also
\* those of finalize() and of the signal handlers.
PortsOpen   == {"ready", "wait"}
PortsClosed == {"hello", "helloWait"}

\* An exception, or SystemExit from sigterm_handler, leaves the try block.
\* finalize() first talks to the devices: when that raises, it ends run
\* control before any child is stopped.
RcAbort ==
    /\ rc \in RcRunning \cup {"stopAssembler"}
    /\ rc' \in {"crashed"} \cup (IF rc \in PortsClosed THEN {} ELSE {"stopAssembler"})
    /\ UNCHANGED <<sends, announced, fresh, confirmed, encVars, eibVars, netVars,
                   asmVars, logVars, brokerUp, pending>>

\* process_stop(): SIGINT to a process that is still alive.
Signal(ps) == pending' = pending \cup {p \in ps : Running(p)}

RcStopAssembler ==
    /\ rc = "stopAssembler"
    /\ Signal({"assembler"})
    /\ rc' = "stopBroker"
    /\ UNCHANGED <<sends, announced, fresh, confirmed, encVars, eibVars, netVars, asmVars, logVars, brokerUp>>

RcStopBroker ==
    /\ rc = "stopBroker"
    /\ Signal({"broker"})
    /\ rc' = "stopEncoder"
    /\ UNCHANGED <<sends, announced, fresh, confirmed, encVars, eibVars, netVars, asmVars, logVars, brokerUp>>

\* proc_encoder does not exist before encoder_start(): encoder_stop() raises.
RcStopEncoder ==
    /\ rc = "stopEncoder"
    /\ Signal({"encoder"})
    /\ rc' = IF enc = "off" THEN "crashed" ELSE "done"
    /\ UNCHANGED <<sends, announced, fresh, confirmed, encVars, eibVars, netVars, asmVars, logVars, brokerUp>>

RcStep == RcSendHello \/ RcHelloAcked \/ RcStartEncoder \/ RcSendData \/ RcDataAcked
          \/ RcStopAssembler \/ RcStopBroker \/ RcStopEncoder

\* Ctrl-C at the terminal reaches the whole process group.  sigint_handler of
\* run control stops the hardware and returns: the run goes on.
CtrlC ==
    /\ rc \in RcRunning
    /\ Signal(Processes)
    /\ rc' \in (IF rc \in PortsClosed THEN {} ELSE {rc}) \cup (IF rc \in PortsOpen THEN {} ELSE {"crashed"})
    /\ UNCHANGED <<sends, announced, fresh, confirmed, encVars, eibVars, netVars, asmVars, logVars, brokerUp>>

-----------------------------------------------------------------------------
(* The encoder process and the EIB it reads.                               *)

\* Mutant: an off-by-one in the driver's test for a full FIFO.
FifoFullLate == trig - lo > FifoSize

FifoFull == trig - lo = FifoSize

\* A trigger: the driver's receive thread puts a packet into the FIFO, over
\* the oldest one when the FIFO is full.
EibTrigger ==
    /\ enc \in EncLoopStates \cup {"closing"}
    /\ trig < MaxTrigger
    /\ trig' = trig + 1
    /\ IF FifoFull
       THEN lo' = lo + 1 /\ overflow' = TRUE
       ELSE UNCHANGED <<lo, overflow>>
    /\ UNCHANGED <<rcVars, encVars, netVars, asmVars, logVars, brokerUp, pending>>

EncSendHello ==
    /\ enc = "hello"
    /\ Request(ID_ENCODER, Hello, Unset)
    /\ enc' = "helloWait"
    /\ UNCHANGED <<stop, event, acked, rcVars, eibVars, asmVars, logVars, brokerUp, pending>>

EncHelloAcked ==
    /\ enc = "helloWait"
    /\ RecvAck(ID_ENCODER)
    /\ enc' = "config"
    /\ UNCHANGED <<stop, event, acked, rcVars, eibVars, asmVars, logVars, brokerUp, pending>>

\* Opening and configuring the EIB, the reference run, enabling the trigger.
EncConfigure ==
    /\ enc = "config"
    /\ enc' = "loop"
    /\ UNCHANGED <<stop, event, acked, rcVars, eibVars, netVars, asmVars, logVars, brokerUp, pending>>

\* CheckError() exits on any driver error.  exit() does not wait for a request
\* that was left behind when SIGINT interrupted zmq_recv(): it may be lost.
EncCheckError ==
    /\ enc \in {"config", "loop", "closing"}
    /\ enc' = "exited"
    /\ \/ UNCHANGED at
       \/ at[ID_ENCODER] = "inbox" /\ at' = [at EXCEPT ![ID_ENCODER] = "idle"]
    /\ UNCHANGED <<stop, event, acked, msg, rcVars, eibVars, asmVars, logVars, brokerUp, pending>>

\* Mutant: the loop is left only when the FIFO is empty.
EncLeaveLoopDrained ==
    /\ enc = "loop" /\ stop /\ lo = trig
    /\ enc' = "closing"
    /\ UNCHANGED <<stop, event, acked, rcVars, eibVars, netVars, asmVars, logVars, brokerUp, pending>>

\* while(!stop): the last pass is over.
EncLeaveLoop ==
    /\ enc = "loop" /\ stop
    /\ enc' = "closing"
    /\ UNCHANGED <<stop, event, acked, rcVars, eibVars, netVars, asmVars, logVars, brokerUp, pending>>

\* EIB7ReadFIFOData() reports an overflow, once, and returns no packet.
EncReadOverflow ==
    /\ enc = "loop" /\ ~stop
    /\ lo < trig /\ overflow
    /\ overflow' = FALSE
    /\ enc' = "clear"
    /\ UNCHANGED <<stop, event, acked, trig, lo, rcVars, netVars, asmVars, logVars, brokerUp, pending>>

\* EIB7ClearFIFO() empties the FIFO; it leaves the overflow flag alone.
EncClearFIFO ==
    /\ enc = "clear"
    /\ lo' = trig
    /\ enc' = "loop"
    /\ UNCHANGED <<stop, event, acked, trig, overflow, rcVars, netVars, asmVars, logVars, brokerUp, pending>>

EncReadEvent ==
    /\ enc = "loop" /\ ~stop
    /\ lo < trig /\ ~overflow
    /\ lo' = lo + 1
    /\ event' = lo + 1
    /\ enc' = "send"
    /\ UNCHANGED <<stop, acked, trig, overflow, rcVars, netVars, asmVars, logVars, brokerUp, pending>>

EncSendEvent ==
    /\ enc = "send"
    /\ Request(ID_ENCODER, Data, event)
    /\ enc' = "wait"
    /\ UNCHANGED <<stop, event, acked, rcVars, eibVars, asmVars, logVars, brokerUp, pending>>

EncEventAcked ==
    /\ enc = "wait"
    /\ RecvAck(ID_ENCODER)
    /\ acked' = acked \cup {event}
    /\ enc' = "loop"
    /\ UNCHANGED <<stop, event, rcVars, eibVars, asmVars, logVars, brokerUp, pending>>

\* SIGINT sets the flag and interrupts a blocked zmq_recv(), whose error the
\* code does not look at.  Before the handler is installed it kills.
EncSigint ==
    /\ "encoder" \in pending
    /\ pending' = pending \ {"encoder"}
    /\ \/ stop' = TRUE
          /\ enc' = CASE enc = "helloWait" -> "config"
                      [] enc = "wait"      -> "loop"
                      [] OTHER             -> enc
       \/ enc = "hello" /\ enc' = "exited" /\ UNCHANGED stop
    /\ UNCHANGED <<event, acked, rcVars, eibVars, netVars, asmVars, logVars, brokerUp>>

\* zmq_ctx_destroy() waits for a request that could not be sent yet.
Flushed == brokerUp \/ at[ID_ENCODER] # "inbox"

EncClose ==
    /\ enc = "closing"
    /\ enc' = "exited"
    /\ UNCHANGED <<stop, event, acked, rcVars, eibVars, netVars, asmVars, logVars, brokerUp, pending>>

EncStep == EncSendHello \/ EncHelloAcked \/ EncConfigure \/ EncLeaveLoop \/ EncReadOverflow
           \/ EncClearFIFO \/ EncReadEvent \/ EncSendEvent \/ EncEventAcked

-----------------------------------------------------------------------------
(* The broker.                                                             *)

BrokerForward(p) ==
    /\ brokerUp /\ at[p] = "inbox"
    /\ at' = [at EXCEPT ![p] = "backend"]
    /\ UNCHANGED <<msg, rcVars, encVars, eibVars, asmVars, logVars, brokerUp, pending>>

BrokerReply(p) ==
    /\ brokerUp /\ at[p] = "acks"
    /\ at' = [at EXCEPT ![p] = "outbox"]
    /\ UNCHANGED <<msg, rcVars, encVars, eibVars, asmVars, logVars, brokerUp, pending>>

BrokerSigint ==
    /\ "broker" \in pending
    /\ pending' = pending \ {"broker"}
    /\ brokerUp' = FALSE
    /\ UNCHANGED <<rcVars, encVars, eibVars, netVars, asmVars, logVars>>

-----------------------------------------------------------------------------
(* The assembler.                                                          *)

\* start_server(): accept() returned.
AsmAccept ==
    /\ asm = "accept"
    /\ asm' = "recv"
    /\ UNCHANGED <<hand, alive, data, rcVars, encVars, eibVars, netVars, logVars, brokerUp, pending>>

\* recv_hello() waited too long; the time starts anew with every message.
AsmHelloTimeout ==
    /\ asm = "recv" /\ ~Ready
    /\ \A p \in Clients : at[p] # "backend"
    /\ asm' = "stopped"
    /\ UNCHANGED <<hand, alive, data, rcVars, encVars, eibVars, netVars, logVars, brokerUp, pending>>

\* An exception ends the assembler: start_server() cannot bind, or a file of
\* the main loop cannot be written.
AsmRaise ==
    /\ asm \in {"accept", "unpack", "writeTxt"}
    /\ asm = "unpack" => Ready
    /\ asm' = "stopped"
    /\ UNCHANGED <<hand, alive, data, rcVars, encVars, eibVars, netVars, logVars, brokerUp, pending>>

\* Mutant: only the encoder's messages are acknowledged.
AsmRecvAckEncoder(p) ==
    /\ asm = "recv"
    /\ at[p] = "backend"
    /\ at' = IF p = ID_ENCODER THEN [at EXCEPT ![p] = "acks"] ELSE at
    /\ hand' = [from |-> p, state |-> msg[p].state, val |-> msg[p].val]
    /\ asm' = "unpack"
    /\ UNCHANGED <<alive, data, msg, rcVars, encVars, eibVars, logVars, brokerUp, pending>>

\* recv() acknowledges a message before it unpacks or stores it.
AsmRecv(p) ==
    /\ asm = "recv"
    /\ at[p] = "backend"
    /\ at' = [at EXCEPT ![p] = "acks"]
    /\ hand' = [from |-> p, state |-> msg[p].state, val |-> msg[p].val]
    /\ asm' = "unpack"
    /\ UNCHANGED <<alive, data, msg, rcVars, encVars, eibVars, logVars, brokerUp, pending>>

\* recv_hellos(): a hello marks its sender, anything else is dropped.
AsmUnpackHello ==
    /\ asm = "unpack" /\ ~Ready
    /\ alive' = IF hand.state = Hello THEN alive \cup {hand.from} ELSE alive
    /\ asm' = "recv"
    /\ UNCHANGED <<hand, data, rcVars, encVars, eibVars, netVars, logVars, brokerUp, pending>>

\* Mutant: every message goes to the DAQ and to the file.
AsmUnpackDataAll ==
    /\ asm = "unpack" /\ Ready
    /\ data' = IF hand.from = ID_ENCODER THEN [data EXCEPT !.trig = hand.val]
                                        ELSE [data EXCEPT !.step = hand.val]
    /\ asm' = IF Connect THEN "sendServer" ELSE "writeTxt"
    /\ UNCHANGED <<hand, alive, rcVars, encVars, eibVars, netVars, logVars, brokerUp, pending>>

\* The main loop: merge the message into the record and write laser.bin; only
\* an encoder event goes on to the DAQ and to the text file.
AsmUnpackData ==
    /\ asm = "unpack" /\ Ready
    /\ IF hand.from = ID_ENCODER
       THEN /\ data' = [data EXCEPT !.trig = hand.val]
            /\ asm' = IF Connect THEN "sendServer" ELSE "writeTxt"
       ELSE /\ data' = [data EXCEPT !.step = hand.val]
            /\ asm' = "recv"
    /\ UNCHANGED <<hand, alive, rcVars, encVars, eibVars, netVars, logVars, brokerUp, pending>>

\* Mutant: the send is repeated on success.
AsmSendServerAgain ==
    /\ asm = "sendServer"
    /\ stream' = IF link THEN Append(stream, data) ELSE stream
    /\ asm' = IF link THEN "sendServer" ELSE "writeTxt"
    /\ Len(stream) <= MaxTrigger
    /\ UNCHANGED <<hand, alive, data, txt, link, rcVars, encVars, eibVars, netVars, brokerUp, pending>>

\* send_server() returns False on a broken connection; the caller goes on.
AsmSendServer ==
    /\ asm = "sendServer"
    /\ stream' = IF link THEN Append(stream, data) ELSE stream
    /\ asm' = "writeTxt"
    /\ UNCHANGED <<hand, alive, data, txt, link, rcVars, encVars, eibVars, netVars, brokerUp, pending>>

AsmWriteTxt ==
    /\ asm = "writeTxt"
    /\ txt' = Append(txt, data)
    /\ asm' = "recv"
    /\ UNCHANGED <<hand, alive, data, stream, link, rcVars, encVars, eibVars, netVars, brokerUp, pending>>

AsmSigint ==
    /\ "assembler" \in pending
    /\ pending' = pending \ {"assembler"}
    /\ asm' = "stopped"
    /\ UNCHANGED <<hand, alive, data, rcVars, encVars, eibVars, netVars, logVars, brokerUp>>

AsmStep == AsmUnpackHello \/ AsmUnpackData \/ AsmSendServer \/ AsmWriteTxt

DaqDisconnects ==
    /\ link /\ asm # "accept"
    /\ link' = FALSE
    /\ UNCHANGED <<txt, stream, rcVars, encVars, eibVars, netVars, asmVars, brokerUp, pending>>

-----------------------------------------------------------------------------
Next ==
    \/ RcStep \/ RcAbort \/ CtrlC
    \/ EibTrigger \/ EncStep \/ EncCheckError \/ EncSigint \/ EncClose
    \/ \E p \in Clients : BrokerForward(p) \/ BrokerReply(p) \/ AsmRecv(p)
    \/ BrokerSigint
    \/ AsmStep \/ AsmAccept \/ AsmHelloTimeout \/ AsmRaise \/ AsmSigint
    \/ DaqDisconnects

\* The broker and the assembler poll their sockets in a loop; the pipe to the
\* assembler is a queue, so a request in it is received even when the other
\* client keeps sending; the encoder's loop runs.  Nothing is assumed of run
\* control, whose user may not answer, of the DAQ, the triggers or signals.
Fairness ==
    /\ \A p \in Clients : WF_vars(BrokerForward(p) \/ BrokerReply(p)) /\ SF_vars(AsmRecv(p))
    /\ WF_vars(AsmStep) /\ WF_vars(EncStep) /\ WF_vars(EncClose /\ Flushed)

Spec == Init /\ [][Next]_vars /\ Fairness

\* For the runs about how a run ends: run control itself also keeps going.
RunSpec == Spec /\ WF_vars(RcStep)

-----------------------------------------------------------------------------
(* Properties.                                                             *)

TypeOK ==
    /\ rc \in RcStates /\ sends \in 0 .. LastSend + 1
    /\ announced \in Steps \cup {Unset} /\ confirmed \in Steps \cup {Unset}
    /\ fresh \in BOOLEAN
    /\ enc \in EncStates /\ stop \in BOOLEAN /\ event \in 0 .. MaxTrigger
    /\ acked \subseteq Triggers
    /\ trig \in 0 .. MaxTrigger /\ lo \in 0 .. trig /\ trig - lo <= FifoSize
    /\ overflow \in BOOLEAN
    /\ at \in [Clients -> Places]
    /\ msg \in [Clients -> [state : {Hello, Data}, val : Int]]
    /\ brokerUp \in BOOLEAN /\ pending \subseteq Processes
    /\ asm \in AsmStates /\ alive \subseteq Clients
    /\ hand \in [from : Clients, state : {Hello, Data}, val : Int]
    /\ data \in Record
    /\ txt \in Seq(Record) /\ stream \in Seq(Record)
    /\ link \in BOOLEAN

\* The run's text file is an event log: every encoder event at most once and
\* in order, merged with a step that is neither unannounced nor older than
\* what run control was told had been received.
Log == INSTANCE EventLog WITH log <- txt
LogIsEventLog == Log!Spec

\* The ack leaves before the line is written, so an acknowledged event can be
\* missing from the file; but it is only ever the one event the assembler has
\* in its hands, and none while it waits for the next message.  In particular
\* the hello loop, which drops data, never drops an encoder event.
Recorded == {txt[i].trig : i \in DOMAIN txt}
AckedIsRecorded ==
    acked \subseteq Recorded \cup
        (IF asm = "recv" \/ hand.from # ID_ENCODER THEN {} ELSE {hand.val})

\* The DAQ's TCP stream carries the lines of the text file in the same order,
\* at most one line ahead of it, and drops lines only after the link broke.
StreamFollowsFile ==
    /\ Len(stream) <= Len(txt) + 1
    /\ \A i \in DOMAIN stream : stream[i] = Append(txt, data)[i]
    /\ link /\ asm = "recv" => Len(stream) = Len(txt)

\* As long as broker and assembler run, every request is answered.
MessagingUp == brokerUp /\ asm \notin {"accept", "stopped"}
RequestsAnswered ==
    \A p \in Clients :
        at[p] # "idle" ~> (at[p] \in {"idle", "outbox"} \/ ~MessagingUp)

\* SIGINT ends the encoder process while broker and assembler run.
EncoderStopsWhileUp == stop ~> (enc = "exited" \/ ~MessagingUp)

\* runControl.py, line 58: "Stopping laser run on user request (sigint)" -
\* after Ctrl-C, which also stops the broker, run control ends.
InterruptEndsRun == ~brokerUp ~> rc \in RcEnded
=============================================================================
