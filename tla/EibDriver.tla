------------------------------ MODULE EibDriver ------------------------------
(***************************************************************************)
(* The EIB741 driver (EIBLib/src) as the threads of a program see it: the  *)
(* calls that change the operating mode, eib7.c, the receiver threads,     *)
(* cmdtcp.c, and the two locks and the FIFO between them.  Thread 0 is the *)
(* program's, the others are receivers, on which the callback runs.        *)
(*                                                                         *)
(* A command to the device succeeds or is refused, as it comes; the        *)
(* release of the master interface is never refused.  Packets are numbered *)
(* as the device sends them, arrive whole and in order, and are lost only  *)
(* on the way to a socket without a connection.  The device keeps the      *)
(* connections open.  The program changes the callback only while no       *)
(* receiver runs, and closes the driver from thread 0.                     *)
(***************************************************************************)
EXTENDS EibFifo, FiniteSets

CONSTANTS
    Receivers,       \* the receiver threads, 1 .. n: bound on how many live at a time
    MaxPackets,      \* bound on the packets of the device
    Sizes,           \* sizes of the FIFO, in packets
    SocketSize,      \* bound on the packets that wait in a socket
    BufferSize,      \* packets in the buffer of a receiver, REC_BUF_SIZE
    MaxRead,         \* largest number of packets asked for
    Threshold,       \* packets in the FIFO that make the receiver call back
    AppCalls, CallbackCalls   \* what the program and its callback call

SelectCalls == {"srt", "strm", "record", "poll"}
LockedCalls == SelectCalls \cup {"enable", "disable", "close", "setCallback", "command"}
Calls == LockedCalls \cup {"read", "readRaw", "clear", "setFIFOSize"}

ASSUME ReceiversAssumption == Receivers \subseteq Nat \ {0} /\ Receivers # {}
ASSUME BoundsAssumption ==
    /\ MaxPackets \in Nat /\ SocketSize \in Nat \ {0} /\ BufferSize \in Nat \ {0}
    /\ MaxRead \in Nat \ {0} /\ Threshold \in Nat \ {0}
ASSUME SizesAssumption == Sizes \subseteq Nat \ {0, 1} /\ Sizes # {}
ASSUME CallsAssumption ==
    AppCalls \subseteq Calls /\ CallbackCalls \subseteq Calls \ (SelectCalls \cup {"close"})
ASSUME PacketAssumption == Packet = 1 .. MaxPackets /\ NoPacket = 0

VARIABLES
    open, threadlock, fifolock, threadendflag, threadrunning, threadtype, thread,
    master, fifo, fifosize, callback,       \* EIB_Data, and is the handle valid?
    pc, after, left,     \* of each thread: where it is, in which call, and how far
    was_master,          \* local of EIB7SelectMode()
    kind, data, num,     \* of each receiver: its handler, its buffer, the count it saw
    transfer, sent, socket,   \* the device: what it sends; and the receive buffer
    last, missing, told  \* last packet read or cleared; packets lost before the FIFO;
                         \* was a loss told?

driver == <<open, threadlock, fifolock, threadendflag, threadrunning, threadtype, thread,
            master, fifo, fifosize, callback>>
receiver == <<kind, data, num>>
device == <<transfer, sent, socket>>
history == <<last, missing, told>>
vars == <<driver, pc, after, left, was_master, receiver, device, history>>

App == 0
Threads == {App} \cup Receivers
Nobody == -1

Min2(a, b) == IF a < b THEN a ELSE b
Home(t) == IF t = App THEN "idle" ELSE "callback"
Alive(r) == pc[r] # "dead"

Init ==
    /\ open = TRUE /\ threadlock = Nobody /\ fifolock = Nobody
    /\ threadendflag = FALSE /\ threadrunning = FALSE /\ threadtype = "none" /\ thread = App
    /\ master = FALSE /\ fifo = DestroyedFIFO /\ fifosize \in Sizes /\ callback = FALSE
    /\ pc = [t \in Threads |-> IF t = App THEN "idle" ELSE "dead"]
    /\ after = [t \in Threads |-> "none"] /\ left = [t \in Threads |-> 0]
    /\ was_master = FALSE
    /\ kind = [r \in Receivers |-> "none"] /\ data = [r \in Receivers |-> <<>>]
    /\ num = [r \in Receivers |-> 0]
    /\ transfer = "none" /\ sent = 0 /\ socket = <<>>
    /\ last = 0 /\ missing = {} /\ told = FALSE

-----------------------------------------------------------------------------
(* Calls and locks. *)

At(t, from) == pc[t] = from
Goto(t, to) == pc' = [pc EXCEPT ![t] = to]

\* EIB_RetrieveHandlePtr(); the callback runs only while the handle is valid.
Call(t, c) ==
    /\ open /\ At(t, Home(t)) /\ c \in (IF t = App THEN AppCalls ELSE CallbackCalls)
    /\ \/ c \in LockedCalls /\ Goto(t, "lock") /\ UNCHANGED left
       \/ /\ c \in {"read", "readRaw"} /\ Goto(t, "read")
          /\ \E cnt \in 1 .. MaxRead : left' = [left EXCEPT ![t] = cnt]
       \/ c = "clear" /\ threadrunning /\ Goto(t, "clear") /\ UNCHANGED left
    /\ after' = [after EXCEPT ![t] = c]
    /\ UNCHANGED <<driver, was_master, receiver, device, history>>

\* EIB7SetFIFOSize() takes no lock.
SetFIFOSize ==
    /\ open /\ At(App, "idle") /\ "setFIFOSize" \in AppCalls /\ ~threadrunning
    /\ fifosize' \in Sizes
    /\ UNCHANGED <<open, threadlock, fifolock, threadendflag, threadrunning, threadtype,
                   thread, master, fifo, callback, pc, after, left, was_master, receiver,
                   device, history>>

Lock(t) ==
    /\ At(t, "lock") /\ threadlock = Nobody
    /\ threadlock' = t /\ Goto(t, after[t])
    /\ UNCHANGED <<open, fifolock, threadendflag, threadrunning, threadtype, thread, master,
                   fifo, fifosize, callback, after, left, was_master, receiver, device,
                   history>>

\* The call returns, and its locals are gone.
Over(t) ==
    /\ Goto(t, Home(t))
    /\ after' = [after EXCEPT ![t] = "none"] /\ left' = [left EXCEPT ![t] = 0]
Return(t) == Over(t) /\ threadlock' = Nobody /\ was_master' = (was_master /\ t # App)

\* Any call that sends a command under the lock and changes nothing else here,
\* and the end of a mode change.
Command(t) ==
    /\ At(t, "command") \/ At(t, "started")
    /\ Return(t)
    /\ UNCHANGED <<open, fifolock, threadendflag, threadrunning, threadtype, thread, master,
                   fifo, fifosize, callback, receiver, device, history>>

SetDataCallback(t) ==
    /\ At(t, "setCallback") /\ Return(t)
    /\ callback' \in IF threadrunning THEN {callback} ELSE BOOLEAN
    /\ UNCHANGED <<open, fifolock, threadendflag, threadrunning, threadtype, thread, master,
                   fifo, fifosize, receiver, device, history>>

-----------------------------------------------------------------------------
(* Ending and starting a receiver. *)

\* Mutant: the lock is kept while the thread is waited for.
StopReceiverLocked(t) ==
    /\ At(t, "stop") /\ threadrunning
    /\ threadendflag' = TRUE /\ Goto(t, "join") /\ UNCHANGED threadlock
    /\ UNCHANGED <<open, fifolock, threadrunning, threadtype, thread, master, fifo, fifosize,
                   callback, after, left, was_master, receiver, device, history>>

\* "we need to release the thread lock here, to avoid deadlock"
StopReceiver(t) ==
    /\ At(t, "stop") /\ threadrunning
    /\ threadendflag' = TRUE /\ Goto(t, "join") /\ threadlock' = Nobody
    /\ UNCHANGED <<open, fifolock, threadrunning, threadtype, thread, master, fifo, fifosize,
                   callback, after, left, was_master, receiver, device, history>>

NothingToStop(t) ==
    /\ At(t, "stop") /\ ~threadrunning /\ Goto(t, "stopped")
    /\ UNCHANGED <<driver, after, left, was_master, receiver, device, history>>

\* Mutant: the end of the thread is not waited for.
JoinNot(t) ==
    /\ At(t, "join") /\ Goto(t, "relock")
    /\ UNCHANGED <<driver, after, left, was_master, receiver, device, history>>

\* EIB_WaitThread().  pthread_join() refuses to wait for the caller itself.
Join(t) ==
    /\ At(t, "join") /\ (~Alive(thread) \/ thread = t) /\ Goto(t, "relock")
    /\ UNCHANGED <<driver, after, left, was_master, receiver, device, history>>

Relock(t) ==
    /\ At(t, "relock") /\ threadlock = Nobody
    /\ threadlock' = t /\ threadendflag' = FALSE
    /\ threadrunning' = FALSE /\ threadtype' = "none" /\ Goto(t, "stopped")
    /\ UNCHANGED <<open, fifolock, thread, master, fifo, fifosize, callback, after, left,
                   was_master, receiver, device, history>>

\* A new FIFO, and a new socket.
NewSession ==
    /\ fifo' = CreateFIFO(fifosize) /\ socket' = <<>>
    /\ last' = sent /\ missing' = {} /\ told' = FALSE

StartThread(t, k, to) ==
    \E r \in Receivers :
       /\ ~Alive(r) /\ \A s \in Receivers : s < r => Alive(s)
       /\ pc' = [pc EXCEPT ![r] = "wait", ![t] = to]
       /\ thread' = r /\ threadrunning' = TRUE /\ threadtype' = k /\ threadendflag' = FALSE
       /\ kind' = [kind EXCEPT ![r] = k] /\ data' = [data EXCEPT ![r] = <<>>]
       /\ UNCHANGED num

NoThread == UNCHANGED <<thread, threadrunning, threadtype, threadendflag, kind, data, num>>

-----------------------------------------------------------------------------
(* EIB7SelectMode(): the lock, the master interface, the end of the        *)
(* receiver, and then what the mode needs.                                 *)

RequestMaster(t) ==
    /\ pc[t] \in SelectCalls
    /\ \/ /\ was_master' = master /\ master' = TRUE
          /\ Goto(t, "stop") /\ UNCHANGED <<threadlock, after, left>>
       \/ ~master /\ Return(t) /\ UNCHANGED master
    /\ UNCHANGED <<open, fifolock, threadendflag, threadrunning, threadtype, thread, fifo,
                   fifosize, callback, receiver, device, history>>

Stopped(t, c) == At(t, "stopped") /\ after[t] = c
\* "Release the master interface if the change mode was not successful and we
\* were not master in the beginning"
ReleaseUnlessMaster == master' = (master /\ was_master)

\* No memory, no socket, the address refused, or no thread.
SelectFails(t) ==
    /\ Stopped(t, "srt") \/ Stopped(t, "strm")
    /\ \/ fifo' = DestroyedFIFO /\ UNCHANGED <<socket, history>>
       \/ NewSession
    /\ Return(t) /\ NoThread
    /\ UNCHANGED <<open, fifolock, master, fifosize, callback, transfer, sent>>

\* The receiver is started before the device is told to send.
SelectSoftRealtime(t) ==
    /\ Stopped(t, "srt") /\ NewSession /\ StartThread(t, "srt", "srtCommand")
    /\ UNCHANGED <<open, threadlock, fifolock, master, fifosize, callback, after, left,
                   was_master, transfer, sent>>

SoftRealtimeSelected(t) ==
    /\ At(t, "srtCommand") /\ transfer' = "srt" /\ Return(t)
    /\ UNCHANGED <<open, fifolock, threadendflag, threadrunning, threadtype, thread, master,
                   fifo, fifosize, callback, receiver, sent, socket, history>>

SoftRealtimeRefused(t) ==
    /\ At(t, "srtCommand") /\ ReleaseUnlessMaster
    /\ after' = [after EXCEPT ![t] = "srtRefused"] /\ threadendflag' = TRUE
    /\ Goto(t, "join") /\ threadlock' = Nobody
    /\ UNCHANGED <<open, fifolock, threadrunning, threadtype, thread, fifo, fifosize,
                   callback, left, was_master, receiver, device, history>>

\* The receiver of the refused mode has ended; its FIFO stays.
AfterRefusal(t) ==
    /\ Stopped(t, "srtRefused") /\ socket' = <<>> /\ Return(t)
    /\ UNCHANGED <<open, fifolock, threadendflag, threadrunning, threadtype, thread, master,
                   fifo, fifosize, callback, receiver, transfer, sent, history>>

\* The device sends before the receiver is started, which may fail.
SelectStreaming(t) ==
    /\ Stopped(t, "strm") /\ NewSession
    /\ \/ ReleaseUnlessMaster /\ Return(t) /\ NoThread /\ UNCHANGED transfer
       \/ transfer' = "strm" /\ Return(t) /\ NoThread /\ UNCHANGED master
       \/ /\ transfer' = "strm" /\ StartThread(t, "strm", "started")
          /\ UNCHANGED <<threadlock, master, after, left, was_master>>
    /\ UNCHANGED <<open, fifolock, fifosize, callback, sent>>

SelectPolling(t) ==
    /\ Stopped(t, "poll") \/ Stopped(t, "record")
    /\ fifo' = DestroyedFIFO /\ socket' = <<>> /\ Return(t)
    /\ \/ ReleaseUnlessMaster /\ UNCHANGED transfer
       \/ transfer' = "none" /\ master' = (master /\ after[t] = "record")
    /\ UNCHANGED <<open, fifolock, threadendflag, threadrunning, threadtype, thread,
                   fifosize, callback, receiver, sent, history>>

-----------------------------------------------------------------------------
(* EIB7TransferRecordingData() and EIB7Close(). *)

\* Blocked by a receiver, or the device refuses.
EnableRefused(t) ==
    /\ At(t, "enable") /\ Return(t)
    /\ UNCHANGED <<open, fifolock, threadendflag, threadrunning, threadtype, thread, master,
                   fifo, fifosize, callback, receiver, device, history>>

EnableFails(t) ==
    /\ At(t, "enable") /\ ~threadrunning /\ fifo' = DestroyedFIFO /\ Return(t) /\ NoThread
    /\ UNCHANGED <<open, fifolock, master, fifosize, callback, device, history>>

\* The receiver is started before its socket is there.
Enable(t) ==
    /\ At(t, "enable") /\ ~threadrunning /\ NewSession /\ StartThread(t, "rec", "connect")
    /\ UNCHANGED <<open, threadlock, fifolock, master, fifosize, callback, after, left,
                   was_master, transfer, sent>>

Connect(t) ==
    /\ At(t, "connect")
    /\ \/ transfer' = "rec" /\ Return(t) /\ UNCHANGED threadendflag
       \/ /\ after' = [after EXCEPT ![t] = "connectFailed"] /\ threadendflag' = TRUE
          /\ Goto(t, "join") /\ threadlock' = Nobody
          /\ UNCHANGED <<left, transfer, was_master>>
    /\ UNCHANGED <<open, fifolock, threadrunning, threadtype, thread, master, fifo, fifosize,
                   callback, receiver, sent, socket, history>>

\* Mutant: what is running is not looked at.
DisableAny(t) ==
    /\ At(t, "disable")
    /\ \/ Return(t) /\ UNCHANGED transfer
       \/ /\ transfer' = "none" /\ Goto(t, "stopped")
          /\ UNCHANGED <<threadlock, after, left, was_master>>
    /\ UNCHANGED <<open, fifolock, threadendflag, threadrunning, threadtype, thread, master,
                   fifo, fifosize, callback, receiver, sent, socket, history>>

Disable(t) ==
    /\ At(t, "disable")
    /\ \/ Return(t) /\ UNCHANGED transfer
       \/ /\ threadtype = "rec" /\ transfer' = "none" /\ Goto(t, "stop")
          /\ UNCHANGED <<threadlock, after, left, was_master>>
    /\ UNCHANGED <<open, fifolock, threadendflag, threadrunning, threadtype, thread, master,
                   fifo, fifosize, callback, receiver, sent, socket, history>>

\* The end of both: the FIFO and the socket go.
TransferOver(t) ==
    /\ Stopped(t, "disable") \/ Stopped(t, "connectFailed")
    /\ fifo' = DestroyedFIFO /\ socket' = <<>> /\ Return(t)
    /\ UNCHANGED <<open, fifolock, threadendflag, threadrunning, threadtype, thread, master,
                   fifosize, callback, receiver, transfer, sent, history>>

Close(t) ==
    /\ At(t, "close") /\ Goto(t, "stop")
    /\ UNCHANGED <<driver, after, left, was_master, receiver, device, history>>

\* The handle and the structure behind it are gone.
Closed(t) ==
    /\ Stopped(t, "close") /\ open' = FALSE /\ master' = FALSE
    /\ fifo' = DestroyedFIFO /\ transfer' = "none" /\ socket' = <<>> /\ Return(t)
    /\ UNCHANGED <<fifolock, threadendflag, threadrunning, threadtype, thread, fifosize,
                   callback, receiver, sent, history>>

-----------------------------------------------------------------------------
(* Reading: EIB7ReadFIFOData(), EIB7ReadFIFODataRaw() and EIB7ClearFIFO(). *)

\* Nothing there, and the timeout has run out.
ReadTimesOut(t) ==
    /\ At(t, "read") /\ fifolock = Nobody /\ NumElements(fifo) = 0 /\ Over(t)
    /\ UNCHANGED <<driver, was_master, receiver, device, history>>

ReadStarts(t) ==
    /\ At(t, "read") /\ fifolock = Nobody /\ NumElements(fifo) > 0
    /\ fifolock' = t /\ Goto(t, "element")
    /\ left' = [left EXCEPT ![t] = Min2(left[t], NumElements(fifo))]
    /\ UNCHANGED <<open, threadlock, threadendflag, threadrunning, threadtype, thread, master,
                   fifo, fifosize, callback, after, was_master, receiver, device, history>>

Unlock(t) == Over(t) /\ fifolock' = Nobody

\* One packet, in order, or the report that some are lost.
ReadElement(t) ==
    /\ At(t, "element")
    /\ \/ /\ left[t] = 0 \/ NumElements(fifo) = 0
          /\ Unlock(t) /\ UNCHANGED <<fifo, history>>
       \/ /\ left[t] > 0 /\ NumElements(fifo) > 0 /\ fifo.overflow
          /\ fifo' = IF after[t] = "readRaw" THEN RetrieveFIFO(fifo) ELSE Reported(fifo)
          /\ told' = TRUE /\ Unlock(t) /\ UNCHANGED <<last, missing>>
       \/ /\ left[t] > 0 /\ NumElements(fifo) > 0 /\ ~fifo.overflow
          /\ last' = Oldest(fifo) /\ fifo' = RemoveElementFIFO(fifo) /\ told' = FALSE
          /\ missing' = {p \in missing : p > last'}
          /\ left' = [left EXCEPT ![t] = left[t] - 1] /\ UNCHANGED <<fifolock, pc, after>>
    /\ UNCHANGED <<open, threadlock, threadendflag, threadrunning, threadtype, thread, master,
                   fifosize, callback, was_master, receiver, device>>

Clear(t) ==
    /\ At(t, "clear") /\ fifolock = Nobody
    /\ fifo' = ClearFIFO(fifo) /\ Over(t)
    /\ last' = IF Contents(fifo) = <<>> THEN last ELSE Contents(fifo)[NumElements(fifo)]
    /\ missing' = {p \in missing : p > last'}
    /\ UNCHANGED <<open, threadlock, fifolock, threadendflag, threadrunning, threadtype,
                   thread, master, fifosize, callback, was_master, receiver,
                   device, told>>

-----------------------------------------------------------------------------
(* The receivers. *)

ThreadEnds(r) ==
    /\ Goto(r, "dead")
    /\ kind' = [kind EXCEPT ![r] = "none"] /\ data' = [data EXCEPT ![r] = <<>>]
    /\ num' = [num EXCEPT ![r] = 0]

ReceiverEnds(r) ==
    /\ At(r, "wait") /\ threadendflag /\ ThreadEnds(r)
    /\ UNCHANGED <<driver, after, left, was_master, device, history>>

\* EIB_WaitForUDPData(): packets wait in the socket.
DataArrived(r) ==
    /\ At(r, "wait") /\ ~threadendflag /\ socket # <<>> /\ Goto(r, "lockFIFO")
    /\ num' = [num EXCEPT ![r] = 0]
    /\ UNCHANGED <<driver, after, left, was_master, kind, data, device, history>>

\* With packets in its buffer the handler makes one turn in any case.
LockFIFO(r) ==
    /\ At(r, "lockFIFO") /\ fifolock = Nobody /\ fifolock' = r
    /\ Goto(r, IF data[r] # <<>> THEN "flush" ELSE "receive")
    /\ UNCHANGED <<open, threadlock, threadendflag, threadrunning, threadtype, thread, master,
                   fifo, fifosize, callback, after, left, was_master, receiver, device,
                   history>>

\* How many packets one receive takes: the bytes of a TCP connection that fit in
\* the buffer, or one datagram.
Chunk(r) ==
    Min2(Len(socket), Min2(BufferSize - Len(data[r]),
                           IF kind[r] = "rec" THEN BufferSize ELSE 1))

\* A datagram is gone from the socket even when there is no room for it.
Truncated(r) == Chunk(r) = 0 /\ kind[r] # "rec" /\ socket # <<>>
Received(r) == IF Truncated(r) THEN 1 ELSE Chunk(r)
SocketAfter(r) == SubSeq(socket, Received(r) + 1, Len(socket))

Receiving(r) == At(r, "flush") \/ (At(r, "receive") /\ Chunk(r) > 0)

\* The "end" of a receive: the thread is to end; what was received is dropped.
ReceiveEnds(r) ==
    /\ Receiving(r) /\ threadendflag /\ fifolock' = Nobody /\ ThreadEnds(r)
    /\ socket' = SocketAfter(r)
    /\ missing' = missing \cup {socket[i] : i \in 1 .. Received(r)}
    /\ UNCHANGED <<open, threadlock, threadendflag, threadrunning, threadtype, thread, master,
                   fifo, fifosize, callback, after, left, was_master, transfer, sent, last,
                   told>>

\* A soft realtime packet always goes to the FIFO, those of the other modes
\* while there are free elements; the rest waits in the buffer.
Receive(r) ==
    /\ Receiving(r) /\ ~threadendflag /\ Goto(r, "insert")
    /\ data' = [data EXCEPT ![r] = @ \o SubSeq(socket, 1, Chunk(r))]
    /\ socket' = SocketAfter(r)
    /\ missing' = IF Truncated(r) THEN missing \cup {Head(socket)} ELSE missing
    /\ left' = [left EXCEPT ![r] = IF kind[r] = "srt" THEN 1
                                   ELSE Min2(Len(data'[r]), FreeElements(fifo))]
    /\ UNCHANGED <<driver, after, was_master, kind, num, transfer, sent, last, told>>

Insert(r) ==
    /\ At(r, "insert") /\ UNCHANGED after
    /\ \/ left[r] = 0 /\ Goto(r, "receive") /\ UNCHANGED <<fifo, data, num, left>>
       \/ /\ left[r] > 0
          /\ fifo' = InsertFIFO(fifo, Head(data[r])) /\ data' = [data EXCEPT ![r] = Tail(@)]
          /\ num' = [num EXCEPT ![r] = NumElements(fifo')]
          /\ left' = [left EXCEPT ![r] = @ - 1] /\ UNCHANGED pc
    /\ UNCHANGED <<open, threadlock, fifolock, threadendflag, threadrunning, threadtype,
                   thread, master, fifosize, callback, was_master, kind, device, history>>

\* Nothing more to receive: the lock is released, and then the callback called.
UnlockFIFO(r) ==
    /\ At(r, "receive") /\ Chunk(r) = 0 /\ fifolock' = Nobody
    /\ socket' = SocketAfter(r)
    /\ missing' = IF Truncated(r) THEN missing \cup {Head(socket)} ELSE missing
    /\ Goto(r, IF num[r] >= Threshold /\ callback THEN "callback" ELSE "wait")
    /\ UNCHANGED <<open, threadlock, threadendflag, threadrunning, threadtype, thread, master,
                   fifo, fifosize, callback, after, left, was_master, receiver, transfer, sent,
                   last, told>>

CallbackReturns(r) ==
    /\ At(r, "callback") /\ Goto(r, "wait") /\ num' = [num EXCEPT ![r] = 0]
    /\ UNCHANGED <<driver, after, left, was_master, kind, data, device, history>>

\* The device: a recording is sent over TCP, which waits, the rest over UDP.
Send ==
    /\ transfer # "none" /\ sent < MaxPackets /\ sent' = sent + 1
    /\ \/ Len(socket) < SocketSize /\ socket' = Append(socket, sent')
          /\ UNCHANGED missing
       \/ Len(socket) = SocketSize /\ transfer # "rec" /\ UNCHANGED socket
          /\ missing' = missing \cup {sent'}
    /\ UNCHANGED <<driver, pc, after, left, was_master, receiver, transfer, last, told>>

-----------------------------------------------------------------------------
ModeStep(t) ==
    \/ Lock(t) \/ Command(t) \/ SetDataCallback(t)
    \/ StopReceiver(t) \/ NothingToStop(t) \/ Join(t) \/ Relock(t)
    \/ RequestMaster(t) \/ SelectFails(t) \/ SelectSoftRealtime(t)
    \/ SoftRealtimeSelected(t) \/ SoftRealtimeRefused(t) \/ AfterRefusal(t)
    \/ SelectStreaming(t) \/ SelectPolling(t)
    \/ EnableRefused(t) \/ EnableFails(t) \/ Enable(t) \/ Connect(t) \/ Disable(t)
    \/ TransferOver(t) \/ Close(t) \/ Closed(t)

ReadStep(t) == ReadTimesOut(t) \/ ReadStarts(t) \/ ReadElement(t) \/ Clear(t)

ReceiverStep(r) ==
    \/ ReceiverEnds(r) \/ DataArrived(r) \/ LockFIFO(r) \/ ReceiveEnds(r) \/ Receive(r)
    \/ Insert(r) \/ UnlockFIFO(r) \/ CallbackReturns(r)

Next ==
    \/ \E t \in Threads : (\E c \in Calls : Call(t, c)) \/ ModeStep(t) \/ ReadStep(t)
    \/ \E r \in Receivers : ReceiverStep(r)
    \/ SetFIFOSize \/ Send

\* Every thread runs; the program gets a lock that is free again and again: a
\* handler whose buffer stays full sleeps outside the lock; and the callback
\* returns in the end, however often it calls.
Fairness ==
    /\ SF_vars(ModeStep(App) \/ ReadStep(App))
    /\ \A r \in Receivers :
          /\ WF_vars(ModeStep(r) \/ ReadStep(r) \/ ReceiverStep(r))
          /\ SF_vars(CallbackReturns(r))

Spec == Init /\ [][Next]_vars
FairSpec == Spec /\ Fairness

-----------------------------------------------------------------------------
(* Properties. *)

\* The type invariant: the FIFO is a ring of one of the sizes or none, and each
\* lock is held by a thread that is in a call.
TypeOK ==
    /\ open \in BOOLEAN /\ threadlock \in Threads \cup {Nobody}
    /\ fifolock \in Threads \cup {Nobody}
    /\ threadendflag \in BOOLEAN /\ threadrunning \in BOOLEAN
    /\ threadtype \in {"none", "srt", "strm", "rec"} /\ thread \in Threads
    /\ master \in BOOLEAN /\ IsFIFO(fifo) /\ fifosize \in Sizes /\ callback \in BOOLEAN
    /\ after \in [Threads -> Calls \cup {"none", "srtRefused", "connectFailed"}]
    /\ left \in [Threads -> Nat] /\ was_master \in BOOLEAN
    /\ kind \in [Receivers -> {"none", "srt", "strm", "rec"}]
    /\ data \in [Receivers -> Seq(Packet)]
    /\ \A r \in Receivers : Len(data[r]) <= BufferSize
    /\ num \in [Receivers -> Nat]
    /\ transfer \in {"none", "srt", "strm", "rec"} /\ sent \in 0 .. MaxPackets
    /\ socket \in Seq(Packet) /\ last \in 0 .. MaxPackets
    /\ missing \subseteq Packet /\ told \in BOOLEAN

\* "we continue only when the thread has ended" (eib7.c:836): there is never a
\* second receiver, and whoever changes the FIFO without its lock is alone.
OneReceiver ==
    /\ Cardinality({r \in Receivers : Alive(r)}) <= 1
    /\ \A t \in Threads : At(t, "stopped") => \A r \in Receivers : ~Alive(r)

\* A receiver always has a FIFO to put packets in (with none the number of free
\* elements is a division by zero), the one it was started with.
ReceiverHasFifo == \A r \in Receivers : Alive(r) => fifo.max > 1

\* A reader never meets packets twice or out of order, and a packet between two
\* that it reads was lost before the FIFO, or the loss was reported.
NoSilentLoss ==
    [][\A t \in Threads : ReadElement(t) /\ last' # last =>
          /\ last' > last
          /\ told \/ \A p \in last + 1 .. last' - 1 : p \in missing]_vars

\* For its readers the ring is a bounded queue.
Queue == INSTANCE PacketFifo WITH
    queue <- Contents(fifo), capacity <- IF fifo.max = 0 THEN 0 ELSE fifo.max - 1,
    overflow <- fifo.overflow
FifoIsQueue == Queue!Spec

\* A thread that waits for the receiver to end gets on, whatever the callback
\* calls meanwhile, and so does every call.
CallsReturn == pc[App] # "idle" ~> pc[App] = "idle"

\* "All EIB7* calls can be made safely from this callback, without locking,
\* except for" Open, Close and SelectMode (eib7.h:126).
CallbackSafe == ReceiverHasFifo

\* "buffer is full -> wait" (cmdtcp.c:667): a receiver with no room for what comes
\* leaves it where it is.
BufferFullWaits ==
    [][\A r \in Receivers : pc'[r] # pc[r] /\ pc'[r] # "dead" => missing' \subseteq missing]_vars
=============================================================================
