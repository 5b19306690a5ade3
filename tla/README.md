# Verification of the laser calibration system (LCS)

TLA+ modules, TLC runs and TLAPS proofs about the laser run control in
`src/workspace/RunControl`, the EIB741 driver library it reads the encoders with
(`src/workspace/old/EIBLib`) and the prototype DAQ (`src/prototype/DAQ_1.6.3`).
Paths below are relative to the first directory, those of the driver (`eib7.c`,
`cmdtcp.c`, ...) to `src/workspace/old/EIBLib/src`, unless they start with `src/`.

## Inventory

| Component | State it keeps | Operations | Interacts with | What is hard | What makes it correct |
|---|---|---|---|---|---|
| run control (`runControl.py`, `base/controls.py`) | place in the program, scan step, child processes | init, startup, run, finalize, signal handlers, manual mode | starts and signals the children, sends data to the assembler, drives the devices | signals and exceptions between any two commands, children that are gone | every shot falls into an announced step; a finalized run leaves no light; every run ends |
| messaging (`services/communication.py`) | one request per client, hello flags | send_hello, send_data, recv_hellos, recv, send_ack | REQ - ROUTER/DEALER - REP sockets | ack before processing, no timeouts, hello phase drops data | each request is answered; no acknowledged event is lost |
| broker (`mac/broker.py`) | messages in flight | forward, reply | both | killed by the same Ctrl-C as run control | order of a client's messages |
| assembler (`mac/assembler.py`, `services/data.py`, `services/tcp.py`) | one `LaserData` record, text file, TCP connection | accept, hello loop, main loop, writeTxt, send_server | broker, DAQ | merges two independent streams into one record; broken connection | the text file is a log of events, each with a step that was current |
| encoder reader (`devices/encoder.c`) | stop flag, current event | hello, configuration, event loop, shutdown, CheckError | EIB driver, broker | SIGINT while it waits, FIFO overflow | events once and in order; SIGINT ends it |
| EIB driver, data (`fifo.c`, `eib7.c`, `cmdtcp.c`, `linux_commtcp.c`) | FIFO, two locks, receiver thread, mode, callback | SelectMode, TransferRecordingData, Close, ReadFIFOData(Raw), ClearFIFO, SetFIFOSize, SetDataCallback | device (UDP, TCP), program, callback | a mode change ends one thread and starts another with the lock released; full buffers; callbacks that call the driver | one receiver at a time, with a FIFO; packets in order, loss told; calls return |
| EIB driver, commands (`cmdtcp.c`, `commands.c`, `eib7_cmd.c`, `eib7.c`) | sequence number, master flag, TCP stream | request, release, configure, select mode, any other command | device, other clients of it | answers after the timeout, in parts, to another thread's command | an answer is taken for its own command only; the master interface is released |
| laser (`devices/laser.py`, `base/device.py`) | shutter, pulse division, on/off | open/closeShutter, setRate, singleShot, start, stop | serial line | failed commands, integer division | rate and shutter are what the scan asked for |
| axes (`devices/feedtrough.py`, `base/motor.py`) | position, target | moveRelative, moveAbsolute, monitor, stop, homeAxis | serial line | stop by a signal handler while polled; homing heuristics | movements end; positions are the plan's |
| attenuator, mirrors, aperture (`devices/*.py`) | position, calibration | move, convert | serial line | rounding, retries | conversion round trips |
| serial line (`base/comserial.py`) | open port | init, close, write, recv | all devices | commands on a closed port raise | - |
| scan files (`services/positions.py`) | rows | getters | run control | row 0 is a position only | - |
| old assembler (`src/workspace/DataAssembler`) | record, files | own message protocol | - | same as above | - |
| prototype DAQ (`src/prototype/DAQ_1.6.3`) | event ring, two semaphores, event header, run file | producer, consumer, signal handler, main | digitizer boards over VME, encoder | globals shared by threads, a handler that posts semaphores | slots not overwritten, events in order, stop releases both threads |

The vendor package under `src/documents`, the EncoderController,
FeedthroughControl and HomingTask prototypes and the scripts for single devices
are outside the plan: third-party, superseded or interactive code.

## What is modelled

### LaserMessaging: the data path of a run

Five processes: run control, encoder reader (with the EIB FIFO it reads),
broker, assembler and DAQ connection. A request is in one of five places
(`at[p]`): with its client (`idle`), before the broker (`inbox`), after it
(`backend`), acknowledged (`acks`), and the ack back at the client's socket
(`outbox`). REQ sockets allow one request at a time, so this and the last
message (`msg[p]`) are the whole network.

- Run control (`Rc*`): `init()` sends the hello, `initMotors()` starts the
  encoder, then 2 * NumSteps + 2 data messages (step 0 twice, by
  `update_mirror_data()` and `run()`; later steps at the start and the end of
  the loop body), then `finalize()` sends SIGINT to the three children.
  `RcAbort` is an exception at any point; whether `finalize()` reaches the
  children depends on open ports (`PortsOpen`, `PortsClosed`) and on devices that may
  fail in it. `CtrlC` is SIGINT to the whole process group.
- Encoder (`Enc*`, `EibTrigger`): hello, configuration, event loop, overflow
  and clear, shutdown, and the exits of `CheckError()`. SIGINT sets `stop` and
  interrupts `zmq_recv()`.
- Broker (`Broker*`) and assembler (`Asm*`): the assembler acknowledges
  (`AsmRecv`), then unpacks (`AsmUnpackHello` drops data, `AsmUnpackData` merges),
  sends to the DAQ and writes the line; it may be stopped by SIGINT, by the
  hello timeout or by an exception between any two of these steps.

Data: run control's message is its scan step (`count_run`, 4 device positions
and the laser id change with it), an encoder message its trigger count, the
`LaserData` record the pair of both. Recorded history variables (`announced`,
`fresh`, `confirmed`, `acked`) are never read by a guard.

### EventLog: what the data path promises

The abstract specification: run control announces steps, some are confirmed,
and lines are appended whose trigger is later than all before and whose step
lies between the confirmed and the announced one and is no older than that
of the line before. `LogIsEventLog` is the refinement, with `log <- txt`.

### LaserScan: the laser and the axes during a run

One action per command of `startup()` (after homing), `run()` and `finalize()`;
`pc` names the next command. Axes move by themselves (`AxisMoves`). SIGINT and
SIGTERM start a handler that runs `stop()` command by command between two
commands of the program; SIGTERM then raises SystemExit. `Raise` is an exception
anywhere; a failing command to the laser (`SetLaser`) may or may not take
effect and the program goes on. A send to the assembler is the
assignment to `announced`: that the text file attributes it correctly is
LaserMessaging's part.

### HomeAxis: one axis from the start of a run to its scan

`initAxis()` and `homeAxis()` (`devices/feedtrough.py`) as `initMotors()` calls them.
The controller keeps its two switches, the register R1 (homed by hand, or
homed before), the position and the movement (`HM` homing, `MR` relative) from run
to run; the program samples the position of a homing axis and decides from
three samples whether it has turned or gone too far. A set command or an echo
may be garbled, a reply may be empty (`BadReply` ends the program where the
code raises), the home switch may be dead. Assumed: the commands without check (HM,
MR, stop) arrive, an axis advances 1 to `Speed` between two samples, a new run
starts with the axis at rest, and a reading that confirms a value is true.
`MCHomeAxis` holds the three kinds of axis of the configuration files.

### EibFifo, PacketFifo, EibDriver: data from the device to the program

`EibFifo` has the ring of `fifo.c` as operators on a record: insertion with
its wrap, one slot that stays empty, the overflow flag. `EibDriver` is the threads
around it. Thread 0 is the program, the others are the receivers that
`EIB_StartThread()` makes, at most as many as `Receivers`; the callback runs on
a receiver and may call the driver itself. `pc[t]` is the place of a thread,
`after[t]` the call it is in. A mode change takes the lock, asks for the master
interface, sets `threadendflag`, releases the lock, joins the receiver, takes
the lock again and sets up FIFO, socket and thread (`StopReceiver` to
`SelectStreaming`). A receiver waits for data, takes the FIFO lock, moves what it has
to the FIFO, and calls back (`DataArrived` to `CallbackReturns`). Packets are numbered;
`missing` are those lost before the FIFO and `told` whether a reader was told of
a loss. `PacketFifo` is the bounded queue that the ring promises its readers.
Assumed: one packet per datagram, a device that keeps its connections open, a
callback that is changed only while no receiver runs, `EIB7Close()` from thread 0.

### EibCommand: commands and the master interface

`TCP_ExecuteCommand()` for threads that share the connection, word by word:
`Send` writes a numbered request, `ReceiveHeader` and `ReceiveResult` take from
the socket what is there, as `recv()` does, and the loop skips answers with a smaller
number. A receive may time out (or be interrupted) whenever the socket is empty; header
and result of an answer arrive separately, so that a result may be left in the
stream without its header. `Ended` is what the callers make of the outcome:
`EIB7ConfigDataPacket()` and `EIB7SelectMode()` request the master interface unless
they have it, and release it on most of their error paths. The device, external,
answers in order and may refuse; another client may take the master interface.

A call is `config`, `test` (any single command) or one of the modes of
`EIB7SelectMode()`: `poll`, `record` (both recording modes), `realtime`, `stream`. Its
commands are stages: `request`, then for SoftRealtime `setip`
(`EIBCmd_SetIPForSoftRT()`), then `command`, its older form `softrt` where the device
does not know SelectMode, and `release`. A mode may first wait for a receiver without the
thread lock (`JoinReceiver`, `Joined`), so that other threads' calls come in between; a
set-up may fail for want of memory, a socket or a thread (`SetUpFails`, and in `Ended`
the thread that Streaming starts last). Whether a receiver runs is left open here: what
the driver does with threads is EibDriver's part, where a command is one step.
`MCEibCommand` says which thread makes which calls.

### DaqRing: the event ring of the prototype DAQ

The threads `producer()` and `consumer()`, the semaphores, the slots, and the
globals `eh` and `laser` that nothing guards. The signal handler runs on any of
the three threads, between any two of its steps, posts both semaphores and closes the
links. Data are event numbers: which event the samples, the header and the
encoder reading of a record belong to.

## Properties and runs

| Run | Shows | Bounds | States |
|---|---|---|---|
| messaging | `IInv`, `AckedIsRecorded`, `LogIsEventLog` | steps 0..1, 2 triggers, FIFO of 1, no DAQ | 2.1 million |
| stream | `TypeOK`, `StreamFollowsFile` | step 0 only, 2 triggers, FIFO of 1, DAQ | 2.5 million |
| liveness | `RequestsAnswered`, `EncoderStopsWhileUp` | step 0 only, 1 trigger | 0.3 million |
| scan | `TypeOK`, `ShotsAnnounced`, `ShotsAsPlanned`, `DarkWhenDone`, `RunEnds` | 49 scans of 2 rows, 1 signal | 0.2 million |
| interrupt | `InterruptEndsRun` is violated | no trigger | |
| scan_stop | `StopStaysDark` is violated | 1 signal, no faults | |
| daq | `TypeOK`, `SlotExclusion`, `FileInOrder`, `HeaderAhead`, `HeaderCount`, `RunCompletes`, `StopReleasesThreads` | 4 events, 2 slots, with encoder | 0.2 million |
| homing | `TypeOK`, `MovesArmed`, `OvershootBounded`, `WorkingSwitchHomes`, `HomingEnds` | 3 kinds of axis, 2 runs, speed 2, work range 4, end at 6 | 39 thousand |
| eib | `TypeOK`, `OneReceiver`, `ReceiverHasFifo`, `NoSilentLoss`, `FifoIsQueue`, `CallsReturn` | 3 packets, 2 receivers, FIFO of 1 or 2 packets, socket and buffer of 1 | 0.3 million |
| eib_command | `TypeOK`, `MasterKnown`, `LateAnswersSkipped`, `RefusalReleases`, `CallsReturn` | 2 threads with different calls, 2 calls of up to 5 commands | 0.7 million |
| eib_callback | `CallbackSafe` is violated | 3 packets, 2 receivers, the callback ends the transfer | |
| eib_stream | `BufferFullWaits` is violated | 4 packets, streaming and reading | |

Why the bounds are enough: two steps give an older and a newer record, hence
every misassociation of an event; two triggers with a FIFO of one packet give an
overflow, a clear and an order; the invariant proved below holds for every value
of these constants. The liveness run has one trigger, so the overflow
path is not part of what it shows. The seven rows of the scan run are the kinds that `run()`
distinguishes (moving shots along either axis, single shot after a move or
without one, burst, no shots), in all pairs with a different attenuator
position, at rates that divide 10 Hz, that do not (4 Hz, as the scans of the repository
ask for, and 3 Hz) and at one that the laser refuses (20 Hz). One
signal reaches every interleaving of a handler with the program; a signal that
interrupts a handler is not modelled. Deadlock is not checked: a finished
run, or one whose children are gone, really stops.

The other instances. daq: four events go round a ring of two slots twice, and
the handler runs on each thread. homing: the second run meets what the first left
behind, a speed of 2 leaves a sample on either side of the switch, and the end
lies beyond every bound. eib: three packets overflow a FIFO of one or two, a second
receiver is started while the first may still live, and a read of one packet
at a time is enough since a longer one only keeps the lock. eib_command: one call
leaves up to five answers behind for the next, of either thread. The first thread polls,
starts SoftRealtime and configures, the second polls, streams and tests, so that every
pair of these calls occurs, on two threads or one after the other on one; recording differs from streaming only by what
comes after its last command. Where the stream is out of step a number can be taken
for a size only from the thirteenth on, which two calls do not reach. The theorems hold for
every value of these constants, every number of threads and every choice of calls.

Fairness. Broker and assembler poll in endless loops (weak fairness). The pipe
to the assembler is a queue, so the assembler receives every message in it
although the other client may keep it busy: strong fairness of `AsmRecv(p)`.
The encoder's loop runs. `EncClose` is fair only while its request can be flushed,
because `zmq_ctx_destroy()` waits for it. Nothing is assumed of run control in
`Spec`, whose user may not answer a prompt, nor of triggers, signals or the
DAQ; `RunSpec` adds run control for the interrupt run. In LaserScan the
program, the handlers and the movements proceed. In DaqRing the threads and the
handler run and the boards deliver data while the link is open. In HomeAxis the
program and the axis proceed, and a reply that says that the axis stands is read
in the end (strong fairness of `HomingOver`: replies may be garbled, but not
for ever). In EibDriver every thread runs; the program has strong fairness
because a receiver that cannot put its packets into a full FIFO sleeps with no lock held
(`cmdtcp.c:561`), so that a lock that is free again and again is got; and a callback
returns however often it calls (strong fairness of `CallbackReturns`). In EibCommand the
threads run and a receive without data times out; nothing is assumed of device
and network.

## What is proved

Eight modules of theorems, each for every value of the constants that satisfies
the named assumptions of the module it is about.

| Module | Theorems |
|---|---|
| LaserMessaging_proofs | `Invariance` (`IInv`), `TypeCorrect`, `NoAckedEventLost` (`AckedIsRecorded`), `ImplementsEventLog` (the refinement), `StreamIsFile` (`StreamFollowsFile`) |
| LaserScan_proofs | `Invariance`, `TypeCorrect`, `LightIsAnnounced` (`ShotsAnnounced`), `DarkInTheEnd` (`DarkWhenDone`), `ShotsWherePlanned` (`ShotsAsPlanned`) |
| DaqRing_proofs | `Invariance`, `TypeCorrect`, `Exclusion` (`SlotExclusion`), `Order` (`FileInOrder`), `HeadersBounded` (`HeaderAhead`), `CountOfHeader` (`HeaderCount`) |
| HomeAxis_proofs | `TypeCorrect`, `LimitsArmed` (`MovesArmed`), `DeadSwitchCaught` (`OvershootBounded`), `NoFalseAbort` (`WorkingSwitchHomes`) |
| EibFifo_proofs | lemmas on the ring: what insertion, removal and clearing do to its contents |
| EibDriver_proofs | `Invariance`, `TypeCorrect`, `NoSecondReceiver` (`OneReceiver`), `FifoWhileReceiving` (`ReceiverHasFifo`), `RingIsQueue` (`FifoIsQueue`) |
| EibLoss_proofs | `NoLossUnnoticed` (`NoSilentLoss`) |
| EibCommand_proofs | `TypeCorrect`, `MasterInterfaceKnown` (`MasterKnown`), `LateAnswersAreSkipped` (`LateAnswersSkipped`), `RefusalsRelease` (`RefusalReleases`), `InStepFollowed` |

### LaserMessaging

`IInv` (`LaserMessagingInv`) has eight parts, and a lemma per part shows that
every step of `Next` keeps it. The safety of acknowledged events is not
inductive: the assembler acknowledges first and its hello loop drops data. The
argument is one of order. A client's first message is its hello (`HelloInv`), so
the encoder, which run control starts only after its own hello was acknowledged
(`RcInv`), reads an event only when the assembler has, or is about to have,
both hellos (`EncInv`): no event meets the hello loop. The assembler
finishes the message in its hands before it receives the next (`AsmInv`), so
between ack and line there is at most that event (`AckInv`). Events travel one
at a time with growing trigger counts (`EventInv`), and the record never
falls behind the step confirmed to run control (`StepInv`), which gives the
guards of `EventLog`. TLC checks `IInv` in the messaging run.

`StreamFollowsFile` needs in addition where the record stands that is sent but not
written yet (`StreamInv`): the DAQ has all lines of the file, or has lost the
connection at a prefix of them.

### LaserScan

`IInv` has four parts beside the types. The step that was announced is the
current one wherever the program may open the shutter (`AnnouncedInv`, with `StepInv`
for the counters); while the laser obeys, the shutter is open only at places between the
record of a row and its report (`ShutterInv`); and what
`finalize()` has put out stays out, because only the program's own commands
before it switch anything on (`OffInv`).

`ShotsAsPlanned` says of the light that leaves the laser in a run without signals and
failed commands that it does so where its row plans it and at the rate of its row; it
does not say that every row gets its light. The rate is the row's own if that divides 10 Hz,
otherwise the next higher one that does, for `setRate()` truncates its divisor; a rate
above 10 Hz it refuses, the laser keeps the one it had, and then nothing is
claimed of it. The scan files of the repository ask for 4 Hz, which is shot at 5, and
-2.5 Hz, which the scan reads as an integer (`dtype=int`; what comes of it is
numpy's part), so that the rows here have integer rates. The proof needs more than the
property (`ShotInv`): for each place of the program, where the axes stand or are going
and which rate the laser has. `DivisionFacts` is what it uses of `\div`. Nothing is
assumed of the rows. Where an axis should be is a sum over rows, a recursive function: `LeastNumber`
(a set of numbers that is not empty has a least one, from the library's well-founded
order) is an induction in the form of a set, and with it `PlannedSum` shows what the sum is
for every number of rows.

### DaqRing

The invariant says who holds which slot: the free slots, the filled ones and
the one in the hands of each thread add up to the ring, and the posts of the handler and of
the consumer's end are counted apart (`Counts`). A thread that lives on such a post sees
`forced_stop` before it touches a slot, which is why `SlotExclusion` survives
semaphores that exceed the ring. `Contents` ties a filled slot to the number of its event,
`Headers` bounds how far the globals may be ahead.

### HomeAxis

The invariants follow the program's path: which switch is armed after which
command, whatever failed on the way (`MovesArmed`), and where the axis can be at
each sample relative to the one before (one sample of overshoot). That a
working switch never aborts rests on the direction of approach: until it reaches the
switch the axis moves one way, so that two samples never look like a turn.

### EibFifo, EibDriver, EibLoss

There is one receiver, `thread`, from its start until a mode change has joined
it, and none from the join to the next start (`Started`); the FIFO is
replaced without its lock only there, so nobody else is in it (`Places`). The theorems
assume `CallbackRule`: the callback does not call
`EIB7TransferRecordingData()` to end the transfer, the call that eib_callback shows to
break all of this. For `NoSilentLoss` the numbers in FIFO, receiver buffer
and socket form three increasing sequences, one behind the other and all after the
packet read last; every other number was lost before the FIFO, or its loss was told
or will be told at the next read.

### EibCommand

The invariant has three layers, each resting on the ones before. `Inv1`: who is
between lock and unlock holds the lock (`LockInv`), what a stage says of the master
flag (`CallInv`), and that the commands sent and those still to come stay within five per
call (`BudgetInv`), so that the sequence number of a command in flight is the last one
used. What is to come is a sum over threads, but only one thread at a time holds
the lock: the others wait for it, with all five of their commands (`At("lock")`) or, behind a
receiver, with at most four (`At("join")`), and `Left` is what the holder may still
send at its stage; `Moves` says how a step changes these sets. `Inv2`, whether the stream
is in step or not: a negative word in the stream is the code of a whole answer with a number
already used (`StreamInv`). A thread that has read a negative code and its own number has
therefore read one header, not parts of two, since the number of a header cannot
stay in the buffer from an earlier one (`BufferInv`). A request that nobody waits for any
more was given up (`RequestInv`), and an answer to the command in flight can be in the
stream only when no request is left behind it and agrees with the device's state
(`AnswerInv`, from `PendingInv`). What is known of the master interface during a call
(`MasterInv`) gives `MasterKnown` when the lock is free, and with the stage of the
call `RefusalReleases`: a failed call of which every command was answered leaves the
interface as it found it, or leaves it requested after a refused address or a failed
set-up, and then the driver's `master` says so, so that a later call to `poll` gives it
back. `Inv3`: as long as no result was left behind its header, each
answer is followed by the start of the next (`Chain`), and a thread that waits for a
header finds one (`InStep`).

### Only model-checked

- Liveness (`RequestsAnswered`, `EncoderStopsWhileUp`, `RunEnds`, `RunCompletes`,
  `StopReleasesThreads`, `HomingEnds`, `CallsReturn`): fairness and ENABLED
  are out of the prover's reach.

Two of them claim less than their names. `StopReleasesThreads` excepts a producer that is
inside a read when the handler closes the link: it never comes out (see below). `CallsReturn`
of EibCommand claims the return only while the device keeps the connection open. And
`WorkingSwitchHomes`, which is proved too, speaks of a switch that works, with which the
program never comes to `ZeroCount`: what becomes of R1 when its reset fails is explored
by the run but covered by no property.

## Divergences found

- Ctrl-C kills broker and assembler, run control then waits in `send_data()`
  for ever (run interrupt).
- The SIGINT handler closes the shutter, the scan opens it again (scan_stop).
- `eib7.h` lets the callback call everything but Open, Close and SelectMode;
  ending a transfer from it destroys the FIFO of the receiver it runs on
  (eib_callback).
- A streaming receiver whose buffer is full does not wait, as its comment says, but
  takes and loses the next datagram, with no overflow reported (eib_stream).

Seen while reading or modelling, with no run of their own:

- run control: `homeAxis()` returns -1 when it gives up and `initMotors()` ignores it
  (`runControl.py:105`): in HomeAxis a scan starts after any result. A laser
  command that failed reports "quitting" and the run goes on. A rate that does not divide
  10 Hz is silently raised. `count_run` is packed twice and `count_laser` never
  reaches the record (`communication.py:210`, `162`). Row 0 of a scan file is never shot
  (`positions.py:33` against `runControl.py:217`), and a scan with a single row
  raises IndexError (`runControl.py:213`). A retry that succeeds returns None
  (`device.py:63`). The poll for hellos starts its time anew with every message
  (`communication.py:100`), and the DAQ record packs the time as float32
  (`data.py:131`).
- configuration: the linear and rotary axes in `devices/config` have a negative
  `MAX_HOMING_OVERSHOOT`, with which `homeAxis()` aborts (those of server 1 are positive,
  but `config_server1/config_linear_actuator.json` lacks a comma).
- encoder: `CheckError()` exits with status 0.
- DAQ: a consumer that cannot open its file leaves the producer waiting. A producer whose
  read fails tries again without a look at `forced_stop` (`daq_vme.c:760`): after the
  handler has closed the link it spins, and `main()` waits for it. The event counter is
  raised before the wait (`daq_writer.c:102`), so that the run header of a stopped run counts
  one event too many (`HeaderCount`).
- EIB driver: `EIB7SelectMode()` releases the master interface that it has requested
  "if the change mode was not successful and we were not master in the beginning"
  (`eib7.c:910`), but only where the last command is refused. When SoftRealtime's address is
  refused (`eib7.c:880` to `886`), or there is no memory for the FIFO, no socket or no
  thread (`863` to `878`, `893` to `899`, `963` to `978`, `1002` to `1008`), it returns
  with the interface kept, and no other client can have it until a later call or
  the end of the connection. `RefusalReleases` names these two exceptions. When the device
  closes the connection, `TCP_ExecuteCommand()` spins with the thread lock held
  (`CallsReturn` of EibCommand fails without its last alternative). A result that
  was cut off by the end of the connection counts as 0, success. An expired
  receive timeout gives EAGAIN, reported as `EIB7_ReceiveError` where `eib7.h:357`
  documents `EIB7_ConnTimeout`. `EIB7Open()` frees its data on a version error but
  keeps the handle. The table of handles is initialized without a lock.

## Plan

Order of the modules, the most important behaviour first:

1. EventLog, LaserMessaging, LaserMessagingInv, LaserMessaging_proofs - done.
2. LaserScan, MCLaserScan, LaserScan_proofs - done.
3. HomeAxis, MCHomeAxis, HomeAxis_proofs - done.
4. EibFifo, PacketFifo, EibDriver with their proofs, EibLoss_proofs - done.
5. DaqRing, DaqRing_proofs - done.
6. EibCommand, EibCommand_proofs - done.
7. Left: DeviceParam (retries of `setParameter`), MirrorCodec and AttenuatorCodec
   (conversions, once a number format is chosen for their floating point), and a
   composition of LaserScan and LaserMessaging: every shot's line carries its row.

## Not modelled

Most of the repository's C code is not its own logic: `src/documents` is the vendor's
package (headers, examples and a Windows application), `eib7.h` and the driver are
there in several copies, and `eib7_cmd.c` and `cmdtcp_list.c` pack and unpack one
command after another in the same way. The prototypes of the encoder, feedthrough and
laser controllers, HomingTask and the old assembler are superseded.

In the modelled parts: manual mode and the single-device scripts (`mac/`), real time
(timeouts may happen whenever nothing arrives), the layout and numeric range of
messages and files (the trigger counter's 16 bits included), CSV parsing, log
output, the shared memory monitor of the DAQ, the board settings, and a second
signal during a handler. Of the driver: `EIB7Open()`, the table of handles, axis and
port settings, the layout of data packets, Windows.

A signal during homing is in neither model: HomeAxis has no signals, and LaserScan begins
after homing. LaserScan assumes a laser that the last run left dark; a run that crashed in
`finalize()` may leave it otherwise. In LaserMessaging run control's own
receive is never interrupted by a signal with an error; `RcAbort` covers that outcome.
In EibCommand a sequence number above 12, taken for a size where the stream is out of
step, would end a receive within a word. The model does not follow such a receive
(`WholeWords`); `InStepFollowed` shows that nothing else is left out, for as long as no
result was left behind every size is that of an answer.
