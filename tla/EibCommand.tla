----------------------------- MODULE EibCommand -----------------------------
(***************************************************************************)
(* The commands of the EIB741 driver (EIBLib/src): threads that share one  *)
(* connection to the device, requests and answers over TCP, answers that   *)
(* come after the caller has given up, and the master interface, which the *)
(* driver must request before it changes the device and which one client   *)
(* can hold at a time.                                                     *)
(*                                                                         *)
(* The stream is a sequence of words of four bytes, and an answer is a     *)
(* header of three, code, size and sequence number, and a word of result.  *)
(* Its two parts arrive whole, at any time.  A receive takes what has come *)
(* up to the size asked for, as recv() does.  The codes 0x80000000 | opcode *)
(* and 0xc000000x are negative as int.  The device answers each request    *)
(* once and in order; it may end the connection.                           *)
(***************************************************************************)
EXTENDS Integers, Sequences

CONSTANTS
    Threads,        \* the threads that make calls
    MaxCalls,       \* bound on the calls
    AppCalls        \* what each of them may call

\* EIB7ConfigDataPacket(), the modes of EIB7SelectMode(), and a call of one command.
Modes == {"poll", "record", "realtime", "stream"}
Calls == Modes \cup {"config", "test"}
Requests == {"request", "release", "config", "setip", "select", "softrt", "test"}
Numbers == 1 .. 5 * MaxCalls      \* EIB7Open() used 0; a call sends five at most
HeaderSize == 12
AnswerSize == 16

ASSUME BoundAssumption == MaxCalls \in Nat /\ 5 * MaxCalls < 2147483647   \* seqno is an int
ASSUME CallsAssumption == AppCalls \in [Threads -> SUBSET Calls]

Nobody == 0
ASSUME ThreadsAssumption == Nobody \notin Threads

VARIABLES
    seqno, master, threadlock,              \* EIB_Data
    call, stage, pc, was_master, error,     \* of each thread: its call, the command it is
                                            \* at, and the result of the call, its last one
    id, buffer,                             \* number and ReceiveBuffer of that command
    requests, stream, arrived, connected,   \* the connection: requests sent, answers not
                                            \* read yet, and how much has arrived
    owner,                                  \* the device: who holds the master interface
    calls,                                  \* calls made
    lost, torn                              \* commands that ended without their answer;
                                            \* did one end between header and result?

data == <<seqno, master, threadlock>>
caller == <<call, stage, pc, was_master, error>>
command == <<id, buffer>>
network == <<requests, stream, arrived, connected>>
history == <<calls, lost, torn>>
vars == <<data, caller, command, network, owner, history>>

Empty == <<0, 0, 0, 0>>    \* calloc() in TCP_InitializeCommand()

Init ==
    /\ seqno = 1 /\ master = FALSE /\ threadlock = Nobody
    /\ call = [t \in Threads |-> "none"] /\ stage = [t \in Threads |-> "none"]
    /\ pc = [t \in Threads |-> "idle"] /\ was_master = [t \in Threads |-> FALSE]
    /\ error = [t \in Threads |-> "NoError"]
    /\ id = [t \in Threads |-> 0] /\ buffer = [t \in Threads |-> Empty]
    /\ requests = <<>> /\ stream = <<>> /\ arrived = 0 /\ connected = TRUE
    /\ owner = "none" /\ calls = 0 /\ lost = {} /\ torn = FALSE

-----------------------------------------------------------------------------
(* The words of an answer. *)

OkCode(r) == CASE r = "request" -> -1 [] r = "release" -> -2 [] r = "config" -> -3
               [] r = "select" -> -4 [] r = "softrt" -> -5 [] r = "test" -> -6
               [] r = "setip" -> -7
FuncNotSuppCode == -8
AccNotAllowedCode == -9

Done(r, n, status) == <<OkCode(r), AnswerSize, n, status>>
Refused(code, n) == <<code, HeaderSize, n>>

-----------------------------------------------------------------------------
(* Calls.  What EIB7SelectMode() does to the receiver, its FIFO and its     *)
(* socket is in EibDriver: whether a receiver runs and whether the set-up  *)
(* succeeds is left open here.                                             *)

Call(t, c) ==
    /\ pc[t] = "idle" /\ c \in AppCalls[t] /\ calls < MaxCalls /\ calls' = calls + 1
    /\ call' = [call EXCEPT ![t] = c] /\ pc' = [pc EXCEPT ![t] = "lock"]
    /\ error' = [error EXCEPT ![t] = "NoError"]
    /\ UNCHANGED <<data, stage, was_master, command, network, owner, lost, torn>>

\* Where a call goes on that has the master interface, or needs none: a mode begins
\* with the receiver that may run, and SoftRealtime gives the device our address first.
FirstPlace(c) == IF c \in Modes THEN "receiver" ELSE "send"
FirstStage(c) == IF c = "realtime" THEN "setip" ELSE "command"

\* The master interface is requested only if we are not master already.
Lock(t) ==
    /\ pc[t] = "lock" /\ threadlock = Nobody /\ threadlock' = t
    /\ was_master' = [was_master EXCEPT ![t] = master]
    /\ \/ /\ master \/ call[t] = "test"
          /\ stage' = [stage EXCEPT ![t] = FirstStage(call[t])]
          /\ pc' = [pc EXCEPT ![t] = FirstPlace(call[t])]
       \/ /\ ~master /\ call[t] # "test"
          /\ stage' = [stage EXCEPT ![t] = "request"] /\ pc' = [pc EXCEPT ![t] = "send"]
    /\ UNCHANGED <<seqno, master, call, error, command, network, owner, history>>

\* A receiver that runs is waited for without the thread lock.
NoReceiver(t) ==
    /\ pc[t] = "receiver" /\ pc' = [pc EXCEPT ![t] = "send"]
    /\ UNCHANGED <<data, call, stage, was_master, error, command, network, owner, history>>

JoinReceiver(t) ==
    /\ pc[t] = "receiver" /\ pc' = [pc EXCEPT ![t] = "join"] /\ threadlock' = Nobody
    /\ UNCHANGED <<seqno, master, call, stage, was_master, error, command, network, owner, history>>

Joined(t) ==
    /\ pc[t] = "join" /\ threadlock = Nobody /\ threadlock' = t
    /\ pc' = [pc EXCEPT ![t] = "send"]
    /\ UNCHANGED <<seqno, master, call, stage, was_master, error, command, network, owner, history>>

\* The command that a stage of a call sends.
Request(t) ==
    IF stage[t] # "command" THEN stage[t] ELSE IF call[t] \in Modes THEN "select" ELSE call[t]

Return(t, e) ==
    /\ pc' = [pc EXCEPT ![t] = "idle"] /\ call' = [call EXCEPT ![t] = "none"]
    /\ stage' = [stage EXCEPT ![t] = "none"] /\ error' = [error EXCEPT ![t] = e]
    /\ was_master' = [was_master EXCEPT ![t] = FALSE]
    /\ id' = [id EXCEPT ![t] = 0] /\ buffer' = [buffer EXCEPT ![t] = Empty]
    /\ threadlock' = Nobody

Goto(t, p, s, e) ==
    /\ pc' = [pc EXCEPT ![t] = p] /\ stage' = [stage EXCEPT ![t] = s]
    /\ error' = [error EXCEPT ![t] = e]
    /\ id' = [id EXCEPT ![t] = 0] /\ buffer' = [buffer EXCEPT ![t] = Empty]
    /\ UNCHANGED <<call, was_master, threadlock>>

\* Mutant: a mode that is refused leaves the master interface requested.
KeepsMasterRefused(t, e) ==
    \/ call[t] \in {"test", "record", "realtime", "stream"}
    \/ was_master[t] /\ ~(call[t] = "poll" /\ e = "NoError")

\* "Release the master interface if the change mode was not successful and we
\* were not master in the beginning"
KeepsMasterInterface(t, e) ==
    \/ call[t] = "test"
    \/ call[t] \in {"record", "realtime", "stream"} /\ e = "NoError"
    \/ was_master[t] /\ ~(call[t] = "poll" /\ e = "NoError")

\* What a call does when one of its commands has ended.  An address that is refused
\* ends the call there and then, master or not; SelectMode is tried in its older form
\* if it is not known; a release that fails is ignored.
Ended(t, e) ==
    CASE stage[t] = "request" /\ e # "NoError" -> Return(t, e) /\ UNCHANGED master
      [] stage[t] = "request" /\ e = "NoError" ->
           Goto(t, FirstPlace(call[t]), FirstStage(call[t]), e) /\ master' = TRUE
      [] stage[t] = "setip" /\ e # "NoError" -> Return(t, e) /\ UNCHANGED master
      [] stage[t] = "setip" /\ e = "NoError" -> Goto(t, "send", "command", e) /\ UNCHANGED master
      [] stage[t] = "release" -> Return(t, error[t]) /\ master' = (master /\ e # "NoError")
      [] stage[t] = "command" /\ Request(t) = "select" /\ e = "FuncNotSupp" ->
           Goto(t, "send", "softrt", e) /\ UNCHANGED master
      [] OTHER -> /\ UNCHANGED master
                  /\ \/ KeepsMasterInterface(t, e) /\ Return(t, e)
                     \/ ~KeepsMasterInterface(t, e) /\ Goto(t, "send", "release", e)
                     \/ /\ call[t] = "stream" /\ e = "NoError"     \* no thread could be started
                        /\ Return(t, "SetUpFailed")

\* A receiver runs, or there is no memory: the packet is not configured.
ConfigRefused(t) ==
    /\ pc[t] = "send" /\ call[t] = "config" /\ stage[t] = "command"
    /\ Ended(t, "AccNotAllowed")
    /\ UNCHANGED <<seqno, network, owner, history>>

\* There is no memory for the FIFO, no socket or no thread, before the next command.
SetUpFails(t) ==
    /\ pc[t] = "send" /\ call[t] \in {"realtime", "stream"} /\ stage[t] \in {"setip", "command"}
    /\ Return(t, "SetUpFailed")
    /\ UNCHANGED <<seqno, master, network, owner, history>>

-----------------------------------------------------------------------------
(* TCP_ExecuteCommand() sends a command and reads until its answer is there. *)

\* Mutant: the number is not counted up.
SendSame(t) ==
    /\ pc[t] = "send" /\ UNCHANGED seqno
    /\ requests' = IF connected THEN Append(requests, [of |-> Request(t), number |-> seqno])
                   ELSE requests
    /\ id' = [id EXCEPT ![t] = seqno] /\ pc' = [pc EXCEPT ![t] = "head"]
    /\ UNCHANGED <<master, threadlock, call, stage, was_master, error, buffer, stream, arrived,
                   connected, owner, history>>

\* Mutant: the number is counted up twice.
SendTwice(t) ==
    /\ pc[t] = "send" /\ seqno' = seqno + 2
    /\ requests' = IF connected THEN Append(requests, [of |-> Request(t), number |-> seqno])
                   ELSE requests
    /\ id' = [id EXCEPT ![t] = seqno] /\ pc' = [pc EXCEPT ![t] = "head"]
    /\ UNCHANGED <<master, threadlock, call, stage, was_master, error, buffer, stream, arrived,
                   connected, owner, history>>

Send(t) ==
    /\ pc[t] = "send" /\ seqno' = seqno + 1
    /\ requests' = IF connected THEN Append(requests, [of |-> Request(t), number |-> seqno])
                   ELSE requests
    /\ id' = [id EXCEPT ![t] = seqno] /\ pc' = [pc EXCEPT ![t] = "head"]
    /\ UNCHANGED <<master, threadlock, call, stage, was_master, error, buffer, stream, arrived,
                   connected, owner, history>>

\* The command ends without its answer.
GivesUp(t, e) == Ended(t, e) /\ lost' = lost \cup {Request(t)}

SendFails(t) ==
    /\ pc[t] = "send" /\ ~connected /\ seqno' = seqno + 1 /\ GivesUp(t, "ConnReset")
    /\ UNCHANGED <<network, owner, calls, torn>>

\* EIB_ReceiveSocket() into the buffer from place i on: what has arrived, at most
\* n words, nothing only if the device has closed.
Receive(t, i, n) ==
    LET k == IF arrived < n THEN arrived ELSE n
    IN /\ k > 0 \/ (~connected /\ stream = <<>>)
       /\ buffer' = [buffer EXCEPT ![t] =
                        [j \in 1 .. 4 |-> IF j \in i .. i + k - 1 THEN stream[j - i + 1]
                                          ELSE buffer[t][j]]]
       /\ stream' = SubSeq(stream, k + 1, Len(stream)) /\ arrived' = arrived - k
       /\ UNCHANGED <<requests, connected>>

\* Bound: where the stream is out of step, a number may be taken for a size.  It is
\* followed as long as such a receive does not end within a word.
WholeWords(size) == size <= HeaderSize \/ size = AnswerSize

ReceiveHeader(t) ==
    /\ pc[t] = "head" /\ Receive(t, 1, 3) /\ WholeWords(buffer'[t][2])
    /\ pc' = [pc EXCEPT ![t] = IF buffer'[t][2] > HeaderSize THEN "result" ELSE "decide"]
    /\ UNCHANGED <<data, call, stage, was_master, error, id, owner, history>>

\* "Receive the rest of the response, in any case"
ReceiveResult(t) ==
    /\ pc[t] = "result" /\ Receive(t, 4, (buffer[t][2] - HeaderSize) \div 4)
    /\ pc' = [pc EXCEPT ![t] = "decide"]
    /\ UNCHANGED <<data, call, stage, was_master, error, id, owner, history>>

\* Mutant: only a header may time out.
ReceiveFailsOnce(t) ==
    /\ pc[t] = "head" /\ arrived = 0 /\ GivesUp(t, "ReceiveError") /\ UNCHANGED torn
    /\ UNCHANGED <<seqno, network, owner, calls>>

\* SO_RCVTIMEO has run out, or a signal has come: EAGAIN and EINTR.
ReceiveFails(t) ==
    /\ pc[t] \in {"head", "result"} /\ arrived = 0
    /\ GivesUp(t, "ReceiveError") /\ torn' = (torn \/ pc[t] = "result")
    /\ UNCHANGED <<seqno, network, owner, calls>>

\* Mutant: late answers are not skipped.
ReceiveOlderNot(t) ==
    /\ pc[t] = "decide" /\ buffer[t][3] < id[t] /\ GivesUp(t, "InvalidResponse")
    /\ UNCHANGED <<seqno, network, owner, calls, torn>>

\* A late answer to an earlier command: the next one is read.
ReceiveOlder(t) ==
    /\ pc[t] = "decide" /\ buffer[t][3] < id[t]
    /\ pc' = [pc EXCEPT ![t] = "head"]
    /\ UNCHANGED <<data, call, stage, was_master, error, command, network, owner, history>>

ReceiveNewer(t) ==
    /\ pc[t] = "decide" /\ buffer[t][3] > id[t] /\ GivesUp(t, "InvalidResponse")
    /\ UNCHANGED <<seqno, network, owner, calls, torn>>

\* The answer to this command, and what the caller makes of its result.
Result(t) ==
    CASE buffer[t][1] = FuncNotSuppCode -> "FuncNotSupp"
      [] buffer[t][1] = AccNotAllowedCode -> "AccNotAllowed"
      [] buffer[t][1] = OkCode(Request(t)) ->
           IF buffer[t][4] = 0 THEN "NoError"
           ELSE IF stage[t] = "setip" THEN "DestIPUnreach" ELSE "AccNotAllowed"
      [] OTHER -> "InvalidResponse"

Answered(t) ==
    /\ pc[t] = "decide" /\ buffer[t][3] = id[t] /\ Ended(t, Result(t))
    /\ lost' = IF Result(t) = "InvalidResponse" THEN lost \cup {Request(t)} ELSE lost
    /\ UNCHANGED <<seqno, network, owner, calls, torn>>

-----------------------------------------------------------------------------
(* The device and the network. *)

\* What the device may answer, and who is master then: it may refuse anything but
\* the release by its master, and changes nothing for another.
Executes(r, n, answer, o) ==
    \/ r = "request" /\ owner # "other" /\ o = "us" /\ answer = Done(r, n, 0)
    \/ r = "release" /\ owner = "us" /\ o = "none" /\ answer = Done(r, n, 0)
    \/ /\ r \in {"config", "setip", "select", "softrt"} /\ owner = "us" /\ o = owner
       /\ answer = Done(r, n, 0)
    \/ r = "test" /\ o = owner /\ answer = Done(r, n, 0)
    \/ /\ ~(r = "release" /\ owner = "us") /\ r # "test" /\ o = owner
       /\ \/ answer = Done(r, n, 1)
          \/ \E c \in {FuncNotSuppCode, AccNotAllowedCode} : answer = Refused(c, n)

Answers(r) ==
    {Done(r.of, r.number, s) : s \in {0, 1}} \cup
    {Refused(c, r.number) : c \in {FuncNotSuppCode, AccNotAllowedCode}}

Execute ==
    /\ connected /\ requests # <<>> /\ requests' = Tail(requests)
    /\ \E answer \in Answers(Head(requests)) :
          /\ \E o \in {"us", "none", owner} :
                Executes(Head(requests).of, Head(requests).number, answer, o) /\ owner' = o
          /\ stream' = stream \o answer
    /\ UNCHANGED <<data, caller, command, arrived, connected, history>>

\* Header and result of an answer may come one after the other.
Arrive ==
    /\ arrived < Len(stream)
    /\ arrived' = arrived + (IF stream[arrived + 1] < 0 THEN 3 ELSE 1)
    /\ UNCHANGED <<data, caller, command, requests, stream, connected, owner, history>>

Disconnect ==
    /\ connected /\ connected' = FALSE
    /\ owner' = IF owner = "us" THEN "none" ELSE owner
    /\ UNCHANGED <<data, caller, command, requests, stream, arrived, history>>

\* Another client requests or releases the master interface.
OtherClient ==
    /\ owner # "us" /\ owner' = IF owner = "none" THEN "other" ELSE "none"
    /\ UNCHANGED <<data, caller, command, network, history>>

-----------------------------------------------------------------------------

Step(t) ==
    \/ Lock(t) \/ NoReceiver(t) \/ JoinReceiver(t) \/ Joined(t)
    \/ ConfigRefused(t) \/ SetUpFails(t) \/ Send(t) \/ SendFails(t)
    \/ ReceiveHeader(t) \/ ReceiveResult(t) \/ ReceiveFails(t)
    \/ ReceiveOlder(t) \/ ReceiveNewer(t) \/ Answered(t)

Next ==
    \/ \E t \in Threads : Step(t) \/ \E c \in Calls : Call(t, c)
    \/ Execute \/ Arrive \/ Disconnect \/ OtherClient

Spec == Init /\ [][Next]_vars

\* Threads run, and a receive without data times out.  Nothing is assumed of the
\* device and the network, nor that the lock is fair: as calls are bounded, a thread
\* that waits for it finds it free in the end.
FairSpec == Spec /\ \A t \in Threads : WF_vars(Step(t))

-----------------------------------------------------------------------------

TypeOK ==
    /\ seqno \in Numbers \cup {5 * MaxCalls + 1} /\ master \in BOOLEAN /\ threadlock \in Threads \cup {Nobody}
    /\ call \in [Threads -> Calls \cup {"none"}]
    /\ stage \in [Threads -> {"none", "request", "setip", "command", "softrt", "release"}]
    /\ pc \in [Threads -> {"idle", "lock", "receiver", "join", "send", "head", "result", "decide"}]
    /\ was_master \in [Threads -> BOOLEAN] /\ connected \in BOOLEAN
    /\ stream \in Seq(Int) /\ arrived \in 0 .. Len(stream)
    /\ owner \in {"none", "us", "other"} /\ lost \subseteq Requests /\ torn \in BOOLEAN
    /\ \A t \in Threads : id[t] \in Numbers \cup {0} /\ Len(buffer[t]) = 4
    /\ \A t \in Threads : pc[t] = "result" => buffer[t][2] = AnswerSize   \* whole words

\* EIB_Data.master agrees with the device whenever no call is under way, unless
\* the answer to a request or a release never came: a late answer to an earlier
\* command, of either thread, is not taken for one.  (TCP_ExecuteCommand(),
\* EIBCmd_RequestMaster(), EIBCmd_ReleaseMaster())
MasterKnown ==
    connected /\ threadlock = Nobody =>
       /\ master => owner = "us" \/ "release" \in lost
       /\ owner = "us" => master \/ "request" \in lost

\* Answers that come late do not disturb the commands after them, however many
\* come: only a command that was given up between the header and the result of
\* its answer makes a later one fail with InvalidResponse.  (the loop of
\* TCP_ExecuteCommand(), cmdtcp.c:427)
LateAnswersSkipped ==
    \A t \in Threads : error[t] = "InvalidResponse" => torn

\* A call that fails although every answer has come leaves the master interface as it
\* was before the call, but for two ends of EIB7SelectMode() that do not release what
\* was requested, an address that the device refuses and a set-up that fails; what they
\* leave behind the driver knows of.  (the error paths of EIB7ConfigDataPacket() and
\* EIB7SelectMode())
RefusalReleases ==
    [][\A t \in Threads :
         pc[t] # "idle" /\ pc'[t] = "idle" /\ error'[t] # "NoError" /\ lost' = {}
            => (connected /\ owner = "us" =>
                  \/ was_master[t]
                  \/ master /\ (stage[t] = "setip" \/ error'[t] = "SetUpFailed"))]_vars

\* As long as the device keeps the connection open, every call returns, be the
\* device silent or late.
CallsReturn == \A t \in Threads : pc[t] # "idle" ~> pc[t] = "idle" \/ ~connected

=============================================================================
