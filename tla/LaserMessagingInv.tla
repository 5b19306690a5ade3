------------------------- MODULE LaserMessagingInv -------------------------
(***************************************************************************)
(* The inductive invariant of LaserMessaging: why the text file is an event *)
(* log and why no acknowledged event is lost.  TLC checks it, and           *)
(* LaserMessaging_proofs proves it inductive.                               *)
(***************************************************************************)
EXTENDS LaserMessaging

\* p's hello has reached the assembler and is, or will be, counted.
Greeted(p) ==
    \/ p \in alive
    \/ asm = "unpack" /\ hand.from = p /\ hand.state = Hello

Heard(p) == asm = "stopped" \/ Greeted(p)

\* The assembler holds an encoder event that is not in the file yet.
Holds(v) == hand.from = ID_ENCODER /\ hand.state = Data /\ hand.val = v

\* The record shows run control's step, or will before it is written again.
Merged(step) ==
    \/ step <= data.step
    \/ asm = "stopped"
    \/ asm = "unpack" /\ Ready /\ hand.from = ID_RUNCONTROL /\ step <= hand.val

\* The message of p is where the assembler has not, or has, received it.
Sent(p)     == at[p] \in {"inbox", "backend"}
Received(p) == at[p] \in {"acks", "outbox"}

-----------------------------------------------------------------------------
\* A client's first message is its hello and is counted once: data follows
\* only after its ack, and a hello on its way is news to the assembler.
HelloInv ==
    /\ \A p \in Clients :
          /\ msg[p].state = Hello => msg[p].val = Unset
          /\ Sent(p) /\ msg[p].state = Hello => ~Greeted(p)
          /\ Received(p) /\ msg[p].state = Hello => Heard(p)
          /\ msg[p].state = Data => Heard(p)
          /\ asm = "unpack" /\ hand.from = p /\ hand.state = Hello => p \notin alive
    /\ asm = "accept" => alive = {} /\ hand.from = ID_RUNCONTROL

\* Run control's place in the run, and the step its messages carry.
RcInv ==
    /\ msg[ID_RUNCONTROL].val = announced
    /\ rc = "hello" => at[ID_RUNCONTROL] = "idle" /\ ~Greeted(ID_RUNCONTROL)
    /\ rc \in {"hello", "helloWait"} => msg[ID_RUNCONTROL].state = Hello /\ enc = "off"
    /\ rc = "init" => enc = "off"
    /\ rc \in {"init", "ready", "wait"} => Heard(ID_RUNCONTROL)
    /\ rc \in {"hello", "helloWait", "init"} => announced = Unset /\ sends = 0
    /\ rc = "ready" => sends <= LastSend /\ announced = (sends + 1) \div 2 - 1
    /\ rc = "wait" => sends <= LastSend /\ announced = sends \div 2

\* The encoder starts after run control's hello, and it reads events only
\* after its own: the assembler, which drops data in its hello loop, is past
\* that loop when the first event arrives.
EncInv ==
    /\ enc # "off" => Heard(ID_RUNCONTROL)
    /\ enc \in {"off", "hello"} =>
          /\ at[ID_ENCODER] = "idle" /\ msg[ID_ENCODER].state = Hello
          /\ hand.from # ID_ENCODER /\ ID_ENCODER \notin alive
    /\ enc = "helloWait" => msg[ID_ENCODER].state = Hello
    /\ enc \in {"config", "loop"} /\ ~stop => Heard(ID_ENCODER)
    /\ enc \in {"clear", "send", "wait"} => Heard(ID_ENCODER)
    /\ msg[ID_ENCODER].state = Data => Heard(ID_RUNCONTROL)

\* Triggers on their way to the file are later than those in it.
EventInv ==
    /\ event <= lo
    /\ enc = "send" => event >= 1 /\ msg[ID_ENCODER].val < event
    /\ enc = "wait" => msg[ID_ENCODER] = [state |-> Data, val |-> event]
    /\ msg[ID_ENCODER].val <= event
    /\ msg[ID_ENCODER].state = Data => msg[ID_ENCODER].val \in Triggers
    /\ \A v \in Recorded : v <= msg[ID_ENCODER].val
    /\ Sent(ID_ENCODER) /\ msg[ID_ENCODER].state = Data =>
          /\ \A v \in Recorded : v < msg[ID_ENCODER].val
          /\ hand.from = ID_ENCODER /\ hand.state = Data => hand.val < msg[ID_ENCODER].val
    /\ hand.from = ID_ENCODER /\ hand.state = Data =>
          hand.val <= msg[ID_ENCODER].val /\ hand.val \in Triggers

\* The assembler writes exactly the event it holds.
AsmInv ==
    /\ asm = "unpack" /\ hand.from = ID_ENCODER /\ hand.state = Data => Ready
    /\ asm \in {"sendServer", "writeTxt"} =>
          /\ Ready /\ hand.from = ID_ENCODER /\ hand.state = Data
          /\ data.trig = hand.val
    /\ asm \in {"unpack", "sendServer", "writeTxt"} /\ hand.from = ID_ENCODER /\ hand.state = Data =>
          \A v \in Recorded : v < hand.val

\* Steps grow along the file and lie between the confirmed step and the
\* announced one.
StepInv ==
    /\ fresh => Ready
    /\ confirmed <= announced /\ data.step <= announced
    /\ hand.from = ID_RUNCONTROL => hand.val \in Unset .. announced
    /\ asm = "unpack" /\ hand.from = ID_RUNCONTROL => data.step <= hand.val
    /\ \A i \in DOMAIN txt : txt[i].step <= data.step
    /\ Merged(confirmed)
    /\ fresh /\ Received(ID_RUNCONTROL) => Merged(announced)

\* An acknowledged event, also one whose ack is still on its way, is in the
\* file or in the assembler's hands.
AckInv ==
    /\ \A v \in acked : v \in Recorded \/ (asm # "recv" /\ Holds(v))
    /\ Received(ID_ENCODER) /\ msg[ID_ENCODER].state = Data =>
          \/ msg[ID_ENCODER].val \in Recorded
          \/ asm # "recv" /\ Holds(msg[ID_ENCODER].val)

\* TypeOK and the seven parts above: the strengthening that makes LogIsEventLog
\* and AckedIsRecorded inductive, about the order of hellos, acks and writes.
IInv == TypeOK /\ HelloInv /\ RcInv /\ EncInv /\ EventInv /\ AsmInv /\ StepInv /\ AckInv
=============================================================================
