------------------------- MODULE EibCommand_proofs -------------------------
(***************************************************************************)
(* Proofs about EibCommand, for every set of threads, every choice of      *)
(* calls, and as many of them as there are numbers.                        *)
(***************************************************************************)
EXTENDS EibCommand, FiniteSets, FiniteSetTheorems, TLAPS

Busy == {"receiver", "send", "head", "result", "decide"}
Receiving(t) == pc[t] \in {"head", "result", "decide"}

-----------------------------------------------------------------------------
(* The lock, the stages of the calls, and how many commands are left to a call. *)

LockInv == \A t \in Threads : pc[t] \in Busy <=> threadlock = t

CallInv ==
    \A t \in Threads :
       /\ pc[t] # "idle" => call[t] \in Calls
       /\ pc[t] \in Busy =>
             /\ stage[t] # "none"
             /\ stage[t] = "request" => ~master
             /\ call[t] = "test" => stage[t] = "command" /\ was_master[t] = master
       /\ pc[t] \in {"receiver", "join"} => call[t] \in Modes /\ stage[t] \in {"setip", "command"}
       /\ Receiving(t) => id[t] = seqno - 1
       /\ pc[t] = "head" => buffer[t][3] < id[t]
       /\ pc[t] \in {"idle", "lock", "receiver", "join", "send"} => buffer[t][3] = 0

Errors == {"NoError", "ConnReset", "ReceiveError", "InvalidResponse", "FuncNotSupp",
           "AccNotAllowed", "DestIPUnreach", "SetUpFailed"}

\* The threads that wait for the lock, before their first command or for a receiver.
At(p) == {t \in Threads : pc[t] = p}

\* The commands that they may still send.
Weight(p) == IF p = "lock" THEN 5 ELSE IF p = "join" THEN 4 ELSE 0
Waits == 5 * Cardinality(At("lock")) + 4 * Cardinality(At("join"))

\* The commands that a call may still send.
Left(t) ==
    (CASE stage[t] = "request" -> 5 [] stage[t] = "setip" \/ pc[t] = "receiver" -> 4
       [] stage[t] = "command" /\ pc[t] # "receiver" -> 3
       [] stage[t] = "softrt" -> 2 [] OTHER -> 1)
    - (IF Receiving(t) THEN 1 ELSE 0)

BudgetInv ==
    /\ IsFiniteSet(At("lock")) /\ IsFiniteSet(At("join")) /\ calls \in 0 .. MaxCalls
    /\ seqno - 1 + Waits + (IF threadlock = Nobody THEN 0 ELSE Left(threadlock)) <= 5 * calls

Word == Int    \* four bytes, read as an int

WordInv ==
    /\ stream \in Seq(Word) /\ buffer \in [Threads -> [1 .. 4 -> Word]]
    /\ requests \in Seq([of : Requests, number : Numbers])
    /\ \A j \in 1 .. Len(requests) : requests[j].number < seqno
    /\ id \in [Threads -> Int] /\ error \in [Threads -> Errors]

Inv1 == TypeOK /\ LockInv /\ CallInv /\ BudgetInv /\ WordInv

-----------------------------------------------------------------------------
(* The stream. *)

Refusals == {FuncNotSuppCode, AccNotAllowedCode}

\* A header and what belongs to it, with a number up to m.
Whole(s, i, m) ==
    /\ i + 2 <= Len(s) /\ s[i + 2] \in 1 .. m
    /\ \/ s[i] \in Refusals /\ s[i + 1] = HeaderSize
       \/ /\ s[i] \in -7 .. -1 /\ s[i + 1] = AnswerSize
          /\ i + 3 <= Len(s) /\ s[i + 3] \in {0, 1}

\* A code is the start of a header, which has arrived or not.
StreamOK(s, a, m) ==
    \A i \in 1 .. Len(s) : s[i] < 0 => Whole(s, i, m) /\ (i <= a => i + 2 <= a)

Following(s, i) == IF s[i + 1] = HeaderSize THEN i + 3 ELSE i + 4

\* Behind an answer is the next.
Chain(s) ==
    \A i \in 1 .. Len(s) : s[i] < 0 /\ Following(s, i) <= Len(s) => s[Following(s, i)] < 0

StartsAt(s, i) == Len(s) >= i => s[i] < 0

\* The stream and the threads are in step: a thread that waits for a header finds one.
InStep ==
    /\ Chain(stream)
    /\ (\A t \in Threads : pc[t] # "result") => StartsAt(stream, 1)
    /\ \A t \in Threads : pc[t] = "result" =>
          \/ stream = <<>> /\ ~connected
          \/ stream # <<>> /\ stream[1] >= 0 /\ StartsAt(stream, 2)
    /\ \A t \in Threads : pc[t] \in {"result", "decide"} =>
          buffer[t][3] < id[t] \/ (buffer[t][3] = id[t] /\ buffer[t][1] < 0)

\* As long as no result was left behind.
AlignInv == ~torn => InStep

-----------------------------------------------------------------------------
(* Requests, answers and the master interface. *)

\* A request that nobody waits for any more is one that was given up.
RequestInv ==
    \A j \in 1 .. Len(requests) :
       \/ /\ requests[j].of \in lost
          /\ \A t \in Threads : Receiving(t) => requests[j].number < id[t]
       \/ \E t \in Threads : /\ Receiving(t) /\ requests[j].number = id[t]
                             /\ requests[j].of = Request(t) /\ j = Len(requests)

Granted(code, status) == code \notin Refusals /\ status = 0

\* The answer to the command of t, once the device has given it.
Fits(t, code, status) ==
    /\ requests = <<>> /\ code \in {OkCode(Request(t))} \cup Refusals
    /\ connected /\ stage[t] = "request" =>
          IF Granted(code, status) THEN owner = "us" ELSE owner = "us" => "request" \in lost
    /\ connected /\ stage[t] = "release" =>
          IF Granted(code, status) THEN owner # "us" ELSE master => "release" \in lost

AnswerInv ==
    \A t \in Threads : Receiving(t) =>
       \A i \in 1 .. Len(stream) :
          stream[i] < 0 /\ stream[i + 2] = id[t] => Fits(t, stream[i], stream[i + 3])

BufferInv ==
    \A t \in Threads :
       pc[t] \in {"result", "decide"} /\ buffer[t][1] < 0 /\ buffer[t][3] = id[t] =>
          /\ pc[t] = "result" => /\ stream # <<>> /\ stream[1] \in {0, 1}
                                 /\ Fits(t, buffer[t][1], stream[1])
          /\ pc[t] = "decide" => Fits(t, buffer[t][1], buffer[t][4])

\* Before the device has answered.
PendingInv ==
    \A t \in Threads :
       Receiving(t) /\ requests # <<>> /\ requests[Len(requests)].number = id[t] /\ connected =>
       /\ stage[t] = "request" => (owner = "us" => "request" \in lost)
       /\ stage[t] = "release" => (master => owner = "us" \/ "release" \in lost)

\* MasterKnown, and while a call is under way.
MasterInv ==
    connected =>
       /\ master => \/ owner = "us" \/ "release" \in lost
                    \/ \E t \in Threads : Receiving(t) /\ stage[t] = "release"
       /\ owner = "us" => \/ master \/ "request" \in lost
                          \/ \E t \in Threads : Receiving(t) /\ stage[t] = "request"

StreamInv == StreamOK(stream, arrived, seqno - 1)

Inv2 == StreamInv /\ RequestInv /\ AnswerInv /\ BufferInv /\ PendingInv /\ MasterInv
Inv3 == AlignInv /\ LateAnswersSkipped
-----------------------------------------------------------------------------
(* The end of a command. *)

\* What the end e of a command, or a set-up that fails, does to the call: it returns x,
\* or goes on.
Moves(t, e, x) ==
    /\ error' = [error EXCEPT ![t] = x]
    /\ id' = [id EXCEPT ![t] = 0] /\ buffer' = [buffer EXCEPT ![t] = Empty] /\ master' \in BOOLEAN
    /\ \/ x = IF stage[t] = "release" THEN error[t] ELSE e
       \/ x = "SetUpFailed" /\ stage[t] \in {"setip", "command", "softrt"}
    /\ \/ /\ pc' = [pc EXCEPT ![t] = "idle"] /\ call' = [call EXCEPT ![t] = "none"]
          /\ stage' = [stage EXCEPT ![t] = "none"] /\ threadlock' = Nobody
          /\ was_master' = [was_master EXCEPT ![t] = FALSE]
          /\ stage[t] = "request" => e # "NoError"
          /\ stage[t] \in {"command", "softrt"} => KeepsMasterInterface(t, e) \/ x = "SetUpFailed"
          /\ IF stage[t] = "release" /\ e = "NoError" THEN ~master' ELSE master' = master
       \/ /\ UNCHANGED <<call, was_master, threadlock>>
          /\ \E p \in {"send", "receiver"}, z \in {"setip", "command", "softrt", "release"} :
                /\ pc' = [pc EXCEPT ![t] = p] /\ stage' = [stage EXCEPT ![t] = z]
                /\ p = "receiver" => stage[t] = "request" /\ call[t] \in Modes
                /\ \/ /\ stage[t] = "request" /\ z \in {"setip", "command"}
                      /\ call[t] = "test" => z = "command"
                      /\ e = "NoError" /\ master'
                   \/ stage[t] = "setip" /\ z = "command" /\ master' = master
                   \/ /\ stage[t] = "command" /\ z = "softrt"
                      /\ call[t] # "test" /\ master' = master
                   \/ /\ stage[t] \in {"command", "softrt"} /\ z = "release"
                      /\ call[t] # "test" /\ master' = master

\* The definition of the end of a command says so.
LEMMA EndedFacts ==
    ASSUME TypeOK, CallInv, NEW t \in Threads, NEW e \in Errors, pc[t] \in Busy, Ended(t, e),
           error \in [Threads -> Errors]
    PROVE  \E x \in Errors : Moves(t, e, x)
  <1>0. /\ stage[t] \in {"request", "setip", "command", "softrt", "release"} /\ master \in BOOLEAN
        /\ call[t] \in Calls /\ error[t] \in Errors
    BY DEF TypeOK, CallInv, Busy
  <1>1. CASE stage[t] = "request" /\ e # "NoError"
    <2>1. Moves(t, e, e)
      BY <1>0, <1>1 DEF Ended, Return, Moves
    <2> QED BY <2>1
  <1>2. CASE stage[t] = "request" /\ e = "NoError"
    <2>1. Goto(t, FirstPlace(call[t]), FirstStage(call[t]), e) /\ master' = TRUE
      BY <1>2 DEF Ended
    <2>2. /\ FirstPlace(call[t]) \in {"send", "receiver"}
          /\ FirstPlace(call[t]) = "receiver" => call[t] \in Modes
          /\ FirstStage(call[t]) \in {"setip", "command"}
          /\ call[t] = "test" => FirstStage(call[t]) = "command"
      BY DEF FirstPlace, FirstStage
    <2>3. Moves(t, e, e)
      BY <1>0, <1>2, <2>1, <2>2 DEF Goto, Moves
    <2> QED BY <2>3
  <1>3. CASE stage[t] = "release"
    <2>1. Return(t, error[t]) /\ master' = (master /\ e # "NoError")
      BY <1>3 DEF Ended
    <2>2. Moves(t, e, error[t])
      BY <1>0, <1>3, <2>1 DEF Return, Moves
    <2> QED BY <1>0, <2>2
  <1>4. CASE stage[t] = "setip"
    <2>1. CASE e # "NoError"
      <3>1. Return(t, e) /\ UNCHANGED master
        BY <1>4, <2>1 DEF Ended
      <3>2. Moves(t, e, e)
        BY <1>0, <1>4, <2>1, <3>1 DEF Return, Moves
      <3> QED BY <3>2
    <2>2. CASE e = "NoError"
      <3>1. Goto(t, "send", "command", e) /\ UNCHANGED master
        BY <1>4, <2>2 DEF Ended
      <3>2. Moves(t, e, e)
        BY <1>0, <1>4, <3>1 DEF Goto, Moves
      <3> QED BY <3>2
    <2> QED BY <2>1, <2>2
  <1>5. CASE stage[t] = "command" /\ Request(t) = "select" /\ e = "FuncNotSupp"
    <2>1. Goto(t, "send", "softrt", e) /\ UNCHANGED master
      BY <1>5 DEF Ended
    <2>2. call[t] # "test"
      BY <1>5 DEF Request, Modes
    <2>3. Moves(t, e, e)
      BY <1>0, <1>5, <2>1, <2>2 DEF Goto, Moves
    <2> QED BY <2>3
  <1>6. CASE /\ stage[t] \in {"command", "softrt"}
             /\ ~(stage[t] = "command" /\ Request(t) = "select" /\ e = "FuncNotSupp")
    <2>1. /\ UNCHANGED master
          /\ \/ KeepsMasterInterface(t, e) /\ Return(t, e)
             \/ ~KeepsMasterInterface(t, e) /\ Goto(t, "send", "release", e)
             \/ Return(t, "SetUpFailed")
      BY <1>6 DEF Ended
    <2>2. CASE KeepsMasterInterface(t, e) /\ Return(t, e)
      <3>1. Moves(t, e, e)
        BY <1>0, <1>6, <2>1, <2>2 DEF Return, Moves
      <3> QED BY <3>1
    <2>3. CASE ~KeepsMasterInterface(t, e) /\ Goto(t, "send", "release", e)
      <3>1. call[t] # "test"
        BY <2>3 DEF KeepsMasterInterface
      <3>2. Moves(t, e, e)
        BY <1>0, <1>6, <2>1, <2>3, <3>1 DEF Goto, Moves
      <3> QED BY <3>2
    <2>4. CASE Return(t, "SetUpFailed")
      <3>1. Moves(t, e, "SetUpFailed")
        BY <1>0, <1>6, <2>1, <2>4 DEF Return, Moves
      <3> QED BY <3>1 DEF Errors
    <2> QED BY <2>1, <2>2, <2>3, <2>4
  <1> QED BY <1>0, <1>1, <1>2, <1>3, <1>4, <1>5, <1>6

-----------------------------------------------------------------------------
(* Sequences and sets of threads. *)

\* What is left of a sequence without its first k elements.
LEMMA DropFacts ==
    ASSUME NEW S, NEW s \in Seq(S), NEW k \in 0 .. Len(s), NEW d, d = SubSeq(s, k + 1, Len(s))
    PROVE  d \in Seq(S) /\ Len(d) = Len(s) - k /\ \A i \in 1 .. Len(d) : d[i] = s[i + k]
  OBVIOUS

\* What is in a sequence.
LEMMA ElementFacts ==
    ASSUME NEW S, NEW s \in Seq(S)
    PROVE  Len(s) \in Nat /\ \A i \in 1 .. Len(s) : s[i] \in S
  OBVIOUS

\* A sequence without a length is empty.
LEMMA EmptyFacts ==
    ASSUME NEW S, NEW s \in Seq(S)
    PROVE  Len(s) = 0 <=> s = <<>>
  OBVIOUS

\* What is taken from the front of a sequence, and what is left.
LEMMA HeadFacts ==
    ASSUME NEW S, NEW s \in Seq(S), s # <<>>
    PROVE  /\ Len(s) \in Nat /\ Len(s) >= 1 /\ Head(s) = s[1] /\ s[1] \in S
           /\ Tail(s) \in Seq(S) /\ Len(Tail(s)) = Len(s) - 1
           /\ \A i \in 1 .. Len(Tail(s)) : Tail(s)[i] = s[i + 1]
  OBVIOUS

\* Two sequences one behind the other.
LEMMA JoinFacts ==
    ASSUME NEW S, NEW s \in Seq(S), NEW u \in Seq(S), NEW j, j = s \o u
    PROVE  /\ j \in Seq(S) /\ Len(j) = Len(s) + Len(u)
           /\ \A i \in 1 .. Len(s) : j[i] = s[i]
           /\ \A i \in 1 .. Len(u) : j[Len(s) + i] = u[i]
  OBVIOUS

\* A sequence with one element more.
LEMMA AppendFacts ==
    ASSUME NEW S, NEW s \in Seq(S), NEW e \in S, NEW j, j = Append(s, e)
    PROVE  /\ j \in Seq(S) /\ Len(j) = Len(s) + 1 /\ j[Len(s) + 1] = e
           /\ \A i \in 1 .. Len(s) : j[i] = s[i]
  OBVIOUS

\* The bound on the calls, as a bound on the numbers.
LEMMA BoundFacts ==
    /\ MaxCalls \in Nat /\ 5 * MaxCalls \in Nat /\ Numbers = 1 .. 5 * MaxCalls
    /\ Numbers \subseteq Word /\ Nobody \notin Threads
  BY BoundAssumption, ThreadsAssumption DEF Numbers, Word, HeaderSize

\* The threads at a place, when one of them moves.
LEMMA AtFacts ==
    ASSUME NEW p, IsFiniteSet(At(p)), NEW t \in Threads, NEW P, pc \in [Threads -> P],
           NEW q, pc' = [pc EXCEPT ![t] = q]
    PROVE  /\ IsFiniteSet(At(p)') /\ Cardinality(At(p)) \in Int
           /\ Cardinality(At(p)') = Cardinality(At(p)) - (IF pc[t] = p THEN 1 ELSE 0)
                                                      + (IF q = p THEN 1 ELSE 0)
  <1>1. Cardinality(At(p)) \in Nat
    BY FS_CardinalityType
  <1>2. CASE pc[t] = p /\ q # p
    <2>1. At(p)' = At(p) \ {t} /\ t \in At(p)
      BY <1>2 DEF At
    <2>2. IsFiniteSet(At(p)') /\ Cardinality(At(p)') = Cardinality(At(p)) - 1
      BY <2>1, FS_RemoveElement
    <2> QED BY <1>1, <1>2, <2>2
  <1>3. CASE pc[t] # p /\ q = p
    <2>1. At(p)' = At(p) \cup {t} /\ t \notin At(p)
      BY <1>3 DEF At
    <2>2. IsFiniteSet(At(p)') /\ Cardinality(At(p)') = Cardinality(At(p)) + 1
      BY <2>1, FS_AddElement
    <2> QED BY <1>1, <1>3, <2>2
  <1>4. CASE pc[t] = p <=> q = p
    <2>1. At(p)' = At(p)
      BY <1>4 DEF At
    <2> QED BY <1>1, <1>4, <2>1
  <1> QED BY <1>2, <1>3, <1>4

\* What the waiting threads may still send, when a thread moves.
LEMMA WaitsFacts ==
    ASSUME IsFiniteSet(At("lock")), IsFiniteSet(At("join")), NEW t \in Threads, NEW P,
           pc \in [Threads -> P], NEW q, pc' = [pc EXCEPT ![t] = q]
    PROVE  /\ IsFiniteSet(At("lock")') /\ IsFiniteSet(At("join")')
           /\ Waits \in Int /\ Waits' = Waits - Weight(pc[t]) + Weight(q)
  <1>1. /\ IsFiniteSet(At("lock")') /\ Cardinality(At("lock")) \in Int
        /\ Cardinality(At("lock")') = Cardinality(At("lock")) - (IF pc[t] = "lock" THEN 1 ELSE 0)
                                                   + (IF q = "lock" THEN 1 ELSE 0)
    BY AtFacts
  <1>2. /\ IsFiniteSet(At("join")') /\ Cardinality(At("join")) \in Int
        /\ Cardinality(At("join")') = Cardinality(At("join")) - (IF pc[t] = "join" THEN 1 ELSE 0)
                                                   + (IF q = "join" THEN 1 ELSE 0)
    BY AtFacts
  <1> QED BY <1>1, <1>2 DEF Waits, Weight

\* It is a number.
LEMMA WaitsNat == IsFiniteSet(At("lock")) /\ IsFiniteSet(At("join")) => Waits \in Nat
  BY FS_CardinalityType DEF Waits

\* A call has at least one command to send until the last is sent.
LEMMA LeftFacts ==
    ASSUME NEW t, stage[t] \in {"request", "setip", "command", "softrt", "release"}
    PROVE  Left(t) \in 0 .. 5 /\ (pc[t] = "send" => Left(t) > 0)
  BY DEF Left, Receiving

\* The budget bounds the sequence number.
LEMMA BudgetBounds ==
    ASSUME BudgetInv, CallInv, LockInv, threadlock \in Threads \cup {Nobody},
           seqno \in Int, seqno >= 1,
           stage \in [Threads -> {"none", "request", "setip", "command", "softrt", "release"}]
    PROVE  /\ seqno \in Numbers \cup {5 * MaxCalls + 1}
           /\ \A t \in Threads : pc[t] = "send" => seqno \in Numbers
  <1>1. Waits \in Nat
    BY WaitsNat DEF BudgetInv
  <1>2. calls \in 0 .. MaxCalls /\ 5 * calls <= 5 * MaxCalls
    BY BoundFacts DEF BudgetInv
  <1>3. CASE threadlock = Nobody
    <2>1. seqno - 1 <= 5 * MaxCalls
      BY <1>1, <1>2, <1>3, BoundFacts DEF BudgetInv
    <2>2. \A t \in Threads : pc[t] # "send"
      BY <1>3, BoundFacts DEF LockInv, Busy
    <2> QED BY <2>1, <2>2, BoundFacts
  <1>4. CASE threadlock \in Threads
    <2>1. stage[threadlock] # "none" /\ pc[threadlock] \in Busy
      BY <1>4 DEF CallInv, LockInv
    <2>2. Left(threadlock) \in 0 .. 5 /\ (pc[threadlock] = "send" => Left(threadlock) > 0)
      BY <1>4, <2>1, LeftFacts
    <2>3. seqno - 1 + Left(threadlock) <= 5 * MaxCalls
      BY <1>1, <1>2, <1>4, <2>2, BoundFacts DEF BudgetInv
    <2>4. \A t \in Threads : pc[t] = "send" => t = threadlock
      BY DEF LockInv, Busy
    <2> QED BY <2>2, <2>3, <2>4, BoundFacts
  <1> QED BY <1>3, <1>4

-----------------------------------------------------------------------------
(* Types, the lock and the numbers: each step keeps them. *)

\* What a command leaves alone that ends, with its answer or without.
Ends(t, e) ==
    /\ t \in Threads /\ e \in Errors /\ pc[t] \in Busy /\ \E x \in Errors : Moves(t, e, x)
    /\ seqno' = seqno \/ (pc[t] = "send" /\ seqno' = seqno + 1)
    /\ UNCHANGED <<network, owner, calls>>
    /\ lost \subseteq lost' /\ lost' \subseteq Requests /\ torn' \in BOOLEAN

\* The end of a command keeps the types, and the call has one command less to send.
LEMMA EndsInv1 ==
    ASSUME Inv1, NEW t, NEW e, Ends(t, e)
    PROVE  Inv1'
  <1> USE DEF Inv1, network
  <1>1. /\ t \in Threads /\ e \in Errors /\ pc[t] \in Busy /\ threadlock = t
        /\ TypeOK /\ CallInv /\ LockInv /\ call[t] \in Calls
    BY DEF Ends, LockInv, CallInv, Busy
  <1>0. PICK x \in Errors : Moves(t, e, x)
    BY DEF Ends
  <1>2. /\ error' = [error EXCEPT ![t] = x]
        /\ id' = [id EXCEPT ![t] = 0] /\ buffer' = [buffer EXCEPT ![t] = Empty]
        /\ master' \in BOOLEAN
    BY <1>0 DEF Moves
  <1>3. \/ /\ pc' = [pc EXCEPT ![t] = "idle"] /\ call' = [call EXCEPT ![t] = "none"]
           /\ stage' = [stage EXCEPT ![t] = "none"] /\ threadlock' = Nobody
           /\ was_master' = [was_master EXCEPT ![t] = FALSE]
        \/ /\ UNCHANGED <<call, was_master, threadlock>>
           /\ \E p \in {"send", "receiver"}, z \in {"setip", "command", "softrt", "release"} :
                 /\ pc' = [pc EXCEPT ![t] = p] /\ stage' = [stage EXCEPT ![t] = z]
                 /\ p = "receiver" => stage[t] = "request" /\ call[t] \in Modes
                 /\ \/ /\ stage[t] = "request" /\ z \in {"setip", "command"}
                       /\ call[t] = "test" => z = "command"
                    \/ stage[t] = "setip" /\ z = "command" /\ master' = master
                    \/ /\ stage[t] = "command" /\ z = "softrt"
                       /\ call[t] # "test" /\ master' = master
                    \/ /\ stage[t] \in {"command", "softrt"} /\ z = "release"
                       /\ call[t] # "test" /\ master' = master
    BY <1>0 DEF Moves
  <1>4. /\ pc \in [Threads -> {"idle", "lock", "receiver", "join", "send", "head", "result", "decide"}]
        /\ call \in [Threads -> Calls \cup {"none"}]
        /\ stage \in [Threads -> {"none", "request", "setip", "command", "softrt", "release"}]
        /\ was_master \in [Threads -> BOOLEAN] /\ stage[t] # "none"
    BY <1>1 DEF TypeOK, CallInv
  <1>5. seqno' = seqno \/ (pc[t] = "send" /\ seqno' = seqno + 1)
    BY DEF Ends
  <1>6. LockInv'
    BY <1>1, <1>3, <1>4, BoundFacts DEF LockInv, Busy
  <1>7. CallInv'
    <2> SUFFICES ASSUME NEW s \in Threads PROVE CallInv!(s)'
      BY DEF CallInv
    <2>1. CASE s = t
      <3>1. buffer'[t][3] = 0 /\ pc'[t] \in {"idle", "send", "receiver"}
        BY <1>1, <1>2, <1>3, <1>4 DEF Empty, WordInv
      <3>2. CASE pc'[t] = "idle"
        BY <2>1, <3>1, <3>2 DEF Busy, Receiving
      <3>3. CASE pc'[t] # "idle"
        <4>1. /\ call'[t] = call[t] /\ was_master'[t] = was_master[t] /\ stage'[t] \notin {"none", "request"}
              /\ pc'[t] = "receiver" => call[t] \in Modes /\ stage'[t] \in {"setip", "command"}
              /\ \/ stage[t] = "request"
                 \/ stage[t] = "setip"
                 \/ stage[t] \in {"command", "softrt"} /\ call[t] # "test"
          BY <1>1, <1>3, <1>4, <3>3
        <4>2. stage[t] \in {"request", "setip"} => call[t] # "test"
          BY <1>1 DEF CallInv
        <4> QED BY <1>1, <2>1, <3>1, <3>3, <4>1, <4>2 DEF Receiving, Busy
      <3> QED BY <3>2, <3>3
    <2>2. CASE s # t
      BY <1>1, <1>2, <1>3, <1>4, <2>2, BoundFacts DEF CallInv, Busy, Receiving, LockInv
    <2> QED BY <2>1, <2>2
  <1>8. BudgetInv'
    <2>0. PICK p \in {"idle", "send", "receiver"} : pc' = [pc EXCEPT ![t] = p]
      BY <1>1, <1>3 DEF Busy
    <2>1. /\ IsFiniteSet(At("lock")') /\ IsFiniteSet(At("join")')
          /\ Waits \in Int /\ Waits' = Waits
      <3>1. Weight(p) = 0 /\ Weight(pc[t]) = 0
        BY <1>1 DEF Weight, Busy
      <3>2. /\ IsFiniteSet(At("lock")') /\ IsFiniteSet(At("join")')
            /\ Waits \in Int /\ Waits' = Waits - Weight(pc[t]) + Weight(p)
        BY <1>1, <1>4, <2>0, WaitsFacts DEF BudgetInv
      <3> QED BY <3>1, <3>2
    <2>2. seqno \in Int /\ calls \in Int /\ calls' = calls
      BY <1>1, BoundFacts DEF TypeOK, BudgetInv, Ends
    <2>3. seqno - 1 + Waits + Left(t) <= 5 * calls
      BY <1>1, BoundFacts DEF BudgetInv
    <2>4. CASE threadlock' = Nobody
      <3>1. Left(t) \in 0 .. 5 /\ (pc[t] = "send" => Left(t) > 0)
        BY <1>1, <1>4, LeftFacts
      <3> QED BY <1>5, <2>1, <2>2, <2>3, <2>4, <3>1 DEF BudgetInv
    <2>5. CASE threadlock' = t
      <3>1. /\ pc'[t] \in {"send", "receiver"}
            /\ pc'[t] = "receiver" => stage[t] = "request" /\ pc[t] # "receiver"
            /\ \/ stage[t] = "request" /\ stage'[t] \in {"setip", "command"}
               \/ stage[t] = "setip" /\ stage'[t] = "command"
               \/ stage[t] = "command" /\ stage'[t] = "softrt"
               \/ stage[t] \in {"command", "softrt"} /\ stage'[t] = "release"
        BY <1>1, <1>3, <1>4, <2>5, BoundFacts DEF CallInv
      <3>2. Left(t)' <= Left(t) - 1 \/ (pc[t] # "send" /\ Left(t)' <= Left(t))
        BY <1>1, <3>1 DEF Left, Receiving, Busy
      <3>3. Left(t) \in Int /\ Left(t)' \in Int
        BY <3>1 DEF Left, Receiving
      <3>4. seqno' - 1 + Waits + Left(t)' <= 5 * calls
        BY <1>5, <2>1, <2>2, <2>3, <3>2, <3>3
      <3> QED BY <1>1, <2>1, <2>2, <2>5, <3>4, BoundFacts DEF BudgetInv, Left, Receiving
    <2>6. threadlock' \in {Nobody, t}
      BY <1>1, <1>3
    <2> QED BY <2>4, <2>5, <2>6
  <1>9. WordInv'
    <2>1. Empty \in [1 .. 4 -> Word] /\ 0 \in Word
      BY DEF Empty, Word, HeaderSize
    <2>2. buffer' \in [Threads -> [1 .. 4 -> Word]]
      BY <1>1, <1>2, <2>1 DEF WordInv
    <2>3. /\ id' \in [Threads -> Int] /\ error' \in [Threads -> Errors]
          /\ stream' = stream /\ requests' = requests
      BY <1>1, <1>2 DEF WordInv, Ends
    <2>4. seqno \in Int /\ \A j \in 1 .. Len(requests) : requests[j].number \in Int
      <3>1. seqno \in Int
        BY <1>1, BoundFacts DEF TypeOK
      <3>2. \A j \in 1 .. Len(requests) : requests[j] \in [of : Requests, number : Numbers]
        BY ElementFacts DEF WordInv
      <3>3. \A n \in Numbers : n \in Int
        BY BoundFacts
      <3> QED BY <3>1, <3>2, <3>3
    <2>5. \A j \in 1 .. Len(requests) : requests[j].number < seqno'
      BY <1>5, <2>4 DEF WordInv
    <2> QED BY <2>2, <2>3, <2>5 DEF WordInv
  <1>10. TypeOK'
    <2>0. seqno \in Int /\ seqno >= 1
      BY <1>1, BoundFacts DEF TypeOK
    <2>1. /\ threadlock' \in Threads \cup {Nobody}
          /\ stage' \in [Threads -> {"none", "request", "setip", "command", "softrt", "release"}]
          /\ call' \in [Threads -> Calls \cup {"none"}]
          /\ pc' \in [Threads -> {"idle", "lock", "receiver", "join", "send", "head", "result", "decide"}]
          /\ was_master' \in [Threads -> BOOLEAN]
      <3>1. CASE /\ pc' = [pc EXCEPT ![t] = "idle"] /\ call' = [call EXCEPT ![t] = "none"]
                 /\ stage' = [stage EXCEPT ![t] = "none"] /\ threadlock' = Nobody
                 /\ was_master' = [was_master EXCEPT ![t] = FALSE]
        BY <1>4, <3>1
      <3>2. CASE /\ UNCHANGED <<call, was_master, threadlock>>
                 /\ \E p \in {"send", "receiver"}, z \in {"setip", "command", "softrt", "release"} :
                       pc' = [pc EXCEPT ![t] = p] /\ stage' = [stage EXCEPT ![t] = z]
        BY <1>1, <1>4, <3>2
      <3> QED BY <1>3, <3>1, <3>2
    <2>2. pc[t] = "send" => seqno \in Numbers
      BY <1>1, <1>4, <2>0, BudgetBounds DEF TypeOK
    <2>3. seqno' \in Numbers \cup {5 * MaxCalls + 1}
      <3>1. seqno \in Numbers \cup {5 * MaxCalls + 1}
        BY <1>1 DEF TypeOK
      <3>2. \A n \in Numbers : n + 1 \in Numbers \cup {5 * MaxCalls + 1}
        BY BoundFacts
      <3> QED BY <1>5, <2>2, <3>1, <3>2
    <2>4. \A s \in Threads : /\ id'[s] \in Numbers \cup {0} /\ Len(buffer'[s]) = 4
                            /\ (pc'[s] = "result" => buffer'[s][2] = AnswerSize)
      <3> SUFFICES ASSUME NEW s \in Threads
                   PROVE  /\ id'[s] \in Numbers \cup {0} /\ Len(buffer'[s]) = 4
                          /\ (pc'[s] = "result" => buffer'[s][2] = AnswerSize)
        OBVIOUS
      <3>1. id[s] \in Numbers \cup {0} /\ Len(buffer[s]) = 4
            /\ (pc[s] = "result" => buffer[s][2] = AnswerSize)
        BY <1>1 DEF TypeOK
      <3>2. CASE s = t
        BY <1>2, <1>3, <1>4, <3>2 DEF Empty, WordInv
      <3>3. CASE s # t
        BY <1>2, <1>3, <1>4, <3>1, <3>3 DEF WordInv
      <3> QED BY <3>2, <3>3
    <2>5. /\ stream' = stream /\ arrived' = arrived /\ connected' = connected /\ owner' = owner
          /\ lost' \subseteq Requests /\ torn' \in BOOLEAN
      BY DEF Ends
    <2>6. /\ stream \in Seq(Int) /\ arrived \in 0 .. Len(stream) /\ connected \in BOOLEAN
          /\ owner \in {"none", "us", "other"}
      BY <1>1 DEF TypeOK
    <2> QED BY <1>2, <2>1, <2>3, <2>4, <2>5, <2>6 DEF TypeOK
  <1> QED BY <1>6, <1>7, <1>8, <1>9, <1>10

\* What a receive of a header, or of a result, takes from the stream: k words.
TookHeader(t, k) ==
    /\ k <= arrived /\ (k < 3 => k = arrived) /\ (k = 0 => ~connected /\ stream = <<>>)
    /\ stream' \in Seq(Word) /\ Len(stream') = Len(stream) - k
    /\ \A i \in 1 .. Len(stream') : stream'[i] = stream[i + k]
    /\ arrived' = arrived - k /\ requests' = requests /\ connected' = connected
    /\ buffer' \in [Threads -> [1 .. 4 -> Word]]
    /\ \A s \in Threads \ {t} : buffer'[s] = buffer[s]
    /\ \A j \in 1 .. 4 : buffer'[t][j] = IF j <= k THEN stream[j] ELSE buffer[t][j]

TookResult(t, k) ==
    /\ k <= arrived /\ (k = 0 => ~connected /\ stream = <<>>)
    /\ stream' \in Seq(Word) /\ Len(stream') = Len(stream) - k
    /\ \A i \in 1 .. Len(stream') : stream'[i] = stream[i + k]
    /\ arrived' = arrived - k /\ requests' = requests /\ connected' = connected
    /\ buffer' \in [Threads -> [1 .. 4 -> Word]]
    /\ \A s \in Threads \ {t} : buffer'[s] = buffer[s]
    /\ \A j \in 1 .. 3 : buffer'[t][j] = buffer[t][j]
    /\ buffer'[t][4] = IF k = 1 THEN stream[1] ELSE buffer[t][4]

\* A receive takes up to three words, as many as have arrived; none if the device closed.
LEMMA ReceiveHeaderFacts ==
    ASSUME TypeOK, WordInv, NEW t \in Threads, Receive(t, 1, 3)
    PROVE  \E k \in 0 .. 3 : TookHeader(t, k)
  <1> DEFINE k == IF arrived < 3 THEN arrived ELSE 3
             new == [j \in 1 .. 4 |-> IF j \in 1 .. 1 + k - 1 THEN stream[j - 1 + 1]
                                      ELSE buffer[t][j]]
  <1>1. /\ arrived \in 0 .. Len(stream) /\ Len(stream) \in Nat
        /\ stream \in Seq(Word) /\ \A i \in 1 .. Len(stream) : stream[i] \in Word
    BY ElementFacts DEF TypeOK, WordInv
  <1>2. /\ k > 0 \/ (~connected /\ stream = <<>>)
        /\ buffer' = [buffer EXCEPT ![t] = new]
        /\ stream' = SubSeq(stream, k + 1, Len(stream)) /\ arrived' = arrived - k
        /\ requests' = requests /\ connected' = connected
    BY DEF Receive
  <1>3. k \in 0 .. 3 /\ k \in 0 .. Len(stream) /\ k <= arrived /\ (k < 3 => k = arrived)
    BY <1>1
  <1>4. new \in [1 .. 4 -> Word] /\ \A j \in 1 .. 4 :
           new[j] = IF j <= k THEN stream[j] ELSE buffer[t][j]
    <2>1. \A j \in 1 .. 4 : (j \in 1 .. 1 + k - 1 <=> j <= k) /\ j - 1 + 1 = j
      BY <1>3
    <2>2. \A j \in 1 .. 4 : buffer[t][j] \in Word /\ (j <= k => stream[j] \in Word)
      BY <1>1, <1>3 DEF WordInv
    <2> HIDE DEF k
    <2> QED BY <2>1, <2>2
  <1> HIDE DEF k, new
  <1>5. stream' \in Seq(Word) /\ Len(stream') = Len(stream) - k
        /\ \A i \in 1 .. Len(stream') : stream'[i] = stream[i + k]
    BY <1>1, <1>2, <1>3, DropFacts
  <1>6. /\ buffer' \in [Threads -> [1 .. 4 -> Word]] /\ buffer'[t] = new
        /\ \A s \in Threads \ {t} : buffer'[s] = buffer[s]
    BY <1>2, <1>4 DEF WordInv
  <1>7. TookHeader(t, k)
    BY <1>2, <1>3, <1>4, <1>5, <1>6 DEF TookHeader
  <1> QED BY <1>3, <1>7

\* A result is one word.
LEMMA ReceiveResultFacts ==
    ASSUME TypeOK, WordInv, NEW t \in Threads, Receive(t, 4, 1)
    PROVE  \E k \in 0 .. 1 : TookResult(t, k)
  <1> DEFINE k == IF arrived < 1 THEN arrived ELSE 1
             new == [j \in 1 .. 4 |-> IF j \in 4 .. 4 + k - 1 THEN stream[j - 4 + 1]
                                      ELSE buffer[t][j]]
  <1>1. /\ arrived \in 0 .. Len(stream) /\ Len(stream) \in Nat
        /\ stream \in Seq(Word) /\ \A i \in 1 .. Len(stream) : stream[i] \in Word
    BY ElementFacts DEF TypeOK, WordInv
  <1>2. /\ k > 0 \/ (~connected /\ stream = <<>>)
        /\ buffer' = [buffer EXCEPT ![t] = new]
        /\ stream' = SubSeq(stream, k + 1, Len(stream)) /\ arrived' = arrived - k
        /\ requests' = requests /\ connected' = connected
    BY DEF Receive
  <1>3. k \in 0 .. 1 /\ k \in 0 .. Len(stream) /\ k <= arrived
    BY <1>1
  <1>4. /\ new \in [1 .. 4 -> Word] /\ \A j \in 1 .. 3 : new[j] = buffer[t][j]
        /\ new[4] = IF k = 1 THEN stream[1] ELSE buffer[t][4]
    <2>1. \A j \in 1 .. 4 : j \in 4 .. 4 + k - 1 => j = 4 /\ k = 1 /\ j - 4 + 1 = 1
      BY <1>3
    <2>2. k = 1 => 4 \in 4 .. 4 + k - 1
      OBVIOUS
    <2>3. \A j \in 1 .. 4 : buffer[t][j] \in Word /\ (k = 1 => stream[1] \in Word)
      BY <1>1, <1>3 DEF WordInv
    <2> HIDE DEF k
    <2> QED BY <1>3, <2>1, <2>2, <2>3
  <1> HIDE DEF k, new
  <1>5. stream' \in Seq(Word) /\ Len(stream') = Len(stream) - k
        /\ \A i \in 1 .. Len(stream') : stream'[i] = stream[i + k]
    BY <1>1, <1>2, <1>3, DropFacts
  <1>6. /\ buffer' \in [Threads -> [1 .. 4 -> Word]] /\ buffer'[t] = new
        /\ \A s \in Threads \ {t} : buffer'[s] = buffer[s]
    BY <1>2, <1>4 DEF WordInv
  <1>7. TookResult(t, k)
    BY <1>2, <1>3, <1>4, <1>5, <1>6 DEF TookResult
  <1> QED BY <1>3, <1>7

\* What the device answers: a header, with a result if it does not refuse.
LEMMA AnswerFacts ==
    ASSUME TypeOK, WordInv, Execute
    PROVE  \E r \in Requests, n \in Numbers, answer \in Seq(Word) :
             /\ requests # <<>> /\ r = requests[1].of /\ n = requests[1].number
             /\ \/ answer = <<OkCode(r), AnswerSize, n, 0>>
                \/ answer = <<OkCode(r), AnswerSize, n, 1>>
                \/ \E c \in Refusals : answer = <<c, HeaderSize, n>>
             /\ stream' = stream \o answer /\ requests' = Tail(requests)
             /\ \/ r = "request" /\ owner # "other" /\ owner' = "us" /\ answer = Done(r, n, 0)
                \/ r = "release" /\ owner = "us" /\ owner' = "none" /\ answer = Done(r, n, 0)
                \/ r \notin {"request", "release"} /\ owner' = owner /\ answer = Done(r, n, 0)
                \/ /\ ~(r = "release" /\ owner = "us") /\ owner' = owner
                   /\ answer # Done(r, n, 0)
  <1>1. /\ requests \in Seq([of : Requests, number : Numbers]) /\ requests # <<>>
        /\ requests' = Tail(requests) /\ Head(requests) = requests[1]
        /\ requests[1] \in [of : Requests, number : Numbers]
    <2>1. requests \in Seq([of : Requests, number : Numbers]) /\ requests # <<>>
      BY DEF WordInv, Execute
    <2> QED BY <2>1, HeadFacts DEF Execute
  <1> DEFINE r == requests[1].of
             n == requests[1].number
  <1>2. r \in Requests /\ n \in Numbers
    BY <1>1
  <1>3. PICK answer \in Answers(Head(requests)), o \in {"us", "none", owner} :
           /\ Executes(Head(requests).of, Head(requests).number, answer, o) /\ owner' = o
           /\ stream' = stream \o answer
    BY DEF Execute
  <1>4. Executes(r, n, answer, owner') /\ stream' = stream \o answer
    BY <1>1, <1>3
  <1>5. \/ answer = Done(r, n, 0) \/ answer = Done(r, n, 1)
        \/ \E c \in Refusals : answer = Refused(c, n)
    BY <1>1, <1>3 DEF Answers, Refusals
  <1> HIDE DEF r, n
  <1>6. n \in Word /\ HeaderSize \in Word /\ AnswerSize \in Word /\ 0 \in Word /\ 1 \in Word
        /\ OkCode(r) \in Word /\ Refusals \subseteq Word
    <2>1. n \in Word /\ HeaderSize \in Word /\ AnswerSize \in Word /\ 0 \in Word /\ 1 \in Word
      BY <1>2, BoundFacts DEF Word, HeaderSize, AnswerSize
    <2>2. OkCode(r) \in Word /\ Refusals \subseteq Word
      BY <1>2 DEF OkCode, Requests, Word, HeaderSize, Refusals, FuncNotSuppCode,
         AccNotAllowedCode
    <2> QED BY <2>1, <2>2
  <1>7. answer \in Seq(Word)
    <2>1. CASE answer = Done(r, n, 0) \/ answer = Done(r, n, 1)
      <3>1. \A s \in {0, 1} : Done(r, n, s) \in Seq(Word)
        BY <1>6 DEF Done
      <3> QED BY <2>1, <3>1
    <2>2. ASSUME NEW c \in Refusals, answer = Refused(c, n) PROVE answer \in Seq(Word)
      BY <1>6, <2>2 DEF Refused
    <2> QED BY <1>5, <2>1, <2>2
  <1>8. \A c \in Refusals : Refused(c, n) # Done(r, n, 0) /\ Done(r, n, 1) # Done(r, n, 0)
    BY DEF Refused, Done, HeaderSize, AnswerSize
  <1>9. \/ r = "request" /\ owner # "other" /\ owner' = "us" /\ answer = Done(r, n, 0)
        \/ r = "release" /\ owner = "us" /\ owner' = "none" /\ answer = Done(r, n, 0)
        \/ r \notin {"request", "release"} /\ owner' = owner /\ answer = Done(r, n, 0)
        \/ ~(r = "release" /\ owner = "us") /\ owner' = owner /\ answer # Done(r, n, 0)
    BY <1>4, <1>8 DEF Executes, Refusals
  <1>10. /\ r = requests[1].of /\ n = requests[1].number
    BY DEF r, n
  <1>11. \/ answer = <<OkCode(r), AnswerSize, n, 0>> \/ answer = <<OkCode(r), AnswerSize, n, 1>>
         \/ \E c \in Refusals : answer = <<c, HeaderSize, n>>
    BY <1>5 DEF Done, Refused
  <1> QED BY <1>1, <1>2, <1>4, <1>7, <1>9, <1>10, <1>11


\* The device, the network and another client leave the threads alone.
LEMMA OthersInv1 ==
    ASSUME Inv1, StreamInv, Execute \/ Arrive \/ Disconnect \/ OtherClient
    PROVE  Inv1'
  <1> USE DEF Inv1
  <1>1. /\ UNCHANGED <<data, caller, command, history>>
        /\ (requests' = requests \/ Execute) /\ (stream' = stream \/ Execute)
    BY DEF Execute, Arrive, Disconnect, OtherClient, network
  <1>2. /\ TypeOK /\ WordInv /\ stream \in Seq(Word) /\ Len(stream) \in Nat
        /\ arrived \in 0 .. Len(stream) /\ seqno \in Int
    <2>1. TypeOK /\ WordInv /\ stream \in Seq(Word) /\ arrived \in 0 .. Len(stream)
      BY DEF TypeOK, WordInv
    <2> QED BY <2>1, ElementFacts, BoundFacts DEF TypeOK
  <1>3. LockInv' /\ CallInv' /\ BudgetInv'
    BY <1>1 DEF LockInv, CallInv, BudgetInv, Waits, At, Left, Receiving, data, caller, command,
       history
  <1>4. WordInv' /\ stream' \in Seq(Word)
    <2>1. CASE Execute
      <3>1. PICK answer \in Seq(Word) : stream' = stream \o answer /\ requests' = Tail(requests)
        BY <1>2, <2>1, AnswerFacts
      <3>2. stream' \in Seq(Word)
        BY <1>2, <3>1, JoinFacts
      <3>3. /\ requests' \in Seq([of : Requests, number : Numbers])
            /\ \A j \in 1 .. Len(requests') : requests'[j].number < seqno
        <4>1. requests \in Seq([of : Requests, number : Numbers]) /\ requests # <<>>
          BY <2>1 DEF WordInv, Execute
        <4>2. /\ Len(requests) \in Nat /\ Len(requests) >= 1
              /\ requests' \in Seq([of : Requests, number : Numbers])
              /\ Len(requests') = Len(requests) - 1
              /\ \A j \in 1 .. Len(requests') : requests'[j] = requests[j + 1]
          BY <3>1, <4>1, HeadFacts
        <4>3. \A j \in 1 .. Len(requests') : j + 1 \in 1 .. Len(requests)
          BY <4>2
        <4> QED BY <4>2, <4>3 DEF WordInv
      <3> QED BY <1>1, <3>2, <3>3 DEF WordInv, data, caller, command
    <2>2. CASE ~Execute
      BY <1>1, <2>2 DEF WordInv, data, caller, command
    <2> QED BY <2>1, <2>2
  <1>5. arrived' \in 0 .. Len(stream')
    <2>1. CASE Execute
      <3>1. PICK answer \in Seq(Word) : stream' = stream \o answer
        BY <1>2, <2>1, AnswerFacts
      <3>2. Len(stream') = Len(stream) + Len(answer) /\ Len(answer) \in Nat
        BY <1>2, <3>1, JoinFacts, ElementFacts
      <3> QED BY <1>2, <2>1, <3>2 DEF Execute
    <2>2. CASE Arrive
      <3>1. arrived < Len(stream) /\ arrived + 1 \in 1 .. Len(stream)
        BY <1>2, <2>2 DEF Arrive
      <3>2. stream[arrived + 1] < 0 => arrived + 3 <= Len(stream)
        BY <1>2, <3>1 DEF StreamInv, StreamOK, Whole
      <3>3. stream' = stream /\ arrived' \in {arrived + 1, arrived + 3}
            /\ (arrived' = arrived + 3 => stream[arrived + 1] < 0)
        BY <1>2, <2>2 DEF Arrive
      <3> QED BY <1>2, <3>1, <3>2, <3>3
    <2>3. CASE Disconnect \/ OtherClient
      BY <1>2, <2>3 DEF Disconnect, OtherClient, network
    <2> QED BY <2>1, <2>2, <2>3
  <1>6. /\ connected' \in BOOLEAN /\ owner' \in {"none", "us", "other"}
    <2>1. connected \in BOOLEAN /\ owner \in {"none", "us", "other"}
      BY DEF TypeOK
    <2>2. CASE Execute
      BY <2>1, <2>2 DEF Execute
    <2>3. CASE ~Execute
      BY <2>1, <2>3 DEF Arrive, Disconnect, OtherClient, network
    <2> QED BY <2>2, <2>3
  <1>7. stream' \in Seq(Int)
    BY <1>4 DEF Word, HeaderSize, AnswerSize
  <1> QED BY <1>1, <1>3, <1>4, <1>5, <1>6, <1>7 DEF TypeOK, data, caller, command, history

\* The types that the steps of a thread start from.
LEMMA Types ==
    ASSUME Inv1
    PROVE  /\ pc \in [Threads -> {"idle", "lock", "receiver", "join", "send", "head", "result", "decide"}]
           /\ call \in [Threads -> Calls \cup {"none"}]
           /\ stage \in [Threads -> {"none", "request", "setip", "command", "softrt", "release"}]
           /\ was_master \in [Threads -> BOOLEAN] /\ error \in [Threads -> Errors]
           /\ id \in [Threads -> Int] /\ buffer \in [Threads -> [1 .. 4 -> Word]]
           /\ seqno \in Int /\ seqno >= 1 /\ master \in BOOLEAN
           /\ threadlock \in Threads \cup {Nobody}
           /\ calls \in Int /\ Waits \in Nat
           /\ IsFiniteSet(At("lock")) /\ IsFiniteSet(At("join"))
           /\ arrived \in 0 .. Len(stream) /\ Len(stream) \in Nat /\ stream \in Seq(Word)
           /\ connected \in BOOLEAN /\ torn \in BOOLEAN
           /\ owner \in {"none", "us", "other"} /\ lost \subseteq Requests
  <1> USE DEF Inv1
  <1>1. seqno \in Int /\ seqno >= 1 /\ calls \in Int
    BY BoundFacts DEF TypeOK, BudgetInv
  <1>2. IsFiniteSet(At("lock")) /\ IsFiniteSet(At("join")) /\ Waits \in Nat
    BY WaitsNat DEF BudgetInv
  <1>3. Len(stream) \in Nat /\ stream \in Seq(Word)
    BY ElementFacts DEF WordInv
  <1> QED BY <1>1, <1>2, <1>3 DEF TypeOK, WordInv

\* A call begins.
LEMMA CallInv1 ==
    ASSUME Inv1, NEW t \in Threads, NEW c, Call(t, c)
    PROVE  Inv1'
  <1> USE DEF Inv1
  <1>1. /\ pc[t] = "idle" /\ pc' = [pc EXCEPT ![t] = "lock"] /\ c \in Calls
        /\ call' = [call EXCEPT ![t] = c] /\ error' = [error EXCEPT ![t] = "NoError"]
        /\ calls < MaxCalls /\ calls' = calls + 1
        /\ UNCHANGED <<data, stage, was_master, command, network, owner, lost, torn>>
    BY CallsAssumption DEF Call
  <1>2. LockInv'
    BY <1>1, Types DEF LockInv, Busy, data
  <1>3. CallInv'
    BY <1>1, Types DEF CallInv, Busy, Receiving, data, command
  <1>4. BudgetInv'
    <2>1. IsFiniteSet(At("lock")') /\ IsFiniteSet(At("join")') /\ Waits' = Waits + 5
      <3>1. Weight(pc[t]) = 0 /\ Weight("lock") = 5
        BY <1>1 DEF Weight
      <3>2. /\ IsFiniteSet(At("lock")') /\ IsFiniteSet(At("join")')
            /\ Waits \in Int /\ Waits' = Waits - Weight(pc[t]) + Weight("lock")
        BY <1>1, Types, WaitsFacts
      <3> QED BY <3>1, <3>2
    <2>2. calls' \in 0 .. MaxCalls
      BY <1>1, BoundFacts DEF BudgetInv
    <2>3. threadlock # Nobody => Left(threadlock)' = Left(threadlock)
      <3>1. threadlock # Nobody => threadlock \in Threads /\ threadlock # t
        BY <1>1, Types DEF LockInv, Busy
      <3> QED BY <1>1, <3>1, Types DEF Left, Receiving, data
    <2>4. /\ seqno' = seqno /\ threadlock' = threadlock /\ Left(threadlock) \in Int
          /\ Waits \in Nat /\ seqno \in Int /\ calls \in Int
      BY <1>1, Types DEF data, Left
    <2>5. seqno - 1 + Waits + (IF threadlock = Nobody THEN 0 ELSE Left(threadlock)) <= 5 * calls
      BY DEF BudgetInv
    <2>6. seqno' - 1 + Waits' + (IF threadlock' = Nobody THEN 0 ELSE Left(threadlock)') <= 5 * calls'
      BY <1>1, <2>1, <2>3, <2>4, <2>5
    <2> QED BY <2>1, <2>2, <2>4, <2>6 DEF BudgetInv, Left, Receiving
  <1>5. WordInv'
    BY <1>1, Types DEF WordInv, Errors, data, command, network
  <1> QED BY <1>1, <1>2, <1>3, <1>4, <1>5, Types DEF TypeOK, data, command, network

\* A thread takes the lock.
LEMMA LockInv1 ==
    ASSUME Inv1, NEW t \in Threads, Lock(t)
    PROVE  Inv1'
  <1> USE DEF Inv1
  <1>1. /\ pc[t] = "lock" /\ threadlock = Nobody /\ threadlock' = t
        /\ was_master' = [was_master EXCEPT ![t] = master]
        /\ UNCHANGED <<seqno, master, call, error, command, network, owner, history>>
    BY DEF Lock
  <1>0. PICK p \in {"send", "receiver"}, z \in {"request", "setip", "command"} :
           /\ pc' = [pc EXCEPT ![t] = p] /\ stage' = [stage EXCEPT ![t] = z]
           /\ p = "receiver" => call[t] \in Modes /\ z \in {"setip", "command"}
           /\ z = "request" => ~master
           /\ call[t] = "test" => z = "command"
    <2>1. /\ FirstPlace(call[t]) \in {"send", "receiver"}
          /\ FirstPlace(call[t]) = "receiver" => call[t] \in Modes
          /\ FirstStage(call[t]) \in {"setip", "command"}
          /\ call[t] = "test" => FirstStage(call[t]) = "command"
      BY DEF FirstPlace, FirstStage
    <2>3. CASE /\ pc' = [pc EXCEPT ![t] = FirstPlace(call[t])]
               /\ stage' = [stage EXCEPT ![t] = FirstStage(call[t])]
      BY <2>1, <2>3
    <2>4. CASE /\ ~master /\ call[t] # "test" /\ pc' = [pc EXCEPT ![t] = "send"]
               /\ stage' = [stage EXCEPT ![t] = "request"]
      BY <2>4
    <2> QED BY <2>3, <2>4 DEF Lock
  <1>2. \A s \in Threads : pc[s] \notin Busy
    BY <1>1, BoundFacts DEF LockInv
  <1>3. LockInv'
    BY <1>0, <1>1, <1>2, Types DEF LockInv, Busy
  <1>4. CallInv'
    <2>1. call[t] \in Calls /\ buffer[t][3] = 0
      BY <1>1 DEF CallInv
    <2> QED BY <1>0, <1>1, <1>2, <2>1, Types DEF CallInv, Busy, Receiving, command
  <1>5. BudgetInv'
    <2>1. IsFiniteSet(At("lock")') /\ IsFiniteSet(At("join")') /\ Waits' = Waits - 5
      <3>1. Weight(pc[t]) = 5 /\ Weight(p) = 0
        BY <1>1 DEF Weight
      <3>2. /\ IsFiniteSet(At("lock")') /\ IsFiniteSet(At("join")')
            /\ Waits \in Int /\ Waits' = Waits - Weight(pc[t]) + Weight(p)
        BY <1>0, Types, WaitsFacts
      <3> QED BY <3>1, <3>2
    <2>2. /\ seqno' = seqno /\ calls' = calls /\ threadlock' # Nobody
          /\ Waits \in Nat /\ seqno \in Int /\ calls \in Int
      BY <1>1, Types, BoundFacts DEF history
    <2>3. stage'[t] \in {"request", "setip", "command"} /\ pc'[t] \in {"send", "receiver"}
      BY <1>0, Types
    <2>4. Left(t)' \in 0 .. 5
      BY <2>3 DEF Left, Receiving
    <2>5. seqno - 1 + Waits <= 5 * calls
      BY <1>1, Types DEF BudgetInv
    <2>6. seqno' - 1 + Waits' + Left(t)' <= 5 * calls'
      BY <2>1, <2>2, <2>4, <2>5
    <2>7. calls \in 0 .. MaxCalls
      BY DEF BudgetInv
    <2> QED BY <1>1, <2>1, <2>2, <2>6, <2>7 DEF BudgetInv, Left, Receiving
  <1>6. WordInv'
    BY <1>1 DEF WordInv, command, network
  <1>7. was_master' \in [Threads -> BOOLEAN] /\ threadlock' \in Threads
        /\ stage' \in [Threads -> {"none", "request", "setip", "command", "softrt", "release"}]
        /\ pc' \in [Threads -> {"idle", "lock", "receiver", "join", "send", "head", "result", "decide"}]
    BY <1>0, <1>1, Types
  <1> QED BY <1>0, <1>1, <1>3, <1>4, <1>5, <1>6, <1>7, Types
          DEF TypeOK, command, network, history

\* A mode finds no receiver, or releases the lock to wait for one and takes it again.
LEMMA ReceiverInv1 ==
    ASSUME Inv1, NEW t \in Threads, NoReceiver(t) \/ JoinReceiver(t) \/ Joined(t)
    PROVE  Inv1'
  <1> USE DEF Inv1
  <1>1. PICK p \in {"send", "join"} :
           /\ pc' = [pc EXCEPT ![t] = p]
           /\ \/ pc[t] = "receiver" /\ p = "send" /\ threadlock' = threadlock
              \/ pc[t] = "receiver" /\ p = "join" /\ threadlock' = Nobody
              \/ pc[t] = "join" /\ p = "send" /\ threadlock = Nobody /\ threadlock' = t
           /\ UNCHANGED <<seqno, master, call, stage, was_master, error, command, network, owner,
                          history>>
    BY DEF NoReceiver, JoinReceiver, Joined, data
  <1>2. /\ \A s \in Threads \ {t} : pc[s] \notin Busy
        /\ pc[t] = "receiver" => threadlock = t
        /\ call[t] \in Modes /\ stage[t] \in {"setip", "command"} /\ buffer[t][3] = 0
    BY <1>1, BoundFacts DEF LockInv, Busy, CallInv
  <1>3. LockInv'
    BY <1>1, <1>2, BoundFacts, Types DEF LockInv, Busy
  <1>4. CallInv'
    <2>1. call[t] \in Calls /\ call[t] # "test"
      BY <1>2 DEF Calls, Modes
    <2> QED BY <1>1, <1>2, <2>1, Types DEF CallInv, Busy, Receiving, command
  <1>5. BudgetInv'
    <2>1. /\ IsFiniteSet(At("lock")') /\ IsFiniteSet(At("join")')
          /\ Waits \in Int /\ Waits' = Waits - Weight(pc[t]) + Weight(p)
      BY <1>1, Types, WaitsFacts
    <2>2. /\ Weight(pc[t]) = IF pc[t] = "join" THEN 4 ELSE 0
          /\ Weight(p) = IF p = "join" THEN 4 ELSE 0
      BY <1>1 DEF Weight
    <2>3. pc[t] = "receiver" => Left(t) = 4 /\ Left(threadlock) = 4
      <3> SUFFICES ASSUME pc[t] = "receiver" PROVE Left(t) = 4
        BY <1>2
      <3>1. stage[t] \in {"setip", "command"} /\ ~Receiving(t)
        BY <1>2 DEF Receiving
      <3> QED BY <3>1 DEF Left
    <2>4. Left(t)' \in 3 .. 4
      <3>1. stage'[t] \in {"setip", "command"} /\ ~Receiving(t)'
        BY <1>1, <1>2, Types DEF Receiving
      <3> QED BY <3>1 DEF Left
    <2>6. /\ seqno' = seqno /\ calls' = calls /\ calls \in 0 .. MaxCalls /\ t # Nobody
          /\ seqno \in Int /\ calls \in Int
      BY <1>1, Types, BoundFacts DEF BudgetInv, history
    <2>7. seqno - 1 + Waits + (IF threadlock = Nobody THEN 0 ELSE Left(threadlock)) <= 5 * calls
      BY DEF BudgetInv
    <2>8. seqno' - 1 + Waits'
             + (IF threadlock' = Nobody THEN 0 ELSE Left(threadlock)') <= 5 * calls'
      <3>1. CASE pc[t] = "receiver" /\ p = "send" /\ threadlock' = threadlock
        <4>1. threadlock' = t /\ threadlock = t
          BY <1>2, <3>1
        <4>2. Waits' = Waits
          BY <2>1, <2>2, <3>1
        <4> QED BY <2>1, <2>3, <2>4, <2>6, <2>7, <3>1, <4>1, <4>2
      <3>2. CASE pc[t] = "receiver" /\ p = "join" /\ threadlock' = Nobody
        <4>1. Waits' = Waits + 4 /\ threadlock = t
          BY <1>2, <2>1, <2>2, <3>2
        <4> QED BY <2>1, <2>3, <2>6, <2>7, <3>2, <4>1
      <3>3. CASE pc[t] = "join" /\ p = "send" /\ threadlock = Nobody /\ threadlock' = t
        BY <2>1, <2>2, <2>4, <2>6, <2>7, <3>3
      <3> QED BY <1>1, <3>1, <3>2, <3>3
    <2> QED BY <2>1, <2>6, <2>8 DEF BudgetInv, Left, Receiving
  <1>6. WordInv'
    BY <1>1 DEF WordInv, command, network
  <1>7. threadlock' \in Threads \cup {Nobody}
        /\ pc' \in [Threads -> {"idle", "lock", "receiver", "join", "send", "head", "result", "decide"}]
    BY <1>1, Types
  <1>8. \A s \in Threads : pc'[s] = "result" => pc[s] = "result"
    BY <1>1, Types
  <1> QED BY <1>1, <1>3, <1>4, <1>5, <1>6, <1>7, <1>8, Types
          DEF TypeOK, command, network, history

\* A command is sent.
LEMMA SendInv1 ==
    ASSUME Inv1, NEW t \in Threads, Send(t)
    PROVE  Inv1'
  <1> USE DEF Inv1
  <1>1. /\ pc[t] = "send" /\ seqno' = seqno + 1
        /\ requests' = IF connected
                       THEN Append(requests, [of |-> Request(t), number |-> seqno])
                       ELSE requests
        /\ id' = [id EXCEPT ![t] = seqno] /\ pc' = [pc EXCEPT ![t] = "head"]
        /\ UNCHANGED <<master, threadlock, call, stage, was_master, error, buffer, stream,
                       arrived, connected, owner, history>>
    BY DEF Send
  <1>2. threadlock = t /\ \A s \in Threads \ {t} : pc[s] \notin Busy
    BY <1>1 DEF LockInv, Busy
  <1>3. seqno \in Numbers /\ Request(t) \in Requests
    <2>1. call[t] \in Calls /\ stage[t] # "none"
      BY <1>1 DEF CallInv, Busy
    <2>2. Request(t) \in Requests
      BY <2>1, Types DEF Request, Requests, Calls
    <2>3. seqno \in Numbers
      BY <1>1, BudgetBounds, Types
    <2> QED BY <2>2, <2>3
  <1>4. LockInv'
    BY <1>1, <1>2, Types DEF LockInv, Busy
  <1>5. CallInv'
    <2> SUFFICES ASSUME NEW s \in Threads PROVE CallInv!(s)'
      BY DEF CallInv
    <2>1. CASE s = t
      <3>1. pc'[t] = "head" /\ id'[t] = seqno /\ seqno' - 1 = seqno
        BY <1>1, Types
      <3>2. buffer'[t][3] = 0 /\ seqno >= 1
        BY <1>1, Types DEF CallInv
      <3> QED BY <1>1, <2>1, <3>1, <3>2 DEF CallInv, Busy, Receiving
    <2>2. CASE s # t
      BY <1>1, <1>2, <2>2, Types DEF CallInv, Busy, Receiving
    <2> QED BY <2>1, <2>2
  <1>6. BudgetInv'
    <2>1. IsFiniteSet(At("lock")') /\ IsFiniteSet(At("join")') /\ Waits' = Waits
      <3>1. Weight(pc[t]) = 0 /\ Weight("head") = 0
        BY <1>1 DEF Weight
      <3>2. /\ IsFiniteSet(At("lock")') /\ IsFiniteSet(At("join")')
            /\ Waits \in Int /\ Waits' = Waits - Weight(pc[t]) + Weight("head")
        BY <1>1, Types, WaitsFacts
      <3> QED BY <3>1, <3>2
    <2>2. /\ seqno' = seqno + 1 /\ calls' = calls /\ t # Nobody
          /\ Waits \in Nat /\ seqno \in Int /\ calls \in Int
      BY <1>1, Types, BoundFacts DEF history
    <2>3. Left(t)' = Left(t) - 1 /\ Left(t) \in Int
      BY <1>1, Types DEF Left, Receiving
    <2>4. seqno - 1 + Waits + Left(t) <= 5 * calls
      BY <1>2, <2>2 DEF BudgetInv
    <2>5. seqno' - 1 + Waits' + Left(t)' <= 5 * calls'
      BY <2>1, <2>2, <2>3, <2>4
    <2> QED BY <1>1, <1>2, <2>1, <2>2, <2>5 DEF BudgetInv, Left, Receiving
  <1>7. WordInv'
    <2> DEFINE e == [of |-> Request(t), number |-> seqno]
    <2>1. e \in [of : Requests, number : Numbers] /\ e.number = seqno
      BY <1>3
    <2>2. requests \in Seq([of : Requests, number : Numbers])
          /\ \A j \in 1 .. Len(requests) : requests[j].number \in Int
      <3>1. requests \in Seq([of : Requests, number : Numbers])
        BY DEF WordInv
      <3>2. \A j \in 1 .. Len(requests) : requests[j] \in [of : Requests, number : Numbers]
        BY <3>1, ElementFacts
      <3>3. \A n \in Numbers : n \in Int
        BY BoundFacts
      <3> QED BY <3>1, <3>2, <3>3
    <2> HIDE DEF e
    <2>3. CASE connected
      <3>1. requests' = Append(requests, e)
        BY <1>1, <2>3 DEF e
      <3>2. /\ requests' \in Seq([of : Requests, number : Numbers])
            /\ Len(requests') = Len(requests) + 1
            /\ requests'[Len(requests) + 1] = e
            /\ \A j \in 1 .. Len(requests) : requests'[j] = requests[j]
        BY <2>1, <2>2, <3>1, AppendFacts
      <3>3. \A j \in 1 .. Len(requests') : requests'[j].number < seqno + 1
        <4> SUFFICES ASSUME NEW j \in 1 .. Len(requests') PROVE requests'[j].number < seqno + 1
          OBVIOUS
        <4>1. CASE j \in 1 .. Len(requests)
          <5>1. requests[j].number < seqno /\ requests[j].number \in Int
            BY <2>2, <4>1 DEF WordInv
          <5>2. requests'[j] = requests[j]
            BY <3>2, <4>1
          <5>3. seqno \in Int
            BY BoundFacts, Types
          <5> QED BY <5>1, <5>2, <5>3
        <4>2. CASE j = Len(requests) + 1
          BY <2>1, <3>2, <4>2, Types
        <4> QED BY <2>2, <3>2, <4>1, <4>2, ElementFacts
      <3> QED BY <1>1, <1>3, <3>2, <3>3, Types DEF WordInv
    <2>4. CASE ~connected
      <3>1. \A j \in 1 .. Len(requests) : requests[j].number < seqno + 1
        BY <2>2, Types DEF WordInv
      <3> QED BY <1>1, <1>3, <2>4, <3>1, Types DEF WordInv
    <2> QED BY <2>3, <2>4
  <1>8. seqno' \in Numbers \cup {5 * MaxCalls + 1}
    BY <1>1, <1>3, BoundFacts
  <1> QED BY <1>1, <1>3, <1>4, <1>5, <1>6, <1>7, <1>8, Types DEF TypeOK, history

\* What a receive leaves alone, and a late answer that is skipped.
Reads(t) ==
    /\ t \in Threads /\ Receiving(t) /\ pc'[t] \in {"head", "result", "decide"}
    /\ pc' = [pc EXCEPT ![t] = pc'[t]]
    /\ pc'[t] = "head" => buffer'[t][3] < id[t]
    /\ pc'[t] = "result" => buffer'[t][2] = AnswerSize
    /\ buffer' \in [Threads -> [1 .. 4 -> Word]]
    /\ \A s \in Threads \ {t} : buffer'[s] = buffer[s]
    /\ stream' \in Seq(Word) /\ arrived' \in 0 .. Len(stream')
    /\ UNCHANGED <<data, call, stage, was_master, error, id, owner, history, requests,
                   connected>>

\* Receives, and the answers that are skipped, are such steps.
LEMMA ReadsFacts ==
    ASSUME Inv1, NEW t \in Threads, ReceiveHeader(t) \/ ReceiveResult(t) \/ ReceiveOlder(t)
    PROVE  Reads(t)
  <1> USE DEF Inv1
  <1>1. CASE ReceiveHeader(t)
    <2>1. PICK k \in 0 .. 3 : TookHeader(t, k)
      BY <1>1, ReceiveHeaderFacts DEF ReceiveHeader
    <2>2. /\ pc[t] = "head"
          /\ pc' = [pc EXCEPT ![t] = IF buffer'[t][2] > HeaderSize THEN "result" ELSE "decide"]
          /\ UNCHANGED <<data, call, stage, was_master, error, id, owner, history>>
      BY <1>1 DEF ReceiveHeader
    <2>3. buffer'[t][2] > HeaderSize => buffer'[t][2] = AnswerSize
      <3>1. buffer'[t][2] \in Word /\ WholeWords(buffer'[t][2])
        BY <1>1, <2>1 DEF TookHeader, ReceiveHeader
      <3> QED BY <3>1 DEF Word, WholeWords, HeaderSize
    <2>4. arrived' \in 0 .. Len(stream')
      <3>1. k \in Nat /\ k <= arrived /\ arrived' = arrived - k /\ Len(stream') = Len(stream) - k
        BY <2>1 DEF TookHeader
      <3>2. arrived \in Nat /\ Len(stream) \in Nat /\ arrived <= Len(stream)
        BY Types
      <3> QED BY <3>1, <3>2
    <2> QED BY <2>1, <2>2, <2>3, <2>4, Types DEF Reads, Receiving, TookHeader
  <1>2. CASE ReceiveResult(t)
    <2>1. buffer[t][2] = AnswerSize /\ (AnswerSize - HeaderSize) \div 4 = 1
      BY <1>2 DEF ReceiveResult, TypeOK, AnswerSize, HeaderSize
    <2>2. PICK k \in 0 .. 1 : TookResult(t, k)
      BY <1>2, <2>1, ReceiveResultFacts DEF ReceiveResult
    <2>3. /\ pc[t] = "result" /\ pc' = [pc EXCEPT ![t] = "decide"]
          /\ UNCHANGED <<data, call, stage, was_master, error, id, owner, history>>
      BY <1>2 DEF ReceiveResult
    <2>4. arrived' \in 0 .. Len(stream')
      <3>1. k \in Nat /\ k <= arrived /\ arrived' = arrived - k /\ Len(stream') = Len(stream) - k
        BY <2>2 DEF TookResult
      <3>2. arrived \in Nat /\ Len(stream) \in Nat /\ arrived <= Len(stream)
        BY Types
      <3> QED BY <3>1, <3>2
    <2> QED BY <2>2, <2>3, <2>4, Types DEF Reads, Receiving, TookResult
  <1>3. CASE ReceiveOlder(t)
    BY <1>3, Types DEF ReceiveOlder, Reads, Receiving, command, network
  <1> QED BY <1>1, <1>2, <1>3

\* And they keep the types, the lock and the numbers.
LEMMA ReadsInv1 ==
    ASSUME Inv1, NEW t \in Threads, Reads(t)
    PROVE  Inv1'
  <1> USE DEF Inv1
  <1>1. threadlock = t /\ \A s \in Threads \ {t} : pc[s] \notin Busy
    BY DEF LockInv, Busy, Reads, Receiving
  <1>2. /\ pc' \in [Threads -> {"idle", "lock", "receiver", "join", "send", "head", "result", "decide"}]
        /\ pc'[t] \in {"head", "result", "decide"} /\ \A s \in Threads \ {t} : pc'[s] = pc[s]
    <2>1. /\ pc \in [Threads -> {"idle", "lock", "receiver", "join", "send", "head", "result", "decide"}]
          /\ pc'[t] \in {"head", "result", "decide"} /\ pc' = [pc EXCEPT ![t] = pc'[t]]
      BY Types DEF Reads
    <2> DEFINE p == pc'[t]
    <2>2. p \in {"head", "result", "decide"} /\ pc' = [pc EXCEPT ![t] = p]
      BY <2>1
    <2>3. pc'[t] = p
      OBVIOUS
    <2> HIDE DEF p
    <2> QED BY <2>1, <2>2, <2>3
  <1>3. LockInv'
    BY <1>1, <1>2 DEF LockInv, Busy, Reads, data
  <1>4. CallInv'
    BY <1>1, <1>2 DEF CallInv, Busy, Receiving, Reads, data
  <1>5. BudgetInv'
    <2>1. At("lock")' = At("lock") /\ At("join")' = At("join") /\ Waits' = Waits
      BY <1>2 DEF At, Waits, Reads, Receiving
    <2> QED BY <1>1, <1>2, <2>1 DEF BudgetInv, Left, Receiving, Reads, data, history
  <1>6. WordInv'
    BY DEF WordInv, Reads, data, history
  <1>7. stream' \in Seq(Int) /\ \A s \in Threads : Len(buffer'[s]) = 4
    <2>1. Word \subseteq Int /\ stream' \in Seq(Word)
          /\ \A s \in Threads : buffer'[s] \in [1 .. 4 -> Word]
      BY DEF Reads, Word, HeaderSize, AnswerSize
    <2>2. stream' \in Seq(Int)
      BY <2>1 DEF Word, HeaderSize, AnswerSize
    <2>3. \A b \in [1 .. 4 -> Word] : Len(b) = 4
      BY <2>1
    <2> QED BY <2>1, <2>2, <2>3
  <1>8. \A s \in Threads : pc'[s] = "result" => buffer'[s][2] = AnswerSize
    BY <1>2 DEF TypeOK, Reads
  <1> QED BY <1>2, <1>3, <1>4, <1>5, <1>6, <1>7, <1>8, Types DEF TypeOK, Reads, data, history

-----------------------------------------------------------------------------
(* The answers in the stream. *)

\* What is read from the front of the stream leaves whole answers.
LEMMA DropStream ==
    ASSUME NEW s, NEW d, NEW k \in Nat, NEW a \in Int, NEW m \in Int, Len(s) \in Nat,
           Len(d) = Len(s) - k, Len(d) \in Nat, \A i \in 1 .. Len(s) : s[i] \in Int,
           \A i \in 1 .. Len(d) : d[i] = s[i + k], StreamOK(s, a, m)
    PROVE  StreamOK(d, a - k, m) /\ (Chain(s) => Chain(d))
  <1>1. \A i \in 1 .. Len(d) : i + k \in 1 .. Len(s)
    OBVIOUS
  <1>2. ASSUME NEW i \in 1 .. Len(d), d[i] < 0
        PROVE  /\ Whole(d, i, m) /\ (i <= a - k => i + 2 <= a - k)
               /\ (Chain(s) /\ Following(d, i) <= Len(d) => d[Following(d, i)] < 0)
    <2> DEFINE h == i + k
    <2>1. h \in 1 .. Len(s) /\ s[h] < 0 /\ d[i] = s[h]
      BY <1>1, <1>2
    <2>2. Whole(s, h, m) /\ (h <= a => h + 2 <= a)
      BY <2>1 DEF StreamOK
    <2>3. /\ i + 1 \in 1 .. Len(d) /\ d[i + 1] = s[h + 1]
          /\ i + 2 \in 1 .. Len(d) /\ d[i + 2] = s[h + 2]
      BY <2>2 DEF Whole
    <2>4. h + 3 <= Len(s) => i + 3 \in 1 .. Len(d) /\ d[i + 3] = s[h + 3]
      OBVIOUS
    <2>5. Whole(d, i, m)
      <3>1. i + 2 <= Len(d) /\ d[i + 2] \in 1 .. m
        BY <2>2, <2>3 DEF Whole
      <3>2. CASE s[h] \in Refusals /\ s[h + 1] = HeaderSize
        BY <2>1, <2>3, <3>1, <3>2 DEF Whole
      <3>3. CASE /\ s[h] \in -7 .. -1 /\ s[h + 1] = AnswerSize
                 /\ h + 3 <= Len(s) /\ s[h + 3] \in {0, 1}
        <4>1. i + 3 <= Len(d) /\ d[i + 3] \in {0, 1}
          BY <2>4, <3>3
        <4> QED BY <2>1, <2>3, <3>1, <3>3, <4>1 DEF Whole
      <3> QED BY <2>2, <3>2, <3>3, Zenon DEF Whole
    <2>6. Following(d, i) = Following(s, h) - k /\ Following(s, h) \in {h + 3, h + 4}
      BY <2>3 DEF Following
    <2>7. Chain(s) /\ Following(d, i) <= Len(d) => d[Following(d, i)] < 0
      <3>1. Chain(s) /\ Following(s, h) <= Len(s) => s[Following(s, h)] < 0
        BY <2>1 DEF Chain
      <3>2. Following(d, i) \in Int /\ Following(d, i) >= 1
            /\ Following(d, i) + k = Following(s, h)
        BY <2>6
      <3>3. Following(d, i) <= Len(d) =>
               Following(s, h) <= Len(s) /\ d[Following(d, i)] = s[Following(s, h)]
        BY <3>2
      <3> QED BY <3>1, <3>3
    <2> QED BY <2>2, <2>5, <2>7
  <1> QED BY <1>2 DEF StreamOK, Chain

\* An answer: its code, its size, its number, and its result if it is not a refusal.
Answer(u, m) ==
    /\ Len(u) \in {3, 4} /\ u[1] < 0 /\ u[1] \in -9 .. -1 /\ u[3] \in 1 .. m
    /\ \/ u[1] \in Refusals /\ u[2] = HeaderSize /\ Len(u) = 3
       \/ u[1] \in -7 .. -1 /\ u[2] = AnswerSize /\ Len(u) = 4 /\ u[4] \in {0, 1}

\* The words of an answer after its code are no codes.
LEMMA AnswerWords ==
    ASSUME NEW u, NEW m, Answer(u, m)
    PROVE  u[2] \in {12, 16} /\ u[3] \in 1 .. m /\ (Len(u) = 4 => u[4] \in {0, 1})
  <1>1. u[2] \in {HeaderSize, AnswerSize} /\ u[3] \in 1 .. m
    BY DEF Answer
  <1>2. Len(u) = 4 => u[4] \in {0, 1}
    <2>1. 3 # 4
      OBVIOUS
    <2> QED BY <2>1 DEF Answer
  <1> QED BY <1>1, <1>2 DEF HeaderSize, AnswerSize

\* An answer is put behind the others.
LEMMA JoinStream ==
    ASSUME NEW s, NEW u, NEW j, NEW a \in Int, NEW m \in Int, Len(s) \in Nat, a <= Len(s),
           Len(j) = Len(s) + Len(u), Answer(u, m), \A i \in 1 .. Len(s) : s[i] \in Int,
           \A i \in 1 .. Len(s) : j[i] = s[i], \A i \in 1 .. Len(u) : j[Len(s) + i] = u[i],
           StreamOK(s, a, m)
    PROVE  /\ StreamOK(j, a, m) /\ (Chain(s) => Chain(j))
           /\ \A i \in 1 .. Len(j) :
                 j[i] < 0 => (i \in 1 .. Len(s) /\ s[i] < 0) \/ i = Len(s) + 1
  <1> DEFINE n == Len(s)
  <1>1. /\ j[n + 1] = u[1] /\ j[n + 2] = u[2] /\ j[n + 3] = u[3]
        /\ (Len(u) = 4 => j[n + 4] = u[4])
    <2>1. Len(u) \in {3, 4}
      BY DEF Answer
    <2>2. \A k \in {3, 4} : 1 \in 1 .. k /\ 2 \in 1 .. k /\ 3 \in 1 .. k
      OBVIOUS
    <2>3. 4 \in 1 .. 4
      OBVIOUS
    <2>4. 1 \in 1 .. Len(u) /\ 2 \in 1 .. Len(u) /\ 3 \in 1 .. Len(u)
      BY <2>1, <2>2, Zenon
    <2> QED BY <2>3, <2>4
  <1>2. Len(j) \in {n + 3, n + 4} /\ u[2] >= 0 /\ u[3] >= 0 /\ (Len(u) = 4 => u[4] >= 0)
    <2>1. Len(u) \in {3, 4} /\ u[3] \in 1 .. m
      BY DEF Answer
    <2>2. u[2] \in {12, 16} /\ (Len(u) = 4 => u[4] \in {0, 1})
      BY AnswerWords
    <2>3. Len(j) \in {n + 3, n + 4}
      BY <2>1
    <2> QED BY <2>1, <2>2, <2>3
  <1>3. ASSUME NEW i \in 1 .. Len(j), j[i] < 0
        PROVE  (i \in 1 .. n /\ s[i] < 0) \/ i = n + 1
    <2>1. CASE i \in 1 .. n
      BY <1>3, <2>1
    <2>2. CASE i \in {n + 2, n + 3, n + 4}
      <3>1. j[i] \in {u[2], u[3]} \/ (Len(u) = 4 /\ j[i] = u[4])
        <4>1. i = n + 4 => Len(u) = 4
          <5>1. Len(u) \in {3, 4}
            BY DEF Answer
          <5>2. i <= n + Len(u)
            BY <1>3, <5>1
          <5> QED BY <5>1, <5>2
        <4> QED BY <1>1, <2>2, <4>1
      <3>2. ~(u[2] < 0) /\ ~(u[3] < 0) /\ (Len(u) = 4 => ~(u[4] < 0))
        <4>1. u[2] \in {12, 16} /\ u[3] \in 1 .. m /\ (Len(u) = 4 => u[4] \in {0, 1})
          BY AnswerWords
        <4> QED BY <4>1
      <3> QED BY <1>3, <3>1, <3>2
    <2> QED BY <1>2, <2>1, <2>2
  <1>4. Whole(j, n + 1, m) /\ n + 1 > a
    <2>1. /\ n + 1 > a /\ n + 1 + 1 = n + 2 /\ n + 1 + 2 = n + 3 /\ n + 1 + 3 = n + 4
          /\ n + 1 + 2 <= Len(j) /\ (Len(u) = 4 => n + 1 + 3 <= Len(j))
      BY <1>2
    <2>2. u[3] \in 1 .. m
      BY DEF Answer
    <2>3. CASE u[1] \in Refusals /\ u[2] = HeaderSize
      BY <1>1, <2>1, <2>2, <2>3 DEF Whole
    <2>4. CASE u[1] \in -7 .. -1 /\ u[2] = AnswerSize /\ Len(u) = 4 /\ u[4] \in {0, 1}
      BY <1>1, <2>1, <2>2, <2>4 DEF Whole
    <2> QED BY <2>3, <2>4, Zenon DEF Answer
  <1>5. ASSUME NEW i \in 1 .. n, s[i] < 0
        PROVE  /\ Whole(j, i, m) /\ (i <= a => i + 2 <= a)
               /\ Following(j, i) = Following(s, i) /\ Following(s, i) \in 1 .. n + 1
    <2>1. Whole(s, i, m) /\ (i <= a => i + 2 <= a)
      BY <1>5 DEF StreamOK
    <2>2. i + 2 <= n /\ j[i] = s[i] /\ j[i + 1] = s[i + 1] /\ j[i + 2] = s[i + 2]
      BY <2>1 DEF Whole
    <2>3. i + 3 <= n => j[i + 3] = s[i + 3]
      OBVIOUS
    <2>4. Whole(j, i, m)
      BY <1>2, <2>1, <2>2, <2>3 DEF Whole
    <2>5. Following(j, i) = Following(s, i) /\ Following(s, i) \in 1 .. n + 1
      BY <2>1, <2>2 DEF Whole, Following, HeaderSize, AnswerSize
    <2> QED BY <2>1, <2>4, <2>5
  <1>6. StreamOK(j, a, m)
    BY <1>3, <1>4, <1>5 DEF StreamOK
  <1>7. ASSUME Chain(s), NEW i \in 1 .. Len(j), j[i] < 0, Following(j, i) <= Len(j)
        PROVE  j[Following(j, i)] < 0
    <2>1. CASE i = n + 1
      <3>1. Following(j, i) = Len(j) + 1
        <4>1. j[i + 1] = u[2]
          BY <1>1, <2>1
        <4>2. \/ u[2] = HeaderSize /\ Len(u) = 3
              \/ u[2] # HeaderSize /\ Len(u) = 4
          BY DEF Answer, HeaderSize, AnswerSize
        <4>3. CASE u[2] = HeaderSize /\ Len(u) = 3
          BY <2>1, <4>1, <4>3 DEF Following
        <4>4. CASE u[2] # HeaderSize /\ Len(u) = 4
          BY <2>1, <4>1, <4>4 DEF Following
        <4> QED BY <4>2, <4>3, <4>4
      <3> QED BY <1>2, <1>7, <3>1
    <2>2. CASE i \in 1 .. n /\ s[i] < 0
      <3>1. Following(j, i) = Following(s, i) /\ Following(s, i) \in 1 .. n + 1
        BY <1>5, <2>2
      <3>2. CASE Following(s, i) = n + 1
        BY <1>1, <3>1, <3>2 DEF Answer
      <3>3. CASE Following(s, i) \in 1 .. n
        <4>1. s[Following(s, i)] < 0
          BY <1>7, <2>2, <3>3 DEF Chain
        <4> QED BY <3>1, <3>3, <4>1
      <3> QED BY <3>1, <3>2, <3>3
    <2> QED BY <1>3, <1>7, <2>1, <2>2
  <1>8. Chain(s) => Chain(j)
    BY <1>7 DEF Chain
  <1> QED BY <1>3, <1>6, <1>8

\* What comes is a header or a result.
LEMMA ArriveStream ==
    ASSUME NEW s, NEW a \in Nat, NEW m \in Int, Len(s) \in Nat, a < Len(s),
           \A i \in 1 .. Len(s) : s[i] \in Int, StreamOK(s, a, m)
    PROVE  StreamOK(s, a + (IF s[a + 1] < 0 THEN 3 ELSE 1), m)
  <1>1. CASE s[a + 1] < 0
    <2>1. Whole(s, a + 1, m)
      BY <1>1 DEF StreamOK
    <2>2. s[a + 2] >= 0 /\ s[a + 3] >= 0
      BY <2>1 DEF Whole, HeaderSize, AnswerSize
    <2>3. ASSUME NEW i \in 1 .. Len(s), s[i] < 0, i <= a + 3
          PROVE  i + 2 <= a + 3
      <3>1. CASE i <= a
        BY <2>3, <3>1 DEF StreamOK
      <3>2. CASE i \in {a + 1, a + 2, a + 3}
        BY <2>2, <2>3, <3>2
      <3> QED BY <2>3, <3>1, <3>2
    <2> QED BY <1>1, <2>3 DEF StreamOK
  <1>2. CASE ~(s[a + 1] < 0)
    <2>1. ASSUME NEW i \in 1 .. Len(s), s[i] < 0, i <= a + 1
          PROVE  i + 2 <= a + 1
      <3>1. CASE i <= a
        BY <2>1, <3>1 DEF StreamOK
      <3>2. CASE i = a + 1
        BY <1>2, <2>1, <3>2
      <3> QED BY <2>1, <3>1, <3>2
    <2> QED BY <1>2, <2>1 DEF StreamOK
  <1> QED BY <1>1, <1>2

\* More numbers are in use.
LEMMA MoreNumbers ==
    ASSUME NEW s, NEW a, NEW m \in Int, NEW n \in Int, m <= n, StreamOK(s, a, m)
    PROVE  StreamOK(s, a, n)
  <1>1. \A i : Whole(s, i, m) => Whole(s, i, n)
    BY DEF Whole
  <1> QED BY <1>1 DEF StreamOK

-----------------------------------------------------------------------------
(* How commands end. *)

\* What a busy thread has sent is a request of the device, with a code of its own.
LEMMA RequestFacts ==
    ASSUME Inv1, NEW t \in Threads, pc[t] \in Busy
    PROVE  /\ Request(t) \in Requests /\ OkCode(Request(t)) \in -7 .. -1
           /\ stage[t] = "request" <=> Request(t) = "request"
           /\ stage[t] = "release" <=> Request(t) = "release"
           /\ threadlock = t /\ \A s \in Threads : pc[s] \in Busy => s = t
  <1> USE DEF Inv1
  <1>1. call[t] \in Calls /\ stage[t] \in {"request", "setip", "command", "softrt", "release"}
    BY Types DEF CallInv, Busy
  <1>2. /\ Request(t) \in Requests
        /\ stage[t] = "request" <=> Request(t) = "request"
        /\ stage[t] = "release" <=> Request(t) = "release"
    BY <1>1 DEF Request, Requests, Calls
  <1>3. \A r \in Requests : OkCode(r) \in -7 .. -1
    BY DEF OkCode, Requests
  <1> QED BY <1>2, <1>3 DEF LockInv

\* A result says what the answer says: InvalidResponse if it is no answer to the command.
LEMMA ResultFacts ==
    ASSUME NEW t, OkCode(Request(t)) \in -7 .. -1
    PROVE  /\ Result(t) \in {"NoError", "FuncNotSupp", "AccNotAllowed", "DestIPUnreach",
                              "InvalidResponse"}
           /\ Result(t) # "InvalidResponse" <=>
                 buffer[t][1] \in {OkCode(Request(t))} \cup Refusals
           /\ Result(t) = "NoError" <=>
                 /\ buffer[t][1] = OkCode(Request(t)) /\ Granted(buffer[t][1], buffer[t][4])
  <1> DEFINE ok == OkCode(Request(t))
             c == buffer[t][1]
  <1>1. Result(t) = CASE c = FuncNotSuppCode -> "FuncNotSupp"
                      [] c = AccNotAllowedCode -> "AccNotAllowed"
                      [] c = ok -> IF buffer[t][4] = 0 THEN "NoError"
                                   ELSE IF stage[t] = "setip" THEN "DestIPUnreach"
                                   ELSE "AccNotAllowed"
                      [] OTHER -> "InvalidResponse"
    BY DEF Result
  <1>2. ok \notin Refusals /\ Refusals = {FuncNotSuppCode, AccNotAllowedCode}
        /\ FuncNotSuppCode # AccNotAllowedCode
    BY DEF Refusals, FuncNotSuppCode, AccNotAllowedCode
  <1> HIDE DEF ok, c
  <1>3. /\ Result(t) \in {"NoError", "FuncNotSupp", "AccNotAllowed", "DestIPUnreach",
                           "InvalidResponse"}
        /\ Result(t) # "InvalidResponse" <=> c \in {ok} \cup Refusals
        /\ Result(t) = "NoError" <=> c = ok /\ Granted(c, buffer[t][4])
    BY <1>1, <1>2 DEF Granted
  <1> QED BY <1>3 DEF ok, c

\* A command ends without an answer, before it is sent, or with its answer.
HowEnds(t, e) ==
    /\ \/ Request(t) \in lost' /\ e # "NoError" /\ (pc[t] = "send" => ~connected)
       \/ pc[t] = "send" /\ stage[t] \in {"setip", "command"}
       \/ /\ pc[t] = "decide" /\ buffer[t][3] = id[t] /\ e = Result(t)
          /\ Result(t) # "InvalidResponse"
    /\ ~torn' => ~torn /\ pc[t] # "result"
    /\ e = "InvalidResponse" =>
          /\ pc[t] = "decide"
          /\ \/ buffer[t][3] > id[t]
             \/ buffer[t][3] = id[t] /\ Result(t) = "InvalidResponse"

\* The steps at which a command ends.
EndStep(t) ==
    \/ ConfigRefused(t) \/ SetUpFails(t) \/ SendFails(t) \/ ReceiveFails(t) \/ ReceiveNewer(t)
    \/ Answered(t)

\* They end it in one of these ways.
LEMMA EndsFacts ==
    ASSUME Inv1, NEW t \in Threads, EndStep(t)
    PROVE  \E e \in Errors : Ends(t, e) /\ HowEnds(t, e)
  <1>1. /\ pc[t] \in Busy /\ Request(t) \in Requests /\ lost \subseteq Requests
        /\ torn \in BOOLEAN /\ OkCode(Request(t)) \in -7 .. -1
    <2>1. pc[t] \in Busy
      BY DEF EndStep, ConfigRefused, SetUpFails, SendFails, ReceiveFails, ReceiveNewer, Answered,
             Busy
    <2> QED BY <2>1, RequestFacts, Types
  <1>0. ASSUME NEW e \in Errors, Ended(t, e) PROVE \E x \in Errors : Moves(t, e, x)
    BY <1>0, <1>1, EndedFacts, Types DEF Inv1
  <1>2. CASE ConfigRefused(t)
    <2>1. \E x \in Errors : Moves(t, "AccNotAllowed", x)
      BY <1>0, <1>2 DEF ConfigRefused, Errors
    <2>2. Ends(t, "AccNotAllowed") /\ HowEnds(t, "AccNotAllowed")
      BY <1>1, <1>2, <2>1 DEF ConfigRefused, Ends, HowEnds, history, network, Errors
    <2> QED BY <2>2 DEF Errors
  <1>7. CASE SetUpFails(t)
    <2>1. Return(t, "SetUpFailed") /\ master' = master /\ stage[t] \in {"setip", "command"}
          /\ master \in BOOLEAN
      BY <1>7, Types DEF SetUpFails
    <2>2. Moves(t, "SetUpFailed", "SetUpFailed")
      BY <2>1 DEF Moves, Return
    <2>3. Ends(t, "SetUpFailed") /\ HowEnds(t, "SetUpFailed")
      BY <1>1, <1>7, <2>2 DEF SetUpFails, Ends, HowEnds, history, network, Errors
    <2> QED BY <2>3 DEF Errors
  <1>3. CASE SendFails(t)
    <2>0. \E x \in Errors : Moves(t, "ConnReset", x)
      BY <1>0, <1>3 DEF SendFails, GivesUp, Errors
    <2>1. Ends(t, "ConnReset") /\ HowEnds(t, "ConnReset")
      BY <1>1, <1>3, <2>0 DEF SendFails, GivesUp, Ends, HowEnds, network, Errors
    <2> QED BY <2>1 DEF Errors
  <1>4. CASE ReceiveFails(t)
    <2>0. \E x \in Errors : Moves(t, "ReceiveError", x)
      BY <1>0, <1>4 DEF ReceiveFails, GivesUp, Errors
    <2>1. Ends(t, "ReceiveError") /\ HowEnds(t, "ReceiveError")
      BY <1>1, <1>4, <2>0 DEF ReceiveFails, GivesUp, Ends, HowEnds, network, Errors
    <2> QED BY <2>1 DEF Errors
  <1>5. CASE ReceiveNewer(t)
    <2>0. \E x \in Errors : Moves(t, "InvalidResponse", x)
      BY <1>0, <1>5 DEF ReceiveNewer, GivesUp, Errors
    <2>1. Ends(t, "InvalidResponse") /\ HowEnds(t, "InvalidResponse")
      BY <1>1, <1>5, <2>0 DEF ReceiveNewer, GivesUp, Ends, HowEnds, network, Errors
    <2> QED BY <2>1 DEF Errors
  <1>6. CASE Answered(t)
    <2>1. Result(t) \in {"NoError", "FuncNotSupp", "AccNotAllowed", "DestIPUnreach",
                         "InvalidResponse"}
      BY <1>1, ResultFacts
    <2>2. Result(t) \in Errors
      BY <2>1 DEF Errors
    <2>5. \E x \in Errors : Moves(t, Result(t), x)
      BY <1>0, <1>6, <2>2 DEF Answered
    <2>3. Ends(t, Result(t))
      BY <1>1, <1>6, <2>2, <2>5 DEF Answered, Ends, network
    <2>4. HowEnds(t, Result(t))
      BY <1>1, <1>6, <2>1 DEF Answered, HowEnds
    <2> QED BY <2>2, <2>3, <2>4
  <1> QED BY <1>2, <1>3, <1>4, <1>5, <1>6, <1>7 DEF EndStep

-----------------------------------------------------------------------------
(* The master interface: each step keeps what is known of it. *)

\* The code of a refusal is enough.
LEMMA RefusedFits ==
    ASSUME NEW t, NEW c \in Refusals, NEW x, NEW y, Fits(t, c, x)
    PROVE  Fits(t, c, y)
  BY DEF Fits, Granted

\* Numbers go up: the answers in the stream stay whole.
LEMMA StreamKept ==
    ASSUME Inv1, StreamInv, stream' = stream, arrived' = arrived, seqno' \in Int,
           seqno' >= seqno
    PROVE  StreamInv'
  <1>1. seqno - 1 \in Int /\ seqno' - 1 \in Int /\ seqno - 1 <= seqno' - 1
    BY Types
  <1>2. StreamOK(stream, arrived, seqno' - 1)
    BY <1>1, MoreNumbers DEF StreamInv
  <1> QED BY <1>2 DEF StreamInv

\* The end of a command.
LEMMA EndsInv2 ==
    ASSUME Inv1, Inv2, NEW t \in Threads, NEW e \in Errors, Ends(t, e), HowEnds(t, e)
    PROVE  Inv2'
  <1>1. /\ pc[t] \in Busy /\ TypeOK /\ CallInv
        /\ UNCHANGED <<network, owner, calls>> /\ lost \subseteq lost'
    BY DEF Ends, Inv1
  <1>2. \/ /\ pc' = [pc EXCEPT ![t] = "idle"]
           /\ stage[t] = "request" => e # "NoError"
           /\ IF stage[t] = "release" /\ e = "NoError" THEN ~master' ELSE master' = master
        \/ /\ \E p \in {"send", "receiver"} : pc' = [pc EXCEPT ![t] = p]
           /\ \/ stage[t] = "request" /\ e = "NoError" /\ master'
              \/ stage[t] \in {"setip", "command", "softrt"} /\ master' = master
    BY DEF Ends, Moves
  <1>3. \A s \in Threads : ~Receiving(s)' /\ pc'[s] \notin {"result", "decide"}
    <2>1. \A s \in Threads \ {t} : pc[s] \notin Busy
      BY <1>1, RequestFacts
    <2> QED BY <1>2, <2>1, Types DEF Receiving, Busy
  <1>4. ASSUME pc[t] = "decide", buffer[t][3] = id[t], Result(t) # "InvalidResponse"
        PROVE  /\ Fits(t, buffer[t][1], buffer[t][4])
               /\ Result(t) = "NoError" <=> Granted(buffer[t][1], buffer[t][4])
    <2>1. /\ buffer[t][1] \in {OkCode(Request(t))} \cup Refusals
          /\ OkCode(Request(t)) \in -7 .. -1
          /\ Result(t) = "NoError" <=>
                buffer[t][1] = OkCode(Request(t)) /\ Granted(buffer[t][1], buffer[t][4])
      BY <1>1, <1>4, RequestFacts, ResultFacts
    <2>2. buffer[t][1] < 0 /\ OkCode(Request(t)) \notin Refusals
      BY <2>1 DEF Refusals, FuncNotSuppCode, AccNotAllowedCode
    <2>3. Fits(t, buffer[t][1], buffer[t][4])
      BY <1>4, <2>2 DEF Inv2, BufferInv
    <2>4. Granted(buffer[t][1], buffer[t][4]) => buffer[t][1] = OkCode(Request(t))
      BY <2>1 DEF Granted
    <2> QED BY <2>1, <2>3, <2>4
  <1>5. StreamInv'
    <2>1. seqno' \in Int /\ seqno' >= seqno /\ stream' = stream /\ arrived' = arrived
      BY Types DEF Ends, network
    <2> QED BY <2>1, StreamKept DEF Inv2
  <1>6. RequestInv'
    <2> SUFFICES ASSUME NEW j \in 1 .. Len(requests) PROVE requests[j].of \in lost'
      BY <1>1, <1>3 DEF RequestInv, network
    <2>1. CASE requests[j].of \in lost
      BY <1>1, <2>1
    <2>2. ASSUME NEW s \in Threads, Receiving(s), requests[j].of = Request(s)
          PROVE  requests[j].of \in lost'
      <3>1. s = t
        BY <1>1, <2>2, RequestFacts DEF Receiving, Busy
      <3>2. requests # <<>> /\ pc[t] # "send"
        BY <2>2, <3>1 DEF Receiving
      <3>3. Request(t) \in lost'
        BY <1>4, <3>2 DEF HowEnds, Fits
      <3> QED BY <2>2, <3>1, <3>3
    <2> QED BY <2>1, <2>2 DEF Inv2, RequestInv
  <1>7. AnswerInv' /\ BufferInv' /\ PendingInv'
    BY <1>3 DEF AnswerInv, BufferInv, PendingInv
  <1>8. MasterInv'
    <2> SUFFICES ASSUME connected
                 PROVE  /\ master' => owner = "us" \/ "release" \in lost'
                        /\ owner = "us" => master' \/ "request" \in lost'
      BY <1>1 DEF MasterInv, network
    <2>0. stage[t] \in {"request", "setip", "command", "softrt", "release"}
          /\ (stage[t] = "request" <=> Request(t) = "request")
          /\ (stage[t] = "release" <=> Request(t) = "release")
          /\ (stage[t] = "request" => ~master) /\ master \in BOOLEAN
      BY <1>1, RequestFacts, Types DEF CallInv
    <2>1. CASE stage[t] = "request" /\ e = "NoError"
      <3>1. /\ Fits(t, buffer[t][1], buffer[t][4]) /\ Granted(buffer[t][1], buffer[t][4])
            /\ master'
        BY <1>2, <1>4, <2>1 DEF HowEnds
      <3> QED BY <2>1, <3>1 DEF Fits
    <2>2. CASE stage[t] = "request" /\ e # "NoError"
      <3>1. ~master' /\ master' = master
        BY <1>2, <2>0, <2>2
      <3>2. CASE Request(t) \in lost'
        BY <2>0, <2>2, <3>1, <3>2
      <3>3. CASE Request(t) \notin lost'
        <4>1. Fits(t, buffer[t][1], buffer[t][4]) /\ ~Granted(buffer[t][1], buffer[t][4])
          BY <1>4, <2>2, <3>3 DEF HowEnds
        <4> QED BY <1>1, <2>2, <3>1, <4>1 DEF Fits
      <3> QED BY <3>2, <3>3
    <2>3. CASE stage[t] = "release" /\ e = "NoError"
      <3>1. /\ Fits(t, buffer[t][1], buffer[t][4]) /\ Granted(buffer[t][1], buffer[t][4])
            /\ ~master'
        BY <1>2, <1>4, <2>3 DEF HowEnds
      <3> QED BY <2>3, <3>1 DEF Fits
    <2>4. CASE stage[t] = "release" /\ e # "NoError"
      <3>1. master' = master
        BY <1>2, <2>4
      <3>2. \A s \in Threads : Receiving(s) => stage[s] # "request"
        BY <1>1, <2>4, RequestFacts DEF Receiving, Busy
      <3>3. owner = "us" => master \/ "request" \in lost'
        BY <1>1, <3>2 DEF Inv2, MasterInv
      <3>4. CASE Request(t) \in lost'
        BY <2>0, <2>4, <3>1, <3>3, <3>4
      <3>5. CASE Request(t) \notin lost'
        <4>1. Fits(t, buffer[t][1], buffer[t][4]) /\ ~Granted(buffer[t][1], buffer[t][4])
          BY <1>4, <2>4, <3>5 DEF HowEnds
        <4>2. master => "release" \in lost
          BY <2>4, <4>1 DEF Fits
        <4> QED BY <1>1, <3>1, <3>3, <4>2
      <3> QED BY <3>4, <3>5
    <2>5. CASE stage[t] \in {"setip", "command", "softrt"}
      <3>1. master' = master
        BY <1>2, <2>5
      <3>2. \A s \in Threads : Receiving(s) => s = t
        BY <1>1, RequestFacts DEF Receiving, Busy
      <3> QED BY <1>1, <2>5, <3>1, <3>2 DEF Inv2, MasterInv
    <2> QED BY <2>0, <2>1, <2>2, <2>3, <2>4, <2>5
  <1> QED BY <1>5, <1>6, <1>7, <1>8 DEF Inv2

\* A call begins, takes the lock or waits for a receiver.
QuietStep(t) ==
    \/ Lock(t) \/ NoReceiver(t) \/ JoinReceiver(t) \/ Joined(t)
    \/ \E c \in Calls : Call(t, c)

\* Nothing is sent or read.
LEMMA QuietInv2 ==
    ASSUME Inv1, Inv2, NEW t \in Threads, QuietStep(t)
    PROVE  Inv2'
  <1>1. /\ ~Receiving(t) /\ pc'[t] \in {"lock", "receiver", "join", "send"}
        /\ \A s \in Threads \ {t} : pc'[s] = pc[s] /\ stage'[s] = stage[s] /\ call'[s] = call[s]
        /\ UNCHANGED <<seqno, master, command, network, owner, lost>>
    <2>1. CASE Lock(t)
      BY <2>1, Types DEF Lock, Receiving, history, FirstPlace, FirstStage
    <2>2. CASE NoReceiver(t) \/ JoinReceiver(t) \/ Joined(t)
      BY <2>2, Types DEF NoReceiver, JoinReceiver, Joined, Receiving, data, history
    <2>3. CASE \E c \in Calls : Call(t, c)
      BY <2>3, Types DEF Call, Receiving, data, history
    <2> QED BY <2>1, <2>2, <2>3 DEF QuietStep
  <1>2. \A s \in Threads :
           /\ Receiving(s)' <=> Receiving(s)
           /\ pc'[s] \in {"result", "decide"} => pc'[s] = pc[s] /\ s # t
           /\ Receiving(s) => s # t /\ stage'[s] = stage[s] /\ call'[s] = call[s]
    BY <1>1 DEF Receiving
  <1>3. \A s \in Threads : Receiving(s) => /\ Request(s)' = Request(s)
                                           /\ \A c, x : Fits(s, c, x)' <=> Fits(s, c, x)
    BY <1>1, <1>2 DEF Request, Fits, network
  <1>4. StreamInv'
    BY <1>1, StreamKept, Types DEF Inv2, network
  <1>5. RequestInv'
    BY <1>1, <1>2, <1>3 DEF Inv2, RequestInv, command, network
  <1>6. AnswerInv'
    BY <1>1, <1>2, <1>3 DEF Inv2, AnswerInv, command, network
  <1>7. BufferInv'
    BY <1>1, <1>2, <1>3 DEF Inv2, BufferInv, command, network, Receiving
  <1>8. PendingInv'
    BY <1>1, <1>2 DEF Inv2, PendingInv, command, network
  <1>9. MasterInv'
    BY <1>1, <1>2 DEF Inv2, MasterInv, network
  <1> QED BY <1>4, <1>5, <1>6, <1>7, <1>8, <1>9 DEF Inv2

\* A command is sent, with a number that no answer has.
LEMMA SendInv2 ==
    ASSUME Inv1, Inv2, NEW t \in Threads, Send(t)
    PROVE  Inv2'
  <1>1. /\ pc[t] = "send" /\ seqno' = seqno + 1
        /\ requests' = IF connected
                       THEN Append(requests, [of |-> Request(t), number |-> seqno])
                       ELSE requests
        /\ id' = [id EXCEPT ![t] = seqno] /\ pc' = [pc EXCEPT ![t] = "head"]
        /\ UNCHANGED <<master, threadlock, call, stage, was_master, error, buffer, stream,
                       arrived, connected, owner, history>>
    BY DEF Send
  <1>2. /\ \A s \in Threads : ~Receiving(s)
        /\ \A s \in Threads : Receiving(s)' <=> s = t
        /\ \A s \in Threads : pc'[s] \notin {"result", "decide"}
        /\ id'[t] = seqno
    <2>1. \A s \in Threads \ {t} : pc[s] \notin Busy
      BY <1>1, RequestFacts DEF Busy
    <2> QED BY <1>1, <2>1, Types DEF Receiving, Busy
  <1>3. stage[t] = "request" => ~master
    <2>1. CallInv /\ pc[t] \in Busy
      BY <1>1 DEF Inv1, Busy
    <2> QED BY <2>1 DEF CallInv
  <1>4. seqno \in Int /\ seqno >= 1 /\ seqno' \in Int /\ seqno' >= seqno
    BY <1>1, Types
  <1>5. StreamInv'
    BY <1>1, <1>4, StreamKept DEF Inv2
  <1>6. RequestInv'
    <2>1. \A j \in 1 .. Len(requests) : requests[j].of \in lost /\ requests[j].number < seqno
      BY <1>2 DEF Inv2, RequestInv, Inv1, WordInv
    <2>2. CASE connected
      <3> DEFINE e == [of |-> Request(t), number |-> seqno]
      <3>1. requests' = Append(requests, e) /\ e.of = Request(t) /\ e.number = seqno
            /\ e \in [of : Requests, number : Numbers]
        <4>1. seqno \in Numbers
          BY <1>1, BudgetBounds, Types DEF Inv1
        <4>2. Request(t) \in Requests
          BY <1>1, RequestFacts DEF Busy
        <4> QED BY <1>1, <2>2, <4>1, <4>2
      <3> HIDE DEF e
      <3>2. requests \in Seq([of : Requests, number : Numbers])
        BY DEF Inv1, WordInv
      <3>3. /\ Len(requests') = Len(requests) + 1 /\ requests'[Len(requests) + 1] = e
            /\ \A j \in 1 .. Len(requests) : requests'[j] = requests[j]
        BY <3>1, <3>2, AppendFacts
      <3>4. Len(requests) \in Nat
        BY <3>2, ElementFacts
      <3>5. \A j \in 1 .. Len(requests) :
               requests'[j].of \in lost /\ requests'[j].number < seqno
        BY <2>1, <3>3
      <3>6. \A j \in 1 .. Len(requests') : j \in 1 .. Len(requests) \/ j = Len(requests')
        BY <3>3, <3>4
      <3>7. Request(t)' = Request(t) /\ lost' = lost
        BY <1>1 DEF Request, history
      <3>8. /\ requests'[Len(requests')].of = Request(t)'
            /\ requests'[Len(requests')].number = id'[t] /\ Receiving(t)'
        BY <1>2, <3>1, <3>3, <3>7
      <3>9. \A s \in Threads : Receiving(s)' => id'[s] = seqno
        BY <1>2
      <3> QED BY <3>5, <3>6, <3>7, <3>8, <3>9 DEF RequestInv
    <2>3. CASE ~connected
      <3>1. requests' = requests /\ lost' = lost
        BY <1>1, <2>3 DEF history
      <3>2. \A s \in Threads : Receiving(s)' => id'[s] = seqno
        BY <1>2
      <3> QED BY <2>1, <3>1, <3>2 DEF RequestInv
    <2> QED BY <2>2, <2>3
  <1>7. AnswerInv'
    <2> SUFFICES ASSUME NEW i \in 1 .. Len(stream), stream[i] < 0 PROVE stream[i + 2] # seqno
      BY <1>1, <1>2 DEF AnswerInv
    <2>1. stream[i + 2] \in 1 .. seqno - 1
      BY DEF Inv2, StreamInv, StreamOK, Whole
    <2> QED BY <1>4, <2>1
  <1>8. BufferInv'
    BY <1>2 DEF BufferInv
  <1>9. MasterInv'
    BY <1>1, <1>2 DEF Inv2, MasterInv, history
  <1>10. PendingInv'
    <2> SUFFICES ASSUME connected
                 PROVE  /\ stage[t] = "request" => (owner = "us" => "request" \in lost)
                        /\ master => owner = "us" \/ "release" \in lost
      BY <1>1, <1>2 DEF PendingInv, history
    <2> QED BY <1>2, <1>3 DEF Inv2, MasterInv
  <1> QED BY <1>5, <1>6, <1>7, <1>8, <1>9, <1>10 DEF Inv2

\* What does not change while a thread reads.
LEMMA ReadsKeep ==
    ASSUME Inv1, NEW t \in Threads, Reads(t)
    PROVE  /\ \A s \in Threads : Receiving(s)' <=> Receiving(s)
           /\ \A s \in Threads \ {t} : ~Receiving(s) /\ pc'[s] \notin Busy
           /\ \A s \in Threads : /\ Request(s)' = Request(s)
                                 /\ \A c, x : Fits(s, c, x)' <=> Fits(s, c, x)
           /\ UNCHANGED <<id, stage, master, seqno, requests, owner, connected, lost, torn,
                          error>>
  <1>1. \A s \in Threads \ {t} : pc[s] \notin Busy /\ pc'[s] = pc[s]
    <2>1. pc[t] \in Busy
      BY DEF Reads, Receiving, Busy
    <2>2. \A s \in Threads \ {t} : pc[s] \notin Busy
      BY <2>1, RequestFacts
    <2>3. \A s \in Threads \ {t} : pc'[s] = pc[s]
      BY Types DEF Reads
    <2> QED BY <2>2, <2>3
  <1>2. Receiving(t)' /\ Receiving(t)
    BY DEF Reads, Receiving
  <1>3. UNCHANGED <<id, stage, call, master, seqno, requests, owner, connected, lost, torn,
                    error>>
    BY DEF Reads, data, history
  <1>4. \A s \in Threads : /\ Request(s)' = Request(s)
                           /\ \A c, x : Fits(s, c, x)' <=> Fits(s, c, x)
    BY <1>3 DEF Request, Fits
  <1> QED BY <1>1, <1>2, <1>3, <1>4 DEF Receiving, Busy

\* What does not depend on the stream is kept.
LEMMA ReadsInv2 ==
    ASSUME Inv1, Inv2, NEW t \in Threads, Reads(t)
    PROVE  RequestInv' /\ PendingInv' /\ MasterInv'
  <1>1. /\ \A s \in Threads : (Receiving(s)' <=> Receiving(s)) /\ Request(s)' = Request(s)
        /\ UNCHANGED <<id, stage, master, requests, owner, connected, lost>>
    BY ReadsKeep
  <1>2. RequestInv'
    BY <1>1 DEF Inv2, RequestInv
  <1>3. PendingInv'
    BY <1>1 DEF Inv2, PendingInv
  <1>4. MasterInv'
    BY <1>1 DEF Inv2, MasterInv
  <1> QED BY <1>2, <1>3, <1>4

\* What is left in the stream when k words are taken.
LEMMA TakenInv2 ==
    ASSUME Inv1, Inv2, NEW t \in Threads, Reads(t), NEW k \in Nat, k <= Len(stream),
           Len(stream') = Len(stream) - k,
           \A i \in 1 .. Len(stream') : stream'[i] = stream[i + k],
           arrived' = arrived - k
    PROVE  StreamInv' /\ AnswerInv'
  <1>1. /\ Len(stream) \in Nat /\ Len(stream') \in Nat /\ arrived \in Int /\ seqno - 1 \in Int
        /\ \A i \in 1 .. Len(stream) : stream[i] \in Int
    <2>1. Len(stream) \in Nat /\ arrived \in 0 .. Len(stream) /\ seqno \in Int
          /\ stream \in Seq(Word)
      BY Types
    <2>2. \A i \in 1 .. Len(stream) : stream[i] \in Word
      BY <2>1, ElementFacts
    <2>3. Word \subseteq Int
      BY DEF Word, HeaderSize, AnswerSize
    <2>4. Len(stream') \in Nat /\ arrived \in Int /\ seqno - 1 \in Int
      BY <2>1
    <2> QED BY <2>1, <2>2, <2>3, <2>4
  <1>2. StreamOK(stream', arrived', seqno - 1)
    BY <1>1, DropStream DEF Inv2, StreamInv
  <1>3. StreamInv'
    BY <1>2, ReadsKeep DEF StreamInv
  <1>4. ASSUME NEW i \in 1 .. Len(stream'), stream'[i] < 0, stream'[i + 2] = id[t], Receiving(t)
        PROVE  Fits(t, stream'[i], stream'[i + 3])
    <2> DEFINE h == i + k
    <2>1. h \in 1 .. Len(stream) /\ stream'[i] = stream[h] /\ stream[h] < 0
      BY <1>1, <1>4
    <2>2. Whole(stream', i, seqno - 1)
      BY <1>2, <1>4 DEF StreamOK
    <2>3. stream'[i + 2] = stream[h + 2]
      BY <1>1, <2>2 DEF Whole
    <2>4. Fits(t, stream[h], stream[h + 3])
      BY <1>4, <2>1, <2>3 DEF Inv2, AnswerInv
    <2>5. CASE stream'[i] \in Refusals
      BY <2>1, <2>4, <2>5, RefusedFits
    <2>6. CASE i + 3 <= Len(stream')
      <3>1. stream'[i + 3] = stream[h + 3]
        BY <1>1, <2>6
      <3> QED BY <2>1, <2>4, <3>1
    <2> QED BY <2>2, <2>5, <2>6 DEF Whole
  <1>5. AnswerInv'
    <2> SUFFICES ASSUME NEW s \in Threads, Receiving(s), NEW i \in 1 .. Len(stream'),
                        stream'[i] < 0, stream'[i + 2] = id[s]
                 PROVE  Fits(s, stream'[i], stream'[i + 3])
      BY ReadsKeep DEF AnswerInv
    <2>1. s = t
      BY ReadsKeep
    <2> QED BY <1>4, <2>1
  <1> QED BY <1>3, <1>5

\* A header is read.
LEMMA HeaderInv2 ==
    ASSUME Inv1, Inv2, NEW t \in Threads, ReceiveHeader(t)
    PROVE  Inv2'
  <1>1. Reads(t)
    BY ReadsFacts
  <1>2. PICK k \in 0 .. 3 : TookHeader(t, k)
    BY ReceiveHeaderFacts DEF ReceiveHeader, Inv1
  <1>3. /\ pc[t] = "head"
        /\ pc' = [pc EXCEPT ![t] = IF buffer'[t][2] > HeaderSize THEN "result" ELSE "decide"]
        /\ buffer[t][3] < id[t] /\ id[t] = seqno - 1 /\ seqno \in Int /\ Receiving(t)
    <2>1. pc[t] = "head" /\ Receiving(t)
          /\ pc' = [pc EXCEPT ![t] = IF buffer'[t][2] > HeaderSize THEN "result" ELSE "decide"]
      BY DEF ReceiveHeader, Receiving
    <2> QED BY <2>1, Types DEF Inv1, CallInv
  <1>4. k <= Len(stream) /\ Len(stream) \in Nat
    BY <1>2, Types DEF TookHeader
  <1>5. StreamInv' /\ AnswerInv'
    BY <1>1, <1>2, <1>4, TakenInv2 DEF TookHeader
  <1>6. ASSUME buffer'[t][1] < 0, buffer'[t][3] = id[t]
        PROVE  /\ pc'[t] = "result" => /\ stream' # <<>> /\ stream'[1] \in {0, 1}
                                       /\ Fits(t, buffer'[t][1], stream'[1])
               /\ pc'[t] = "decide" => Fits(t, buffer'[t][1], buffer'[t][4])
    <2>1. k = 3
      <3>1. buffer[t] \in [1 .. 4 -> Word] /\ id[t] \in Int /\ Word \subseteq Int
        BY Types DEF Word, HeaderSize, AnswerSize
      <3>2. buffer[t][3] # id[t]
        <4>1. buffer[t][3] \in Int
          <5>1. 3 \in 1 .. 4
            OBVIOUS
          <5>2. buffer[t][3] \in Word
            BY <3>1, <5>1, Zenon
          <5> QED BY <3>1, <5>2, Zenon
        <4> QED BY <1>3, <3>1, <4>1
      <3>3. buffer'[t][3] = IF 3 <= k THEN stream[3] ELSE buffer[t][3]
        BY <1>2 DEF TookHeader
      <3> QED BY <1>6, <3>2, <3>3
    <2>2. /\ buffer'[t][1] = stream[1] /\ buffer'[t][2] = stream[2] /\ buffer'[t][3] = stream[3]
          /\ Len(stream') = Len(stream) - 3 /\ Len(stream) >= 3
          /\ \A i \in 1 .. Len(stream') : stream'[i] = stream[i + 3]
      BY <1>2, <1>4, <2>1 DEF TookHeader
    <2>3. Whole(stream, 1, seqno - 1) /\ Fits(t, stream[1], stream[4])
      <3>1. 1 \in 1 .. Len(stream) /\ stream[1] < 0 /\ stream[1 + 2] = id[t]
        BY <1>4, <1>6, <2>2
      <3>2. Whole(stream, 1, seqno - 1)
        BY <3>1 DEF Inv2, StreamInv, StreamOK
      <3>3. Fits(t, stream[1], stream[1 + 3])
        BY <1>3, <3>1 DEF Inv2, AnswerInv
      <3> QED BY <3>2, <3>3
    <2>4. CASE stream[1] \in Refusals /\ stream[2] = HeaderSize
      <3>1. pc'[t] = "decide"
        BY <1>3, <2>2, <2>4, Types DEF HeaderSize
      <3> QED BY <2>2, <2>3, <2>4, <3>1, RefusedFits
    <2>5. CASE stream[2] = AnswerSize /\ 4 <= Len(stream) /\ stream[4] \in {0, 1}
      <3>1. pc'[t] = "result"
        BY <1>3, <2>2, <2>5, Types DEF HeaderSize, AnswerSize
      <3>2. stream'[1] = stream[4] /\ stream' # <<>>
        <4>1. Len(stream') >= 1 /\ 1 \in 1 .. Len(stream')
          BY <1>4, <2>2, <2>5
        <4>2. stream'[1] = stream[1 + 3]
          BY <2>2, <4>1
        <4>3. Len(<<>>) = 0
          OBVIOUS
        <4> QED BY <4>1, <4>2, <4>3
      <3> QED BY <2>2, <2>3, <2>5, <3>1, <3>2
    <2> QED BY <2>3, <2>4, <2>5 DEF Whole
  <1>7. BufferInv'
    <2>1. \A s \in Threads : pc'[s] \in {"result", "decide"} => s = t
      BY <1>1, ReadsKeep DEF Busy
    <2>2. id' = id /\ \A s \in Threads : \A c, x : Fits(s, c, x)' <=> Fits(s, c, x)
      BY <1>1, ReadsKeep
    <2>3. t \in Threads
      OBVIOUS
    <2> QED BY <1>6, <2>1, <2>2, <2>3 DEF BufferInv
  <1> QED BY <1>1, <1>5, <1>7, ReadsInv2 DEF Inv2

\* A result is read.
LEMMA ResultInv2 ==
    ASSUME Inv1, Inv2, NEW t \in Threads, ReceiveResult(t)
    PROVE  Inv2'
  <1>1. Reads(t)
    BY ReadsFacts
  <1>2. PICK k \in 0 .. 1 : TookResult(t, k)
    <2>1. buffer[t][2] = AnswerSize /\ (AnswerSize - HeaderSize) \div 4 = 1
      BY DEF ReceiveResult, Inv1, TypeOK, AnswerSize, HeaderSize
    <2> QED BY <2>1, ReceiveResultFacts DEF ReceiveResult, Inv1
  <1>3. pc[t] = "result" /\ pc'[t] = "decide"
    BY Types DEF ReceiveResult
  <1>4. k <= Len(stream) /\ Len(stream) \in Nat
    BY <1>2, Types DEF TookResult
  <1>5. StreamInv' /\ AnswerInv'
    BY <1>1, <1>2, <1>4, TakenInv2 DEF TookResult
  <1>6. ASSUME buffer'[t][1] < 0, buffer'[t][3] = id[t]
        PROVE  Fits(t, buffer'[t][1], buffer'[t][4])
    <2>1. buffer'[t][1] = buffer[t][1] /\ buffer'[t][3] = buffer[t][3]
      BY <1>2 DEF TookResult
    <2>2. stream # <<>> /\ Fits(t, buffer[t][1], stream[1])
      BY <1>3, <1>6, <2>1 DEF Inv2, BufferInv
    <2>3. k = 1
      BY <1>2, <2>2 DEF TookResult
    <2>4. buffer'[t][4] = stream[1]
      BY <1>2, <2>3 DEF TookResult
    <2> QED BY <2>1, <2>2, <2>4
  <1>7. BufferInv'
    <2>1. \A s \in Threads : pc'[s] \in {"result", "decide"} => s = t
      BY <1>1, ReadsKeep DEF Busy
    <2>2. id' = id /\ \A s \in Threads : \A c, x : Fits(s, c, x)' <=> Fits(s, c, x)
      BY <1>1, ReadsKeep
    <2>3. t \in Threads
      OBVIOUS
    <2> QED BY <1>3, <1>6, <2>1, <2>2, <2>3 DEF BufferInv
  <1> QED BY <1>1, <1>5, <1>7, ReadsInv2 DEF Inv2

\* A late answer is skipped.
LEMMA OlderInv2 ==
    ASSUME Inv1, Inv2, NEW t \in Threads, ReceiveOlder(t)
    PROVE  Inv2'
  <1>1. Reads(t)
    BY ReadsFacts
  <1>2. UNCHANGED <<buffer, stream, arrived>> /\ pc'[t] = "head"
    BY Types DEF ReceiveOlder, command, network
  <1>3. StreamInv' /\ AnswerInv'
    BY <1>1, <1>2, ReadsKeep DEF Inv2, StreamInv, AnswerInv
  <1>4. BufferInv'
    BY <1>1, <1>2, ReadsKeep DEF BufferInv, Busy
  <1> QED BY <1>1, <1>3, <1>4, ReadsInv2 DEF Inv2

\* The device executes the first request: the answer it gives to the command that waits for
\* it agrees with the master interface.
LEMMA ExecuteFacts ==
    ASSUME Inv1, Execute
    PROVE  \E u \in Seq(Word) :
             /\ Answer(u, seqno - 1) /\ Len(u) \in Nat /\ Len(requests) \in Nat
             /\ u[3] = requests[1].number /\ u[1] \in {OkCode(requests[1].of)} \cup Refusals
             /\ Len(stream') = Len(stream) + Len(u)
             /\ \A i \in 1 .. Len(stream) : stream'[i] = stream[i]
             /\ \A i \in 1 .. Len(u) : stream'[Len(stream) + i] = u[i]
             /\ Len(requests) >= 1 /\ Len(requests') = Len(requests) - 1
             /\ \A i \in 1 .. Len(requests') : requests'[i] = requests[i + 1]
             /\ \/ requests[1].of = "request" /\ owner' = "us" /\ Granted(u[1], u[4])
                \/ requests[1].of = "release" /\ owner' = "none" /\ Granted(u[1], u[4])
                \/ requests[1].of \notin {"request", "release"} /\ owner' = owner
                \/ /\ ~(requests[1].of = "release" /\ owner = "us") /\ owner' = owner
                   /\ ~Granted(u[1], u[4])
  <1>1. PICK r \in Requests, n \in Numbers, u \in Seq(Word) :
           /\ requests # <<>> /\ r = requests[1].of /\ n = requests[1].number
           /\ \/ u = <<OkCode(r), AnswerSize, n, 0>>
              \/ u = <<OkCode(r), AnswerSize, n, 1>>
              \/ \E c \in Refusals : u = <<c, HeaderSize, n>>
           /\ stream' = stream \o u /\ requests' = Tail(requests)
           /\ \/ r = "request" /\ owner # "other" /\ owner' = "us" /\ u = Done(r, n, 0)
              \/ r = "release" /\ owner = "us" /\ owner' = "none" /\ u = Done(r, n, 0)
              \/ r \notin {"request", "release"} /\ owner' = owner /\ u = Done(r, n, 0)
              \/ /\ ~(r = "release" /\ owner = "us") /\ owner' = owner
                 /\ u # Done(r, n, 0)
    BY AnswerFacts DEF Inv1
  <1>2. /\ requests \in Seq([of : Requests, number : Numbers]) /\ Len(requests) \in Nat
        /\ Len(requests) >= 1 /\ Len(requests') = Len(requests) - 1
        /\ \A i \in 1 .. Len(requests') : requests'[i] = requests[i + 1]
    <2>1. requests \in Seq([of : Requests, number : Numbers])
      BY DEF Inv1, WordInv
    <2> QED BY <1>1, <2>1, HeadFacts
  <1>3. n \in 1 .. seqno - 1
    <2>1. n < seqno
      BY <1>1, <1>2 DEF Inv1, WordInv
    <2>2. n \in Int /\ n >= 1
      BY <1>1, BoundFacts
    <2>3. seqno \in Int
      BY BoundFacts, Types
    <2> QED BY <2>1, <2>2, <2>3
  <1>4. /\ Len(stream') = Len(stream) + Len(u)
        /\ \A i \in 1 .. Len(stream) : stream'[i] = stream[i]
        /\ \A i \in 1 .. Len(u) : stream'[Len(stream) + i] = u[i]
    BY <1>1, Types, JoinFacts
  <1>5. /\ OkCode(r) \in -7 .. -1
        /\ \A c \in Refusals : c < 0 /\ c \in -9 .. -1 /\ c \notin -7 .. -1
    <2>1. \A q \in Requests : OkCode(q) \in -7 .. -1
      BY DEF OkCode, Requests
    <2>2. \A c \in Refusals : c < 0 /\ c \in -9 .. -1 /\ c \notin -7 .. -1
      BY DEF Refusals, FuncNotSuppCode, AccNotAllowedCode
    <2> QED BY <1>1, <2>1, <2>2
  <1>6. /\ Answer(u, seqno - 1) /\ u[3] = n /\ u[1] \in {OkCode(r)} \cup Refusals
        /\ Granted(u[1], u[4]) <=> u = Done(r, n, 0)
    <2>1. CASE u = <<OkCode(r), AnswerSize, n, 0>>
      BY <1>3, <1>5, <2>1 DEF Answer, Granted, Done
    <2>2. CASE u = <<OkCode(r), AnswerSize, n, 1>>
      BY <1>3, <1>5, <2>2 DEF Answer, Granted, Done
    <2>3. ASSUME NEW c \in Refusals, u = <<c, HeaderSize, n>>
          PROVE  /\ Answer(u, seqno - 1) /\ u[3] = n /\ u[1] \in {OkCode(r)} \cup Refusals
                 /\ Granted(u[1], u[4]) <=> u = Done(r, n, 0)
      <3>1. Len(u) = 3 /\ u[1] = c /\ u[2] = HeaderSize /\ u[3] = n
        BY <2>3
      <3>2. u # Done(r, n, 0)
        <4>1. Done(r, n, 0)[2] = AnswerSize
          BY DEF Done
        <4> QED BY <3>1, <4>1 DEF HeaderSize, AnswerSize
      <3> QED BY <1>3, <1>5, <3>1, <3>2 DEF Answer, Granted
    <2> QED BY <1>1, <2>1, <2>2, <2>3
  <1> QED BY <1>1, <1>2, <1>4, <1>6

\* An answer to the command that waits agrees with the master interface, and an answer to
\* an earlier one is known to be lost.
LEMMA ExecuteInv2 ==
    ASSUME Inv1, Inv2, Execute
    PROVE  Inv2'
  <1>1. PICK u \in Seq(Word) :
             /\ Answer(u, seqno - 1) /\ Len(u) \in Nat /\ Len(requests) \in Nat
             /\ u[3] = requests[1].number /\ u[1] \in {OkCode(requests[1].of)} \cup Refusals
             /\ Len(stream') = Len(stream) + Len(u)
             /\ \A i \in 1 .. Len(stream) : stream'[i] = stream[i]
             /\ \A i \in 1 .. Len(u) : stream'[Len(stream) + i] = u[i]
             /\ Len(requests) >= 1 /\ Len(requests') = Len(requests) - 1
             /\ \A i \in 1 .. Len(requests') : requests'[i] = requests[i + 1]
             /\ \/ requests[1].of = "request" /\ owner' = "us" /\ Granted(u[1], u[4])
                \/ requests[1].of = "release" /\ owner' = "none" /\ Granted(u[1], u[4])
                \/ requests[1].of \notin {"request", "release"} /\ owner' = owner
                \/ /\ ~(requests[1].of = "release" /\ owner = "us") /\ owner' = owner
                   /\ ~Granted(u[1], u[4])
    BY ExecuteFacts
  <1>2. /\ connected /\ connected' = connected /\ arrived' = arrived
        /\ UNCHANGED <<seqno, master, pc, stage, call, id, buffer, lost>>
    BY DEF Execute, data, caller, command, history
  <1>3. \A s \in Threads : (Receiving(s)' <=> Receiving(s)) /\ Request(s)' = Request(s)
    BY <1>2 DEF Receiving, Request
  <1>4. \A s, q \in Threads : Receiving(s) /\ Receiving(q) => s = q
    BY RequestFacts DEF Receiving, Busy
  <1>5. /\ Len(stream) \in Nat /\ arrived \in Int /\ arrived <= Len(stream) /\ seqno - 1 \in Int
        /\ \A i \in 1 .. Len(stream) : stream[i] \in Int
    <2>1. Len(stream) \in Nat /\ arrived \in 0 .. Len(stream) /\ seqno \in Int
          /\ stream \in Seq(Word)
      BY Types
    <2>2. \A i \in 1 .. Len(stream) : stream[i] \in Word
      BY <2>1, ElementFacts
    <2>3. Word \subseteq Int
      BY DEF Word, HeaderSize, AnswerSize
    <2>4. arrived \in Int /\ arrived <= Len(stream) /\ seqno - 1 \in Int
      BY <2>1
    <2> QED BY <2>1, <2>2, <2>3, <2>4
  <1>6. /\ StreamOK(stream', arrived, seqno - 1)
        /\ \A i \in 1 .. Len(stream') :
              stream'[i] < 0 => (i \in 1 .. Len(stream) /\ stream[i] < 0) \/ i = Len(stream) + 1
    <2>1. /\ Len(stream') = Len(stream) + Len(u) /\ Answer(u, seqno - 1)
          /\ \A i \in 1 .. Len(stream) : stream'[i] = stream[i]
          /\ \A i \in 1 .. Len(u) : stream'[Len(stream) + i] = u[i]
          /\ StreamOK(stream, arrived, seqno - 1)
      BY <1>1 DEF Inv2, StreamInv
    <2>2. \A m \in Int : StreamOK(stream, arrived, m) /\ Answer(u, m) =>
             /\ StreamOK(stream', arrived, m)
             /\ \A i \in 1 .. Len(stream') :
                   stream'[i] < 0 =>
                      (i \in 1 .. Len(stream) /\ stream[i] < 0) \/ i = Len(stream) + 1
      <3> SUFFICES ASSUME NEW m \in Int, StreamOK(stream, arrived, m), Answer(u, m)
                   PROVE  /\ StreamOK(stream', arrived, m)
                          /\ \A i \in 1 .. Len(stream') :
                                stream'[i] < 0 =>
                                   (i \in 1 .. Len(stream) /\ stream[i] < 0) \/ i = Len(stream) + 1
        OBVIOUS
      <3> QED BY <1>5, <2>1, JoinStream, ZenonT(30)
    <2> QED BY <1>5, <2>1, <2>2
  <1>7. StreamInv'
    BY <1>2, <1>6 DEF StreamInv
  \* The first request is one that was given up, or the last one.
  <1>8. \/ /\ requests[1].of \in lost
           /\ \A s \in Threads : Receiving(s) => requests[1].number < id[s]
        \/ \E s \in Threads : /\ Receiving(s) /\ requests[1].number = id[s]
                              /\ requests[1].of = Request(s) /\ Len(requests) = 1
    <2>1. 1 \in 1 .. Len(requests)
      BY <1>1
    <2> QED BY <2>1 DEF Inv2, RequestInv
  <1>9. RequestInv'
    <2> SUFFICES ASSUME NEW j \in 1 .. Len(requests')
                 PROVE  \/ /\ requests'[j].of \in lost
                           /\ \A s \in Threads : Receiving(s) => requests'[j].number < id[s]
                        \/ \E s \in Threads : /\ Receiving(s) /\ requests'[j].number = id[s]
                                              /\ requests'[j].of = Request(s) /\ j = Len(requests')
      BY <1>2, <1>3 DEF RequestInv
    <2>1. j + 1 \in 1 .. Len(requests) /\ requests'[j] = requests[j + 1]
          /\ (j + 1 = Len(requests) => j = Len(requests'))
      BY <1>1
    <2> QED BY <2>1 DEF Inv2, RequestInv
  <1>10. requests # <<>>
    BY DEF Execute
  <1>11. Len(requests) = 1 => requests' = <<>>
    <2>1. requests \in Seq([of : Requests, number : Numbers]) /\ requests' = Tail(requests)
      BY DEF Execute, Inv1, WordInv
    <2>2. /\ Len(requests') = Len(requests) - 1
          /\ requests' \in Seq([of : Requests, number : Numbers])
      BY <1>10, <2>1, HeadFacts
    <2> QED BY <2>2, EmptyFacts
  <1>12. BufferInv'
    <2>1. \A s \in Threads : pc[s] \in {"result", "decide"} /\ buffer[s][1] < 0 =>
             buffer[s][3] # id[s]
      BY <1>10 DEF Inv2, BufferInv, Fits
    <2> QED BY <1>2, <2>1 DEF BufferInv
  <1>13. AnswerInv'
    <2> SUFFICES ASSUME NEW s \in Threads, Receiving(s), NEW i \in 1 .. Len(stream'),
                        stream'[i] < 0, stream'[i + 2] = id[s]
                 PROVE  \A c, x : c = stream'[i] /\ x = stream'[i + 3] => Fits(s, c, x)'
      <3>1. id' = id /\ \A s \in Threads : Receiving(s)' <=> Receiving(s)
        BY <1>2, <1>3
      <3> QED BY <3>1 DEF AnswerInv
    <2>1. i \notin 1 .. Len(stream) \/ ~(stream[i] < 0)
      <3> SUFFICES ASSUME i \in 1 .. Len(stream), stream[i] < 0 PROVE FALSE
        OBVIOUS
      <3>1. i + 2 \in 1 .. Len(stream)
        BY <1>5 DEF Inv2, StreamInv, StreamOK, Whole
      <3>2. stream[i + 2] = id[s]
        BY <1>1, <3>1
      <3>3. Fits(s, stream[i], stream[i + 3])
        BY <3>2 DEF Inv2, AnswerInv
      <3> QED BY <1>10, <3>3 DEF Fits
    <2>2. i = Len(stream) + 1
      BY <1>6, <2>1
    <2>3. /\ Len(u) \in {3, 4} /\ stream'[i] = u[1] /\ stream'[i + 2] = u[3]
          /\ (Len(u) = 4 => stream'[i + 3] = u[4]) /\ (Len(u) = 3 => u[1] \in Refusals)
      <3>1. Len(u) \in {3, 4} /\ (Len(u) = 3 => u[1] \in Refusals)
        <4>1. 3 # 4
          OBVIOUS
        <4> QED BY <1>1, <4>1 DEF Answer
      <3>2. 1 \in 1 .. Len(u) /\ 3 \in 1 .. Len(u) /\ (Len(u) = 4 => 4 \in 1 .. Len(u))
        <4>1. 1 \in 1 .. 3 /\ 3 \in 1 .. 3 /\ 1 \in 1 .. 4 /\ 3 \in 1 .. 4 /\ 4 \in 1 .. 4
          OBVIOUS
        <4> QED BY <3>1, <4>1
      <3>3. Len(stream) + 1 = i /\ Len(stream) + 3 = i + 2 /\ Len(stream) + 4 = i + 3
        BY <1>5, <2>2
      <3> QED BY <1>1, <3>1, <3>2, <3>3
    <2>4. Granted(stream'[i], stream'[i + 3]) <=> Granted(u[1], u[4])
      BY <2>3 DEF Granted
    <2>5. requests[1].number = id[s]
      BY <1>1, <2>3
    <2>6. requests[1].of = Request(s) /\ Len(requests) = 1
      <3>1. id[s] \in Int
        BY Types
      <3>2. ~(requests[1].number < id[s])
        BY <2>5, <3>1
      <3> QED BY <1>4, <1>8, <3>2
    <2>7. requests' = <<>>
      BY <1>11, <2>6
    <2>8. stream'[i] \in {OkCode(Request(s))} \cup Refusals
      BY <1>1, <2>3, <2>6
    <2>9. /\ stage[s] = "request" <=> Request(s) = "request"
          /\ stage[s] = "release" <=> Request(s) = "release"
      BY RequestFacts DEF Receiving, Busy
    <2>10. /\ stage[s] = "request" => (owner = "us" => "request" \in lost)
           /\ stage[s] = "release" => (master => owner = "us" \/ "release" \in lost)
      BY <1>2, <1>10, <2>5, <2>6 DEF Inv2, PendingInv
    <2>11. stage[s] = "request" =>
              IF Granted(u[1], u[4]) THEN owner' = "us" ELSE owner' = "us" => "request" \in lost
      BY <1>1, <2>6, <2>9, <2>10
    <2>12. stage[s] = "release" =>
              IF Granted(u[1], u[4]) THEN owner' # "us" ELSE master => "release" \in lost
      BY <1>1, <2>6, <2>9, <2>10
    <2>13. ASSUME NEW c, NEW x, c = stream'[i], x = stream'[i + 3] PROVE Fits(s, c, x)'
      <3>1. /\ stage' = stage /\ lost' = lost /\ master' = master /\ Request(s)' = Request(s)
            /\ (Granted(c, x) <=> Granted(u[1], u[4]))
            /\ c \in {OkCode(Request(s))} \cup Refusals
        BY <1>2, <1>3, <2>4, <2>8, <2>13
      <3> QED BY <2>7, <2>11, <2>12, <3>1 DEF Fits
    <2> QED BY <2>13
  <1>14. PendingInv'
    <2> SUFFICES ASSUME NEW s \in Threads, Receiving(s), requests' # <<>>,
                        requests'[Len(requests')].number = id[s]
                 PROVE  /\ stage[s] = "request" => (owner' = "us" => "request" \in lost)
                        /\ stage[s] = "release" => (master => owner' = "us" \/ "release" \in lost)
      BY <1>2, <1>3 DEF PendingInv
    <2>1. Len(requests) # 1
      BY <1>11
    <2>2. requests[Len(requests)].number = id[s] /\ requests[1].of \in lost
      <3>1. requests[1].of \in lost
        BY <1>8, <2>1
      <3>2. Len(requests') \in 1 .. Len(requests') /\ Len(requests') + 1 = Len(requests)
        BY <1>1, <2>1
      <3>3. requests'[Len(requests')] = requests[Len(requests)]
        BY <1>1, <3>2
      <3> QED BY <3>1, <3>3
    <2>3. /\ stage[s] = "request" => (owner = "us" => "request" \in lost)
          /\ stage[s] = "release" => (master => owner = "us" \/ "release" \in lost)
      BY <1>2, <1>10, <2>2 DEF Inv2, PendingInv
    <2> QED BY <1>1, <2>2, <2>3
  <1>15. MasterInv'
    <2>1. /\ master => \/ owner = "us" \/ "release" \in lost
                       \/ \E s \in Threads : Receiving(s) /\ stage[s] = "release"
          /\ owner = "us" => \/ master \/ "request" \in lost
                             \/ \E s \in Threads : Receiving(s) /\ stage[s] = "request"
      BY <1>2 DEF Inv2, MasterInv
    <2>2. \A s \in Threads : Receiving(s) => /\ stage[s] = "request" <=> Request(s) = "request"
                                             /\ stage[s] = "release" <=> Request(s) = "release"
      BY RequestFacts DEF Receiving, Busy
    <2>3. requests[1].of \in lost
          \/ \E s \in Threads : Receiving(s) /\ requests[1].of = Request(s)
      BY <1>8
    <2>4. /\ master => \/ owner' = "us" \/ "release" \in lost
                       \/ \E s \in Threads : Receiving(s) /\ stage[s] = "release"
          /\ owner' = "us" => \/ master \/ "request" \in lost
                              \/ \E s \in Threads : Receiving(s) /\ stage[s] = "request"
      <3>1. owner' = owner \/ (requests[1].of = "request" /\ owner' = "us")
            \/ (requests[1].of = "release" /\ owner' = "none")
        BY <1>1
      <3> QED BY <2>1, <2>2, <2>3, <3>1
    <2> QED BY <1>2, <1>3, <2>4 DEF MasterInv
  <1> QED BY <1>7, <1>9, <1>12, <1>13, <1>14, <1>15 DEF Inv2

\* What comes, the end of the connection, and another client.
LEMMA NetworkInv2 ==
    ASSUME Inv1, Inv2, Arrive \/ Disconnect \/ OtherClient
    PROVE  Inv2'
  <1>1. /\ UNCHANGED <<data, caller, command, requests, stream, history>>
        /\ connected' => connected
        /\ owner' = owner \/ owner' # "us"
        /\ owner = "us" /\ connected' => owner' = owner
    BY Types DEF Arrive, Disconnect, OtherClient, network
  <1>2. /\ Len(stream) \in Nat /\ arrived \in Nat /\ seqno - 1 \in Int
        /\ \A i \in 1 .. Len(stream) : stream[i] \in Int
    <2>1. Len(stream) \in Nat /\ arrived \in 0 .. Len(stream) /\ seqno \in Int
          /\ stream \in Seq(Word)
      BY Types
    <2>2. \A i \in 1 .. Len(stream) : stream[i] \in Word
      BY <2>1, ElementFacts
    <2>3. Word \subseteq Int
      BY DEF Word, HeaderSize, AnswerSize
    <2>4. arrived \in Nat /\ seqno - 1 \in Int
      BY <2>1
    <2> QED BY <2>1, <2>2, <2>3, <2>4
  <1>3. StreamInv'
    <2>1. CASE Arrive
      <3>1. StreamOK(stream, arrived', seqno - 1)
        BY <1>2, <2>1, ArriveStream DEF Inv2, StreamInv, Arrive
      <3> QED BY <1>1, <3>1 DEF StreamInv, data
    <2>2. CASE arrived' = arrived
      BY <1>1, <2>2 DEF Inv2, StreamInv, data
    <2> QED BY <2>1, <2>2 DEF Disconnect, OtherClient, network
  <1>4. /\ UNCHANGED <<pc, stage, call, id, buffer, master, lost>>
        /\ \A s \in Threads : (Receiving(s)' <=> Receiving(s)) /\ Request(s)' = Request(s)
    BY <1>1 DEF data, caller, command, history, Receiving, Request
  <1>5. \A s \in Threads : \A c, x : Fits(s, c, x) => Fits(s, c, x)'
    <2> SUFFICES ASSUME NEW s \in Threads, NEW c, NEW x, Fits(s, c, x) PROVE Fits(s, c, x)'
      OBVIOUS
    <2>1. requests' = <<>> /\ c \in {OkCode(Request(s))} \cup Refusals
      BY <1>1 DEF Fits
    <2>2. connected' /\ stage[s] = "request" =>
             IF Granted(c, x) THEN owner' = "us" ELSE owner' = "us" => "request" \in lost
      BY <1>1 DEF Fits
    <2>3. connected' /\ stage[s] = "release" =>
             IF Granted(c, x) THEN owner' # "us" ELSE master => "release" \in lost
      BY <1>1 DEF Fits
    <2> QED BY <1>4, <2>1, <2>2, <2>3 DEF Fits
  <1>6. RequestInv'
    BY <1>1, <1>4 DEF Inv2, RequestInv
  <1>7. AnswerInv'
    BY <1>1, <1>4, <1>5 DEF Inv2, AnswerInv
  <1>8. BufferInv'
    BY <1>1, <1>4, <1>5 DEF Inv2, BufferInv, Receiving
  <1>9. PendingInv'
    BY <1>1, <1>4 DEF Inv2, PendingInv
  <1>10. MasterInv'
    BY <1>1, <1>4 DEF Inv2, MasterInv
  <1> QED BY <1>3, <1>6, <1>7, <1>8, <1>9, <1>10 DEF Inv2

-----------------------------------------------------------------------------
(* Late answers: each step keeps a thread that waits for a header at one. *)

\* The end of a command, in step with the stream if nothing is torn off.
LEMMA EndsInv3 ==
    ASSUME Inv1, Inv2, Inv3, NEW t \in Threads, NEW e \in Errors, Ends(t, e), HowEnds(t, e)
    PROVE  Inv3'
  <1>1. /\ pc[t] \in Busy /\ TypeOK /\ CallInv /\ stream' = stream
        /\ OkCode(Request(t)) \in -7 .. -1 /\ \A s \in Threads \ {t} : pc[s] \notin Busy
    BY RequestFacts DEF Ends, Inv1, network
  <1>2. /\ \E p \in {"idle", "send", "receiver"} : pc' = [pc EXCEPT ![t] = p]
        /\ \E x \in {error[t], e, "SetUpFailed"} : error' = [error EXCEPT ![t] = x]
    BY DEF Ends, Moves
  <1>3. \A s \in Threads : pc'[s] \notin {"result", "decide"}
    BY <1>1, <1>2, Types DEF Busy
  <1>4. torn => torn'
    BY Types DEF Ends, HowEnds
  <1>5. ASSUME ~torn' PROVE Chain(stream) /\ StartsAt(stream, 1)
    <2>1. ~torn /\ \A s \in Threads : pc[s] # "result"
      BY <1>1, <1>5 DEF HowEnds, Busy
    <2> QED BY <2>1 DEF Inv3, AlignInv, InStep
  <1>6. AlignInv'
    BY <1>1, <1>3, <1>5 DEF AlignInv, InStep
  <1>7. e = "InvalidResponse" => torn'
    <2> SUFFICES ASSUME e = "InvalidResponse", ~torn' PROVE FALSE
      OBVIOUS
    <2>1. /\ pc[t] = "decide" /\ ~torn
          /\ buffer[t][3] > id[t] \/ (buffer[t][3] = id[t] /\ Result(t) = "InvalidResponse")
      BY DEF HowEnds
    <2>2. buffer[t][3] < id[t] \/ (buffer[t][3] = id[t] /\ buffer[t][1] < 0)
      BY <2>1 DEF Inv3, AlignInv, InStep
    <2>3. buffer[t][3] \in Int /\ id[t] \in Int
      <3>1. 3 \in 1 .. 4 /\ Word \subseteq Int
        BY DEF Word, HeaderSize, AnswerSize
      <3>2. buffer[t][3] \in Word /\ id[t] \in Int
        BY <3>1, Types, Zenon
      <3> QED BY <3>1, <3>2, Zenon
    <2>4. buffer[t][3] = id[t] /\ buffer[t][1] < 0 /\ Result(t) = "InvalidResponse"
      BY <2>1, <2>2, <2>3
    <2>5. Fits(t, buffer[t][1], buffer[t][4])
      BY <2>1, <2>4 DEF Inv2, BufferInv
    <2>6. buffer[t][1] \in {OkCode(Request(t))} \cup Refusals
      BY <2>5 DEF Fits
    <2> QED BY <1>1, <2>4, <2>6, ResultFacts
  <1>8. LateAnswersSkipped'
    <2> SUFFICES ASSUME NEW s \in Threads, error'[s] = "InvalidResponse" PROVE torn'
      BY DEF LateAnswersSkipped
    <2>1. error'[s] \in {error[s], e, "SetUpFailed"}
      BY <1>2, Types
    <2> QED BY <1>4, <1>7, <2>1 DEF Inv3, LateAnswersSkipped
  <1> QED BY <1>6, <1>8 DEF Inv3

\* The stream does not change, and no thread begins to read a result.
LEMMA QuietInv3 ==
    ASSUME Inv1, Inv3, NEW t \in Threads, Send(t) \/ QuietStep(t)
    PROVE  Inv3'
  <1>1. /\ UNCHANGED <<stream, torn, connected, buffer>>
        /\ \A s \in Threads :
              /\ pc'[s] \in {"result", "decide"} <=> pc[s] \in {"result", "decide"}
              /\ pc'[s] \in {"result", "decide"} =>
                    pc'[s] = pc[s] /\ id'[s] = id[s]
              /\ error'[s] \in {error[s], "NoError"}
    <2>1. CASE Lock(t)
      BY <2>1, Types DEF Lock, command, network, history, FirstPlace
    <2>2. CASE NoReceiver(t) \/ JoinReceiver(t) \/ Joined(t)
      BY <2>2, Types DEF NoReceiver, JoinReceiver, Joined, command, network, history
    <2>3. CASE Send(t)
      BY <2>3, Types DEF Send, network, history
    <2>4. CASE \E c \in Calls : Call(t, c)
      BY <2>4, Types DEF Call, command, network, history
    <2> QED BY <2>1, <2>2, <2>3, <2>4 DEF QuietStep
  <1>2. AlignInv'
    <2> SUFFICES ASSUME ~torn PROVE InStep'
      BY <1>1 DEF AlignInv
    <2>1. Chain(stream)
      BY DEF Inv3, AlignInv, InStep
    <2>2. \A s \in Threads : pc'[s] = "result" <=> pc[s] = "result"
      BY <1>1
    <2>3. (\A s \in Threads : pc'[s] # "result") => StartsAt(stream, 1)
      BY <2>2 DEF Inv3, AlignInv, InStep
    <2>4. \A s \in Threads : pc'[s] = "result" =>
             \/ stream = <<>> /\ ~connected
             \/ stream # <<>> /\ stream[1] >= 0 /\ StartsAt(stream, 2)
      BY <2>2 DEF Inv3, AlignInv, InStep
    <2>5. \A s \in Threads : pc'[s] \in {"result", "decide"} =>
             buffer[s][3] < id'[s] \/ (buffer[s][3] = id'[s] /\ buffer[s][1] < 0)
      BY <1>1 DEF Inv3, AlignInv, InStep
    <2> QED BY <1>1, <2>1, <2>3, <2>4, <2>5 DEF InStep
  <1>3. LateAnswersSkipped'
    BY <1>1 DEF Inv3, LateAnswersSkipped
  <1> QED BY <1>2, <1>3 DEF Inv3

\* A header is read where one is.
LEMMA HeaderInv3 ==
    ASSUME Inv1, Inv2, Inv3, NEW t \in Threads, ReceiveHeader(t), ~torn
    PROVE  InStep'
  <1>1. Reads(t)
    BY ReadsFacts
  <1>2. PICK k \in 0 .. 3 : TookHeader(t, k)
    BY ReceiveHeaderFacts DEF ReceiveHeader, Inv1
  <1>3. /\ pc[t] = "head" /\ pc'[t] \in {"result", "decide"}
        /\ pc'[t] = "result" <=> buffer'[t][2] > HeaderSize
        /\ buffer[t][3] < id[t] /\ id[t] = seqno - 1 /\ seqno \in Int
    <2>1. pc[t] = "head" /\ Receiving(t)
          /\ pc' = [pc EXCEPT ![t] = IF buffer'[t][2] > HeaderSize THEN "result" ELSE "decide"]
      BY DEF ReceiveHeader, Receiving
    <2> QED BY <2>1, Types DEF Inv1, CallInv
  <1>4. /\ Chain(stream) /\ StartsAt(stream, 1) /\ StreamOK(stream, arrived, seqno - 1)
    <2>1. \A s \in Threads : pc[s] # "result"
      BY <1>1, <1>3, ReadsKeep DEF Receiving
    <2> QED BY <2>1 DEF Inv3, AlignInv, InStep, Inv2, StreamInv
  <1>5. /\ \A s \in Threads : pc'[s] \in {"result", "decide"} => s = t
        /\ id' = id /\ connected' = connected
    BY <1>1, ReadsKeep DEF Busy
  <1>6. /\ Len(stream) \in Nat /\ Len(stream') \in Nat /\ arrived \in 0 .. Len(stream)
        /\ k \in Nat /\ \A i \in 1 .. Len(stream) : stream[i] \in Int
    <2>1. Len(stream) \in Nat /\ arrived \in 0 .. Len(stream) /\ stream \in Seq(Word)
      BY Types
    <2>2. \A i \in 1 .. Len(stream) : stream[i] \in Word
      BY <2>1, ElementFacts
    <2>3. Word \subseteq Int
      BY DEF Word, HeaderSize, AnswerSize
    <2>4. Len(stream') \in Nat
      BY <1>2, <2>1 DEF TookHeader
    <2>5. \A i \in 1 .. Len(stream) : stream[i] \in Int
      BY <2>2, <2>3, Zenon
    <2>6. k \in Nat
      OBVIOUS
    <2> QED BY <2>1, <2>4, <2>5, <2>6
  <1>7. /\ Len(stream') = Len(stream) - k /\ arrived' = arrived - k /\ k <= arrived
        /\ \A i \in 1 .. Len(stream') : stream'[i] = stream[i + k]
        /\ stream' \in Seq(Word) /\ (k < 3 => k = arrived)
        /\ (k = 0 => ~connected /\ stream = <<>>)
        /\ \A j \in 1 .. 4 : buffer'[t][j] = IF j <= k THEN stream[j] ELSE buffer[t][j]
    BY <1>2 DEF TookHeader
  <1>8. Chain(stream')
    <2>1. arrived \in Int /\ seqno - 1 \in Int
      BY <1>3, <1>6
    <2> QED BY <1>4, <1>6, <1>7, <2>1, DropStream
  <1>9. CASE k = 0
    <2>1. stream' = <<>>
      <3>1. Len(<<>>) = 0
        OBVIOUS
      <3>2. Len(stream') = 0
        BY <1>7, <1>9, <3>1
      <3> QED BY <1>7, <3>2, EmptyFacts
    <2>2. buffer'[t][3] = buffer[t][3]
      BY <1>7, <1>9
    <2>3. \A i \in {1, 2} : StartsAt(stream', i)
      <3>1. Len(stream') = 0
        BY <2>1
      <3> QED BY <3>1 DEF StartsAt
    <2> QED BY <1>3, <1>5, <1>7, <1>8, <1>9, <2>1, <2>2, <2>3 DEF InStep
  <1>10. CASE k > 0
    <2>1. 1 \in 1 .. Len(stream) /\ 1 <= arrived
      BY <1>6, <1>7, <1>10
    <2>2. stream[1] < 0 /\ Whole(stream, 1, seqno - 1) /\ 3 <= arrived
      BY <1>4, <2>1 DEF StartsAt, StreamOK
    <2>3. k = 3
      BY <1>7, <2>2
    <2>4. buffer'[t][1] = stream[1] /\ buffer'[t][2] = stream[2] /\ buffer'[t][3] = stream[3]
      BY <1>7, <2>3
    <2>5. buffer'[t][3] < id[t] \/ (buffer'[t][3] = id[t] /\ buffer'[t][1] < 0)
      BY <1>3, <2>2, <2>4 DEF Whole
    <2>6. Following(stream, 1) <= Len(stream) => stream[Following(stream, 1)] < 0
      BY <1>4, <2>1, <2>2 DEF Chain
    <2>7. CASE stream[2] = HeaderSize
      <3>1. pc'[t] = "decide"
        BY <1>3, <2>4, <2>7 DEF HeaderSize
      <3>2. StartsAt(stream', 1)
        <4>1. Following(stream, 1) = 4
          BY <2>7 DEF Following
        <4>2. Len(stream') >= 1 => stream'[1] = stream[4] /\ 4 <= Len(stream)
          BY <1>6, <1>7, <2>3
        <4> QED BY <2>6, <4>1, <4>2 DEF StartsAt
      <3> QED BY <1>5, <1>8, <2>5, <3>1, <3>2 DEF InStep
    <2>8. CASE stream[2] = AnswerSize /\ 4 <= Len(stream) /\ stream[4] \in {0, 1}
      <3>1. pc'[t] = "result"
        BY <1>3, <2>4, <2>8 DEF HeaderSize, AnswerSize
      <3>2. StartsAt(stream', 2)
        <4>1. Following(stream, 1) = 5
          BY <2>8 DEF Following, HeaderSize, AnswerSize
        <4>2. Len(stream') >= 2 => stream'[2] = stream[5] /\ 5 <= Len(stream)
          BY <1>6, <1>7, <2>3
        <4> QED BY <2>6, <4>1, <4>2 DEF StartsAt
      <3>3. stream'[1] = stream[4] /\ stream' # <<>>
        <4>1. Len(stream') >= 1 /\ 1 \in 1 .. Len(stream')
          BY <1>6, <1>7, <2>3, <2>8
        <4>2. stream'[1] = stream[1 + 3]
          BY <1>7, <2>3, <4>1
        <4>3. Len(<<>>) = 0
          OBVIOUS
        <4> QED BY <4>1, <4>2, <4>3
      <3>4. stream'[1] >= 0
        BY <2>8, <3>3
      <3> QED BY <1>5, <1>8, <2>5, <3>1, <3>2, <3>3, <3>4 DEF InStep
    <2> QED BY <2>2, <2>7, <2>8 DEF Whole
  <1> QED BY <1>6, <1>9, <1>10

\* The result behind a header is read.
LEMMA ResultInv3 ==
    ASSUME Inv1, Inv2, Inv3, NEW t \in Threads, ReceiveResult(t), ~torn
    PROVE  InStep'
  <1>1. Reads(t)
    BY ReadsFacts
  <1>2. PICK k \in 0 .. 1 : TookResult(t, k)
    <2>1. buffer[t][2] = AnswerSize /\ (AnswerSize - HeaderSize) \div 4 = 1
      BY DEF ReceiveResult, Inv1, TypeOK, AnswerSize, HeaderSize
    <2> QED BY <2>1, ReceiveResultFacts DEF ReceiveResult, Inv1
  <1>3. pc[t] = "result" /\ pc'[t] = "decide"
    BY Types DEF ReceiveResult
  <1>4. /\ Chain(stream) /\ StreamOK(stream, arrived, seqno - 1)
        /\ \/ stream = <<>> /\ ~connected
           \/ stream # <<>> /\ stream[1] >= 0 /\ StartsAt(stream, 2)
        /\ buffer[t][3] < id[t] \/ (buffer[t][3] = id[t] /\ buffer[t][1] < 0)
    BY <1>3 DEF Inv3, AlignInv, InStep, Inv2, StreamInv
  <1>5. /\ \A s \in Threads : pc'[s] \in {"result", "decide"} => s = t
        /\ id' = id
    BY <1>1, ReadsKeep DEF Busy
  <1>6. /\ Len(stream) \in Nat /\ Len(stream') \in Nat /\ arrived \in Int /\ seqno - 1 \in Int
        /\ k \in Nat /\ \A i \in 1 .. Len(stream) : stream[i] \in Int
    <2>1. Len(stream) \in Nat /\ arrived \in 0 .. Len(stream) /\ stream \in Seq(Word)
          /\ seqno \in Int
      BY Types
    <2>2. \A i \in 1 .. Len(stream) : stream[i] \in Word
      BY <2>1, ElementFacts
    <2>3. Word \subseteq Int
      BY DEF Word, HeaderSize, AnswerSize
    <2>4. Len(stream') \in Nat
      BY <1>2, <2>1 DEF TookResult
    <2>5. arrived \in Int /\ seqno - 1 \in Int
      BY <2>1
    <2>6. \A i \in 1 .. Len(stream) : stream[i] \in Int
      BY <2>2, <2>3, Zenon
    <2>7. k \in Nat
      OBVIOUS
    <2> QED BY <2>1, <2>4, <2>5, <2>6, <2>7
  <1>7. /\ Len(stream') = Len(stream) - k
        /\ \A i \in 1 .. Len(stream') : stream'[i] = stream[i + k]
        /\ (k = 0 => ~connected /\ stream = <<>>)
        /\ buffer'[t][1] = buffer[t][1] /\ buffer'[t][3] = buffer[t][3]
    BY <1>2 DEF TookResult
  <1>8. Chain(stream')
    BY <1>4, <1>6, <1>7, DropStream
  <1>9. StartsAt(stream', 1)
    <2>1. CASE k = 0
      <3>1. Len(stream') = 0
        BY <1>7, <2>1
      <3> QED BY <3>1 DEF StartsAt
    <2>2. CASE k = 1
      <3>1. Len(stream) # 0 => StartsAt(stream, 2)
        BY <1>4
      <3>2. Len(stream') >= 1 => stream'[1] = stream[2] /\ Len(stream) >= 2
        BY <1>6, <1>7, <2>2
      <3> QED BY <3>1, <3>2 DEF StartsAt
    <2> QED BY <2>1, <2>2
  <1> QED BY <1>3, <1>4, <1>5, <1>7, <1>8, <1>9 DEF InStep

\* A late answer is skipped: the next words are those of a header again.
LEMMA OlderInv3 ==
    ASSUME Inv1, Inv2, Inv3, NEW t \in Threads, ReceiveOlder(t), ~torn
    PROVE  InStep'
  <1>1. Reads(t)
    BY ReadsFacts
  <1>2. UNCHANGED <<buffer, stream, arrived>> /\ pc'[t] = "head" /\ pc[t] = "decide"
    BY Types DEF ReceiveOlder, command, network
  <1>3. /\ \A s \in Threads : pc'[s] \notin {"result", "decide"} /\ pc[s] # "result"
    <2>1. \A s \in Threads \ {t} : ~Receiving(s) /\ pc'[s] \notin Busy
      BY <1>1, ReadsKeep
    <2> QED BY <1>2, <2>1 DEF Receiving, Busy
  <1>4. Chain(stream) /\ StartsAt(stream, 1)
    BY <1>3 DEF Inv3, AlignInv, InStep
  <1> QED BY <1>2, <1>3, <1>4 DEF InStep

\* So reading keeps the thread and the stream in step.
LEMMA ReadsInv3 ==
    ASSUME Inv1, Inv2, Inv3, NEW t \in Threads,
           ReceiveHeader(t) \/ ReceiveResult(t) \/ ReceiveOlder(t)
    PROVE  Inv3'
  <1>1. torn' = torn /\ error' = error
    BY ReadsFacts, ReadsKeep
  <1>2. AlignInv'
    BY <1>1, HeaderInv3, ResultInv3, OlderInv3 DEF AlignInv
  <1> QED BY <1>1, <1>2 DEF Inv3, LateAnswersSkipped

\* Another answer is put behind the answers in the stream.
LEMMA ExecuteInv3 ==
    ASSUME Inv1, Inv2, Inv3, Execute
    PROVE  Inv3'
  <1>1. /\ UNCHANGED <<pc, id, buffer, torn, error>> /\ connected /\ connected'
    BY DEF Execute, caller, command, history
  <1>2. PICK u \in Seq(Word) :
             /\ Answer(u, seqno - 1) /\ Len(u) \in Nat
             /\ Len(stream') = Len(stream) + Len(u)
             /\ \A i \in 1 .. Len(stream) : stream'[i] = stream[i]
             /\ \A i \in 1 .. Len(u) : stream'[Len(stream) + i] = u[i]
    BY ExecuteFacts
  <1>3. /\ Len(stream) \in Nat /\ arrived \in Int /\ arrived <= Len(stream) /\ seqno - 1 \in Int
        /\ \A i \in 1 .. Len(stream) : stream[i] \in Int
        /\ StreamOK(stream, arrived, seqno - 1)
    <2>1. Len(stream) \in Nat /\ arrived \in 0 .. Len(stream) /\ seqno \in Int
          /\ stream \in Seq(Word)
      BY Types
    <2>2. \A i \in 1 .. Len(stream) : stream[i] \in Word
      BY <2>1, ElementFacts
    <2>3. Word \subseteq Int
      BY DEF Word, HeaderSize, AnswerSize
    <2>4. arrived \in Int /\ arrived <= Len(stream) /\ seqno - 1 \in Int
      BY <2>1
    <2> QED BY <2>1, <2>2, <2>3, <2>4 DEF Inv2, StreamInv
  <1>4. Chain(stream) => Chain(stream')
    <2>1. \A m \in Int : StreamOK(stream, arrived, m) /\ Answer(u, m) =>
             (Chain(stream) => Chain(stream'))
      <3> SUFFICES ASSUME NEW m \in Int, StreamOK(stream, arrived, m), Answer(u, m)
                   PROVE  Chain(stream) => Chain(stream')
        OBVIOUS
      <3> QED BY <1>2, <1>3, JoinStream, ZenonT(30)
    <2> QED BY <1>2, <1>3, <2>1
  <1>5. stream'[Len(stream) + 1] < 0
    <2>1. 1 \in 1 .. Len(u) /\ u[1] < 0
      <3>1. Len(u) \in {3, 4} /\ u[1] < 0
        BY <1>2 DEF Answer
      <3> QED BY <3>1
    <2> QED BY <1>2, <2>1
  <1>6. \A i \in 1 .. 2 : StartsAt(stream, i) /\ Len(stream) >= i - 1 => StartsAt(stream', i)
    <2> SUFFICES ASSUME NEW i \in 1 .. 2, StartsAt(stream, i), Len(stream) >= i - 1
                 PROVE  stream'[i] < 0
      BY DEF StartsAt
    <2>1. CASE Len(stream) >= i
      BY <1>2, <1>3, <2>1 DEF StartsAt
    <2>2. CASE Len(stream) = i - 1
      BY <1>5, <2>2
    <2> QED BY <1>3, <2>1, <2>2
  <1>7. AlignInv'
    <2> SUFFICES ASSUME ~torn PROVE InStep'
      BY <1>1 DEF AlignInv
    <2>1. InStep
      BY DEF Inv3, AlignInv
    <2>2. (\A t \in Threads : pc[t] # "result") => StartsAt(stream', 1)
      <3>1. StartsAt(stream, 1) => StartsAt(stream', 1)
        BY <1>3, <1>6
      <3> QED BY <2>1, <3>1 DEF InStep
    <2>3. ASSUME NEW t \in Threads, pc[t] = "result"
          PROVE  stream' # <<>> /\ stream'[1] >= 0 /\ StartsAt(stream', 2)
      <3>1. stream # <<>> /\ stream[1] >= 0 /\ StartsAt(stream, 2)
        BY <1>1, <2>1, <2>3 DEF InStep
      <3>2. Len(stream) >= 1
        BY <1>3, <3>1, EmptyFacts, Types
      <3>3. stream'[1] = stream[1] /\ StartsAt(stream', 2)
        BY <1>2, <1>3, <1>6, <3>1, <3>2
      <3>4. stream' # <<>>
        <4>1. Len(stream') # 0
          BY <1>2, <1>3, <3>2
        <4>2. Len(<<>>) = 0
          OBVIOUS
        <4> QED BY <4>1, <4>2
      <3> QED BY <3>1, <3>3, <3>4
    <2> QED BY <1>1, <1>4, <2>1, <2>2, <2>3 DEF InStep
  <1> QED BY <1>1, <1>7 DEF Inv3, LateAnswersSkipped

\* What has come does not matter, and without a connection nothing is added.
LEMMA NetworkInv3 ==
    ASSUME Inv1, Inv3, Arrive \/ Disconnect \/ OtherClient
    PROVE  Inv3'
  <1>1. /\ UNCHANGED <<pc, id, buffer, stream, torn, error>> /\ (connected' => connected)
    BY Types DEF Arrive, Disconnect, OtherClient, network, caller, command, history
  <1>2. AlignInv'
    BY <1>1 DEF Inv3, AlignInv, InStep
  <1> QED BY <1>1, <1>2 DEF Inv3, LateAnswersSkipped

-----------------------------------------------------------------------------
(* The inductive invariant, and the theorems. *)

\* What a buffer holds in the place of a size.
SizeInv == \A t \in Threads : WholeWords(buffer[t][2])

Inv == Inv1 /\ Inv2 /\ Inv3 /\ SizeInv

\* A receive of a header looks at the size, a receive of a result leaves it alone.
LEMMA NextSizeInv ==
    ASSUME Inv1, SizeInv, [Next]_vars
    PROVE  SizeInv'
  <1>1. WholeWords(0)
    BY DEF WholeWords, HeaderSize
  <1>2. ASSUME NEW t \in Threads, Step(t) PROVE SizeInv'
    <2>1. CASE \/ Lock(t) \/ NoReceiver(t) \/ JoinReceiver(t) \/ Joined(t)
               \/ Send(t) \/ ReceiveOlder(t)
      BY <2>1 DEF SizeInv, Lock, NoReceiver, JoinReceiver, Joined, Send, ReceiveOlder, command
    <2>2. CASE ReceiveHeader(t)
      <3>1. WholeWords(buffer'[t][2])
        BY <2>2 DEF ReceiveHeader
      <3>2. \A s \in Threads \ {t} : buffer'[s] = buffer[s]
        BY <2>2, ReadsFacts DEF Reads
      <3> QED BY <3>1, <3>2 DEF SizeInv
    <2>3. CASE ReceiveResult(t)
      <3>1. buffer[t][2] = AnswerSize /\ (AnswerSize - HeaderSize) \div 4 = 1
        BY <2>3 DEF ReceiveResult, Inv1, TypeOK, AnswerSize, HeaderSize
      <3>2. PICK k \in 0 .. 1 : TookResult(t, k)
        BY <2>3, <3>1, ReceiveResultFacts DEF ReceiveResult, Inv1
      <3>3. \A s \in Threads : buffer'[s][2] = buffer[s][2]
        BY <3>2 DEF TookResult
      <3> QED BY <3>3 DEF SizeInv
    <2>4. CASE EndStep(t)
      <3>1. PICK e \in Errors : Ends(t, e)
        BY <2>4, EndsFacts
      <3>2. buffer' = [buffer EXCEPT ![t] = Empty]
        BY <3>1 DEF Ends, Moves
      <3>3. \A s \in Threads : buffer'[s] = buffer[s] \/ buffer'[s] = Empty
        BY <3>2, Types
      <3>4. Empty[2] = 0
        BY DEF Empty
      <3> QED BY <1>1, <3>3, <3>4 DEF SizeInv
    <2> QED BY <1>2, <2>1, <2>2, <2>3, <2>4 DEF Step, EndStep
  <1>3. ASSUME NEW t \in Threads, NEW c \in Calls, Call(t, c) PROVE SizeInv'
    BY <1>3 DEF SizeInv, Call, command
  <1>4. CASE Execute \/ Arrive \/ Disconnect \/ OtherClient \/ UNCHANGED vars
    BY <1>4 DEF SizeInv, Execute, Arrive, Disconnect, OtherClient, command, vars
  <1> QED BY <1>2, <1>3, <1>4 DEF Next

\* The bound of ReceiveHeader leaves nothing out as long as no result is left behind.
LEMMA InStepFollowed ==
    ASSUME Inv, NEW t \in Threads, pc[t] = "head", Receive(t, 1, 3), ~torn
    PROVE  WholeWords(buffer'[t][2])
  <1> USE DEF Inv
  <1>1. PICK k \in 0 .. 3 : TookHeader(t, k)
    BY ReceiveHeaderFacts DEF Inv1
  <1>2. CASE k = 0
    <2>1. buffer'[t][2] = buffer[t][2]
      BY <1>1, <1>2 DEF TookHeader
    <2> QED BY <2>1 DEF SizeInv
  <1>3. CASE k > 0
    <2>1. StartsAt(stream, 1) /\ StreamOK(stream, arrived, seqno - 1)
      <3>1. \A s \in Threads : pc[s] # "result"
        BY RequestFacts DEF Busy
      <3> QED BY <3>1 DEF Inv3, AlignInv, InStep, Inv2, StreamInv
    <2>2. 1 \in 1 .. Len(stream) /\ 1 <= arrived
      BY <1>1, <1>3, Types DEF TookHeader
    <2>3. Whole(stream, 1, seqno - 1) /\ 3 <= arrived
      BY <2>1, <2>2 DEF StartsAt, StreamOK
    <2>4. buffer'[t][2] = stream[2]
      BY <1>1, <2>3 DEF TookHeader
    <2>5. stream[2] \in {HeaderSize, AnswerSize}
      BY <2>3 DEF Whole
    <2> QED BY <2>4, <2>5 DEF WholeWords, HeaderSize, AnswerSize
  <1> QED BY <1>2, <1>3

\* The invariant holds at first.
LEMMA InitInv == Init => Inv
  <1> SUFFICES ASSUME Init PROVE Inv
    OBVIOUS
  <1> USE DEF Init
  <1>1. /\ \A t \in Threads : pc[t] = "idle" /\ ~Receiving(t)
        /\ stream = <<>> /\ Len(stream) = 0 /\ requests = <<>> /\ Len(requests) = 0
    BY DEF Receiving
  <1>2. TypeOK
    <2>1. \A t \in Threads : id[t] = 0 /\ Len(buffer[t]) = 4 /\ pc[t] = "idle"
      BY DEF Empty
    <2>2. seqno \in Numbers \cup {5 * MaxCalls + 1}
      BY BoundFacts
    <2>3. stream \in Seq(Int) /\ arrived \in 0 .. Len(stream) /\ lost \subseteq Requests
      OBVIOUS
    <2>4. /\ call \in [Threads -> Calls \cup {"none"}]
          /\ stage \in [Threads -> {"none", "request", "setip", "command", "softrt", "release"}]
          /\ pc \in [Threads -> {"idle", "lock", "receiver", "join", "send", "head", "result", "decide"}]
          /\ was_master \in [Threads -> BOOLEAN]
      OBVIOUS
    <2>5. /\ master \in BOOLEAN /\ connected \in BOOLEAN /\ torn \in BOOLEAN
          /\ threadlock \in Threads \cup {Nobody} /\ owner \in {"none", "us", "other"}
      OBVIOUS
    <2>6. \A t \in Threads : /\ id[t] \in Numbers \cup {0}
                             /\ pc[t] = "result" => buffer[t][2] = AnswerSize
      BY <2>1, Zenon
    <2> QED BY <2>1, <2>2, <2>3, <2>4, <2>5, <2>6, Zenon DEF TypeOK
  <1>3. LockInv /\ CallInv
    BY BoundFacts DEF LockInv, CallInv, Busy, Receiving, Empty
  <1>4. BudgetInv
    <2>1. At("lock") = {} /\ At("join") = {}
      BY DEF At
    <2>2. IsFiniteSet(At("lock")) /\ IsFiniteSet(At("join")) /\ Waits = 0
      <3>1. IsFiniteSet({}) /\ Cardinality({}) = 0
        BY FS_EmptySet
      <3>2. Cardinality(At("lock")) = 0 /\ Cardinality(At("join")) = 0
        BY <2>1, <3>1
      <3>3. Waits = 0
        BY <3>2 DEF Waits
      <3> QED BY <2>1, <3>1, <3>3
    <2> QED BY <2>2, BoundFacts DEF BudgetInv
  <1>5. WordInv
    <2>1. Empty \in [1 .. 4 -> Word]
      BY DEF Empty, Word, HeaderSize
    <2> QED BY <1>1, <2>1 DEF WordInv, Errors
  <1>6. Inv2
    BY <1>1 DEF Inv2, StreamInv, StreamOK, RequestInv, AnswerInv, BufferInv, PendingInv,
       MasterInv
  <1>7. Inv3
    BY <1>1 DEF Inv3, AlignInv, InStep, Chain, StartsAt, LateAnswersSkipped
  <1>8. SizeInv
    <2>1. \A t \in Threads : buffer[t][2] = 0
      BY DEF Empty
    <2>2. WholeWords(0)
      BY DEF WholeWords, HeaderSize
    <2> QED BY <2>1, <2>2 DEF SizeInv
  <1> QED BY <1>2, <1>3, <1>4, <1>5, <1>6, <1>7, <1>8 DEF Inv, Inv1

\* Each step of a thread keeps it.
LEMMA ThreadInv ==
    ASSUME Inv, NEW t \in Threads, Step(t) \/ \E c \in Calls : Call(t, c)
    PROVE  Inv1' /\ Inv2' /\ Inv3'
  <1> USE DEF Inv
  <1>1. ASSUME NEW c \in Calls, Call(t, c) PROVE Inv1' /\ Inv2' /\ Inv3'
    BY <1>1, CallInv1, QuietInv2, QuietInv3 DEF QuietStep
  <1>2. CASE Lock(t) \/ NoReceiver(t) \/ JoinReceiver(t) \/ Joined(t)
    BY <1>2, LockInv1, ReceiverInv1, QuietInv2, QuietInv3 DEF QuietStep
  <1>3. CASE Send(t)
    BY <1>3, SendInv1, SendInv2, QuietInv3
  <1>4. CASE ReceiveHeader(t) \/ ReceiveResult(t) \/ ReceiveOlder(t)
    <2>1. Inv1'
      BY <1>4, ReadsFacts, ReadsInv1
    <2> QED BY <1>4, <2>1, HeaderInv2, ResultInv2, OlderInv2, ReadsInv3
  <1>5. CASE EndStep(t)
    <2>1. PICK e \in Errors : Ends(t, e) /\ HowEnds(t, e)
      BY <1>5, EndsFacts
    <2> QED BY <2>1, EndsInv1, EndsInv2, EndsInv3
  <1> QED BY <1>1, <1>2, <1>3, <1>4, <1>5 DEF Step, EndStep

\* And each step of the others.
LEMMA NextInv == Inv /\ [Next]_vars => Inv'
  <1> SUFFICES ASSUME Inv, [Next]_vars PROVE Inv'
    OBVIOUS
  <1>1. ASSUME NEW t \in Threads, Step(t) \/ \E c \in Calls : Call(t, c)
        PROVE  Inv1' /\ Inv2' /\ Inv3'
    BY <1>1, ThreadInv
  <1>2. ASSUME Execute PROVE Inv1' /\ Inv2' /\ Inv3'
    BY <1>2, OthersInv1, ExecuteInv2, ExecuteInv3 DEF Inv, Inv2
  <1>3. ASSUME Arrive \/ Disconnect \/ OtherClient PROVE Inv1' /\ Inv2' /\ Inv3'
    BY <1>3, OthersInv1, NetworkInv2, NetworkInv3 DEF Inv, Inv2
  <1>4. ASSUME UNCHANGED vars PROVE Inv1' /\ Inv2' /\ Inv3'
    <2> USE <1>4 DEF Inv, vars, data, caller, command, network, history
    <2>1. Inv1'
      BY DEF Inv1, TypeOK, LockInv, CallInv, BudgetInv, WordInv, Waits, At, Left, Receiving
    <2>2. \A t \in Threads : /\ (Receiving(t)' <=> Receiving(t)) /\ Request(t)' = Request(t)
                             /\ \A c, x : Fits(t, c, x)' <=> Fits(t, c, x)
      BY DEF Receiving, Request, Fits
    <2>3. Inv2'
      BY <2>2 DEF Inv2, StreamInv, RequestInv, AnswerInv, BufferInv, PendingInv, MasterInv
    <2>4. Inv3'
      BY DEF Inv3, AlignInv, InStep, LateAnswersSkipped
    <2> QED BY <2>1, <2>3, <2>4
  <1>5. Inv1' /\ Inv2' /\ Inv3'
    BY <1>1, <1>2, <1>3, <1>4 DEF Next
  <1>6. SizeInv'
    BY NextSizeInv DEF Inv
  <1> QED BY <1>5, <1>6 DEF Inv

\* The invariant holds in every state.
LEMMA InvHolds == Spec => []Inv
  BY InitInv, NextInv, PTL DEF Spec

\* The sequence number stays in bounds, only whole words are asked for, and a receive
\* never takes more than has arrived.  (TCP_ExecuteCommand(), EIB_ReceiveSocket())
THEOREM TypeCorrect == Spec => []TypeOK
  <1>1. Inv => TypeOK
    BY DEF Inv, Inv1
  <1> QED BY <1>1, InvHolds, PTL

\* EIB_Data.master agrees with the device between the calls, however many threads share the
\* connection and however late the answers come.  (EIBCmd_RequestMaster(),
\* EIBCmd_ReleaseMaster())
THEOREM MasterInterfaceKnown == Spec => []MasterKnown
  <1>1. Inv => MasterKnown
    <2> SUFFICES ASSUME Inv, connected, threadlock = Nobody
                 PROVE  /\ master => owner = "us" \/ "release" \in lost
                        /\ owner = "us" => master \/ "request" \in lost
      BY DEF MasterKnown
    <2>1. \A t \in Threads : ~Receiving(t)
      BY BoundFacts DEF Inv, Inv1, LockInv, Busy, Receiving
    <2> QED BY <2>1 DEF Inv, Inv2, MasterInv
  <1> QED BY <1>1, InvHolds, PTL

\* Only a result that was left behind in the stream spoils the commands after it: late
\* answers are skipped.  (TCP_ExecuteCommand())
THEOREM LateAnswersAreSkipped == Spec => []LateAnswersSkipped
  <1>1. Inv => LateAnswersSkipped
    BY DEF Inv, Inv3
  <1> QED BY <1>1, InvHolds, PTL

\* A call that fails although every answer has come leaves the master interface as it was,
\* unless it is a mode whose address is refused or whose set-up fails, and then the driver
\* knows that it holds it.  (EIB7ConfigDataPacket(), EIB7SelectMode())
THEOREM RefusalsRelease == Spec => RefusalReleases
  <1> DEFINE Releases ==
        \A t \in Threads :
           pc[t] # "idle" /\ pc'[t] = "idle" /\ error'[t] # "NoError" /\ lost' = {}
              => (connected /\ owner = "us" =>
                    \/ was_master[t]
                    \/ master /\ (stage[t] = "setip" \/ error'[t] = "SetUpFailed"))
  <1>1. Inv /\ [Next]_vars => Releases
    <2> SUFFICES ASSUME Inv, [Next]_vars, NEW t \in Threads, pc[t] # "idle", pc'[t] = "idle",
                        error'[t] # "NoError", lost' = {}, connected, owner = "us"
                 PROVE  \/ was_master[t]
                        \/ master /\ (stage[t] = "setip" \/ error'[t] = "SetUpFailed")
      OBVIOUS
    <2> USE DEF Inv
    <2>1. PICK e \in Errors : Ends(t, e) /\ HowEnds(t, e)
      <3>1. ASSUME NEW s \in Threads, Step(s) \/ \E c \in Calls : Call(s, c)
            PROVE  s = t /\ EndStep(t)
        <4>1. CASE Send(s) \/ QuietStep(s)
          BY <4>1, Types DEF Send, QuietStep, Lock, NoReceiver, JoinReceiver, Joined, Call,
             FirstPlace
        <4>2. CASE ReceiveHeader(s) \/ ReceiveResult(s) \/ ReceiveOlder(s)
          BY <4>2, Types DEF ReceiveHeader, ReceiveResult, ReceiveOlder
        <4>3. CASE EndStep(s)
          <5>1. PICK e \in Errors : Ends(s, e)
            BY <4>3, EndsFacts
          <5>2. \E p \in {"idle", "send", "receiver"} : pc' = [pc EXCEPT ![s] = p]
            BY <5>1 DEF Ends, Moves
          <5>3. s = t
            BY <5>2, Types
          <5> QED BY <4>3, <5>3
        <4> QED BY <3>1, <4>1, <4>2, <4>3 DEF Step, QuietStep, EndStep
      <3>2. ~(Execute \/ Arrive \/ Disconnect \/ OtherClient \/ UNCHANGED vars)
        BY DEF Execute, Arrive, Disconnect, OtherClient, vars, caller
      <3>3. EndStep(t)
        BY <3>1, <3>2 DEF Next
      <3> QED BY <3>3, EndsFacts
    <2>2. /\ CallInv /\ pc[t] \in Busy /\ lost = {}
          /\ \A s \in Threads : pc[s] \in Busy => s = t
      <3>1. CallInv /\ pc[t] \in Busy /\ lost = {}
        BY <2>1 DEF Ends, Inv1
      <3> QED BY <3>1, RequestFacts
    <2>3. PICK x \in Errors : Moves(t, e, x)
      BY <2>1 DEF Ends
    <2>4. /\ stage[t] = "request" => e # "NoError"
          /\ stage[t] \in {"command", "softrt"} => KeepsMasterInterface(t, e) \/ x = "SetUpFailed"
          /\ x = (IF stage[t] = "release" THEN error[t] ELSE e) \/ x = "SetUpFailed"
          /\ error'[t] = x
      BY <2>3, Types DEF Moves
    <2>5. stage[t] \in {"request", "setip", "command", "softrt", "release"}
      BY <2>2, Types DEF CallInv
    <2>6. stage[t] # "request" => master
      <3>1. \A s \in Threads : Receiving(s) => s = t
        BY <2>2 DEF Receiving, Busy
      <3> QED BY <2>2, <3>1 DEF Inv2, MasterInv
    <2>7. ASSUME stage[t] \in {"request", "release"} PROVE FALSE
      <3>1. /\ pc[t] = "decide" /\ buffer[t][3] = id[t] /\ Result(t) # "InvalidResponse"
            /\ e = Result(t)
        BY <2>1, <2>7 DEF HowEnds
      <3>2. /\ buffer[t][1] \in {OkCode(Request(t))} \cup Refusals
            /\ OkCode(Request(t)) \in -7 .. -1
            /\ Result(t) = "NoError" <=>
                  buffer[t][1] = OkCode(Request(t)) /\ Granted(buffer[t][1], buffer[t][4])
        BY <2>2, <3>1, RequestFacts, ResultFacts
      <3>3. buffer[t][1] < 0
        BY <3>2 DEF Refusals, FuncNotSuppCode, AccNotAllowedCode
      <3>4. Fits(t, buffer[t][1], buffer[t][4])
        BY <3>1, <3>3 DEF Inv2, BufferInv
      <3>5. Granted(buffer[t][1], buffer[t][4]) => buffer[t][1] = OkCode(Request(t))
        BY <3>2 DEF Granted
      <3>6. stage[t] = "request" => ~Granted(buffer[t][1], buffer[t][4])
        BY <2>4, <3>1, <3>2, <3>5
      <3> QED BY <2>2, <2>6, <2>7, <3>4, <3>6 DEF Fits
    <2>8. CASE stage[t] = "setip" \/ x = "SetUpFailed"
      BY <2>4, <2>5, <2>6, <2>7, <2>8
    <2>9. CASE stage[t] \in {"command", "softrt"} /\ x # "SetUpFailed"
      <3>1. e # "NoError"
        BY <2>4, <2>9
      <3>2. was_master[t] \/ call[t] = "test"
        BY <2>4, <2>9, <3>1 DEF KeepsMasterInterface
      <3>3. CASE call[t] = "test"
        BY <2>2, <2>6, <2>9, <3>3 DEF CallInv
      <3> QED BY <3>2, <3>3
    <2> QED BY <2>5, <2>7, <2>8, <2>9
  <1>2. Spec => [][Releases]_vars
    BY <1>1, InvHolds, PTL DEF Spec
  <1> QED BY <1>2 DEF RefusalReleases
=============================================================================
