----------------------- MODULE LaserMessaging_proofs -----------------------
(***************************************************************************)
(* IInv is inductive, and from it: type correctness, no acknowledged event *)
(* is lost, and the text file implements the abstract EventLog.  A lemma   *)
(* per part of IInv splits on the actions of Next; the action that bears   *)
(* on the part has steps of its own.  ConstantsAssumption is all that is   *)
(* assumed of the constants.                                               *)
(***************************************************************************)
EXTENDS LaserMessagingInv, TLAPS

(* unpack() of an encoder event replaces the record's trigger only.         *)
LEMMA MergeTrig ==
    ASSUME NEW d \in Record, NEW v
    PROVE  [d EXCEPT !.trig = v] = [step |-> d.step, trig |-> v]
BY DEF Record

(* unpack() of run control's data replaces the record's step only.          *)
LEMMA MergeStep ==
    ASSUME NEW d \in Record, NEW v
    PROVE  [d EXCEPT !.step = v] = [step |-> v, trig |-> d.trig]
BY DEF Record

(* writeTxt() adds the trigger of the record to those in the file.          *)
LEMMA RecordedAppend ==
    ASSUME txt \in Seq(Record), data \in Record, txt' = Append(txt, data)
    PROVE  Recorded' = Recorded \cup {data.trig}
BY DEF Recorded

(* The triggers and steps of the file's lines are numbers.                  *)
LEMMA TxtType ==
    ASSUME ConstantsAssumption, txt \in Seq(Record)
    PROVE  /\ \A v \in Recorded : v \in Int
           /\ \A i \in DOMAIN txt : txt[i].step \in Int
<1>1. \A i \in DOMAIN txt : txt[i] \in Record
  OBVIOUS
<1>2. \A r \in Record : r.step \in Int /\ r.trig \in Int
  BY DEF Record, Steps, Triggers, Unset, ConstantsAssumption
<1> QED BY <1>1, <1>2 DEF Recorded

(* Every step keeps the handshake invariant: a client's first message is    *)
(* its hello, counted once, and its data follows the ack of that hello.     *)
LEMMA HelloStep == IInv /\ [Next]_vars => HelloInv'
<1> SUFFICES ASSUME IInv, [Next]_vars PROVE HelloInv'
  OBVIOUS
<1> USE DEF IInv, HelloInv, TypeOK, Greeted, Heard, Sent, Received, Ready, Clients,
    ID_RUNCONTROL, ID_ENCODER, Hello, Data, Unset, Places, vars, rcVars, encVars, eibVars,
    netVars, asmVars, logVars
<1>1. CASE RcSendHello BY <1>1 DEF RcSendHello, Request, RcInv
<1>2. CASE RcHelloAcked BY <1>2 DEF RcHelloAcked, RecvAck, RcInv
<1>3. CASE RcStartEncoder BY <1>3 DEF RcStartEncoder
<1>4. CASE RcSendData BY <1>4 DEF RcSendData, Request, RcInv
<1>5. CASE RcDataAcked BY <1>5 DEF RcDataAcked, RecvAck
<1>6. CASE RcStopAssembler BY <1>6 DEF RcStopAssembler, Signal
<1>7. CASE RcStopBroker BY <1>7 DEF RcStopBroker, Signal
<1>8. CASE RcStopEncoder BY <1>8 DEF RcStopEncoder, Signal
<1>9. CASE RcAbort BY <1>9 DEF RcAbort, PortsClosed, RcRunning
<1>10. CASE CtrlC BY <1>10 DEF CtrlC, Signal, PortsOpen, PortsClosed, RcRunning
<1>11. CASE EibTrigger BY <1>11 DEF EibTrigger, FifoFull
<1>12. CASE EncSendHello BY <1>12 DEF EncSendHello, Request, EncInv
<1>13. CASE EncHelloAcked BY <1>13 DEF EncHelloAcked, RecvAck
<1>14. CASE EncConfigure BY <1>14 DEF EncConfigure
<1>15. CASE EncLeaveLoop BY <1>15 DEF EncLeaveLoop
<1>16. CASE EncReadOverflow BY <1>16 DEF EncReadOverflow
<1>17. CASE EncClearFIFO BY <1>17 DEF EncClearFIFO
<1>18. CASE EncReadEvent BY <1>18 DEF EncReadEvent
<1>19. CASE EncSendEvent BY <1>19 DEF EncSendEvent, Request, EncInv
<1>20. CASE EncEventAcked BY <1>20 DEF EncEventAcked, RecvAck
<1>21. CASE EncCheckError BY <1>21 DEF EncCheckError
<1>22. CASE EncSigint BY <1>22 DEF EncSigint
<1>23. CASE EncClose BY <1>23 DEF EncClose
<1>24. CASE BrokerSigint BY <1>24 DEF BrokerSigint
<1>25. CASE AsmUnpackHello BY <1>25 DEF AsmUnpackHello
<1>26. CASE AsmUnpackData BY <1>26 DEF AsmUnpackData
<1>27. CASE AsmSendServer BY <1>27 DEF AsmSendServer
<1>28. CASE AsmWriteTxt BY <1>28 DEF AsmWriteTxt
<1>29. CASE AsmAccept BY <1>29 DEF AsmAccept
<1>30. CASE AsmHelloTimeout BY <1>30 DEF AsmHelloTimeout
<1>31. CASE AsmRaise BY <1>31 DEF AsmRaise
<1>32. CASE AsmSigint BY <1>32 DEF AsmSigint
<1>33. CASE DaqDisconnects BY <1>33 DEF DaqDisconnects
<1>34. ASSUME NEW p \in Clients, BrokerForward(p) PROVE HelloInv' BY <1>34 DEF BrokerForward
<1>35. ASSUME NEW p \in Clients, BrokerReply(p) PROVE HelloInv' BY <1>35 DEF BrokerReply
<1>36. ASSUME NEW p \in Clients, AsmRecv(p) PROVE HelloInv' BY <1>36 DEF AsmRecv
<1>37. CASE UNCHANGED vars BY <1>37
<1> QED BY <1>1, <1>2, <1>3, <1>4, <1>5, <1>6, <1>7, <1>8, <1>9, <1>10, <1>11, <1>12, <1>13,
  <1>14, <1>15, <1>16, <1>17, <1>18, <1>19, <1>20, <1>21, <1>22, <1>23, <1>24, <1>25, <1>26,
  <1>27, <1>28, <1>29, <1>30, <1>31, <1>32, <1>33, <1>34, <1>35, <1>36, <1>37 DEF Next,
  RcStep, EncStep, AsmStep

(* Every step keeps run control's invariant: the step it announces is the    *)
(* one its number of sends says, and it starts the encoder after its hello. *)
LEMMA RcInvStep == IInv /\ [Next]_vars => RcInv'
<1> SUFFICES ASSUME IInv, [Next]_vars PROVE RcInv'
  OBVIOUS
<1> USE ConstantsAssumption DEF IInv, RcInv, TypeOK, HelloInv, Greeted, Heard, Received,
    Sent, Ready, LastSend, RcRunning, RcEnded, RcStates, Steps, Clients, ID_RUNCONTROL,
    ID_ENCODER, Hello, Data, Unset, Places, vars, rcVars, encVars, eibVars, netVars,
    asmVars, logVars
<1>1. CASE RcSendHello BY <1>1 DEF RcSendHello, Request
<1>2. CASE RcHelloAcked BY <1>2 DEF RcHelloAcked, RecvAck
<1>3. CASE RcStartEncoder BY <1>3 DEF RcStartEncoder
<1>4. CASE RcSendData BY <1>4 DEF RcSendData, Request
<1>5. CASE RcDataAcked BY <1>5 DEF RcDataAcked, RecvAck
<1>6. CASE RcStopAssembler BY <1>6 DEF RcStopAssembler, Signal
<1>7. CASE RcStopBroker BY <1>7 DEF RcStopBroker, Signal
<1>8. CASE RcStopEncoder BY <1>8 DEF RcStopEncoder, Signal
<1>9. CASE RcAbort BY <1>9 DEF RcAbort, PortsClosed, RcRunning
<1>10. CASE CtrlC BY <1>10 DEF CtrlC, Signal, PortsOpen, PortsClosed, RcRunning
<1>11. CASE EibTrigger BY <1>11 DEF EibTrigger, FifoFull
<1>12. CASE EncSendHello BY <1>12 DEF EncSendHello, Request
<1>13. CASE EncHelloAcked BY <1>13 DEF EncHelloAcked, RecvAck
<1>14. CASE EncConfigure BY <1>14 DEF EncConfigure
<1>15. CASE EncLeaveLoop BY <1>15 DEF EncLeaveLoop
<1>16. CASE EncReadOverflow BY <1>16 DEF EncReadOverflow
<1>17. CASE EncClearFIFO BY <1>17 DEF EncClearFIFO
<1>18. CASE EncReadEvent BY <1>18 DEF EncReadEvent
<1>19. CASE EncSendEvent BY <1>19 DEF EncSendEvent, Request
<1>20. CASE EncEventAcked BY <1>20 DEF EncEventAcked, RecvAck
<1>21. CASE EncCheckError BY <1>21 DEF EncCheckError
<1>22. CASE EncSigint BY <1>22 DEF EncSigint
<1>23. CASE EncClose BY <1>23 DEF EncClose
<1>24. CASE BrokerSigint BY <1>24 DEF BrokerSigint
<1>25. CASE AsmUnpackHello BY <1>25 DEF AsmUnpackHello
<1>26. CASE AsmUnpackData BY <1>26 DEF AsmUnpackData
<1>27. CASE AsmSendServer BY <1>27 DEF AsmSendServer
<1>28. CASE AsmWriteTxt BY <1>28 DEF AsmWriteTxt
<1>29. CASE AsmAccept BY <1>29 DEF AsmAccept
<1>30. CASE AsmHelloTimeout BY <1>30 DEF AsmHelloTimeout
<1>31. CASE AsmRaise BY <1>31 DEF AsmRaise
<1>32. CASE AsmSigint BY <1>32 DEF AsmSigint
<1>33. CASE DaqDisconnects BY <1>33 DEF DaqDisconnects
<1>34. ASSUME NEW p \in Clients, BrokerForward(p) PROVE RcInv' BY <1>34 DEF BrokerForward
<1>35. ASSUME NEW p \in Clients, BrokerReply(p) PROVE RcInv' BY <1>35 DEF BrokerReply
<1>36. ASSUME NEW p \in Clients, AsmRecv(p) PROVE RcInv' BY <1>36 DEF AsmRecv, EncInv
<1>37. CASE UNCHANGED vars BY <1>37
<1> QED BY <1>1, <1>2, <1>3, <1>4, <1>5, <1>6, <1>7, <1>8, <1>9, <1>10, <1>11, <1>12, <1>13,
  <1>14, <1>15, <1>16, <1>17, <1>18, <1>19, <1>20, <1>21, <1>22, <1>23, <1>24, <1>25, <1>26,
  <1>27, <1>28, <1>29, <1>30, <1>31, <1>32, <1>33, <1>34, <1>35, <1>36, <1>37 DEF Next,
  RcStep, EncStep, AsmStep

(* Every step keeps the encoder's invariant: it reads and sends events only *)
(* when the assembler has both hellos, so none is taken for a hello.        *)
LEMMA EncInvStep == IInv /\ [Next]_vars => EncInv'
<1> SUFFICES ASSUME IInv, [Next]_vars PROVE EncInv'
  OBVIOUS
<1> USE DEF IInv, EncInv, TypeOK, HelloInv, RcInv, Greeted, Heard, Received, Sent, Ready,
    EncStates, EncLoopStates, Clients, ID_RUNCONTROL, ID_ENCODER, Hello, Data, Unset,
    Places, vars, rcVars, encVars, eibVars, netVars, asmVars, logVars
<1>1. CASE RcSendHello BY <1>1 DEF RcSendHello, Request
<1>2. CASE RcHelloAcked BY <1>2 DEF RcHelloAcked, RecvAck
<1>3. CASE RcStartEncoder BY <1>3 DEF RcStartEncoder
<1>4. CASE RcSendData BY <1>4 DEF RcSendData, Request
<1>5. CASE RcDataAcked BY <1>5 DEF RcDataAcked, RecvAck
<1>6. CASE RcStopAssembler BY <1>6 DEF RcStopAssembler, Signal
<1>7. CASE RcStopBroker BY <1>7 DEF RcStopBroker, Signal
<1>8. CASE RcStopEncoder BY <1>8 DEF RcStopEncoder, Signal
<1>9. CASE RcAbort BY <1>9 DEF RcAbort, PortsClosed, RcRunning
<1>10. CASE CtrlC BY <1>10 DEF CtrlC, Signal, PortsOpen, PortsClosed, RcRunning
<1>11. CASE EibTrigger BY <1>11 DEF EibTrigger, FifoFull
<1>12. CASE EncSendHello BY <1>12 DEF EncSendHello, Request
<1>13. CASE EncHelloAcked BY <1>13 DEF EncHelloAcked, RecvAck
<1>14. CASE EncConfigure BY <1>14 DEF EncConfigure
<1>15. CASE EncLeaveLoop BY <1>15 DEF EncLeaveLoop
<1>16. CASE EncReadOverflow BY <1>16 DEF EncReadOverflow
<1>17. CASE EncClearFIFO BY <1>17 DEF EncClearFIFO
<1>18. CASE EncReadEvent BY <1>18 DEF EncReadEvent
<1>19. CASE EncSendEvent BY <1>19 DEF EncSendEvent, Request
<1>20. CASE EncEventAcked BY <1>20 DEF EncEventAcked, RecvAck
<1>21. CASE EncCheckError BY <1>21 DEF EncCheckError
<1>22. CASE EncSigint BY <1>22 DEF EncSigint
<1>23. CASE EncClose BY <1>23 DEF EncClose
<1>24. CASE BrokerSigint BY <1>24 DEF BrokerSigint
<1>25. CASE AsmUnpackHello BY <1>25 DEF AsmUnpackHello
<1>26. CASE AsmUnpackData BY <1>26 DEF AsmUnpackData
<1>27. CASE AsmSendServer BY <1>27 DEF AsmSendServer
<1>28. CASE AsmWriteTxt BY <1>28 DEF AsmWriteTxt
<1>29. CASE AsmAccept BY <1>29 DEF AsmAccept
<1>30. CASE AsmHelloTimeout BY <1>30 DEF AsmHelloTimeout
<1>31. CASE AsmRaise BY <1>31 DEF AsmRaise
<1>32. CASE AsmSigint BY <1>32 DEF AsmSigint
<1>33. CASE DaqDisconnects BY <1>33 DEF DaqDisconnects
<1>34. ASSUME NEW p \in Clients, BrokerForward(p) PROVE EncInv' BY <1>34 DEF BrokerForward
<1>35. ASSUME NEW p \in Clients, BrokerReply(p) PROVE EncInv' BY <1>35 DEF BrokerReply
<1>36. ASSUME NEW p \in Clients, AsmRecv(p) PROVE EncInv' BY <1>36 DEF AsmRecv
<1>37. CASE UNCHANGED vars BY <1>37
<1> QED BY <1>1, <1>2, <1>3, <1>4, <1>5, <1>6, <1>7, <1>8, <1>9, <1>10, <1>11, <1>12, <1>13,
  <1>14, <1>15, <1>16, <1>17, <1>18, <1>19, <1>20, <1>21, <1>22, <1>23, <1>24, <1>25, <1>26,
  <1>27, <1>28, <1>29, <1>30, <1>31, <1>32, <1>33, <1>34, <1>35, <1>36, <1>37 DEF Next,
  RcStep, EncStep, AsmStep

(* Every step keeps the order of the triggers: an event on its way to the    *)
(* assembler is later than every event already in the text file.            *)
LEMMA EventStep == IInv /\ [Next]_vars => EventInv'
<1> SUFFICES ASSUME IInv, [Next]_vars PROVE EventInv'
  OBVIOUS
<1> USE ConstantsAssumption DEF IInv, EventInv, TypeOK, HelloInv, EncInv, AsmInv, Sent,
    Received, Recorded, Triggers, EncStates, EncLoopStates, Clients, ID_RUNCONTROL,
    ID_ENCODER, Hello, Data, Unset, Places, vars, rcVars, encVars, eibVars, netVars,
    asmVars, logVars
<1>1. CASE RcSendHello BY <1>1 DEF RcSendHello, Request
<1>2. CASE RcHelloAcked BY <1>2 DEF RcHelloAcked, RecvAck
<1>3. CASE RcStartEncoder BY <1>3 DEF RcStartEncoder
<1>4. CASE RcSendData BY <1>4 DEF RcSendData, Request
<1>5. CASE RcDataAcked BY <1>5 DEF RcDataAcked, RecvAck
<1>6. CASE RcStopAssembler BY <1>6 DEF RcStopAssembler, Signal
<1>7. CASE RcStopBroker BY <1>7 DEF RcStopBroker, Signal
<1>8. CASE RcStopEncoder BY <1>8 DEF RcStopEncoder, Signal
<1>9. CASE RcAbort BY <1>9 DEF RcAbort, PortsClosed, RcRunning
<1>10. CASE CtrlC BY <1>10 DEF CtrlC, Signal, PortsOpen, PortsClosed, RcRunning
<1>11. CASE EibTrigger BY <1>11 DEF EibTrigger, FifoFull
<1>12. CASE EncSendHello BY <1>12 DEF EncSendHello, Request
<1>13. CASE EncHelloAcked BY <1>13 DEF EncHelloAcked, RecvAck
<1>14. CASE EncConfigure BY <1>14 DEF EncConfigure
<1>15. CASE EncLeaveLoop BY <1>15 DEF EncLeaveLoop
<1>16. CASE EncReadOverflow BY <1>16 DEF EncReadOverflow
<1>17. CASE EncClearFIFO BY <1>17 DEF EncClearFIFO
<1>18. CASE EncReadEvent BY <1>18 DEF EncReadEvent
<1>19. CASE EncSendEvent
  <2>1. /\ msg'[ID_ENCODER] = [state |-> Data, val |-> event]
        /\ event \in Triggers /\ msg[ID_ENCODER].val < event
    BY <1>19 DEF EncSendEvent, Request
  <2>2. \A v \in Recorded : v < event /\ v <= event
    <3>1. \A v \in Recorded : v <= msg[ID_ENCODER].val /\ v \in Int
      BY TxtType
    <3>2. msg[ID_ENCODER].val \in Int /\ event \in Int
      OBVIOUS
    <3> HIDE DEF Recorded, EventInv, HelloInv, TypeOK, IInv
    <3> QED BY <2>1, <3>1, <3>2
  <2>3. ASSUME hand.from = ID_ENCODER, hand.state = Data
        PROVE  hand.val < event /\ hand.val <= event /\ hand.val \in Triggers
    <3>1. hand.val <= msg[ID_ENCODER].val /\ hand.val \in Triggers
      BY <2>3
    <3>2. msg[ID_ENCODER].val \in Int /\ event \in Int
      OBVIOUS
    <3> QED BY <2>1, <3>1, <3>2
  <2>4. UNCHANGED <<event, lo, hand, txt>> /\ enc' = "wait"
    BY <1>19 DEF EncSendEvent
  <2>5. Recorded' = Recorded
    BY <2>4
  <2>6. event <= lo /\ event >= 1 /\ event \in Int
    BY <2>1
  <2>7. msg'[ID_ENCODER].val = event /\ msg'[ID_ENCODER].state = Data /\ event <= event
    BY <2>1, <2>6
  <2> HIDE DEF Recorded, HelloInv, TypeOK, IInv, EncInv, AsmInv, Triggers, EncStates
  <2> QED BY <2>1, <2>2, <2>3, <2>4, <2>5, <2>6, <2>7
<1>20. CASE EncEventAcked BY <1>20 DEF EncEventAcked, RecvAck
<1>21. CASE EncCheckError BY <1>21 DEF EncCheckError
<1>22. CASE EncSigint BY <1>22 DEF EncSigint
<1>23. CASE EncClose BY <1>23 DEF EncClose
<1>24. CASE BrokerSigint BY <1>24 DEF BrokerSigint
<1>25. CASE AsmUnpackHello BY <1>25 DEF AsmUnpackHello
<1>26. CASE AsmUnpackData BY <1>26 DEF AsmUnpackData
<1>27. CASE AsmSendServer BY <1>27 DEF AsmSendServer
<1>28. CASE AsmWriteTxt BY <1>28, SMTT(30) DEF AsmWriteTxt
<1>29. CASE AsmAccept BY <1>29 DEF AsmAccept
<1>30. CASE AsmHelloTimeout BY <1>30 DEF AsmHelloTimeout
<1>31. CASE AsmRaise BY <1>31 DEF AsmRaise
<1>32. CASE AsmSigint BY <1>32 DEF AsmSigint
<1>33. CASE DaqDisconnects BY <1>33 DEF DaqDisconnects
<1>34. ASSUME NEW p \in Clients, BrokerForward(p) PROVE EventInv' BY <1>34 DEF BrokerForward
<1>35. ASSUME NEW p \in Clients, BrokerReply(p) PROVE EventInv' BY <1>35 DEF BrokerReply
<1>36. ASSUME NEW p \in Clients, AsmRecv(p) PROVE EventInv' BY <1>36 DEF AsmRecv
<1>37. CASE UNCHANGED vars BY <1>37
<1> QED BY <1>1, <1>2, <1>3, <1>4, <1>5, <1>6, <1>7, <1>8, <1>9, <1>10, <1>11, <1>12, <1>13,
  <1>14, <1>15, <1>16, <1>17, <1>18, <1>19, <1>20, <1>21, <1>22, <1>23, <1>24, <1>25, <1>26,
  <1>27, <1>28, <1>29, <1>30, <1>31, <1>32, <1>33, <1>34, <1>35, <1>36, <1>37 DEF Next,
  RcStep, EncStep, AsmStep

(* Every step keeps the assembler's invariant: the record it writes carries  *)
(* the trigger of the event it was handed, which the file does not have yet. *)
LEMMA AsmStepInv == IInv /\ [Next]_vars => AsmInv'
<1> SUFFICES ASSUME IInv, [Next]_vars PROVE AsmInv'
  OBVIOUS
<1> USE DEF IInv, AsmInv, TypeOK, HelloInv, EncInv, EventInv, Greeted, Heard, Sent,
    Received, Ready, Recorded, Triggers, AsmStates, Clients, ID_RUNCONTROL, ID_ENCODER,
    Hello, Data, Unset, Places, vars, rcVars, encVars, eibVars, netVars, asmVars, logVars
<1>1. CASE RcSendHello BY <1>1 DEF RcSendHello, Request
<1>2. CASE RcHelloAcked BY <1>2 DEF RcHelloAcked, RecvAck
<1>3. CASE RcStartEncoder BY <1>3 DEF RcStartEncoder
<1>4. CASE RcSendData BY <1>4 DEF RcSendData, Request
<1>5. CASE RcDataAcked BY <1>5 DEF RcDataAcked, RecvAck
<1>6. CASE RcStopAssembler BY <1>6 DEF RcStopAssembler, Signal
<1>7. CASE RcStopBroker BY <1>7 DEF RcStopBroker, Signal
<1>8. CASE RcStopEncoder BY <1>8 DEF RcStopEncoder, Signal
<1>9. CASE RcAbort BY <1>9 DEF RcAbort, PortsClosed, RcRunning
<1>10. CASE CtrlC BY <1>10 DEF CtrlC, Signal, PortsOpen, PortsClosed, RcRunning
<1>11. CASE EibTrigger BY <1>11 DEF EibTrigger, FifoFull
<1>12. CASE EncSendHello BY <1>12 DEF EncSendHello, Request
<1>13. CASE EncHelloAcked BY <1>13 DEF EncHelloAcked, RecvAck
<1>14. CASE EncConfigure BY <1>14 DEF EncConfigure
<1>15. CASE EncLeaveLoop BY <1>15 DEF EncLeaveLoop
<1>16. CASE EncReadOverflow BY <1>16 DEF EncReadOverflow
<1>17. CASE EncClearFIFO BY <1>17 DEF EncClearFIFO
<1>18. CASE EncReadEvent BY <1>18 DEF EncReadEvent
<1>19. CASE EncSendEvent BY <1>19 DEF EncSendEvent, Request
<1>20. CASE EncEventAcked BY <1>20 DEF EncEventAcked, RecvAck
<1>21. CASE EncCheckError BY <1>21 DEF EncCheckError
<1>22. CASE EncSigint BY <1>22 DEF EncSigint
<1>23. CASE EncClose BY <1>23 DEF EncClose
<1>24. CASE BrokerSigint BY <1>24 DEF BrokerSigint
<1>25. CASE AsmUnpackHello BY <1>25 DEF AsmUnpackHello
<1>26. CASE AsmUnpackData
  <2>1. CASE hand.from = ID_ENCODER
    <3>1. data'.trig = hand.val
      BY <1>26, <2>1, MergeTrig DEF AsmUnpackData
    <3> QED BY <1>26, <2>1, <3>1 DEF AsmUnpackData
  <2>2. CASE hand.from # ID_ENCODER
    BY <1>26, <2>2 DEF AsmUnpackData
  <2> QED BY <2>1, <2>2
<1>27. CASE AsmSendServer BY <1>27 DEF AsmSendServer
<1>28. CASE AsmWriteTxt BY <1>28 DEF AsmWriteTxt
<1>29. CASE AsmAccept BY <1>29 DEF AsmAccept
<1>30. CASE AsmHelloTimeout BY <1>30 DEF AsmHelloTimeout
<1>31. CASE AsmRaise BY <1>31 DEF AsmRaise
<1>32. CASE AsmSigint BY <1>32 DEF AsmSigint
<1>33. CASE DaqDisconnects BY <1>33 DEF DaqDisconnects
<1>34. ASSUME NEW p \in Clients, BrokerForward(p) PROVE AsmInv' BY <1>34 DEF BrokerForward
<1>35. ASSUME NEW p \in Clients, BrokerReply(p) PROVE AsmInv' BY <1>35 DEF BrokerReply
<1>36. ASSUME NEW p \in Clients, AsmRecv(p) PROVE AsmInv' BY <1>36, ZenonT(30) DEF AsmRecv
<1>37. CASE UNCHANGED vars BY <1>37
<1> QED BY <1>1, <1>2, <1>3, <1>4, <1>5, <1>6, <1>7, <1>8, <1>9, <1>10, <1>11, <1>12, <1>13,
  <1>14, <1>15, <1>16, <1>17, <1>18, <1>19, <1>20, <1>21, <1>22, <1>23, <1>24, <1>25, <1>26,
  <1>27, <1>28, <1>29, <1>30, <1>31, <1>32, <1>33, <1>34, <1>35, <1>36, <1>37 DEF Next,
  RcStep, EncStep, AsmStep

(* Every step keeps the order of the scan steps: those in the file grow, and  *)
(* the record is never older than the step confirmed to run control.         *)
LEMMA StepStep == IInv /\ [Next]_vars => StepInv'
<1> SUFFICES ASSUME IInv, [Next]_vars PROVE StepInv'
  OBVIOUS
<1> USE ConstantsAssumption DEF IInv, StepInv, TypeOK, RcInv, HelloInv, AsmInv, Received,
    Merged, Ready, Record, Steps, LastSend, Triggers, Clients, ID_RUNCONTROL, ID_ENCODER,
    Hello, Data, Unset, Places, vars, rcVars, encVars, eibVars, netVars, asmVars, logVars
<1>1. CASE RcSendHello BY <1>1 DEF RcSendHello, Request
<1>2. CASE RcHelloAcked BY <1>2 DEF RcHelloAcked, RecvAck
<1>3. CASE RcStartEncoder BY <1>3 DEF RcStartEncoder
<1>4. CASE RcSendData BY <1>4 DEF RcSendData, Request
<1>5. CASE RcDataAcked BY <1>5 DEF RcDataAcked, RecvAck
<1>6. CASE RcStopAssembler BY <1>6 DEF RcStopAssembler, Signal
<1>7. CASE RcStopBroker BY <1>7 DEF RcStopBroker, Signal
<1>8. CASE RcStopEncoder BY <1>8 DEF RcStopEncoder, Signal
<1>9. CASE RcAbort BY <1>9 DEF RcAbort, PortsClosed, RcRunning
<1>10. CASE CtrlC BY <1>10 DEF CtrlC, Signal, PortsOpen, PortsClosed, RcRunning
<1>11. CASE EibTrigger BY <1>11 DEF EibTrigger, FifoFull
<1>12. CASE EncSendHello BY <1>12 DEF EncSendHello, Request
<1>13. CASE EncHelloAcked BY <1>13 DEF EncHelloAcked, RecvAck
<1>14. CASE EncConfigure BY <1>14 DEF EncConfigure
<1>15. CASE EncLeaveLoop BY <1>15 DEF EncLeaveLoop
<1>16. CASE EncReadOverflow BY <1>16 DEF EncReadOverflow
<1>17. CASE EncClearFIFO BY <1>17 DEF EncClearFIFO
<1>18. CASE EncReadEvent BY <1>18 DEF EncReadEvent
<1>19. CASE EncSendEvent BY <1>19 DEF EncSendEvent, Request
<1>20. CASE EncEventAcked BY <1>20 DEF EncEventAcked, RecvAck
<1>21. CASE EncCheckError BY <1>21 DEF EncCheckError
<1>22. CASE EncSigint BY <1>22 DEF EncSigint
<1>23. CASE EncClose BY <1>23 DEF EncClose
<1>24. CASE BrokerSigint BY <1>24 DEF BrokerSigint
<1>25. CASE AsmUnpackHello BY <1>25 DEF AsmUnpackHello
<1>26. CASE AsmUnpackData
  <2>1. data'.step = IF hand.from = ID_ENCODER THEN data.step ELSE hand.val
    BY <1>26, MergeTrig, MergeStep DEF AsmUnpackData
  <2>2. /\ asm = "unpack" /\ asm' # "unpack"
        /\ UNCHANGED <<hand, alive, at, announced, confirmed, fresh, txt>>
    BY <1>26 DEF AsmUnpackData
  <2>3. hand.from = ID_RUNCONTROL => data.step <= hand.val /\ hand.val \in Unset .. announced
    BY <2>2
  <2>4. data.step <= data'.step /\ data'.step <= announced /\ data'.step \in Int
    BY <2>1, <2>3
  <2>5. \A i \in DOMAIN txt : txt[i].step <= data'.step
    <3>1. \A i \in DOMAIN txt : txt[i].step <= data.step /\ txt[i].step \in Int
      BY TxtType
    <3>2. data.step \in Int
      OBVIOUS
    <3> QED BY <2>4, <3>1, <3>2
  <2>6. Merged(confirmed)' /\ (fresh /\ Received(ID_RUNCONTROL) => Merged(announced)')
    <3>1. ASSUME NEW s \in Int, Merged(s) PROVE s <= data'.step
      <4>1. CASE s <= data.step
        BY <2>4, <4>1, SMTT(30)
      <4>2. CASE hand.from = ID_RUNCONTROL /\ s <= hand.val
        BY <2>1, <4>2
      <4> QED BY <2>2, <3>1, <4>1, <4>2
    <3> QED BY <2>2, <3>1
  <2> QED BY <2>2, <2>4, <2>5, <2>6
<1>27. CASE AsmSendServer BY <1>27 DEF AsmSendServer
<1>28. CASE AsmWriteTxt BY <1>28, SMTT(30) DEF AsmWriteTxt
<1>29. CASE AsmAccept BY <1>29 DEF AsmAccept
<1>30. CASE AsmHelloTimeout BY <1>30 DEF AsmHelloTimeout
<1>31. CASE AsmRaise BY <1>31 DEF AsmRaise
<1>32. CASE AsmSigint BY <1>32 DEF AsmSigint
<1>33. CASE DaqDisconnects BY <1>33 DEF DaqDisconnects
<1>34. ASSUME NEW p \in Clients, BrokerForward(p) PROVE StepInv' BY <1>34 DEF BrokerForward
<1>35. ASSUME NEW p \in Clients, BrokerReply(p) PROVE StepInv' BY <1>35 DEF BrokerReply
<1>36. ASSUME NEW p \in Clients, AsmRecv(p) PROVE StepInv' BY <1>36 DEF AsmRecv
<1>37. CASE UNCHANGED vars BY <1>37
<1> QED BY <1>1, <1>2, <1>3, <1>4, <1>5, <1>6, <1>7, <1>8, <1>9, <1>10, <1>11, <1>12, <1>13,
  <1>14, <1>15, <1>16, <1>17, <1>18, <1>19, <1>20, <1>21, <1>22, <1>23, <1>24, <1>25, <1>26,
  <1>27, <1>28, <1>29, <1>30, <1>31, <1>32, <1>33, <1>34, <1>35, <1>36, <1>37 DEF Next,
  RcStep, EncStep, AsmStep

(* Every step keeps acknowledged events safe: each is in the file or in the  *)
(* hands of the assembler, although the ack leaves before the line is        *)
(* written.                                                                  *)
LEMMA AckStep == IInv /\ [Next]_vars => AckInv'
<1> SUFFICES ASSUME IInv, [Next]_vars PROVE AckInv'
  OBVIOUS
<1> USE DEF IInv, AckInv, TypeOK, AsmInv, HelloInv, EventInv, Received, Holds, Recorded,
    Ready, AsmStates, Triggers, Clients, ID_RUNCONTROL, ID_ENCODER, Hello, Data, Unset,
    Places, vars, rcVars, encVars, eibVars, netVars, asmVars, logVars
<1>1. CASE RcSendHello BY <1>1 DEF RcSendHello, Request
<1>2. CASE RcHelloAcked BY <1>2 DEF RcHelloAcked, RecvAck
<1>3. CASE RcStartEncoder BY <1>3 DEF RcStartEncoder
<1>4. CASE RcSendData BY <1>4 DEF RcSendData, Request
<1>5. CASE RcDataAcked BY <1>5 DEF RcDataAcked, RecvAck
<1>6. CASE RcStopAssembler BY <1>6 DEF RcStopAssembler, Signal
<1>7. CASE RcStopBroker BY <1>7 DEF RcStopBroker, Signal
<1>8. CASE RcStopEncoder BY <1>8 DEF RcStopEncoder, Signal
<1>9. CASE RcAbort BY <1>9 DEF RcAbort, PortsClosed, RcRunning
<1>10. CASE CtrlC BY <1>10 DEF CtrlC, Signal, PortsOpen, PortsClosed, RcRunning
<1>11. CASE EibTrigger BY <1>11 DEF EibTrigger, FifoFull
<1>12. CASE EncSendHello BY <1>12 DEF EncSendHello, Request
<1>13. CASE EncHelloAcked BY <1>13 DEF EncHelloAcked, RecvAck
<1>14. CASE EncConfigure BY <1>14 DEF EncConfigure
<1>15. CASE EncLeaveLoop BY <1>15 DEF EncLeaveLoop
<1>16. CASE EncReadOverflow BY <1>16 DEF EncReadOverflow
<1>17. CASE EncClearFIFO BY <1>17 DEF EncClearFIFO
<1>18. CASE EncReadEvent BY <1>18 DEF EncReadEvent
<1>19. CASE EncSendEvent BY <1>19 DEF EncSendEvent, Request
<1>20. CASE EncEventAcked BY <1>20 DEF EncEventAcked, RecvAck
<1>21. CASE EncCheckError BY <1>21 DEF EncCheckError
<1>22. CASE EncSigint BY <1>22 DEF EncSigint
<1>23. CASE EncClose BY <1>23 DEF EncClose
<1>24. CASE BrokerSigint BY <1>24 DEF BrokerSigint
<1>25. CASE AsmUnpackHello BY <1>25, SMTT(30) DEF AsmUnpackHello
<1>26. CASE AsmUnpackData BY <1>26, SMTT(30) DEF AsmUnpackData
<1>27. CASE AsmSendServer BY <1>27 DEF AsmSendServer
<1>28. CASE AsmWriteTxt
  <2>1. Recorded' = Recorded \cup {hand.val}
    BY <1>28, RecordedAppend DEF AsmWriteTxt
  <2> QED BY <1>28, <2>1 DEF AsmWriteTxt
<1>29. CASE AsmAccept BY <1>29 DEF AsmAccept
<1>30. CASE AsmHelloTimeout BY <1>30 DEF AsmHelloTimeout
<1>31. CASE AsmRaise BY <1>31 DEF AsmRaise
<1>32. CASE AsmSigint BY <1>32 DEF AsmSigint
<1>33. CASE DaqDisconnects BY <1>33 DEF DaqDisconnects
<1>34. ASSUME NEW p \in Clients, BrokerForward(p) PROVE AckInv' BY <1>34 DEF BrokerForward
<1>35. ASSUME NEW p \in Clients, BrokerReply(p) PROVE AckInv' BY <1>35 DEF BrokerReply
<1>36. ASSUME NEW p \in Clients, AsmRecv(p) PROVE AckInv' BY <1>36 DEF AsmRecv
<1>37. CASE UNCHANGED vars BY <1>37
<1> QED BY <1>1, <1>2, <1>3, <1>4, <1>5, <1>6, <1>7, <1>8, <1>9, <1>10, <1>11, <1>12, <1>13,
  <1>14, <1>15, <1>16, <1>17, <1>18, <1>19, <1>20, <1>21, <1>22, <1>23, <1>24, <1>25, <1>26,
  <1>27, <1>28, <1>29, <1>30, <1>31, <1>32, <1>33, <1>34, <1>35, <1>36, <1>37 DEF Next,
  RcStep, EncStep, AsmStep

(* Every step keeps the types.                                              *)
LEMMA TypeStep == IInv /\ [Next]_vars => TypeOK'
<1> SUFFICES ASSUME IInv, [Next]_vars PROVE TypeOK'
  OBVIOUS
<1> USE DEF IInv, TypeOK, vars, rcVars, encVars, eibVars, netVars, asmVars, logVars
<1>1. CASE RcSendHello BY <1>1 DEF RcSendHello, Request, RcStates, RcRunning, RcEnded,
  Clients, ID_RUNCONTROL, ID_ENCODER, Places, Hello, Data, Unset
<1>2. CASE RcHelloAcked BY <1>2 DEF RcHelloAcked, RecvAck, RcStates, RcRunning, RcEnded,
  Clients, ID_RUNCONTROL, ID_ENCODER, Places, Hello, Data, Unset
<1>3. CASE RcStartEncoder BY <1>3 DEF RcStartEncoder, RcStates, RcRunning, RcEnded,
  EncStates, EncLoopStates
<1>4. CASE RcSendData
  <2>1. announced' \in Steps
    BY <1>4, ConstantsAssumption DEF RcSendData, RcInv, LastSend, Steps
  <2>2. /\ at' \in [Clients -> Places]
        /\ msg' \in [Clients -> [state : {Hello, Data}, val : Int]]
    BY <1>4, ConstantsAssumption DEF RcSendData, Request, Clients, ID_RUNCONTROL, ID_ENCODER, Places
  <2>3. rc' \in RcStates /\ fresh' \in BOOLEAN
    BY <1>4 DEF RcSendData, RcStates, RcRunning, Ready
  <2> QED BY <1>4, <2>1, <2>2, <2>3 DEF RcSendData
<1>5. CASE RcDataAcked
  <2>1. sends' \in 0 .. LastSend + 1
    BY <1>5, ConstantsAssumption DEF RcDataAcked, RcInv, LastSend
  <2>2. rc' \in RcStates
    BY <1>5 DEF RcDataAcked, RcStates, RcRunning
  <2>3. confirmed' \in Steps \cup {Unset}
    BY <1>5 DEF RcDataAcked
  <2>4. at' \in [Clients -> Places] /\ msg' = msg
    BY <1>5 DEF RcDataAcked, RecvAck, Places
  <2> QED BY <1>5, <2>1, <2>2, <2>3, <2>4 DEF RcDataAcked
<1>6. CASE RcStopAssembler BY <1>6 DEF RcStopAssembler, Signal, RcStates, RcRunning,
  RcEnded, Processes
<1>7. CASE RcStopBroker BY <1>7 DEF RcStopBroker, Signal, RcStates, RcRunning, RcEnded,
  Processes
<1>8. CASE RcStopEncoder BY <1>8 DEF RcStopEncoder, Signal, RcStates, RcRunning, RcEnded,
  Processes
<1>9. CASE RcAbort BY <1>9 DEF RcAbort, PortsClosed, RcRunning, RcStates, RcRunning, RcEnded
<1>10. CASE CtrlC
  <2>1. rc' \in RcStates
    BY <1>10 DEF CtrlC, RcStates, RcRunning, RcEnded
  <2>2. pending' \subseteq Processes
    BY <1>10 DEF CtrlC, Signal
  <2> QED BY <1>10, <2>1, <2>2 DEF CtrlC
<1>11. CASE EibTrigger
  <2>1. trig' \in 0 .. MaxTrigger /\ lo' \in 0 .. trig' /\ trig' - lo' <= FifoSize
    BY <1>11, ConstantsAssumption DEF EibTrigger, FifoFull
  <2>2. overflow' \in BOOLEAN
    BY <1>11 DEF EibTrigger
  <2> QED BY <1>11, <2>1, <2>2 DEF EibTrigger
<1>12. CASE EncSendHello BY <1>12 DEF EncSendHello, Request, Clients, ID_RUNCONTROL,
  ID_ENCODER, Places, Hello, Data, Unset, EncStates, EncLoopStates
<1>13. CASE EncHelloAcked BY <1>13 DEF EncHelloAcked, RecvAck, Clients, ID_RUNCONTROL,
  ID_ENCODER, Places, Hello, Data, Unset, EncStates, EncLoopStates
<1>14. CASE EncConfigure BY <1>14 DEF EncConfigure, EncStates, EncLoopStates
<1>15. CASE EncLeaveLoop BY <1>15 DEF EncLeaveLoop, EncStates, EncLoopStates
<1>16. CASE EncReadOverflow BY <1>16 DEF EncReadOverflow, EncStates, EncLoopStates
<1>17. CASE EncClearFIFO
  <2>1. lo' \in 0 .. trig' /\ trig' - lo' <= FifoSize
    BY <1>17, ConstantsAssumption DEF EncClearFIFO
  <2>2. enc' \in EncStates
    BY <1>17 DEF EncClearFIFO, EncStates, EncLoopStates
  <2> QED BY <1>17, <2>1, <2>2 DEF EncClearFIFO
<1>18. CASE EncReadEvent
  <2>1. lo' \in 0 .. trig' /\ trig' - lo' <= FifoSize /\ event' \in 0 .. MaxTrigger
    BY <1>18, ConstantsAssumption DEF EncReadEvent
  <2>2. enc' \in EncStates
    BY <1>18 DEF EncReadEvent, EncStates, EncLoopStates
  <2> QED BY <1>18, <2>1, <2>2 DEF EncReadEvent
<1>19. CASE EncSendEvent BY <1>19 DEF EncSendEvent, Request, EncStates, EncLoopStates,
  Clients, ID_RUNCONTROL, ID_ENCODER, Places, EventInv, Data, Hello
<1>20. CASE EncEventAcked BY <1>20 DEF EncEventAcked, RecvAck, Clients, ID_RUNCONTROL,
  ID_ENCODER, Places, Hello, Data, Unset, EncStates, EncLoopStates, EventInv, Triggers
<1>21. CASE EncCheckError BY <1>21 DEF EncCheckError, EncStates, EncLoopStates, Clients,
  ID_RUNCONTROL, ID_ENCODER, Places
<1>22. CASE EncSigint BY <1>22, ZenonT(30) DEF EncSigint, EncStates, EncLoopStates
<1>23. CASE EncClose BY <1>23 DEF EncClose, EncStates, EncLoopStates
<1>24. CASE BrokerSigint BY <1>24 DEF BrokerSigint
<1>25. CASE AsmUnpackHello BY <1>25 DEF AsmUnpackHello, AsmStates
<1>26. CASE AsmUnpackData
  <2>1. asm' \in AsmStates
    BY <1>26 DEF AsmUnpackData, AsmStates
  <2>2. data' \in Record
    <3>1. CASE hand.from = ID_ENCODER
      <4>1. hand.val \in Triggers
        BY <1>26, <3>1 DEF AsmUnpackData, HelloInv, EventInv, Ready, Clients, Hello, Data
      <4> QED BY <1>26, <3>1, <4>1, MergeTrig DEF AsmUnpackData, Record
    <3>2. CASE hand.from # ID_ENCODER
      <4>1. hand.val \in Steps \cup {Unset}
        BY <1>26, <3>2, ConstantsAssumption, SMTT(30)
        DEF AsmUnpackData, StepInv, Clients, ID_RUNCONTROL, ID_ENCODER, Steps, Unset
      <4> QED BY <1>26, <3>2, <4>1, MergeStep DEF AsmUnpackData, Record
    <3> QED BY <3>1, <3>2
  <2> QED BY <1>26, <2>1, <2>2 DEF AsmUnpackData
<1>27. CASE AsmSendServer BY <1>27 DEF AsmSendServer, AsmStates
<1>28. CASE AsmWriteTxt BY <1>28 DEF AsmWriteTxt, AsmStates
<1>29. CASE AsmAccept BY <1>29 DEF AsmAccept, AsmStates
<1>30. CASE AsmHelloTimeout BY <1>30 DEF AsmHelloTimeout, AsmStates
<1>31. CASE AsmRaise BY <1>31 DEF AsmRaise, AsmStates
<1>32. CASE AsmSigint BY <1>32 DEF AsmSigint, AsmStates
<1>33. CASE DaqDisconnects BY <1>33 DEF DaqDisconnects
<1>34. ASSUME NEW p \in Clients, BrokerForward(p) PROVE TypeOK' BY <1>34 DEF BrokerForward,
  Places
<1>35. ASSUME NEW p \in Clients, BrokerReply(p) PROVE TypeOK' BY <1>35 DEF BrokerReply,
  Places
<1>36. ASSUME NEW p \in Clients, AsmRecv(p) PROVE TypeOK' BY <1>36 DEF AsmRecv, AsmStates,
  Places
<1>37. CASE UNCHANGED vars BY <1>37
<1> QED BY <1>1, <1>2, <1>3, <1>4, <1>5, <1>6, <1>7, <1>8, <1>9, <1>10, <1>11, <1>12, <1>13,
  <1>14, <1>15, <1>16, <1>17, <1>18, <1>19, <1>20, <1>21, <1>22, <1>23, <1>24, <1>25, <1>26,
  <1>27, <1>28, <1>29, <1>30, <1>31, <1>32, <1>33, <1>34, <1>35, <1>36, <1>37 DEF Next,
  RcStep, EncStep, AsmStep

(* Each part holds initially. *)
LEMMA InitIInv == Init => IInv
<1> SUFFICES ASSUME Init PROVE IInv
  OBVIOUS
<1> USE ConstantsAssumption DEF Init
<1> USE DEF Clients, ID_RUNCONTROL, ID_ENCODER, Hello, Data, Unset
<1>1. TypeOK
  <2>1. rc \in RcStates /\ enc \in EncStates /\ asm \in AsmStates
    BY DEF RcStates, RcRunning, EncStates, AsmStates
  <2>2. sends \in 0 .. LastSend + 1 /\ data \in Record
    BY DEF LastSend, Record
  <2>3. at \in [Clients -> Places] /\ msg \in [Clients -> [state : {Hello, Data}, val : Int]]
    BY DEF Places
  <2>4. txt \in Seq(Record) /\ stream \in Seq(Record) /\ link \in BOOLEAN
    OBVIOUS
  <2>5. event \in 0 .. MaxTrigger /\ trig \in 0 .. MaxTrigger /\ lo \in 0 .. trig /\ trig - lo <= FifoSize
    OBVIOUS
  <2>6. hand \in [from : Clients, state : {Hello, Data}, val : Int]
    OBVIOUS
  <2>7. /\ announced \in Steps \cup {Unset} /\ confirmed \in Steps \cup {Unset}
        /\ fresh \in BOOLEAN /\ stop \in BOOLEAN /\ overflow \in BOOLEAN /\ brokerUp \in BOOLEAN
        /\ acked \subseteq Triggers /\ pending \subseteq Processes /\ alive \subseteq Clients
    OBVIOUS
  <2> HIDE DEF Init, Clients
  <2> QED BY <2>1, <2>2, <2>3, <2>4, <2>5, <2>6, <2>7 DEF TypeOK
<1>2. HelloInv BY DEF HelloInv, Greeted, Heard, Sent, Received
<1>3. RcInv BY DEF RcInv, Greeted, Heard
<1>4. EncInv BY DEF EncInv, Heard
<1>5. EventInv BY DEF EventInv, Recorded, Sent
<1>6. AsmInv BY DEF AsmInv
<1>7. StepInv BY DEF StepInv, Received, Merged
<1>8. AckInv BY DEF AckInv, Received
<1> QED BY <1>1, <1>2, <1>3, <1>4, <1>5, <1>6, <1>7, <1>8 DEF IInv

(* Every reachable state of the messaging system satisfies the inductive    *)
(* invariant, whatever the length of the run and the size of the FIFO.      *)
THEOREM Invariance == Spec => []IInv
<1>1. Init => IInv
  BY InitIInv
<1>2. IInv /\ [Next]_vars => IInv'
  BY TypeStep, HelloStep, RcInvStep, EncInvStep, EventStep, AsmStepInv, StepStep, AckStep DEF IInv
<1> QED BY <1>1, <1>2, PTL DEF Spec

(* Type correctness of the five processes and the messages between them.    *)
THEOREM TypeCorrect == Spec => []TypeOK
<1>1. IInv => TypeOK
  BY DEF IInv
<1> QED BY <1>1, Invariance, PTL

(* No event that was acknowledged to the encoder is lost, except the one    *)
(* the assembler has in its hands when it stops.                            *)
THEOREM NoAckedEventLost == Spec => []AckedIsRecorded
<1>1. IInv => AckedIsRecorded
  BY DEF IInv, AckInv, Holds, AckedIsRecorded
<1> QED BY <1>1, Invariance, PTL

(* The messaging system implements the abstract event log: run control's    *)
(* sends are Announce steps, the acks of data it sent after the hellos are   *)
(* Confirm steps, and a written line is a RecordEvent step.                  *)
THEOREM ImplementsEventLog == Spec => LogIsEventLog
<1>1. Init => Log!Init
  BY DEF Init, Log!Init, Unset
<1>2. IInv /\ [Next]_vars => [Log!Next]_(Log!elVars)
  <2> SUFFICES ASSUME IInv, [Next]_vars PROVE [Log!Next]_(Log!elVars)
    OBVIOUS
  <2> USE ConstantsAssumption
      DEF Log!Next, Log!elVars, vars, rcVars, encVars, eibVars, netVars, asmVars, logVars
  <2>1. CASE RcSendData
    <3>1. announced' \in {announced, announced + 1}
      BY <2>1 DEF RcSendData, IInv, RcInv, TypeOK, LastSend
    <3>2. UNCHANGED <<confirmed, txt>>
      BY <2>1 DEF RcSendData
    <3> QED BY <3>1, <3>2 DEF Log!Announce
  <2>2. CASE RcDataAcked
    <3>1. UNCHANGED <<announced, txt>>
      BY <2>2 DEF RcDataAcked
    <3>2. confirmed' = announced \/ confirmed' = confirmed
      BY <2>2 DEF RcDataAcked
    <3> QED BY <3>1, <3>2 DEF Log!Confirm
  <2>3. CASE AsmWriteTxt
    <3>1. txt' = Append(txt, data) /\ UNCHANGED <<announced, confirmed>>
      BY <2>3 DEF AsmWriteTxt
    <3>2. data = [step |-> data.step, trig |-> data.trig] /\ data.trig \in Triggers
      BY <2>3 DEF AsmWriteTxt, IInv, AsmInv, EventInv, TypeOK, Record
    <3>3. data.step \in confirmed .. announced
      BY <2>3 DEF AsmWriteTxt, IInv, StepInv, Merged, TypeOK, Record, Steps, Unset
    <3>4. Log!Follows(data)
      <4>1. \A i \in DOMAIN txt : txt[i].trig < data.trig
        BY <2>3 DEF AsmWriteTxt, IInv, AsmInv, Recorded
      <4>2. \A i \in DOMAIN txt : txt[i].step <= data.step
        BY DEF IInv, StepInv
      <4> QED BY <4>1, <4>2 DEF Log!Follows
    <3> QED BY <3>1, <3>2, <3>3, <3>4 DEF Log!RecordEvent
  <2>4. CASE RcStep /\ ~RcSendData /\ ~RcDataAcked
    BY <2>4 DEF RcStep, RcSendHello, RcHelloAcked, RcStartEncoder, RcStopAssembler,
                RcStopBroker, RcStopEncoder
  <2>5. CASE RcAbort \/ CtrlC \/ EibTrigger \/ EncCheckError \/ EncSigint \/ EncClose
    BY <2>5 DEF RcAbort, CtrlC, EibTrigger, EncCheckError, EncSigint, EncClose
  <2>6. CASE EncStep
    BY <2>6 DEF EncStep, EncSendHello, EncHelloAcked, EncConfigure, EncLeaveLoop,
                EncReadOverflow, EncClearFIFO, EncReadEvent, EncSendEvent, EncEventAcked
  <2>7. ASSUME NEW p \in Clients, BrokerForward(p) \/ BrokerReply(p) \/ AsmRecv(p)
        PROVE  [Log!Next]_(Log!elVars)
    BY <2>7 DEF BrokerForward, BrokerReply, AsmRecv
  <2>8. CASE AsmStep /\ ~AsmWriteTxt
    BY <2>8 DEF AsmStep, AsmUnpackHello, AsmUnpackData, AsmSendServer
  <2>9. CASE BrokerSigint \/ AsmAccept \/ AsmHelloTimeout \/ AsmRaise \/ AsmSigint \/ DaqDisconnects
    BY <2>9 DEF BrokerSigint, AsmAccept, AsmHelloTimeout, AsmRaise, AsmSigint, DaqDisconnects
  <2>10. CASE UNCHANGED vars
    BY <2>10
  <2> QED BY <2>1, <2>2, <2>3, <2>4, <2>5, <2>6, <2>7, <2>8, <2>9, <2>10 DEF Next
<1> QED BY <1>1, <1>2, Invariance, PTL DEF Spec, LogIsEventLog, Log!Spec

-----------------------------------------------------------------------------
(* The stream to the DAQ runs one line ahead of the file only between the   *)
(* send of a record and its line; while the link holds it lags nowhere.     *)
StreamInv ==
    /\ link => Connect
    /\ Len(stream) <= Len(txt) + 1
    /\ asm \notin {"writeTxt", "stopped"} => Len(stream) <= Len(txt)
    /\ \A i \in 1 .. Len(stream) : stream[i] = Append(txt, data)[i]
    /\ link /\ asm = "writeTxt" => Len(stream) = Len(txt) + 1
    /\ link /\ asm \notin {"writeTxt", "stopped"} => Len(stream) = Len(txt)

(* Every step keeps it: a step of the assembler touches record, stream and   *)
(* file in turn, and a broken link stays broken.                            *)
LEMMA StreamStep == TypeOK /\ TypeOK' /\ StreamInv /\ [Next]_vars => StreamInv'
<1> SUFFICES ASSUME TypeOK, TypeOK', StreamInv, [Next]_vars PROVE StreamInv'
  OBVIOUS
<1> USE DEF vars, rcVars, encVars, eibVars, netVars, asmVars, logVars
<1>1. /\ txt \in Seq(Record) /\ stream \in Seq(Record) /\ data \in Record /\ data' \in Record
      /\ link \in BOOLEAN /\ Len(txt) \in Nat /\ Len(stream) \in Nat
  <2>1. txt \in Seq(Record) /\ stream \in Seq(Record) /\ link \in BOOLEAN
    BY DEF TypeOK
  <2>2. data \in Record /\ data' \in Record
    BY DEF TypeOK
  <2> QED BY <2>1, <2>2
<1>2. CASE UNCHANGED <<asm, data, logVars>>
  BY <1>2 DEF StreamInv
<1>3. CASE AsmUnpackData
  <2>1. UNCHANGED logVars /\ asm = "unpack" /\ asm' \in {"recv", "sendServer", "writeTxt"}
    BY <1>3 DEF AsmUnpackData
  <2>2. asm' = "writeTxt" => ~Connect
    BY <1>3 DEF AsmUnpackData
  <2>3. Len(stream) <= Len(txt) /\ \A i \in 1 .. Len(stream) : stream[i] = txt[i]
    BY <1>1, <2>1 DEF StreamInv
  <2>4. \A i \in 1 .. Len(stream) : stream[i] = Append(txt, data')[i]
    BY <1>1, <2>3
  <2> QED BY <1>1, <2>1, <2>2, <2>3, <2>4 DEF StreamInv
<1>4. CASE AsmSendServer
  <2>1. /\ asm = "sendServer" /\ asm' = "writeTxt" /\ UNCHANGED <<data, txt, link>>
        /\ stream' = IF link THEN Append(stream, data) ELSE stream
    BY <1>4 DEF AsmSendServer
  <2>2. CASE link
    <3>1. Len(stream) = Len(txt) /\ stream' = Append(stream, data)
      BY <2>1, <2>2 DEF StreamInv
    <3>2. /\ Len(stream') = Len(stream) + 1 /\ stream'[Len(stream) + 1] = data
          /\ \A i \in 1 .. Len(stream) : stream'[i] = stream[i]
      BY <1>1, <3>1
    <3>3. Append(txt, data)[Len(txt) + 1] = data
      BY <1>1
    <3>4. \A i \in 1 .. Len(stream') : stream'[i] = Append(txt, data)[i]
      BY <1>1, <3>1, <3>2, <3>3 DEF StreamInv
    <3> QED BY <1>1, <2>1, <3>1, <3>2, <3>4 DEF StreamInv
  <2>3. CASE ~link
    BY <1>1, <2>1, <2>3 DEF StreamInv
  <2> QED BY <2>2, <2>3
<1>5. CASE AsmWriteTxt
  <2>1. /\ asm = "writeTxt" /\ asm' = "recv" /\ UNCHANGED <<data, stream, link>>
        /\ txt' = Append(txt, data)
    BY <1>5 DEF AsmWriteTxt
  <2>2. Len(txt') = Len(txt) + 1
    BY <1>1, <2>1
  <2>3. Len(stream) <= Len(txt) + 1
    BY <2>1 DEF StreamInv
  <2>4. \A i \in 1 .. Len(txt) + 1 : Append(txt', data)[i] = Append(txt, data)[i]
    BY <1>1, <2>1
  <2>5. \A i \in 1 .. Len(stream) : stream[i] = Append(txt', data)[i]
    <3>1. 1 .. Len(stream) \subseteq 1 .. Len(txt) + 1
      BY <1>1, <2>3
    <3>2. \A i \in 1 .. Len(stream) : stream[i] = Append(txt, data)[i]
      BY DEF StreamInv
    <3> QED BY <2>4, <3>1, <3>2
  <2> QED BY <1>1, <2>1, <2>2, <2>3, <2>5 DEF StreamInv
<1>6. CASE AsmHelloTimeout \/ AsmRaise \/ AsmSigint \/ AsmAccept \/ AsmUnpackHello
  <2>1. UNCHANGED <<data, logVars>> /\ (asm' = "stopped" \/ asm' = "recv")
    BY <1>6 DEF AsmHelloTimeout, AsmRaise, AsmSigint, AsmAccept, AsmUnpackHello
  <2>2. asm' = "recv" => asm \in {"accept", "unpack"}
    BY <1>6 DEF AsmHelloTimeout, AsmRaise, AsmSigint, AsmAccept, AsmUnpackHello
  <2> QED BY <1>1, <2>1, <2>2 DEF StreamInv
<1>7. ASSUME NEW p \in Clients, AsmRecv(p) PROVE StreamInv'
  BY <1>1, <1>7 DEF AsmRecv, StreamInv
<1>8. CASE DaqDisconnects
  BY <1>1, <1>8 DEF DaqDisconnects, StreamInv
<1>9. CASE RcStep \/ RcAbort \/ CtrlC
  BY <1>2, <1>9 DEF RcStep, RcSendHello, RcHelloAcked, RcStartEncoder, RcSendData, RcDataAcked,
     RcStopAssembler, RcStopBroker, RcStopEncoder, RcAbort, CtrlC
<1>10. CASE EibTrigger \/ EncStep \/ EncCheckError \/ EncSigint \/ EncClose
  BY <1>2, <1>10 DEF EibTrigger, EncStep, EncSendHello, EncHelloAcked, EncConfigure,
     EncLeaveLoop, EncReadOverflow, EncClearFIFO, EncReadEvent, EncSendEvent, EncEventAcked,
     EncCheckError, EncSigint, EncClose
<1>11. CASE BrokerSigint \/ \E p \in Clients : BrokerForward(p) \/ BrokerReply(p)
  BY <1>2, <1>11 DEF BrokerSigint, BrokerForward, BrokerReply
<1> QED BY <1>2, <1>3, <1>4, <1>5, <1>6, <1>7, <1>8, <1>9, <1>10, <1>11 DEF Next, AsmStep

(* The DAQ's stream carries the lines of the file in the same order, at     *)
(* most one ahead, and drops lines only after the link broke.               *)
THEOREM StreamIsFile == Spec => []StreamFollowsFile
<1>1. Init => StreamInv
  BY ConstantsAssumption DEF Init, StreamInv
<1>2. IInv /\ [Next]_vars => TypeOK /\ TypeOK'
  BY TypeStep DEF IInv
<1>3. TypeOK /\ StreamInv => StreamFollowsFile
  <2>1. TypeOK => DOMAIN stream = 1 .. Len(stream)
    BY DEF TypeOK
  <2> QED BY <2>1 DEF StreamInv, StreamFollowsFile
<1> QED BY <1>1, <1>2, <1>3, StreamStep, Invariance, TypeCorrect, PTL DEF Spec
=============================================================================
