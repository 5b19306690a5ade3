----------------------------- MODULE LaserScan -----------------------------
(***************************************************************************)
(* The laser scan of run control (startup(), run() and finalize() of        *)
(* runControl.py) and the hardware it drives: the laser with its shutter,    *)
(* the two feedthrough axes and the attenuator.  Signal handlers run between *)
(* any two commands of the scan.  A send to the assembler is the step it     *)
(* announces; LaserMessaging models what becomes of it.                      *)
(*                                                                           *)
(* A scan row is the record [hor, ver, freq, count, att]: the relative moves *)
(* of the axes, the shot frequency and count, the attenuator position.       *)
(* Speeds, apertures and positions of mirrors are left out.                  *)
(***************************************************************************)
EXTENDS Integers, Sequences

CONSTANTS Plans,     \* the scans: sequences of rows, row 0 left out
          IdlePosition, \* IDLE_POSITION of the feedthrough axes
          MaxCtrlC,  \* bound on the SIGINTs and SIGTERMs of one run
          Faults     \* may a command to the laser, or any command, fail?

ASSUME ScanAssumption ==
    /\ Plans \subseteq Seq([hor : Int, ver : Int, freq : Int, count : Nat, att : Int]) \ {<<>>}
    /\ IdlePosition \in Int
    /\ MaxCtrlC \in Nat
    /\ Faults \in BOOLEAN

Axes == {"rotary", "linear", "attenuator"}

VARIABLES
    plan,      \* the scan being made
    pc,        \* the command run control executes next
    step,      \* scanstep
    announced, \* count_run of the last record sent to the assembler
    shutter,   \* is the shutter open?
    pd,        \* the laser's pulse division; 0 is single shot mode
    on,        \* is the laser started?
    pos,       \* pos[a]: where axis a is
    target,    \* target[a]: where it moves to
    handler,   \* the commands a signal handler has still to execute
    exiting,   \* will the handler raise SystemExit when it is done?
    signals,   \* signals so far
    failed     \* has a command to the laser failed?

laserVars == <<shutter, pd, on, failed>>
axisVars  == <<pos, target>>
sigVars   == <<handler, exiting, signals>>
vars      == <<plan, pc, step, announced, laserVars, axisVars, sigVars>>

-----------------------------------------------------------------------------
StartPcs    == {"startRate", "startClose", "mirrors"}
RunPcs      == {"begin", "att", "attWait", "send", "rate", "open", "rot", "rotWait", "lin", "linWait",
                "close", "openSingle", "single", "closeSingle", "rateBurst", "openBurst",
                "burst", "closeBurst", "rateZero", "report", "idle"}
FinalizePcs == {"finClose", "finRate", "finStop", "finPorts", "finChildren"}
Ended       == {"done", "crashed"}
Pcs         == StartPcs \cup RunPcs \cup FinalizePcs \cup Ended

StopCommands == <<"closeShutter", "linear", "rotary", "attenuator">>  \* stop()

Row       == plan[step]

\* Where the plan has axis a after row s; row 0 is the origin.
Planned(a, s) ==
    LET at[i \in 0 .. Len(plan)] ==
            IF i = 0 THEN 0 ELSE at[i - 1] + (IF a = "rotary" THEN plan[i].hor ELSE plan[i].ver)
    IN  at[s]

Moving(a) == pos[a] # target[a]
Magnitude(n) == IF n < 0 THEN -n ELSE n
Running   == handler = <<>>   \* the main program runs, no handler does

\* startup() has started the laser, which the last run left dark, and
\* initMotors() has homed the axes.
Init ==
    /\ plan \in Plans
    /\ pc = "startRate" /\ step = 0 /\ announced = -1
    /\ shutter = FALSE /\ pd = 0 /\ on = TRUE
    /\ pos = [a \in Axes |-> 0] /\ target = pos
    /\ handler = <<>> /\ exiting = FALSE /\ signals = 0
    /\ failed = FALSE

-----------------------------------------------------------------------------
(* Commands to the laser.  setParameter() sends a command once: when the    *)
(* echo is not the command, whether or not the laser obeyed, it reports a   *)
(* failure and returns.                                                     *)

SetLaser(newShutter, newPd) ==
    /\ UNCHANGED on
    /\ \/ shutter' = newShutter /\ pd' = newPd /\ UNCHANGED failed
       \/ Faults /\ failed' = TRUE /\ shutter' \in {shutter, newShutter} /\ pd' \in {pd, newPd}

OpenShutter  == SetLaser(TRUE, pd)
CloseShutter == SetLaser(FALSE, pd)

\* setRate(): pulses are divided down from 10 Hz; a higher rate is refused.
SetRate(rate) ==
    IF rate > 10 THEN UNCHANGED laserVars
    ELSE SetLaser(shutter, IF rate = 0 THEN 0 ELSE 10 \div rate)

AxisMoves(a) ==
    /\ Moving(a)
    /\ pos' = [pos EXCEPT ![a] = IF @ < target[a] THEN @ + 1 ELSE @ - 1]
    /\ UNCHANGED <<plan, pc, step, announced, laserVars, target, sigVars>>

-----------------------------------------------------------------------------
(* startup() once the axes are at their first position, and run().          *)

At(here, next) == Running /\ pc = here /\ pc' = next

StartRate ==
    /\ At("startRate", "startClose")
    /\ SetRate(0)
    /\ UNCHANGED <<plan, step, announced, axisVars, sigVars>>

StartClose ==
    /\ At("startClose", "mirrors")
    /\ CloseShutter
    /\ UNCHANGED <<plan, step, announced, axisVars, sigVars>>

NextRow == IF step < Len(plan) THEN "att" ELSE "idle"

\* Row 0 is sent twice, by update_mirror_data() and at the start of run().
SendFirst ==
    /\ \/ At("mirrors", "begin") /\ step' = step
       \/ At("begin", NextRow) /\ step' = step + 1
    /\ announced' = 0
    /\ UNCHANGED <<plan, laserVars, axisVars, sigVars>>

MoveTo(a, where) == target' = [target EXCEPT ![a] = where]

MoveAttenuator ==
    /\ At("att", "attWait")
    /\ MoveTo("attenuator", Row.att)
    /\ UNCHANGED <<plan, step, announced, laserVars, pos, sigVars>>

\* Mutant: the position is not monitored.
MovementOverAtOnce(a) == TRUE

\* Mutant: the axis has to be where the plan says.
MovementOverThere(a) == IF a = "rotary" THEN pos[a] = Planned("rotary", step) ELSE ~Moving(a)

\* A monitored movement is over when the axis stands still, wherever that is.
MovementOver(a) == ~Moving(a)

AttenuatorDone ==
    /\ At("attWait", "send") /\ MovementOver("attenuator")
    /\ UNCHANGED <<plan, step, announced, laserVars, axisVars, sigVars>>

\* Mutant: the record is sent before the counter is updated.
SendRowLate ==
    /\ At("send", "rate")
    /\ announced' = step - 1
    /\ UNCHANGED <<plan, step, laserVars, axisVars, sigVars>>

SendRow ==
    /\ At("send", "rate")
    /\ announced' = step
    /\ UNCHANGED <<plan, step, laserVars, axisVars, sigVars>>

RateBeforeMove ==
    /\ \/ At("rate", "open") /\ Row.freq > 0 /\ SetRate(Row.freq)
       \/ At("rate", "rot") /\ Row.freq <= 0 /\ SetRate(0)
    /\ UNCHANGED <<plan, step, announced, axisVars, sigVars>>

OpenBeforeMove ==
    /\ At("open", "rot")
    /\ OpenShutter
    /\ UNCHANGED <<plan, step, announced, axisVars, sigVars>>

MoveRotary ==
    /\ \/ At("rot", "rotWait") /\ Row.hor # 0 /\ MoveTo("rotary", pos["rotary"] + Row.hor)
       \/ At("rot", "lin") /\ Row.hor = 0 /\ UNCHANGED target
    /\ UNCHANGED <<plan, step, announced, laserVars, pos, sigVars>>

RotaryDone ==
    /\ At("rotWait", "lin") /\ MovementOver("rotary")
    /\ UNCHANGED <<plan, step, announced, laserVars, axisVars, sigVars>>

MoveLinear ==
    /\ \/ At("lin", "linWait") /\ Row.ver # 0 /\ MoveTo("linear", pos["linear"] + Row.ver)
       \/ At("lin", "close") /\ Row.ver = 0 /\ UNCHANGED target
    /\ UNCHANGED <<plan, step, announced, laserVars, pos, sigVars>>

LinearDone ==
    /\ At("linWait", "close") /\ MovementOver("linear")
    /\ UNCHANGED <<plan, step, announced, laserVars, axisVars, sigVars>>

CloseAfterMove ==
    /\ At("close", CASE Row.freq = 0 -> "openSingle"
                     [] Row.freq < 0 /\ Row.count > 0 -> "rateBurst"
                     [] OTHER -> "report")
    /\ CloseShutter
    /\ UNCHANGED <<plan, step, announced, axisVars, sigVars>>

OpenForShots ==
    /\ At("openSingle", "single") \/ At("openBurst", "burst")
    /\ OpenShutter
    /\ UNCHANGED <<plan, step, announced, axisVars, sigVars>>

SingleShot ==
    /\ At("single", "closeSingle")
    /\ UNCHANGED <<plan, step, announced, laserVars, axisVars, sigVars>>

RateForBurst ==
    /\ At("rateBurst", "openBurst")
    /\ SetRate(Magnitude(Row.freq))
    /\ UNCHANGED <<plan, step, announced, axisVars, sigVars>>

\* sleep() while the laser fires.
BurstOver ==
    /\ At("burst", "closeBurst")
    /\ UNCHANGED <<plan, step, announced, laserVars, axisVars, sigVars>>

CloseAfterShots ==
    /\ At("closeSingle", "report") \/ At("closeBurst", "rateZero")
    /\ CloseShutter
    /\ UNCHANGED <<plan, step, announced, axisVars, sigVars>>

RateZero ==
    /\ At("rateZero", "report")
    /\ SetRate(0)
    /\ UNCHANGED <<plan, step, announced, axisVars, sigVars>>

\* Mutant: the counter is also advanced after the last row.
SendReportPast ==
    /\ At("report", NextRow)
    /\ announced' = step
    /\ step' = step + 1
    /\ UNCHANGED <<plan, laserVars, axisVars, sigVars>>

\* The row is sent again; the next row, or the end of run(), follows.
SendReport ==
    /\ At("report", NextRow)
    /\ announced' = step
    /\ step' = IF step < Len(plan) THEN step + 1 ELSE step
    /\ UNCHANGED <<plan, laserVars, axisVars, sigVars>>

\* gotoIdlePosition() of both axes; nobody waits for the movement.
GotoIdle ==
    /\ At("idle", "finClose")
    /\ target' = [target EXCEPT !["rotary"] = IdlePosition, !["linear"] = IdlePosition]
    /\ UNCHANGED <<plan, step, announced, laserVars, pos, sigVars>>

RunStep ==
    \/ StartRate \/ StartClose \/ SendFirst
    \/ MoveAttenuator \/ AttenuatorDone \/ SendRow \/ RateBeforeMove \/ OpenBeforeMove
    \/ MoveRotary \/ RotaryDone \/ MoveLinear \/ LinearDone \/ CloseAfterMove
    \/ OpenForShots \/ SingleShot \/ RateForBurst \/ BurstOver \/ CloseAfterShots \/ RateZero
    \/ SendReport \/ GotoIdle

-----------------------------------------------------------------------------
(* finalize().                                                              *)

\* Mutant: the shutter is left as it is.
FinCloseNot ==
    /\ At("finClose", "finRate")
    /\ UNCHANGED <<plan, step, announced, laserVars, axisVars, sigVars>>

FinClose ==
    /\ At("finClose", "finRate")
    /\ CloseShutter
    /\ UNCHANGED <<plan, step, announced, axisVars, sigVars>>

FinRate ==
    /\ At("finRate", "finStop")
    /\ SetRate(0)
    /\ UNCHANGED <<plan, step, announced, axisVars, sigVars>>

FinStop ==
    /\ At("finStop", "finPorts")
    /\ on' = FALSE
    /\ UNCHANGED <<plan, step, announced, shutter, pd, failed, axisVars, sigVars>>

\* Closing the serial ports, then stopping the child processes.
FinPorts ==
    /\ At("finPorts", "finChildren") \/ At("finChildren", "done")
    /\ UNCHANGED <<plan, step, announced, laserVars, axisVars, sigVars>>

FinalizeStep == FinClose \/ FinRate \/ FinStop \/ FinPorts

-----------------------------------------------------------------------------
(* Signals and exceptions.                                                  *)

\* SIGINT, or SIGTERM when term is set.  With the ports closed the first
\* command of the handler raises.  One handler at a time: signals that
\* interrupt a handler are not modelled.
Signal(term) ==
    /\ signals < MaxCtrlC /\ Running /\ pc \notin Ended
    /\ signals' = signals + 1
    /\ IF pc = "finChildren"
       THEN pc' = "crashed" /\ UNCHANGED <<handler, exiting>>
       ELSE handler' = StopCommands /\ exiting' = term /\ UNCHANGED pc
    /\ UNCHANGED <<plan, step, announced, laserVars, axisVars>>

\* An exception leaves the try block for finalize(), or ends finalize().
AfterException == IF pc \in FinalizePcs THEN "crashed" ELSE "finClose"

HandlerStep ==
    /\ ~Running
    /\ handler' = Tail(handler)
    /\ LET c == Head(handler) IN
       IF c = "closeShutter"
       THEN CloseShutter /\ UNCHANGED target
       ELSE MoveTo(c, pos[c]) /\ UNCHANGED laserVars
    /\ pc' = IF exiting /\ handler' = <<>> THEN AfterException ELSE pc
    /\ UNCHANGED <<plan, step, announced, pos, exiting, signals>>

\* A command raises, in the program or in a handler.
Raise ==
    /\ Faults /\ pc \notin Ended
    /\ pc' = AfterException
    /\ handler' = <<>>
    /\ UNCHANGED <<plan, step, announced, laserVars, axisVars, exiting, signals>>

-----------------------------------------------------------------------------
Next ==
    \/ RunStep \/ FinalizeStep
    \/ \E term \in BOOLEAN : Signal(term)
    \/ HandlerStep \/ Raise
    \/ \E a \in Axes : AxisMoves(a)

\* The program runs (the user answers its prompts) and a moving axis arrives.
Fairness ==
    /\ WF_vars(RunStep) /\ WF_vars(FinalizeStep) /\ WF_vars(HandlerStep)
    /\ \A a \in Axes : WF_vars(AxisMoves(a))

Spec == Init /\ [][Next]_vars /\ Fairness

-----------------------------------------------------------------------------
(* Properties.                                                              *)

TypeOK ==
    /\ plan \in Plans /\ pc \in Pcs
    /\ step \in 0 .. Len(plan) /\ announced \in -1 .. Len(plan)
    /\ shutter \in BOOLEAN /\ pd \in 0 .. 10 /\ on \in BOOLEAN /\ failed \in BOOLEAN
    /\ pos \in [Axes -> Int] /\ target \in [Axes -> Int]
    /\ handler \in Seq(Axes \cup {"closeShutter"}) /\ exiting \in BOOLEAN
    /\ signals \in 0 .. MaxCtrlC

\* Light leaves the laser box, or will with the next step of the program.
Firing == on /\ shutter /\ (pd > 0 \/ (pc = "single" /\ Running))

\* While the laser obeys, light leaves it only in the row the assembler has
\* been told of, also in runs that signals or exceptions cut short: the text
\* file attributes every shot to its row.
ShotsAnnounced ==
    ~failed /\ Firing => announced = step

Between(x, a, b) == (a <= x /\ x <= b) \/ (b <= x /\ x <= a)

\* A row with a positive frequency shoots between its two end points, any other row
\* at its end point and only if it says so; the attenuator is set.
PlaceAsPlanned ==
    /\ pos["attenuator"] = Row.att
    /\ \A a \in {"rotary", "linear"} :
          IF Row.freq > 0 THEN Between(pos[a], Planned(a, step - 1), Planned(a, step))
                          ELSE pos[a] = Planned(a, step)
    /\ Row.freq < 0 => Row.count > 0

\* A single shot is single.  Otherwise the laser has the slowest of its rates, 10 Hz
\* divided by a number, that is not below the row's; a rate above 10 Hz it refuses, and
\* then it may have any.
RateAsPlanned ==
    LET rate == Magnitude(Row.freq)
    IN  IF rate = 0 THEN pd = 0 ELSE rate <= 10 => pd * rate <= 10 /\ (pd + 1) * rate > 10

AsPlanned == PlaceAsPlanned /\ RateAsPlanned

\* Light that leaves the box in a run that no signal disturbs does so where the plan
\* says, and at the rate of the row, not that of another.  (run(), laser.py:setRate())
ShotsAsPlanned ==
    ~failed /\ signals = 0 /\ Firing => AsPlanned

\* However it was left, a finalized run leaves no light behind.
DarkWhenDone ==
    pc = "done" /\ ~failed => ~shutter /\ ~on

\* Every run ends: a stop of the axes does not leave it waiting for them.
RunEnds == <>(pc \in Ended)

\* runControl.py, line 58: "Stopping laser run on user request (sigint)" -
\* once the handler has closed the shutter it stays closed.
StopStaysDark ==
    signals > 0 /\ Running => ~shutter
=============================================================================
