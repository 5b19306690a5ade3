------------------------------ MODULE HomeAxis ------------------------------
(***************************************************************************)
(* One feedthrough axis from the start of a run to the start of the scan:  *)
(* Feedtrough.initAxis() and homeAxis() (devices/feedtrough.py) as         *)
(* initMotors() (runControl.py) calls them, with the reference movement of *)
(* the rotary axis, and the motor controller, which keeps its switches,    *)
(* its register R1 and the position of the axis from run to run.           *)
(*                                                                         *)
(* Home is position 0 and the work range lies on the side the axis comes   *)
(* from.  A set command or its echo may be garbled, and so may any reply;  *)
(* the commands that are sent without a check (HM, MR, stop) arrive.       *)
(* While homing is watched the axis advances by 1 .. Speed in the 0.2 s    *)
(* between two samples and stands in between.  A new run starts when the   *)
(* axis is at rest.                                                        *)
(***************************************************************************)
EXTENDS Integers

CONSTANTS
    Configs,  \* records [direction, max, ref]: HOME_DIRECTION, MAX_HOMING_OVERSHOOT,
              \* and is this the axis of the reference movement?
    Speed,    \* largest advance of a homing axis between two samples
    Range,    \* length of the work range
    End,      \* distance of the mechanical end beyond home
    MaxRuns   \* bound on the number of runs

ASSUME SpeedAssumption == Speed \in Nat \ {0}
ASSUME RangeAssumption == Range \in Nat /\ End \in Nat /\ MaxRuns \in Nat
ASSUME ConfigsAssumption ==
    Configs \subseteq [direction : {1, 3}, max : Int, ref : BOOLEAN]

VARIABLES
    conf, working,       \* the axis; does the switch at home react?
    homeSwitch, farSwitch, r1, pos, move,       \* the controller
    prog, attempts, second, result, runs,       \* the program
    pos_old, dir_old, change_dir,               \* locals of homeAxis()
    origin               \* where the axis was when HM was sent

controller == <<homeSwitch, farSwitch, r1, pos, move>>
locals == <<pos_old, dir_old, change_dir>>
fixed == <<conf, working>>
vars == <<fixed, controller, prog, attempts, second, result, runs, locals, origin>>

Watching == {"moving", "sleep", "sample"}
ProgPC == Watching \cup
    {"initLimits", "counts", "homeSwitch", "home", "posOld", "zero", "abortLimits",
     "doneLimits", "count", "ref", "refWait", "first", "firstWait", "scan", "return", "ended"}
MaxAttempts == 4

Abs(x) == IF x < 0 THEN -x ELSE x
copysign(x) == IF x < 0 THEN -1 ELSE 1
homing_dir == IF conf.direction = 1 THEN -1 ELSE 1
\* Distance beyond home, negative in the work range.
Beyond(p) == homing_dir * p
WorkRange == {-homing_dir * k : k \in 0 .. Range}

\* Mutant: only an axis that turned round is out of bounds.
OutOfBoundsTurned(p, changed) == Abs(p) > Abs(conf.max) /\ changed

OutOfBounds(p, changed) ==
    \/ conf.direction = 1 /\ (p < conf.max * homing_dir \/ (p > Abs(conf.max) /\ changed))
    \/ conf.direction = 3 /\ (p > conf.max * homing_dir \/ (Abs(p) > Abs(conf.max) /\ changed))

\* What the last run left in the controller is not known.
Init ==
    /\ conf \in Configs /\ working \in BOOLEAN
    /\ homeSwitch \in {"off", "limit", "home"} /\ farSwitch \in {"off", "limit"}
    /\ r1 \in 0 .. 1 /\ pos \in WorkRange /\ move = "none"
    /\ prog = "initLimits" /\ attempts = 0 /\ second = FALSE /\ result = "none" /\ runs = 1
    /\ pos_old = 0 /\ dir_old = 0 /\ change_dir = FALSE /\ origin = 0

Go(from, to) == prog = from /\ prog' = to
\* An empty or garbled position or count: int() raises, and the run ends.
Raise(from) ==
    /\ Go(from, "ended")
    /\ UNCHANGED <<fixed, controller, attempts, second, result, runs, locals, origin>>

-----------------------------------------------------------------------------
(* The calls of initMotors(): init, homing, the two movements.             *)

\* setLimitSwitches(attempts).  A nested attempt that succeeds returns into
\* stopMovement() of the one that failed.
SetLimits(from, to) ==
    \E homeSet, farSet, confirmed \in BOOLEAN :
       /\ prog = from /\ (confirmed => homeSet /\ farSet)
       /\ IF attempts = MaxAttempts
          THEN prog' = "ended" /\ UNCHANGED <<attempts, homeSwitch, farSwitch, move>>
          ELSE /\ homeSwitch' = IF homeSet THEN "limit" ELSE homeSwitch
               /\ farSwitch' = IF farSet THEN "limit" ELSE farSwitch
               /\ prog' = IF confirmed THEN to ELSE from
               /\ attempts' = IF confirmed THEN 0 ELSE attempts + 1
               /\ move' = IF confirmed /\ attempts > 0 THEN "none" ELSE move
       /\ UNCHANGED <<fixed, r1, pos, second, result, runs, locals, origin>>

InitLimits == SetLimits("initLimits", "counts")

\* homeAxis() is called before the reference movement and, there, once more.
AfterHoming == IF conf.ref /\ ~second THEN "ref" ELSE "first"

\* R1 < 1: nobody has homed the axis by hand; the caller ignores the -1.
NotHomedByHand ==
    /\ r1 < 1 /\ Go("counts", AfterHoming) /\ result' = "failed"
    /\ UNCHANGED <<fixed, controller, attempts, second, runs, locals, origin>>

\* Mutant: the count is not looked at.
HomedByHandOrNot ==
    /\ Go("counts", "homeSwitch")
    /\ UNCHANGED <<fixed, controller, attempts, second, result, runs, locals, origin>>

HomedByHand ==
    /\ r1 >= 1 /\ Go("counts", "homeSwitch")
    /\ UNCHANGED <<fixed, controller, attempts, second, result, runs, locals, origin>>

SetHomeSwitch ==
    \E homeSet, confirmed \in BOOLEAN :
       /\ prog = "homeSwitch" /\ (confirmed => homeSet)
       /\ IF attempts = MaxAttempts
          THEN prog' = "ended" /\ move' = "none" /\ UNCHANGED <<attempts, homeSwitch>>
          ELSE /\ homeSwitch' = IF homeSet THEN "home" ELSE homeSwitch
               /\ prog' = IF confirmed THEN "home" ELSE prog
               /\ attempts' = IF confirmed THEN 0 ELSE attempts + 1
               /\ UNCHANGED move
       /\ UNCHANGED <<fixed, farSwitch, r1, pos, second, result, runs, locals, origin>>

SendHome ==
    /\ Go("home", "posOld") /\ move' = "HM" /\ origin' = pos
    /\ UNCHANGED <<fixed, homeSwitch, farSwitch, r1, pos, attempts, second, result, runs, locals>>

\* Mutant: the sign of the direction is taken the wrong way round.
ReadPosOldFlipped ==
    /\ Go("posOld", "moving")
    /\ pos_old' = pos /\ dir_old' = -homing_dir /\ change_dir' = FALSE
    /\ UNCHANGED <<fixed, controller, attempts, second, result, runs, origin>>

ReadPosOld ==
    /\ Go("posOld", "moving")
    /\ pos_old' = pos /\ dir_old' = homing_dir /\ change_dir' = FALSE
    /\ UNCHANGED <<fixed, controller, attempts, second, result, runs, origin>>

\* isMoving() is true of an axis that moves and of a garbled reply (-1).
StillMoving ==
    /\ Go("moving", "sleep")
    /\ UNCHANGED <<fixed, controller, attempts, second, result, runs, locals, origin>>

\* Mutant: the switches stay as they are.
HomingOverKeeps ==
    /\ move = "none" /\ Go("moving", "count")
    /\ UNCHANGED <<fixed, controller, attempts, second, result, runs, locals, origin>>

HomingOver ==
    /\ move = "none" /\ Go("moving", "doneLimits")
    /\ UNCHANGED <<fixed, controller, attempts, second, result, runs, locals, origin>>

\* time.sleep(0.2): the axis goes on, to the switch if that works.
Sleep ==
    /\ Go("sleep", "sample")
    /\ \/ move = "none" /\ UNCHANGED <<pos, move>>
       \/ /\ move = "HM"
          /\ \E d \in 1 .. Speed :
                LET b == Beyond(pos) + d IN
                IF working /\ Beyond(pos) <= 0 /\ b >= 0
                THEN pos' = 0 /\ move' = "none"
                ELSE pos' = homing_dir * (IF b > End THEN End ELSE b) /\ UNCHANGED move
    /\ UNCHANGED <<fixed, homeSwitch, farSwitch, r1, attempts, second, result, runs, locals, origin>>

\* Mutant: the test is on the sample before.
SampleOld ==
    LET dir_now == copysign(pos - pos_old)
        changed == change_dir \/ dir_now # dir_old
    IN /\ \/ OutOfBounds(pos_old, changed) /\ Go("sample", "zero") /\ move' = "none"
          \/ ~OutOfBounds(pos_old, changed) /\ Go("sample", "moving") /\ UNCHANGED move
       /\ change_dir' = changed /\ pos_old' = pos /\ dir_old' = dir_now
       /\ UNCHANGED <<fixed, homeSwitch, farSwitch, r1, pos, attempts, second, result, runs, origin>>

\* One turn of the loop after the sleep, with stopMovement() in the same turn.
Sample ==
    LET dir_now == copysign(pos - pos_old)
        changed == change_dir \/ dir_now # dir_old
    IN /\ \/ OutOfBounds(pos, changed) /\ Go("sample", "zero") /\ move' = "none"
          \/ ~OutOfBounds(pos, changed) /\ Go("sample", "moving") /\ UNCHANGED move
       /\ change_dir' = changed /\ pos_old' = pos /\ dir_old' = dir_now
       /\ UNCHANGED <<fixed, homeSwitch, farSwitch, r1, pos, attempts, second, result, runs, origin>>

ZeroCount ==
    /\ Go("zero", "abortLimits") /\ r1' \in {r1, 0}
    /\ UNCHANGED <<fixed, homeSwitch, farSwitch, pos, move, attempts, second, result, runs, locals, origin>>

AbortLimits == SetLimits("abortLimits", "return")

\* return -1 after an abort.
Aborted ==
    /\ Go("return", AfterHoming) /\ result' = "failed"
    /\ UNCHANGED <<fixed, controller, attempts, second, runs, locals, origin>>

DoneLimits == SetLimits("doneLimits", "count")

CountHoming ==
    /\ Go("count", AfterHoming) /\ r1' \in {r1, r1 + 1} /\ result' = "ok"
    /\ UNCHANGED <<fixed, homeSwitch, farSwitch, pos, move, attempts, second, runs, locals, origin>>

\* moveRelative(..., monitor=True).
SendMove(from, to) ==
    /\ Go(from, to) /\ move' = "MR"
    /\ UNCHANGED <<fixed, homeSwitch, farSwitch, r1, pos, attempts, second, result, runs, locals, origin>>

RefMove == SendMove("ref", "refWait")
FirstMove == SendMove("first", "firstWait")

MoveOver ==
    /\ move = "none"
    /\ \/ Go("refWait", "counts") /\ second' = TRUE
       \/ Go("firstWait", "scan") /\ UNCHANGED second
    /\ UNCHANGED <<fixed, controller, attempts, result, runs, locals, origin>>

BadReply == \E pc \in {"counts", "posOld", "sample", "refWait", "firstWait"} : Raise(pc)

-----------------------------------------------------------------------------
(* The axis on its own, and the next run.                                  *)

\* A relative move ends in the work range; an axis whose run ended while it
\* was homing goes on to the switch or, past it, to the mechanical end.
AxisArrives ==
    /\ \/ move = "MR" /\ pos' \in WorkRange
       \/ /\ move = "HM" /\ prog = "ended"
          /\ pos' = IF working /\ Beyond(pos) <= 0 THEN 0 ELSE homing_dir * End
    /\ move' = "none"
    /\ UNCHANGED <<fixed, homeSwitch, farSwitch, r1, prog, attempts, second, result, runs,
                   locals, origin>>

Restart ==
    /\ runs < MaxRuns /\ move = "none" /\ prog \in {"scan", "ended"}
    /\ prog' = "initLimits" /\ runs' = runs + 1
    /\ attempts' = 0 /\ second' = FALSE /\ result' = "none"
    /\ UNCHANGED <<fixed, controller, locals, origin>>

HomingStep ==
    \/ NotHomedByHand \/ HomedByHand \/ SetHomeSwitch \/ SendHome \/ ReadPosOld
    \/ StillMoving \/ HomingOver \/ Sleep \/ Sample \/ ZeroCount \/ AbortLimits
    \/ Aborted \/ DoneLimits \/ CountHoming

Next ==
    \/ InitLimits \/ HomingStep \/ RefMove \/ FirstMove \/ MoveOver \/ BadReply
    \/ AxisArrives \/ Restart

\* The program runs; a reply that can say that the axis stands is read in the end.
Fairness ==
    /\ WF_vars(InitLimits \/ HomingStep \/ RefMove \/ FirstMove \/ MoveOver)
    /\ SF_vars(HomingOver) /\ WF_vars(AxisArrives)

Spec == Init /\ [][Next]_vars
FairSpec == Spec /\ Fairness

-----------------------------------------------------------------------------
(* Properties. *)

\* The type invariant: attempts and the locals stay in their ranges, and the
\* program homes only an axis that was homed by hand before.
TypeOK ==
    /\ conf \in Configs /\ working \in BOOLEAN
    /\ homeSwitch \in {"off", "limit", "home"} /\ farSwitch \in {"off", "limit"}
    /\ r1 \in Nat /\ pos \in Int /\ move \in {"none", "MR", "HM"}
    /\ prog \in ProgPC /\ attempts \in 0 .. MaxAttempts
    /\ second \in BOOLEAN /\ result \in {"none", "ok", "failed"} /\ runs \in Nat
    /\ pos_old \in Int /\ dir_old \in {-1, 0, 1} /\ change_dir \in BOOLEAN /\ origin \in Int
    /\ prog \in Watching \cup {"homeSwitch", "home", "posOld", "doneLimits"} => r1 >= 1

\* Every movement of the program other than homing runs with both end switches
\* armed as limits, whatever became of the homing before it and of the runs
\* before (feedtrough.py:145 to 158, 220, 227).
MovesArmed ==
    prog \in {"ref", "refWait", "first", "firstWait", "scan"} =>
        homeSwitch = "limit" /\ farSwitch = "limit"

\* "abort in the movement goes out too far from the known zero position"
\* (feedtrough.py:186): while the program watches it, an axis whose switch is
\* dead gets at most one sample beyond the bound, or beyond where it was.
OvershootBounded ==
    prog \in Watching \cup {"zero"} /\ conf.max >= 0 =>
        \/ Beyond(pos) <= conf.max + Speed
        \/ Beyond(pos) <= Beyond(origin) + Speed

\* With a switch that works and a bound of the right sign, homing is
\* never aborted, from anywhere in the work range and on every run.
WorkingSwitchHomes == working /\ conf.max >= 0 => prog # "zero"

\* An axis being homed comes to rest, or the run gives it up: the loop ends,
\* also on a dead switch.
HomingEnds == prog = "moving" ~> prog \notin Watching
=============================================================================
