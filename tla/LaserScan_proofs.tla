-------------------------- MODULE LaserScan_proofs --------------------------
(***************************************************************************)
(* Proofs about LaserScan, for every scan, idle position and number of     *)
(* signals, with and without faults.                                       *)
(*                                                                         *)
(* The safety of the shots is an argument about the place in the program:  *)
(* the shutter is open only where a row was announced and its report is    *)
(* still to be sent, or where an exception has led from there; and what    *)
(* finalize() has put out stays out.  A handler only closes.  Where an     *)
(* undisturbed run shoots follows from where each place in the program     *)
(* finds the axes, with the planned positions as a function of the row.    *)
(***************************************************************************)
EXTENDS LaserScan, WellFoundedInduction, TLAPS

\* Between the record of a row and its report.
AnnouncedPcs == {"rate", "open", "rot", "rotWait", "lin", "linWait", "close", "openSingle",
                 "single", "closeSingle", "rateBurst", "openBurst", "burst", "closeBurst",
                 "rateZero", "report"}
RowPcs == AnnouncedPcs \cup {"att", "attWait", "send"}

\* Where the shutter may be open.
LitPcs == {"rot", "rotWait", "lin", "linWait", "close", "single", "closeSingle", "burst",
           "closeBurst", "finClose", "crashed"}
OffPcs == {"finPorts", "finChildren", "done"}

StepInv ==
    /\ pc \in RowPcs => step > 0
    /\ pc \in {"startRate", "startClose", "mirrors", "begin"} => step = 0
AnnouncedInv == pc \in AnnouncedPcs => announced = step
ShutterInv == ~failed /\ shutter => pc \in LitPcs /\ announced = step
OffInv == pc \in OffPcs => ~on

IInv == TypeOK /\ StepInv /\ AnnouncedInv /\ ShutterInv /\ OffInv

-----------------------------------------------------------------------------
\* The scans and the row being made.
LEMMA PlanFacts ==
    ASSUME plan \in Plans
    PROVE  /\ Len(plan) \in Nat /\ Len(plan) > 0
           /\ \A s \in 1 .. Len(plan) : /\ plan[s].hor \in Int /\ plan[s].ver \in Int
                                        /\ plan[s].freq \in Int /\ plan[s].att \in Int
  <1> DEFINE Rows == [hor : Int, ver : Int, freq : Int, count : Nat, att : Int]
  <1>1. plan \in Seq(Rows) /\ plan # <<>>
    BY ScanAssumption
  <1>2. \A r \in Rows : r.hor \in Int /\ r.ver \in Int /\ r.freq \in Int /\ r.att \in Int
    OBVIOUS
  <1> HIDE DEF Rows
  <1>3. Len(plan) \in Nat /\ Len(plan) > 0 /\ \A s \in 1 .. Len(plan) : plan[s] \in Rows
    BY <1>1
  <1> QED BY <1>2, <1>3

\* The commands of stop(), of which a handler always has a rest.
LEMMA StopFacts == StopCommands \in Seq(Axes \cup {"closeShutter"}) /\ StopCommands # <<>>
  BY DEF StopCommands, Axes

\* A command to the laser that opens nothing.
Closing == on' = on /\ (failed => failed') /\ (~failed' /\ shutter' => shutter)

\* A command to the laser keeps the types, and fails for good.
LEMMA LaserFacts ==
    ASSUME TypeOK, NEW open \in BOOLEAN, NEW n \in 0 .. 10, SetLaser(open, n)
    PROVE  /\ shutter' \in BOOLEAN /\ on' = on /\ failed' \in BOOLEAN /\ pd' \in 0 .. 10
           /\ (failed => failed') /\ (~failed' => shutter' = open)
  BY DEF SetLaser, TypeOK

\* setRate() keeps the shutter and leaves a pulse division of the laser.
LEMMA RateFacts ==
    ASSUME TypeOK, NEW rate \in Nat, SetRate(rate)
    PROVE  /\ Closing /\ shutter' \in BOOLEAN /\ on' \in BOOLEAN /\ failed' \in BOOLEAN
           /\ pd' \in 0 .. 10
  <1>1. CASE rate > 10
    BY <1>1 DEF SetRate, laserVars, Closing, TypeOK
  <1>2. CASE rate = 0
    <2>1. SetLaser(shutter, 0)
      BY <1>2 DEF SetRate
    <2> QED BY <2>1, LaserFacts DEF Closing, TypeOK
  <1>3. CASE rate \in 1 .. 10
    <2>1. 10 \div rate \in 0 .. 10
      BY <1>3
    <2>2. SetLaser(shutter, 10 \div rate)
      BY <1>3 DEF SetRate
    <2> QED BY <2>1, <2>2, LaserFacts DEF Closing, TypeOK
  <1> QED BY <1>1, <1>2, <1>3

\* closeShutter() leaves the shutter closed, unless it fails.
LEMMA CloseFacts ==
    ASSUME TypeOK, CloseShutter
    PROVE  /\ Closing /\ shutter' \in BOOLEAN /\ on' \in BOOLEAN /\ failed' \in BOOLEAN
           /\ pd' \in 0 .. 10 /\ (~failed' => ~shutter')
  BY LaserFacts DEF CloseShutter, Closing, TypeOK

Opening == on' = on /\ (failed => failed')

\* openShutter() is not a thing of the rate.
LEMMA OpenFacts ==
    ASSUME TypeOK, OpenShutter
    PROVE  /\ Opening /\ shutter' \in BOOLEAN /\ on' \in BOOLEAN /\ failed' \in BOOLEAN
           /\ pd' \in 0 .. 10
  BY LaserFacts DEF OpenShutter, Opening, TypeOK

-----------------------------------------------------------------------------
(* The steps.  What only one of them touches is shown with the step, the   *)
(* types of the variables together.                                        *)

\* The place in the program, the step and the record: what the program changes
\* with every command.
ProgramOK ==
    /\ pc' \in Pcs /\ step' \in 0 .. Len(plan) /\ announced' \in -1 .. Len(plan)
    /\ UNCHANGED <<plan, sigVars>>
LaserOK == shutter' \in BOOLEAN /\ pd' \in 0 .. 10 /\ on' \in BOOLEAN /\ failed' \in BOOLEAN
AxesOK == pos' \in [Axes -> Int] /\ target' \in [Axes -> Int]

LEMMA TypeStep ==
    ASSUME TypeOK, ProgramOK, LaserOK, AxesOK
    PROVE  TypeOK'
  BY DEF TypeOK, ProgramOK, LaserOK, AxesOK, sigVars

\* Each command of the program keeps the invariant.
LEMMA RunStepIInv ==
    ASSUME IInv, RunStep \/ FinalizeStep
    PROVE  IInv'
  <1> USE DEF IInv, At, Pcs, StartPcs, RunPcs, FinalizePcs, Ended, RowPcs,
              AnnouncedPcs, LitPcs, OffPcs
  <1> DEFINE Rest == StepInv' /\ AnnouncedInv' /\ ShutterInv' /\ OffInv'
  <1>0. /\ TypeOK /\ plan \in Plans /\ Len(plan) \in Nat /\ Len(plan) > 0
        /\ \A s \in 1 .. Len(plan) : /\ plan[s].hor \in Int /\ plan[s].ver \in Int
                                     /\ plan[s].freq \in Int /\ plan[s].att \in Int
    BY PlanFacts DEF TypeOK
  <1>1. CASE StartRate
    <2>1. SetRate(0) /\ 0 \in Nat
      BY <1>1 DEF StartRate
    <2>2. Closing /\ LaserOK
      BY <1>0, <2>1, RateFacts DEF LaserOK
    <2>3. ProgramOK
      BY <1>0, <1>1 DEF StartRate, ProgramOK, TypeOK, sigVars, StepInv
    <2>4. LaserOK /\ AxesOK
      BY <1>0, <1>1, <2>2, <2>3 DEF StartRate, LaserOK, AxesOK, TypeOK, laserVars, axisVars
    <2>5. Rest
      BY <1>0, <1>1, <2>2, <2>3 DEF StartRate, Closing, StepInv, AnnouncedInv,
         ShutterInv, OffInv, laserVars, TypeOK
    <2> QED BY <1>0, <2>3, <2>4, <2>5, TypeStep
  <1>2. CASE StartClose
    <2>1. Closing /\ LaserOK /\ (~failed' => ~shutter')
      BY <1>0, <1>2, CloseFacts DEF LaserOK, StartClose
    <2>2. ProgramOK
      BY <1>0, <1>2 DEF StartClose, ProgramOK, TypeOK, sigVars, StepInv
    <2>3. LaserOK /\ AxesOK
      BY <1>0, <1>2, <2>1, <2>2 DEF StartClose, LaserOK, AxesOK, TypeOK, laserVars, axisVars
    <2>4. Rest
      BY <1>0, <1>2, <2>1, <2>2 DEF StartClose, Closing, StepInv, AnnouncedInv,
         ShutterInv, OffInv, laserVars, TypeOK
    <2> QED BY <1>0, <2>2, <2>3, <2>4, TypeStep
  <1>3. CASE SendFirst
    <2>1. ProgramOK
      BY <1>0, <1>3 DEF SendFirst, NextRow, ProgramOK, TypeOK, sigVars, StepInv
    <2>2. LaserOK /\ AxesOK
      BY <1>0, <1>3, <2>1 DEF SendFirst, NextRow, LaserOK, AxesOK, TypeOK, laserVars,
         axisVars
    <2>3. Rest
      BY <1>0, <1>3, <2>1 DEF SendFirst, NextRow, Closing, StepInv, AnnouncedInv,
         ShutterInv, OffInv, laserVars, TypeOK
    <2> QED BY <1>0, <2>1, <2>2, <2>3, TypeStep
  <1>4. CASE MoveAttenuator
    <2>1. Row.att \in Int
      BY <1>0, <1>4 DEF MoveAttenuator, Row, StepInv, TypeOK
    <2>2. ProgramOK
      BY <1>0, <1>4 DEF MoveAttenuator, ProgramOK, TypeOK, sigVars, StepInv
    <2>3. LaserOK /\ AxesOK
      BY <1>0, <1>4, <2>1, <2>2 DEF MoveAttenuator, MoveTo, Axes, LaserOK,
         AxesOK, TypeOK, laserVars, axisVars
    <2>4. Rest
      BY <1>0, <1>4, <2>1, <2>2 DEF MoveAttenuator, MoveTo, Axes, Closing,
         StepInv, AnnouncedInv, ShutterInv, OffInv, laserVars, TypeOK
    <2> QED BY <1>0, <2>2, <2>3, <2>4, TypeStep
  <1>5. CASE AttenuatorDone
    <2>1. ProgramOK
      BY <1>0, <1>5 DEF AttenuatorDone, ProgramOK, TypeOK, sigVars, StepInv
    <2>2. LaserOK /\ AxesOK
      BY <1>0, <1>5, <2>1 DEF AttenuatorDone, LaserOK, AxesOK, TypeOK, laserVars, axisVars
    <2>3. Rest
      BY <1>0, <1>5, <2>1 DEF AttenuatorDone, Closing, StepInv, AnnouncedInv, ShutterInv,
         OffInv, laserVars, TypeOK
    <2> QED BY <1>0, <2>1, <2>2, <2>3, TypeStep
  <1>6. CASE SendRow
    <2>1. ProgramOK
      BY <1>0, <1>6 DEF SendRow, ProgramOK, TypeOK, sigVars, StepInv
    <2>2. LaserOK /\ AxesOK
      BY <1>0, <1>6, <2>1 DEF SendRow, LaserOK, AxesOK, TypeOK, laserVars, axisVars
    <2>3. Rest
      BY <1>0, <1>6, <2>1 DEF SendRow, Closing, StepInv, AnnouncedInv, ShutterInv,
         OffInv, laserVars, TypeOK
    <2> QED BY <1>0, <2>1, <2>2, <2>3, TypeStep
  <1>7. CASE RateBeforeMove
    <2>1. \E rate \in Nat : SetRate(rate)
      <3>1. Row.freq \in Int
        BY <1>0, <1>7 DEF RateBeforeMove, Row, StepInv, TypeOK
      <3> QED BY <1>7, <3>1 DEF RateBeforeMove
    <2>2. Closing /\ LaserOK
      BY <1>0, <2>1, RateFacts DEF LaserOK
    <2>3. ProgramOK
      BY <1>0, <1>7 DEF RateBeforeMove, ProgramOK, TypeOK, sigVars, StepInv
    <2>4. LaserOK /\ AxesOK
      BY <1>0, <1>7, <2>2, <2>3 DEF RateBeforeMove, LaserOK, AxesOK, TypeOK, laserVars,
         axisVars
    <2>5. Rest
      BY <1>0, <1>7, <2>2, <2>3 DEF RateBeforeMove, Closing, StepInv, AnnouncedInv,
         ShutterInv, OffInv, laserVars, TypeOK
    <2> QED BY <1>0, <2>3, <2>4, <2>5, TypeStep
  <1>8. CASE OpenBeforeMove
    <2>1. LaserOK /\ Opening
      BY <1>0, <1>8, OpenFacts DEF LaserOK, OpenBeforeMove
    <2>2. ProgramOK
      BY <1>0, <1>8 DEF OpenBeforeMove, ProgramOK, TypeOK, sigVars, StepInv
    <2>3. LaserOK /\ AxesOK
      BY <1>0, <1>8, <2>1, <2>2 DEF OpenBeforeMove, LaserOK, AxesOK, TypeOK, laserVars,
         axisVars
    <2>4. Rest
      BY <1>0, <1>8, <2>1, <2>2 DEF OpenBeforeMove, Opening, StepInv, AnnouncedInv,
         ShutterInv, OffInv, laserVars, TypeOK
    <2> QED BY <1>0, <2>2, <2>3, <2>4, TypeStep
  <1>9. CASE MoveRotary
    <2>1. Row.hor \in Int
      BY <1>0, <1>9 DEF MoveRotary, Row, StepInv, TypeOK
    <2>2. ProgramOK
      BY <1>0, <1>9 DEF MoveRotary, ProgramOK, TypeOK, sigVars, StepInv
    <2>3. LaserOK /\ AxesOK
      BY <1>0, <1>9, <2>1, <2>2 DEF MoveRotary, MoveTo, Axes, LaserOK, AxesOK, TypeOK,
         laserVars, axisVars
    <2>4. Rest
      BY <1>0, <1>9, <2>1, <2>2 DEF MoveRotary, MoveTo, Axes, Closing, StepInv,
         AnnouncedInv, ShutterInv, OffInv, laserVars, TypeOK
    <2> QED BY <1>0, <2>2, <2>3, <2>4, TypeStep
  <1>10. CASE RotaryDone
    <2>1. ProgramOK
      BY <1>0, <1>10 DEF RotaryDone, ProgramOK, TypeOK, sigVars, StepInv
    <2>2. LaserOK /\ AxesOK
      BY <1>0, <1>10, <2>1 DEF RotaryDone, LaserOK, AxesOK, TypeOK, laserVars, axisVars
    <2>3. Rest
      BY <1>0, <1>10, <2>1 DEF RotaryDone, Closing, StepInv, AnnouncedInv, ShutterInv,
         OffInv, laserVars, TypeOK
    <2> QED BY <1>0, <2>1, <2>2, <2>3, TypeStep
  <1>11. CASE MoveLinear
    <2>1. Row.ver \in Int
      BY <1>0, <1>11 DEF MoveLinear, Row, StepInv, TypeOK
    <2>2. ProgramOK
      BY <1>0, <1>11 DEF MoveLinear, ProgramOK, TypeOK, sigVars, StepInv
    <2>3. LaserOK /\ AxesOK
      BY <1>0, <1>11, <2>1, <2>2 DEF MoveLinear, MoveTo, Axes, LaserOK, AxesOK, TypeOK,
         laserVars, axisVars
    <2>4. Rest
      BY <1>0, <1>11, <2>1, <2>2 DEF MoveLinear, MoveTo, Axes, Closing, StepInv,
         AnnouncedInv, ShutterInv, OffInv, laserVars, TypeOK
    <2> QED BY <1>0, <2>2, <2>3, <2>4, TypeStep
  <1>12. CASE LinearDone
    <2>1. ProgramOK
      BY <1>0, <1>12 DEF LinearDone, ProgramOK, TypeOK, sigVars, StepInv
    <2>2. LaserOK /\ AxesOK
      BY <1>0, <1>12, <2>1 DEF LinearDone, LaserOK, AxesOK, TypeOK, laserVars, axisVars
    <2>3. Rest
      BY <1>0, <1>12, <2>1 DEF LinearDone, Closing, StepInv, AnnouncedInv, ShutterInv,
         OffInv, laserVars, TypeOK
    <2> QED BY <1>0, <2>1, <2>2, <2>3, TypeStep
  <1>13. CASE CloseAfterMove
    <2>1. Closing /\ LaserOK /\ (~failed' => ~shutter')
      BY <1>0, <1>13, CloseFacts DEF LaserOK, CloseAfterMove
    <2>2. ProgramOK
      BY <1>0, <1>13 DEF CloseAfterMove, ProgramOK, TypeOK, sigVars, StepInv
    <2>3. LaserOK /\ AxesOK
      BY <1>0, <1>13, <2>1, <2>2 DEF CloseAfterMove, LaserOK, AxesOK, TypeOK, laserVars,
         axisVars
    <2>4. Rest
      BY <1>0, <1>13, <2>1, <2>2 DEF CloseAfterMove, Closing, StepInv, AnnouncedInv,
         ShutterInv, OffInv, laserVars, TypeOK
    <2> QED BY <1>0, <2>2, <2>3, <2>4, TypeStep
  <1>14. CASE OpenForShots
    <2>1. LaserOK /\ Opening
      BY <1>0, <1>14, OpenFacts DEF LaserOK, OpenForShots
    <2>2. ProgramOK
      BY <1>0, <1>14 DEF OpenForShots, ProgramOK, TypeOK, sigVars, StepInv
    <2>3. LaserOK /\ AxesOK
      BY <1>0, <1>14, <2>1, <2>2 DEF OpenForShots, LaserOK, AxesOK, TypeOK, laserVars,
         axisVars
    <2>4. Rest
      BY <1>0, <1>14, <2>1, <2>2 DEF OpenForShots, Opening, StepInv, AnnouncedInv,
         ShutterInv, OffInv, laserVars, TypeOK
    <2> QED BY <1>0, <2>2, <2>3, <2>4, TypeStep
  <1>15. CASE SingleShot
    <2>1. ProgramOK
      BY <1>0, <1>15 DEF SingleShot, ProgramOK, TypeOK, sigVars, StepInv
    <2>2. LaserOK /\ AxesOK
      BY <1>0, <1>15, <2>1 DEF SingleShot, LaserOK, AxesOK, TypeOK, laserVars, axisVars
    <2>3. Rest
      BY <1>0, <1>15, <2>1 DEF SingleShot, Closing, StepInv, AnnouncedInv, ShutterInv,
         OffInv, laserVars, TypeOK
    <2> QED BY <1>0, <2>1, <2>2, <2>3, TypeStep
  <1>16. CASE RateForBurst
    <2>1. Magnitude(Row.freq) \in Nat /\ SetRate(Magnitude(Row.freq))
      <3>1. Row.freq \in Int
        BY <1>0, <1>16 DEF RateForBurst, Row, StepInv, TypeOK
      <3> QED BY <1>16, <3>1 DEF RateForBurst, Magnitude
    <2>2. Closing /\ LaserOK
      BY <1>0, <2>1, RateFacts DEF LaserOK
    <2>3. ProgramOK
      BY <1>0, <1>16 DEF RateForBurst, ProgramOK, TypeOK, sigVars, StepInv
    <2>4. LaserOK /\ AxesOK
      BY <1>0, <1>16, <2>2, <2>3 DEF RateForBurst, LaserOK, AxesOK, TypeOK, laserVars,
         axisVars
    <2>5. Rest
      BY <1>0, <1>16, <2>2, <2>3 DEF RateForBurst, Closing, StepInv, AnnouncedInv,
         ShutterInv, OffInv, laserVars, TypeOK
    <2> QED BY <1>0, <2>3, <2>4, <2>5, TypeStep
  <1>17. CASE BurstOver
    <2>1. ProgramOK
      BY <1>0, <1>17 DEF BurstOver, ProgramOK, TypeOK, sigVars, StepInv
    <2>2. LaserOK /\ AxesOK
      BY <1>0, <1>17, <2>1 DEF BurstOver, LaserOK, AxesOK, TypeOK, laserVars, axisVars
    <2>3. Rest
      BY <1>0, <1>17, <2>1 DEF BurstOver, Closing, StepInv, AnnouncedInv, ShutterInv,
         OffInv, laserVars, TypeOK
    <2> QED BY <1>0, <2>1, <2>2, <2>3, TypeStep
  <1>18. CASE CloseAfterShots
    <2>1. Closing /\ LaserOK /\ (~failed' => ~shutter')
      BY <1>0, <1>18, CloseFacts DEF LaserOK, CloseAfterShots
    <2>2. ProgramOK
      BY <1>0, <1>18 DEF CloseAfterShots, ProgramOK, TypeOK, sigVars, StepInv
    <2>3. LaserOK /\ AxesOK
      BY <1>0, <1>18, <2>1, <2>2 DEF CloseAfterShots, LaserOK, AxesOK, TypeOK, laserVars,
         axisVars
    <2>4. Rest
      BY <1>0, <1>18, <2>1, <2>2 DEF CloseAfterShots, Closing, StepInv, AnnouncedInv,
         ShutterInv, OffInv, laserVars, TypeOK
    <2> QED BY <1>0, <2>2, <2>3, <2>4, TypeStep
  <1>19. CASE RateZero
    <2>1. SetRate(0) /\ 0 \in Nat
      BY <1>19 DEF RateZero
    <2>2. Closing /\ LaserOK
      BY <1>0, <2>1, RateFacts DEF LaserOK
    <2>3. ProgramOK
      BY <1>0, <1>19 DEF RateZero, ProgramOK, TypeOK, sigVars, StepInv
    <2>4. LaserOK /\ AxesOK
      BY <1>0, <1>19, <2>2, <2>3 DEF RateZero, LaserOK, AxesOK, TypeOK, laserVars, axisVars
    <2>5. Rest
      BY <1>0, <1>19, <2>2, <2>3 DEF RateZero, Closing, StepInv, AnnouncedInv,
         ShutterInv, OffInv, laserVars, TypeOK
    <2> QED BY <1>0, <2>3, <2>4, <2>5, TypeStep
  <1>20. CASE SendReport
    <2>1. ProgramOK
      BY <1>0, <1>20 DEF SendReport, NextRow, ProgramOK, TypeOK, sigVars, StepInv
    <2>2. LaserOK /\ AxesOK
      BY <1>0, <1>20, <2>1 DEF SendReport, NextRow, LaserOK, AxesOK, TypeOK, laserVars,
         axisVars
    <2>3. Rest
      BY <1>0, <1>20, <2>1 DEF SendReport, NextRow, Closing, StepInv, AnnouncedInv,
         ShutterInv, OffInv, laserVars, TypeOK
    <2> QED BY <1>0, <2>1, <2>2, <2>3, TypeStep
  <1>21. CASE GotoIdle
    <2>1. ProgramOK
      BY <1>0, <1>21 DEF GotoIdle, ProgramOK, TypeOK, sigVars, StepInv
    <2>2. LaserOK /\ AxesOK
      BY <1>0, <1>21, ScanAssumption, <2>1 DEF GotoIdle, Axes, LaserOK, AxesOK, TypeOK,
         laserVars, axisVars
    <2>3. Rest
      BY <1>0, <1>21, ScanAssumption, <2>1 DEF GotoIdle, Axes, Closing, StepInv,
         AnnouncedInv, ShutterInv, OffInv, laserVars, TypeOK
    <2> QED BY <1>0, <2>1, <2>2, <2>3, TypeStep
  <1>22. CASE FinClose
    <2>1. Closing /\ LaserOK /\ (~failed' => ~shutter')
      BY <1>0, <1>22, CloseFacts DEF LaserOK, FinClose
    <2>2. ProgramOK
      BY <1>0, <1>22 DEF FinClose, ProgramOK, TypeOK, sigVars, StepInv
    <2>3. LaserOK /\ AxesOK
      BY <1>0, <1>22, <2>1, <2>2 DEF FinClose, LaserOK, AxesOK, TypeOK, laserVars, axisVars
    <2>4. Rest
      BY <1>0, <1>22, <2>1, <2>2 DEF FinClose, Closing, StepInv, AnnouncedInv,
         ShutterInv, OffInv, laserVars, TypeOK
    <2> QED BY <1>0, <2>2, <2>3, <2>4, TypeStep
  <1>23. CASE FinRate
    <2>1. SetRate(0) /\ 0 \in Nat
      BY <1>23 DEF FinRate
    <2>2. Closing /\ LaserOK
      BY <1>0, <2>1, RateFacts DEF LaserOK
    <2>3. ProgramOK
      BY <1>0, <1>23 DEF FinRate, ProgramOK, TypeOK, sigVars, StepInv
    <2>4. LaserOK /\ AxesOK
      BY <1>0, <1>23, <2>2, <2>3 DEF FinRate, LaserOK, AxesOK, TypeOK, laserVars, axisVars
    <2>5. Rest
      BY <1>0, <1>23, <2>2, <2>3 DEF FinRate, Closing, StepInv, AnnouncedInv, ShutterInv,
         OffInv, laserVars, TypeOK
    <2> QED BY <1>0, <2>3, <2>4, <2>5, TypeStep
  <1>24. CASE FinStop
    <2>1. ProgramOK
      BY <1>0, <1>24 DEF FinStop, ProgramOK, TypeOK, sigVars, StepInv
    <2>2. LaserOK /\ AxesOK
      BY <1>0, <1>24, <2>1 DEF FinStop, LaserOK, AxesOK, TypeOK, laserVars, axisVars
    <2>3. Rest
      BY <1>0, <1>24, <2>1 DEF FinStop, Closing, StepInv, AnnouncedInv, ShutterInv,
         OffInv, laserVars, TypeOK
    <2> QED BY <1>0, <2>1, <2>2, <2>3, TypeStep
  <1>25. CASE FinPorts
    <2>1. ProgramOK
      BY <1>0, <1>25 DEF FinPorts, ProgramOK, TypeOK, sigVars, StepInv
    <2>2. LaserOK /\ AxesOK
      BY <1>0, <1>25, <2>1 DEF FinPorts, LaserOK, AxesOK, TypeOK, laserVars, axisVars
    <2>3. Rest
      BY <1>0, <1>25, <2>1 DEF FinPorts, Closing, StepInv, AnnouncedInv, ShutterInv,
         OffInv, laserVars, TypeOK
    <2> QED BY <1>0, <2>1, <2>2, <2>3, TypeStep
  <1> QED BY <1>1, <1>2, <1>3, <1>4, <1>5, <1>6, <1>7, <1>8, <1>9, <1>10, <1>11, <1>12,
       <1>13, <1>14, <1>15, <1>16, <1>17, <1>18, <1>19, <1>20, <1>21, <1>22, <1>23,
          <1>24, <1>25 DEF RunStep, FinalizeStep

\* Signals, handlers and exceptions keep the invariant.
LEMMA SignalIInv ==
    ASSUME IInv, (\E term \in BOOLEAN : Signal(term)) \/ HandlerStep \/ Raise
    PROVE  IInv'
  <1> USE DEF IInv, Pcs, StartPcs, RunPcs, FinalizePcs, Ended, RowPcs, AnnouncedPcs, LitPcs,
              OffPcs
  <1>1. ASSUME NEW term \in BOOLEAN, Signal(term) PROVE IInv'
    <2>1. TypeOK'
      BY <1>1, StopFacts, ScanAssumption DEF Signal, TypeOK, laserVars, axisVars
    <2>2. StepInv' /\ AnnouncedInv' /\ ShutterInv' /\ OffInv'
      BY <1>1 DEF Signal, StepInv, AnnouncedInv, ShutterInv, OffInv, laserVars
    <2> QED BY <2>1, <2>2
  <1>2. CASE HandlerStep
    <2>1. handler \in Seq(Axes \cup {"closeShutter"}) /\ handler # <<>>
      BY <1>2 DEF HandlerStep, Running, TypeOK
    <2>2. /\ Head(handler) \in Axes \cup {"closeShutter"}
          /\ Tail(handler) \in Seq(Axes \cup {"closeShutter"})
      BY <2>1
    <2>3. LaserOK /\ Closing /\ target' \in [Axes -> Int]
      <3>1. CASE Head(handler) = "closeShutter"
        BY <1>2, <3>1, CloseFacts DEF HandlerStep, LaserOK, TypeOK
      <3>2. CASE Head(handler) # "closeShutter"
        BY <1>2, <2>2, <3>2 DEF HandlerStep, MoveTo, LaserOK, Closing, laserVars, TypeOK
      <3> QED BY <3>1, <3>2
    <2>4. /\ pc' = pc \/ pc' = AfterException
          /\ UNCHANGED <<plan, step, announced, pos, exiting, signals>>
          /\ handler' = Tail(handler)
      BY <1>2 DEF HandlerStep
    <2>5. TypeOK'
      BY <2>2, <2>3, <2>4 DEF TypeOK, LaserOK, AfterException
    <2>6. StepInv' /\ AnnouncedInv' /\ ShutterInv' /\ OffInv'
      BY <2>3, <2>4 DEF StepInv, AnnouncedInv, ShutterInv, OffInv, Closing, LaserOK,
         AfterException
    <2> QED BY <2>5, <2>6
  <1>3. CASE Raise
    <2>1. TypeOK'
      BY <1>3 DEF Raise, AfterException, TypeOK, laserVars, axisVars
    <2>2. StepInv' /\ AnnouncedInv' /\ ShutterInv' /\ OffInv'
      BY <1>3 DEF Raise, AfterException, StepInv, AnnouncedInv, ShutterInv, OffInv,
         laserVars
    <2> QED BY <2>1, <2>2
  <1> QED BY <1>1, <1>2, <1>3

-----------------------------------------------------------------------------
\* The invariant holds in every reachable state.
THEOREM Invariance == Spec => []IInv
  <1>1. Init => IInv
    <2> SUFFICES ASSUME Init PROVE IInv
      OBVIOUS
    <2>1. Len(plan) \in Nat
      BY PlanFacts DEF Init
    <2>2. TypeOK
      <3>1. pos \in [Axes -> Int] /\ target \in [Axes -> Int]
        BY DEF Init
      <3>2. step \in 0 .. Len(plan) /\ announced \in -1 .. Len(plan)
            /\ signals \in 0 .. MaxCtrlC
        BY <2>1, ScanAssumption DEF Init
      <3>3. handler \in Seq(Axes \cup {"closeShutter"})
        BY DEF Init
      <3>4. shutter \in BOOLEAN /\ on \in BOOLEAN /\ failed \in BOOLEAN
            /\ exiting \in BOOLEAN
        BY Zenon DEF Init
      <3>5. pd \in 0 .. 10 /\ plan \in Plans /\ pc \in Pcs
        BY SMT DEF Init, Pcs, StartPcs
      <3> QED BY <3>1, <3>2, <3>3, <3>4, <3>5 DEF TypeOK
    <2> QED BY <2>2
      DEF Init, IInv, StepInv, AnnouncedInv, ShutterInv, OffInv, RowPcs, AnnouncedPcs,
         OffPcs
  <1>2. IInv /\ [Next]_vars => IInv'
    <2> SUFFICES ASSUME IInv, [Next]_vars PROVE IInv'
      OBVIOUS
    <2>1. ASSUME NEW a \in Axes, AxisMoves(a) PROVE IInv'
      BY <2>1 DEF AxisMoves, IInv, TypeOK, StepInv, AnnouncedInv, ShutterInv, OffInv,
         laserVars,
         sigVars
    <2>2. CASE UNCHANGED vars
      BY <2>2 DEF vars, IInv, TypeOK, StepInv, AnnouncedInv, ShutterInv, OffInv, laserVars,
         axisVars, sigVars
    <2> QED BY <2>1, <2>2, RunStepIInv, SignalIInv DEF Next
  <1> QED BY <1>1, <1>2, PTL DEF Spec

\* The variables keep their types, the step stays within the scan and the pulse
\* division is one that the laser knows.
THEOREM TypeCorrect == Spec => []TypeOK
  <1>1. IInv => TypeOK
    BY DEF IInv
  <1> QED BY <1>1, Invariance, PTL

\* As long as the laser obeys, light leaves it only in the row that the
\* assembler was told of, whatever signals and exceptions do to the run.
THEOREM LightIsAnnounced == Spec => []ShotsAnnounced
  <1>1. IInv => ShotsAnnounced
    BY DEF IInv, ShutterInv, ShotsAnnounced, Firing
  <1> QED BY <1>1, Invariance, PTL

\* A finalized run leaves no light behind, however it came to its end.
THEOREM DarkInTheEnd == Spec => []DarkWhenDone
  <1>1. IInv => DarkWhenDone
    BY DEF IInv, ShutterInv, OffInv, LitPcs, OffPcs, DarkWhenDone
  <1> QED BY <1>1, Invariance, PTL
-----------------------------------------------------------------------------
(* Where the scan has an axis after a row.  Planned is a recursive         *)
(* function: that it satisfies its definition, and how it goes from row to *)
(* row, is shown by induction, in the form that a set of numbers has a     *)
(* least element.                                                          *)

\* A set of natural numbers has a least element.
LEMMA LeastNumber ==
    ASSUME NEW S, S \subseteq Nat, S # {}
    PROVE  \E m \in S : \A n \in S : ~(n < m)
  <1> DEFINE R == OpToRel(<, Nat)
  <1>1. \E x \in S : \A y \in S : ~(<<y, x>> \in R)
    <2>1. IsWellFoundedOn(R, Nat)
      BY NatLessThanWellFounded
    <2> HIDE DEF R
    <2> QED BY <2>1, WFMin
  <1>2. \A x, y \in Nat : y < x => <<y, x>> \in R
    BY DEF OpToRel
  <1> HIDE DEF R
  <1> QED BY <1>1, <1>2

\* f is what d adds up to, as far as n.
Adds(f, d, n) == f = [i \in 0 .. n |-> IF i = 0 THEN 0 ELSE f[i - 1] + d[i]]

\* Everything adds up, as far as one likes.
LEMMA SumExists ==
    ASSUME NEW d, NEW N \in Nat
    PROVE  \E f : Adds(f, d, N)
  <1> DEFINE S == {n \in Nat : ~ \E f : Adds(f, d, n)}
  <1> SUFFICES ASSUME S # {} PROVE FALSE
    OBVIOUS
  <1>1. PICK m \in S : \A n \in S : ~(n < m)
    <2>1. S \subseteq Nat
      OBVIOUS
    <2> HIDE DEF S
    <2> QED BY <2>1, LeastNumber
  <1>2. CASE m = 0
    <2>1. Adds([i \in 0 .. 0 |-> 0], d, 0)
      BY DEF Adds
    <2> QED BY <1>1, <1>2, <2>1
  <1>3. CASE m # 0
    <2>1. m - 1 \in Nat /\ m - 1 \notin S /\ m \in Nat
      BY <1>1, <1>3
    <2>2. PICK f : Adds(f, d, m - 1)
      BY <2>1
    <2> DEFINE g == [i \in 0 .. m |-> IF i = m THEN f[m - 1] + d[m] ELSE f[i]]
    <2>3. \A i \in 0 .. m - 1 : f[i] = IF i = 0 THEN 0 ELSE f[i - 1] + d[i]
      BY <2>2 DEF Adds
    <2>4. ASSUME NEW i \in 0 .. m PROVE g[i] = IF i = 0 THEN 0 ELSE g[i - 1] + d[i]
      <3>1. CASE i = m
        BY <3>1, <1>3, <2>1
      <3>2. CASE i # m
        BY <3>2, <2>1, <2>3
      <3> QED BY <3>1, <3>2
    <2>5. g = [i \in 0 .. m |-> IF i = 0 THEN 0 ELSE g[i - 1] + d[i]]
      <3>1. g = [i \in 0 .. m |-> g[i]]
        OBVIOUS
      <3> HIDE DEF g
      <3> QED BY <3>1, <2>4
    <2>6. Adds(g, d, m)
      BY <2>5 DEF Adds
    <2> QED BY <2>6, <1>1
  <1> QED BY <1>2, <1>3

Move(a, i) == IF a = "rotary" THEN plan[i].hor ELSE plan[i].ver

\* The planned position starts at the origin and goes by the moves of the rows.
LEMMA PlannedSum ==
    ASSUME NEW a, Len(plan) \in Nat
    PROVE  /\ Planned(a, 0) = 0
           /\ \A s \in 1 .. Len(plan) : Planned(a, s) = Planned(a, s - 1) + Move(a, s)
  <1> DEFINE at[i \in 0 .. Len(plan)] ==
                IF i = 0 THEN 0
                ELSE at[i - 1] + (IF a = "rotary" THEN plan[i].hor ELSE plan[i].ver)
  <1> DEFINE Rule(f) == f = [i \in 0 .. Len(plan) |->
                IF i = 0 THEN 0
                ELSE f[i - 1] + (IF a = "rotary" THEN plan[i].hor ELSE plan[i].ver)]
  <1>1. Rule(at)
    <2>1. \E f : Rule(f)
      <3> DEFINE d == [i \in 1 .. Len(plan) |->
                          IF a = "rotary" THEN plan[i].hor ELSE plan[i].ver]
      <3>1. PICK f : Adds(f, d, Len(plan))
        <4> HIDE DEF d
        <4> QED BY SumExists
      <3>2. \A i \in 0 .. Len(plan) : i # 0 =>
                d[i] = IF a = "rotary" THEN plan[i].hor ELSE plan[i].ver
        OBVIOUS
      <3> HIDE DEF d
      <3>3. Rule(f)
        BY <3>1, <3>2 DEF Adds
      <3> QED BY <3>3
    <2> QED BY <2>1, Zenon
  <1>2. \A s : Planned(a, s) = at[s]
    BY Zenon DEF Planned
  <1> HIDE DEF at
  <1>3. at[0] = 0
    BY <1>1
  <1>4. ASSUME NEW s \in 1 .. Len(plan) PROVE at[s] = at[s - 1] + Move(a, s)
    BY <1>1 DEF Move
  <1> QED BY <1>2, <1>3, <1>4

\* The planned positions are numbers.
LEMMA PlannedInt ==
    ASSUME NEW a, plan \in Plans
    PROVE  \A s \in 0 .. Len(plan) : Planned(a, s) \in Int
  <1>0. /\ Len(plan) \in Nat
        /\ \A s \in 1 .. Len(plan) : plan[s].hor \in Int /\ plan[s].ver \in Int
    BY PlanFacts
  <1> DEFINE S == {s \in 0 .. Len(plan) : Planned(a, s) \notin Int}
  <1> SUFFICES ASSUME S # {} PROVE FALSE
    OBVIOUS
  <1>1. PICK m \in S : \A n \in S : ~(n < m)
    <2>1. S \subseteq Nat
      BY <1>0
    <2> HIDE DEF S
    <2> QED BY <2>1, LeastNumber
  <1>2. m # 0 /\ m \in 1 .. Len(plan)
    BY <1>0, <1>1, PlannedSum
  <1>3. m - 1 \in 0 .. Len(plan) /\ m - 1 \notin S
    BY <1>0, <1>1, <1>2
  <1>4. Planned(a, m) = Planned(a, m - 1) + Move(a, m) /\ Move(a, m) \in Int
    BY <1>0, <1>2, PlannedSum DEF Move
  <1> QED BY <1>1, <1>3, <1>4
-----------------------------------------------------------------------------
(* Where and how a run shoots that nothing has disturbed: in front of a    *)
(* movement the axes stand where the scan had them after the row before,   *)
(* behind it where it has them after this row.                             *)

\* Where the scan has each axis after each row.
Travel == [a \in {"rotary", "linear"} |-> [s \in 0 .. Len(plan) |-> Planned(a, s)]]

Undisturbed == ~failed /\ signals = 0

FirstPcs == StartPcs \cup {"begin"}
BeforeRotary == {"att", "attWait", "send", "rate", "open", "rot"}
BeforeLinear == BeforeRotary \cup {"rotWait", "lin"}
AfterLinear == {"close", "openSingle", "single", "closeSingle", "rateBurst", "openBurst",
                "burst", "closeBurst", "rateZero", "report", "idle"}
AfterRotary == {"lin", "linWait"} \cup AfterLinear

StandsAt(a, x) == pos[a] = x /\ target[a] = x
OnTheWay(a) == Between(pos[a], Travel[a][step - 1], Travel[a][step])

PlaceInv ==
    /\ pc \in FirstPcs => StandsAt("rotary", 0) /\ StandsAt("linear", 0)
    /\ pc \in BeforeRotary => StandsAt("rotary", Travel["rotary"][step - 1])
    /\ pc = "rotWait" => target["rotary"] = Travel["rotary"][step] /\ OnTheWay("rotary")
    /\ pc \in AfterRotary => StandsAt("rotary", Travel["rotary"][step])
    /\ pc \in BeforeLinear => StandsAt("linear", Travel["linear"][step - 1])
    /\ pc = "linWait" => target["linear"] = Travel["linear"][step] /\ OnTheWay("linear")
    /\ pc \in AfterLinear => StandsAt("linear", Travel["linear"][step])

AttInv ==
    /\ pc = "attWait" => target["attenuator"] = Row.att
    /\ pc \in AnnouncedPcs \cup {"send"} => StandsAt("attenuator", Row.att)

\* The laser is set to a rate that it does not refuse.
Divides(rate) == rate <= 10 => pd = 10 \div rate

RateInv ==
    /\ pc = "open" => Row.freq > 0 /\ Divides(Row.freq)
    /\ pc \in {"rot", "rotWait", "lin", "linWait", "close"} =>
          IF Row.freq > 0 THEN Divides(Row.freq) ELSE ~shutter /\ pd = 0
    /\ pc \in {"openSingle", "single", "closeSingle"} => Row.freq = 0 /\ pd = 0
    /\ pc = "rateBurst" => Row.freq < 0 /\ Row.count > 0
    /\ pc \in {"openBurst", "burst", "closeBurst"} =>
          Row.freq < 0 /\ Row.count > 0 /\ Divides(-Row.freq)

\* The shutter is open: how the laser fires, and where the axes are and may get.
Aimed(a) ==
    IF Row.freq > 0
    THEN OnTheWay(a) /\ Between(target[a], Travel[a][step - 1], Travel[a][step])
    ELSE StandsAt(a, Travel[a][step])
LitRow ==
    /\ step > 0
    /\ StandsAt("attenuator", Row.att)
    /\ Aimed("rotary") /\ Aimed("linear")
    /\ Row.freq > 0 => Divides(Row.freq)
    /\ Row.freq = 0 => pd = 0
    /\ Row.freq < 0 => Row.count > 0 /\ Divides(-Row.freq)
LitInv == shutter => LitRow

ShotInv == Undisturbed => handler = <<>> /\ PlaceInv /\ AttInv /\ RateInv /\ LitInv

\* What the rows say, and how the plan goes from row to row.
PlanSays ==
    /\ plan \in Plans /\ Len(plan) \in Nat
    /\ \A s \in 1 .. Len(plan) : /\ plan[s].hor \in Int /\ plan[s].ver \in Int
                                 /\ plan[s].freq \in Int /\ plan[s].att \in Int
    /\ Travel["rotary"][0] = 0 /\ Travel["linear"][0] = 0
    /\ \A s \in 0 .. Len(plan) : Travel["rotary"][s] \in Int /\ Travel["linear"][s] \in Int
    /\ \A s \in 1 .. Len(plan) :
          /\ Travel["rotary"][s] = Travel["rotary"][s - 1] + plan[s].hor
          /\ Travel["linear"][s] = Travel["linear"][s - 1] + plan[s].ver

\* They do so for every scan.
LEMMA PlanSaid ==
    ASSUME plan \in Plans
    PROVE  PlanSays
  <1>1. /\ Len(plan) \in Nat
        /\ \A s \in 1 .. Len(plan) : /\ plan[s].hor \in Int /\ plan[s].ver \in Int
                                     /\ plan[s].freq \in Int /\ plan[s].att \in Int
    BY PlanFacts
  <1>3. \A s \in 0 .. Len(plan) : /\ Travel["rotary"][s] = Planned("rotary", s)
                                  /\ Travel["linear"][s] = Planned("linear", s)
    BY DEF Travel
  <1>4. \A s \in 1 .. Len(plan) : s \in 0 .. Len(plan) /\ s - 1 \in 0 .. Len(plan)
    BY <1>1
  <1>5. Travel["rotary"][0] = 0 /\ Travel["linear"][0] = 0
    BY <1>1, <1>3, PlannedSum
  <1>6. \A s \in 1 .. Len(plan) :
           Move("rotary", s) = plan[s].hor /\ Move("linear", s) = plan[s].ver
    BY DEF Move
  <1>7. \A s \in 1 .. Len(plan) :
           /\ Travel["rotary"][s] = Travel["rotary"][s - 1] + plan[s].hor
           /\ Travel["linear"][s] = Travel["linear"][s - 1] + plan[s].ver
    BY <1>1, <1>3, <1>4, <1>6, PlannedSum
  <1>8. \A s \in 0 .. Len(plan) : Travel["rotary"][s] \in Int /\ Travel["linear"][s] \in Int
    BY <1>3, PlannedInt
  <1> QED BY <1>1, <1>5, <1>7, <1>8 DEF PlanSays

\* No step changes the plan.
LEMMA TravelKept == ASSUME plan' = plan PROVE Travel' = Travel
  BY DEF Travel, Planned

\* A command to the laser that does not fail is obeyed.
LEMMA LaserObeys ==
    ASSUME NEW open, NEW n, failed \in BOOLEAN, SetLaser(open, n), ~failed'
    PROVE  ~failed /\ shutter' = open /\ pd' = n
  BY DEF SetLaser

\* So is a rate that it does not refuse, and another changes nothing.
LEMMA RateObeyed ==
    ASSUME TypeOK, NEW rate \in Nat, SetRate(rate), ~failed'
    PROVE  /\ ~failed /\ shutter' = shutter
           /\ rate = 0 => pd' = 0
           /\ rate > 0 /\ rate <= 10 => pd' = 10 \div rate
  <1>1. failed \in BOOLEAN
    BY DEF TypeOK
  <1>2. CASE rate = 0
    <2>1. SetLaser(shutter, 0)
      BY <1>2 DEF SetRate
    <2> QED BY <1>1, <1>2, <2>1, LaserObeys
  <1>3. CASE rate > 0 /\ rate <= 10
    <2>1. SetLaser(shutter, 10 \div rate)
      BY <1>3 DEF SetRate
    <2> QED BY <1>1, <1>3, <2>1, LaserObeys
  <1>4. CASE rate > 10
    BY <1>1, <1>4 DEF SetRate, laserVars
  <1> QED BY <1>2, <1>3, <1>4

\* The shutter closes, and the rate stays.
LEMMA CloseObeyed ==
    ASSUME TypeOK, CloseShutter, ~failed'
    PROVE  ~failed /\ ~shutter' /\ pd' = pd
  BY DEF CloseShutter, SetLaser, TypeOK

\* The shutter opens, and the rate stays.
LEMMA OpenObeyed ==
    ASSUME TypeOK, OpenShutter, ~failed'
    PROVE  ~failed /\ shutter' /\ pd' = pd
  BY DEF OpenShutter, SetLaser, TypeOK

\* What PlanSays of the row being made.
RowSays ==
    /\ step \in 1 .. Len(plan)
    /\ Row.freq \in Int /\ Row.hor \in Int /\ Row.ver \in Int
    /\ Travel["rotary"][step - 1] \in Int /\ Travel["linear"][step - 1] \in Int
    /\ Travel["rotary"][step] = Travel["rotary"][step - 1] + Row.hor
    /\ Travel["linear"][step] = Travel["linear"][step - 1] + Row.ver

\* The row being made is a row of the plan.
LEMMA RowSaid ==
    ASSUME PlanSays, step \in 1 .. Len(plan)
    PROVE  RowSays
  <1>1. step - 1 \in 0 .. Len(plan)
    BY DEF PlanSays
  <1> QED BY <1>1 DEF PlanSays, RowSays, Row

\* The way of a row has its ends on it.
LEMMA RowEnds ==
    ASSUME RowSays, NEW a \in {"rotary", "linear"}
    PROVE  /\ Travel[a][step - 1] \in Int /\ Travel[a][step] \in Int
           /\ Between(Travel[a][step - 1], Travel[a][step - 1], Travel[a][step])
           /\ Between(Travel[a][step], Travel[a][step - 1], Travel[a][step])
  <1>1. Travel[a][step - 1] \in Int /\ Travel[a][step] \in Int
    <2>1. CASE a = "rotary"
      BY <2>1 DEF RowSays
    <2>2. CASE a = "linear"
      BY <2>2 DEF RowSays
    <2> QED BY <2>1, <2>2
  <1>2. \A x \in Int : \A y \in Int : Between(x, x, y) /\ Between(y, x, y)
    BY DEF Between
  <1> QED BY <1>1, <1>2

\* An axis that stands where its row begins is aimed for a row that shoots on the way.
LEMMA AimedAtStart ==
    ASSUME RowSays, NEW a \in {"rotary", "linear"}, Row.freq > 0,
           StandsAt(a, Travel[a][step - 1])
    PROVE  Aimed(a)
  BY RowEnds, Zenon DEF Aimed, OnTheWay, StandsAt

\* And one that stands where it ends is for a row that shoots there.
LEMMA AimedAtEnd ==
    ASSUME RowSays, NEW a \in {"rotary", "linear"}, Row.freq <= 0, StandsAt(a, Travel[a][step])
    PROVE  Aimed(a)
  <1>1. ~(Row.freq > 0)
    BY DEF RowSays
  <1> QED BY <1>1, Zenon DEF Aimed

\* Each command of the program keeps the axes to the plan.
LEMMA RunStepShotInv ==
    ASSUME IInv, IInv', ShotInv, RunStep \/ FinalizeStep
    PROVE  ShotInv'
  <1> SUFFICES ASSUME Undisturbed'
               PROVE  (handler = <<>> /\ PlaceInv /\ AttInv /\ RateInv /\ LitInv)'
    BY DEF ShotInv
  <1> USE DEF At, Pcs, StartPcs, RunPcs, FinalizePcs, Ended, FirstPcs, BeforeRotary,
              BeforeLinear, AfterLinear, AfterRotary, AnnouncedPcs, RowPcs, Divides
  <1>t. /\ TypeOK /\ step \in 0 .. Len(plan)
        /\ (pc \in RowPcs => step \in 1 .. Len(plan))
        /\ (pc \in FirstPcs => step = 0)
        /\ pos \in [Axes -> Int] /\ target \in [Axes -> Int]
    <2>1. TypeOK /\ StepInv /\ Len(plan) \in Nat
      BY PlanFacts DEF IInv, TypeOK
    <2> QED BY <2>1 DEF TypeOK, StepInv
  <1>p. PlanSays
    BY <1>t, PlanSaid DEF TypeOK
  <1>r. pc \in RowPcs => RowSays
    BY <1>t, <1>p, RowSaid
  <1>q. /\ plan' = plan /\ handler' = handler /\ signals' = signals
    BY DEF RunStep, FinalizeStep, StartRate, StartClose, SendFirst, MoveAttenuator,
       AttenuatorDone, SendRow, RateBeforeMove, OpenBeforeMove, MoveRotary, RotaryDone,
       MoveLinear, LinearDone, CloseAfterMove, OpenForShots, SingleShot, RateForBurst,
       BurstOver, CloseAfterShots, RateZero, SendReport, GotoIdle, FinClose, FinRate,
          FinStop,
       FinPorts, sigVars
  <1>f. ~failed' /\ signals' = 0 /\ failed \in BOOLEAN
    BY <1>t DEF Undisturbed, TypeOK
  <1>k. Travel' = Travel
    BY <1>q, TravelKept
  <1>s. ~failed => handler = <<>> /\ PlaceInv /\ AttInv /\ RateInv /\ LitInv
    BY <1>q, <1>f DEF ShotInv, Undisturbed
  <1>l. ~failed' /\ shutter' => pc' \in LitPcs
    BY DEF IInv, ShutterInv
  <1>m. ~failed /\ shutter => pc \in LitPcs
    BY DEF IInv, ShutterInv
  <1>1. CASE StartRate
    <2>1. ~failed /\ shutter' = shutter /\ pd' = 0
      BY <1>t, <1>f, <1>1, RateObeyed DEF StartRate
    <2>2. PlaceInv'
      BY <1>t, <1>r, <1>q, <1>k, <1>1, <1>s, <2>1 DEF StartRate, Row, StandsAt, OnTheWay,
         axisVars, PlaceInv, RowSays
    <2>3. AttInv'
      BY <1>t, <1>r, <1>q, <1>k, <1>1, <1>s, <2>1 DEF StartRate, Row, StandsAt, OnTheWay,
         axisVars, AttInv, RowSays
    <2>4. RateInv'
      BY <1>t, <1>r, <1>q, <1>k, <1>1, <1>s, <1>m, <2>1 DEF StartRate, Row, StandsAt,
         OnTheWay, axisVars, RateInv, LitPcs, RowSays
    <2>5. LitInv'
      BY <1>l, <1>m, <1>f, <1>1, <2>1 DEF StartRate, NextRow, LitInv, LitPcs
    <2> QED BY <1>q, <1>s, <2>1, <2>2, <2>3, <2>4, <2>5
  <1>2. CASE StartClose
    <2>1. ~failed /\ ~shutter' /\ pd' = pd
      BY <1>t, <1>f, <1>2, CloseObeyed DEF StartClose
    <2>2. PlaceInv'
      BY <1>t, <1>r, <1>q, <1>k, <1>2, <1>s, <2>1 DEF StartClose, Row, StandsAt,
         OnTheWay, axisVars, PlaceInv, RowSays
    <2>3. AttInv'
      BY <1>t, <1>r, <1>q, <1>k, <1>2, <1>s, <2>1 DEF StartClose, Row, StandsAt,
         OnTheWay, axisVars, AttInv, RowSays
    <2>4. RateInv'
      BY <1>t, <1>r, <1>q, <1>k, <1>2, <1>s, <1>m, <2>1 DEF StartClose, Row, StandsAt,
         OnTheWay, axisVars, RateInv, LitPcs, RowSays
    <2>5. LitInv'
      BY <2>1 DEF LitInv
    <2> QED BY <1>q, <1>s, <2>1, <2>2, <2>3, <2>4, <2>5
  <1>3. CASE SendFirst
    <2>1. ~failed /\ shutter' = shutter /\ pd' = pd
      BY <1>f, <1>3 DEF SendFirst, laserVars
    <2>2. PlaceInv'
      <3>1. /\ StandsAt("rotary", 0) /\ StandsAt("linear", 0) /\ UNCHANGED <<pos, target>>
            /\ Travel["rotary"][0] = 0 /\ Travel["linear"][0] = 0
        BY <1>p, <1>s, <1>3, <2>1 DEF SendFirst, PlaceInv, PlanSays, axisVars
      <3>2. CASE pc' = "begin"
        BY <3>1, <3>2 DEF PlaceInv, StandsAt
      <3>3. CASE pc' = "att" /\ step' - 1 = 0
        BY <1>k, <3>1, <3>3 DEF PlaceInv, StandsAt
      <3>4. pc' = "begin" \/ (pc' = "att" /\ step' - 1 = 0)
        BY <1>t, <1>p, <1>3 DEF SendFirst, NextRow, IInv, TypeOK, PlanSays
      <3> QED BY <3>2, <3>3, <3>4
    <2>3. AttInv'
      BY <1>t, <1>p, <1>q, <1>k, <1>3, <1>s, <2>1 DEF SendFirst, Row, StandsAt, OnTheWay,
         axisVars, NextRow, AttInv, PlanSays
    <2>4. RateInv'
      BY <1>t, <1>p, <1>q, <1>k, <1>3, <1>s, <1>m, <2>1 DEF SendFirst, Row, StandsAt,
         OnTheWay, axisVars, NextRow, RateInv, LitPcs, PlanSays
    <2>5. LitInv'
      BY <1>l, <1>m, <1>f, <1>3, <2>1 DEF SendFirst, NextRow, LitInv, LitPcs
    <2> QED BY <1>q, <1>s, <2>1, <2>2, <2>3, <2>4, <2>5
  <1>4. CASE MoveAttenuator
    <2>1. ~failed /\ shutter' = shutter /\ pd' = pd
      BY <1>f, <1>4 DEF MoveAttenuator, laserVars
    <2>2. PlaceInv'
      BY <1>t, <1>r, <1>q, <1>k, <1>4, <1>s, <2>1 DEF MoveAttenuator, Row, StandsAt,
         OnTheWay, axisVars, MoveTo, Axes, Between, PlaceInv, RowSays
    <2>3. AttInv'
      BY <1>t, <1>r, <1>q, <1>k, <1>4, <1>s, <2>1 DEF MoveAttenuator, Row, StandsAt,
         OnTheWay, axisVars, MoveTo, Axes, Between, AttInv, RowSays
    <2>4. RateInv'
      BY <1>t, <1>r, <1>q, <1>k, <1>4, <1>s, <1>m, <2>1 DEF MoveAttenuator, Row,
         StandsAt, OnTheWay, axisVars, MoveTo, Axes, Between, RateInv, LitPcs, RowSays
    <2>5. LitInv'
      BY <1>l, <1>m, <1>f, <1>4, <2>1 DEF MoveAttenuator, NextRow, LitInv, LitPcs
    <2> QED BY <1>q, <1>s, <2>1, <2>2, <2>3, <2>4, <2>5
  <1>5. CASE AttenuatorDone
    <2>1. ~failed /\ shutter' = shutter /\ pd' = pd
      BY <1>f, <1>5 DEF AttenuatorDone, laserVars
    <2>2. PlaceInv'
      BY <1>t, <1>r, <1>q, <1>k, <1>5, <1>s, <2>1 DEF AttenuatorDone, Row, StandsAt,
         OnTheWay, axisVars, Moving, MovementOver, Between, PlaceInv, RowSays
    <2>3. AttInv'
      BY <1>t, <1>r, <1>q, <1>k, <1>5, <1>s, <2>1 DEF AttenuatorDone, Row, StandsAt,
         OnTheWay, axisVars, Moving, MovementOver, Between, AttInv, RowSays
    <2>4. RateInv'
      BY <1>t, <1>r, <1>q, <1>k, <1>5, <1>s, <1>m, <2>1 DEF AttenuatorDone, Row,
         StandsAt, OnTheWay, axisVars, Moving, MovementOver, Between, RateInv, LitPcs,
            RowSays
    <2>5. LitInv'
      BY <1>l, <1>m, <1>f, <1>5, <2>1 DEF AttenuatorDone, NextRow, LitInv, LitPcs
    <2> QED BY <1>q, <1>s, <2>1, <2>2, <2>3, <2>4, <2>5
  <1>6. CASE SendRow
    <2>1. ~failed /\ shutter' = shutter /\ pd' = pd
      BY <1>f, <1>6 DEF SendRow, laserVars
    <2>2. PlaceInv'
      BY <1>t, <1>r, <1>q, <1>k, <1>6, <1>s, <2>1 DEF SendRow, Row, StandsAt, OnTheWay,
         axisVars, PlaceInv, RowSays
    <2>3. AttInv'
      BY <1>t, <1>r, <1>q, <1>k, <1>6, <1>s, <2>1 DEF SendRow, Row, StandsAt, OnTheWay,
         axisVars, AttInv, RowSays
    <2>4. RateInv'
      BY <1>t, <1>r, <1>q, <1>k, <1>6, <1>s, <1>m, <2>1 DEF SendRow, Row, StandsAt,
         OnTheWay, axisVars, RateInv, LitPcs, RowSays
    <2>5. LitInv'
      BY <1>l, <1>m, <1>f, <1>6, <2>1 DEF SendRow, NextRow, LitInv, LitPcs
    <2> QED BY <1>q, <1>s, <2>1, <2>2, <2>3, <2>4, <2>5
  <1>7. CASE RateBeforeMove
    <2>1. /\ ~failed /\ shutter' = shutter
          /\ Row.freq > 0 /\ Row.freq <= 10 => pd' = 10 \div Row.freq
          /\ Row.freq <= 0 => pd' = 0
      <3>1. Row.freq \in Int
        BY <1>r, <1>7 DEF RateBeforeMove, RowSays
      <3>2. CASE Row.freq > 0
        <4>1. SetRate(Row.freq) /\ Row.freq \in Nat
          BY <1>7, <3>1, <3>2 DEF RateBeforeMove
        <4> HIDE DEF Row
        <4> QED BY <1>t, <1>f, <3>2, <4>1, RateObeyed
      <3>3. CASE Row.freq <= 0
        BY <1>t, <1>f, <1>7, <3>1, <3>3, RateObeyed DEF RateBeforeMove
      <3> QED BY <3>1, <3>2, <3>3
    <2>2. PlaceInv'
      BY <1>t, <1>r, <1>q, <1>k, <1>7, <1>s, <2>1 DEF RateBeforeMove, Row, StandsAt,
         OnTheWay, axisVars, PlaceInv, RowSays
    <2>3. AttInv'
      BY <1>t, <1>r, <1>q, <1>k, <1>7, <1>s, <2>1 DEF RateBeforeMove, Row, StandsAt,
         OnTheWay, axisVars, AttInv, RowSays
    <2>4. RateInv'
      BY <1>t, <1>r, <1>q, <1>k, <1>7, <1>s, <1>m, <2>1 DEF RateBeforeMove, Row,
         StandsAt, OnTheWay, axisVars, RateInv, LitPcs, RowSays
    <2>5. LitInv'
      BY <1>l, <1>m, <1>f, <1>7, <2>1 DEF RateBeforeMove, NextRow, LitInv, LitPcs
    <2> QED BY <1>q, <1>s, <2>1, <2>2, <2>3, <2>4, <2>5
  <1>8. CASE OpenBeforeMove
    <2>1. ~failed /\ shutter' /\ pd' = pd
      BY <1>t, <1>f, <1>8, OpenObeyed DEF OpenBeforeMove
    <2>2. PlaceInv'
      BY <1>t, <1>r, <1>q, <1>k, <1>8, <1>s, <2>1 DEF OpenBeforeMove, Row, StandsAt,
         OnTheWay, axisVars, PlaceInv, RowSays
    <2>3. AttInv'
      BY <1>t, <1>r, <1>q, <1>k, <1>8, <1>s, <2>1 DEF OpenBeforeMove, Row, StandsAt,
         OnTheWay, axisVars, AttInv, RowSays
    <2>4. RateInv'
      BY <1>t, <1>r, <1>q, <1>k, <1>8, <1>s, <1>m, <2>1 DEF OpenBeforeMove, Row,
         StandsAt, OnTheWay, axisVars, RateInv, LitPcs, RowSays
    <2>5. LitInv'
      <3>1. LitRow
        <4>1. RowSays /\ PlaceInv /\ AttInv /\ RateInv
          BY <1>r, <1>s, <1>8, <2>1 DEF OpenBeforeMove
        <4>2. step > 0 /\ StandsAt("attenuator", Row.att)
          BY <1>8, <4>1 DEF OpenBeforeMove, AttInv, RowSays
        <4>3. Row.freq > 0 /\ Divides(Row.freq)
          BY <1>8, <4>1 DEF OpenBeforeMove, RateInv
        <4>4. Aimed("rotary") /\ Aimed("linear")
          <5>1. /\ StandsAt("rotary", Travel["rotary"][step - 1])
                /\ StandsAt("linear", Travel["linear"][step - 1])
            BY <1>8, <4>1 DEF OpenBeforeMove, PlaceInv
          <5> QED BY <4>1, <4>3, <5>1, AimedAtStart
        <4>5. ~(Row.freq = 0) /\ ~(Row.freq < 0)
          BY <4>1, <4>3 DEF RowSays
        <4> HIDE DEF Divides
        <4> QED BY <4>2, <4>3, <4>4, <4>5, Zenon DEF LitRow
      <3>2. UNCHANGED <<plan, step, pos, target, pd>>
        BY <1>8, <2>1, <1>q DEF OpenBeforeMove, axisVars
      <3> QED BY <1>k, <3>1, <3>2 DEF LitInv, LitRow, Aimed, StandsAt, OnTheWay, Row
    <2> QED BY <1>q, <1>s, <2>1, <2>2, <2>3, <2>4, <2>5
  <1>9. CASE MoveRotary
    <2>1. ~failed /\ shutter' = shutter /\ pd' = pd
      BY <1>f, <1>9 DEF MoveRotary, laserVars
    <2>2. PlaceInv'
      <3>1. /\ RowSays /\ PlaceInv /\ UNCHANGED <<pos, step>> /\ pc = "rot"
            /\ step \in 0 .. Len(plan)
        BY <1>t, <1>r, <1>s, <1>9, <2>1 DEF MoveRotary
      <3>2. /\ target'["linear"] = target["linear"]
            /\ \/ pc' = "rotWait" /\ target'["rotary"] = pos["rotary"] + Row.hor
               \/ pc' = "lin" /\ target' = target /\ Row.hor = 0
        BY <1>t, <1>9 DEF MoveRotary, MoveTo, Axes
      <3>3. /\ StandsAt("rotary", Travel["rotary"][step - 1])
            /\ StandsAt("linear", Travel["linear"][step - 1])
        BY <3>1 DEF PlaceInv
      <3>4. CASE pc' = "rotWait"
        BY <1>k, <3>1, <3>2, <3>3, <3>4 DEF PlaceInv, StandsAt, OnTheWay, Between, RowSays
      <3>5. CASE pc' = "lin"
        BY <1>k, <3>1, <3>2, <3>3, <3>5 DEF PlaceInv, StandsAt, RowSays
      <3> QED BY <3>2, <3>4, <3>5
    <2>3. AttInv'
      BY <1>t, <1>r, <1>q, <1>k, <1>9, <1>s, <2>1 DEF MoveRotary, Row, StandsAt,
         OnTheWay, axisVars, MoveTo, Axes, Between, AttInv, RowSays
    <2>4. RateInv'
      BY <1>t, <1>r, <1>q, <1>k, <1>9, <1>s, <1>m, <2>1 DEF MoveRotary, Row, StandsAt,
         OnTheWay, axisVars, MoveTo, Axes, Between, RateInv, LitPcs, RowSays
    <2>5. LitInv'
      <3> SUFFICES ASSUME shutter' PROVE LitRow'
        BY DEF LitInv
      <3>1. RowSays /\ Row.freq > 0 /\ LitRow /\ PlaceInv
        BY <1>r, <1>s, <1>9, <2>1 DEF MoveRotary, RateInv, LitInv, RowSays
      <3>2. /\ UNCHANGED <<plan, step, pos, pd>> /\ Row' = Row
            /\ \A a \in Axes \ {"rotary"} : target'[a] = target[a]
            /\ target'["rotary"] \in {target["rotary"], pos["rotary"] + Row.hor}
        BY <1>t, <1>q, <1>9, <2>1 DEF MoveRotary, MoveTo, Axes, Row
      <3>3. /\ StandsAt("rotary", Travel["rotary"][step - 1])
            /\ StandsAt("linear", Travel["linear"][step - 1])
        BY <3>1, <1>9 DEF PlaceInv, MoveRotary
      <3>4. Aimed("rotary")' /\ Aimed("linear")'
        <4>1. /\ Travel' = Travel /\ Row'.freq > 0
              /\ \A b \in {"rotary", "linear"} : pos'[b] = pos[b] /\ step' = step
          BY <1>k, <3>1, <3>2
        <4>2. target'["linear"] = target["linear"]
          BY <3>2 DEF Axes
        <4>3. \/ target'["rotary"] = Travel["rotary"][step - 1]
              \/ target'["rotary"] = Travel["rotary"][step]
          BY <3>1, <3>2, <3>3 DEF StandsAt, RowSays
        <4>4. \A b \in {"rotary", "linear"} :
                 /\ pos[b] \in {Travel[b][step - 1], Travel[b][step]}
                 /\ target'[b] \in {Travel[b][step - 1], Travel[b][step]}
          BY <3>3, <4>2, <4>3 DEF StandsAt
        <4>5. \A b \in {"rotary", "linear"} :
                 /\ Between(pos[b], Travel[b][step - 1], Travel[b][step])
                 /\ Between(target'[b], Travel[b][step - 1], Travel[b][step])
          BY <3>1, <4>4, RowEnds
        <4> QED BY <4>1, <4>5, Zenon DEF Aimed, OnTheWay
      <3> QED BY <3>1, <3>2, <3>4 DEF LitRow, StandsAt, Axes
    <2> QED BY <1>q, <1>s, <2>1, <2>2, <2>3, <2>4, <2>5
  <1>10. CASE RotaryDone
    <2>1. ~failed /\ shutter' = shutter /\ pd' = pd
      BY <1>f, <1>10 DEF RotaryDone, laserVars
    <2>2. PlaceInv'
      BY <1>t, <1>r, <1>q, <1>k, <1>10, <1>s, <2>1 DEF RotaryDone, Row, StandsAt,
         OnTheWay, axisVars, Moving, MovementOver, Between, PlaceInv, RowSays
    <2>3. AttInv'
      BY <1>t, <1>r, <1>q, <1>k, <1>10, <1>s, <2>1 DEF RotaryDone, Row, StandsAt,
         OnTheWay, axisVars, Moving, MovementOver, Between, AttInv, RowSays
    <2>4. RateInv'
      BY <1>t, <1>r, <1>q, <1>k, <1>10, <1>s, <1>m, <2>1 DEF RotaryDone, Row, StandsAt,
         OnTheWay, axisVars, Moving, MovementOver, Between, RateInv, LitPcs, RowSays
    <2>5. LitInv'
      BY <1>t, <1>r, <1>q, <1>k, <1>10, <1>s, <2>1 DEF RotaryDone, Row, StandsAt,
         OnTheWay, axisVars, Moving, MovementOver, Between, PlaceInv, AttInv, RateInv,
            LitInv, LitRow, Aimed, RowSays
    <2> QED BY <1>q, <1>s, <2>1, <2>2, <2>3, <2>4, <2>5
  <1>11. CASE MoveLinear
    <2>1. ~failed /\ shutter' = shutter /\ pd' = pd
      BY <1>f, <1>11 DEF MoveLinear, laserVars
    <2>2. PlaceInv'
      <3>1. /\ RowSays /\ PlaceInv /\ UNCHANGED <<pos, step>> /\ pc = "lin"
            /\ step \in 0 .. Len(plan)
        BY <1>t, <1>r, <1>s, <1>11, <2>1 DEF MoveLinear
      <3>2. /\ target'["rotary"] = target["rotary"]
            /\ \/ pc' = "linWait" /\ target'["linear"] = pos["linear"] + Row.ver
               \/ pc' = "close" /\ target' = target /\ Row.ver = 0
        BY <1>t, <1>11 DEF MoveLinear, MoveTo, Axes
      <3>3. /\ StandsAt("rotary", Travel["rotary"][step])
            /\ StandsAt("linear", Travel["linear"][step - 1])
        BY <3>1 DEF PlaceInv
      <3>4. CASE pc' = "linWait"
        BY <1>k, <3>1, <3>2, <3>3, <3>4 DEF PlaceInv, StandsAt, OnTheWay, Between, RowSays
      <3>5. CASE pc' = "close"
        BY <1>k, <3>1, <3>2, <3>3, <3>5 DEF PlaceInv, StandsAt, RowSays
      <3> QED BY <3>2, <3>4, <3>5
    <2>3. AttInv'
      BY <1>t, <1>r, <1>q, <1>k, <1>11, <1>s, <2>1 DEF MoveLinear, Row, StandsAt,
         OnTheWay, axisVars, MoveTo, Axes, Between, AttInv, RowSays
    <2>4. RateInv'
      BY <1>t, <1>r, <1>q, <1>k, <1>11, <1>s, <1>m, <2>1 DEF MoveLinear, Row, StandsAt,
         OnTheWay, axisVars, MoveTo, Axes, Between, RateInv, LitPcs, RowSays
    <2>5. LitInv'
      <3> SUFFICES ASSUME shutter' PROVE LitRow'
        BY DEF LitInv
      <3>1. RowSays /\ Row.freq > 0 /\ LitRow /\ PlaceInv
        BY <1>r, <1>s, <1>11, <2>1 DEF MoveLinear, RateInv, LitInv, RowSays
      <3>2. /\ UNCHANGED <<plan, step, pos, pd>> /\ Row' = Row
            /\ \A a \in Axes \ {"linear"} : target'[a] = target[a]
            /\ target'["linear"] \in {target["linear"], pos["linear"] + Row.ver}
        BY <1>t, <1>q, <1>11, <2>1 DEF MoveLinear, MoveTo, Axes, Row
      <3>3. /\ StandsAt("rotary", Travel["rotary"][step])
            /\ StandsAt("linear", Travel["linear"][step - 1])
        BY <3>1, <1>11 DEF PlaceInv, MoveLinear
      <3>4. Aimed("rotary")' /\ Aimed("linear")'
        <4>1. /\ Travel' = Travel /\ Row'.freq > 0
              /\ \A b \in {"rotary", "linear"} : pos'[b] = pos[b] /\ step' = step
          BY <1>k, <3>1, <3>2
        <4>2. target'["rotary"] = target["rotary"]
          BY <3>2 DEF Axes
        <4>3. \/ target'["linear"] = Travel["linear"][step - 1]
              \/ target'["linear"] = Travel["linear"][step]
          BY <3>1, <3>2, <3>3 DEF StandsAt, RowSays
        <4>4. \A b \in {"rotary", "linear"} :
                 /\ pos[b] \in {Travel[b][step - 1], Travel[b][step]}
                 /\ target'[b] \in {Travel[b][step - 1], Travel[b][step]}
          BY <3>3, <4>2, <4>3 DEF StandsAt
        <4>5. \A b \in {"rotary", "linear"} :
                 /\ Between(pos[b], Travel[b][step - 1], Travel[b][step])
                 /\ Between(target'[b], Travel[b][step - 1], Travel[b][step])
          BY <3>1, <4>4, RowEnds
        <4> QED BY <4>1, <4>5, Zenon DEF Aimed, OnTheWay
      <3> QED BY <3>1, <3>2, <3>4 DEF LitRow, StandsAt, Axes
    <2> QED BY <1>q, <1>s, <2>1, <2>2, <2>3, <2>4, <2>5
  <1>12. CASE LinearDone
    <2>1. ~failed /\ shutter' = shutter /\ pd' = pd
      BY <1>f, <1>12 DEF LinearDone, laserVars
    <2>2. PlaceInv'
      BY <1>t, <1>r, <1>q, <1>k, <1>12, <1>s, <2>1 DEF LinearDone, Row, StandsAt,
         OnTheWay, axisVars, Moving, MovementOver, Between, PlaceInv, RowSays
    <2>3. AttInv'
      BY <1>t, <1>r, <1>q, <1>k, <1>12, <1>s, <2>1 DEF LinearDone, Row, StandsAt,
         OnTheWay, axisVars, Moving, MovementOver, Between, AttInv, RowSays
    <2>4. RateInv'
      BY <1>t, <1>r, <1>q, <1>k, <1>12, <1>s, <1>m, <2>1 DEF LinearDone, Row, StandsAt,
         OnTheWay, axisVars, Moving, MovementOver, Between, RateInv, LitPcs, RowSays
    <2>5. LitInv'
      BY <1>t, <1>r, <1>q, <1>k, <1>12, <1>s, <2>1 DEF LinearDone, Row, StandsAt,
         OnTheWay, axisVars, Moving, MovementOver, Between, PlaceInv, AttInv, RateInv,
            LitInv, LitRow, Aimed, RowSays
    <2> QED BY <1>q, <1>s, <2>1, <2>2, <2>3, <2>4, <2>5
  <1>13. CASE CloseAfterMove
    <2>1. ~failed /\ ~shutter' /\ pd' = pd
      BY <1>t, <1>f, <1>13, CloseObeyed DEF CloseAfterMove
    <2>2. PlaceInv'
      BY <1>t, <1>r, <1>q, <1>k, <1>13, <1>s, <2>1 DEF CloseAfterMove, Row, StandsAt,
         OnTheWay, axisVars, PlaceInv, RowSays
    <2>3. AttInv'
      BY <1>t, <1>r, <1>q, <1>k, <1>13, <1>s, <2>1 DEF CloseAfterMove, Row, StandsAt,
         OnTheWay, axisVars, AttInv, RowSays
    <2>4. RateInv'
      BY <1>t, <1>r, <1>q, <1>k, <1>13, <1>s, <1>m, <2>1 DEF CloseAfterMove, Row,
         StandsAt, OnTheWay, axisVars, RateInv, LitPcs, RowSays
    <2>5. LitInv'
      BY <2>1 DEF LitInv
    <2> QED BY <1>q, <1>s, <2>1, <2>2, <2>3, <2>4, <2>5
  <1>14. CASE OpenForShots
    <2>1. ~failed /\ shutter' /\ pd' = pd
      BY <1>t, <1>f, <1>14, OpenObeyed DEF OpenForShots
    <2>2. PlaceInv'
      BY <1>t, <1>r, <1>q, <1>k, <1>14, <1>s, <2>1 DEF OpenForShots, Row, StandsAt,
         OnTheWay, axisVars, PlaceInv, RowSays
    <2>3. AttInv'
      BY <1>t, <1>r, <1>q, <1>k, <1>14, <1>s, <2>1 DEF OpenForShots, Row, StandsAt,
         OnTheWay, axisVars, AttInv, RowSays
    <2>4. RateInv'
      BY <1>t, <1>r, <1>q, <1>k, <1>14, <1>s, <1>m, <2>1 DEF OpenForShots, Row, StandsAt,
         OnTheWay, axisVars, RateInv, LitPcs, RowSays
    <2>5. LitInv'
      <3>1. LitRow
        <4>1. RowSays /\ PlaceInv /\ AttInv /\ RateInv
          BY <1>r, <1>s, <1>14, <2>1 DEF OpenForShots
        <4>2. step > 0 /\ StandsAt("attenuator", Row.att)
          BY <1>14, <4>1 DEF OpenForShots, AttInv, RowSays
        <4>3. /\ Row.freq <= 0 /\ (Row.freq = 0 => pd = 0)
              /\ Row.freq < 0 => Row.count > 0 /\ Divides(-Row.freq)
          <5>1. CASE Row.freq = 0 /\ pd = 0
            BY <5>1
          <5> HIDE DEF Divides
          <5>2. CASE Row.freq < 0 /\ Row.count > 0 /\ Divides(-Row.freq)
            <6>1. ~(Row.freq = 0) /\ Row.freq <= 0
              BY <4>1, <5>2 DEF RowSays
            <6> QED BY <5>2, <6>1, Zenon
          <5> QED BY <1>14, <4>1, <5>1, <5>2, Zenon DEF OpenForShots, RateInv
        <4>4. Aimed("rotary") /\ Aimed("linear")
          <5>1. /\ StandsAt("rotary", Travel["rotary"][step])
                /\ StandsAt("linear", Travel["linear"][step])
            BY <1>14, <4>1 DEF OpenForShots, PlaceInv
          <5> QED BY <4>1, <4>3, <5>1, AimedAtEnd
        <4>5. ~(Row.freq > 0)
          BY <4>1, <4>3 DEF RowSays
        <4> HIDE DEF Divides
        <4> QED BY <4>2, <4>3, <4>4, <4>5, Zenon DEF LitRow
      <3>2. UNCHANGED <<plan, step, pos, target, pd>>
        BY <1>14, <2>1, <1>q DEF OpenForShots, axisVars
      <3> QED BY <1>k, <3>1, <3>2 DEF LitInv, LitRow, Aimed, StandsAt, OnTheWay, Row
    <2> QED BY <1>q, <1>s, <2>1, <2>2, <2>3, <2>4, <2>5
  <1>15. CASE SingleShot
    <2>1. ~failed /\ shutter' = shutter /\ pd' = pd
      BY <1>f, <1>15 DEF SingleShot, laserVars
    <2>2. PlaceInv'
      BY <1>t, <1>r, <1>q, <1>k, <1>15, <1>s, <2>1 DEF SingleShot, Row, StandsAt,
         OnTheWay, axisVars, PlaceInv, RowSays
    <2>3. AttInv'
      BY <1>t, <1>r, <1>q, <1>k, <1>15, <1>s, <2>1 DEF SingleShot, Row, StandsAt,
         OnTheWay, axisVars, AttInv, RowSays
    <2>4. RateInv'
      BY <1>t, <1>r, <1>q, <1>k, <1>15, <1>s, <1>m, <2>1 DEF SingleShot, Row, StandsAt,
         OnTheWay, axisVars, RateInv, LitPcs, RowSays
    <2>5. LitInv'
      BY <1>t, <1>r, <1>q, <1>k, <1>15, <1>s, <2>1 DEF SingleShot, Row, StandsAt,
         OnTheWay, axisVars, PlaceInv, AttInv, RateInv, LitInv, LitRow, Aimed, RowSays
    <2> QED BY <1>q, <1>s, <2>1, <2>2, <2>3, <2>4, <2>5
  <1>16. CASE RateForBurst
    <2>0. /\ Row.freq < 0 /\ Row.count > 0 /\ Row.freq \in Int
          /\ Magnitude(Row.freq) = -Row.freq
      <3>1. ~failed
        BY <1>t, <1>f, <1>16 DEF RateForBurst, SetRate, SetLaser, laserVars
      <3>2. Row.freq < 0 /\ Row.count > 0
        BY <1>s, <1>16, <3>1 DEF RateForBurst, RateInv
      <3>3. Row.freq \in Int
        BY <1>r, <1>16 DEF RateForBurst, RowSays
      <3> QED BY <3>2, <3>3 DEF Magnitude
    <2>b. /\ SetRate(Magnitude(Row.freq))
          /\ Magnitude(Row.freq) \in Nat /\ Magnitude(Row.freq) > 0
      BY <1>16, <2>0 DEF RateForBurst
    <2>1. ~failed /\ shutter' = shutter /\ (-Row.freq <= 10 => pd' = 10 \div (-Row.freq))
      BY <1>t, <1>f, <1>16, <2>0, <2>b, RateObeyed
    <2>2. PlaceInv'
      BY <1>t, <1>r, <1>q, <1>k, <1>16, <1>s, <2>1 DEF RateForBurst, Row, StandsAt,
         OnTheWay, axisVars, PlaceInv, RowSays
    <2>3. AttInv'
      BY <1>t, <1>r, <1>q, <1>k, <1>16, <1>s, <2>1 DEF RateForBurst, Row, StandsAt,
         OnTheWay, axisVars, AttInv, RowSays
    <2>4. RateInv'
      BY <1>t, <1>r, <1>q, <1>k, <1>16, <1>s, <1>m, <2>1, <2>0 DEF RateForBurst, Row,
         StandsAt, OnTheWay, axisVars, RateInv, LitPcs, RowSays
    <2>5. LitInv'
      BY <1>l, <1>m, <1>f, <1>16, <2>1 DEF RateForBurst, NextRow, LitInv, LitPcs
    <2> QED BY <1>q, <1>s, <2>1, <2>2, <2>3, <2>4, <2>5
  <1>17. CASE BurstOver
    <2>1. ~failed /\ shutter' = shutter /\ pd' = pd
      BY <1>f, <1>17 DEF BurstOver, laserVars
    <2>2. PlaceInv'
      BY <1>t, <1>r, <1>q, <1>k, <1>17, <1>s, <2>1 DEF BurstOver, Row, StandsAt,
         OnTheWay, axisVars, PlaceInv, RowSays
    <2>3. AttInv'
      BY <1>t, <1>r, <1>q, <1>k, <1>17, <1>s, <2>1 DEF BurstOver, Row, StandsAt,
         OnTheWay, axisVars, AttInv, RowSays
    <2>4. RateInv'
      BY <1>t, <1>r, <1>q, <1>k, <1>17, <1>s, <1>m, <2>1 DEF BurstOver, Row, StandsAt,
         OnTheWay, axisVars, RateInv, LitPcs, RowSays
    <2>5. LitInv'
      BY <1>t, <1>r, <1>q, <1>k, <1>17, <1>s, <2>1 DEF BurstOver, Row, StandsAt,
         OnTheWay, axisVars, PlaceInv, AttInv, RateInv, LitInv, LitRow, Aimed, RowSays
    <2> QED BY <1>q, <1>s, <2>1, <2>2, <2>3, <2>4, <2>5
  <1>18. CASE CloseAfterShots
    <2>1. ~failed /\ ~shutter' /\ pd' = pd
      BY <1>t, <1>f, <1>18, CloseObeyed DEF CloseAfterShots
    <2>2. PlaceInv'
      BY <1>t, <1>r, <1>q, <1>k, <1>18, <1>s, <2>1 DEF CloseAfterShots, Row, StandsAt,
         OnTheWay, axisVars, PlaceInv, RowSays
    <2>3. AttInv'
      BY <1>t, <1>r, <1>q, <1>k, <1>18, <1>s, <2>1 DEF CloseAfterShots, Row, StandsAt,
         OnTheWay, axisVars, AttInv, RowSays
    <2>4. RateInv'
      BY <1>t, <1>r, <1>q, <1>k, <1>18, <1>s, <1>m, <2>1 DEF CloseAfterShots, Row,
         StandsAt, OnTheWay, axisVars, RateInv, LitPcs, RowSays
    <2>5. LitInv'
      BY <2>1 DEF LitInv
    <2> QED BY <1>q, <1>s, <2>1, <2>2, <2>3, <2>4, <2>5
  <1>19. CASE RateZero
    <2>1. ~failed /\ shutter' = shutter /\ pd' = 0
      BY <1>t, <1>f, <1>19, RateObeyed DEF RateZero
    <2>2. PlaceInv'
      BY <1>t, <1>r, <1>q, <1>k, <1>19, <1>s, <2>1 DEF RateZero, Row, StandsAt, OnTheWay,
         axisVars, PlaceInv, RowSays
    <2>3. AttInv'
      BY <1>t, <1>r, <1>q, <1>k, <1>19, <1>s, <2>1 DEF RateZero, Row, StandsAt, OnTheWay,
         axisVars, AttInv, RowSays
    <2>4. RateInv'
      BY <1>t, <1>r, <1>q, <1>k, <1>19, <1>s, <1>m, <2>1 DEF RateZero, Row, StandsAt,
         OnTheWay, axisVars, RateInv, LitPcs, RowSays
    <2>5. LitInv'
      BY <1>l, <1>m, <1>f, <1>19, <2>1 DEF RateZero, NextRow, LitInv, LitPcs
    <2> QED BY <1>q, <1>s, <2>1, <2>2, <2>3, <2>4, <2>5
  <1>20. CASE SendReport
    <2>1. ~failed /\ shutter' = shutter /\ pd' = pd
      BY <1>f, <1>20 DEF SendReport, laserVars
    <2>2. PlaceInv'
      BY <1>t, <1>p, <1>q, <1>k, <1>20, <1>s, <2>1 DEF SendReport, Row, StandsAt,
         OnTheWay, axisVars, NextRow, PlaceInv, PlanSays
    <2>3. AttInv'
      BY <1>t, <1>p, <1>q, <1>k, <1>20, <1>s, <2>1 DEF SendReport, Row, StandsAt,
         OnTheWay, axisVars, NextRow, AttInv, PlanSays
    <2>4. RateInv'
      BY <1>t, <1>p, <1>q, <1>k, <1>20, <1>s, <1>m, <2>1 DEF SendReport, Row, StandsAt,
         OnTheWay, axisVars, NextRow, RateInv, LitPcs, PlanSays
    <2>5. LitInv'
      BY <1>l, <1>m, <1>f, <1>20, <2>1 DEF SendReport, NextRow, LitInv, LitPcs
    <2> QED BY <1>q, <1>s, <2>1, <2>2, <2>3, <2>4, <2>5
  <1>21. CASE GotoIdle
    <2>1. ~failed /\ shutter' = shutter /\ pd' = pd
      BY <1>f, <1>21 DEF GotoIdle, laserVars
    <2>2. PlaceInv'
      BY <1>t, <1>r, <1>q, <1>k, <1>21, <1>s, <2>1 DEF GotoIdle, Row, StandsAt, OnTheWay,
         axisVars, MoveTo, Axes, Between, PlaceInv, RowSays
    <2>3. AttInv'
      BY <1>t, <1>r, <1>q, <1>k, <1>21, <1>s, <2>1 DEF GotoIdle, Row, StandsAt, OnTheWay,
         axisVars, MoveTo, Axes, Between, AttInv, RowSays
    <2>4. RateInv'
      BY <1>t, <1>r, <1>q, <1>k, <1>21, <1>s, <1>m, <2>1 DEF GotoIdle, Row, StandsAt,
         OnTheWay, axisVars, MoveTo, Axes, Between, RateInv, LitPcs, RowSays
    <2>5. LitInv'
      BY <1>l, <1>m, <1>f, <1>21, <2>1 DEF GotoIdle, NextRow, LitInv, LitPcs
    <2> QED BY <1>q, <1>s, <2>1, <2>2, <2>3, <2>4, <2>5
  <1>22. CASE FinClose
    <2>1. ~failed /\ ~shutter' /\ pd' = pd
      BY <1>t, <1>f, <1>22, CloseObeyed DEF FinClose
    <2>2. PlaceInv'
      BY <1>t, <1>r, <1>q, <1>k, <1>22, <1>s, <2>1 DEF FinClose, Row, StandsAt, OnTheWay,
         axisVars, PlaceInv, RowSays
    <2>3. AttInv'
      BY <1>t, <1>r, <1>q, <1>k, <1>22, <1>s, <2>1 DEF FinClose, Row, StandsAt, OnTheWay,
         axisVars, AttInv, RowSays
    <2>4. RateInv'
      BY <1>t, <1>r, <1>q, <1>k, <1>22, <1>s, <1>m, <2>1 DEF FinClose, Row, StandsAt,
         OnTheWay, axisVars, RateInv, LitPcs, RowSays
    <2>5. LitInv'
      BY <2>1 DEF LitInv
    <2> QED BY <1>q, <1>s, <2>1, <2>2, <2>3, <2>4, <2>5
  <1>23. CASE FinRate
    <2>1. ~failed /\ shutter' = shutter /\ pd' = 0
      BY <1>t, <1>f, <1>23, RateObeyed DEF FinRate
    <2>2. PlaceInv'
      BY <1>t, <1>r, <1>q, <1>k, <1>23, <1>s, <2>1 DEF FinRate, Row, StandsAt, OnTheWay,
         axisVars, PlaceInv, RowSays
    <2>3. AttInv'
      BY <1>t, <1>r, <1>q, <1>k, <1>23, <1>s, <2>1 DEF FinRate, Row, StandsAt, OnTheWay,
         axisVars, AttInv, RowSays
    <2>4. RateInv'
      BY <1>t, <1>r, <1>q, <1>k, <1>23, <1>s, <1>m, <2>1 DEF FinRate, Row, StandsAt,
         OnTheWay, axisVars, RateInv, LitPcs, RowSays
    <2>5. LitInv'
      BY <1>l, <1>m, <1>f, <1>23, <2>1 DEF FinRate, NextRow, LitInv, LitPcs
    <2> QED BY <1>q, <1>s, <2>1, <2>2, <2>3, <2>4, <2>5
  <1>24. CASE FinStop
    <2>1. ~failed /\ shutter' = shutter /\ pd' = pd
      BY <1>f, <1>24 DEF FinStop
    <2>2. PlaceInv'
      BY <1>t, <1>r, <1>q, <1>k, <1>24, <1>s, <2>1 DEF FinStop, Row, StandsAt, OnTheWay,
         axisVars, PlaceInv, RowSays
    <2>3. AttInv'
      BY <1>t, <1>r, <1>q, <1>k, <1>24, <1>s, <2>1 DEF FinStop, Row, StandsAt, OnTheWay,
         axisVars, AttInv, RowSays
    <2>4. RateInv'
      BY <1>t, <1>r, <1>q, <1>k, <1>24, <1>s, <1>m, <2>1 DEF FinStop, Row, StandsAt,
         OnTheWay, axisVars, RateInv, LitPcs, RowSays
    <2>5. LitInv'
      BY <1>l, <1>m, <1>f, <1>24, <2>1 DEF FinStop, NextRow, LitInv, LitPcs
    <2> QED BY <1>q, <1>s, <2>1, <2>2, <2>3, <2>4, <2>5
  <1>25. CASE FinPorts
    <2>1. ~failed /\ shutter' = shutter /\ pd' = pd
      BY <1>f, <1>25 DEF FinPorts, laserVars
    <2>2. PlaceInv'
      BY <1>t, <1>r, <1>q, <1>k, <1>25, <1>s, <2>1 DEF FinPorts, Row, StandsAt, OnTheWay,
         axisVars, PlaceInv, RowSays
    <2>3. AttInv'
      BY <1>t, <1>r, <1>q, <1>k, <1>25, <1>s, <2>1 DEF FinPorts, Row, StandsAt, OnTheWay,
         axisVars, AttInv, RowSays
    <2>4. RateInv'
      BY <1>t, <1>r, <1>q, <1>k, <1>25, <1>s, <1>m, <2>1 DEF FinPorts, Row, StandsAt,
         OnTheWay, axisVars, RateInv, LitPcs, RowSays
    <2>5. LitInv'
      BY <1>l, <1>m, <1>f, <1>25, <2>1 DEF FinPorts, NextRow, LitInv, LitPcs
    <2> QED BY <1>q, <1>s, <2>1, <2>2, <2>3, <2>4, <2>5
  <1> QED BY <1>1, <1>2, <1>3, <1>4, <1>5, <1>6, <1>7, <1>8, <1>9, <1>10, <1>11, <1>12,
       <1>13, <1>14, <1>15, <1>16, <1>17, <1>18, <1>19, <1>20, <1>21, <1>22, <1>23,
          <1>24, <1>25 DEF RunStep, FinalizeStep

\* An axis that moves stays on its way.
LEMMA AxisShotInv ==
    ASSUME IInv, ShotInv, NEW a \in Axes, AxisMoves(a)
    PROVE  ShotInv'
  <1> SUFFICES ASSUME Undisturbed'
               PROVE  (handler = <<>> /\ PlaceInv /\ AttInv /\ RateInv /\ LitInv)'
    BY DEF ShotInv
  <1> USE DEF StartPcs, FirstPcs, BeforeRotary, BeforeLinear, AfterLinear, AfterRotary,
              AnnouncedPcs, RowPcs
  <1>1. /\ plan' = plan /\ pc' = pc /\ step' = step /\ target' = target
        /\ shutter' = shutter /\ pd' = pd /\ handler' = handler /\ Undisturbed
    BY DEF AxisMoves, laserVars, sigVars, Undisturbed
  <1>2. /\ TypeOK /\ step \in 0 .. Len(plan)
        /\ (pc \in RowPcs => step \in 1 .. Len(plan))
    <2>1. TypeOK /\ StepInv /\ Len(plan) \in Nat
      BY PlanFacts DEF IInv, TypeOK
    <2> QED BY <2>1 DEF TypeOK, StepInv
  <1>3. PlanSays /\ Travel' = Travel
    BY <1>1, <1>2, PlanSaid, TravelKept DEF TypeOK
  <1>4. handler = <<>> /\ PlaceInv /\ AttInv /\ RateInv /\ LitInv
    BY <1>1 DEF ShotInv
  <1>5. /\ pos[a] # target[a] /\ pos[a] \in Int /\ target[a] \in Int
        /\ pos' = [pos EXCEPT ![a] = IF @ < target[a] THEN @ + 1 ELSE @ - 1]
        /\ pos \in [Axes -> Int]
    BY <1>2 DEF AxisMoves, Moving, TypeOK
  <1>6. /\ \A b \in Axes : pos[b] = target[b] => pos'[b] = pos[b]
        /\ \A b \in Axes, x, y \in Int :
              Between(pos[b], x, y) /\ Between(target[b], x, y) => Between(pos'[b], x, y)
    BY <1>2, <1>5 DEF Between, TypeOK
  <1>7. \A s \in 1 .. Len(plan), b \in {"rotary", "linear"} :
           /\ Travel[b][s - 1] \in Int /\ Travel[b][s] \in Int
           /\ Between(Travel[b][s], Travel[b][s - 1], Travel[b][s])
    <2>1. ASSUME NEW s \in 1 .. Len(plan)
          PROVE  s - 1 \in 0 .. Len(plan) /\ s \in 0 .. Len(plan)
      BY <1>3 DEF PlanSays
    <2> QED BY <1>3, <2>1 DEF PlanSays, Between
  <1>8. PlaceInv'
    BY <1>1, <1>2, <1>3, <1>4, <1>6, <1>7 DEF PlaceInv, StandsAt, OnTheWay, Axes
  <1>9. AttInv'
    BY <1>1, <1>3, <1>4, <1>6 DEF AttInv, StandsAt, Row, Axes
  <1>10. RateInv'
    BY <1>1, <1>3, <1>4 DEF RateInv, Divides, Row
  <1>11. LitInv'
    BY <1>1, <1>2, <1>3, <1>4, <1>6, <1>7 DEF LitInv, LitRow, Divides, Aimed, StandsAt, OnTheWay,
       Row, Axes
  <1> QED BY <1>1, <1>4, <1>8, <1>9, <1>10, <1>11

\* Light that is left on by an exception is the light that was on before it.
LEMMA RaiseShotInv ==
    ASSUME ShotInv, Raise
    PROVE  ShotInv'
  <1>1. /\ pc' \in {"finClose", "crashed"} /\ handler' = <<>> /\ plan' = plan
        /\ step' = step
        /\ shutter' = shutter /\ pd' = pd /\ failed' = failed /\ signals' = signals
        /\ pos' = pos /\ target' = target
    BY DEF Raise, AfterException, laserVars, axisVars
  <1>2. Travel' = Travel
    BY <1>1, TravelKept
  <1>3. PlaceInv' /\ AttInv' /\ RateInv'
    BY <1>1 DEF PlaceInv, AttInv, RateInv, Divides, FirstPcs, StartPcs, BeforeRotary, BeforeLinear,
       AfterLinear, AfterRotary, AnnouncedPcs
  <1>4. Undisturbed /\ LitInv => LitInv'
    BY <1>1, <1>2 DEF LitInv, LitRow, Divides, Aimed, StandsAt, OnTheWay, Row
  <1> QED BY <1>1, <1>3, <1>4 DEF ShotInv, Undisturbed

\* Divided down to a rate, the laser has the slowest that is not below it.
LEMMA DivisionFacts ==
    ASSUME NEW rate \in 1 .. 10
    PROVE  (10 \div rate) * rate <= 10 /\ (10 \div rate + 1) * rate > 10
  <1>1. rate \in {1, 2, 3, 4, 5, 6, 7, 8, 9, 10}
    OBVIOUS
  <1> QED BY <1>1

\* Light that leaves the box in a run of any scan that no signal disturbs and whose laser
\* obeys does so where the row of the scan says, and at its rate, exactly if it divides
\* 10 Hz and rounded up to the next that does if not; wherever exceptions leave the run.
\* That every row gets its light is not said, and a rate above 10 Hz is refused: then the
\* place is still right, and nothing is said about the rate.  (run(), laser.py:setRate())
THEOREM ShotsWherePlanned == Spec => []ShotsAsPlanned
  <1>1. Init => ShotInv
    <2> SUFFICES ASSUME Init PROVE ShotInv
      OBVIOUS
    <2>1. StandsAt("rotary", 0) /\ StandsAt("linear", 0)
      BY DEF Init, StandsAt, Axes
    <2> QED BY <2>1 DEF Init, ShotInv, PlaceInv, AttInv, RateInv, LitInv, FirstPcs,
         StartPcs, BeforeRotary, BeforeLinear, AfterLinear, AfterRotary, AnnouncedPcs
  <1>2. IInv /\ IInv' /\ ShotInv /\ [Next]_vars => ShotInv'
    <2> SUFFICES ASSUME IInv, IInv', ShotInv, [Next]_vars PROVE ShotInv'
      OBVIOUS
    <2>1. ASSUME NEW term \in BOOLEAN, Signal(term) PROVE ShotInv'
      <3>1. signals' = signals + 1 /\ signals \in Nat
        BY <2>1 DEF Signal, IInv, TypeOK
      <3> QED BY <3>1 DEF ShotInv, Undisturbed
    <2>2. CASE HandlerStep
      <3>1. handler # <<>> /\ signals' = signals
        BY <2>2 DEF HandlerStep, Running
      <3>2. ~failed' => ~failed
        BY <2>2, CloseObeyed DEF HandlerStep, laserVars, IInv
      <3> QED BY <3>1, <3>2 DEF ShotInv, Undisturbed
    <2>3. CASE UNCHANGED vars
      <3>1. plan' = plan
        BY <2>3 DEF vars
      <3>2. Travel' = Travel
        BY <3>1, TravelKept
      <3> QED BY <2>3, <3>2 DEF vars, laserVars, axisVars, sigVars, ShotInv, Undisturbed,
           PlaceInv, AttInv, RateInv, LitInv, LitRow, Divides, Aimed, StandsAt, OnTheWay, Row
    <2> QED BY <2>1, <2>2, <2>3, RunStepShotInv, AxisShotInv, RaiseShotInv DEF Next
  <1>3. IInv /\ ShotInv => ShotsAsPlanned
    <2> SUFFICES ASSUME IInv, ShotInv, ~failed, signals = 0, Firing PROVE AsPlanned
      BY DEF ShotsAsPlanned
    <2>1. PlanSays /\ step \in 0 .. Len(plan) /\ pd \in 0 .. 10
      BY PlanSaid DEF IInv, TypeOK
    <2>2. LitInv /\ RateInv /\ shutter /\ (pd > 0 \/ pc = "single")
      BY DEF ShotInv, Undisturbed, Firing
    <2>3. step \in 1 .. Len(plan) /\ step - 1 \in 0 .. Len(plan)
      BY <2>1, <2>2 DEF LitInv, LitRow, PlanSays
    <2>4. /\ Travel["rotary"][step] = Planned("rotary", step)
          /\ Travel["linear"][step] = Planned("linear", step)
          /\ Travel["rotary"][step - 1] = Planned("rotary", step - 1)
          /\ Travel["linear"][step - 1] = Planned("linear", step - 1)
      BY <2>1, <2>3 DEF Travel
    <2>5. Row.freq \in Int
      BY <2>1, <2>3 DEF PlanSays, Row
    <2>6. pos["attenuator"] = Row.att
      BY <2>2 DEF LitInv, LitRow, StandsAt
    <2>7. PlaceAsPlanned
      <3>1. CASE Row.freq > 0
        <4>1. OnTheWay("rotary") /\ OnTheWay("linear")
          BY <2>2, <3>1 DEF LitInv, LitRow, Aimed
        <4> QED BY <2>4, <2>5, <2>6, <3>1, <4>1 DEF PlaceAsPlanned, OnTheWay
      <3>2. CASE Row.freq <= 0
        <4>1. \A a \in {"rotary", "linear"} : pos[a] = Planned(a, step)
          BY <2>2, <2>4, <2>5, <3>2 DEF LitInv, LitRow, Aimed, StandsAt
        <4>2. Row.freq < 0 => Row.count > 0
          BY <2>2 DEF LitInv, LitRow
        <4> QED BY <2>5, <2>6, <3>2, <4>1, <4>2 DEF PlaceAsPlanned
      <3> QED BY <2>5, <3>1, <3>2
    <2>8. RateAsPlanned
      <3>1. /\ Row.freq = 0 => pd = 0
            /\ Row.freq # 0 => Divides(Magnitude(Row.freq))
        BY <2>2, <2>5 DEF LitInv, LitRow, Magnitude
      <3>2. /\ Magnitude(Row.freq) \in Nat
            /\ Magnitude(Row.freq) = 0 <=> Row.freq = 0
        BY <2>5 DEF Magnitude
      <3>3. ASSUME NEW rate \in 1 .. 10, rate = Magnitude(Row.freq)
            PROVE  pd * rate <= 10 /\ (pd + 1) * rate > 10
        <4>1. pd = 10 \div rate
          BY <3>1, <3>2, <3>3 DEF Divides
        <4> QED BY <4>1, DivisionFacts
      <3>4. Magnitude(Row.freq) # 0 /\ Magnitude(Row.freq) <= 10 =>
               Magnitude(Row.freq) \in 1 .. 10
        BY <3>2
      <3> HIDE DEF Magnitude
      <3> QED BY <3>1, <3>2, <3>3, <3>4, Zenon DEF RateAsPlanned
    <2> QED BY <2>7, <2>8 DEF AsPlanned
  <1> QED BY <1>1, <1>2, <1>3, Invariance, PTL DEF Spec
=============================================================================
