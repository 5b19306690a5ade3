--------------------------- MODULE HomeAxis_proofs ---------------------------
(***************************************************************************)
(* The homing of HomeAxis for every set of axes, every speed, work range   *)
(* and number of runs: the end switches are armed whenever the program     *)
(* moves the axis otherwise, an axis with a dead switch is stopped within  *)
(* one sample of the bound, and one with a working switch is homed.        *)
(*                                                                         *)
(* The inductive invariant says where the switches have been confirmed,    *)
(* that the last sample was inside the bound unless the axis has not       *)
(* moved, and that an axis whose switch works approaches it steadily.      *)
(***************************************************************************)
EXTENDS HomeAxis, TLAPS

Confirmed == {"counts", "return", "count", "ref", "refWait", "first", "firstWait", "scan"}

\* setLimitSwitches() returned, and nothing has touched the switches since.
Switches == prog \in Confirmed => homeSwitch = "limit" /\ farSwitch = "limit"

Moves ==
    /\ move = "MR" => prog \in {"refWait", "firstWait", "ended"}
    /\ prog = "posOld" => move = "HM"

\* The last sample was in bounds.
Sampled ==
    conf.max >= 0 =>
        /\ prog = "posOld" => pos = origin
        /\ prog \in {"moving", "sleep"} => Beyond(pos) <= conf.max \/ pos = origin

\* An axis with a working switch never passes it, and moves towards it from
\* sample to sample until it is there.
Approaches ==
    working =>
        /\ Beyond(pos) <= 0
        /\ prog \in {"moving", "sleep"} =>
              /\ pos_old = pos
              /\ pos = 0 \/ (dir_old = homing_dir /\ ~change_dir /\ move = "HM")
        /\ prog = "sample" =>
              pos = 0 \/ (Beyond(pos) > Beyond(pos_old) /\ dir_old = homing_dir
                          /\ ~change_dir /\ move = "HM")

IInv ==
    /\ TypeOK /\ Switches /\ Moves /\ Sampled /\ OvershootBounded
    /\ Approaches /\ WorkingSwitchHomes


-----------------------------------------------------------------------------
\* Distances beyond home are the positions, or their opposites.
LEMMA Directions ==
    ASSUME TypeOK
    PROVE  /\ conf.max \in Int
           /\ \/ conf.direction = 1 /\ homing_dir = -1
              \/ conf.direction = 3 /\ homing_dir = 1
           /\ homing_dir = -1 => \A p \in Int : Beyond(p) = -p /\ homing_dir * p = -p
           /\ homing_dir = 1 => \A p \in Int : Beyond(p) = p /\ homing_dir * p = p
           /\ \A p \in Int : /\ Beyond(p) \in Int /\ homing_dir * p \in Int
                             /\ Beyond(homing_dir * p) = p
           /\ Beyond(0) = 0
           /\ \A p \in WorkRange : p \in Int /\ Beyond(p) <= 0
  <1>1. /\ conf.max \in Int
        /\ \/ conf.direction = 1 /\ homing_dir = -1
           \/ conf.direction = 3 /\ homing_dir = 1
    BY ConfigsAssumption DEF TypeOK, homing_dir
  <1>2. /\ homing_dir = -1 => \A p \in Int : Beyond(p) = -p /\ homing_dir * p = -p
        /\ homing_dir = 1 => \A p \in Int : Beyond(p) = p /\ homing_dir * p = p
    BY DEF Beyond
  <1>3. \A p \in Int : /\ Beyond(p) \in Int /\ homing_dir * p \in Int
                       /\ Beyond(homing_dir * p) = p
    BY <1>1, <1>2
  <1>4. ASSUME NEW p \in WorkRange PROVE p \in Int /\ Beyond(p) <= 0
    <2>1. PICK k \in 0 .. Range : p = -homing_dir * k
      BY DEF WorkRange
    <2>2. CASE conf.direction = 1
      BY <2>1, <2>2, <1>1, RangeAssumption DEF Beyond
    <2>3. CASE conf.direction = 3
      BY <2>1, <2>3, <1>1, RangeAssumption DEF Beyond
    <2> QED BY <2>2, <2>3, <1>1
  <1> QED BY <1>1, <1>2, <1>3, <1>4 DEF Beyond

\* A position that passes the test of the loop is not beyond the bound.
LEMMA InBounds ==
    ASSUME TypeOK, NEW p \in Int, NEW c \in BOOLEAN, conf.max >= 0, ~OutOfBounds(p, c)
    PROVE  Beyond(p) <= conf.max
  <1>1. CASE conf.direction = 1
    <2>1. conf.max * homing_dir = -conf.max
      BY <1>1, Directions
    <2> QED BY <1>1, <2>1, Directions DEF OutOfBounds
  <1>2. CASE conf.direction = 3
    <2>1. conf.max * homing_dir = conf.max
      BY <1>2, Directions
    <2> QED BY <1>2, <2>1, Directions DEF OutOfBounds
  <1> QED BY <1>1, <1>2, Directions

\* Before home, only an axis that turned round far out fails the test.
LEMMA OutOfBoundsBefore ==
    ASSUME TypeOK, NEW p \in Int, NEW c \in BOOLEAN, conf.max >= 0,
           Beyond(p) <= 0, p = 0 \/ ~c
    PROVE  ~OutOfBounds(p, c)
  <1>1. CASE conf.direction = 1
    <2>1. conf.max * homing_dir = -conf.max
      BY <1>1, Directions
    <2> QED BY <1>1, <2>1, Directions DEF OutOfBounds, Abs
  <1>2. CASE conf.direction = 3
    <2>1. conf.max * homing_dir = conf.max
      BY <1>2, Directions
    <2> QED BY <1>2, <2>1, Directions DEF OutOfBounds, Abs
  <1> QED BY <1>1, <1>2, Directions

LEMMA InitIInv == Init => IInv
  <1> SUFFICES ASSUME Init PROVE IInv
    OBVIOUS
  <1>1. TypeOK
    <2>1. \A p \in WorkRange : p \in Int
      <3> SUFFICES ASSUME NEW p \in WorkRange PROVE p \in Int
        OBVIOUS
      <3>1. PICK k \in 0 .. Range : p = -homing_dir * k
        BY DEF WorkRange
      <3>2. homing_dir \in Int
        BY DEF homing_dir
      <3> QED BY <3>1, <3>2, RangeAssumption
    <2>2. pos \in Int
      BY <2>1 DEF Init
    <2>3. /\ prog = "initLimits" /\ prog \in ProgPC
          /\ prog \notin Watching \cup {"homeSwitch", "home", "posOld", "doneLimits"}
      BY DEF Init, ProgPC, Watching
    <2>4. attempts \in 0 .. MaxAttempts /\ r1 \in Nat /\ runs \in Nat
      BY DEF Init, MaxAttempts
    <2>5. /\ second \in BOOLEAN /\ change_dir \in BOOLEAN /\ working \in BOOLEAN
          /\ conf \in Configs /\ result \in {"none", "ok", "failed"}
          /\ move \in {"none", "MR", "HM"}
      BY DEF Init
    <2>6. pos_old \in Int /\ dir_old \in {-1, 0, 1} /\ origin \in Int
      BY DEF Init
    <2>7. homeSwitch \in {"off", "limit", "home"} /\ farSwitch \in {"off", "limit"}
      BY DEF Init
    <2> QED BY <2>2, <2>3, <2>4, <2>5, <2>6, <2>7 DEF TypeOK
  <1>2. Beyond(pos) <= 0
    BY <1>1, Directions DEF Init
  <1> QED BY <1>1, <1>2 DEF Init, IInv, Switches, Confirmed, Moves, Sampled,
      OvershootBounded, Approaches, WorkingSwitchHomes, Watching

\* While the program sleeps the axis stands, or meets its switch, or goes on.
LEMMA Advance ==
    ASSUME IInv, Sleep
    PROVE  /\ prog = "sleep" /\ prog' = "sample" /\ pos' \in Int /\ Beyond(pos') \in Int
           /\ \/ pos' = pos /\ move' = move /\ move = "none"
              \/ pos' = 0 /\ Beyond(pos') = 0 /\ Beyond(pos) <= 0 /\ working /\ move' = "none"
              \/ /\ move = "HM" /\ move' = "HM" /\ Beyond(pos') <= Beyond(pos) + Speed
                 /\ working /\ Beyond(pos) <= 0 =>
                       Beyond(pos') < 0 /\ Beyond(pos') > Beyond(pos)
  <1>1. prog = "sleep" /\ prog' = "sample"
    BY DEF Sleep, Go
  <1>2. pos \in Int /\ Beyond(pos) \in Int /\ Beyond(0) = 0
    BY Directions DEF IInv, TypeOK
  <1>3. CASE move = "none"
    BY <1>1, <1>2, <1>3 DEF Sleep
  <1>4. CASE move = "HM"
    <2>1. PICK d \in 1 .. Speed :
            IF working /\ Beyond(pos) <= 0 /\ Beyond(pos) + d >= 0
            THEN pos' = 0 /\ move' = "none"
            ELSE /\ pos' = homing_dir * (IF Beyond(pos) + d > End THEN End
                                         ELSE Beyond(pos) + d)
                 /\ UNCHANGED move
      BY <1>4 DEF Sleep
    <2>2. CASE working /\ Beyond(pos) <= 0 /\ Beyond(pos) + d >= 0
      <3>1. pos' = 0 /\ move' = "none"
        BY <2>1, <2>2
      <3>2. Beyond(pos') = 0
        BY <3>1, <1>2
      <3> QED BY <1>1, <2>2, <3>1, <3>2
    <2>3. CASE ~(working /\ Beyond(pos) <= 0 /\ Beyond(pos) + d >= 0)
      <3> DEFINE b == IF Beyond(pos) + d > End THEN End ELSE Beyond(pos) + d
      <3>1. pos' = homing_dir * b /\ move' = move
        BY <2>1, <2>3
      <3>2. b \in Int /\ b <= Beyond(pos) + Speed
        BY <1>2, SpeedAssumption, RangeAssumption
      <3>3. pos' \in Int /\ Beyond(pos') = b
        BY <3>1, <3>2, Directions DEF IInv
      <3>4. working /\ Beyond(pos) <= 0 => b < 0 /\ b > Beyond(pos)
        BY <2>3, <1>2, SpeedAssumption, RangeAssumption
      <3> QED BY <1>1, <1>4, <3>1, <3>2, <3>3, <3>4
    <2> QED BY <2>2, <2>3
  <1> QED BY <1>3, <1>4 DEF Sleep

\* Before its switch, a working axis is found nearer at every sample.
LEMMA Nearer ==
    ASSUME IInv, prog = "sample", working, pos # 0
    PROVE  /\ copysign(pos - pos_old) = homing_dir /\ dir_old = homing_dir
           /\ ~change_dir /\ move = "HM"
  <1>1. Beyond(pos) > Beyond(pos_old) /\ dir_old = homing_dir /\ ~change_dir /\ move = "HM"
    BY DEF IInv, Approaches
  <1>2. pos \in Int /\ pos_old \in Int
    BY DEF IInv, TypeOK
  <1>3. CASE homing_dir = -1
    BY <1>1, <1>2, <1>3, Directions DEF IInv, copysign
  <1>4. CASE homing_dir = 1
    BY <1>1, <1>2, <1>4, Directions DEF IInv, copysign
  <1> QED BY <1>1, <1>3, <1>4, Directions DEF IInv

\* An axis left alone comes to rest, not past a switch that works.
LEMMA Arrival ==
    ASSUME IInv, AxisArrives
    PROVE  /\ pos' \in Int /\ move' = "none" /\ prog' = prog
           /\ prog \in {"refWait", "firstWait", "ended"}
           /\ working => Beyond(pos') <= 0
  <1>1. CASE move = "MR"
    BY <1>1, Directions DEF IInv, AxisArrives, Moves
  <1>2. CASE move = "HM"
    <2>1. /\ pos' = IF working /\ Beyond(pos) <= 0 THEN 0 ELSE homing_dir * End
          /\ prog = "ended" /\ prog' = prog /\ move' = "none"
      BY <1>2 DEF AxisArrives
    <2>2. working => Beyond(pos) <= 0
      BY DEF IInv, Approaches
    <2>3. CASE working
      <3>1. pos' = 0
        BY <2>1, <2>2, <2>3
      <3>2. Beyond(0) = 0
        BY Directions DEF IInv
      <3> QED BY <2>1, <3>1, <3>2
    <2>4. CASE ~working
      <3>1. End \in Int
        BY RangeAssumption
      <3>2. homing_dir * End \in Int
        BY <3>1, Directions DEF IInv
      <3> QED BY <2>1, <2>4, <3>2
    <2> QED BY <2>3, <2>4
  <1> QED BY <1>1, <1>2 DEF AxisArrives

LEMMA StepIInv == IInv /\ [Next]_vars => IInv'
  <1> SUFFICES ASSUME IInv, [Next]_vars PROVE IInv'
    OBVIOUS
  <1> USE SpeedAssumption, RangeAssumption DEF IInv
  <1>a. pos \in Int /\ Beyond(pos) \in Int
    BY Directions DEF TypeOK

  <1>1. CASE InitLimits
    <2>1. TypeOK'
      BY <1>1 DEF InitLimits, SetLimits, fixed, controller, locals, TypeOK, ProgPC,
         Watching, MaxAttempts
    <2>2. Switches'
      BY <1>1 DEF InitLimits, SetLimits, fixed, controller, locals, Switches, Confirmed,
         Watching
    <2>3. Moves'
      BY <1>1 DEF InitLimits, SetLimits, fixed, controller, locals, Moves
    <2>4. Sampled'
      BY <1>1 DEF InitLimits, SetLimits, fixed, controller, locals, Sampled, Beyond,
         homing_dir, Watching
    <2>5. OvershootBounded'
      BY <1>1 DEF InitLimits, SetLimits, fixed, controller, locals, OvershootBounded,
         Beyond, homing_dir, Watching
    <2>6. Approaches'
      BY <1>1 DEF InitLimits, SetLimits, fixed, controller, locals, Approaches, Beyond,
         homing_dir, Watching
    <2>7. WorkingSwitchHomes'
      BY <1>1 DEF InitLimits, SetLimits, fixed, controller, locals, WorkingSwitchHomes
    <2> QED BY <2>1, <2>2, <2>3, <2>4, <2>5, <2>6, <2>7
  <1>2. CASE NotHomedByHand
    <2>1. TypeOK'
      BY <1>2 DEF NotHomedByHand, Go, AfterHoming, fixed, controller, locals, TypeOK,
         ProgPC, Watching, MaxAttempts
    <2>2. Switches'
      BY <1>2 DEF NotHomedByHand, Go, AfterHoming, fixed, controller, locals, Switches,
         Confirmed, Watching
    <2>3. Moves'
      BY <1>2 DEF NotHomedByHand, Go, AfterHoming, fixed, controller, locals, Moves
    <2>4. Sampled'
      BY <1>2 DEF NotHomedByHand, Go, AfterHoming, fixed, controller, locals, Sampled,
         Beyond, homing_dir, Watching
    <2>5. OvershootBounded'
      BY <1>2 DEF NotHomedByHand, Go, AfterHoming, fixed, controller, locals,
         OvershootBounded, Beyond, homing_dir, Watching
    <2>6. Approaches'
      BY <1>2 DEF NotHomedByHand, Go, AfterHoming, fixed, controller, locals, Approaches,
         Beyond, homing_dir, Watching
    <2>7. WorkingSwitchHomes'
      BY <1>2 DEF NotHomedByHand, Go, AfterHoming, fixed, controller, locals,
         WorkingSwitchHomes
    <2> QED BY <2>1, <2>2, <2>3, <2>4, <2>5, <2>6, <2>7
  <1>3. CASE HomedByHand
    <2>1. TypeOK'
      BY <1>3 DEF HomedByHand, Go, fixed, controller, locals, TypeOK, ProgPC, Watching,
         MaxAttempts
    <2>2. Switches'
      BY <1>3 DEF HomedByHand, Go, fixed, controller, locals, Switches, Confirmed, Watching
    <2>3. Moves'
      BY <1>3 DEF HomedByHand, Go, fixed, controller, locals, Moves
    <2>4. Sampled'
      BY <1>3 DEF HomedByHand, Go, fixed, controller, locals, Sampled, Beyond,
         homing_dir, Watching
    <2>5. OvershootBounded'
      BY <1>3 DEF HomedByHand, Go, fixed, controller, locals, OvershootBounded, Beyond,
         homing_dir, Watching
    <2>6. Approaches'
      BY <1>3 DEF HomedByHand, Go, fixed, controller, locals, Approaches, Beyond,
         homing_dir, Watching
    <2>7. WorkingSwitchHomes'
      BY <1>3 DEF HomedByHand, Go, fixed, controller, locals, WorkingSwitchHomes
    <2> QED BY <2>1, <2>2, <2>3, <2>4, <2>5, <2>6, <2>7
  <1>4. CASE SetHomeSwitch
    <2>1. TypeOK'
      BY <1>4 DEF SetHomeSwitch, fixed, controller, locals, TypeOK, ProgPC, Watching,
         MaxAttempts
    <2>2. Switches'
      BY <1>4 DEF SetHomeSwitch, fixed, controller, locals, Switches, Confirmed, Watching
    <2>3. Moves'
      BY <1>4 DEF SetHomeSwitch, fixed, controller, locals, Moves
    <2>4. Sampled'
      BY <1>4 DEF SetHomeSwitch, fixed, controller, locals, Sampled, Beyond, homing_dir,
         Watching
    <2>5. OvershootBounded'
      BY <1>4 DEF SetHomeSwitch, fixed, controller, locals, OvershootBounded, Beyond,
         homing_dir, Watching
    <2>6. Approaches'
      BY <1>4 DEF SetHomeSwitch, fixed, controller, locals, Approaches, Beyond,
         homing_dir, Watching
    <2>7. WorkingSwitchHomes'
      BY <1>4 DEF SetHomeSwitch, fixed, controller, locals, WorkingSwitchHomes
    <2> QED BY <2>1, <2>2, <2>3, <2>4, <2>5, <2>6, <2>7
  <1>5. CASE SendHome
    <2>1. TypeOK'
      BY <1>5 DEF SendHome, Go, fixed, controller, locals, TypeOK, ProgPC, Watching,
         MaxAttempts
    <2>2. Switches'
      BY <1>5 DEF SendHome, Go, fixed, controller, locals, Switches, Confirmed, Watching
    <2>3. Moves'
      BY <1>5 DEF SendHome, Go, fixed, controller, locals, Moves
    <2>4. Sampled'
      BY <1>5 DEF SendHome, Go, fixed, controller, locals, Sampled, Beyond, homing_dir,
         Watching
    <2>5. OvershootBounded'
      BY <1>5 DEF SendHome, Go, fixed, controller, locals, OvershootBounded, Beyond,
         homing_dir, Watching
    <2>6. Approaches'
      BY <1>5 DEF SendHome, Go, fixed, controller, locals, Approaches, Beyond,
         homing_dir, Watching
    <2>7. WorkingSwitchHomes'
      BY <1>5 DEF SendHome, Go, fixed, controller, locals, WorkingSwitchHomes
    <2> QED BY <2>1, <2>2, <2>3, <2>4, <2>5, <2>6, <2>7
  <1>6. CASE ReadPosOld
    <2>1. TypeOK'
      BY <1>6 DEF ReadPosOld, Go, fixed, controller, locals, TypeOK, ProgPC, Watching,
         MaxAttempts, homing_dir
    <2>2. Switches'
      BY <1>6 DEF ReadPosOld, Go, fixed, controller, locals, Switches, Confirmed, Watching
    <2>3. Moves'
      BY <1>6 DEF ReadPosOld, Go, fixed, controller, locals, Moves
    <2>4. Sampled'
      BY <1>6 DEF ReadPosOld, Go, fixed, controller, locals, Sampled, Beyond, homing_dir,
         Watching
    <2>5. OvershootBounded'
      <3>1. conf.max >= 0 => pos = origin
        BY <1>6 DEF ReadPosOld, Go, Sampled
      <3> QED BY <1>6, <3>1, <1>a DEF ReadPosOld, fixed, controller, OvershootBounded,
           Beyond, homing_dir
    <2>6. Approaches'
      <3>1. homing_dir' = homing_dir /\ Beyond(pos)' = Beyond(pos)
        BY <1>6 DEF ReadPosOld, fixed, controller, Beyond, homing_dir
      <3> QED BY <1>6, <3>1 DEF ReadPosOld, Go, fixed, controller, Approaches, Moves
    <2>7. WorkingSwitchHomes'
      BY <1>6 DEF ReadPosOld, Go, fixed, controller, locals, WorkingSwitchHomes
    <2> QED BY <2>1, <2>2, <2>3, <2>4, <2>5, <2>6, <2>7
  <1>7. CASE StillMoving
    <2>1. TypeOK'
      BY <1>7 DEF StillMoving, Go, fixed, controller, locals, TypeOK, ProgPC, Watching,
         MaxAttempts
    <2>2. Switches'
      BY <1>7 DEF StillMoving, Go, fixed, controller, locals, Switches, Confirmed, Watching
    <2>3. Moves'
      BY <1>7 DEF StillMoving, Go, fixed, controller, locals, Moves
    <2>4. Sampled'
      BY <1>7 DEF StillMoving, Go, fixed, controller, locals, Sampled, Beyond,
         homing_dir, Watching
    <2>5. OvershootBounded'
      BY <1>7 DEF StillMoving, Go, fixed, controller, locals, OvershootBounded, Beyond,
         homing_dir, Watching
    <2>6. Approaches'
      BY <1>7 DEF StillMoving, Go, fixed, controller, locals, Approaches, Beyond,
         homing_dir, Watching
    <2>7. WorkingSwitchHomes'
      BY <1>7 DEF StillMoving, Go, fixed, controller, locals, WorkingSwitchHomes
    <2> QED BY <2>1, <2>2, <2>3, <2>4, <2>5, <2>6, <2>7
  <1>8. CASE HomingOver
    <2>1. TypeOK'
      BY <1>8 DEF HomingOver, Go, fixed, controller, locals, TypeOK, ProgPC, Watching,
         MaxAttempts
    <2>2. Switches'
      BY <1>8 DEF HomingOver, Go, fixed, controller, locals, Switches, Confirmed, Watching
    <2>3. Moves'
      BY <1>8 DEF HomingOver, Go, fixed, controller, locals, Moves
    <2>4. Sampled'
      BY <1>8 DEF HomingOver, Go, fixed, controller, locals, Sampled, Beyond, homing_dir,
         Watching
    <2>5. OvershootBounded'
      BY <1>8 DEF HomingOver, Go, fixed, controller, locals, OvershootBounded, Beyond,
         homing_dir, Watching
    <2>6. Approaches'
      BY <1>8 DEF HomingOver, Go, fixed, controller, locals, Approaches, Beyond,
         homing_dir, Watching
    <2>7. WorkingSwitchHomes'
      BY <1>8 DEF HomingOver, Go, fixed, controller, locals, WorkingSwitchHomes
    <2> QED BY <2>1, <2>2, <2>3, <2>4, <2>5, <2>6, <2>7
  <1>9. CASE Sleep
    <2>a. /\ prog = "sleep" /\ prog' = "sample" /\ pos' \in Int /\ Beyond(pos') \in Int
          /\ \/ pos' = pos /\ move' = move /\ move = "none"
             \/ pos' = 0 /\ Beyond(pos') = 0 /\ Beyond(pos) <= 0 /\ working /\ move' = "none"
             \/ /\ move = "HM" /\ move' = "HM" /\ Beyond(pos') <= Beyond(pos) + Speed
                /\ working /\ Beyond(pos) <= 0 =>
                      Beyond(pos') < 0 /\ Beyond(pos') > Beyond(pos)
      BY <1>9, Advance
    <2>b. Beyond(pos)' = Beyond(pos') /\ Beyond(origin)' = Beyond(origin)
          /\ Beyond(pos_old)' = Beyond(pos_old) /\ homing_dir' = homing_dir
      BY <1>9 DEF Sleep, fixed, locals, Beyond, homing_dir
    <2>1. TypeOK'
      <3>1. move' \in {"none", "MR", "HM"}
        BY <2>a
      <3>2. prog' \in ProgPC /\ r1 >= 1
        BY <2>a DEF TypeOK, ProgPC, Watching
      <3> QED BY <1>9, <2>a, <3>1, <3>2 DEF Sleep, fixed, locals, TypeOK
    <2>2. Switches'
      BY <1>9 DEF Sleep, Go, Switches, Confirmed
    <2>3. Moves'
      BY <1>9, <2>a DEF Moves
    <2>4. Sampled'
      BY <2>a DEF Sampled
    <2>5. OvershootBounded'
      <3>1. conf.max >= 0 => Beyond(pos) <= conf.max \/ pos = origin
        BY <2>a DEF Sampled
      <3>2. origin \in Int /\ Beyond(origin) \in Int /\ conf.max \in Int
        BY Directions DEF TypeOK
      <3>3. conf.max >= 0 => \/ Beyond(pos') <= conf.max + Speed
                             \/ Beyond(pos') <= Beyond(origin) + Speed
        <4>1. CASE pos' = pos
          BY <4>1, <3>1, <3>2, <1>a
        <4>2. CASE Beyond(pos') = 0
          BY <4>2, <3>2
        <4>3. CASE Beyond(pos') <= Beyond(pos) + Speed
          BY <4>3, <2>a, <3>1, <3>2, <1>a
        <4> QED BY <2>a, <4>1, <4>2, <4>3
      <3>4. conf' = conf
        BY <1>9 DEF Sleep, fixed
      <3> QED BY <2>b, <3>3, <3>4 DEF OvershootBounded
    <2>6. Approaches'
      <3>1. working' = working /\ pos_old' = pos_old /\ dir_old' = dir_old
            /\ change_dir' = change_dir
        BY <1>9 DEF Sleep, fixed, locals
      <3>2. working => /\ Beyond(pos) <= 0 /\ pos_old = pos
                       /\ pos = 0 \/ (dir_old = homing_dir /\ ~change_dir /\ move = "HM")
        BY <2>a DEF Approaches
      <3>3. CASE pos' = pos /\ move' = move /\ move = "none"
        BY <2>a, <2>b, <3>1, <3>2, <3>3 DEF Approaches
      <3>4. CASE pos' = 0 /\ Beyond(pos') = 0
        BY <2>a, <2>b, <3>1, <3>2, <3>4 DEF Approaches
      <3>5. CASE /\ move = "HM" /\ move' = "HM"
                 /\ working /\ Beyond(pos) <= 0 =>
                       Beyond(pos') < 0 /\ Beyond(pos') > Beyond(pos)
        <4>1. working => /\ Beyond(pos') <= 0 /\ Beyond(pos') > Beyond(pos_old)
          BY <2>a, <3>2, <3>5, <1>a
        <4>2. working => pos = 0 \/ (dir_old = homing_dir /\ ~change_dir)
          BY <3>2
        <4>3. working => pos # 0
          <5>1. Beyond(0) = 0
            BY Directions
          <5>2. working => Beyond(pos) < 0
            BY <3>2, <3>5, <2>a, <1>a
          <5> QED BY <5>1, <5>2
        <4> QED BY <2>a, <2>b, <3>1, <3>5, <4>1, <4>2, <4>3 DEF Approaches
      <3> QED BY <2>a, <3>3, <3>4, <3>5
    <2>7. WorkingSwitchHomes'
      BY <2>a DEF WorkingSwitchHomes
    <2> QED BY <2>1, <2>2, <2>3, <2>4, <2>5, <2>6, <2>7
  <1>10. CASE Sample
    <2> DEFINE dn == copysign(pos - pos_old)
               ch == change_dir \/ dn # dir_old
    <2>a. /\ prog = "sample" /\ change_dir' = ch /\ pos_old' = pos /\ dir_old' = dn
          /\ \/ OutOfBounds(pos, ch) /\ prog' = "zero" /\ move' = "none"
             \/ ~OutOfBounds(pos, ch) /\ prog' = "moving" /\ move' = move
          /\ UNCHANGED <<fixed, homeSwitch, farSwitch, r1, pos, attempts, second, result,
                         runs, origin>>
      BY <1>10 DEF Sample, Go
    <2>b. ch \in BOOLEAN /\ dn \in {-1, 1}
      BY DEF TypeOK, copysign
    <2>c. working => Beyond(pos) <= 0 /\ (pos = 0 \/ (dn = homing_dir /\ ~ch /\ move = "HM"))
      <3>1. working /\ pos # 0 => dn = homing_dir /\ dir_old = homing_dir
                                  /\ ~change_dir /\ move = "HM"
        BY <2>a, Nearer
      <3> QED BY <3>1 DEF Approaches
    <2> HIDE DEF dn, ch
    <2>d. Beyond(pos)' = Beyond(pos) /\ Beyond(origin)' = Beyond(origin)
          /\ homing_dir' = homing_dir
      BY <2>a DEF fixed, Beyond, homing_dir
    <2>1. TypeOK'
      <3>1. prog' \in ProgPC /\ move' \in {"none", "MR", "HM"}
        BY <2>a DEF TypeOK, ProgPC, Watching
      <3>2. r1 >= 1
        BY <2>a DEF TypeOK, Watching
      <3> QED BY <2>a, <2>b, <3>1, <3>2 DEF fixed, TypeOK
    <2>2. Switches'
      BY <2>a DEF Switches, Confirmed
    <2>3. Moves'
      BY <2>a DEF Moves
    <2>4. Sampled'
      <3>1. conf.max >= 0 /\ prog' = "moving" => Beyond(pos) <= conf.max
        BY <2>a, <2>b, <1>a, InBounds
      <3> QED BY <2>a, <2>d, <3>1 DEF fixed, Sampled
    <2>5. OvershootBounded'
      BY <2>a, <2>d DEF fixed, OvershootBounded, Watching
    <2>6. Approaches'
      BY <2>a, <2>c, <2>d DEF fixed, Approaches
    <2>7. WorkingSwitchHomes'
      <3>1. working /\ conf.max >= 0 => ~OutOfBounds(pos, ch)
        BY <2>b, <2>c, <1>a, OutOfBoundsBefore
      <3> QED BY <2>a, <3>1 DEF fixed, WorkingSwitchHomes
    <2> QED BY <2>1, <2>2, <2>3, <2>4, <2>5, <2>6, <2>7
  <1>11. CASE ZeroCount
    <2>1. TypeOK'
      BY <1>11 DEF ZeroCount, Go, fixed, controller, locals, TypeOK, ProgPC, Watching,
         MaxAttempts
    <2>2. Switches'
      BY <1>11 DEF ZeroCount, Go, fixed, controller, locals, Switches, Confirmed, Watching
    <2>3. Moves'
      BY <1>11 DEF ZeroCount, Go, fixed, controller, locals, Moves
    <2>4. Sampled'
      BY <1>11 DEF ZeroCount, Go, fixed, controller, locals, Sampled, Beyond, homing_dir,
         Watching
    <2>5. OvershootBounded'
      BY <1>11 DEF ZeroCount, Go, fixed, controller, locals, OvershootBounded, Beyond,
         homing_dir, Watching
    <2>6. Approaches'
      BY <1>11 DEF ZeroCount, Go, fixed, controller, locals, Approaches, Beyond,
         homing_dir, Watching
    <2>7. WorkingSwitchHomes'
      BY <1>11 DEF ZeroCount, Go, fixed, controller, locals, WorkingSwitchHomes
    <2> QED BY <2>1, <2>2, <2>3, <2>4, <2>5, <2>6, <2>7
  <1>12. CASE AbortLimits
    <2>1. TypeOK'
      BY <1>12 DEF AbortLimits, SetLimits, fixed, controller, locals, TypeOK, ProgPC,
         Watching, MaxAttempts
    <2>2. Switches'
      BY <1>12 DEF AbortLimits, SetLimits, fixed, controller, locals, Switches,
         Confirmed, Watching
    <2>3. Moves'
      BY <1>12 DEF AbortLimits, SetLimits, fixed, controller, locals, Moves
    <2>4. Sampled'
      BY <1>12 DEF AbortLimits, SetLimits, fixed, controller, locals, Sampled, Beyond,
         homing_dir, Watching
    <2>5. OvershootBounded'
      BY <1>12 DEF AbortLimits, SetLimits, fixed, controller, locals, OvershootBounded,
         Beyond, homing_dir, Watching
    <2>6. Approaches'
      BY <1>12 DEF AbortLimits, SetLimits, fixed, controller, locals, Approaches, Beyond,
         homing_dir, Watching
    <2>7. WorkingSwitchHomes'
      BY <1>12 DEF AbortLimits, SetLimits, fixed, controller, locals, WorkingSwitchHomes
    <2> QED BY <2>1, <2>2, <2>3, <2>4, <2>5, <2>6, <2>7
  <1>13. CASE Aborted
    <2>1. TypeOK'
      BY <1>13 DEF Aborted, Go, AfterHoming, fixed, controller, locals, TypeOK, ProgPC,
         Watching, MaxAttempts
    <2>2. Switches'
      BY <1>13 DEF Aborted, Go, AfterHoming, fixed, controller, locals, Switches,
         Confirmed, Watching
    <2>3. Moves'
      BY <1>13 DEF Aborted, Go, AfterHoming, fixed, controller, locals, Moves
    <2>4. Sampled'
      BY <1>13 DEF Aborted, Go, AfterHoming, fixed, controller, locals, Sampled, Beyond,
         homing_dir, Watching
    <2>5. OvershootBounded'
      BY <1>13 DEF Aborted, Go, AfterHoming, fixed, controller, locals, OvershootBounded,
         Beyond, homing_dir, Watching
    <2>6. Approaches'
      BY <1>13 DEF Aborted, Go, AfterHoming, fixed, controller, locals, Approaches,
         Beyond, homing_dir, Watching
    <2>7. WorkingSwitchHomes'
      BY <1>13 DEF Aborted, Go, AfterHoming, fixed, controller, locals, WorkingSwitchHomes
    <2> QED BY <2>1, <2>2, <2>3, <2>4, <2>5, <2>6, <2>7
  <1>14. CASE DoneLimits
    <2>1. TypeOK'
      BY <1>14 DEF DoneLimits, SetLimits, fixed, controller, locals, TypeOK, ProgPC,
         Watching, MaxAttempts
    <2>2. Switches'
      BY <1>14 DEF DoneLimits, SetLimits, fixed, controller, locals, Switches, Confirmed,
         Watching
    <2>3. Moves'
      BY <1>14 DEF DoneLimits, SetLimits, fixed, controller, locals, Moves
    <2>4. Sampled'
      BY <1>14 DEF DoneLimits, SetLimits, fixed, controller, locals, Sampled, Beyond,
         homing_dir, Watching
    <2>5. OvershootBounded'
      BY <1>14 DEF DoneLimits, SetLimits, fixed, controller, locals, OvershootBounded,
         Beyond, homing_dir, Watching
    <2>6. Approaches'
      BY <1>14 DEF DoneLimits, SetLimits, fixed, controller, locals, Approaches, Beyond,
         homing_dir, Watching
    <2>7. WorkingSwitchHomes'
      BY <1>14 DEF DoneLimits, SetLimits, fixed, controller, locals, WorkingSwitchHomes
    <2> QED BY <2>1, <2>2, <2>3, <2>4, <2>5, <2>6, <2>7
  <1>15. CASE CountHoming
    <2>1. TypeOK'
      BY <1>15 DEF CountHoming, Go, AfterHoming, fixed, controller, locals, TypeOK,
         ProgPC, Watching, MaxAttempts
    <2>2. Switches'
      BY <1>15 DEF CountHoming, Go, AfterHoming, fixed, controller, locals, Switches,
         Confirmed, Watching
    <2>3. Moves'
      BY <1>15 DEF CountHoming, Go, AfterHoming, fixed, controller, locals, Moves
    <2>4. Sampled'
      BY <1>15 DEF CountHoming, Go, AfterHoming, fixed, controller, locals, Sampled,
         Beyond, homing_dir, Watching
    <2>5. OvershootBounded'
      BY <1>15 DEF CountHoming, Go, AfterHoming, fixed, controller, locals,
         OvershootBounded, Beyond, homing_dir, Watching
    <2>6. Approaches'
      BY <1>15 DEF CountHoming, Go, AfterHoming, fixed, controller, locals, Approaches,
         Beyond, homing_dir, Watching
    <2>7. WorkingSwitchHomes'
      BY <1>15 DEF CountHoming, Go, AfterHoming, fixed, controller, locals,
         WorkingSwitchHomes
    <2> QED BY <2>1, <2>2, <2>3, <2>4, <2>5, <2>6, <2>7
  <1>16. CASE RefMove
    <2>1. TypeOK'
      BY <1>16 DEF RefMove, SendMove, Go, fixed, controller, locals, TypeOK, ProgPC,
         Watching, MaxAttempts
    <2>2. Switches'
      BY <1>16 DEF RefMove, SendMove, Go, fixed, controller, locals, Switches, Confirmed,
         Watching
    <2>3. Moves'
      BY <1>16 DEF RefMove, SendMove, Go, fixed, controller, locals, Moves
    <2>4. Sampled'
      BY <1>16 DEF RefMove, SendMove, Go, fixed, controller, locals, Sampled, Beyond,
         homing_dir, Watching
    <2>5. OvershootBounded'
      BY <1>16 DEF RefMove, SendMove, Go, fixed, controller, locals, OvershootBounded,
         Beyond, homing_dir, Watching
    <2>6. Approaches'
      BY <1>16 DEF RefMove, SendMove, Go, fixed, controller, locals, Approaches, Beyond,
         homing_dir, Watching
    <2>7. WorkingSwitchHomes'
      BY <1>16 DEF RefMove, SendMove, Go, fixed, controller, locals, WorkingSwitchHomes
    <2> QED BY <2>1, <2>2, <2>3, <2>4, <2>5, <2>6, <2>7
  <1>17. CASE FirstMove
    <2>1. TypeOK'
      BY <1>17 DEF FirstMove, SendMove, Go, fixed, controller, locals, TypeOK, ProgPC,
         Watching, MaxAttempts
    <2>2. Switches'
      BY <1>17 DEF FirstMove, SendMove, Go, fixed, controller, locals, Switches,
         Confirmed, Watching
    <2>3. Moves'
      BY <1>17 DEF FirstMove, SendMove, Go, fixed, controller, locals, Moves
    <2>4. Sampled'
      BY <1>17 DEF FirstMove, SendMove, Go, fixed, controller, locals, Sampled, Beyond,
         homing_dir, Watching
    <2>5. OvershootBounded'
      BY <1>17 DEF FirstMove, SendMove, Go, fixed, controller, locals, OvershootBounded,
         Beyond, homing_dir, Watching
    <2>6. Approaches'
      BY <1>17 DEF FirstMove, SendMove, Go, fixed, controller, locals, Approaches,
         Beyond, homing_dir, Watching
    <2>7. WorkingSwitchHomes'
      BY <1>17 DEF FirstMove, SendMove, Go, fixed, controller, locals, WorkingSwitchHomes
    <2> QED BY <2>1, <2>2, <2>3, <2>4, <2>5, <2>6, <2>7
  <1>18. CASE MoveOver
    <2>1. TypeOK'
      BY <1>18, ZenonT(30)
        DEF MoveOver, Go, fixed, controller, locals, TypeOK, ProgPC, Watching,
         MaxAttempts
    <2>2. Switches'
      BY <1>18 DEF MoveOver, Go, fixed, controller, locals, Switches, Confirmed, Watching
    <2>3. Moves'
      BY <1>18 DEF MoveOver, Go, fixed, controller, locals, Moves
    <2>4. Sampled'
      BY <1>18 DEF MoveOver, Go, fixed, controller, locals, Sampled, Beyond, homing_dir,
         Watching
    <2>5. OvershootBounded'
      BY <1>18 DEF MoveOver, Go, fixed, controller, locals, OvershootBounded, Beyond,
         homing_dir, Watching
    <2>6. Approaches'
      BY <1>18 DEF MoveOver, Go, fixed, controller, locals, Approaches, Beyond,
         homing_dir, Watching
    <2>7. WorkingSwitchHomes'
      BY <1>18 DEF MoveOver, Go, fixed, controller, locals, WorkingSwitchHomes
    <2> QED BY <2>1, <2>2, <2>3, <2>4, <2>5, <2>6, <2>7
  <1>19. CASE BadReply
    <2>1. TypeOK'
      BY <1>19 DEF BadReply, Raise, Go, fixed, controller, locals, TypeOK, ProgPC,
         Watching, MaxAttempts
    <2>2. Switches'
      BY <1>19 DEF BadReply, Raise, Go, fixed, controller, locals, Switches, Confirmed,
         Watching
    <2>3. Moves'
      BY <1>19 DEF BadReply, Raise, Go, fixed, controller, locals, Moves
    <2>4. Sampled'
      BY <1>19 DEF BadReply, Raise, Go, fixed, controller, locals, Sampled, Beyond,
         homing_dir, Watching
    <2>5. OvershootBounded'
      BY <1>19 DEF BadReply, Raise, Go, fixed, controller, locals, OvershootBounded,
         Beyond, homing_dir, Watching
    <2>6. Approaches'
      BY <1>19 DEF BadReply, Raise, Go, fixed, controller, locals, Approaches, Beyond,
         homing_dir, Watching
    <2>7. WorkingSwitchHomes'
      BY <1>19 DEF BadReply, Raise, Go, fixed, controller, locals, WorkingSwitchHomes
    <2> QED BY <2>1, <2>2, <2>3, <2>4, <2>5, <2>6, <2>7
  <1>20. CASE AxisArrives
    <2>a. /\ pos' \in Int /\ move' = "none" /\ prog' = prog
          /\ prog \in {"refWait", "firstWait", "ended"}
          /\ working => Beyond(pos') <= 0
      BY <1>20, Arrival
    <2>b. Beyond(pos)' = Beyond(pos') /\ UNCHANGED <<conf, working>>
      BY <1>20 DEF AxisArrives, fixed, Beyond, homing_dir
    <2>1. TypeOK'
      BY <1>20, <2>a DEF AxisArrives, fixed, locals, TypeOK
    <2>2. Switches'
      BY <1>20 DEF AxisArrives, Switches, Confirmed
    <2>3. Moves'
      BY <2>a DEF Moves
    <2>4. Sampled'
      BY <2>a DEF Sampled
    <2>5. OvershootBounded'
      BY <2>a DEF OvershootBounded, Watching
    <2>6. Approaches'
      BY <2>a, <2>b DEF Approaches
    <2>7. WorkingSwitchHomes'
      BY <2>a DEF WorkingSwitchHomes
    <2> QED BY <2>1, <2>2, <2>3, <2>4, <2>5, <2>6, <2>7
  <1>21. CASE Restart
    <2>1. TypeOK'
      <3>1. /\ prog' = "initLimits" /\ prog' \in ProgPC
            /\ prog' \notin Watching \cup {"homeSwitch", "home", "posOld", "doneLimits"}
        BY <1>21 DEF Restart, ProgPC, Watching
      <3>2. attempts' \in 0 .. MaxAttempts /\ runs' \in Nat
        BY <1>21 DEF Restart, TypeOK, MaxAttempts
      <3> QED BY <1>21, <3>1, <3>2 DEF Restart, fixed, controller, locals, TypeOK
    <2>2. Switches'
      BY <1>21 DEF Restart, fixed, controller, locals, Switches, Confirmed, Watching
    <2>3. Moves'
      BY <1>21 DEF Restart, fixed, controller, locals, Moves
    <2>4. Sampled'
      BY <1>21 DEF Restart, fixed, controller, locals, Sampled, Beyond, homing_dir, Watching
    <2>5. OvershootBounded'
      BY <1>21 DEF Restart, fixed, controller, locals, OvershootBounded, Beyond,
         homing_dir, Watching
    <2>6. Approaches'
      BY <1>21 DEF Restart, fixed, controller, locals, Approaches, Beyond, homing_dir,
         Watching
    <2>7. WorkingSwitchHomes'
      BY <1>21 DEF Restart, fixed, controller, locals, WorkingSwitchHomes
    <2> QED BY <2>1, <2>2, <2>3, <2>4, <2>5, <2>6, <2>7
  <1>22. CASE UNCHANGED vars
    BY <1>22 DEF vars, fixed, controller, locals, TypeOK, Switches, Moves, Sampled,
       OvershootBounded, Approaches, WorkingSwitchHomes, Beyond, homing_dir
  <1> QED
    BY <1>1, <1>2, <1>3, <1>4, <1>5, <1>6, <1>7, <1>8, <1>9, <1>10, <1>11, <1>12, <1>13,
       <1>14, <1>15, <1>16, <1>17, <1>18, <1>19, <1>20, <1>21, <1>22 DEF Next, HomingStep

-----------------------------------------------------------------------------
\* The inductive invariant holds in every behaviour.
THEOREM Invariance == Spec => []IInv
  BY InitIInv, StepIInv, PTL DEF Spec

\* The attempts, counts and locals stay in their ranges.
THEOREM TypeCorrect == Spec => []TypeOK
  <1>1. IInv => TypeOK
    BY DEF IInv
  <1> QED BY <1>1, Invariance, PTL

\* The program moves an axis, other than home, with both limits armed.
THEOREM LimitsArmed == Spec => []MovesArmed
  <1>1. IInv => MovesArmed
    BY DEF IInv, Switches, Confirmed, MovesArmed
  <1> QED BY <1>1, Invariance, PTL

\* A watched axis with a dead switch is stopped within one sample.
THEOREM DeadSwitchCaught == Spec => []OvershootBounded
  <1>1. IInv => OvershootBounded
    BY DEF IInv
  <1> QED BY <1>1, Invariance, PTL

\* Homing is not aborted when the switch works.
THEOREM NoFalseAbort == Spec => []WorkingSwitchHomes
  <1>1. IInv => WorkingSwitchHomes
    BY DEF IInv
  <1> QED BY <1>1, Invariance, PTL
=============================================================================
