--------------------------- MODULE MSMotorProofs ---------------------------
(***************************************************************************)
(* What holds of a run of the motor for every length of the runs and every *)
(* number of pulses between two steps of the ramp, as long as a whole ramp *)
(* is shorter than a run: as long as the shell keeps out, a run of main    *)
(* turns the wheel by exactly its steps, at its own speed.                 *)
(*                                                                         *)
(* The invariant says what is known at each of main's statements.  Its     *)
(* arithmetic is that of the ramp: after i of its steps the motor has made *)
(* at most i * MaxPulses + since pulses, less than any run has, so that    *)
(* the interrupt does not stop the motor before the ramp is over.          *)
(***************************************************************************)
EXTENDS MSMotor, TLAPS

(* The type invariant in two parts, numbers and truth values. *)
NumOK ==
    /\ stepper_number \in Nat /\ speed_all \in Nat
    /\ speed_period \in Nat /\ period \in Nat
    /\ pwm_sem \in Nat /\ i \in 0..RampSteps /\ since \in 0..MaxPulses
    /\ pc \in [Callers -> {"idle", "count", "goal", "start", "wait", "done"}]
    /\ pc["shell"] \in {"idle", "count", "goal", "start"}
    /\ run \in [Callers -> Runs \cup {None}]
    /\ turned \in Nat

BoolOK == /\ on \in BOOLEAN /\ enabled \in BOOLEAN /\ fresh \in BOOLEAN
          /\ meddled \in BOOLEAN /\ halted \in BOOLEAN

(* pwm_thread waits, and nothing will wake it. *)
NoRamp == i = RampSteps /\ pwm_sem = 0

(* The motor stands and nothing has been counted yet. *)
Ready == ~on /\ enabled /\ turned = 0

(* At "start" the ramp of a low_speed run waits for main to sleep. *)
RampDue ==
    IF run["main"] = "low_speed"
    THEN (pwm_sem = 1 /\ i = RampSteps) \/ (pwm_sem = 0 /\ i = 0 /\ since = 0 /\ fresh)
    ELSE NoRamp

(* The motor runs until the goal is reached, and not longer. *)
Turning ==
    /\ turned = stepper_number /\ speed_all = Goal(run["main"])
    /\ stepper_number <= speed_all
    /\ on <=> stepper_number < speed_all
    /\ enabled <=> on

(* The ramp of a low_speed run is in step i; a high_speed run has none. *)
Ramping ==
    /\ pwm_sem = 0
    /\ IF run["main"] = "low_speed"
       THEN IF i < RampSteps THEN stepper_number <= i * MaxPulses + since
            ELSE period = 62500
       ELSE i = RampSteps /\ period = PWM_SPEED_HIGH

Finished ==
    /\ NoRamp /\ ~on /\ ~enabled /\ turned = Goal(run["main"])
    /\ period = IF run["main"] = "low_speed" THEN 62500 ELSE PWM_SPEED_HIGH

RunInv ==
    ~meddled =>
        /\ pc["shell"] = "idle"
        /\ pc["main"] # "idle" => run["main"] \in Runs
        /\ pc["main"] = "idle" => NoRamp /\ ~on
        /\ pc["main"] = "count" => NoRamp /\ Ready
        /\ pc["main"] = "goal" => NoRamp /\ Ready /\ stepper_number = 0
        /\ pc["main"] = "start" => /\ RampDue /\ Ready /\ stepper_number = 0
                                   /\ speed_all = Goal(run["main"])
        /\ pc["main"] = "wait" => Turning /\ Ramping
        /\ pc["main"] = "done" => Finished

MotorInv == NumOK /\ RunInv

-----------------------------------------------------------------------------
(* A step of the ramp adds at most MaxPulses, and ten of them are less     *)
(* than a run.                                                             *)
LEMMA RampShort ==
    ASSUME NEW k \in 0..9, NEW r \in Runs
    PROVE  /\ k * MaxPulses \in Nat
           /\ (k + 1) * MaxPulses = k * MaxPulses + MaxPulses
           /\ k * MaxPulses + MaxPulses < Goal(r)
  <1>1. MaxPulses \in Nat /\ 10 * MaxPulses < Goal(r)
    BY MotorAssumption DEF RampSteps, Goal, Runs
  <1>2. k * MaxPulses \in Nat /\ (k + 1) * MaxPulses = k * MaxPulses + MaxPulses
    BY <1>1
  <1>3. k * MaxPulses + MaxPulses <= 10 * MaxPulses
    <2>1. k = 0 \/ k = 1 \/ k = 2 \/ k = 3 \/ k = 4 \/ k = 5 \/ k = 6 \/ k = 7
             \/ k = 8 \/ k = 9
      OBVIOUS
    <2>2. QED  BY <2>1, <1>1
  <1>4. Goal(r) \in Nat
    BY MotorAssumption DEF Goal
  <1>5. QED
    <2>1. 10 * MaxPulses \in Nat
      BY <1>1
    <2>2. QED  BY <1>1, <1>2, <1>3, <1>4, <2>1

(* A goal is a positive number of steps. *)
LEMMA GoalType == \A r : Goal(r) \in Nat /\ Goal(r) > 0
  BY MotorAssumption DEF RampSteps, Goal

(* An interrupt keeps the invariant. *)
LEMMA PulseInv == MotorInv /\ PulseFinished => MotorInv'
  <1> SUFFICES ASSUME MotorInv, PulseFinished PROVE MotorInv'
    OBVIOUS
  <1> USE MotorAssumption, GoalType
  <1>1. NumOK'
    BY DEF MotorInv, NumOK, PulseFinished, callVars, RampSteps
  <1>2. RunInv'
    <2> SUFFICES ASSUME ~meddled' PROVE RunInv'
      BY DEF RunInv
    <2>1. /\ ~meddled /\ on /\ pc' = pc /\ run' = run
      BY DEF PulseFinished, callVars
    <2>2. pc["main"] = "wait"
      BY <2>1 DEF MotorInv, RunInv, NumOK, Callers, Ready, Finished
    <2>3. Turning /\ Ramping
      BY <2>1, <2>2 DEF MotorInv, RunInv
    <2>4. Turning'
      <3>1. /\ stepper_number < speed_all /\ enabled
            /\ turned = stepper_number /\ speed_all = Goal(run["main"])
        BY <2>1, <2>3 DEF Turning
      <3>2. /\ stepper_number' = stepper_number + 1 /\ turned' = stepper_number'
            /\ speed_all' = speed_all
        BY <2>2, <3>1 DEF PulseFinished
      <3>3. CASE LastPulse(stepper_number')
        <4>1. ~on' /\ ~enabled'
          BY <3>3 DEF PulseFinished
        <4>2. stepper_number' = speed_all
          BY <3>1, <3>2, <3>3 DEF LastPulse, MotorInv, NumOK
        <4>3. QED  BY <2>1, <3>1, <3>2, <4>1, <4>2 DEF Turning, MotorInv, NumOK
      <3>4. CASE ~LastPulse(stepper_number')
        <4>1. on' /\ enabled'
          BY <2>1, <3>1, <3>4 DEF PulseFinished
        <4>2. stepper_number' < speed_all
          BY <3>1, <3>2, <3>4 DEF LastPulse, MotorInv, NumOK
        <4>3. QED  BY <2>1, <3>1, <3>2, <4>1, <4>2 DEF Turning, MotorInv, NumOK
      <3>5. QED  BY <3>3, <3>4
    <2>5. Ramping'
      <3>1. i * MaxPulses \in Nat
        BY DEF MotorInv, NumOK, RampSteps
      <3>2. /\ pwm_sem' = pwm_sem /\ i' = i /\ period' = period
            /\ stepper_number' = stepper_number + 1
            /\ i < RampSteps => since' = since + 1
        BY DEF PulseFinished
      <3>3. QED  BY <2>1, <2>3, <3>1, <3>2 DEF Ramping, MotorInv, NumOK
    <2>6. QED
      BY <2>1, <2>2, <2>4, <2>5 DEF RunInv, MotorInv
  <1>3. QED  BY <1>1, <1>2 DEF MotorInv

(* A step of pwm_thread keeps the invariant. *)
LEMMA RampInv == MotorInv /\ pwm_thread => MotorInv'
  <1> SUFFICES ASSUME MotorInv, pwm_thread PROVE MotorInv'
    OBVIOUS
  <1> USE MotorAssumption
  <1>1. NumOK'
    <2>1. CASE RampTake
      BY <2>1 DEF MotorInv, NumOK, RampTake, callVars, countVars, timerVars, RampSteps
    <2>2. CASE RampStep
      <3>1. RampPeriod \in Nat
        BY <2>2 DEF RampStep, RampPeriod, MotorInv, NumOK, PWM_SPEED_LOW, RampSteps
      <3>2. QED
        BY <2>2, <3>1 DEF MotorInv, NumOK, RampStep, callVars, countVars, RampSteps
    <2>3. QED  BY <2>1, <2>2 DEF pwm_thread
  <1>2. RunInv'
    <2> SUFFICES ASSUME ~meddled' PROVE RunInv'
      BY DEF RunInv
    <2>1. /\ ~meddled /\ pc' = pc /\ run' = run /\ on' = on /\ enabled' = enabled
          /\ turned' = turned /\ stepper_number' = stepper_number /\ speed_all' = speed_all
      BY DEF pwm_thread, RampTake, RampStep, callVars, timerVars, countVars
    <2>2. ~NoRamp
      BY DEF pwm_thread, RampTake, RampStep, NoRamp, MotorInv, NumOK
    <2>3. CASE pc["main"] = "start"
      <3>1. /\ run["main"] = "low_speed"
            /\ (pwm_sem = 1 /\ i = RampSteps) \/ (pwm_sem = 0 /\ i = 0 /\ since = 0 /\ fresh)
        BY <2>1, <2>2, <2>3 DEF MotorInv, RunInv, RampDue
      <3>2. /\ RampTake /\ pwm_sem = 1
        BY <3>1 DEF pwm_thread, RampTake, RampStep, RampSteps
      <3>3. fresh'
        BY <3>2, <2>3, Zenon DEF RampTake, MainStarts
      <3>4. RampDue'
        BY <2>1, <3>1, <3>2, <3>3 DEF RampTake, RampDue
      <3>5. QED
        BY <2>1, <2>3, <3>4 DEF MotorInv, RunInv, Ready
    <2>4. CASE pc["main"] = "wait"
      <3>1. Turning /\ Ramping
        BY <2>1, <2>4 DEF MotorInv, RunInv
      <3>2. Turning'
        BY <2>1, <3>1 DEF Turning
      <3>3. RampStep /\ run["main"] = "low_speed" /\ pwm_sem = 0
        BY <3>1, GoalType DEF Ramping, pwm_thread, RampTake, RampStep, RampSteps
      <3>4. i \in 0..9 /\ i' = i + 1 /\ since' = 0 /\ pwm_sem' = 0
        BY <3>3 DEF RampStep, MotorInv, NumOK, RampSteps
      <3>5. i' = 10 => period' = 62500
        BY <3>3, <3>4 DEF RampStep, RampPeriod
      <3>6. stepper_number' <= i' * MaxPulses + since'
        BY <2>1, <3>1, <3>3, <3>4, RampShort DEF Ramping, MotorInv, NumOK, Runs, RampSteps
      <3>7. Ramping'
        BY <2>1, <3>3, <3>4, <3>5, <3>6 DEF Ramping, RampSteps
      <3>8. QED
        BY <2>1, <2>4, <3>2, <3>7 DEF MotorInv, RunInv
    <2>5. pc["main"] \in {"start", "wait"}
      BY <2>1, <2>2 DEF MotorInv, RunInv, NumOK, Callers, Finished
    <2>6. QED  BY <2>3, <2>4, <2>5
  <1>3. QED  BY <1>1, <1>2 DEF MotorInv

(* The start of high_speed or low_speed keeps the invariant. *)
LEMMA EnterInv ==
    ASSUME NEW c \in Callers, NEW r \in Runs, MotorInv, Enter(c, r)
    PROVE  MotorInv'
  <1>1. /\ pc' = [pc EXCEPT ![c] = "count"] /\ run' = [run EXCEPT ![c] = r]
        /\ enabled' /\ on' = on /\ period' = period
        /\ pwm_sem' = pwm_sem /\ i' = i /\ since' = since /\ speed_period' = speed_period
        /\ stepper_number' = stepper_number /\ speed_all' = speed_all
        /\ c = "main" => turned' = 0
        /\ c = "shell" => meddled' /\ turned' = turned
        /\ i < RampSteps \/ pwm_sem = 0
        /\ pc[c] = "idle"
    BY DEF Enter, rampVars, countVars, MayRun, Callers
  <1>2. c = "main" /\ ~meddled' => ~meddled \/ (~on /\ pc["shell"] = "idle" /\ ~(i < RampSteps))
    BY Zenon DEF Enter
  <1>3. NumOK'
    BY <1>1 DEF MotorInv, NumOK, Callers, Runs
  <1>4. ASSUME ~meddled' PROVE RunInv'
    <2>1. c = "main"
      BY <1>1, <1>4 DEF Callers
    <2>2. NoRamp /\ ~on /\ pc["shell"] = "idle"
      <3>1. CASE ~meddled
        BY <1>1, <2>1, <3>1 DEF MotorInv, RunInv
      <3>2. CASE ~on /\ pc["shell"] = "idle" /\ ~(i < RampSteps)
        BY <1>1, <3>2 DEF MotorInv, NumOK, NoRamp, RampSteps
      <3>3. QED  BY <1>2, <1>4, <2>1, <3>1, <3>2
    <2>3. pc'["main"] = "count" /\ pc'["shell"] = "idle" /\ run'["main"] = r
      BY <1>1, <2>1, <2>2 DEF MotorInv, NumOK, Callers
    <2>4. NoRamp' /\ Ready'
      BY <1>1, <2>1, <2>2 DEF NoRamp, Ready
    <2>5. QED  BY <2>3, <2>4 DEF RunInv
  <1>5. QED  BY <1>3, <1>4 DEF MotorInv, RunInv

(* main's and the shell's statements after Enter keep the invariant: the   *)
(* count ...                                                               *)
LEMMA CountInv ==
    ASSUME NEW c \in Callers, MotorInv, Count(c)
    PROVE  MotorInv'
  <1>1. /\ pc[c] = "count" /\ pc' = [pc EXCEPT ![c] = "goal"] /\ run' = run
        /\ stepper_number' = 0 /\ speed_all' = speed_all
        /\ period' = period /\ on' = on /\ enabled' = enabled
        /\ pwm_sem' = pwm_sem /\ i' = i /\ since' = since /\ speed_period' = speed_period
        /\ turned' = turned
    BY DEF Count, rampVars, timerVars
  <1>2. NumOK'
    BY <1>1 DEF MotorInv, NumOK, Callers
  <1>3. ~meddled' => ~meddled /\ c # "shell"
    BY Zenon DEF Count, Meddle
  <1>4. ASSUME ~meddled' PROVE RunInv'
    <2>1. c = "main" /\ ~meddled
      BY <1>3, <1>4 DEF Callers
    <2>2. NoRamp /\ Ready /\ pc["shell"] = "idle" /\ run["main"] \in Runs
      BY <1>1, <2>1 DEF MotorInv, RunInv
    <2>3. pc'["main"] = "goal" /\ pc'["shell"] = "idle"
      BY <1>1, <2>1, <2>2 DEF MotorInv, NumOK, Callers
    <2>4. NoRamp' /\ Ready'
      BY <1>1, <2>2 DEF NoRamp, Ready
    <2>5. QED  BY <1>1, <2>2, <2>3, <2>4 DEF RunInv
  <1>5. QED  BY <1>2, <1>4 DEF MotorInv, RunInv

(* ... the goal, with the semaphore ...                                    *)
LEMMA SetSpeedAllInv ==
    ASSUME NEW c \in Callers, MotorInv, SetSpeedAll(c)
    PROVE  MotorInv'
  <1>1. /\ pc[c] = "goal" /\ pc' = [pc EXCEPT ![c] = "start"] /\ run' = run
        /\ stepper_number' = stepper_number /\ speed_all' = Goal(run[c])
        /\ period' = period /\ on' = on /\ enabled' = enabled
        /\ pwm_sem' = IF run[c] = "low_speed" THEN pwm_sem + 1 ELSE pwm_sem
        /\ i' = i /\ since' = since /\ speed_period' = speed_period
        /\ turned' = turned
    BY DEF SetSpeedAll, SetGoal, timerVars
  <1>2. NumOK'
    <2>1. pwm_sem' \in Nat /\ speed_all' \in Nat
      BY <1>1, GoalType DEF MotorInv, NumOK
    <2>2. QED  BY <1>1, <2>1 DEF MotorInv, NumOK, Callers
  <1>3. ~meddled' => ~meddled /\ c # "shell"
    BY Zenon DEF SetSpeedAll, SetGoal, Meddle
  <1>4. ASSUME ~meddled' PROVE RunInv'
    <2>1. c = "main" /\ ~meddled
      BY <1>3, <1>4 DEF Callers
    <2>2. /\ NoRamp /\ Ready /\ pc["shell"] = "idle" /\ run["main"] \in Runs
          /\ stepper_number = 0
      BY <1>1, <2>1 DEF MotorInv, RunInv
    <2>3. pc'["main"] = "start" /\ pc'["shell"] = "idle"
      BY <1>1, <2>1, <2>2 DEF MotorInv, NumOK, Callers
    <2>4. RampDue' /\ Ready'
      BY <1>1, <2>1, <2>2 DEF NoRamp, Ready, RampDue, RampSteps
    <2>5. QED  BY <1>1, <2>1, <2>2, <2>3, <2>4 DEF RunInv
  <1>5. QED  BY <1>2, <1>4 DEF MotorInv, RunInv

(* ... and the pulses.                                                     *)
LEMMA StartInv ==
    ASSUME NEW c \in Callers, MotorInv, Start(c)
    PROVE  MotorInv'
  <1>1. /\ pc[c] = "start" /\ period' = Speed(run[c]) /\ on'
        /\ pc' = [pc EXCEPT ![c] = IF c = "main" THEN "wait" ELSE "idle"]
        /\ run' = IF c = "main" THEN run ELSE [run EXCEPT ![c] = None]
        /\ stepper_number' = stepper_number /\ speed_all' = speed_all
        /\ enabled' = enabled /\ pwm_sem' = pwm_sem /\ i' = i /\ since' = since
        /\ speed_period' = speed_period /\ turned' = turned
        /\ i < RampSteps \/ pwm_sem = 0
    BY DEF Start, MayRun, countVars
  <1>2. NumOK'
    <2>1. period' \in Nat
      BY <1>1 DEF Speed, PWM_SPEED_LOW, PWM_SPEED_HIGH
    <2>2. QED  BY <1>1, <2>1 DEF MotorInv, NumOK, Callers
  <1>3. ~meddled' => ~meddled /\ c # "shell"
    BY Zenon DEF Start, Meddle
  <1>4. ASSUME ~meddled' PROVE RunInv'
    <2>1. c = "main" /\ ~meddled
      BY <1>3, <1>4 DEF Callers
    <2>2. /\ RampDue /\ Ready /\ pc["shell"] = "idle" /\ run["main"] \in Runs
          /\ stepper_number = 0 /\ speed_all = Goal(run["main"])
      BY <1>1, <2>1 DEF MotorInv, RunInv
    <2>3. pc'["main"] = "wait" /\ pc'["shell"] = "idle" /\ run' = run
      BY <1>1, <2>1, <2>2 DEF MotorInv, NumOK, Callers
    <2>4. Turning'
      BY <1>1, <2>2, <2>3, GoalType DEF Ready, Turning
    <2>5. Ramping'
      <3>1. pwm_sem = 0
        BY <1>1, <2>2 DEF RampDue, NoRamp, RampSteps
      <3>2. CASE run["main"] = "low_speed"
        <4>1. i = 0 /\ since = 0
          BY <2>2, <3>1, <3>2 DEF RampDue
        <4>2. 0 * MaxPulses = 0
          BY MotorAssumption
        <4>3. QED  BY <1>1, <2>2, <2>3, <3>1, <3>2, <4>1, <4>2 DEF Ramping, RampSteps
      <3>3. CASE run["main"] # "low_speed"
        BY <1>1, <2>1, <2>2, <2>3, <3>1, <3>3 DEF Ramping, RampDue, NoRamp, Speed
      <3>4. QED  BY <3>2, <3>3
    <2>6. QED  BY <2>2, <2>3, <2>4, <2>5 DEF RunInv
  <1>5. QED  BY <1>2, <1>4 DEF MotorInv, RunInv

(* stop_turning is the shell's, and the invariant says nothing after it.   *)
LEMMA StopInv == MotorInv /\ stop_turning => MotorInv'
  <1> SUFFICES ASSUME MotorInv, stop_turning PROVE MotorInv'
    OBVIOUS
  <1>1. NumOK'
    BY DEF MotorInv, NumOK, stop_turning, rampVars, countVars
  <1>2. meddled'
    BY DEF stop_turning
  <1>3. QED  BY <1>1, <1>2 DEF MotorInv, RunInv

(* When wait_pwm_finish returns, the motor has stopped and the ramp is     *)
(* over: it would still be going on only with fewer steps than the goal.   *)
LEMMA WaitInv == MotorInv /\ wait_pwm_finish => MotorInv'
  <1> SUFFICES ASSUME MotorInv, wait_pwm_finish PROVE MotorInv'
    OBVIOUS
  <1>1. /\ pc["main"] = "wait" /\ stepper_number >= speed_all
        /\ pc' = [pc EXCEPT !["main"] = "done"] /\ run' = run
        /\ stepper_number' = stepper_number /\ speed_all' = speed_all
        /\ period' = period /\ on' = on /\ enabled' = enabled
        /\ pwm_sem' = pwm_sem /\ i' = i /\ since' = since /\ speed_period' = speed_period
        /\ turned' = turned /\ meddled' = meddled
    BY DEF wait_pwm_finish, WaitTo, rampVars, timerVars, countVars
  <1>2. NumOK'
    BY <1>1 DEF MotorInv, NumOK, Callers
  <1>3. ASSUME ~meddled' PROVE RunInv'
    <2>1. Turning /\ Ramping /\ pc["shell"] = "idle" /\ run["main"] \in Runs
      BY <1>1, <1>3 DEF MotorInv, RunInv
    <2>2. stepper_number = Goal(run["main"]) /\ turned = Goal(run["main"]) /\ ~on /\ ~enabled
      BY <1>1, <2>1 DEF Turning, MotorInv, NumOK
    <2>3. i = RampSteps
      <3>1. SUFFICES ASSUME i # RampSteps PROVE FALSE
        OBVIOUS
      <3>2. i \in 0..9 /\ since \in 0..MaxPulses /\ i < RampSteps
        BY <3>1 DEF MotorInv, NumOK, RampSteps
      <3>3. stepper_number <= i * MaxPulses + since
        BY <2>1, <3>1, <3>2 DEF Ramping
      <3>4. i * MaxPulses \in Nat /\ i * MaxPulses + MaxPulses < Goal(run["main"])
        BY <2>1, <3>2, RampShort
      <3>5. QED
        BY <2>2, <3>2, <3>3, <3>4, MotorAssumption, GoalType DEF MotorInv, NumOK
    <2>4. pc'["main"] = "done" /\ pc'["shell"] = "idle"
      BY <1>1, <2>1 DEF MotorInv, NumOK, Callers
    <2>5. Finished'
      BY <1>1, <2>1, <2>2, <2>3 DEF Finished, NoRamp, Ramping, RampSteps
    <2>6. QED  BY <1>1, <2>1, <2>4, <2>5 DEF RunInv
  <1>4. QED  BY <1>2, <1>3 DEF MotorInv, RunInv

(* main goes on with the test. *)
LEMMA ReturnInv == MotorInv /\ Return => MotorInv'
  <1> SUFFICES ASSUME MotorInv, Return PROVE MotorInv'
    OBVIOUS
  <1>1. /\ pc["main"] = "done"
        /\ pc' = [pc EXCEPT !["main"] = "idle"] /\ run' = [run EXCEPT !["main"] = None]
        /\ stepper_number' = stepper_number /\ speed_all' = speed_all
        /\ period' = period /\ on' = on
        /\ pwm_sem' = pwm_sem /\ i' = i /\ since' = since /\ speed_period' = speed_period
        /\ turned' = 0 /\ meddled' = meddled
    BY DEF Return, rampVars, timerVars, countVars
  <1>2. NumOK'
    BY <1>1 DEF MotorInv, NumOK, Callers
  <1>3. ASSUME ~meddled' PROVE RunInv'
    <2>1. Finished /\ pc["shell"] = "idle"
      BY <1>1, <1>3 DEF MotorInv, RunInv
    <2>2. pc'["main"] = "idle" /\ pc'["shell"] = "idle"
      BY <1>1, <2>1 DEF MotorInv, NumOK, Callers
    <2>3. QED  BY <1>1, <2>1, <2>2 DEF RunInv, Finished, NoRamp
  <1>4. QED  BY <1>2, <1>3 DEF MotorInv, RunInv

(* A step that changes nothing. *)
LEMMA StutterInv == MotorInv /\ UNCHANGED vars => MotorInv'
  BY DEF MotorInv, NumOK, RunInv, NoRamp, Ready, RampDue, Turning, Ramping, Finished,
         vars, timerVars, rampVars, countVars, callVars

-----------------------------------------------------------------------------
(* The invariant holds in every state, whatever the interrupt, pwm_thread, *)
(* main and the shell do in between.                                       *)
THEOREM MotorInvariance == Spec => []MotorInv
  <1>1. Init => MotorInv
    <2> SUFFICES ASSUME Init PROVE MotorInv
      OBVIOUS
    <2>1. NumOK
      BY MotorAssumption DEF Init, NumOK, Callers, Runs, RampSteps
    <2>2. pc["main"] = "idle" /\ pc["shell"] = "idle" /\ NoRamp /\ ~on
      BY DEF Init, NoRamp, Callers
    <2>3. QED  BY <2>1, <2>2 DEF MotorInv, RunInv
  <1>2. MotorInv /\ [Next]_vars => MotorInv'
    <2> SUFFICES ASSUME MotorInv, [Next]_vars PROVE MotorInv'
      OBVIOUS
    <2>1. CASE PulseFinished \/ pwm_thread
      BY <2>1, PulseInv, RampInv
    <2>2. ASSUME NEW c \in Callers, NEW r \in Runs, Enter(c, r) PROVE MotorInv'
      BY <2>2, EnterInv
    <2>3. ASSUME NEW c \in Callers, Starting(c) PROVE MotorInv'
      BY <2>3, CountInv, SetSpeedAllInv, StartInv DEF Starting
    <2>4. CASE stop_turning \/ wait_pwm_finish \/ Return
      BY <2>4, StopInv, WaitInv, ReturnInv
    <2>5. CASE UNCHANGED vars
      BY <2>5, StutterInv
    <2>6. QED  BY <2>1, <2>2, <2>3, <2>4, <2>5 DEF Next
  <1>3. QED  BY <1>1, <1>2, PTL DEF Spec

(* When wait_pwm_finish returns, the wheel has made exactly the steps of   *)
(* the run and the motor is off, unless the shell moved it meanwhile.      *)
THEOREM TurnsExactly == Spec => []ExactTurn
  <1>1. MotorInv => ExactTurn
    BY DEF MotorInv, RunInv, Finished, ExactTurn
  <1>2. QED  BY <1>1, MotorInvariance, PTL

(* A high_speed run of main keeps its period and a low_speed run ends at   *)
(* full speed with pwm_thread waiting, unless the shell moved the motor.   *)
THEOREM KeepsSpeed == Spec => []SpeedKept
  <1>1. MotorInv => SpeedKept
    <2> SUFFICES ASSUME MotorInv, ~meddled PROVE SpeedKept
      BY DEF SpeedKept
    <2>1. pc["main"] = "wait" => Ramping
      BY DEF MotorInv, RunInv
    <2>2. pc["main"] = "done" => Finished
      BY DEF MotorInv, RunInv
    <2>3. QED
      BY <2>1, <2>2 DEF Ramping, Finished, NoRamp, SpeedKept
  <1>2. QED  BY <1>1, MotorInvariance, PTL

(* The truth values stay truth values. *)
LEMMA BoolInvariance == Spec => []BoolOK
  <1>1. Init => BoolOK
    <2>1. ASSUME Init PROVE /\ on = FALSE /\ enabled = FALSE /\ fresh = FALSE
                            /\ meddled = FALSE /\ halted = FALSE
      BY <2>1 DEF Init
    <2>2. QED  BY <2>1 DEF BoolOK
  <1>2. BoolOK /\ [Next]_vars => BoolOK'
    <2> SUFFICES ASSUME BoolOK, [Next]_vars PROVE BoolOK'
      OBVIOUS
    <2>1. CASE PulseFinished
      <3>1. on' \in BOOLEAN /\ enabled' \in BOOLEAN
        BY <2>1, Zenon DEF PulseFinished, BoolOK
      <3>2. QED  BY <2>1, <3>1, Zenon DEF PulseFinished, BoolOK
    <2>2. CASE pwm_thread
      <3>1. fresh' \in BOOLEAN
        <4>1. fresh' = MainStarts
          BY <2>2, Zenon DEF pwm_thread, RampTake, RampStep
        <4>2. MainStarts \in BOOLEAN
          <5>1. MainStarts = TRUE \/ MainStarts = FALSE
            BY DEF MainStarts
          <5>2. QED  BY <5>1, Zenon
        <4>3. QED  BY <4>1, <4>2, Zenon
      <3>2. on' = on /\ enabled' = enabled /\ meddled' = meddled /\ halted' = halted
        BY <2>2 DEF pwm_thread, RampTake, RampStep, timerVars
      <3>3. QED  BY <3>1, <3>2, Zenon DEF BoolOK
    <2>3. ASSUME NEW c \in Callers, NEW r \in Runs, Enter(c, r) PROVE BoolOK'
      <3>1. meddled' \in BOOLEAN
        BY <2>3, Zenon DEF Enter, BoolOK
      <3>2. on' = on /\ enabled' = TRUE /\ fresh' = fresh /\ halted' = halted
        BY <2>3 DEF Enter, rampVars
      <3>3. QED  BY <3>1, <3>2, Zenon DEF BoolOK
    <2>4. ASSUME NEW c \in Callers, Starting(c) PROVE BoolOK'
      <3>1. meddled' \in BOOLEAN
        BY <2>4, Zenon DEF Starting, Count, SetSpeedAll, SetGoal, Start, Meddle, BoolOK
      <3>2. CASE Start(c)
        <4>1. on' = TRUE /\ halted' = FALSE /\ enabled' = enabled
          BY <3>2 DEF Start
        <4>2. fresh' \in BOOLEAN
          BY <3>2, Zenon DEF Start, BoolOK
        <4>3. QED  BY <3>1, <4>1, <4>2, Zenon DEF BoolOK
      <3>3. CASE Count(c) \/ SetSpeedAll(c)
        <4>1. on' = on /\ enabled' = enabled /\ fresh' = fresh /\ halted' = halted
          BY <3>3 DEF Count, SetSpeedAll, SetGoal, timerVars, rampVars
        <4>2. QED  BY <3>1, <4>1, Zenon DEF BoolOK
      <3>4. QED  BY <2>4, <3>2, <3>3 DEF Starting
    <2>5. CASE stop_turning
      <3>1. on' = FALSE /\ halted' = TRUE /\ meddled' = TRUE /\ enabled' = enabled
            /\ fresh' = fresh
        BY <2>5 DEF stop_turning, rampVars
      <3>2. QED  BY <3>1, Zenon DEF BoolOK
    <2>6. CASE wait_pwm_finish \/ Return \/ UNCHANGED vars
      <3>1. on' = on /\ enabled' = enabled /\ fresh' = fresh /\ halted' = halted
            /\ meddled' = meddled
        BY <2>6 DEF wait_pwm_finish, WaitTo, Return, vars, timerVars, rampVars
      <3>2. QED  BY <3>1, Zenon DEF BoolOK
    <2>7. QED  BY <2>1, <2>2, <2>3, <2>4, <2>5, <2>6 DEF Next
  <1>3. QED  BY <1>1, <1>2, PTL DEF Spec

(* The type invariant of the motor. *)
THEOREM MotorTypeOK == Spec => []TypeOK
  <1>1. MotorInv /\ BoolOK => TypeOK
    <2> SUFFICES ASSUME MotorInv, BoolOK PROVE TypeOK
      OBVIOUS
    <2>1. pc["main"] \in {"idle", "count", "goal", "start", "wait", "done"}
      BY DEF MotorInv, NumOK, Callers
    <2>2. QED  BY <2>1, Zenon DEF MotorInv, NumOK, BoolOK, TypeOK
  <1>2. QED  BY <1>1, MotorInvariance, BoolInvariance, PTL
=============================================================================
