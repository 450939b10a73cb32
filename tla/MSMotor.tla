------------------------------ MODULE MSMotor ------------------------------
(***************************************************************************)
(* The stepper motor that turns the meter's wheel (BJ_pwm.c).  Four        *)
(* parties share its variables without a lock:                             *)
(*                                                                         *)
(*   - the interrupt after each pulse counts the steps and stops the       *)
(*     motor at speed_all;                                                 *)
(*   - pwm_thread (priority 5) changes the period ten times, 50 ms apart,  *)
(*     after each low_speed;                                               *)
(*   - main (10) starts a run and waits for its end;                       *)
(*   - the shell (20) has the commands high_speed, low_speed and           *)
(*     stop_turning.                                                       *)
(*                                                                         *)
(* main does not sleep while it starts a run, so the shell moves only      *)
(* while main waits or is busy elsewhere; a run that the shell starts may  *)
(* be cut by main between any two statements.                              *)
(*                                                                         *)
(* Time: between two steps of pwm_thread the running motor makes at least  *)
(* MinPulses and at most MaxPulses pulses.                                 *)
(***************************************************************************)
EXTENDS Integers

CONSTANTS
    MS1_SPEED_ALL,          \* pulses of a low_speed run: 192000
    MS2_SPEED_ALL,          \* pulses of a high_speed run: 44800
    MinPulses, MaxPulses,   \* pulses in 50 ms: 80 to 800
    MaxRuns, MaxCommands    \* bounds: runs of main, commands of the shell

RampSteps == 10

ASSUME MotorAssumption ==
    /\ MS1_SPEED_ALL \in Nat /\ MS2_SPEED_ALL \in Nat
    /\ MinPulses \in Nat \ {0} /\ MaxPulses \in Nat /\ MinPulses <= MaxPulses
    /\ RampSteps * MaxPulses < MS1_SPEED_ALL
    /\ RampSteps * MaxPulses < MS2_SPEED_ALL
    /\ MaxRuns \in Nat /\ MaxCommands \in Nat

PWM_SPEED_HIGH == 625000
PWM_SPEED_LOW == 125000

Runs == {"high_speed", "low_speed"}
None == "none"

Goal(r) == IF r = "low_speed" THEN MS1_SPEED_ALL ELSE MS2_SPEED_ALL
Speed(r) == IF r = "low_speed" THEN PWM_SPEED_LOW ELSE PWM_SPEED_HIGH

Callers == {"main", "shell"}

VARIABLES
    stepper_number, speed_all, speed_period,
    period,         \* the period the timer has been given
    on,             \* the timer gives pulses
    enabled,        \* MOT_EN is low: the motor follows the pulses
    pwm_sem,
    i,              \* pwm_thread: its step, or RampSteps while it waits
    since,          \* pulses since its last step
    fresh,          \* main has not slept since its last step
    pc,             \* where main and the shell are in high_speed, low_speed,
                    \* stop_turning or wait_pwm_finish
    run,            \* which function they are in
    runs, commands, \* counters
    turned,         \* history: steps of the wheel since main's last start
    meddled,        \* history: the shell has moved the motor since then, or
                    \* its run was not over at that time
    halted          \* history: stop_turning came after the last enable

timerVars == <<period, on, enabled>>
rampVars == <<pwm_sem, i, since, fresh, speed_period>>
countVars == <<stepper_number, speed_all>>
callVars == <<pc, run, runs, commands>>
vars == <<timerVars, rampVars, countVars, callVars, turned, meddled, halted>>

(* The static initial values, and pwm_sample. *)
Init ==
    /\ stepper_number = 0 /\ speed_all = 19200 /\ speed_period = 0
    /\ period = 0 /\ on = FALSE /\ enabled = FALSE
    /\ pwm_sem = 0 /\ i = RampSteps /\ since = 0 /\ fresh = FALSE
    /\ pc = [c \in Callers |-> "idle"] /\ run = [c \in Callers |-> None]
    /\ runs = 0 /\ commands = 0
    /\ turned = 0 /\ meddled = FALSE /\ halted = FALSE

-----------------------------------------------------------------------------
(* if(stepper_number >= speed_all) *)
LastPulse_Late(n) == n > speed_all      \* planted defect: one pulse too many
LastPulse(n) == n >= speed_all

(* HAL_TIM_PWM_PulseFinishedCallback.  The timer is given no chance to run *)
(* on while a step of pwm_thread is due.                                   *)
PulseFinished ==
    /\ on
    /\ i < RampSteps => since < MaxPulses
    /\ since' = IF i < RampSteps THEN since + 1 ELSE 0
    /\ stepper_number' = stepper_number + 1
    /\ turned' = IF enabled /\ pc["main"] # "idle" THEN turned + 1 ELSE turned
    /\ IF LastPulse(stepper_number')
       THEN on' = FALSE /\ enabled' = FALSE
       ELSE UNCHANGED <<on, enabled>>
    /\ UNCHANGED <<period, speed_all, pwm_sem, i, fresh, speed_period, callVars,
                   meddled, halted>>

-----------------------------------------------------------------------------
(* pwm_thread *)

(* main starts a run in far less than 50 ms. *)
MainStarts == pc["main"] \in {"count", "goal", "start"}

RampTake ==
    /\ i = RampSteps /\ pwm_sem > 0
    /\ pwm_sem' = pwm_sem - 1 /\ i' = 0 /\ since' = 0 /\ fresh' = MainStarts
    /\ UNCHANGED <<speed_period, timerVars, countVars, callVars, turned, meddled,
                   halted>>

(* speed_k is 0 in every step. *)
RampPeriod ==
    CASE i < 4 -> PWM_SPEED_LOW
      [] i \in 4..7 -> PWM_SPEED_LOW - 40000 + 4 * 5000
      [] i = 8 -> speed_period
      [] i = 9 -> 62500

RampStep ==
    /\ i < RampSteps
    /\ (on => since >= MinPulses) /\ ~fresh
    /\ speed_period' = RampPeriod /\ period' = RampPeriod
    /\ i' = i + 1
    /\ since' = 0 /\ fresh' = MainStarts
    /\ UNCHANGED <<pwm_sem, on, enabled, countVars, callVars, turned, meddled,
                   halted>>

pwm_thread == RampTake \/ RampStep

-----------------------------------------------------------------------------
(* high_speed and low_speed, by main or the shell *)

(* The shell runs while main sleeps, both while pwm_thread sleeps. *)
MayRun(c) ==
    /\ i < RampSteps \/ pwm_sem = 0
    /\ c = "shell" => pc["main"] \in {"idle", "wait"}

Meddle(c) == meddled' = (meddled \/ c = "shell")

Enter(c, r) ==
    /\ MayRun(c) /\ pc[c] = "idle"
    /\ run' = [run EXCEPT ![c] = r] /\ pc' = [pc EXCEPT ![c] = "count"]
    /\ enabled' = TRUE
    /\ IF c = "main"
       THEN /\ runs < MaxRuns /\ runs' = runs + 1 /\ turned' = 0
            /\ meddled' = (meddled /\ (on \/ pc["shell"] # "idle" \/ i < RampSteps))
            /\ UNCHANGED commands
       ELSE /\ commands < MaxCommands /\ commands' = commands + 1
            /\ meddled' = TRUE
            /\ UNCHANGED <<runs, turned>>
    /\ UNCHANGED <<period, on, rampVars, countVars, halted>>

Count(c) ==
    /\ MayRun(c) /\ pc[c] = "count" /\ pc' = [pc EXCEPT ![c] = "goal"]
    /\ stepper_number' = 0
    /\ Meddle(c)
    /\ UNCHANGED <<timerVars, rampVars, speed_all, run, runs, commands, turned,
                   halted>>

(* speed_all, and the semaphore for pwm_thread at low speed. *)
SetGoal(c, ramped) ==
    /\ MayRun(c) /\ pc[c] = "goal" /\ pc' = [pc EXCEPT ![c] = "start"]
    /\ speed_all' = Goal(run[c])
    /\ pwm_sem' = IF run[c] \in ramped THEN pwm_sem + 1 ELSE pwm_sem
    /\ Meddle(c)
    /\ UNCHANGED <<timerVars, i, since, fresh, speed_period, stepper_number, run,
                   runs, commands, turned, halted>>

(* Planted defect: both speeds start the ramp. *)
SetGoal_Both(c) == SetGoal(c, Runs)

SetSpeedAll(c) == SetGoal(c, {"low_speed"})

(* rt_pwm_set and rt_pwm_enable. *)
Start(c) ==
    /\ MayRun(c) /\ pc[c] = "start"
    /\ period' = Speed(run[c]) /\ on' = TRUE /\ halted' = FALSE
    /\ pc' = [pc EXCEPT ![c] = IF c = "main" THEN "wait" ELSE "idle"]
    /\ run' = IF c = "main" THEN run ELSE [run EXCEPT ![c] = None]
    /\ fresh' = IF c = "main" THEN FALSE ELSE fresh
    /\ Meddle(c)
    /\ UNCHANGED <<enabled, pwm_sem, i, since, speed_period, countVars, runs, commands,
                   turned>>

stop_turning ==
    /\ MayRun("shell") /\ pc["shell"] = "idle"
    /\ commands < MaxCommands /\ commands' = commands + 1
    /\ on' = FALSE /\ halted' = TRUE /\ meddled' = TRUE
    /\ UNCHANGED <<period, enabled, rampVars, countVars, pc, run, runs, turned>>

(* wait_pwm_finish looks every 20 ms. *)
WaitTo(cond) ==
    /\ MayRun("main") /\ pc["main"] = "wait" /\ cond
    /\ pc' = [pc EXCEPT !["main"] = "done"]
    /\ UNCHANGED <<timerVars, rampVars, countVars, run, runs, commands, turned,
                   meddled, halted>>

(* Planted defect: it waits for one step more. *)
wait_pwm_finish_OneMore == WaitTo(stepper_number > speed_all)

wait_pwm_finish == WaitTo(stepper_number >= speed_all)

(* main goes on with the test. *)
Return ==
    /\ MayRun("main") /\ pc["main"] = "done"
    /\ pc' = [pc EXCEPT !["main"] = "idle"] /\ run' = [run EXCEPT !["main"] = None]
    /\ turned' = 0
    /\ UNCHANGED <<timerVars, rampVars, countVars, runs, commands, meddled, halted>>

Starting(c) == Count(c) \/ SetSpeedAll(c) \/ Start(c)

Next ==
    \/ PulseFinished \/ pwm_thread
    \/ \E c \in Callers : (\E r \in Runs : Enter(c, r)) \/ Starting(c)
    \/ stop_turning \/ wait_pwm_finish \/ Return

Spec == Init /\ [][Next]_vars

(* The timer counts while it is on; the threads run when those above them  *)
(* sleep.  Nothing is assumed of what the operator types.                  *)
FairSpec ==
    /\ Spec
    /\ WF_vars(PulseFinished) /\ WF_vars(pwm_thread)
    /\ WF_vars(Starting("main") \/ wait_pwm_finish \/ Return)
    /\ WF_vars(Starting("shell"))

-----------------------------------------------------------------------------
(* Type invariant of the motor. *)
TypeOK ==
    /\ stepper_number \in Nat /\ speed_all \in Nat
    /\ speed_period \in Nat /\ period \in Nat
    /\ on \in BOOLEAN /\ enabled \in BOOLEAN
    /\ pwm_sem \in Nat /\ i \in 0..RampSteps /\ since \in 0..MaxPulses
    /\ fresh \in BOOLEAN
    /\ pc["main"] \in {"idle", "count", "goal", "start", "wait", "done"}
    /\ pc["shell"] \in {"idle", "count", "goal", "start"}
    /\ run \in [Callers -> Runs \cup {None}]
    /\ turned \in Nat /\ meddled \in BOOLEAN /\ halted \in BOOLEAN

(* When wait_pwm_finish returns, the wheel has made exactly the steps of   *)
(* the run, and the motor stands and is switched off, unless the shell     *)
(* moved it meanwhile: the interrupt, the thread that ramps and main agree *)
(* on the count without a lock.                                            *)
ExactTurn ==
    pc["main"] = "done" /\ ~meddled =>
        /\ turned = Goal(run["main"])
        /\ ~on /\ ~enabled

(* A ramp does not outlive its run, unless the shell moved the motor: a    *)
(* high_speed run of main keeps its period from start to end, and a        *)
(* low_speed run ends at full speed with pwm_thread waiting again.         *)
SpeedKept ==
    ~meddled =>
        /\ pc["main"] \in {"wait", "done"} /\ run["main"] = "high_speed" =>
              period = PWM_SPEED_HIGH
        /\ pc["main"] = "done" /\ run["main"] = "low_speed" =>
              period = 62500 /\ i = RampSteps /\ pwm_sem = 0

(* wait_pwm_finish returns unless the shell has stopped the motor for      *)
(* good, though the shell may restart the count at any moment.             *)
WaitEnds == pc["main"] = "wait" ~> (pc["main"] # "wait" \/ halted)
=============================================================================
