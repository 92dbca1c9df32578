------------------------------- MODULE Stepper --------------------------------
(***************************************************************************)
(* The stepper driver: the calls of a process, cut where the update        *)
(* interrupt of the timer can come, and the interrupt, which counts the    *)
(* rotations down. The timer makes RCR + 1 pulses before each update and   *)
(* takes a new RCR only then.                                              *)
(***************************************************************************)
EXTENDS Integers, Sequences

CONSTANTS
  MaxVal,    \* STEPPER_RCR_MAXVAL
  Rotations, \* the arguments of stepper_start
  MaxCalls,  \* bound: calls made
  MaxPulses  \* bound: pulses counted

VARIABLES
  started,                \* STEPPER_CHANNEL_STARTED
  number_of_rotation, number_of_steps,
  rcr, shadow,            \* RCR, and the value the timer counts with
  running, it_update,     \* the PWM; its update interrupt is enabled
  enabled,                \* the enable pin
  todo,              \* the steps of the call, and the flag it has loaded
  calls,                  \* history: calls made
  asked,                  \* history: the rotations of the call under way
  pulses,                 \* history: pulses since the motor was started
  again,                  \* history: a start came while the motor turned
  ended                   \* history: it stopped before stepper_start returned

timer   == <<rcr, shadow, running, it_update>>
driver  == <<started, number_of_rotation, number_of_steps, enabled>>
history == <<calls, asked, pulses, again, ended>>
vars    == <<timer, driver, todo, history>>

(* stepper_register                                                        *)
Init ==
  /\ started = FALSE /\ number_of_rotation = 0 /\ number_of_steps = 0
  /\ rcr = 0 /\ shadow = 0 /\ running = FALSE /\ it_update = FALSE
  /\ enabled = FALSE /\ todo = <<>>
  /\ calls = 0 /\ asked = 0 /\ pulses = 0 /\ again = FALSE /\ ended = FALSE

-----------------------------------------------------------------------------
(* Definitions named Mut... are defects a change to the code could bring   *)
(* in: see module Scheduler.                                               *)

Steps(n)   == n * MaxVal
MutAtMost(n) == n
AtMost(n)  == IF n > MaxVal THEN MaxVal ELSE n

StartSteps == <<"rotation", "steps", "disable", "pwm", "enable", "arm", "set">>
MutStopPin == <<"pwm_off", "disarm", "clear">>
StopSteps  == <<"pwm_off", "disarm", "clear", "disable">>

(* stepper_start and stepper_stop                                          *)
Call(steps, n) ==
  /\ todo = <<>> /\ calls < MaxCalls
  /\ calls' = calls + 1 /\ asked' = n /\ todo' = steps
  /\ again' = IF steps = StartSteps THEN running ELSE again
  /\ ended' = FALSE
  /\ UNCHANGED <<timer, driver, pulses>>

(* HAL_TIM_PWM_Start, which refuses a channel that is running.             *)
PwmStart ==
  /\ running' = TRUE
  /\ IF running THEN todo' = <<>> /\ UNCHANGED pulses
                ELSE todo' = Tail(todo) /\ pulses' = 0

Step ==
  /\ todo # <<>>
  /\ LET s == Head(todo)
     IN /\ IF s = "pwm" THEN PwmStart
           ELSE /\ todo' = Tail(todo)
                /\ running' = (running /\ s # "pwm_off")
                /\ UNCHANGED pulses
        /\ number_of_rotation' = IF s = "rotation" THEN asked ELSE number_of_rotation
        /\ number_of_steps' = IF s = "steps" /\ asked > 0 THEN Steps(asked) ELSE number_of_steps
        /\ rcr' = IF s = "steps" THEN AtMost(Steps(asked)) ELSE rcr
        /\ enabled' = (s = "enable" \/ (enabled /\ s # "disable"))
        /\ shadow' = IF s = "arm" /\ asked > 0 THEN rcr ELSE shadow
        /\ it_update' = ((s = "arm" /\ asked > 0) \/ (it_update /\ s # "disarm"))
        /\ started' = (s = "set" \/ (started /\ s # "clear"))
  /\ UNCHANGED <<calls, asked, again, ended>>

(* stepper_internal_callback, from HAL_TIM_PeriodElapsedCallback: the end  *)
(* of the motion, or the next part of it.                                  *)
Finish ==
  /\ running' = FALSE /\ it_update' = FALSE /\ started' = FALSE /\ enabled' = FALSE
  /\ ended' = (todo # <<>>)
  /\ UNCHANGED <<number_of_steps, rcr>>

NextPart ==
  /\ IF number_of_steps > MaxVal
     THEN number_of_steps' = number_of_steps - MaxVal /\ UNCHANGED rcr
     ELSE number_of_steps' = 0 /\ rcr' = number_of_steps
  /\ UNCHANGED <<running, it_update, started, enabled, ended>>

Ignored == UNCHANGED <<running, it_update, started, enabled, ended, number_of_steps, rcr>>

Update ==
  /\ running /\ it_update
  /\ pulses' = IF number_of_rotation = 0 \/ pulses > MaxPulses THEN pulses
                ELSE pulses + shadow + 1
  /\ shadow' = rcr
  /\ CASE number_of_rotation = 0 -> Ignored
       [] number_of_rotation > 0 /\ number_of_steps = 0 -> Finish
       [] OTHER -> NextPart
  /\ UNCHANGED <<number_of_rotation, todo, calls, asked, again>>

Next ==
  \/ \E n \in Rotations : Call(StartSteps, n)
  \/ Call(StopSteps, 0)
  \/ Step
  \/ Update

Fairness == WF_vars(Step) /\ WF_vars(Update)
Spec == Init /\ [][Next]_vars /\ Fairness

-----------------------------------------------------------------------------
(* Properties *)

(* Between calls the status tells whether the motor turns, except when its *)
(* interrupt ended the motion before stepper_start set the status; and the *)
(* driver of the motor is enabled exactly while it turns, except after a   *)
(* start came while it turned: that call fails and leaves it disabled.     *)
StatusTrue ==
  todo = <<>> => /\ (started <=> running) \/ ended
                 /\ (enabled <=> running) \/ again

(* When the interrupt ends a motion, the timer has made the pulses of the  *)
(* rotations the call defined, as the readme of the driver says. It does   *)
(* not hold: the RCR of the last part is written after the update that     *)
(* would have taken it.                                                    *)
RotationsDone ==
  [][it_update /\ todo = <<>> /\ ~ running' /\ todo' = <<>> /\ ~ again
       => pulses' = number_of_rotation * (MaxVal + 1)]_vars

(* That is the only error of the count: a motion of a whole call makes the *)
(* pulses of one rotation more, whatever calls came before it, however     *)
(* they ended, and wherever the interrupt cut them, unless the motor was   *)
(* started while it turned.                                                *)
OneMore ==
  [][it_update /\ todo = <<>> /\ ~ running' /\ todo' = <<>> /\ ~ again
       => pulses' = (number_of_rotation + 1) * (MaxVal + 1)]_vars

=============================================================================
