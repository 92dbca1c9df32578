----------------------------- MODULE DevicesProofs -----------------------------
(***************************************************************************)
(* Proofs about the drivers, the flash updater and the mailboxes, for      *)
(* every value of their constants and whichever of them are looked at. A   *)
(* step of Devices is a step of the part unit names and leaves the         *)
(* variables of the others alone; so it is, for each part, one of its      *)
(* steps or a stutter.                                                     *)
(***************************************************************************)
EXTENDS Devices, SequenceTheorems, FiniteSetTheorems, TLAPS

(* What is proved of Dcc and of Mailbox on their own.                      *)
CP == INSTANCE DccProofs
MP == INSTANCE MailboxProofs WITH Count <- MailboxCount, todo <- mbx_todo, reg <- mbx_reg

(* The track driver takes a step, or none.                                 *)
LEMMA DccStep == [Next]_vars => [CP!Next]_(CP!vars)
<1>1. C!Next <=> CP!Next
  BY DEF C!Next, CP!Next, C!Call, CP!Call, C!Step, CP!Step, C!Cplt, CP!Cplt, C!Script, CP!Script,
     C!Compile, CP!Compile, C!Request, CP!Request, C!Start, CP!Start, C!Stop, CP!Stop,
     C!Fill, CP!Fill, C!Rmw, CP!Rmw, C!Do, CP!Do, C!IdlePkt, CP!IdlePkt, C!Parts, CP!Parts,
     C!Idle, CP!Idle, C!driver, CP!driver, C!history, CP!history
<1> QED BY <1>1 DEF Next, vars, dcc, CP!vars, CP!driver, CP!history

(* The component starts as the DCC driver does, ...                        *)
LEMMA DccInit == Init => CP!Init
  BY DEF Init, C!Init, CP!Init, C!Blank, CP!Blank, C!Idle, CP!Idle, C!IdlePkt, CP!IdlePkt,
     C!Parts, CP!Parts

(* ... of the same commands.                                               *)
LEMMA DccConstants == Kinds \subseteq CP!AllKinds /\ Repeat \in Nat
  BY DccAssumption DEF C!AllKinds, CP!AllKinds

(* The line has power while a packet other than idle is sent, and the      *)
(* status says that one is in progress, wherever the interrupt cuts the    *)
(* statements of dcc_commands, dcc_start and dcc_stop.                     *)
THEOREM PowersWhileSending == Spec => []PoweredWhileSent
<1>1. Init => CP!Inv
  BY DccInit, CP!InitInv
<1>2. CP!Inv /\ [Next]_vars => CP!Inv'
  BY DccConstants, DccStep, CP!StepInv
<1>3. CP!Inv => PoweredWhileSent
  BY DEF CP!Inv, CP!PoweredWhileSent, PoweredWhileSent, C!PoweredWhileSent,
     CP!Idle, C!Idle, CP!Blank, C!Blank, CP!IdlePkt, C!IdlePkt, CP!Parts, C!Parts
<1> QED BY <1>1, <1>2, <1>3, PTL DEF Spec

(* A command that comes when none is in progress is sent whole, as given,  *)
(* and once more than command_repeat_number, wherever the interrupt cuts   *)
(* the statements of dcc_commands, dcc_start and dcc_stop.                 *)
THEOREM SendsAsGiven == Spec => []SentAsGiven
<1>1. Init => CP!Inv /\ CP!SendInv
  BY DccConstants, DccInit, CP!InitInv, CP!InitSend
<1>2. CP!Inv /\ CP!SendInv /\ [Next]_vars => CP!Inv' /\ CP!SendInv'
  BY DccConstants, DccStep, CP!StepInv, CP!StepSend
<1>3. CP!Inv /\ CP!SendInv => SentAsGiven
  <2>1. CP!SentAsGiven => SentAsGiven
    BY DEF CP!SentAsGiven, SentAsGiven, C!SentAsGiven,
       CP!Idle, C!Idle, CP!Blank, C!Blank, CP!IdlePkt, C!IdlePkt, CP!Parts, C!Parts
  <2> QED BY <2>1, CP!SentOfInv
<1> QED BY <1>1, <1>2, <1>3, PTL DEF Spec
-----------------------------------------------------------------------------
(* The mailboxes.                                                          *)

(* A sender, another interrupt or the receiver takes a step, or none.      *)
LEMMA MailboxStep == [Next]_vars => [MP!Next]_(MP!vars)
<1>1. M!Next <=> MP!Next
  BY DEF M!Next, MP!Next, M!Send, MP!Send, M!Store, MP!Store, M!Irq, MP!Irq,
     M!Receiver, MP!Receiver, M!WaitEvent, MP!WaitEvent, M!Test, MP!Test, M!Receive, MP!Receive,
     M!Leave, MP!Leave, M!Taken, MP!Taken, M!Kept, MP!Kept, M!Stores, MP!Stores, M!Free, MP!Free,
     M!InSend, MP!InSend, M!Receiving, MP!Receiving, M!Boxes, MP!Boxes,
     M!boxes, MP!boxes, M!history, MP!history
<1> QED BY <1>1 DEF Next, vars, mailbox, MP!vars, MP!boxes, MP!history

(* The mailboxes start as the component does.                              *)
LEMMA MailboxInit == Init => MP!Init
  BY DEF Init, M!Init, MP!Init, M!Boxes, MP!Boxes, M!Free, MP!Free

(* No message is left in a mailbox while the receiver sleeps and no reason *)
(* is recorded or about to be, for every order of the statements of        *)
(* mbx_send and mbx_receive, except after the lapses that hidden names.    *)
THEOREM LeavesNoMessage == Spec => []NoneLeft
<1>1. Init => MP!TypeOK /\ MP!KnownInv
  BY MailboxAssumption, MailboxInit, MP!InitTypeOK, MP!InitKnown
<1>2. MP!TypeOK /\ MP!KnownInv /\ [Next]_vars => MP!TypeOK' /\ MP!KnownInv'
  BY MailboxAssumption, MailboxStep, MP!StepTypeOK, MP!StepKnown
<1>3. MP!TypeOK /\ MP!KnownInv => NoneLeft
  BY DEF MP!TypeOK, MP!KnownInv, MP!Known, MP!Ahead, MP!Activates, MP!InSend, MP!Boxes, NoneLeft,
     M!NoneLeft, M!Left, M!Activates, M!InSend, M!Boxes
<1> QED BY <1>1, <1>2, <1>3, PTL DEF Spec

(* The receiver gets the pointer and the size of one message, however many *)
(* senders use the mailboxes and wherever they are preempted, unless the   *)
(* mailbox is mixed.                                                       *)
THEOREM TakesWhole == Spec => MessageWhole
<1>1. Init => MP!TypeOK /\ MP!PureInv
  BY MailboxAssumption, MailboxInit, MP!InitTypeOK, MP!InitPure
<1>2. MP!TypeOK /\ MP!PureInv /\ [Next]_vars => MP!TypeOK' /\ MP!PureInv'
  BY MailboxAssumption, MailboxStep, MP!StepTypeOK, MP!StepPure
<1>3. MP!TypeOK /\ MP!PureInv /\ [Next]_vars
        => [taken' # taken /\ cur \notin mixed => taken'[1] = taken'[2]]_(M!vars)
  BY MailboxAssumption, MailboxStep, MP!TakenWhole
<1> QED BY <1>1, <1>2, <1>3, PTL DEF Spec, MessageWhole, M!MessageWhole
-----------------------------------------------------------------------------
(* The DHT11/AM230x driver.                                                *)

DhtStates == {"IDLE", "START_BIT_SET", "WAIT", "END"}
DhtSensor == [status : {"none", "RUNNING", "ACQDONE"}, state : DhtStates, ticks : Int,
           capture : BOOLEAN, redone : BOOLEAN]

DhtTypes ==
  /\ sensor \in [Sensors -> DhtSensor]
  /\ pc \in [Sensors -> {"out", "status", "state"}]
  /\ dhtxx_am230x_Running \in Sensors \cup {H!None}

(* A sensor that is past the first state, or captures, is running, and one *)
(* that has come to its end captures no more; between the first two stores *)
(* of its start it captures only while the worker waits.                   *)
Sound(r) ==
  /\ r.state # "IDLE" \/ r.capture => r.status = "RUNNING"
  /\ r.state = "END" => ~ r.capture
  /\ r.capture => r.state = "WAIT" \/ r.redone

DhtInv ==
  /\ DhtTypes
  /\ \A d \in Sensors : Sound(sensor[d])
  /\ \A d \in Sensors : pc[d] = "status" /\ sensor[d].capture => sensor[d].state = "WAIT"

(* What a turn of the worker does to its sensor.                           *)
LEMMA TurnSound ==
  ASSUME NEW r \in DhtSensor, Sound(r), NEW ok \in BOOLEAN
  PROVE  /\ H!Turn(r, ok) \in DhtSensor
         /\ Sound(H!Turn(r, ok))
         /\ (r.capture => r.state = "WAIT") /\ H!Turn(r, ok).capture => H!Turn(r, ok).state = "WAIT"
<1> DEFINE s == [r EXCEPT !.ticks = IF @ > 0 THEN @ - 1 ELSE 0]
<1>1. /\ s \in DhtSensor
      /\ s.status = r.status /\ s.state = r.state /\ s.capture = r.capture /\ s.redone = r.redone
  BY DEF DhtSensor
<1>2. H!Turn(r, ok) = CASE s.state = "IDLE" /\ s.status = "RUNNING" ->
            [s EXCEPT !.state = "START_BIT_SET", !.ticks = StartTicks]
       [] s.state = "START_BIT_SET" /\ s.ticks = 0 ->
            [s EXCEPT !.state = "WAIT", !.ticks = CycleTicks, !.capture = TRUE]
       [] s.state = "WAIT" /\ s.ticks = 0 ->
            [s EXCEPT !.state = "END", !.capture = FALSE, !.redone = FALSE]
       [] s.state = "END" -> H!End(s, ok)
       [] OTHER -> s
  BY DEF H!Turn
<1> HIDE DEF s
<1> DEFINE t == H!Turn(r, ok)
<1>3. CASE s.state = "IDLE" /\ s.status = "RUNNING"
  <2>1. t = [s EXCEPT !.state = "START_BIT_SET", !.ticks = StartTicks]
    BY <1>2, <1>3
  <2> QED BY <1>1, <1>3, <2>1, DhtAssumption DEF Sound, DhtSensor, DhtStates
<1>4. CASE s.state = "START_BIT_SET" /\ s.ticks = 0
  <2>1. t = [s EXCEPT !.state = "WAIT", !.ticks = CycleTicks, !.capture = TRUE]
    BY <1>2, <1>4
  <2> QED BY <1>1, <1>4, <2>1, DhtAssumption DEF Sound, DhtSensor, DhtStates
<1>5. CASE s.state = "WAIT" /\ s.ticks = 0
  <2>1. t = [s EXCEPT !.state = "END", !.capture = FALSE, !.redone = FALSE]
    BY <1>2, <1>5
  <2> QED BY <1>1, <1>5, <2>1 DEF Sound, DhtSensor, DhtStates
<1>6. CASE s.state = "END"
  <2>1. t = H!End(s, ok)
    BY <1>2, <1>6
  <2> QED BY <1>1, <1>6, <2>1 DEF H!End, Sound, DhtSensor, DhtStates
<1>7. CASE /\ ~ (s.state = "IDLE" /\ s.status = "RUNNING")
           /\ ~ (s.state = "START_BIT_SET" /\ s.ticks = 0)
           /\ ~ (s.state = "WAIT" /\ s.ticks = 0)
           /\ s.state # "END"
  <2>1. t = s
    BY <1>2, <1>7
  <2> QED BY <1>1, <2>1 DEF Sound
<1> QED BY <1>3, <1>4, <1>5, <1>6, <1>7

(* No sensor captures after dhtxx_am230x_init.                             *)
LEMMA DhtInitInv == H!Init => DhtInv
  BY DEF H!Init, DhtInv, DhtTypes, Sound, DhtSensor, DhtStates

(* Every store of dhtxx_am230x_start and every turn of the worker keeps    *)
(* the invariant.                                                          *)
LEMMA DhtStepInv ==
  ASSUME DhtInv, [H!Next]_dht
  PROVE  DhtInv'
<1> USE DEF DhtInv, DhtTypes
<1>1. ASSUME NEW d \in Sensors, H!Start(d), H!Begin(d)
      PROVE  DhtInv'
  <2>1. ~ sensor[d].capture
    BY <1>1 DEF H!Begin, H!Running, Sound
  <2>2. /\ sensor' \in [Sensors -> DhtSensor]
        /\ sensor'[d] = [sensor[d] EXCEPT !.status = "RUNNING"]
        /\ \A e \in Sensors \ {d} : sensor'[e] = sensor[e]
    BY <1>1 DEF H!Begin, DhtSensor
  <2>3. Sound(sensor'[d]) /\ ~ sensor'[d].capture
    BY <2>1, <2>2 DEF Sound, DhtSensor
  <2> QED BY <1>1, <2>2, <2>3 DEF H!Begin, H!Start
<1>2. ASSUME NEW d \in Sensors, H!Start(d), H!BackToIdle(d)
      PROVE  DhtInv'
  <2>1. sensor[d].capture => sensor[d].state = "WAIT"
    BY <1>2 DEF H!BackToIdle
  <2> DEFINE b == sensor[d].state # "IDLE"
             x == [sensor[d] EXCEPT !.state = "IDLE", !.redone = b]
  <2>2. sensor' = [sensor EXCEPT ![d] = x]
    BY <1>2 DEF H!BackToIdle
  <2>3. b \in BOOLEAN /\ (sensor[d].state = "WAIT" => b)
    OBVIOUS
  <2> HIDE DEF b
  <2>4. x \in DhtSensor /\ Sound(x)
    BY <2>1, <2>3 DEF Sound, DhtSensor, DhtStates
  <2> QED BY <1>2, <2>2, <2>4 DEF H!BackToIdle, H!Start
<1>3. ASSUME NEW d \in Sensors, H!Start(d), H!TakeOver(d)
      PROVE  DhtInv'
  BY <1>3 DEF H!TakeOver, H!Start
<1>4. CASE H!Tick
  <2> DEFINE d == dhtxx_am230x_Running
  <2>1. d \in Sensors /\ pc' = pc /\ d' = d
    BY <1>4 DEF H!Tick
  <2>2. PICK ok \in BOOLEAN : sensor' = [sensor EXCEPT ![d] = H!Turn(sensor[d], ok)]
    BY <1>4 DEF H!Tick
  <2>3. /\ H!Turn(sensor[d], ok) \in DhtSensor
        /\ Sound(H!Turn(sensor[d], ok))
        /\ (sensor[d].capture => sensor[d].state = "WAIT") /\ H!Turn(sensor[d], ok).capture
             => H!Turn(sensor[d], ok).state = "WAIT"
    BY <2>1, TurnSound
  <2> QED BY <2>1, <2>2, <2>3
<1>5. CASE UNCHANGED dht
  BY <1>5 DEF dht
<1> QED BY <1>1, <1>2, <1>3, <1>4, <1>5 DEF H!Next, H!Start

(* The capture of a sensor runs only while the worker waits for its end,   *)
(* wherever the ticks cut the three stores of dhtxx_am230x_start and       *)
(* whichever sensors are started, except for one that was sent back.       *)
THEOREM CapturesInWait == Spec => []H!CaptureOnlyInWait
<1>1. [Next]_vars => [H!Next]_dht
  BY DEF Next, vars
<1>2. Init => DhtInv
  BY DhtInitInv DEF Init
<1>3. DhtInv => H!CaptureOnlyInWait
  BY DEF DhtInv, Sound, H!CaptureOnlyInWait
<1> QED BY DhtStepInv, <1>1, <1>2, <1>3, PTL DEF Spec
-----------------------------------------------------------------------------
(* The stepper driver.                                                     *)

(* What can be left of a call, ...                                         *)
MotorLeft ==
  {<<>>, S!StartSteps, <<"steps", "disable", "pwm", "enable", "arm", "set">>,
   <<"disable", "pwm", "enable", "arm", "set">>, <<"pwm", "enable", "arm", "set">>,
   <<"enable", "arm", "set">>, <<"arm", "set">>, <<"set">>,
   S!StopSteps, <<"disarm", "clear", "disable">>, <<"clear", "disable">>, <<"disable">>}

(* ... and its next statement: "last" is the one that ends stepper_stop.   *)
Where(q) ==
  CASE q = <<>> -> "out"
    [] q = <<"disable">> -> "last"
    [] OTHER -> Head(q)

stage == Where(motor_todo)

Early == stage \in {"rotation", "steps", "disable", "pwm"}
Late  == stage \in {"enable", "arm", "set"}

MotorTypes ==
  /\ motor_todo \in MotorLeft
  /\ running \in BOOLEAN /\ it_update \in BOOLEAN /\ started \in BOOLEAN
  /\ enabled \in BOOLEAN /\ again \in BOOLEAN /\ ended \in BOOLEAN

(* The interrupt ends a motion only while the motor turns; what it leaves  *)
(* behind, in a call or between calls, is stopped, disabled and marked as  *)
(* ended if stepper_start was not yet through.                             *)
MotorInv ==
  /\ MotorTypes
  /\ it_update => running \/ stage = "disarm"
  /\ stage \in {"disarm", "clear", "last"} => ~ running
  /\ stage = "last" => ~ started
  /\ Early \/ stage \in {"out", "pwm_off"} => (running => started)
  /\ stage \in {"enable", "arm"} => running /\ ~ it_update
  /\ Late => running \/ ended
  /\ stage = "out" => (started => running \/ ended)
  /\ ~ again => /\ Early => ~ running
                /\ stage = "arm" => enabled
                /\ stage \in {"set", "out"} => (enabled <=> running)

(* A motion has made k times the pulses of a part, and has one part more   *)
(* to make than number_of_steps says.                                      *)
Pulsed(k) ==
  /\ number_of_steps = (number_of_rotation - k) * MaxVal
  /\ pulses = k * (MaxVal + 1)

Moving ==
  /\ number_of_rotation \in Rotations /\ number_of_rotation > 0
  /\ rcr = MaxVal /\ shadow = MaxVal
  /\ \E k \in 0 .. number_of_rotation : Pulsed(k)

MotionInv ==
  /\ rotations \in Rotations \cup {0}
  /\ number_of_rotation \in Nat /\ number_of_steps \in Nat
  /\ Early \/ Late => rotations \in Rotations
  /\ stage \in {"steps", "disable", "pwm", "enable", "arm", "set"} => number_of_rotation = rotations
  /\ stage \in {"disable", "pwm", "enable", "arm"} /\ ~ again /\ rotations > 0 =>
       number_of_steps = rotations * MaxVal /\ rcr = MaxVal
  /\ stage \in {"enable", "arm"} => pulses = 0
  /\ ~ again /\ running /\ it_update => Moving

(* The order of the statements of stepper_start and stepper_stop.          *)
After(s) ==
  CASE s = "rotation" -> "steps" [] s = "steps" -> "disable" [] s = "disable" -> "pwm"
    [] s = "pwm" -> "enable" [] s = "enable" -> "arm" [] s = "arm" -> "set"
    [] s = "pwm_off" -> "disarm" [] s = "disarm" -> "clear" [] s = "clear" -> "last"
    [] OTHER -> "out"

(* Both scripts of the motor go by this order.                             *)
LEMMA MotorOrder ==
  /\ <<>> \in MotorLeft /\ Where(<<>>) = "out"
  /\ S!StartSteps \in MotorLeft /\ Where(S!StartSteps) = "rotation"
  /\ S!StopSteps \in MotorLeft /\ Where(S!StopSteps) = "pwm_off"
  /\ \A q \in MotorLeft : q # <<>> =>
       /\ Tail(q) \in MotorLeft /\ Where(Tail(q)) = After(Where(q)) /\ Where(q) # "out"
       /\ Head(q) = IF Where(q) = "last" THEN "disable" ELSE Where(q)
<1> USE DEF MotorLeft, Where, After, S!StartSteps, S!StopSteps
<1>1. /\ <<>> \in MotorLeft /\ Where(<<>>) = "out"
      /\ S!StartSteps \in MotorLeft /\ Where(S!StartSteps) = "rotation"
      /\ S!StopSteps \in MotorLeft /\ Where(S!StopSteps) = "pwm_off"
  OBVIOUS
<1>2. ASSUME NEW q \in MotorLeft, q # <<>>
      PROVE  /\ Tail(q) \in MotorLeft /\ Where(Tail(q)) = After(Where(q)) /\ Where(q) # "out"
             /\ Head(q) = IF Where(q) = "last" THEN "disable" ELSE Where(q)
  <2>1. CASE q = S!StartSteps
    BY <2>1
  <2>2. CASE q = <<"steps", "disable", "pwm", "enable", "arm", "set">>
    BY <2>2
  <2>3. CASE q = <<"disable", "pwm", "enable", "arm", "set">>
    BY <2>3
  <2>4. CASE q = <<"pwm", "enable", "arm", "set">>
    BY <2>4
  <2>5. CASE q = <<"enable", "arm", "set">>
    BY <2>5
  <2>6. CASE q = <<"arm", "set">>
    BY <2>6
  <2>7. CASE q = <<"set">>
    BY <2>7
  <2>8. CASE q = S!StopSteps
    BY <2>8
  <2>9. CASE q = <<"disarm", "clear", "disable">>
    BY <2>9
  <2>10. CASE q = <<"clear", "disable">>
    BY <2>10
  <2>11. CASE q = <<"disable">>
    BY <2>11
  <2> QED BY <1>2, <2>1, <2>2, <2>3, <2>4, <2>5, <2>6, <2>7, <2>8, <2>9, <2>10, <2>11
<1> QED BY <1>1, <1>2

(* What a statement does, by its name.                                     *)
LEMMA MotorStatement ==
  ASSUME MotorTypes, S!Step
  PROVE  /\ motor_todo' \in MotorLeft /\ stage # "out"
         /\ stage' = IF stage = "pwm" /\ running THEN "out" ELSE After(stage)
         /\ running' = (stage = "pwm" \/ (running /\ stage # "pwm_off"))
         /\ pulses' = IF stage = "pwm" /\ ~ running THEN 0 ELSE pulses
         /\ number_of_rotation' = IF stage = "rotation" THEN rotations ELSE number_of_rotation
         /\ number_of_steps' = IF stage = "steps" /\ rotations > 0 THEN S!Steps(rotations)
                               ELSE number_of_steps
         /\ rcr' = IF stage = "steps" THEN S!AtMost(S!Steps(rotations)) ELSE rcr
         /\ enabled' = (stage = "enable" \/ (enabled /\ stage \notin {"disable", "last"}))
         /\ shadow' = IF stage = "arm" /\ rotations > 0 THEN rcr ELSE shadow
         /\ it_update' = ((stage = "arm" /\ rotations > 0) \/ (it_update /\ stage # "disarm"))
         /\ started' = (stage = "set" \/ (started /\ stage # "clear"))
         /\ UNCHANGED <<rotations, again, ended>>
<1> DEFINE s == Head(motor_todo)
<1>1. /\ motor_todo \in MotorLeft /\ motor_todo # <<>>
      /\ Tail(motor_todo) \in MotorLeft /\ Where(Tail(motor_todo)) = After(stage) /\ stage # "out"
      /\ s = IF stage = "last" THEN "disable" ELSE stage
      /\ <<>> \in MotorLeft /\ Where(<<>>) = "out"
  BY MotorOrder DEF MotorTypes, S!Step, stage
<1>2. /\ IF s = "pwm" THEN S!PwmStart
         ELSE /\ motor_todo' = Tail(motor_todo)
              /\ running' = (running /\ s # "pwm_off")
              /\ UNCHANGED pulses
      /\ number_of_rotation' = IF s = "rotation" THEN rotations ELSE number_of_rotation
      /\ number_of_steps' = IF s = "steps" /\ rotations > 0 THEN S!Steps(rotations) ELSE number_of_steps
      /\ rcr' = IF s = "steps" THEN S!AtMost(S!Steps(rotations)) ELSE rcr
      /\ enabled' = (s = "enable" \/ (enabled /\ s # "disable"))
      /\ shadow' = IF s = "arm" /\ rotations > 0 THEN rcr ELSE shadow
      /\ it_update' = ((s = "arm" /\ rotations > 0) \/ (it_update /\ s # "disarm"))
      /\ started' = (s = "set" \/ (started /\ s # "clear"))
      /\ UNCHANGED <<rotations, again, ended>>
  BY DEF S!Step
<1> HIDE DEF s
<1>3. \A x \in {"pwm", "pwm_off", "rotation", "steps", "enable", "arm", "disarm", "set", "clear"} :
        (s = x) = (stage = x)
  BY <1>1
<1>4. (s = "disable") = (stage \in {"disable", "last"})
  BY <1>1
<1>5. /\ motor_todo' = IF stage = "pwm" /\ running THEN <<>> ELSE Tail(motor_todo)
      /\ pulses' = IF stage = "pwm" /\ ~ running THEN 0 ELSE pulses
  BY <1>2, <1>3 DEF S!PwmStart
<1>6. running' = (stage = "pwm" \/ (running /\ stage # "pwm_off"))
  BY <1>2, <1>3, Zenon DEF S!PwmStart
<1>7. motor_todo' \in MotorLeft /\ stage' = IF stage = "pwm" /\ running THEN "out" ELSE After(stage)
  BY <1>1, <1>5 DEF stage
<1>8. /\ enabled' = (stage = "enable" \/ (enabled /\ stage \notin {"disable", "last"}))
      /\ it_update' = ((stage = "arm" /\ rotations > 0) \/ (it_update /\ stage # "disarm"))
      /\ started' = (stage = "set" \/ (started /\ stage # "clear"))
  BY <1>2, <1>3, <1>4, Zenon
<1> QED BY <1>1, <1>2, <1>3, <1>5, <1>6, <1>7, <1>8

(* A call, a statement of one, or an interrupt.                            *)
LEMMA MotorStep == [Next]_vars => S!Next \/ UNCHANGED stepper
  BY DEF Next, vars

(* Every statement of a call keeps the types.                              *)
LEMMA MotorTypesStep ==
  ASSUME MotorTypes, [Next]_vars
  PROVE  MotorTypes'
<1>1. ASSUME NEW n, NEW q \in {S!StartSteps, S!StopSteps}, S!Call(q, n)
      PROVE  MotorTypes'
  <2>1. motor_todo' \in MotorLeft
    BY <1>1, MotorOrder DEF S!Call
  <2>2. again' \in BOOLEAN /\ ended' \in BOOLEAN
    BY <1>1, Zenon DEF S!Call, MotorTypes
  <2> QED BY <1>1, <2>1, <2>2 DEF S!Call, S!timer, S!driver, MotorTypes
<1>2. CASE S!Step
  <2>1. /\ motor_todo' \in MotorLeft /\ UNCHANGED <<again, ended>>
        /\ running' = (stage = "pwm" \/ (running /\ stage # "pwm_off"))
        /\ enabled' = (stage = "enable" \/ (enabled /\ stage \notin {"disable", "last"}))
        /\ it_update' = ((stage = "arm" /\ rotations > 0) \/ (it_update /\ stage # "disarm"))
        /\ started' = (stage = "set" \/ (started /\ stage # "clear"))
    BY <1>2, MotorStatement
  <2>2. running' \in BOOLEAN /\ enabled' \in BOOLEAN /\ it_update' \in BOOLEAN /\ started' \in BOOLEAN
    BY <2>1, Zenon
  <2> QED BY <2>1, <2>2 DEF MotorTypes
<1>3. CASE S!Update
  <2>1. motor_todo' = motor_todo /\ again' = again
    BY <1>3 DEF S!Update
  <2>2. \/ UNCHANGED <<running, it_update, started, enabled, ended>>
        \/ S!Finish
    BY <1>3 DEF S!Update, S!Ignored, S!NextPart
  <2>3. S!Finish => ended' \in BOOLEAN
    BY Zenon DEF S!Finish
  <2> QED BY <2>1, <2>2, <2>3 DEF S!Finish, MotorTypes
<1>4. CASE UNCHANGED stepper
  BY <1>4 DEF stepper, MotorTypes
<1> QED BY <1>1, <1>2, <1>3, <1>4, MotorStep DEF S!Next

(* The start or the stop of the motor begins, ...                          *)
LEMMA MotorCallInv ==
  ASSUME MotorInv, MotorTypes', NEW n, NEW q \in {S!StartSteps, S!StopSteps}, S!Call(q, n)
  PROVE  MotorInv'
<1>1. /\ stage = "out" /\ UNCHANGED <<running, it_update, started, enabled>>
      /\ motor_todo' = q /\ ~ ended' /\ (q = S!StartSteps => (again' <=> running))
      /\ (q = S!StopSteps => again' = again)
  <2>1. stage = "out" /\ S!StartSteps # S!StopSteps
    BY MotorOrder DEF S!Call, stage
  <2> QED BY <2>1, Zenon DEF S!Call, S!timer, S!driver
<1>2. stage' = IF q = S!StartSteps THEN "rotation" ELSE "pwm_off"
  BY <1>1, MotorOrder DEF stage
<1>3. CASE q = S!StartSteps
  BY <1>1, <1>2, <1>3 DEF MotorInv, Early, Late
<1>4. CASE q # S!StartSteps
  BY <1>1, <1>2, <1>4 DEF MotorInv, Early, Late
<1> QED BY <1>3, <1>4

(* ... a statement is executed, ...                                        *)
LEMMA MotorStatementInv ==
  ASSUME MotorInv, MotorTypes', S!Step
  PROVE  MotorInv'
<1>1. MotorTypes
  BY DEF MotorInv
<1>2. stage \in {"rotation", "steps", "disable", "pwm", "enable", "arm", "set",
                 "pwm_off", "disarm", "clear", "last"}
  BY <1>1, MotorStatement DEF MotorTypes, MotorLeft, stage, Where, S!StartSteps, S!StopSteps
<1>3. /\ running' = (stage = "pwm" \/ (running /\ stage # "pwm_off"))
      /\ enabled' = (stage = "enable" \/ (enabled /\ stage \notin {"disable", "last"}))
      /\ it_update' = ((stage = "arm" /\ rotations > 0) \/ (it_update /\ stage # "disarm"))
      /\ started' = (stage = "set" \/ (started /\ stage # "clear"))
      /\ again' = again /\ ended' = ended
      /\ stage' = IF stage = "pwm" /\ running THEN "out" ELSE After(stage)
  BY <1>1, MotorStatement
<1> USE DEF MotorInv, Early, Late, After
<1>4. CASE stage \in {"rotation", "steps", "disable"}
  BY <1>3, <1>4
<1>5. CASE stage = "pwm"
  BY <1>3, <1>5
<1>6. CASE stage \in {"enable", "arm"}
  BY <1>3, <1>6
<1>7. CASE stage = "set"
  BY <1>3, <1>7
<1>8. CASE stage \in {"pwm_off", "disarm", "clear"}
  BY <1>3, <1>8
<1>9. CASE stage = "last"
  BY <1>3, <1>9
<1> QED BY <1>2, <1>4, <1>5, <1>6, <1>7, <1>8, <1>9

(* ... or the interrupt comes.                                             *)
LEMMA MotorUpdateInv ==
  ASSUME MotorInv, MotorTypes', S!Update
  PROVE  MotorInv'
<1>1. /\ running /\ it_update /\ stage' = stage /\ again' = again
      /\ motor_todo' = motor_todo
  BY DEF S!Update, stage
<1>2. \/ UNCHANGED <<running, it_update, started, enabled, ended>>
      \/ /\ ~ running' /\ ~ it_update' /\ ~ started' /\ ~ enabled'
         /\ (stage # "out" => ended')
  <2>1. stage # "out" <=> motor_todo # <<>>
    BY MotorOrder DEF MotorInv, MotorTypes, stage
  <2> QED BY <2>1, Zenon DEF S!Update, S!Ignored, S!NextPart, S!Finish
<1>3. CASE UNCHANGED <<running, it_update, started, enabled, ended>>
  BY <1>1, <1>3 DEF MotorInv, Early, Late
<1>4. CASE /\ ~ running' /\ ~ it_update' /\ ~ started' /\ ~ enabled'
           /\ (stage # "out" => ended')
  BY <1>1, <1>4 DEF MotorInv, Early, Late
<1> QED BY <1>2, <1>3, <1>4

(* The invariant holds when the driver is registered and after every step. *)
LEMMA MotorInitInv == Init => MotorInv
  BY MotorOrder DEF Init, S!Init, MotorInv, MotorTypes, stage, Early, Late

(* Every step keeps the order of the motor.                                *)
LEMMA MotorStepInv ==
  ASSUME MotorInv, [Next]_vars
  PROVE  MotorInv'
<1>1. MotorTypes'
  BY MotorTypesStep DEF MotorInv
<1>2. CASE UNCHANGED stepper
  BY <1>2 DEF stepper, MotorInv, MotorTypes, stage, Early, Late
<1> QED BY <1>1, <1>2, MotorStep, MotorCallInv, MotorStatementInv, MotorUpdateInv DEF S!Next

(* Between calls the status tells whether the motor turns and the pin      *)
(* enables it while it does, wherever the update interrupt cuts            *)
(* stepper_start and stepper_stop, except in the two cases StatusTrue      *)
(* names.                                                                  *)
THEOREM TellsStatus == Spec => []StatusTrue
<1>1. MotorInv => StatusTrue
  <2> SUFFICES ASSUME MotorInv, motor_todo = <<>> PROVE StatusTrue
    BY DEF StatusTrue, S!StatusTrue
  <2>1. stage = "out"
    BY MotorOrder DEF stage
  <2> QED BY <2>1 DEF MotorInv, StatusTrue, S!StatusTrue
<1> QED BY <1>1, MotorInitInv, MotorStepInv, PTL DEF Spec

(* Multiples of the length of a part.                                      *)
LEMMA Multiples ==
  ASSUME NEW m \in Nat \ {0}, NEW j \in Nat
  PROVE  /\ j * m \in Nat
         /\ j > 0 => j * m = m + (j - 1) * m /\ j * m >= m
         /\ j > 1 => j * m > m
<1>1. \A x \in Nat : x * m \in Nat /\ (x > 0 => x * m > 0)
  OBVIOUS
<1>2. j * m = m + (j - 1) * m
  OBVIOUS
<1>3. j > 0 => j - 1 \in Nat
  OBVIOUS
<1>4. j > 1 => j - 1 \in Nat /\ j - 1 > 0
  OBVIOUS
<1> QED BY <1>1, <1>2, <1>3, <1>4

(* The motion goes on by a part, ...                                       *)
LEMMA MotionUpdate ==
  ASSUME MotorInv, MotionInv, S!Update, ~ again
  PROVE  /\ running' /\ it_update' => Moving'
         /\ ~ running' => pulses' = (number_of_rotation + 1) * (MaxVal + 1)
<1>1. running /\ it_update /\ Moving /\ MaxVal \in Nat \ {0}
  BY StepperAssumption DEF S!Update, MotionInv
<1> DEFINE N == number_of_rotation
<1>2. N \in Rotations /\ N \in Nat /\ N > 0
  BY <1>1, StepperAssumption DEF Moving
<1>3. PICK k \in 0 .. N : Pulsed(k)
  BY <1>1 DEF Moving
<1>4. k \in Nat /\ N - k \in Nat /\ number_of_steps = (N - k) * MaxVal /\ pulses = k * (MaxVal + 1)
  BY <1>2, <1>3 DEF Pulsed
<1>5. pulses <= MaxPulses /\ pulses \in Nat
  <2>1. N * (MaxVal + 1) = k * (MaxVal + 1) + (N - k) * (MaxVal + 1)
    BY <1>1, <1>2, <1>4
  <2>2. k * (MaxVal + 1) \in Nat /\ (N - k) * (MaxVal + 1) \in Nat /\ N * (MaxVal + 1) \in Nat
    BY <1>1, <1>2, <1>4, Multiples
  <2>3. N * (MaxVal + 1) <= MaxPulses /\ MaxPulses \in Nat
    BY <1>2, StepperAssumption
  <2> QED BY <1>4, <2>1, <2>2, <2>3
<1>6. pulses' = pulses + MaxVal + 1 /\ N' = N /\ shadow' = MaxVal
  <2>1. /\ pulses' = IF N = 0 \/ pulses > MaxPulses THEN pulses ELSE pulses + shadow + 1
        /\ shadow' = rcr /\ N' = N
    BY DEF S!Update
  <2>2. ~ (N = 0 \/ pulses > MaxPulses)
    BY <1>2, <1>5, StepperAssumption
  <2>3. rcr = MaxVal /\ shadow = MaxVal
    BY <1>1 DEF Moving
  <2> QED BY <2>1, <2>2, <2>3
<1>7. pulses' = (k + 1) * (MaxVal + 1)
  BY <1>1, <1>4, <1>6
<1>8. CASE N - k = 0
  <2>1. number_of_steps = 0
    BY <1>1, <1>4, <1>8
  <2>2. ~ running'
    BY <1>2, <2>1 DEF S!Update, S!Finish
  <2>3. k = N
    BY <1>2, <1>4, <1>8
  <2> QED BY <1>7, <2>2, <2>3
<1>9. CASE N - k > 0
  <2>1. /\ number_of_steps \in Nat /\ number_of_steps >= MaxVal
        /\ number_of_steps = MaxVal + (N - k - 1) * MaxVal
        /\ N - k > 1 => number_of_steps > MaxVal
    BY <1>1, <1>4, <1>9, Multiples
  <2>2. S!NextPart
    BY <1>1, <1>2, <2>1 DEF S!Update
  <2>3. running'
    BY <1>1, <2>2 DEF S!NextPart
  <2>4. number_of_steps' = (N - k - 1) * MaxVal /\ rcr' = MaxVal
    <3>1. CASE number_of_steps > MaxVal
      <4>1. number_of_steps' = number_of_steps - MaxVal /\ rcr' = rcr
        BY <2>2, <3>1 DEF S!NextPart
      <4>2. (N - k - 1) * MaxVal \in Int
        BY <1>1, <1>4
      <4> QED BY <1>1, <2>1, <4>1, <4>2 DEF Moving
    <3>2. CASE ~ number_of_steps > MaxVal
      <4>1. number_of_steps' = 0 /\ rcr' = number_of_steps
        BY <2>2, <3>2 DEF S!NextPart
      <4>2. N - k - 1 = 0 /\ number_of_steps = MaxVal
        BY <1>1, <1>4, <1>9, <2>1, <3>2
      <4> QED BY <1>1, <4>1, <4>2
    <3> QED BY <3>1, <3>2
  <2>5. k + 1 \in 0 .. N /\ N - (k + 1) = N - k - 1
    BY <1>2, <1>4, <1>9
  <2>6. Pulsed(k + 1)'
    BY <1>6, <1>7, <2>4, <2>5 DEF Pulsed
  <2>7. Moving'
    BY <1>2, <1>6, <2>4, <2>5, <2>6 DEF Moving
  <2> QED BY <2>3, <2>7
<1> QED BY <1>4, <1>8, <1>9

(* ... is set up statement by statement, ...                               *)
LEMMA MotionStatement ==
  ASSUME MotorInv, MotionInv, S!Step
  PROVE  MotionInv'
<1>1. MotorTypes
  BY DEF MotorInv
<1>2. stage \in {"rotation", "steps", "disable", "pwm", "enable", "arm", "set",
                 "pwm_off", "disarm", "clear", "last"}
  BY <1>1, MotorStatement DEF MotorTypes, MotorLeft, stage, Where, S!StartSteps, S!StopSteps
<1>3. /\ stage' = IF stage = "pwm" /\ running THEN "out" ELSE After(stage)
      /\ rotations' = rotations /\ (~ again' => ~ again)
      /\ pulses' = IF stage = "pwm" /\ ~ running THEN 0 ELSE pulses
      /\ number_of_rotation' = IF stage = "rotation" THEN rotations ELSE number_of_rotation
      /\ number_of_steps' = IF stage = "steps" /\ rotations > 0 THEN rotations * MaxVal
                            ELSE number_of_steps
      /\ rcr' = IF stage = "steps" THEN S!AtMost(rotations * MaxVal) ELSE rcr
      /\ shadow' = IF stage = "arm" /\ rotations > 0 THEN rcr ELSE shadow
  BY <1>1, MotorStatement DEF S!Steps
<1>4. /\ running' => stage = "pwm" \/ (running /\ stage # "pwm_off")
      /\ it_update' => (stage = "arm" /\ rotations > 0) \/ (it_update /\ stage # "disarm")
  BY <1>1, MotorStatement, Zenon
<1>5. /\ rotations \in Nat /\ MaxVal \in Nat \ {0} /\ number_of_rotation \in Nat /\ number_of_steps \in Nat
      /\ rotations * MaxVal \in Nat /\ (rotations > 0 => S!AtMost(rotations * MaxVal) = MaxVal)
  <2>1. rotations \in Nat /\ MaxVal \in Nat \ {0}
    BY StepperAssumption DEF MotionInv
  <2>2. rotations * MaxVal \in Nat /\ (rotations > 0 => rotations * MaxVal >= MaxVal)
    BY <2>1, Multiples
  <2> QED BY <2>1, <2>2 DEF S!AtMost, MotionInv
<1>6. /\ rotations' \in Rotations \cup {0} /\ number_of_rotation' \in Nat /\ number_of_steps' \in Nat
  BY <1>3, <1>5 DEF MotionInv
<1>7. Early' \/ Late' => rotations' \in Rotations
  BY <1>2, <1>3 DEF MotionInv, Early, Late, After
<1>8. stage' \in {"steps", "disable", "pwm", "enable", "arm", "set"} => number_of_rotation' = rotations'
  BY <1>2, <1>3 DEF MotionInv, After
<1>9. stage' \in {"disable", "pwm", "enable", "arm"} /\ ~ again' /\ rotations' > 0 =>
        number_of_steps' = rotations' * MaxVal /\ rcr' = MaxVal
  BY <1>2, <1>3, <1>5 DEF MotionInv, After
<1>10. stage' \in {"enable", "arm"} => pulses' = 0
  BY <1>2, <1>3 DEF MotionInv, After
<1>11. ASSUME ~ again', running', it_update'
       PROVE  Moving'
  <2>1. CASE stage = "arm"
    <3>1. ~ again /\ rotations > 0
      BY <1>3, <1>4, <1>11, <2>1 DEF MotorInv
    <3>2. /\ number_of_rotation' = rotations /\ number_of_steps' = rotations * MaxVal
          /\ rcr' = MaxVal /\ shadow' = MaxVal /\ pulses' = 0 /\ rotations \in Rotations
      BY <1>3, <2>1, <3>1 DEF MotionInv, Late
    <3>3. Pulsed(0)' /\ 0 \in 0 .. number_of_rotation'
      BY <1>5, <3>2 DEF Pulsed
    <3> QED BY <3>1, <3>2, <3>3 DEF Moving
  <2>2. CASE stage # "arm"
    <3>1. ~ again /\ it_update /\ running /\ stage \notin {"rotation", "steps", "disable", "pwm"}
      BY <1>3, <1>4, <1>11, <2>2 DEF MotorInv, Early
    <3>2. UNCHANGED <<number_of_rotation, number_of_steps, pulses, rcr, shadow>> /\ Moving
      BY <1>3, <1>11, <2>2, <3>1 DEF MotionInv
    <3> QED BY <3>2 DEF Moving, Pulsed
  <2> QED BY <2>1, <2>2
<1> QED BY <1>6, <1>7, <1>8, <1>9, <1>10, <1>11 DEF MotionInv

(* ... and stays counted in every step.                                    *)
LEMMA MotionStepInv ==
  ASSUME MotorInv, MotionInv, [Next]_vars
  PROVE  MotionInv'
<1>1. ASSUME NEW n \in Rotations \cup {0}, NEW q \in {S!StartSteps, S!StopSteps}, S!Call(q, n),
             q = S!StartSteps => n \in Rotations
      PROVE  MotionInv'
  <2>1. /\ stage = "out" /\ stage' = IF q = S!StartSteps THEN "rotation" ELSE "pwm_off"
        /\ S!StartSteps # S!StopSteps
    BY <1>1, MotorOrder DEF S!Call, stage
  <2>2. /\ UNCHANGED <<rcr, shadow, running, it_update, number_of_rotation, number_of_steps, pulses>>
        /\ rotations' = n
        /\ again' = IF q = S!StartSteps THEN running ELSE again
    BY <1>1 DEF S!Call, S!timer, S!driver
  <2>3. ~ again' /\ running' => ~ again /\ running
    BY <2>2, Zenon DEF MotorInv
  <2>4. Moving => Moving'
    BY <2>2 DEF Moving, Pulsed
  <2> QED BY <1>1, <2>1, <2>2, <2>3, <2>4 DEF MotionInv, Early, Late
<1>2. CASE S!Update
  <2>1. /\ stage' = stage /\ again' = again /\ running /\ it_update
        /\ rotations' = rotations /\ number_of_rotation' = number_of_rotation
    BY <1>2 DEF S!Update, stage
  <2>2. number_of_steps' \in Nat
    <3>1. number_of_steps \in Nat /\ MaxVal \in Nat
      BY StepperAssumption DEF MotionInv
    <3>2. S!Ignored \/ S!Finish \/ S!NextPart
      BY <1>2 DEF S!Update
    <3> QED BY <3>1, <3>2 DEF S!Ignored, S!Finish, S!NextPart
  <2>3. stage \notin {"enable", "arm"} /\ ~ (stage \in {"disable", "pwm"} /\ ~ again)
    BY <2>1 DEF MotorInv, Early
  <2>4. ~ again /\ running' /\ it_update' => Moving'
    BY <1>2, MotionUpdate
  <2> QED BY <2>1, <2>2, <2>3, <2>4 DEF MotionInv, Early, Late
<1>3. CASE UNCHANGED stepper
  BY <1>3 DEF stepper, MotionInv, Moving, Pulsed, stage, Early, Late
<1> QED BY <1>1, <1>2, <1>3, MotionStatement, MotorStep, MotorOrder DEF S!Next

(* A motion that no other start came into makes the pulses of one rotation *)
(* more than it was asked for, for every number of rotations and every     *)
(* length of a part.                                                       *)
THEOREM TurnsOneMore == Spec => OneMore
<1>1. Init => MotionInv
  BY MotorOrder DEF Init, S!Init, MotionInv, Early, Late, stage
<1>2. ASSUME MotorInv, MotionInv, [Next]_vars
      PROVE  [it_update /\ motor_todo = <<>> /\ ~ running' /\ motor_todo' = <<>> /\ ~ again
                => pulses' = (number_of_rotation + 1) * (MaxVal + 1)]_(S!vars)
  <2> SUFFICES ASSUME it_update, motor_todo = <<>>, ~ running', motor_todo' = <<>>, ~ again
               PROVE  pulses' = (number_of_rotation + 1) * (MaxVal + 1)
    OBVIOUS
  <2>1. running
    BY <1>2, MotorOrder DEF MotorInv, stage
  <2>2. S!Update
    BY <1>2, <2>1, MotorStep, MotorOrder DEF S!Next, S!Call, S!Step, stepper
  <2> QED BY <1>2, <2>2, MotionUpdate
<1> QED BY <1>1, <1>2, MotorInitInv, MotorStepInv, MotionStepInv, PTL DEF Spec, OneMore, S!OneMore
-----------------------------------------------------------------------------
(* The W25Q driver.                                                      *)

(* The calls, and the part of a script before its process has set BUSY.    *)
QspiKinds == {"read", "write", "erase", "block", "chip", "id"}

ChipScript == <<"clear", "enter", "wait", "we", "wait", "erase", "wait", "next">>
ChipRest   == <<"enter", "wait", "we", "wait", "erase", "wait", "next">>
Openings == {<<"enter", "next">>, <<"wait", "enter", "next">>, ChipScript, ChipRest}

Inner == {"next", "wait", "erase", "we", "wd", "rx", "RX", "tx", "TX"}
Body(q) == q \in Seq(Inner)

(* What a process has still to do: the rest of a script of its call. GetID *)
(* and erasechip have one round.                                           *)
Fits(s, a, l) ==
  /\ Body(s) \/ (s \in Openings /\ a.kind # "id")
  /\ DOMAIN l = {"kind", "addr", "len"}
  /\ s # <<>> => /\ a.kind \in QspiKinds /\ l.kind = a.kind
                 /\ a.kind \in {"chip", "id"} => l.len = 0

QspiTypes ==
  /\ DOMAIN script = Users /\ DOMAIN asked = Users /\ DOMAIN left = Users
  /\ \A p \in Users : Fits(script[p], asked[p], left[p])

(* As long as there was no lapse, BUSY is set while a process is inside,   *)
(* and a process that is active without being inside is alone, or beside   *)
(* one that is inside, with GetID or before it clears the status.          *)
Busy ==
  /\ \A p \in Users : W!Inside(p) => "BUSY" \in qspi_status
  /\ \A p, q \in Users : W!Inside(p) /\ W!Inside(q) => p = q
  /\ \A p, q \in Users : p # q /\ W!Active(p) /\ ~ W!Inside(p) /\ W!Active(q) =>
       W!Inside(q) /\ (asked[p].kind = "id" \/ Head(script[p]) = "clear")

QspiInv == QspiTypes /\ (~ lapse => Busy)

(* What a body is made of.                                                 *)
LEMMA BodyConcat ==
  ASSUME NEW q, NEW r, Body(q), Body(r)
  PROVE  Body(q \o r)
BY ConcatProperties DEF Body

(* What is left of a body is one, ...                                      *)
LEMMA BodyTail ==
  ASSUME NEW q, Body(q), q # <<>>
  PROVE  Body(Tail(q)) /\ Head(q) \in Inner
BY HeadTailProperties DEF Body

(* ... and so is everything a call puts together.                          *)
LEMMA BodyParts ==
  /\ Body(<<>>) /\ Body(<<"next">>) /\ Body(<<"wait">>) /\ Body(<<"erase", "wait">>)
  /\ Body(<<"rx", "RX", "next">>) /\ Body(W!ReadCycle) /\ Body(W!WriteCycle)
  /\ \A e \in {"we", "wd"} : Body(W!WriteEnable(e))
<1>1. \A x, y, z \in Inner : <<x>> \in Seq(Inner) /\ <<x, y>> \in Seq(Inner) /\ <<x, y, z>> \in Seq(Inner)
  OBVIOUS
<1>2. <<>> \in Seq(Inner)
  BY EmptySeq
<1> QED BY <1>1, <1>2 DEF Body, Inner, W!ReadCycle, W!WriteCycle, W!WriteEnable

(* The rounds of a call are bodies, ...                                    *)
LEMMA BodyRound ==
  ASSUME NEW r, r.kind \in {"read", "write", "erase", "block"}
  PROVE  Body(W!Round(r))
<1>1. CASE r.kind = "read"
  <2>1. Body(IF r.addr % PageSize = 0 THEN <<"wait">> ELSE <<>>)
    BY BodyParts
  <2> QED BY <1>1, <2>1, BodyParts, BodyConcat DEF W!Round
<1>2. CASE r.kind = "write"
  BY <1>2, BodyParts, BodyConcat DEF W!Round
<1>3. CASE r.kind \in {"erase", "block"}
  BY <1>3, BodyParts, BodyConcat DEF W!Round
<1> QED BY <1>1, <1>2, <1>3

(* ... and a call opens with its test or store of the status.              *)
LEMMA OpeningFacts ==
  /\ \A k \in QspiKinds \ {"id"} : W!Opening(k) \in Openings
  /\ Body(W!Opening("id"))
  /\ Head(W!Opening("chip")) = "clear"
  /\ \A q \in Openings : /\ q \in Seq(Inner \cup {"enter", "clear"}) /\ q # <<>>
                         /\ Head(q) \in {"wait", "enter", "clear"}
                         /\ Head(q) = "enter" => Body(Tail(q))
                         /\ Head(q) # "enter" => Tail(q) \in Openings
                         /\ \E j \in DOMAIN q : q[j] = "enter"
<1> USE DEF Openings
<1>1. /\ W!Opening("chip") = ChipScript
      /\ ChipScript # <<>> /\ Head(ChipScript) = "clear" /\ Tail(ChipScript) = ChipRest
      /\ ChipRest # <<>> /\ Head(ChipRest) = "enter"
      /\ Tail(ChipRest) = <<"wait", "we", "wait", "erase", "wait", "next">>
      /\ ChipScript[2] = "enter" /\ 2 \in DOMAIN ChipScript
      /\ ChipRest[1] = "enter" /\ 1 \in DOMAIN ChipRest
  <2>1. W!Opening("chip") = ChipScript
    BY DEF W!Opening, ChipScript
  <2>2. Head(ChipScript) = "clear" /\ ChipScript # <<>>
    BY DEF ChipScript
  <2>3. Tail(ChipScript) = ChipRest
    BY DEF ChipScript, ChipRest
  <2>4. Head(ChipRest) = "enter" /\ ChipRest # <<>>
    BY DEF ChipRest
  <2>5. Tail(ChipRest) = <<"wait", "we", "wait", "erase", "wait", "next">>
    BY DEF ChipRest
  <2>6. ChipScript[2] = "enter" /\ 2 \in DOMAIN ChipScript /\ ChipRest[1] = "enter" /\ 1 \in DOMAIN ChipRest
    BY DEF ChipScript, ChipRest
  <2> QED BY <2>1, <2>2, <2>3, <2>4, <2>5, <2>6
<1>2. \A k \in QspiKinds \ {"id"} : W!Opening(k) \in Openings
  BY <1>1 DEF W!Opening, QspiKinds
<1>3. Body(W!Opening("id"))
  BY BodyParts DEF W!Opening
<1>4. Body(Tail(ChipRest))
  <2>1. <<"wait", "we", "wait", "erase", "wait", "next">> \in Seq(Inner)
    BY DEF Inner
  <2> QED BY <1>1, <2>1 DEF Body
<1>5. /\ ChipScript \in Seq(Inner \cup {"enter", "clear"})
      /\ ChipRest \in Seq(Inner \cup {"enter", "clear"})
      /\ <<"enter", "next">> \in Seq(Inner \cup {"enter", "clear"})
      /\ <<"wait", "enter", "next">> \in Seq(Inner \cup {"enter", "clear"})
  BY DEF ChipScript, ChipRest, Inner
<1>6. ASSUME NEW q \in Openings
      PROVE  /\ q \in Seq(Inner \cup {"enter", "clear"}) /\ q # <<>>
             /\ Head(q) \in {"wait", "enter", "clear"}
             /\ Head(q) = "enter" => Body(Tail(q))
             /\ Head(q) # "enter" => Tail(q) \in Openings
             /\ \E j \in DOMAIN q : q[j] = "enter"
  <2>1. CASE q = <<"enter", "next">>
    <3>1. q # <<>> /\ Head(q) = "enter" /\ Tail(q) = <<"next">> /\ q[1] = "enter" /\ 1 \in DOMAIN q
      BY <2>1
    <3> QED BY <1>5, <2>1, <3>1, BodyParts
  <2>2. CASE q = <<"wait", "enter", "next">>
    <3>1. /\ q # <<>> /\ Head(q) = "wait" /\ Tail(q) = <<"enter", "next">>
          /\ q[2] = "enter" /\ 2 \in DOMAIN q
      BY <2>2
    <3> QED BY <1>5, <2>2, <3>1
  <2>3. CASE q = ChipScript
    BY <1>1, <1>5, <2>3
  <2>4. CASE q = ChipRest
    BY <1>1, <1>4, <1>5, <2>4
  <2> QED BY <2>1, <2>2, <2>3, <2>4
<1> QED BY <1>1, <1>2, <1>3, <1>6

(* A script is a body or holds an "enter", and not both.                   *)
LEMMA EnterOrBody ==
  ASSUME NEW s, Body(s) \/ s \in Openings
  PROVE  /\ Body(s) <=> s \notin Openings
         /\ (\A j \in DOMAIN s : s[j] # "enter") <=> s \notin Openings
<1>1. s \in Openings => \E j \in DOMAIN s : s[j] = "enter"
  BY OpeningFacts
<1>2. Body(s) => \A j \in DOMAIN s : s[j] # "enter"
  <2>1. ASSUME Body(s), NEW j \in DOMAIN s
        PROVE  s[j] # "enter"
    <3>1. s[j] \in Inner
      BY <2>1, LenProperties, ElementOfSeq DEF Body
    <3> QED BY <3>1 DEF Inner
  <2> QED BY <2>1
<1> QED BY <1>1, <1>2

(* A process is inside exactly while it executes the body of a call other  *)
(* than GetID; a step of one process leaves the others where they are.     *)
LEMMA OneMoves ==
  ASSUME QspiTypes, NEW p \in Users,
         DOMAIN script' = Users, DOMAIN asked' = Users, DOMAIN left' = Users,
         \A q \in Users \ {p} : script'[q] = script[q] /\ asked'[q] = asked[q] /\ left'[q] = left[q],
         Fits(script'[p], asked'[p], left'[p])
  PROVE  /\ QspiTypes'
         /\ W!Inside(p) <=> W!Active(p) /\ asked[p].kind # "id" /\ script[p] \notin Openings
         /\ W!Inside(p)' <=> W!Active(p)' /\ asked'[p].kind # "id" /\ script'[p] \notin Openings
         /\ \A q \in Users \ {p} : (W!Active(q)' <=> W!Active(q)) /\ (W!Inside(q)' <=> W!Inside(q))
<1>1. QspiTypes'
  BY DEF QspiTypes
<1>2. Body(script[p]) \/ script[p] \in Openings
  BY DEF QspiTypes, Fits
<1>3. Body(script'[p]) \/ script'[p] \in Openings
  BY DEF Fits
<1>4. W!Inside(p) <=> W!Active(p) /\ asked[p].kind # "id" /\ script[p] \notin Openings
  BY <1>2, EnterOrBody DEF W!Inside
<1>5. W!Inside(p)' <=> W!Active(p)' /\ asked'[p].kind # "id" /\ script'[p] \notin Openings
  BY <1>3, EnterOrBody DEF W!Inside
<1>6. \A q \in Users \ {p} : (W!Active(q)' <=> W!Active(q)) /\ (W!Inside(q)' <=> W!Inside(q))
  BY DEF W!Inside, W!Active
<1> QED BY <1>1, <1>4, <1>5, <1>6

(* A step that leaves a process inside or outside, or ends its call.       *)
LEMMA Stays ==
  ASSUME Busy, NEW p \in Users, W!Active(p),
         \A q \in Users \ {p} : /\ script'[q] = script[q] /\ asked'[q] = asked[q]
                                /\ (W!Active(q)' <=> W!Active(q))
                                /\ (W!Inside(q)' <=> W!Inside(q)),
         W!Inside(p)' => W!Active(p)',
         W!Active(p)' => /\ (W!Inside(p)' <=> W!Inside(p))
                         /\ asked'[p].kind = asked[p].kind
                         /\ asked[p].kind = "id" \/ W!Inside(p) \/ Head(script[p]) # "clear",
         "BUSY" \in qspi_status => "BUSY" \in qspi_status' \/ (W!Inside(p) /\ ~ W!Active(p)')
  PROVE  Busy'
<1>1. \A q \in Users : W!Inside(q)' => W!Inside(q)
  OBVIOUS
<1>2. \A q \in Users : W!Active(q)' => W!Active(q)
  OBVIOUS
<1>3. \A q \in Users : W!Inside(q)' => "BUSY" \in qspi_status'
  BY <1>1 DEF Busy
<1>4. \A q, r \in Users : W!Inside(q)' /\ W!Inside(r)' => q = r
  BY <1>1 DEF Busy
<1>5. ASSUME NEW q \in Users, NEW r \in Users, q # r, W!Active(q)', ~ W!Inside(q)', W!Active(r)'
      PROVE  W!Inside(r)' /\ (asked'[q].kind = "id" \/ Head(script'[q]) = "clear")
  <2>1. W!Active(q) /\ ~ W!Inside(q) /\ W!Active(r)
    BY <1>2, <1>5
  <2>2. W!Inside(r) /\ (asked[q].kind = "id" \/ Head(script[q]) = "clear")
    BY <1>5, <2>1 DEF Busy
  <2>3. W!Inside(r)'
    BY <1>5, <2>2
  <2>4. asked'[q].kind = "id" \/ Head(script'[q]) = "clear"
    BY <1>5, <2>1, <2>2
  <2> QED BY <2>3, <2>4
<1> QED BY <1>3, <1>4, <1>5 DEF Busy

(* A process that is alone.                                                *)
LEMMA OnlyOne ==
  ASSUME NEW p \in Users, \A q \in Users \ {p} : ~ W!Active(q)',
         W!Inside(p)' => "BUSY" \in qspi_status'
  PROVE  Busy'
<1>1. \A q \in Users : W!Inside(q)' => W!Active(q)'
  BY DEF W!Inside
<1> QED BY <1>1 DEF Busy

(* Nobody is inside at first.                                              *)
LEMMA QspiInit == W!Init => QspiInv
<1> SUFFICES ASSUME W!Init PROVE QspiInv
  OBVIOUS
<1> USE DEF W!Init
<1>1. QspiTypes
  <2>1. \A p \in Users : Fits(script[p], asked[p], left[p])
    BY BodyParts DEF W!Idle, Fits
  <2> QED BY <2>1 DEF QspiTypes
<1>2. \A p \in Users : ~ W!Active(p) /\ ~ W!Inside(p)
  BY DEF W!Active, W!Inside
<1> QED BY <1>1, <1>2 DEF QspiInv, Busy

(* A call begins: beside others only if they are all inside, and then only *)
(* GetID and erasechip get past the test of BUSY.                          *)
LEMMA QspiCall ==
  ASSUME W25qAssumption, QspiInv, NEW p \in Users, NEW r \in Requests[p], W!Call(p, r)
  PROVE  QspiInv'
<1>1. r \in [kind : QspiKinds, addr : Nat, len : Nat]
  BY DEF W25qAssumption, QspiKinds
<1>2. /\ DOMAIN script' = Users /\ DOMAIN asked' = Users /\ DOMAIN left' = Users
      /\ \A q \in Users \ {p} : script'[q] = script[q] /\ asked'[q] = asked[q] /\ left'[q] = left[q]
      /\ script'[p] = W!Opening(r.kind) /\ asked'[p] = r
      /\ left'[p] = IF r.kind \in {"chip", "id"} THEN [r EXCEPT !.len = 0] ELSE r
      /\ qspi_status' = qspi_status
      /\ lapse' = \E q \in W!Others(p) : lapse \/ ~ W!Inside(q)
      /\ ~ W!Active(p) /\ W!Free(r)
  BY DEF QspiInv, QspiTypes, W!Call
<1>3. Fits(script'[p], asked'[p], left'[p])
  <2>1. Body(script'[p]) \/ (script'[p] \in Openings /\ r.kind # "id")
    BY <1>1, <1>2, OpeningFacts
  <2>2. /\ DOMAIN left'[p] = {"kind", "addr", "len"} /\ left'[p].kind = r.kind
        /\ r.kind \in {"chip", "id"} => left'[p].len = 0
    BY <1>1, <1>2
  <2> QED BY <1>1, <1>2, <2>1, <2>2 DEF Fits
<1>4. /\ QspiTypes'
      /\ W!Inside(p)' <=> W!Active(p)' /\ asked'[p].kind # "id" /\ script'[p] \notin Openings
      /\ \A q \in Users \ {p} : (W!Active(q)' <=> W!Active(q)) /\ (W!Inside(q)' <=> W!Inside(q))
  BY <1>2, <1>3, OneMoves DEF QspiInv
<1>5. ~ W!Inside(p)'
  BY <1>1, <1>2, <1>4, OpeningFacts
<1>6. ASSUME ~ lapse'
      PROVE  Busy'
  <2>1. CASE W!Others(p) = {}
    <3>1. \A q \in Users \ {p} : ~ W!Active(q)'
      BY <1>4, <2>1 DEF W!Others
    <3> QED BY <1>5, <3>1, OnlyOne
  <2>2. CASE W!Others(p) # {}
    <3>1. ~ lapse /\ \A q \in W!Others(p) : W!Inside(q)
      BY <1>2, <1>6, <2>2
    <3>2. Busy
      BY <3>1 DEF QspiInv
    <3>3. \A q \in Users \ {p} : W!Active(q) => W!Inside(q)
      BY <3>1 DEF W!Others
    <3>4. PICK o \in Users : o # p /\ W!Inside(o)
      BY <2>2, <3>1 DEF W!Others
    <3>5. "BUSY" \in qspi_status
      BY <3>2, <3>4 DEF Busy
    <3>6. asked'[p].kind = "id" \/ Head(script'[p]) = "clear"
      BY <1>2, <3>5, OpeningFacts DEF W!Free
    <3>7. \A q \in Users : W!Inside(q)' => q # p /\ W!Inside(q) /\ "BUSY" \in qspi_status'
      BY <1>2, <1>4, <1>5, <3>5
    <3>8. \A q, q2 \in Users : W!Inside(q)' /\ W!Inside(q2)' => q = q2
      BY <3>2, <3>7 DEF Busy
    <3>9. ASSUME NEW q \in Users, NEW q2 \in Users, q # q2, W!Active(q)', ~ W!Inside(q)', W!Active(q2)'
          PROVE  W!Inside(q2)' /\ (asked'[q].kind = "id" \/ Head(script'[q]) = "clear")
      <4>1. q = p
        BY <1>4, <3>3, <3>9
      <4>2. W!Inside(q2)'
        BY <1>4, <3>3, <3>9, <4>1
      <4> QED BY <3>6, <4>1, <4>2
    <3> QED BY <3>7, <3>8, <3>9 DEF Busy
  <2> QED BY <2>1, <2>2
<1> QED BY <1>4, <1>6 DEF QspiInv

(* A step that ends the call with an error: beside others it is a lapse.   *)
LEMMA QspiGiveUp ==
  ASSUME QspiInv, NEW p \in Users, W!GiveUp(p)
  PROVE  QspiInv'
<1>1. /\ DOMAIN script' = Users /\ DOMAIN asked' = Users /\ DOMAIN left' = Users
      /\ \A q \in Users \ {p} : script'[q] = script[q] /\ asked'[q] = asked[q] /\ left'[q] = left[q]
      /\ script'[p] = <<>> /\ left'[p] = W!Idle
      /\ lapse' = (lapse \/ W!Others(p) # {})
  BY DEF QspiInv, QspiTypes, W!GiveUp, W!Return
<1>2. Fits(script'[p], asked'[p], left'[p])
  BY <1>1, BodyParts DEF Fits, W!Idle
<1>3. /\ QspiTypes'
      /\ W!Inside(p)' => W!Active(p)'
      /\ \A q \in Users \ {p} : (W!Active(q)' <=> W!Active(q)) /\ (W!Inside(q)' <=> W!Inside(q))
  BY <1>1, <1>2, OneMoves DEF QspiInv
<1>4. ~ W!Active(p)'
  BY <1>1 DEF W!Active
<1>5. ASSUME ~ lapse'
      PROVE  Busy'
  <2>1. \A q \in Users \ {p} : ~ W!Active(q)'
    BY <1>1, <1>3, <1>5 DEF W!Others
  <2> QED BY <1>3, <1>4, <2>1, OnlyOne
<1> QED BY <1>3, <1>5 DEF QspiInv

(* The next word of a script, other than "enter" and "clear".              *)
LEMMA QspiPop ==
  ASSUME QspiInv, NEW p \in Users, W!Active(p), W!Pop(p),
         Head(script[p]) \notin {"enter", "clear"},
         asked' = asked, lapse' = lapse, DOMAIN left' = Users,
         \A q \in Users \ {p} : left'[q] = left[q],
         DOMAIN left'[p] = {"kind", "addr", "len"}, left'[p].kind = left[p].kind,
         left[p].kind \in {"chip", "id"} /\ left[p].len = 0 => left'[p].len = 0,
         "BUSY" \in qspi_status => "BUSY" \in qspi_status'
  PROVE  QspiInv'
<1>1. /\ DOMAIN script' = Users /\ script'[p] = Tail(script[p])
      /\ \A q \in Users \ {p} : script'[q] = script[q] /\ asked'[q] = asked[q]
      /\ DOMAIN asked' = Users /\ script[p] # <<>> /\ Fits(script[p], asked[p], left[p])
  BY DEF QspiInv, QspiTypes, W!Pop, W!Active
<1>2. /\ Body(script[p]) => Body(script'[p])
      /\ script[p] \in Openings => script'[p] \in Openings
      /\ Body(script[p]) \/ (script[p] \in Openings /\ asked[p].kind # "id")
  BY <1>1, BodyTail, OpeningFacts DEF Fits
<1>3. Fits(script'[p], asked'[p], left'[p])
  BY <1>1, <1>2 DEF Fits
<1>4. /\ QspiTypes'
      /\ W!Inside(p) <=> W!Active(p) /\ asked[p].kind # "id" /\ script[p] \notin Openings
      /\ W!Inside(p)' <=> W!Active(p)' /\ asked'[p].kind # "id" /\ script'[p] \notin Openings
      /\ \A q \in Users \ {p} : (W!Active(q)' <=> W!Active(q)) /\ (W!Inside(q)' <=> W!Inside(q))
  BY <1>1, <1>3, OneMoves DEF QspiInv
<1>5. (script[p] \in Openings) <=> (script'[p] \in Openings)
  BY <1>2, EnterOrBody
<1>6. W!Active(p)' => (W!Inside(p)' <=> W!Inside(p)) /\ asked'[p].kind = asked[p].kind
  BY <1>4, <1>5
<1>7. ASSUME ~ lapse'
      PROVE  Busy'
  <2>1. Busy
    BY <1>7 DEF QspiInv
  <2> QED BY <1>1, <1>4, <1>6, <2>1, Stays
<1> QED BY <1>4, <1>7 DEF QspiInv

(* BUSY is set: the others have seen none, and there are no others.        *)
LEMMA QspiEnter ==
  ASSUME QspiInv, NEW p \in Users, W!Active(p), Head(script[p]) = "enter", W!Enter(p),
         asked' = asked
  PROVE  QspiInv'
<1>1. /\ DOMAIN script' = Users /\ script'[p] = Tail(script[p])
      /\ \A q \in Users \ {p} : script'[q] = script[q] /\ asked'[q] = asked[q] /\ left'[q] = left[q]
      /\ DOMAIN asked' = Users /\ DOMAIN left' = Users /\ left'[p] = left[p]
      /\ script[p] # <<>> /\ Fits(script[p], asked[p], left[p])
      /\ qspi_status' = {"BUSY"} /\ lapse' = lapse
  BY DEF QspiInv, QspiTypes, W!Enter, W!Pop, W!Active
<1>2. ~ Body(script[p])
  <2>1. "enter" \notin Inner
    BY DEF Inner
  <2> QED BY <1>1, <2>1, BodyTail
<1>3. script[p] \in Openings /\ asked[p].kind # "id" /\ Body(script'[p])
  BY <1>1, <1>2, OpeningFacts DEF Fits
<1>4. Fits(script'[p], asked'[p], left'[p])
  BY <1>1, <1>3 DEF Fits
<1>5. /\ QspiTypes'
      /\ W!Inside(p) <=> W!Active(p) /\ asked[p].kind # "id" /\ script[p] \notin Openings
      /\ \A q \in Users \ {p} : (W!Active(q)' <=> W!Active(q)) /\ (W!Inside(q)' <=> W!Inside(q))
  BY <1>1, <1>4, OneMoves DEF QspiInv
<1>6. ASSUME ~ lapse'
      PROVE  Busy'
  <2>1. Busy /\ ~ W!Inside(p)
    BY <1>1, <1>3, <1>5, <1>6 DEF QspiInv
  <2>2. ASSUME NEW q \in Users \ {p}, W!Active(q)
        PROVE  FALSE
    <3>1. asked[p].kind = "id" \/ Head(script[p]) = "clear"
      BY <2>1, <2>2 DEF Busy
    <3> QED BY <1>3, <3>1
  <2>3. \A q \in Users \ {p} : ~ W!Active(q)'
    BY <1>5, <2>2
  <2> QED BY <1>1, <2>3, OnlyOne
<1> QED BY <1>5, <1>6 DEF QspiInv

(* erasechip clears the status: with another one inside it is a lapse.     *)
LEMMA QspiClear ==
  ASSUME QspiInv, NEW p \in Users, W!Active(p), Head(script[p]) = "clear", W!Clear(p),
         asked' = asked
  PROVE  QspiInv'
<1>1. /\ DOMAIN script' = Users /\ script'[p] = Tail(script[p])
      /\ \A q \in Users \ {p} : script'[q] = script[q] /\ asked'[q] = asked[q] /\ left'[q] = left[q]
      /\ DOMAIN asked' = Users /\ DOMAIN left' = Users /\ left'[p] = left[p]
      /\ script[p] # <<>> /\ Fits(script[p], asked[p], left[p])
      /\ lapse' = (lapse \/ \E q \in W!Others(p) : W!Inside(q))
  BY DEF QspiInv, QspiTypes, W!Clear, W!Pop, W!Active
<1>2. ~ Body(script[p])
  <2>1. "clear" \notin Inner
    BY DEF Inner
  <2> QED BY <1>1, <2>1, BodyTail
<1>3. script[p] \in Openings /\ asked[p].kind # "id" /\ script'[p] \in Openings
  BY <1>1, <1>2, OpeningFacts DEF Fits
<1>4. Fits(script'[p], asked'[p], left'[p])
  BY <1>1, <1>3 DEF Fits
<1>5. /\ QspiTypes'
      /\ W!Inside(p) <=> W!Active(p) /\ asked[p].kind # "id" /\ script[p] \notin Openings
      /\ W!Inside(p)' <=> W!Active(p)' /\ asked'[p].kind # "id" /\ script'[p] \notin Openings
      /\ \A q \in Users \ {p} : (W!Active(q)' <=> W!Active(q)) /\ (W!Inside(q)' <=> W!Inside(q))
  BY <1>1, <1>4, OneMoves DEF QspiInv
<1>6. ASSUME ~ lapse'
      PROVE  Busy'
  <2>1. Busy /\ ~ W!Inside(p) /\ \A q \in W!Others(p) : ~ W!Inside(q)
    BY <1>1, <1>3, <1>5, <1>6 DEF QspiInv
  <2>2. ASSUME NEW q \in Users \ {p}, W!Active(q)
        PROVE  FALSE
    <3>1. W!Inside(q)
      BY <2>1, <2>2 DEF Busy
    <3> QED BY <2>1, <2>2, <3>1 DEF W!Others
  <2>3. \A q \in Users \ {p} : ~ W!Active(q)'
    BY <1>5, <2>2
  <2>4. ~ W!Inside(p)'
    BY <1>3, <1>5
  <2> QED BY <2>3, <2>4, OnlyOne
<1> QED BY <1>5, <1>6 DEF QspiInv

(* The next chunk, or the return of the call.                              *)
LEMMA QspiNextRound ==
  ASSUME QspiInv, NEW p \in Users, W!Active(p), Head(script[p]) = "next", W!NextRound(p)
  PROVE  QspiInv'
<1>1. /\ script[p] # <<>> /\ Fits(script[p], asked[p], left[p]) /\ lapse' = lapse
      /\ DOMAIN script = Users /\ DOMAIN asked = Users /\ DOMAIN left = Users
  BY DEF QspiInv, QspiTypes, W!NextRound, W!Active
<1>2. script[p] \notin Openings /\ Body(script[p])
  BY <1>1, OpeningFacts DEF Fits
<1>3. CASE left[p].len > 0
  <2>1. /\ DOMAIN script' = Users /\ script'[p] = W!Round(left[p])
        /\ \A q \in Users \ {p} : script'[q] = script[q] /\ asked'[q] = asked[q] /\ left'[q] = left[q]
        /\ asked' = asked /\ left' = left /\ qspi_status' = qspi_status
    BY <1>1, <1>3 DEF W!NextRound
  <2>2. left[p].kind \in {"read", "write", "erase", "block"}
    BY <1>1, <1>3 DEF Fits, QspiKinds
  <2>3. Body(script'[p])
    BY <2>1, <2>2, BodyRound
  <2>4. Fits(script'[p], asked'[p], left'[p])
    BY <1>1, <2>1, <2>3 DEF Fits
  <2>5. /\ QspiTypes'
        /\ W!Inside(p) <=> W!Active(p) /\ asked[p].kind # "id" /\ script[p] \notin Openings
        /\ W!Inside(p)' <=> W!Active(p)' /\ asked'[p].kind # "id" /\ script'[p] \notin Openings
        /\ \A q \in Users \ {p} : (W!Active(q)' <=> W!Active(q)) /\ (W!Inside(q)' <=> W!Inside(q))
    BY <1>1, <2>1, <2>4, OneMoves DEF QspiInv
  <2>6. script'[p] \notin Openings
    BY <2>3, EnterOrBody
  <2>7. W!Active(p)' => (W!Inside(p)' <=> W!Inside(p)) /\ asked'[p].kind = asked[p].kind
    BY <1>2, <2>1, <2>5, <2>6
  <2>8. ASSUME ~ lapse'
        PROVE  Busy'
    <3>1. Busy
      BY <1>1, <2>8 DEF QspiInv
    <3> QED BY <1>1, <2>1, <2>5, <2>7, <3>1, Stays
  <2> QED BY <2>5, <2>8 DEF QspiInv
<1>4. CASE ~ (left[p].len > 0)
  <2>1. /\ DOMAIN script' = Users /\ DOMAIN asked' = Users /\ DOMAIN left' = Users
        /\ \A q \in Users \ {p} : script'[q] = script[q] /\ asked'[q] = asked[q] /\ left'[q] = left[q]
        /\ script'[p] = <<>> /\ left'[p] = W!Idle
        /\ qspi_status' = IF asked[p].kind = "id" THEN qspi_status ELSE qspi_status \ {"BUSY"}
    BY <1>1, <1>4 DEF W!NextRound, W!Return
  <2>2. Fits(script'[p], asked'[p], left'[p])
    BY <2>1, BodyParts DEF Fits, W!Idle
  <2>3. /\ QspiTypes'
        /\ W!Inside(p) <=> W!Active(p) /\ asked[p].kind # "id" /\ script[p] \notin Openings
        /\ W!Inside(p)' => W!Active(p)'
        /\ \A q \in Users \ {p} : (W!Active(q)' <=> W!Active(q)) /\ (W!Inside(q)' <=> W!Inside(q))
    BY <2>1, <2>2, OneMoves DEF QspiInv
  <2>4. ~ W!Active(p)'
    BY <2>1 DEF W!Active
  <2>5. "BUSY" \in qspi_status => "BUSY" \in qspi_status' \/ (W!Inside(p) /\ ~ W!Active(p)')
    BY <1>2, <2>1, <2>3, <2>4
  <2>6. ASSUME ~ lapse'
        PROVE  Busy'
    <3>1. Busy
      BY <1>1, <2>6 DEF QspiInv
    <3> QED BY <2>1, <2>3, <2>4, <2>5, <3>1, Stays
  <2> QED BY <2>3, <2>6 DEF QspiInv
<1> QED BY <1>3, <1>4

(* Advance leaves the kind of a request, and a length that is used up.     *)
LEMMA QspiAdvance ==
  ASSUME QspiTypes, NEW p \in Users, W!Active(p), W!Advance(p)
  PROVE  /\ DOMAIN left' = Users /\ \A q \in Users \ {p} : left'[q] = left[q]
         /\ DOMAIN left'[p] = {"kind", "addr", "len"} /\ left'[p].kind = left[p].kind
         /\ left[p].kind \in {"chip", "id"} /\ left[p].len = 0 => left'[p].len = 0
<1>1. DOMAIN left = Users /\ DOMAIN left[p] = {"kind", "addr", "len"}
  BY DEF QspiTypes, Fits
<1> DEFINE n == W!Size(left[p])
<1>2. left' = [left EXCEPT ![p] = [left[p] EXCEPT !.addr = left[p].addr + n,
                 !.len = IF left[p].len > n THEN left[p].len - n ELSE 0]]
  BY DEF W!Advance
<1>3. left[p].kind \in {"chip", "id"} => n = 1
  BY DEF W!Size
<1> HIDE DEF n
<1>4. /\ DOMAIN left' = Users /\ \A q \in Users \ {p} : left'[q] = left[q]
      /\ DOMAIN left'[p] = {"kind", "addr", "len"} /\ left'[p].kind = left[p].kind
      /\ left'[p].len = IF left[p].len > n THEN left[p].len - n ELSE 0
  BY <1>1, <1>2
<1> QED BY <1>3, <1>4

(* A step of a call.                                                       *)
LEMMA QspiWord ==
  ASSUME QspiInv, NEW p \in Users, W!Step(p)
  PROVE  QspiInv'
<1>1. W!Active(p) /\ QspiTypes
  BY DEF W!Step, QspiInv
<1>2. /\ DOMAIN left = Users /\ DOMAIN left[p] = {"kind", "addr", "len"}
  BY <1>1 DEF QspiTypes, Fits
<1>3. CASE Head(script[p]) = "next" /\ W!NextRound(p)
  BY <1>1, <1>3, QspiNextRound
<1>4. CASE W!GiveUp(p)
  BY <1>4, QspiGiveUp
<1>5. CASE Head(script[p]) = "enter" /\ W!Enter(p) /\ asked' = asked
  BY <1>1, <1>5, QspiEnter
<1>6. CASE Head(script[p]) = "clear" /\ W!Clear(p) /\ asked' = asked
  BY <1>1, <1>6, QspiClear
<1>7. CASE Head(script[p]) = "wait" /\ W!Wait(p) /\ asked' = asked
  BY <1>1, <1>2, <1>7, QspiPop DEF W!Wait
<1>8. CASE Head(script[p]) = "wait" /\ W!WaitError(p) /\ asked' = asked
  BY <1>1, <1>8 DEF W!WaitError, QspiInv, QspiTypes
<1>9. CASE Head(script[p]) \in {"RX", "TX"} /\ W!WaitFlag(p, Head(script[p])) /\ asked' = asked
  BY <1>1, <1>2, <1>9, QspiPop DEF W!WaitFlag
<1>10. CASE Head(script[p]) \in {"we", "wd"} /\ W!SetWel(p, Head(script[p]) = "we") /\ asked' = asked
  BY <1>1, <1>2, <1>10, QspiPop DEF W!SetWel
<1>11. CASE Head(script[p]) = "erase" /\ W!Erase(p) /\ asked' = asked
  <2>1. W!Pop(p) /\ W!Advance(p) /\ lapse' = lapse /\ qspi_status' = qspi_status
    BY <1>11 DEF W!Erase
  <2> QED BY <1>1, <1>11, <2>1, QspiAdvance, QspiPop
<1>12. CASE Head(script[p]) \in {"rx", "tx"} /\ W!Start(p, Head(script[p])) /\ asked' = asked
  <2>1. W!Pop(p) /\ W!Advance(p) /\ lapse' = lapse /\ qspi_status' = qspi_status
    BY <1>12 DEF W!Start
  <2> QED BY <1>1, <1>12, <2>1, QspiAdvance, QspiPop
<1> QED BY <1>3, <1>4, <1>5, <1>6, <1>7, <1>8, <1>9, <1>10, <1>11, <1>12 DEF W!Step

(* Whatever the step, BUSY is set while a process is inside.               *)
LEMMA QspiStep ==
  ASSUME QspiInv, [Next]_vars
  PROVE  QspiInv'
<1>1. W!Next \/ UNCHANGED w25q
  BY DEF Next, vars
<1>2. ASSUME NEW p \in Users, NEW r \in Requests[p], W!Call(p, r)
      PROVE  QspiInv'
  BY <1>2, W25qAssumption, QspiCall
<1>3. ASSUME NEW p \in Users, W!Timeout(p)
      PROVE  QspiInv'
  BY <1>3, QspiGiveUp DEF W!Timeout
<1>4. ASSUME /\ UNCHANGED <<script, left, asked, lapse>>
             /\ "BUSY" \in qspi_status => "BUSY" \in qspi_status'
      PROVE  QspiInv'
  <2>1. QspiTypes'
    BY <1>4 DEF QspiInv, QspiTypes
  <2>2. \A p \in Users : (W!Active(p)' <=> W!Active(p)) /\ (W!Inside(p)' <=> W!Inside(p))
    BY <1>4 DEF W!Active, W!Inside
  <2>3. Busy => Busy'
    BY <1>4, <2>2 DEF Busy
  <2> QED BY <1>4, <2>1, <2>3 DEF QspiInv
<1>5. CASE W!Complete
  <2>1. UNCHANGED <<script, left, asked, lapse>> /\ ("BUSY" \in qspi_status => "BUSY" \in qspi_status')
    BY <1>5 DEF W!Complete
  <2> QED BY <1>4, <2>1
<1>6. CASE W!ChipDone
  BY <1>4, <1>6 DEF W!ChipDone
<1>7. CASE UNCHANGED w25q
  BY <1>4, <1>7 DEF w25q
<1> QED BY <1>1, <1>2, <1>3, <1>5, <1>6, <1>7, QspiWord DEF W!Next

(* Two processes are not inside the driver at once as long as none of the  *)
(* named lapses occurred: two that tested BUSY before one of them set it,  *)
(* a status read that failed, erasechip clearing the status, and a call    *)
(* that gave up beside another.                                            *)
THEOREM OneInside == Spec => []Exclusive
<1>1. Init => QspiInv
  BY QspiInit DEF Init
<1>2. QspiInv /\ [Next]_vars => QspiInv'
  BY QspiStep
<1>3. QspiInv => Exclusive
  BY DEF QspiInv, Busy, Exclusive, W!Exclusive
<1> QED BY <1>1, <1>2, <1>3, PTL DEF Spec
-----------------------------------------------------------------------------
(* The flash updater.                                                    *)

(* A write of an image that fits has blanked the sectors it has come to    *)
(* and then programs the words of the image one after another.             *)
UpdaterInv ==
  /\ made \in Nat /\ DOMAIN flash = F!Words
  /\ flash_pc \in {"out", "erase", "program", "lock"}
  /\ flash_pc # "out" => call \in Images
  /\ flash_pc # "out" /\ call.op = "write" /\ F!Fits(call) =>
       /\ flash_pc = "erase" =>
            /\ i \in 0 .. F!Count(call.size)
            /\ \A k \in 0 .. i - 1 : \A a \in F!OfSector(F!Erases(call, k)) : flash[a] = F!Blank
       /\ flash_pc = "program" =>
            /\ i \in 0 .. call.size
            /\ \A a \in F!Image(call) : flash[a] = IF a < call.at + i THEN made ELSE F!Blank
       /\ flash_pc = "lock" => \A a \in F!Image(call) : flash[a] = made

(* Division by the words of a sector or the sectors of a bank.             *)
LEMMA Division ==
  ASSUME NEW n \in Nat, NEW d \in Nat \ {0}
  PROVE  /\ n \div d \in Nat /\ d * (n \div d) <= n /\ n < d * (n \div d) + d
         /\ n % d \in 0 .. d - 1 /\ n = d * (n \div d) + (n % d)
OBVIOUS

(* A quotient and a remainder are those of the division.                   *)
LEMMA DivisionUnique ==
  ASSUME NEW n \in Nat, NEW d \in Nat \ {0}, NEW q \in Int, NEW r \in 0 .. d - 1, n = q * d + r
  PROVE  n \div d = q /\ n % d = r
OBVIOUS

(* The sectors a call erases hold the image, if it fits.                   *)
LEMMA ErasesImage ==
  ASSUME UpdaterAssumption, NEW c \in Images, F!Fits(c), NEW a \in F!Image(c)
  PROVE  a \in F!Words /\ \E k \in 0 .. F!Count(c.size) - 1 : a \in F!OfSector(F!Erases(c, k))
<1> DEFINE last == c.at + c.size - 1
           s == F!Sector(c.at)
           b == F!Bank(c.at)
           k == F!Sector(a) - s
<1> USE UpdaterAssumption DEF UpdaterAssumption
<1>1. /\ c.at \in F!Words /\ c.size \in Nat /\ c.size > 0 /\ c.at \in Nat
      /\ a \in Nat /\ last \in Nat /\ c.at <= a /\ a <= last
  BY DEF F!Image, F!Words
<1>2. /\ s \in Nat /\ F!Sector(a) \in Nat /\ F!Sector(last) \in Nat
      /\ s <= F!Sector(a) /\ F!Sector(a) <= F!Sector(last)
  <2>1. ASSUME NEW x \in Nat, NEW y \in Nat, x <= y
        PROVE  F!Sector(x) \in Nat /\ F!Sector(x) <= F!Sector(y)
    <3>1. /\ x \div SectorWords \in Nat /\ SectorWords * (x \div SectorWords) <= x
          /\ y \div SectorWords \in Nat /\ y < SectorWords * (y \div SectorWords) + SectorWords
      BY Division
    <3>2. SectorWords * (x \div SectorWords) < SectorWords * ((y \div SectorWords) + 1)
      BY <2>1, <3>1
    <3>3. x \div SectorWords < (y \div SectorWords) + 1
      BY <3>1, <3>2
    <3> QED BY <3>1, <3>3 DEF F!Sector
  <2> QED BY <1>1, <2>1
<1>3. k \in Nat /\ k <= F!Sector(last) - s
  BY <1>2
<1>4. k \in 0 .. F!Count(c.size) - 1
  <2>1. CASE F!Sector(last) - s + 1 = 1
    <3>1. k = 0
      BY <1>2, <1>3, <2>1
    <3>2. F!Count(c.size) \in Nat /\ F!Count(c.size) >= 1
      <4>1. c.size >= SectorWords => c.size \div SectorWords \in Nat /\ c.size \div SectorWords >= 1
        <5>1. c.size \div SectorWords \in Nat /\ c.size < SectorWords * (c.size \div SectorWords) + SectorWords
          BY <1>1, Division
        <5> QED BY <1>1, <5>1
      <4> QED BY <1>1, <4>1 DEF F!Count
    <3> QED BY <3>1, <3>2
  <2>2. CASE F!Sector(last) - s + 1 # 1
    <3>1. (F!Sector(last) - s + 1) * SectorWords <= c.size
      BY <2>2 DEF F!Fits
    <3>2. /\ c.size \div SectorWords \in Nat
          /\ c.size < SectorWords * ((c.size \div SectorWords) + 1)
      <4>1. /\ c.size \div SectorWords \in Nat
            /\ c.size < SectorWords * (c.size \div SectorWords) + SectorWords
        BY <1>1, Division
      <4> QED BY <4>1
    <3>3. F!Sector(last) - s + 1 < (c.size \div SectorWords) + 1
      <4> DEFINE m == F!Sector(last) - s + 1
                 n == (c.size \div SectorWords) + 1
      <4>1. m \in Nat /\ n \in Nat /\ SectorWords * m < SectorWords * n
        BY <1>1, <1>2, <3>1, <3>2
      <4> HIDE DEF m, n
      <4>2. m < n
        BY <4>1
      <4> QED BY <4>2 DEF m, n
    <3>4. c.size >= SectorWords
      <4> DEFINE m == F!Sector(last) - s + 1
      <4>1. m \in Nat /\ m >= 1 /\ m * SectorWords <= c.size
        BY <1>2, <3>1
      <4> HIDE DEF m
      <4>2. SectorWords <= m * SectorWords
        BY <4>1
      <4> QED BY <1>1, <4>1, <4>2
    <3>5. F!Count(c.size) = c.size \div SectorWords
      BY <1>1, <3>4 DEF F!Count
    <3> QED BY <1>2, <1>3, <3>2, <3>3, <3>5
  <2> QED BY <2>1, <2>2
<1>5. F!Sector(c.at + k * SectorWords) = F!Sector(a)
  <2>1. c.at = s * SectorWords + (c.at % SectorWords) /\ c.at % SectorWords \in 0 .. SectorWords - 1
    <3>1. c.at = SectorWords * (c.at \div SectorWords) + (c.at % SectorWords) /\ c.at % SectorWords \in 0 .. SectorWords - 1
      BY <1>1, Division
    <3> QED BY <1>1, <1>2, <3>1 DEF F!Sector
  <2>2. c.at + k * SectorWords = (s + k) * SectorWords + (c.at % SectorWords)
    BY <1>1, <1>2, <1>3, <2>1
  <2>3. c.at + k * SectorWords \in Nat /\ s + k \in Int
    BY <1>1, <1>2, <1>3
  <2>4. (c.at + k * SectorWords) \div SectorWords = s + k
    BY <2>1, <2>2, <2>3, DivisionUnique
  <2> QED BY <1>2, <2>4 DEF F!Sector
<1>6. F!Bank(a) = b /\ b \in Nat
  <2>1. ASSUME NEW x \in Nat, NEW y \in Nat, x <= y
        PROVE  x \div BankSectors \in Nat /\ x \div BankSectors <= y \div BankSectors
    <3>1. /\ x \div BankSectors \in Nat /\ BankSectors * (x \div BankSectors) <= x
          /\ y \div BankSectors \in Nat /\ y < BankSectors * (y \div BankSectors) + BankSectors
      BY Division
    <3>2. BankSectors * (x \div BankSectors) < BankSectors * ((y \div BankSectors) + 1)
      BY <2>1, <3>1
    <3>3. x \div BankSectors < (y \div BankSectors) + 1
      BY <3>1, <3>2
    <3> QED BY <3>1, <3>3
  <2>2. /\ F!Bank(c.at) \in Nat /\ F!Bank(a) \in Nat
        /\ F!Bank(c.at) <= F!Bank(a) /\ F!Bank(a) <= F!Bank(last)
    BY <1>2, <2>1 DEF F!Bank
  <2>3. F!Bank(last) \in Nat /\ F!Bank(last) = b
    BY <1>1, <1>2, <2>1 DEF F!Bank, F!Fits, F!InOneBank
  <2> QED BY <2>2, <2>3
<1>7. F!Erases(c, k) = F!Sector(a)
  <2>1. F!Sector(a) = BankSectors * b + (F!Sector(a) % BankSectors)
    <3>1. F!Sector(a) = BankSectors * (F!Sector(a) \div BankSectors) + (F!Sector(a) % BankSectors)
      BY <1>2, Division
    <3> QED BY <1>6, <3>1 DEF F!Bank
  <2>2. F!Erases(c, k) = b * BankSectors + (F!Sector(a) % BankSectors)
    BY <1>5 DEF F!Erases
  <2> QED BY <1>6, <2>1, <2>2
<1>8. a \in F!Words
  <2> DEFINE n == 2 * BankSectors * SectorWords
  <2>1. b < 2
    <3>1. c.at < 2 * BankSectors * SectorWords
      BY <1>1 DEF F!Words
    <3>2. SectorWords * s <= c.at
      BY <1>1, Division DEF F!Sector
    <3>3. SectorWords * s < SectorWords * (2 * BankSectors) /\ 2 * BankSectors \in Nat
      BY <1>1, <1>2, <3>1, <3>2
    <3>4. s < 2 * BankSectors
      BY <1>2, <3>3
    <3>5. BankSectors * b <= s
      BY <1>2, Division DEF F!Bank
    <3>6. BankSectors * b < BankSectors * 2
      BY <1>2, <1>6, <3>4, <3>5
    <3> QED BY <1>6, <3>6
  <2>2. F!Sector(a) < 2 * BankSectors
    <3>1. F!Sector(a) < BankSectors * b + BankSectors
      BY <1>2, <1>6, Division DEF F!Bank
    <3>2. b = 0 \/ b = 1
      BY <1>6, <2>1
    <3> QED BY <1>2, <3>1, <3>2
  <2>3. a < SectorWords * F!Sector(a) + SectorWords
    BY <1>1, Division DEF F!Sector
  <2>4. F!Sector(a) + 1 <= 2 * BankSectors
    BY <1>2, <2>2
  <2>5. SectorWords * (F!Sector(a) + 1) <= SectorWords * (2 * BankSectors)
    <3> DEFINE x == F!Sector(a) + 1
               y == 2 * BankSectors
    <3>1. x \in Nat /\ y \in Nat /\ x <= y
      BY <1>2, <2>4
    <3> HIDE DEF x, y
    <3>2. SectorWords * x <= SectorWords * y
      BY <3>1
    <3> QED BY <3>2 DEF x, y
  <2>6. a < SectorWords * (2 * BankSectors)
    BY <1>1, <1>2, <2>3, <2>5
  <2>7. SectorWords * (2 * BankSectors) = n
    OBVIOUS
  <2> QED BY <1>1, <2>6, <2>7 DEF F!Words
<1> QED BY <1>4, <1>7, <1>8 DEF F!OfSector

(* A call erases a natural number of sectors.                              *)
LEMMA CountNat ==
  ASSUME UpdaterAssumption, NEW n \in Nat
  PROVE  F!Count(n) \in Nat
BY Division DEF F!Count, UpdaterAssumption

(* The updater starts outside of a call.                                   *)
LEMMA UpdaterInit == Init => UpdaterInv
  BY DEF Init, F!Init, UpdaterInv

(* Every step, an error and a power failure included, keeps it.            *)
LEMMA UpdaterStep ==
  ASSUME UpdaterAssumption, UpdaterInv, [Next]_vars
  PROVE  UpdaterInv'
<1>1. F!Next \/ UNCHANGED updater
  BY DEF Next, vars
<1>2. ASSUME NEW c \in Images, F!Call(c)
      PROVE  UpdaterInv'
  <2>1. /\ made' \in Nat /\ DOMAIN flash' = F!Words /\ flash_pc' = "erase" /\ call' \in Images
        /\ i' = 0 /\ call'.size \in Nat
    BY <1>2 DEF F!Call, UpdaterInv, UpdaterAssumption
  <2>2. F!Count(call'.size) \in Nat
    BY <2>1, CountNat
  <2> QED BY <2>1, <2>2 DEF UpdaterInv
<1>3. CASE F!Erase
  <2>1. /\ flash_pc = "erase" /\ i < F!Count(call.size) /\ i' = i + 1 /\ call \in Images
        /\ flash' = [a \in F!Words |-> IF a \in F!OfSector(F!Erases(call, i)) THEN F!Blank ELSE flash[a]]
        /\ UNCHANGED <<flash_pc, call, made>>
    BY <1>3 DEF F!Erase, UpdaterInv
  <2>2. ASSUME call.op = "write", F!Fits(call)
        PROVE  /\ i' \in 0 .. F!Count(call.size)
               /\ \A k \in 0 .. i' - 1 : \A a \in F!OfSector(F!Erases(call, k)) : flash'[a] = F!Blank
    <3>1. /\ i \in 0 .. F!Count(call.size)
          /\ \A k \in 0 .. i - 1 : \A a \in F!OfSector(F!Erases(call, k)) : flash[a] = F!Blank
      BY <2>1, <2>2 DEF UpdaterInv
    <3>2. F!Count(call.size) \in Nat
      BY <2>1, CountNat DEF UpdaterAssumption
    <3>3. ASSUME NEW k \in 0 .. i' - 1, NEW a \in F!OfSector(F!Erases(call, k))
          PROVE  flash'[a] = F!Blank
      <4>1. a \in F!Words
        BY DEF F!OfSector
      <4>2. k = i \/ k \in 0 .. i - 1
        BY <2>1, <3>1, <3>2
      <4> QED BY <2>1, <3>1, <4>1, <4>2
    <3> QED BY <2>1, <3>1, <3>2, <3>3
  <2> QED BY <2>1, <2>2 DEF UpdaterInv
<1>4. CASE F!Erased
  <2>1. /\ flash_pc = "erase" /\ i = F!Count(call.size) /\ i' = 0 /\ call \in Images
        /\ flash_pc' = (IF call.op = "write" THEN "program" ELSE "lock")
        /\ UNCHANGED <<flash, call, made>>
    BY <1>4 DEF F!Erased, UpdaterInv
  <2>2. ASSUME call.op = "write", F!Fits(call)
        PROVE  \A a \in F!Image(call) : ~ a < call.at /\ flash[a] = F!Blank
    <3>1. call.at \in Int /\ call.size \in Nat
      BY <2>1 DEF UpdaterAssumption, F!Words
    <3>2. ASSUME NEW a \in F!Image(call)
          PROVE  ~ a < call.at /\ flash[a] = F!Blank
      <4>1. \E k \in 0 .. i - 1 : a \in F!OfSector(F!Erases(call, k))
        BY <2>1, <2>2, ErasesImage
      <4>2. flash[a] = F!Blank
        BY <2>1, <2>2, <4>1 DEF UpdaterInv
      <4> QED BY <3>1, <4>2 DEF F!Image
    <3> QED BY <3>2
  <2>3. call.size \in Nat /\ call.at \in Int
    BY <2>1 DEF UpdaterAssumption, F!Words
  <2>4. call.at + 0 = call.at /\ 0 \in 0 .. call.size
    BY <2>3
  <2> QED BY <2>1, <2>2, <2>4 DEF UpdaterInv
<1>5. CASE F!Program
  <2>1. /\ flash_pc = "program" /\ i < call.size /\ i' = i + 1 /\ call \in Images
        /\ flash' = [flash EXCEPT ![call.at + i] = IF @ = F!Blank THEN made ELSE F!Mixed]
        /\ UNCHANGED <<flash_pc, call, made>> /\ DOMAIN flash = F!Words
    BY <1>5 DEF F!Program, UpdaterInv
  <2>2. ASSUME call.op = "write", F!Fits(call)
        PROVE  /\ i' \in 0 .. call.size
               /\ \A a \in F!Image(call) : flash'[a] = IF a < call.at + i' THEN made ELSE F!Blank
    <3>1. /\ i \in 0 .. call.size
          /\ \A a \in F!Image(call) : flash[a] = IF a < call.at + i THEN made ELSE F!Blank
      BY <2>1, <2>2 DEF UpdaterInv
    <3>2. call.at \in Int /\ call.size \in Nat
      BY <2>1 DEF UpdaterAssumption, F!Words
    <3>3. ASSUME NEW a \in F!Image(call)
          PROVE  flash'[a] = IF a < call.at + i' THEN made ELSE F!Blank
      <4>1. a \in DOMAIN flash /\ a \in Int
        BY <2>1, <2>2, <3>2, ErasesImage DEF F!Image
      <4>2. CASE a = call.at + i
        <5>1. flash[a] = F!Blank /\ a < call.at + i'
          BY <2>1, <3>1, <3>2, <4>1, <4>2
        <5> QED BY <2>1, <4>1, <4>2, <5>1
      <4>3. CASE a # call.at + i
        <5>1. flash'[a] = flash[a] /\ (a < call.at + i' <=> a < call.at + i)
          BY <2>1, <3>1, <3>2, <4>1, <4>3
        <5> QED BY <3>1, <5>1
      <4> QED BY <4>2, <4>3
    <3> QED BY <2>1, <3>1, <3>2, <3>3
  <2>3. DOMAIN flash' = F!Words
    BY <2>1
  <2> QED BY <2>1, <2>2, <2>3 DEF UpdaterInv
<1>6. CASE F!Programmed
  <2>1. /\ flash_pc = "program" /\ i = call.size /\ call \in Images /\ flash_pc' = "lock"
        /\ UNCHANGED <<flash, call, made>>
    BY <1>6 DEF F!Programmed, UpdaterInv
  <2>2. ASSUME call.op = "write", F!Fits(call)
        PROVE  \A a \in F!Image(call) : flash[a] = made
    <3>1. \A a \in F!Image(call) : flash[a] = IF a < call.at + i THEN made ELSE F!Blank
      BY <2>1, <2>2 DEF UpdaterInv
    <3>2. \A a \in F!Image(call) : a < call.at + i
      BY <2>1 DEF F!Image, UpdaterAssumption, F!Words
    <3> QED BY <3>1, <3>2
  <2> QED BY <2>1, <2>2 DEF UpdaterInv
<1>7. CASE F!Return0 \/ F!Return1
  <2>1. DOMAIN flash' = F!Words
    BY <1>7 DEF F!Return0, F!Return1, F!Halfway, UpdaterInv
  <2>2. flash_pc' = "out" /\ UNCHANGED made
    BY <1>7 DEF F!Return0, F!Return1
  <2> QED BY <2>1, <2>2 DEF UpdaterInv
<1>8. CASE F!PowerFails
  <2>1. flash_pc' = "out" /\ UNCHANGED made /\ DOMAIN flash' = F!Words
    BY <1>8 DEF F!PowerFails, F!Halfway
  <2> QED BY <2>1 DEF UpdaterInv
<1>9. CASE UNCHANGED updater
  BY <1>9 DEF updater, UpdaterInv
<1> QED BY <1>1, <1>2, <1>3, <1>4, <1>5, <1>6, <1>7, <1>8, <1>9 DEF F!Next, F!Step

(* A write that returns 0 has programmed its image, for every geometry of  *)
(* the flash and every image that fits, after whatever errors of the flash *)
(* and resets.                                                             *)
THEOREM WritesImage == Spec => Written
<1>1. UpdaterInv => [flash_pc = "lock" /\ flash_pc' = "out" /\ lock' /\ faults' = faults
                       /\ call.op = "write" /\ F!Fits(call)
                       => \A a \in F!Image(call) : flash[a] = made]_(F!vars)
  BY DEF UpdaterInv
<1>2. UpdaterInv /\ [Next]_vars => UpdaterInv'
  BY UpdaterAssumption, UpdaterStep
<1> QED BY <1>1, <1>2, UpdaterInit, PTL DEF Spec, Written, F!Written
-----------------------------------------------------------------------------
(* The lists of drivers.                                                   *)

(* The statements of a registration before the driver is linked.           *)
Searching == {"head", "first", "walk", "link"}

ListTypes ==
  /\ list_pc \in [Drivers -> Searching \cup {"out", "end", "slot", "function", "param"}]
  /\ registered \in [Drivers -> Nat] /\ overlapped \subseteq Drivers
  /\ uart_drv_ptr \in Drivers \cup {0} /\ next_uart \in [Drivers -> Drivers \cup {0}]
  /\ callback \in [R!Slots -> BOOLEAN] /\ param \in [R!Slots -> Drivers \cup {0}]
  /\ DOMAIN at = Drivers
  /\ \A d \in Drivers : /\ list_pc[d] \in {"walk", "link"} => at[d] \in Drivers
                        /\ list_pc[d] \in {"function", "param"} => at[d] \in R!Slots
                        /\ list_pc[d] # "out" => registered[d] > 0

(* A driver that was never linked, to which nothing points.                *)
Fresh(d) == registered[d] = 0 \/ (registered[d] = 1 /\ list_pc[d] \in Searching)
Apart(d) ==
  /\ next_uart[d] = 0 /\ uart_drv_ptr # d
  /\ \A e \in Drivers : next_uart[e] # d /\ (list_pc[e] \in {"walk", "link"} => at[e] # d)

(* A cycle of the list runs through a driver registered again, whose       *)
(* pointer is about to be cleared.                                         *)
Cyclic(L) == L # {} /\ \A d \in L : next_uart[d] \in L
Broken == \A L \in SUBSET Drivers : Cyclic(L) => \E d \in L : list_pc[d] = "end" /\ registered[d] > 1

(* A driver that was not overlapped registers alone.                       *)
Alone == \A d \in Drivers : d \notin overlapped /\ list_pc[d] # "out" =>
           \A e \in Drivers \ {d} : list_pc[e] = "out"

(* The drivers whose pointer is about to be stored, and those the list     *)
(* comes to before it leaves one of these. If no driver is registered      *)
(* twice, the drivers registered alone are among them, and the search of   *)
(* a registration alone; none is there yet when the head is about to be    *)
(* stored.                                                                 *)
Pending == {e \in Drivers : \/ list_pc[e] = "end"
                            \/ \E d \in Drivers : list_pc[d] = "link" /\ at[d] = e}
Leads(L) == /\ uart_drv_ptr \in L \cup {0}
            /\ \A e \in L \ Pending : next_uart[e] \in L \cup {0}
Held == {d \in Drivers : \A L \in SUBSET Drivers : Leads(L) => d \in L}
Solid(d) == R!Once(d) /\ list_pc[d] \notin Searching
NotTwice == \A d \in Drivers : registered[d] <= 1
Reached ==
  \A d \in Drivers :
    /\ Solid(d) => d \in Held
    /\ R!Once(d) /\ list_pc[d] \in {"walk", "link"} => at[d] \in Held
    /\ list_pc[d] = "first" => \A e \in Drivers : ~ Solid(e)

(* The slot of a driver that was registered once and alone is its own.     *)
Holds(d, k) ==
  /\ callback[k] /\ param[k] = d
  /\ \A j \in R!Slots : param[j] = d => j = k
  /\ \A e \in Drivers : list_pc[e] \in {"function", "param"} => at[e] # k
Slotted ==
  \A d \in Drivers :
    /\ list_pc[d] = "param" => callback[at[d]]
    /\ registered[d] = 0 \/ (registered[d] = 1 /\ list_pc[d] # "out") => \A k \in R!Slots : param[k] # d
    /\ R!Once(d) /\ list_pc[d] = "out" /\ d \notin full => \E k \in R!Slots : Holds(d, k)

ListInv ==
  /\ ListTypes /\ \A d \in Drivers : Fresh(d) => Apart(d)
  /\ Broken /\ Alone /\ (NotTwice => Reached) /\ Slotted

(* The lists start empty.                                                  *)
LEMMA ListInit == Init => ListInv
<1> SUFFICES ASSUME R!Init PROVE ListInv
  BY DEF Init
<1> USE DEF R!Init, R!NULL
<1>1. ListTypes
  BY DEF ListTypes, Searching
<1>2. \A d \in Drivers : Apart(d)
  BY ListAssumption DEF R!NULL, Apart
<1>3. Broken
  BY ListAssumption DEF R!NULL, Broken, Cyclic
<1>4. Alone
  BY DEF Alone
<1>5. Reached
  BY DEF Reached, Solid, R!Once
<1>6. Slotted
  BY ListAssumption DEF R!NULL, Slotted, R!Once
<1> QED BY <1>1, <1>2, <1>3, <1>4, <1>5, <1>6 DEF ListInv

(* A process takes a step, or none does.                                   *)
LEMMA ListStep ==
  ASSUME [Next]_vars
  PROVE  (\E d \in Drivers : R!Begin(d) \/ R!Step(d)) \/ UNCHANGED registration
BY DEF Next, vars, R!Next

(* What a statement leaves to the other processes.                         *)
LEMMA OneRegisters ==
  ASSUME ListTypes, NEW d \in Drivers, R!Begin(d) \/ R!Step(d)
  PROVE  /\ \A e \in Drivers \ {d} :
              list_pc'[e] = list_pc[e] /\ registered'[e] = registered[e] /\ at'[e] = at[e]
         /\ R!Step(d) => registered' = registered /\ overlapped' = overlapped /\ list_pc[d] # "out"
         /\ registered[d] <= registered'[d] /\ overlapped \subseteq overlapped'
<1> USE DEF ListTypes, R!Go, R!list, R!array
<1>1. CASE R!Begin(d)
  BY <1>1 DEF R!Begin, R!Step, R!Head, R!First, R!Walk, R!Link, R!End, R!Slot, R!Function, R!StoreParam
<1>2. CASE R!Head(d)
  BY <1>2 DEF R!Head
<1>3. CASE R!First(d)
  BY <1>3 DEF R!First
<1>4. CASE R!Walk(d)
  BY <1>4 DEF R!Walk
<1>5. CASE R!Link(d)
  BY <1>5 DEF R!Link
<1>6. CASE R!End(d)
  BY <1>6 DEF R!End
<1>7. CASE R!Slot(d)
  BY <1>7 DEF R!Slot
<1>8. CASE R!Function(d)
  BY <1>8 DEF R!Function
<1>9. CASE R!StoreParam(d)
  BY <1>9 DEF R!StoreParam
<1> QED BY <1>1, <1>2, <1>3, <1>4, <1>5, <1>6, <1>7, <1>8, <1>9 DEF R!Step

(* A registration keeps its variables in their sets, ...                   *)
LEMMA ListTypesStep ==
  ASSUME ListTypes, NEW d \in Drivers, R!Begin(d) \/ R!Step(d)
  PROVE  ListTypes'
<1> USE DEF ListTypes, Searching, R!Go, R!list, R!array, R!NULL
<1>1. CASE R!Begin(d)
  BY <1>1 DEF R!Begin
<1>2. CASE R!Head(d)
  BY <1>2 DEF R!Head
<1>3. CASE R!First(d)
  BY <1>3 DEF R!First
<1>4. CASE R!Walk(d)
  BY <1>4 DEF R!Walk
<1>5. CASE R!Link(d)
  BY <1>5 DEF R!Link, R!Linked
<1>6. CASE R!End(d)
  BY <1>6 DEF R!End
<1>7. CASE R!Slot(d)
  BY <1>7 DEF R!Slot, R!Free
<1>8. CASE R!Function(d)
  BY <1>8 DEF R!Function
<1>9. CASE R!StoreParam(d)
  BY <1>9 DEF R!StoreParam
<1> QED BY <1>1, <1>2, <1>3, <1>4, <1>5, <1>6, <1>7, <1>8, <1>9 DEF R!Step

(* ... and is alone, or overlapped.                                        *)
LEMMA AloneStep ==
  ASSUME ListTypes, Alone, NEW d \in Drivers, R!Begin(d) \/ R!Step(d)
  PROVE  Alone'
<1>1. \A e \in Drivers \ {d} : list_pc'[e] = list_pc[e]
  BY OneRegisters
<1>2. CASE R!Begin(d)
  <2> DEFINE others == {e \in Drivers : list_pc[e] # "out"}
  <2>1. overlapped' = overlapped \cup others \cup (IF others = {} THEN {} ELSE {d})
    BY <1>2 DEF R!Begin
  <2>2. ASSUME NEW e \in Drivers, e \notin overlapped', list_pc'[e] # "out", NEW f \in Drivers \ {e}
        PROVE  list_pc'[f] = "out"
    <3>1. CASE e = d
      <4>1. others = {}
        BY <2>1, <2>2, <3>1
      <4> QED BY <1>1, <3>1, <4>1
    <3>2. CASE e # d
      BY <1>1, <2>1, <2>2, <3>2
    <3> QED BY <3>1, <3>2
  <2> QED BY <2>2 DEF Alone
<1>3. CASE R!Step(d)
  <2>1. overlapped' = overlapped /\ list_pc[d] # "out"
    BY <1>3, OneRegisters
  <2> QED BY <1>1, <2>1 DEF Alone
<1> QED BY <1>2, <1>3

(* No process finds a driver that is not linked.                           *)
LEMMA ApartStep ==
  ASSUME ListTypes, \A d \in Drivers : Fresh(d) => Apart(d),
         NEW d \in Drivers, R!Begin(d) \/ R!Step(d)
  PROVE  \A e \in Drivers : Fresh(e)' => Apart(e)'
<1> SUFFICES ASSUME NEW e \in Drivers, Fresh(e)'
             PROVE  Apart(e)'
  OBVIOUS
<1>0. ListTypes'
  BY ListTypesStep
<1>1. Fresh(e) /\ Apart(e) /\ (d = e => list_pc'[d] # "end")
  <2>1. CASE d # e
    <3>1. Fresh(e)
      BY <2>1, OneRegisters DEF Fresh
    <3> QED BY <2>1, <3>1
  <2>2. CASE d = e /\ R!Begin(d)
    <3>1. registered'[d] = registered[d] + 1 /\ list_pc'[d] = "head" /\ registered[d] \in Nat
      BY <2>2 DEF R!Begin, R!Go, ListTypes
    <3>2. registered[d] = 0
      BY <2>2, <3>1 DEF Fresh
    <3> QED BY <2>2, <3>1, <3>2 DEF Fresh
  <2>3. CASE d = e /\ R!Step(d)
    <3>1. registered'[d] = registered[d] /\ list_pc[d] # "out" /\ registered[d] > 0 /\ registered[d] \in Nat
      BY <2>3, OneRegisters DEF ListTypes
    <3>2. registered[d] = 1 /\ list_pc'[d] \in Searching
      BY <2>3, <3>1 DEF Fresh
    <3>3. list_pc[d] \in Searching
      <4> USE DEF ListTypes, R!Go, Searching
      <4>1. CASE R!Head(d)
        BY <4>1 DEF R!Head
      <4>2. CASE R!First(d)
        BY <4>2 DEF R!First
      <4>3. CASE R!Walk(d)
        BY <4>3 DEF R!Walk
      <4>4. CASE R!Link(d)
        BY <4>4 DEF R!Link
      <4>5. CASE R!End(d)
        BY <4>5, <3>2 DEF R!End
      <4>6. CASE R!Slot(d)
        BY <4>6, <3>2 DEF R!Slot
      <4>7. CASE R!Function(d)
        BY <4>7, <3>2 DEF R!Function
      <4>8. CASE R!StoreParam(d)
        BY <4>8, <3>2 DEF R!StoreParam
      <4> QED BY <2>3, <4>1, <4>2, <4>3, <4>4, <4>5, <4>6, <4>7, <4>8 DEF R!Step
    <3>4. Fresh(e)
      BY <2>3, <3>2, <3>3 DEF Fresh
    <3> QED BY <2>3, <3>2, <3>4 DEF Searching
  <2> QED BY <2>1, <2>2, <2>3
<1>2. next_uart'[e] = 0 /\ uart_drv_ptr' # e /\ \A f \in Drivers : next_uart'[f] # e
  <2> USE <1>1, ListAssumption DEF ListTypes, R!Go, R!list, R!array, R!NULL, Apart
  <2>1. CASE UNCHANGED R!list
    BY <2>1
  <2>2. CASE R!First(d)
    BY <2>2 DEF R!First
  <2>3. CASE R!Link(d)
    BY <2>3 DEF R!Link, R!Linked
  <2>4. CASE R!End(d)
    BY <2>4 DEF R!End
  <2>5. CASE R!Begin(d) \/ R!Head(d) \/ R!Walk(d) \/ R!Slot(d) \/ R!Function(d) \/ R!StoreParam(d)
    BY <2>1, <2>5 DEF R!Begin, R!Head, R!Walk, R!Slot, R!Function, R!StoreParam
  <2> QED BY <2>2, <2>3, <2>4, <2>5 DEF R!Step
<1>3. list_pc'[d] \in {"walk", "link"} => at'[d] # e
  <2> USE <1>1 DEF ListTypes, R!Go, R!list, R!array, R!NULL, Apart
  <2>1. CASE R!Begin(d)
    BY <2>1 DEF R!Begin
  <2>2. CASE R!Head(d)
    BY <2>2 DEF R!Head
  <2>3. CASE R!First(d)
    BY <2>3 DEF R!First
  <2>4. CASE R!Walk(d)
    BY <2>4 DEF R!Walk
  <2>5. CASE R!Link(d)
    BY <2>5 DEF R!Link
  <2>6. CASE R!End(d)
    BY <2>6 DEF R!End
  <2>7. CASE R!Slot(d)
    BY <2>7 DEF R!Slot
  <2>8. CASE R!Function(d)
    BY <2>8 DEF R!Function
  <2>9. CASE R!StoreParam(d)
    BY <2>9 DEF R!StoreParam
  <2> QED BY <2>1, <2>2, <2>3, <2>4, <2>5, <2>6, <2>7, <2>8, <2>9 DEF R!Step
<1>4. \A f \in Drivers \ {d} : list_pc'[f] \in {"walk", "link"} => at'[f] # e
  BY <1>1, OneRegisters DEF Apart
<1> QED BY <1>2, <1>3, <1>4 DEF Apart

(* A pointer to a driver closes a cycle only if the driver was in the list *)
(* before.                                                                 *)
LEMMA BrokenStep ==
  ASSUME ListTypes, \A d \in Drivers : Fresh(d) => Apart(d), Broken,
         NEW d \in Drivers, R!Begin(d) \/ R!Step(d)
  PROVE  Broken'
<1> SUFFICES ASSUME NEW L \in SUBSET Drivers, Cyclic(L)'
             PROVE  \E e \in L : list_pc'[e] = "end" /\ registered'[e] > 1
  BY DEF Broken
<1>1. ASSUME Cyclic(L), list_pc[d] = "end" => d \notin L
      PROVE  \E e \in L : list_pc'[e] = "end" /\ registered'[e] > 1
  <2>1. PICK e \in L : list_pc[e] = "end" /\ registered[e] > 1
    BY <1>1 DEF Broken
  <2>2. e # d
    BY <1>1, <2>1
  <2> QED BY <2>1, <2>2, OneRegisters
<1>2. CASE R!First(d) \/ R!Begin(d) \/ R!Head(d) \/ R!Walk(d) \/ R!Slot(d) \/ R!Function(d) \/ R!StoreParam(d)
  <2>1. next_uart' = next_uart /\ list_pc[d] # "end"
    BY <1>2 DEF R!First, R!Begin, R!Head, R!Walk, R!Slot, R!Function, R!StoreParam, R!Go, R!list
  <2> QED BY <1>1, <2>1 DEF Cyclic
<1>3. CASE R!Link(d)
  <2>1. /\ list_pc[d] = "link" /\ list_pc'[d] = "end" /\ registered' = registered
        /\ next_uart' = [next_uart EXCEPT ![at[d]] = d] /\ at[d] \in Drivers
    BY <1>3 DEF R!Link, R!Linked, R!Go, ListTypes
  <2>2. CASE at[d] \notin L
    <3>1. Cyclic(L)
      BY <2>1, <2>2 DEF Cyclic, ListTypes
    <3> QED BY <1>1, <2>1, <3>1
  <2>3. CASE at[d] \in L
    <3>1. d \in L
      BY <2>1, <2>3 DEF Cyclic, ListTypes
    <3>2. registered'[d] > 1
      <4>1. SUFFICES ASSUME ~ (registered'[d] > 1)
                     PROVE  FALSE
        OBVIOUS
      <4>2. Fresh(d)
        BY <2>1, <4>1 DEF Fresh, Searching, ListTypes
      <4>3. next_uart[d] = 0 /\ at[d] # d
        BY <2>1, <4>2 DEF Apart
      <4>4. next_uart'[d] = 0
        BY <2>1, <4>3 DEF ListTypes
      <4> QED BY <3>1, <4>4, ListAssumption DEF R!NULL, Cyclic
    <3> QED BY <2>1, <3>1, <3>2
  <2> QED BY <2>2, <2>3
<1>4. CASE R!End(d)
  <2>1. next_uart' = [next_uart EXCEPT ![d] = 0]
    BY <1>4 DEF R!End, R!NULL
  <2>2. d \notin L
    BY <2>1, ListAssumption DEF R!NULL, Cyclic, ListTypes
  <2>3. Cyclic(L)
    BY <2>1, <2>2 DEF Cyclic, ListTypes
  <2> QED BY <1>1, <2>2, <2>3
<1> QED BY <1>2, <1>3, <1>4 DEF R!Step

(* Only the store to the head takes a driver from those the list leads to. *)
LEMMA HeldKept ==
  ASSUME ListTypes, \A d \in Drivers : Fresh(d) => Apart(d), NotTwice,
         NEW d \in Drivers, R!Begin(d) \/ R!Step(d), list_pc[d] # "first"
  PROVE  Held \subseteq Held'
<1>1. /\ \A e \in Drivers \ {d} : list_pc'[e] = list_pc[e] /\ at'[e] = at[e]
  BY OneRegisters
<1>2. ~ R!First(d)
  BY DEF R!First, R!Go
<1>3. /\ uart_drv_ptr' = uart_drv_ptr
      /\ \A e \in Drivers \ Pending : next_uart[e] = 0 \/ (next_uart'[e] = next_uart[e] /\ e \notin Pending')
  <2>1. CASE R!Link(d)
    <3>1. /\ list_pc[d] = "link" /\ list_pc'[d] = "end" /\ at' = at /\ registered' = registered
          /\ uart_drv_ptr' = uart_drv_ptr /\ next_uart' = [next_uart EXCEPT ![at[d]] = d]
      BY <2>1 DEF R!Link, R!Linked, R!Go, ListTypes
    <3>2. next_uart[d] = 0
      <4>1. Fresh(d)
        BY <3>1 DEF Fresh, Searching, NotTwice, ListTypes
      <4> QED BY <4>1 DEF Apart
    <3>3. ASSUME NEW e \in Drivers \ Pending, e # d
          PROVE  next_uart'[e] = next_uart[e] /\ e \notin Pending'
      <4>1. e # at[d]
        BY <3>1, <3>3 DEF Pending
      <4>2. e \notin Pending'
        BY <1>1, <3>1, <3>3 DEF Pending
      <4> QED BY <3>1, <4>1, <4>2 DEF ListTypes
    <3> QED BY <3>1, <3>2, <3>3
  <2>2. CASE R!End(d)
    <3>1. /\ list_pc[d] = "end" /\ list_pc'[d] = "slot"
          /\ uart_drv_ptr' = uart_drv_ptr /\ next_uart' = [next_uart EXCEPT ![d] = 0]
      BY <2>2 DEF R!End, R!Go, R!NULL, ListTypes
    <3>2. ASSUME NEW e \in Drivers \ Pending
          PROVE  next_uart'[e] = next_uart[e] /\ e \notin Pending'
      <4>1. e # d
        BY <3>1 DEF Pending
      <4>2. e \notin Pending'
        BY <1>1, <3>1, <3>2 DEF Pending
      <4> QED BY <3>1, <4>1, <4>2 DEF ListTypes
    <3> QED BY <3>1, <3>2
  <2>3. CASE R!Walk(d)
    <3>1. /\ UNCHANGED R!list /\ list_pc[d] = "walk"
          /\ \/ next_uart[at[d]] = 0 /\ at' = at /\ list_pc'[d] = "link"
             \/ list_pc'[d] = "walk"
      BY <2>3 DEF R!Walk, R!Go, R!NULL, ListTypes
    <3>2. ASSUME NEW e \in Drivers \ Pending, e \in Pending'
          PROVE  next_uart[e] = 0
      BY <1>1, <3>1, <3>2 DEF Pending
    <3> QED BY <3>1, <3>2 DEF R!list
  <2>4. CASE R!Begin(d) \/ R!Head(d) \/ R!Slot(d) \/ R!Function(d) \/ R!StoreParam(d)
    <3>1. UNCHANGED R!list /\ list_pc'[d] \notin {"link", "end"}
      BY <2>4 DEF R!Begin, R!Head, R!Slot, R!Function, R!StoreParam, R!Go, ListTypes
    <3>2. ASSUME NEW e \in Drivers \ Pending
          PROVE  e \notin Pending'
      BY <1>1, <3>1, <3>2 DEF Pending
    <3> QED BY <3>1, <3>2 DEF R!list
  <2> QED BY <1>2, <2>1, <2>2, <2>3, <2>4 DEF R!Step
<1>4. ASSUME NEW L \in SUBSET Drivers, Leads(L)'
      PROVE  Leads(L)
  <2>1. ASSUME NEW e \in L \ Pending
        PROVE  next_uart[e] \in L \cup {0}
    <3>1. e \in Drivers \ Pending
      OBVIOUS
    <3>2. CASE next_uart'[e] = next_uart[e] /\ e \notin Pending'
      BY <1>4, <2>1, <3>2 DEF Leads
    <3> QED BY <1>3, <3>1, <3>2
  <2> QED BY <1>3, <1>4, <2>1 DEF Leads
<1> QED BY <1>4 DEF Held

(* A driver registered alone is among them when it is linked, and stays.   *)
LEMMA ReachedStep ==
  ASSUME ListTypes, \A d \in Drivers : Fresh(d) => Apart(d), Alone, NotTwice => Reached,
         NEW d \in Drivers, R!Begin(d) \/ R!Step(d), NotTwice'
  PROVE  Reached'
<1>0. ListTypes'
  BY ListTypesStep
<1>1. NotTwice
  <2>1. \A e \in Drivers : registered[e] <= registered'[e] /\ registered[e] \in Nat /\ registered'[e] \in Nat
    BY <1>0, OneRegisters DEF ListTypes
  <2> QED BY <2>1 DEF NotTwice
<1>2. Reached
  BY <1>1
<1>3. \A e \in Drivers \ {d} : list_pc'[e] = list_pc[e] /\ at'[e] = at[e] /\ registered'[e] = registered[e]
  BY OneRegisters
<1>4. overlapped \subseteq overlapped'
  BY OneRegisters
(* A driver that comes to be linked alone is the one that moves, ...       *)
<1>5. ASSUME NEW e \in Drivers, Solid(e)', ~ Solid(e)
      PROVE  /\ e = d /\ R!Once(d) /\ (R!First(d) \/ R!Link(d))
             /\ \A f \in Drivers \ {d} : list_pc[f] = "out"
  <2>1. e = d
    BY <1>3, <1>4, <1>5 DEF Solid, R!Once
  <2>2. ~ R!Begin(d)
    BY <1>5, <2>1 DEF R!Begin, R!Go, Solid, Searching, ListTypes
  <2>3. registered' = registered /\ list_pc[d] # "out"
    BY <2>2, OneRegisters
  <2>4. R!Once(d)
    BY <1>4, <1>5, <2>1, <2>3 DEF Solid, R!Once
  <2>5. list_pc[d] \in Searching
    BY <1>5, <2>1, <2>4 DEF Solid
  <2>6. list_pc'[d] \notin Searching
    BY <1>5, <2>1 DEF Solid
  <2>7. R!First(d) \/ R!Link(d)
    BY <2>2, <2>5, <2>6
       DEF R!Step, R!Head, R!Walk, R!End, R!Slot, R!Function, R!StoreParam, R!Go, Searching, ListTypes
  <2> QED BY <2>1, <2>3, <2>4, <2>7 DEF Alone, R!Once
(* ... and so is one that searches alone.                                  *)
<1>6. ASSUME NEW e \in Drivers, R!Once(e)', list_pc'[e] \in {"walk", "link"}, e # d
      PROVE  R!Once(e) /\ list_pc[e] \in {"walk", "link"} /\ at'[e] = at[e]
  BY <1>3, <1>4, <1>6 DEF R!Once
<1>7. CASE R!First(d)
  <2>1. /\ list_pc[d] = "first" /\ list_pc'[d] = "end" /\ uart_drv_ptr' = d
        /\ registered' = registered /\ overlapped' = overlapped
    BY <1>7 DEF R!First, R!Go, ListTypes
  <2>2. \A e \in Drivers : ~ Solid(e)
    BY <1>2, <2>1 DEF Reached
  <2>3. d \in Held'
    BY <2>1, ListAssumption DEF Held, Leads, R!NULL
  <2>4. \A e \in Drivers : Solid(e)' => e \in Held'
    BY <1>5, <2>2, <2>3
  <2>5. ASSUME NEW e \in Drivers, R!Once(e)', list_pc'[e] \in {"walk", "link"}
        PROVE  FALSE
    <3>1. e # d
      BY <2>1, <2>5
    <3>2. R!Once(e) /\ list_pc[e] # "out"
      BY <1>6, <2>5, <3>1
    <3> QED BY <2>1, <3>1, <3>2 DEF Alone, R!Once
  <2>6. ASSUME NEW e \in Drivers, list_pc'[e] = "first", NEW f \in Drivers, Solid(f)'
        PROVE  FALSE
    <3>1. e # d /\ list_pc[e] = "first"
      BY <1>3, <2>1, <2>6
    <3>2. list_pc[e] = "out"
      BY <1>5, <2>2, <2>6, <3>1
    <3> QED BY <3>1, <3>2
  <2> QED BY <2>4, <2>5, <2>6 DEF Reached
<1>8. CASE ~ R!First(d)
  <2>1. list_pc[d] # "first"
    BY <1>8 DEF R!Step, R!Begin, R!Head, R!Walk, R!Link, R!End, R!Slot, R!Function, R!StoreParam, R!Go
  <2>2. Held \subseteq Held'
    BY <1>1, <2>1, HeldKept
  <2>3. ASSUME NEW e \in Drivers, Solid(e)'
        PROVE  e \in Held'
    <3>1. CASE Solid(e)
      BY <1>2, <2>2, <3>1 DEF Reached
    <3>2. CASE ~ Solid(e)
      <4>1. e = d /\ R!Once(d) /\ R!Link(d) /\ \A f \in Drivers \ {d} : list_pc[f] = "out"
        BY <1>5, <1>8, <2>3, <3>2
      <4>2. /\ list_pc[d] = "link" /\ list_pc'[d] = "end" /\ at[d] \in Drivers /\ registered' = registered
            /\ next_uart' = [next_uart EXCEPT ![at[d]] = d]
        BY <4>1 DEF R!Link, R!Linked, R!Go, ListTypes
      <4>3. at[d] \in Held'
        BY <1>2, <2>2, <4>1, <4>2 DEF Reached
      <4>4. at[d] # d
        <5>1. Fresh(d)
          BY <4>1, <4>2 DEF Fresh, Searching, R!Once
        <5> QED BY <4>2, <5>1 DEF Apart
      <4>5. at[d] \notin Pending'
        BY <1>3, <4>1, <4>2, <4>4 DEF Pending
      <4>6. ASSUME NEW L \in SUBSET Drivers, Leads(L)'
            PROVE  d \in L
        <5>1. at[d] \in L
          BY <4>3, <4>6 DEF Held
        <5>2. next_uart'[at[d]] = d
          BY <4>2 DEF ListTypes
        <5> QED BY <4>5, <4>6, <5>1, <5>2, ListAssumption DEF Leads, R!NULL
      <4> QED BY <4>1, <4>6 DEF Held
    <3> QED BY <3>1, <3>2
  <2>4. ASSUME NEW e \in Drivers, R!Once(e)', list_pc'[e] \in {"walk", "link"}
        PROVE  at'[e] \in Held'
    <3>1. CASE e # d
      BY <1>2, <1>6, <2>2, <2>4, <3>1 DEF Reached
    <3>2. CASE e = d
      <4>1. R!Head(d) \/ R!Walk(d)
        BY <1>8, <2>4, <3>2
           DEF R!Step, R!Begin, R!Link, R!End, R!Slot, R!Function, R!StoreParam, R!Go, ListTypes
      <4>2. UNCHANGED R!list /\ registered' = registered /\ overlapped' = overlapped
        BY <4>1 DEF R!Head, R!Walk
      <4>3. CASE R!Head(d)
        <5>1. at'[d] = uart_drv_ptr /\ uart_drv_ptr # 0
          BY <2>4, <3>2, <4>3 DEF R!Head, R!Go, R!NULL, ListTypes
        <5> QED BY <3>2, <4>2, <5>1 DEF Held, Leads, ListTypes, R!list
      <4>4. CASE R!Walk(d)
        <5>1. list_pc[d] = "walk" /\ R!Once(d)
          BY <2>4, <3>2, <4>2, <4>4 DEF R!Walk, R!Go, R!Once
        <5>2. at[d] \in Held
          BY <1>2, <5>1 DEF Reached
        <5>3. Pending = {}
          BY <5>1 DEF Pending, Alone, R!Once
        <5>4. \/ at'[d] = at[d]
              \/ at'[d] = next_uart[at[d]] /\ next_uart[at[d]] \in Drivers
          BY <4>4 DEF R!Walk, R!Go, R!NULL, ListTypes
        <5>5. CASE at'[d] = next_uart[at[d]] /\ next_uart[at[d]] \in Drivers
          <6>1. at'[d] \in Held
            BY <5>2, <5>3, <5>5, ListAssumption DEF Held, Leads, R!NULL
          <6> QED BY <2>2, <3>2, <6>1
        <5> QED BY <2>2, <3>2, <5>2, <5>4, <5>5
      <4> QED BY <4>1, <4>3, <4>4
    <3> QED BY <3>1, <3>2
  <2>5. ASSUME NEW e \in Drivers, list_pc'[e] = "first", NEW f \in Drivers, Solid(f)'
        PROVE  FALSE
    <3>1. CASE e # d
      <4>1. list_pc[e] = "first"
        BY <1>3, <2>5, <3>1
      <4>2. ~ Solid(f)
        BY <1>2, <4>1 DEF Reached
      <4> QED BY <1>5, <2>5, <3>1, <4>1, <4>2
    <3>2. CASE e = d
      <4>1. R!Head(d)
        BY <1>8, <2>5, <3>2
           DEF R!Step, R!Begin, R!Walk, R!Link, R!End, R!Slot, R!Function, R!StoreParam, R!Go, ListTypes
      <4>2. uart_drv_ptr' = 0
        BY <2>5, <3>2, <4>1 DEF R!Head, R!Go, R!NULL, R!list, ListTypes
      <4>3. f \in Held'
        BY <2>3, <2>5
      <4>4. Leads({})'
        BY <4>2 DEF Leads
      <4> QED BY <4>3, <4>4 DEF Held
    <3> QED BY <3>1, <3>2
  <2> QED BY <2>3, <2>4, <2>5 DEF Reached
<1> QED BY <1>7, <1>8

(* A slot that holds a driver is left alone by the others.                 *)
LEMMA SlottedStep ==
  ASSUME ListTypes, Alone, Slotted, NEW d \in Drivers, R!Begin(d) \/ R!Step(d)
  PROVE  Slotted'
<1>0. ListTypes'
  BY ListTypesStep
<1>1. /\ \A e \in Drivers \ {d} : /\ list_pc'[e] = list_pc[e] /\ registered'[e] = registered[e]
                                  /\ at'[e] = at[e]
      /\ overlapped \subseteq overlapped'
  BY OneRegisters
<1>2. full \subseteq full'
  BY DEF R!Begin, R!Step, R!Head, R!First, R!Walk, R!Link, R!End, R!Slot, R!Function, R!StoreParam
<1>3. \A k \in R!Slots : callback[k] => callback'[k]
  <2>1. CASE R!Function(d)
    BY <2>1 DEF R!Function, R!Go, ListTypes
  <2>2. CASE ~ R!Function(d)
    BY <2>2 DEF R!Begin, R!Step, R!Head, R!First, R!Walk, R!Link, R!End, R!Slot, R!StoreParam, R!array
  <2> QED BY <2>1, <2>2
<1>4. \/ param' = param
      \/ list_pc[d] = "param" /\ param' = [param EXCEPT ![at[d]] = d] /\ at[d] \in R!Slots /\ R!StoreParam(d)
  BY DEF R!Begin, R!Step, R!Head, R!First, R!Walk, R!Link, R!End, R!Slot, R!Function, R!StoreParam,
     R!array, R!Go, ListTypes
<1>5. list_pc'[d] = "param" => callback'[at'[d]]
  <2>1. ASSUME list_pc'[d] = "param"
        PROVE  R!Function(d)
    BY <2>1 DEF R!Begin, R!Step, R!Head, R!First, R!Walk, R!Link, R!End, R!Slot, R!StoreParam,
       R!Go, ListTypes
  <2>2. R!Function(d) => callback'[at'[d]]
    BY DEF R!Function, R!Go, ListTypes
  <2> QED BY <2>1, <2>2
<1>6. ASSUME NEW e \in Drivers \ {d}, list_pc'[e] = "param"
      PROVE  callback'[at'[e]]
  <2>1. callback[at[e]] /\ at[e] \in R!Slots
    BY <1>1, <1>6 DEF Slotted, ListTypes
  <2> QED BY <1>1, <1>3, <2>1
<1>7. ASSUME NEW e \in Drivers, NEW k \in R!Slots,
             registered'[e] = 0 \/ (registered'[e] = 1 /\ list_pc'[e] # "out")
      PROVE  param'[k] # e
  <2>1. param[k] # e
    <3>1. CASE e # d
      BY <1>1, <1>7, <3>1 DEF Slotted
    <3>2. CASE e = d /\ R!Begin(d)
      <4>1. registered'[d] = registered[d] + 1 /\ registered[d] \in Nat
        BY <3>2 DEF R!Begin, ListTypes
      <4>2. registered[d] = 0
        BY <1>7, <3>2, <4>1
      <4> QED BY <3>2, <4>2 DEF Slotted
    <3>3. CASE e = d /\ R!Step(d)
      <4>1. registered'[d] = registered[d] /\ list_pc[d] # "out" /\ registered[d] \in Nat
        BY <3>3, OneRegisters DEF ListTypes
      <4> QED BY <1>7, <3>3, <4>1 DEF Slotted
    <3> QED BY <3>1, <3>2, <3>3
  <2>2. CASE param' = param
    BY <2>1, <2>2
  <2>3. CASE list_pc[d] = "param" /\ param' = [param EXCEPT ![at[d]] = d] /\ R!StoreParam(d)
    <3>1. d # e
      <4>1. list_pc'[d] = "out" /\ registered'[d] = registered[d] /\ registered[d] > 0 /\ registered[d] \in Nat
        BY <2>3 DEF R!StoreParam, R!Go, ListTypes
      <4> QED BY <1>7, <4>1
    <3> QED BY <2>1, <2>3, <3>1 DEF ListTypes
  <2> QED BY <1>4, <2>2, <2>3
<1>8. ASSUME NEW e \in Drivers, R!Once(e)', list_pc'[e] = "out", e \notin full'
      PROVE  \E k \in R!Slots : Holds(e, k)'
  <2>1. CASE list_pc[e] = "out" /\ R!Once(e)
    <3>1. PICK k \in R!Slots : Holds(e, k)
      BY <1>2, <1>8, <2>1 DEF Slotted
    <3>2. d # e
      <4>1. ASSUME d = e
            PROVE  FALSE
        <5>1. ~ R!Step(d)
          BY <2>1, <4>1, OneRegisters
        <5>2. list_pc'[d] = "head"
          BY <5>1 DEF R!Begin, R!Go, ListTypes
        <5> QED BY <1>8, <4>1, <5>2
      <4> QED BY <4>1
    <3>3. callback'[k]
      BY <1>3, <3>1 DEF Holds
    <3>4. param'[k] = e /\ \A j \in R!Slots : param'[j] = e => j = k
      BY <1>4, <3>1, <3>2 DEF Holds, ListTypes
    <3>5. list_pc'[d] \in {"function", "param"} => at'[d] # k
      <4>1. CASE R!Slot(d)
        BY <3>1, <4>1 DEF R!Slot, R!Free, R!Go, Holds, ListTypes
      <4>2. CASE R!Function(d)
        BY <3>1, <4>2 DEF R!Function, R!Go, Holds, ListTypes
      <4>3. CASE ~ R!Slot(d) /\ ~ R!Function(d)
        <5>1. list_pc'[d] \notin {"function", "param"}
          BY <4>3 DEF R!Begin, R!Step, R!Head, R!First, R!Walk, R!Link, R!End, R!StoreParam, R!Go, ListTypes
        <5> QED BY <5>1
      <4> QED BY <4>1, <4>2, <4>3
    <3>6. \A f \in Drivers \ {d} : list_pc'[f] \in {"function", "param"} => at'[f] # k
      BY <1>1, <3>1 DEF Holds
    <3> QED BY <3>3, <3>4, <3>5, <3>6 DEF Holds
  <2>2. CASE list_pc[e] # "out" \/ ~ R!Once(e)
    <3>1. d = e /\ list_pc[d] = "param" /\ R!StoreParam(d)
      <4>1. d = e
        BY <1>1, <1>8, <2>2 DEF R!Once
      <4>2. R!Step(d)
        <5>1. list_pc'[d] # "out" \/ R!Step(d)
          BY DEF R!Begin, R!Go, ListTypes
        <5> QED BY <1>8, <4>1, <5>1
      <4>3. R!Slot(d) \/ R!StoreParam(d)
        BY <1>8, <4>1, <4>2 DEF R!Step, R!Head, R!First, R!Walk, R!Link, R!End, R!Function, R!Go, ListTypes
      <4>4. ~ R!Slot(d)
        BY <1>8, <4>1 DEF R!Slot, R!Go, ListTypes
      <4> QED BY <4>1, <4>3, <4>4 DEF R!StoreParam, R!Go
    <3>2. /\ param' = [param EXCEPT ![at[d]] = d] /\ at[d] \in R!Slots /\ callback' = callback
          /\ at' = at /\ registered' = registered /\ overlapped' = overlapped
      BY <3>1 DEF R!StoreParam, R!Go, ListTypes
    <3>3. registered[d] = 1 /\ d \notin overlapped
      BY <1>8, <3>1, <3>2 DEF R!Once
    <3>4. \A k \in R!Slots : param[k] # d
      BY <3>1, <3>3 DEF Slotted
    <3>5. callback'[at[d]]
      BY <3>1, <3>2 DEF Slotted
    <3>6. param'[at[d]] = d /\ \A j \in R!Slots : param'[j] = d => j = at[d]
      BY <3>2, <3>4 DEF ListTypes
    <3>7. \A f \in Drivers : list_pc'[f] = "out"
      <4>1. \A f \in Drivers \ {d} : list_pc[f] = "out"
        BY <3>1, <3>3 DEF Alone
      <4> QED BY <1>1, <1>8, <3>1, <4>1
    <3>8. Holds(d, at[d])'
      <4>1. \A f \in Drivers : list_pc'[f] \notin {"function", "param"}
        BY <3>7
      <4> QED BY <3>2, <3>5, <3>6, <4>1 DEF Holds
    <3> QED BY <3>1, <3>2, <3>8
  <2> QED BY <2>1, <2>2
<1> QED BY <1>5, <1>6, <1>7, <1>8 DEF Slotted

(* Whatever the step, the lists hold what the registrations left.          *)
LEMMA ListStepInv ==
  ASSUME ListInv, [Next]_vars
  PROVE  ListInv'
<1>1. ASSUME NEW d \in Drivers, R!Begin(d) \/ R!Step(d)
      PROVE  ListInv'
  BY <1>1, ListTypesStep, ApartStep, BrokenStep, AloneStep, ReachedStep, SlottedStep DEF ListInv
<1>2. CASE UNCHANGED registration
  <2>1. /\ uart_drv_ptr' = uart_drv_ptr /\ next_uart' = next_uart /\ callback' = callback
        /\ param' = param /\ list_pc' = list_pc /\ at' = at /\ registered' = registered
        /\ overlapped' = overlapped /\ full' = full
    BY <1>2 DEF registration
  <2>2. ListTypes' /\ (\A d \in Drivers : Fresh(d)' => Apart(d)') /\ Broken' /\ Alone'
    BY <2>1 DEF ListInv, ListTypes, Fresh, Apart, Broken, Cyclic, Alone
  <2>3. Held' = Held
    BY <2>1 DEF Held, Leads, Pending
  <2>4. NotTwice' => Reached'
    BY <2>1, <2>3 DEF ListInv, NotTwice, Reached, Solid, R!Once
  <2>5. Slotted'
    BY <2>1 DEF ListInv, Slotted, Holds, R!Once
  <2> QED BY <2>2, <2>4, <2>5 DEF ListInv
<1> QED BY <1>1, <1>2, ListStep

(* Lists like that serve every driver.                                     *)
LEMMA ServedOfInv ==
  ASSUME ListInv
  PROVE  Served
<1>1. R!AllFound
  <2>1. SUFFICES ASSUME NEW d \in Drivers, Solid(d), \A e \in Drivers : ~ (registered[e] > 1)
                 PROVE  d \in R!Found
    BY DEF R!AllFound, Solid, Searching
  <2>2. d \in Held
    BY <2>1 DEF ListInv, ListTypes, NotTwice, Reached
  <2>3. ASSUME NEW L \in SUBSET Drivers, R!Closed(L)
        PROVE  Leads(L)
    BY <2>3 DEF R!Closed, R!NULL, Leads
  <2> QED BY <2>2, <2>3 DEF Held, R!Found
<1>2. R!SearchEnds
  <2>1. SUFFICES ASSUME NEW L \in SUBSET R!Found, L # {}, \A e \in L : next_uart[e] \in L
                 PROVE  \E e \in Drivers : registered[e] > 1 /\ list_pc[e] = "end"
    BY DEF R!SearchEnds
  <2>2. L \in SUBSET Drivers
    BY DEF R!Found
  <2> QED BY <2>1, <2>2 DEF ListInv, Broken, Cyclic
<1>3. R!CalledOnce
  <2>1. ASSUME NEW d \in Drivers, R!Once(d), list_pc[d] = "out", d \notin full
        PROVE  Cardinality({k \in R!Slots : callback[k] /\ param[k] = d}) = 1
    <3>1. PICK k \in R!Slots : Holds(d, k)
      BY <2>1 DEF ListInv, Slotted
    <3>2. {j \in R!Slots : callback[j] /\ param[j] = d} = {k}
      BY <3>1 DEF Holds
    <3> QED BY <3>2, FS_Singleton
  <2>2. \A A : R!Cardinality(A) = Cardinality(A)
    BY DEF R!Cardinality, Cardinality
  <2> QED BY <2>1, <2>2 DEF R!CalledOnce
<1> QED BY <1>1, <1>2, <1>3 DEF Served, R!Served

(* An interrupt finds each driver that registered alone, its search ends,  *)
(* and a tick calls the timeout of a driver once, wherever the statements  *)
(* of uart_register and of set_before_check_timers_callback are cut, for   *)
(* any number of drivers and any size of the array, with the exceptions    *)
(* that Served names.                                                      *)
THEOREM ServesAll == Spec => []Served
<1>1. Init => ListInv
  BY ListInit
<1>2. ListInv /\ [Next]_vars => ListInv'
  BY ListStepInv
<1>3. ListInv => Served
  BY ServedOfInv
<1> QED BY <1>1, <1>2, <1>3, PTL DEF Spec
-----------------------------------------------------------------------------
(* The requests of the flash driver.                                       *)

(* The statements a call is made of, ...                                   *)
Tokens(k) ==
  CASE k = "read" -> {"enter", "next", "wait", "rx", "RX"}
    [] k = "write" -> {"enter", "next", "wait", "we", "wd", "tx", "TX"}
    [] k \in {"erase", "block", "chip"} -> {"clear", "enter", "next", "wait", "we", "wd", "erase"}

(* ... and the order they come in: a command to the chip follows a poll of *)
(* its status, and a program or erase command a write enable.              *)
Commands == {"we", "wd", "tx", "erase"}
Follows(q, k) ==
  /\ q \in Seq(Tokens(k))
  /\ \A j \in 1 .. Len(q) : j > 1 =>
       /\ q[j] \in Commands \cup {"rx"} => q[j - 1] = "wait"
       /\ q[j] = "next" => q[j - 1] = "wait" \/ (q[j - 1] = "enter" /\ k # "chip")
       /\ q[j] = "enter" => k \in {"erase", "block", "chip"} /\ (q[j - 1] = "wait" \/ k = "chip")
       /\ q[j] \in {"tx", "erase"} /\ j > 2 => q[j - 2] = "we"
  /\ \A j, m \in 1 .. Len(q) : q[j] = "erase" /\ q[m] = "erase" => j = m
  /\ \A j \in 1 .. Len(q) : q[j] = "next" => j = Len(q)

(* No transfer is under way and the chip is free.                          *)
Ready == W!HalFree /\ ~ busy

(* What the polls of a call that is alone have left, if ready says whether *)
(* the chip is, and latched whether it takes a write, ...                  *)
Placed(q, a, l, ready, latched) ==
  /\ Head(q) \in Commands => ready
  /\ Head(q) = "enter" => ready \/ (a.kind \in {"read", "write"} /\ l.len = a.len) \/ a.kind = "chip"
  /\ Head(q) = "next" => ready \/ (a.kind \in {"read", "write"} /\ l.len = a.len)
  /\ Head(q) = "rx" => ready \/ (l.addr = a.addr /\ l.addr % PageSize # 0)
  /\ Head(q) \in {"tx", "erase"} => latched
  /\ Head(q) = "wait" /\ Len(q) > 1 /\ q[2] \in {"tx", "erase"} => ready /\ latched
  /\ a.kind = "block" /\ l.len = 0 => \A j \in 1 .. Len(q) : q[j] # "erase"

(* ... and how far it has come: what is done, or about to be by the        *)
(* transfer under way, reaches from the address asked to the one that      *)
(* is next.                                                                *)
Under(p) == IF xfer.by = p THEN W!Covered(xfer.addr, xfer.len) ELSE {}
Progress(p, a, l) ==
  /\ a.addr \in Nat /\ a.len \in Nat /\ l.addr \in Nat /\ l.len \in Nat /\ a.addr <= l.addr
  /\ a.kind \in {"read", "write"} => a.len > 0
  /\ a.kind = "write" =>
       /\ l.addr + l.len = a.addr + a.len /\ done[p] \cup Under(p) = a.addr .. l.addr - 1
       /\ xfer.by = p => /\ xfer.dir = "tx" /\ wel /\ ~ busy
                         /\ xfer.addr \in Nat /\ xfer.len \in Nat
                         /\ (xfer.addr % PageSize) + xfer.len <= PageSize
  /\ a.kind = "block" =>
       l.addr + l.len = a.addr + a.len /\ done[p] = W!Pieces(a.addr .. l.addr - 1)
  /\ a.kind = "read" =>
       /\ l.addr + l.len >= a.addr + a.len
       /\ l.len = 0 \/ l.addr % PageSize = 0 \/ l.addr = a.addr
       /\ \/ deaf[p] /\ a.addr % PageSize # 0
          \/ /\ a.addr .. l.addr - 1 \subseteq done[p] \cup Under(p)
             /\ xfer.by = p => xfer.dir = "rx" /\ ~ busy
  /\ a.kind \in {"erase", "block", "chip"} => xfer.by # p

(* A call ends with the test for its next round. One that is not under way *)
(* has nothing done, and no transfer.                                      *)
Tests == {"clear", "enter"} \cup Inner
Whole(q) == q \in Seq(Tests) /\ (q # <<>> => q[Len(q)] = "next")
Owned ==
  /\ DOMAIN done = Users /\ DOMAIN deaf = Users /\ DOMAIN alone = Users
  /\ busy \in BOOLEAN /\ wel \in BOOLEAN /\ DOMAIN xfer = {"dir", "by", "addr", "len"}
  /\ \A p \in Users : Whole(script[p])
  /\ xfer.by # 0 => xfer.by \in Users /\ W!Active(xfer.by)
  /\ \A p \in Users : ~ W!Active(p) => done[p] = {} /\ ~ deaf[p]

(* A chip erase has its command sent, or still to send.                    *)
Cleared(d, q) == d = W!Chip \/ (d = {} /\ \E j \in 1 .. Len(q) : q[j] = "erase")

(* How a call that is not overlapped stands: GetID has no order to keep.   *)
Good(p) ==
  asked[p].kind # "id" => /\ Follows(script[p], asked[p].kind)
                          /\ Placed(script[p], asked[p], left[p], Ready, wel)
                          /\ Progress(p, asked[p], left[p])
                          /\ asked[p].kind = "chip" => Cleared(done[p], script[p])

(* A call that no other one overlapped stands well, and is the only one.   *)
DoneInv ==
  /\ Owned
  /\ \A p \in Users : W!Active(p) /\ alone[p] =>
       Good(p) /\ \A q \in Users \ {p} : ~ W!Active(q)

(* What is put together keeps its parts.                                   *)
LEMMA Joined ==
  ASSUME NEW s \in Seq(Inner), NEW t \in Seq(Inner)
  PROVE  /\ s \o t \in Seq(Inner) /\ Len(s \o t) = Len(s) + Len(t)
         /\ \A j \in 1 .. Len(s) : (s \o t)[j] = s[j]
         /\ \A j \in 1 .. Len(t) : (s \o t)[Len(s) + j] = t[j]
<1>1. /\ s \o t \in Seq(Inner) /\ Len(s \o t) = Len(s) + Len(t)
      /\ \A j \in 1 .. Len(s) + Len(t) : (s \o t)[j] = IF j <= Len(s) THEN s[j] ELSE t[j - Len(s)]
  BY ConcatProperties
<1>2. Len(s) \in Nat /\ Len(t) \in Nat
  BY LenProperties
<1> DEFINE m == Len(s)
           n == Len(t)
<1>3. m \in Nat /\ n \in Nat
  BY <1>2
<1>4. \A j \in 1 .. m + n : (s \o t)[j] = IF j <= m THEN s[j] ELSE t[j - m]
  BY <1>1
<1> HIDE DEF m, n
<1>5. \A j \in 1 .. m : j \in 1 .. m + n /\ j <= m
  BY <1>3
<1>6. \A j \in 1 .. n : m + j \in 1 .. m + n /\ ~ (m + j <= m) /\ (m + j) - m = j
  BY <1>3
<1>7. /\ \A j \in 1 .. m : (s \o t)[j] = s[j]
      /\ \A j \in 1 .. n : (s \o t)[m + j] = t[j]
  BY <1>4, <1>5, <1>6
<1> QED BY <1>1, <1>7 DEF m, n

(* The statements of one, two or three.                                    *)
LEMMA Few ==
  ASSUME NEW a \in Inner, NEW b \in Inner, NEW c \in Inner
  PROVE  /\ <<>> \in Seq(Inner) /\ Len(<<>>) = 0
         /\ <<a>> \in Seq(Inner) /\ Len(<<a>>) = 1 /\ <<a>>[1] = a
         /\ <<a, b>> \in Seq(Inner) /\ Len(<<a, b>>) = 2 /\ <<a, b>>[1] = a /\ <<a, b>>[2] = b
         /\ <<a, b, c>> \in Seq(Inner) /\ Len(<<a, b, c>>) = 3
         /\ <<a, b, c>>[1] = a /\ <<a, b, c>>[2] = b /\ <<a, b, c>>[3] = c
BY EmptySeq

(* The rounds, statement by statement.                                     *)
LEMMA WriteRound ==
  ASSUME NEW r, r.kind = "write"
  PROVE  LET q == W!Round(r)
         IN /\ q \in Seq(Inner) /\ Len(q) = 10
            /\ q[1] = "wait" /\ q[2] = "we" /\ q[3] = "wait" /\ q[4] = "tx" /\ q[5] = "TX"
            /\ q[6] = "wait" /\ q[7] = "wait" /\ q[8] = "wd" /\ q[9] = "wait" /\ q[10] = "next"
<1> DEFINE a == <<"wait", "we", "wait">>
           b == <<"tx", "TX", "wait">>
           c == <<"wait", "wd", "wait">>
           d == <<"next">>
<1>1. /\ "wait" \in Inner /\ "we" \in Inner /\ "wd" \in Inner /\ "tx" \in Inner /\ "TX" \in Inner
      /\ "next" \in Inner
  BY DEF Inner
<1>2. W!Round(r) = a \o b \o c \o d
  BY DEF W!Round, W!WriteEnable, W!WriteCycle
<1>3. a \in Seq(Inner) /\ Len(a) = 3 /\ a[1] = "wait" /\ a[2] = "we" /\ a[3] = "wait"
  BY <1>1, Few
<1>4. b \in Seq(Inner) /\ Len(b) = 3 /\ b[1] = "tx" /\ b[2] = "TX" /\ b[3] = "wait"
  BY <1>1, Few
<1>5. c \in Seq(Inner) /\ Len(c) = 3 /\ c[1] = "wait" /\ c[2] = "wd" /\ c[3] = "wait"
  BY <1>1, Few
<1>6. d \in Seq(Inner) /\ Len(d) = 1 /\ d[1] = "next"
  BY <1>1, Few
<1> HIDE DEF a, b, c, d
<1> DEFINE e == a \o b
<1>7. /\ e \in Seq(Inner) /\ Len(e) = 6 /\ e[1] = "wait" /\ e[2] = "we" /\ e[3] = "wait"
      /\ e[4] = "tx" /\ e[5] = "TX" /\ e[6] = "wait"
  <2>1. /\ e \in Seq(Inner) /\ Len(e) = 3 + 3 /\ \A j \in 1 .. 3 : e[j] = a[j]
        /\ \A j \in 1 .. 3 : e[3 + j] = b[j]
    <3>1. /\ e \in Seq(Inner) /\ Len(e) = Len(a) + Len(b)
          /\ \A j \in 1 .. Len(a) : e[j] = a[j]
          /\ \A j \in 1 .. Len(b) : e[Len(a) + j] = b[j]
      BY <1>3, <1>4, Joined
    <3> HIDE DEF e
    <3> QED BY <1>3, <1>4, <3>1
  <2> HIDE DEF e
  <2>2. e[3 + 1] = b[1] /\ e[3 + 2] = b[2] /\ e[3 + 3] = b[3]
    BY <2>1
  <2> QED BY <1>3, <1>4, <2>1, <2>2
<1> HIDE DEF e
<1> DEFINE f == e \o c
<1>8. /\ f \in Seq(Inner) /\ Len(f) = 9 /\ f[1] = "wait" /\ f[2] = "we" /\ f[3] = "wait"
      /\ f[4] = "tx" /\ f[5] = "TX" /\ f[6] = "wait" /\ f[7] = "wait" /\ f[8] = "wd" /\ f[9] = "wait"
  <2>1. /\ f \in Seq(Inner) /\ Len(f) = 6 + 3 /\ \A j \in 1 .. 6 : f[j] = e[j]
        /\ \A j \in 1 .. 3 : f[6 + j] = c[j]
    <3>1. /\ f \in Seq(Inner) /\ Len(f) = Len(e) + Len(c)
          /\ \A j \in 1 .. Len(e) : f[j] = e[j]
          /\ \A j \in 1 .. Len(c) : f[Len(e) + j] = c[j]
      BY <1>5, <1>7, Joined
    <3> HIDE DEF f
    <3> QED BY <1>5, <1>7, <3>1
  <2> HIDE DEF f
  <2>2. f[6 + 1] = c[1] /\ f[6 + 2] = c[2] /\ f[6 + 3] = c[3]
    BY <2>1
  <2> QED BY <1>5, <1>7, <2>1, <2>2
<1> HIDE DEF f
<1> DEFINE q == f \o d
<1>9. /\ q \in Seq(Inner) /\ Len(q) = 10 /\ q[1] = "wait" /\ q[2] = "we" /\ q[3] = "wait"
      /\ q[4] = "tx" /\ q[5] = "TX" /\ q[6] = "wait" /\ q[7] = "wait" /\ q[8] = "wd" /\ q[9] = "wait"
      /\ q[10] = "next"
  <2>1. /\ q \in Seq(Inner) /\ Len(q) = 9 + 1 /\ \A j \in 1 .. 9 : q[j] = f[j]
        /\ \A j \in 1 .. 1 : q[9 + j] = d[j]
    <3>1. /\ q \in Seq(Inner) /\ Len(q) = Len(f) + Len(d)
          /\ \A j \in 1 .. Len(f) : q[j] = f[j]
          /\ \A j \in 1 .. Len(d) : q[Len(f) + j] = d[j]
      BY <1>6, <1>8, Joined
    <3> HIDE DEF q
    <3> QED BY <1>6, <1>8, <3>1
  <2> HIDE DEF q
  <2>2. q[9 + 1] = d[1]
    BY <2>1
  <2> QED BY <1>6, <1>8, <2>1, <2>2
<1>10. W!Round(r) = q
  BY <1>2 DEF q, f, e
<1> HIDE DEF q
<1> QED BY <1>9, <1>10

(* So is the round of an erase, ...                                        *)
LEMMA EraseRound ==
  ASSUME NEW r, r.kind \in {"erase", "block"}
  PROVE  LET q == W!Round(r)
         IN /\ q \in Seq(Inner) /\ Len(q) = 9
            /\ q[1] = "wait" /\ q[2] = "we" /\ q[3] = "wait" /\ q[4] = "erase" /\ q[5] = "wait"
            /\ q[6] = "wait" /\ q[7] = "wd" /\ q[8] = "wait" /\ q[9] = "next"
<1> DEFINE a == <<"wait", "we", "wait">>
           b == <<"erase", "wait">>
           c == <<"wait", "wd", "wait">>
           d == <<"next">>
<1>1. "wait" \in Inner /\ "we" \in Inner /\ "wd" \in Inner /\ "erase" \in Inner /\ "next" \in Inner
  BY DEF Inner
<1>2. W!Round(r) = a \o b \o c \o d
  BY DEF W!Round, W!WriteEnable
<1>3. a \in Seq(Inner) /\ Len(a) = 3 /\ a[1] = "wait" /\ a[2] = "we" /\ a[3] = "wait"
  BY <1>1, Few
<1>4. b \in Seq(Inner) /\ Len(b) = 2 /\ b[1] = "erase" /\ b[2] = "wait"
  BY <1>1, Few
<1>5. c \in Seq(Inner) /\ Len(c) = 3 /\ c[1] = "wait" /\ c[2] = "wd" /\ c[3] = "wait"
  BY <1>1, Few
<1>6. d \in Seq(Inner) /\ Len(d) = 1 /\ d[1] = "next"
  BY <1>1, Few
<1> HIDE DEF a, b, c, d
<1> DEFINE e == a \o b
<1>7. /\ e \in Seq(Inner) /\ Len(e) = 5 /\ e[1] = "wait" /\ e[2] = "we" /\ e[3] = "wait"
      /\ e[4] = "erase" /\ e[5] = "wait"
  <2>1. /\ e \in Seq(Inner) /\ Len(e) = 3 + 2 /\ \A j \in 1 .. 3 : e[j] = a[j]
        /\ \A j \in 1 .. 2 : e[3 + j] = b[j]
    <3>1. /\ e \in Seq(Inner) /\ Len(e) = Len(a) + Len(b)
          /\ \A j \in 1 .. Len(a) : e[j] = a[j]
          /\ \A j \in 1 .. Len(b) : e[Len(a) + j] = b[j]
      BY <1>3, <1>4, Joined
    <3> HIDE DEF e
    <3> QED BY <1>3, <1>4, <3>1
  <2> HIDE DEF e
  <2>2. e[3 + 1] = b[1] /\ e[3 + 2] = b[2]
    BY <2>1
  <2> QED BY <1>3, <1>4, <2>1, <2>2
<1> HIDE DEF e
<1> DEFINE f == e \o c
<1>8. /\ f \in Seq(Inner) /\ Len(f) = 8 /\ f[1] = "wait" /\ f[2] = "we" /\ f[3] = "wait"
      /\ f[4] = "erase" /\ f[5] = "wait" /\ f[6] = "wait" /\ f[7] = "wd" /\ f[8] = "wait"
  <2>1. /\ f \in Seq(Inner) /\ Len(f) = 5 + 3 /\ \A j \in 1 .. 5 : f[j] = e[j]
        /\ \A j \in 1 .. 3 : f[5 + j] = c[j]
    <3>1. /\ f \in Seq(Inner) /\ Len(f) = Len(e) + Len(c)
          /\ \A j \in 1 .. Len(e) : f[j] = e[j]
          /\ \A j \in 1 .. Len(c) : f[Len(e) + j] = c[j]
      BY <1>5, <1>7, Joined
    <3> HIDE DEF f
    <3> QED BY <1>5, <1>7, <3>1
  <2> HIDE DEF f
  <2>2. f[5 + 1] = c[1] /\ f[5 + 2] = c[2] /\ f[5 + 3] = c[3]
    BY <2>1
  <2> QED BY <1>5, <1>7, <2>1, <2>2
<1> HIDE DEF f
<1> DEFINE q == f \o d
<1>9. /\ q \in Seq(Inner) /\ Len(q) = 9 /\ q[1] = "wait" /\ q[2] = "we" /\ q[3] = "wait"
      /\ q[4] = "erase" /\ q[5] = "wait" /\ q[6] = "wait" /\ q[7] = "wd" /\ q[8] = "wait" /\ q[9] = "next"
  <2>1. /\ q \in Seq(Inner) /\ Len(q) = 8 + 1 /\ \A j \in 1 .. 8 : q[j] = f[j]
        /\ \A j \in 1 .. 1 : q[8 + j] = d[j]
    <3>1. /\ q \in Seq(Inner) /\ Len(q) = Len(f) + Len(d)
          /\ \A j \in 1 .. Len(f) : q[j] = f[j]
          /\ \A j \in 1 .. Len(d) : q[Len(f) + j] = d[j]
      BY <1>6, <1>8, Joined
    <3> HIDE DEF q
    <3> QED BY <1>6, <1>8, <3>1
  <2> HIDE DEF q
  <2>2. q[8 + 1] = d[1]
    BY <2>1
  <2> QED BY <1>6, <1>8, <2>1, <2>2
<1>10. W!Round(r) = q
  BY <1>2 DEF q, f, e
<1> HIDE DEF q
<1> QED BY <1>9, <1>10

(* ... and that of a read, which skips the poll for its first chunk.       *)
LEMMA ReadRound ==
  ASSUME NEW r, r.kind = "read"
  PROVE  LET q == W!Round(r)
         IN /\ q \in Seq(Inner)
            /\ r.addr % PageSize = 0 =>
                 /\ Len(q) = 5 /\ q[1] = "wait" /\ q[2] = "rx" /\ q[3] = "RX" /\ q[4] = "wait"
                 /\ q[5] = "next"
            /\ r.addr % PageSize # 0 =>
                 Len(q) = 4 /\ q[1] = "rx" /\ q[2] = "RX" /\ q[3] = "wait" /\ q[4] = "next"
<1> DEFINE a == IF r.addr % PageSize = 0 THEN <<"wait">> ELSE <<>>
           b == <<"rx", "RX", "wait">>
           d == <<"next">>
<1>1. "wait" \in Inner /\ "rx" \in Inner /\ "RX" \in Inner /\ "next" \in Inner
  BY DEF Inner
<1>2. W!Round(r) = a \o b \o d
  BY DEF W!Round, W!ReadCycle
<1>3. /\ a \in Seq(Inner)
      /\ r.addr % PageSize = 0 => Len(a) = 1 /\ a[1] = "wait"
      /\ r.addr % PageSize # 0 => Len(a) = 0
  BY <1>1, Few
<1>4. b \in Seq(Inner) /\ Len(b) = 3 /\ b[1] = "rx" /\ b[2] = "RX" /\ b[3] = "wait"
  BY <1>1, Few
<1>5. d \in Seq(Inner) /\ Len(d) = 1 /\ d[1] = "next"
  BY <1>1, Few
<1> HIDE DEF a, b, d
<1> DEFINE e == a \o b
           q == e \o d
<1>6. CASE r.addr % PageSize = 0
  <2>1. /\ e \in Seq(Inner) /\ Len(e) = 1 + 3 /\ \A j \in 1 .. 1 : e[j] = a[j]
        /\ \A j \in 1 .. 3 : e[1 + j] = b[j]
    <3>1. /\ e \in Seq(Inner) /\ Len(e) = Len(a) + Len(b)
          /\ \A j \in 1 .. Len(a) : e[j] = a[j]
          /\ \A j \in 1 .. Len(b) : e[Len(a) + j] = b[j]
      BY <1>3, <1>4, <1>6, Joined
    <3> HIDE DEF e
    <3> QED BY <1>3, <1>4, <1>6, <3>1
  <2> HIDE DEF e
  <2>2. /\ Len(e) = 4 /\ e[1] = "wait" /\ e[1 + 1] = b[1] /\ e[1 + 2] = b[2] /\ e[1 + 3] = b[3]
    BY <1>3, <1>6, <2>1
  <2>3. /\ q \in Seq(Inner) /\ Len(q) = 4 + 1 /\ \A j \in 1 .. 4 : q[j] = e[j]
        /\ \A j \in 1 .. 1 : q[4 + j] = d[j]
    <3>1. /\ q \in Seq(Inner) /\ Len(q) = Len(e) + Len(d)
          /\ \A j \in 1 .. Len(e) : q[j] = e[j]
          /\ \A j \in 1 .. Len(d) : q[Len(e) + j] = d[j]
      BY <1>5, <2>1, <2>2, Joined
    <3> HIDE DEF q
    <3> QED BY <1>5, <2>1, <2>2, <3>1
  <2>4. W!Round(r) = q
    BY <1>2 DEF e
  <2> HIDE DEF q
  <2>5. q[4 + 1] = d[1]
    BY <2>3
  <2> QED BY <1>4, <1>5, <1>6, <2>2, <2>3, <2>4, <2>5
<1>7. CASE r.addr % PageSize # 0
  <2>1. /\ e \in Seq(Inner) /\ Len(e) = 0 + 3 /\ \A j \in 1 .. 3 : e[0 + j] = b[j]
    <3>1. /\ e \in Seq(Inner) /\ Len(e) = Len(a) + Len(b)
          /\ \A j \in 1 .. Len(a) : e[j] = a[j]
          /\ \A j \in 1 .. Len(b) : e[Len(a) + j] = b[j]
      BY <1>3, <1>4, <1>7, Joined
    <3> HIDE DEF e
    <3> QED BY <1>3, <1>4, <1>7, <3>1
  <2> HIDE DEF e
  <2>2. /\ Len(e) = 3 /\ e[0 + 1] = b[1] /\ e[0 + 2] = b[2] /\ e[0 + 3] = b[3]
    BY <2>1
  <2>3. /\ q \in Seq(Inner) /\ Len(q) = 3 + 1 /\ \A j \in 1 .. 3 : q[j] = e[j]
        /\ \A j \in 1 .. 1 : q[3 + j] = d[j]
    <3>1. /\ q \in Seq(Inner) /\ Len(q) = Len(e) + Len(d)
          /\ \A j \in 1 .. Len(e) : q[j] = e[j]
          /\ \A j \in 1 .. Len(d) : q[Len(e) + j] = d[j]
      BY <1>5, <2>1, <2>2, Joined
    <3> HIDE DEF q
    <3> QED BY <1>5, <2>1, <2>2, <3>1
  <2>4. W!Round(r) = q
    BY <1>2 DEF e
  <2> HIDE DEF q
  <2>5. q[3 + 1] = d[1]
    BY <2>3
  <2> QED BY <1>4, <1>5, <1>7, <2>2, <2>3, <2>4, <2>5
<1> QED BY <1>6, <1>7

(* What a short script is made of.                                         *)
LEMMA Short ==
  ASSUME NEW A, NEW a \in A, NEW b \in A, NEW c \in A, NEW d \in A, NEW e \in A, NEW f \in A
  PROVE  /\ <<a, b>> \in Seq(A) /\ <<a, b, c>> \in Seq(A)
         /\ <<a, b, c, d, c, e, c, f>> \in Seq(A)
<1>1. <<a, b>> \in Seq(A)
  OBVIOUS
<1>2. <<a, b, c>> \in Seq(A)
  OBVIOUS
<1>3. <<a, b, c, d, c, e, c, f>> \in Seq(A)
  OBVIOUS
<1> QED BY <1>1, <1>2, <1>3

(* A call follows the order of its statements, from its opening ...        *)
LEMMA OpeningFollows ==
  ASSUME NEW k \in QspiKinds \ {"id"}
  PROVE  /\ Follows(W!Opening(k), k) /\ W!Opening(k) # <<>>
         /\ k \in {"read", "write"} => Head(W!Opening(k)) = "enter"
         /\ k \in {"erase", "block"} => Head(W!Opening(k)) = "wait" /\ W!Opening(k)[2] = "enter"
         /\ k = "chip" => Head(W!Opening(k)) = "clear"
         /\ k # "chip" => \A j \in 1 .. Len(W!Opening(k)) : W!Opening(k)[j] # "erase"
         /\ k = "chip" => \E j \in 1 .. Len(W!Opening(k)) : W!Opening(k)[j] = "erase"
<1> DEFINE q == W!Opening(k)
<1>1. CASE k \in {"read", "write"}
  <2>1. q = <<"enter", "next">>
    BY <1>1 DEF W!Opening
  <2>2. Len(q) = 2 /\ q[1] = "enter" /\ q[2] = "next" /\ q \in Seq(Tokens(k)) /\ Head(q) = "enter" /\ q # <<>>
    <3>1. "enter" \in Tokens(k) /\ "next" \in Tokens(k)
      BY <1>1 DEF Tokens
    <3>2. q \in Seq(Tokens(k))
      BY <2>1, <3>1, Short
    <3> QED BY <2>1, <3>2
  <2> HIDE DEF q
  <2>3. \A j \in 1 .. 2 : j = 1 \/ j = 2
    OBVIOUS
  <2>4. Follows(q, k) /\ \A j \in 1 .. Len(q) : q[j] # "erase"
    BY <1>1, <2>2, <2>3 DEF Follows, Commands
  <2> QED BY <1>1, <2>2, <2>4 DEF q
<1>2. CASE k \in {"erase", "block"}
  <2>1. q = <<"wait", "enter", "next">>
    BY <1>2 DEF W!Opening
  <2>2. /\ Len(q) = 3 /\ q[1] = "wait" /\ q[2] = "enter" /\ q[3] = "next" /\ q \in Seq(Tokens(k))
        /\ Head(q) = "wait" /\ q # <<>>
    <3>1. "wait" \in Tokens(k) /\ "enter" \in Tokens(k) /\ "next" \in Tokens(k)
      BY <1>2 DEF Tokens
    <3>2. q \in Seq(Tokens(k))
      BY <2>1, <3>1, Short
    <3> QED BY <2>1, <3>2
  <2> HIDE DEF q
  <2>3. \A j \in 1 .. 3 : j = 1 \/ j = 2 \/ j = 3
    OBVIOUS
  <2>4. Follows(q, k) /\ \A j \in 1 .. Len(q) : q[j] # "erase"
    BY <1>2, <2>2, <2>3 DEF Follows, Commands
  <2> QED BY <1>2, <2>2, <2>4 DEF q
<1>3. CASE k = "chip"
  <2>1. q = <<"clear", "enter", "wait", "we", "wait", "erase", "wait", "next">>
    BY <1>3 DEF W!Opening
  <2>2. Len(q) = 8 /\ q # <<>> /\ Head(q) = "clear"
    BY <2>1
  <2>3. q \in Seq(Tokens(k))
    <3>1. \A x \in {"clear", "enter", "wait", "we", "erase", "next"} : x \in Tokens(k)
      BY <1>3 DEF Tokens
    <3>2. /\ "clear" \in Tokens(k) /\ "enter" \in Tokens(k) /\ "wait" \in Tokens(k)
          /\ "we" \in Tokens(k) /\ "erase" \in Tokens(k) /\ "next" \in Tokens(k)
      BY <3>1
    <3> QED BY <2>1, <3>2, Short
  <2>4. /\ q[1] = "clear" /\ q[2] = "enter" /\ q[3] = "wait" /\ q[4] = "we" /\ q[5] = "wait"
        /\ q[6] = "erase" /\ q[7] = "wait" /\ q[8] = "next"
    BY <2>1
  <2> HIDE DEF q
  <2>5. \A j \in 1 .. 8 : j = 1 \/ j = 2 \/ j = 3 \/ j = 4 \/ j = 5 \/ j = 6 \/ j = 7 \/ j = 8
    OBVIOUS
  <2>6. \A j \in 1 .. Len(q) : q[j] = "erase" => j = 6
    BY <2>2, <2>4, <2>5
  <2>7. \A j \in 1 .. Len(q) : j > 1 =>
          /\ q[j] \in Commands \cup {"rx"} => q[j - 1] = "wait"
          /\ q[j] = "next" => q[j - 1] = "wait"
          /\ q[j] \in {"tx", "erase"} /\ j > 2 => q[j - 2] = "we"
    BY <2>2, <2>4, <2>5 DEF Commands
  <2>8. Follows(q, k)
    <3>1. \A j \in 1 .. Len(q) : q[j] = "next" => j = Len(q)
      BY <2>2, <2>4, <2>5
    <3> QED BY <1>3, <2>3, <2>6, <2>7, <3>1 DEF Follows
  <2>9. \E j \in 1 .. Len(q) : q[j] = "erase"
    BY <2>2, <2>4
  <2> QED BY <1>3, <2>2, <2>8, <2>9 DEF q
<1> QED BY <1>1, <1>2, <1>3 DEF QspiKinds

(* ... in every round, ...                                                 *)
LEMMA RoundFollows ==
  ASSUME NEW r, r.kind \in {"read", "write", "erase", "block"}
  PROVE  /\ Follows(W!Round(r), r.kind) /\ W!Round(r) # <<>>
         /\ \/ Head(W!Round(r)) = "wait" /\ Len(W!Round(r)) > 1 /\ W!Round(r)[2] \notin {"tx", "erase"}
            \/ Head(W!Round(r)) = "rx" /\ r.kind = "read" /\ r.addr % PageSize # 0
<1> DEFINE q == W!Round(r)
<1>0. \A A : q \in Seq(Inner) /\ (\A j \in 1 .. Len(q) : q[j] \in A) => q \in Seq(A)
  BY SeqDef
<1>1. CASE r.kind = "write"
  <2>1. /\ q \in Seq(Inner) /\ Len(q) = 10
        /\ q[1] = "wait" /\ q[2] = "we" /\ q[3] = "wait" /\ q[4] = "tx" /\ q[5] = "TX"
        /\ q[6] = "wait" /\ q[7] = "wait" /\ q[8] = "wd" /\ q[9] = "wait" /\ q[10] = "next"
    BY <1>1, WriteRound
  <2> HIDE DEF q
  <2>2. \A j \in 1 .. 10 : \/ j = 1 \/ j = 2 \/ j = 3 \/ j = 4 \/ j = 5
                           \/ j = 6 \/ j = 7 \/ j = 8 \/ j = 9 \/ j = 10
    OBVIOUS
  <2>8. \A j \in 1 .. Len(q) : q[j] = "next" => j = Len(q)
    BY <2>1, <2>2
  <2>3. \A j \in 1 .. Len(q) : q[j] \in Tokens("write") /\ q[j] # "erase" /\ q[j] # "enter" /\ q[j] # "rx"
    BY <2>1, <2>2 DEF Tokens
  <2>4. \A j \in 1 .. Len(q) : j > 1 =>
          /\ q[j] \in Commands \cup {"rx"} => q[j - 1] = "wait"
          /\ q[j] = "next" => q[j - 1] = "wait"
          /\ q[j] \in {"tx", "erase"} /\ j > 2 => q[j - 2] = "we"
    BY <2>1, <2>2 DEF Commands
  <2>5. q \in Seq(Tokens("write"))
    BY <1>0, <2>1, <2>3
  <2>6. Follows(q, r.kind)
    BY <1>1, <2>3, <2>4, <2>5, <2>8 DEF Follows
  <2>7. q # <<>> /\ Head(q) = "wait"
    <3>1. q \in Seq(Inner) /\ Len(q) # 0 /\ q[1] = "wait"
      BY <2>1
    <3> QED BY <3>1, EmptySeq
  <2> QED BY <2>1, <2>6, <2>7 DEF q
<1>2. CASE r.kind \in {"erase", "block"}
  <2>1. /\ q \in Seq(Inner) /\ Len(q) = 9
        /\ q[1] = "wait" /\ q[2] = "we" /\ q[3] = "wait" /\ q[4] = "erase" /\ q[5] = "wait"
        /\ q[6] = "wait" /\ q[7] = "wd" /\ q[8] = "wait" /\ q[9] = "next"
    BY <1>2, EraseRound
  <2> HIDE DEF q
  <2>2. \A j \in 1 .. 9 : \/ j = 1 \/ j = 2 \/ j = 3 \/ j = 4 \/ j = 5
                          \/ j = 6 \/ j = 7 \/ j = 8 \/ j = 9
    OBVIOUS
  <2>8. \A j \in 1 .. Len(q) : q[j] = "next" => j = Len(q)
    BY <2>1, <2>2
  <2>3. \A j \in 1 .. Len(q) : q[j] \in Tokens(r.kind) /\ (q[j] = "erase" => j = 4) /\ q[j] # "enter" /\ q[j] # "rx"
    BY <1>2, <2>1, <2>2 DEF Tokens
  <2>4. \A j \in 1 .. Len(q) : j > 1 =>
          /\ q[j] \in Commands \cup {"rx"} => q[j - 1] = "wait"
          /\ q[j] = "next" => q[j - 1] = "wait"
          /\ q[j] \in {"tx", "erase"} /\ j > 2 => q[j - 2] = "we"
    BY <2>1, <2>2 DEF Commands
  <2>5. q \in Seq(Tokens(r.kind))
    BY <1>0, <2>1, <2>3
  <2>6. Follows(q, r.kind)
    BY <2>3, <2>4, <2>5, <2>8 DEF Follows
  <2>7. q # <<>> /\ Head(q) = "wait"
    <3>1. q \in Seq(Inner) /\ Len(q) # 0 /\ q[1] = "wait"
      BY <2>1
    <3> QED BY <3>1, EmptySeq
  <2> QED BY <2>1, <2>6, <2>7 DEF q
<1>3. CASE r.kind = "read"
  <2>1. /\ q \in Seq(Inner)
        /\ r.addr % PageSize = 0 =>
             /\ Len(q) = 5 /\ q[1] = "wait" /\ q[2] = "rx" /\ q[3] = "RX" /\ q[4] = "wait"
             /\ q[5] = "next"
        /\ r.addr % PageSize # 0 =>
             Len(q) = 4 /\ q[1] = "rx" /\ q[2] = "RX" /\ q[3] = "wait" /\ q[4] = "next"
    BY <1>3, ReadRound
  <2> DEFINE b == r.addr % PageSize
  <2>2. (b = 0 \/ b # 0) /\ b = r.addr % PageSize
    OBVIOUS
  <2>3. b = 0 => /\ Len(q) = 5 /\ q[1] = "wait" /\ q[2] = "rx" /\ q[3] = "RX" /\ q[4] = "wait"
                 /\ q[5] = "next"
    BY <2>1
  <2>4. b # 0 => Len(q) = 4 /\ q[1] = "rx" /\ q[2] = "RX" /\ q[3] = "wait" /\ q[4] = "next"
    BY <2>1
  <2> HIDE DEF q, b
  <2>5. \A j \in 1 .. 5 : j = 1 \/ j = 2 \/ j = 3 \/ j = 4 \/ j = 5
    OBVIOUS
  <2>6. \A j \in 1 .. 4 : j = 1 \/ j = 2 \/ j = 3 \/ j = 4
    OBVIOUS
  <2>13. \A j \in 1 .. Len(q) : q[j] = "next" => j = Len(q)
    <3>1. CASE b = 0
      BY <2>3, <2>5, <3>1
    <3>2. CASE b # 0
      BY <2>4, <2>6, <3>2
    <3> QED BY <3>1, <3>2
  <2>7. \A j \in 1 .. Len(q) : q[j] \in Tokens("read") /\ q[j] # "erase" /\ q[j] # "enter" /\ q[j] \notin Commands
    <3>1. CASE b = 0
      BY <2>3, <2>5, <3>1 DEF Tokens, Commands
    <3>2. CASE b # 0
      BY <2>4, <2>6, <3>2 DEF Tokens, Commands
    <3> QED BY <3>1, <3>2
  <2>8. \A j \in 1 .. Len(q) : j > 1 =>
          /\ q[j] = "rx" => q[j - 1] = "wait"
          /\ q[j] = "next" => q[j - 1] = "wait"
    <3>1. CASE b = 0
      <4>1. /\ Len(q) = 5 /\ q[1] = "wait" /\ q[2] = "rx" /\ q[3] = "RX" /\ q[4] = "wait"
            /\ q[5] = "next"
        BY <2>3, <3>1
      <4>2. \A j \in 1 .. 5 : (q[j] = "rx" => j = 2) /\ (q[j] = "next" => j = 5)
        BY <2>5, <4>1
      <4>3. q[2 - 1] = "wait" /\ q[5 - 1] = "wait"
        BY <4>1
      <4> QED BY <4>1, <4>2, <4>3
    <3>2. CASE b # 0
      <4>1. Len(q) = 4 /\ q[1] = "rx" /\ q[2] = "RX" /\ q[3] = "wait" /\ q[4] = "next"
        BY <2>4, <3>2
      <4>2. \A j \in 1 .. 4 : (q[j] = "rx" => j = 1) /\ (q[j] = "next" => j = 4)
        BY <2>6, <4>1
      <4>3. q[4 - 1] = "wait"
        BY <4>1
      <4> QED BY <4>1, <4>2, <4>3
    <3> QED BY <3>1, <3>2
  <2>9. q \in Seq(Tokens("read"))
    BY <1>0, <2>1, <2>7 DEF q
  <2>10. Follows(q, r.kind)
    BY <1>3, <2>7, <2>8, <2>9, <2>13 DEF Follows, Commands
  <2>11. CASE b = 0
    <3>1. q # <<>> /\ Head(q) = "wait" /\ Len(q) > 1 /\ q[2] = "rx"
      <4>1. Len(q) = 5 /\ q[1] = "wait" /\ q[2] = "rx"
        BY <2>3, <2>11
      <4>2. q # <<>>
        BY <2>9, <4>1, EmptySeq
      <4> QED BY <2>9, <4>1, <4>2
    <3> QED BY <2>10, <3>1 DEF q
  <2>12. CASE b # 0
    <3>1. q # <<>> /\ Head(q) = "rx"
      <4>1. Len(q) = 4 /\ q[1] = "rx"
        BY <2>4, <2>12
      <4>2. q # <<>>
        BY <2>9, <4>1, EmptySeq
      <4> QED BY <2>9, <4>1, <4>2
    <3> QED BY <1>3, <2>2, <2>10, <2>12, <3>1 DEF q, b
  <2> QED BY <2>11, <2>12
<1> QED BY <1>1, <1>2, <1>3

(* ... and statement by statement.                                         *)
LEMMA Popped ==
  ASSUME NEW q, NEW a, Follows(q, a.kind), q # <<>>, Tail(q) # <<>>,
         NEW l, NEW m, NEW ready \in BOOLEAN, NEW latched \in BOOLEAN, NEW ready2 \in BOOLEAN, NEW latched2 \in BOOLEAN,
         Placed(q, a, l, ready, latched),
         a.kind \in QspiKinds,
         Head(q) = "wait" => ready2 /\ (latched => latched2),
         Head(q) = "we" => (ready => ready2) /\ latched2,
         Head(q) = "enter" => (ready => ready2),
         Head(q) \notin {"rx", "tx", "erase"} => m = l
  PROVE  /\ Follows(Tail(q), a.kind) /\ Placed(Tail(q), a, m, ready2, latched2)
         /\ Head(q) \in Tokens(a.kind)
<1> DEFINE t == Tail(q)
<1>1. /\ q \in Seq(Tokens(a.kind)) /\ t \in Seq(Tokens(a.kind)) /\ Len(t) = Len(q) - 1
      /\ \A j \in 1 .. Len(t) : t[j] = q[j + 1]
  BY HeadTailProperties DEF Follows
<1>2. Len(q) \in Nat /\ Len(q) >= 1 /\ Head(q) = q[1] /\ q[1] \in Tokens(a.kind)
  BY <1>1, EmptySeq, LenProperties, ElementOfSeq
<1> HIDE DEF t
<1>3. \A j \in 1 .. Len(t) : j + 1 \in 1 .. Len(q) /\ t[j] = q[j + 1] /\ j + 1 > 1 /\ (j + 1) - 1 = j
  BY <1>1, <1>2
<1>4. \A j \in 1 .. Len(t) : j > 1 => j - 1 \in 1 .. Len(t) /\ t[j - 1] = q[j] /\ (j + 1) - 2 = j - 1 /\ j + 1 > 2
  <2>1. ASSUME NEW j \in 1 .. Len(t), j > 1
        PROVE  j - 1 \in 1 .. Len(t) /\ (j - 1) + 1 = j /\ (j + 1) - 2 = j - 1 /\ j + 1 > 2
    BY <1>1, <1>2, <2>1
  <2> QED BY <1>3, <2>1
<1>5. \A j \in 1 .. Len(t) : j > 2 => t[j - 2] = q[j - 1]
  <2>1. ASSUME NEW j \in 1 .. Len(t), j > 2
        PROVE  j - 2 \in 1 .. Len(t) /\ (j - 2) + 1 = j - 1
    BY <1>1, <1>2, <2>1
  <2> QED BY <1>3, <2>1
<1>6. \A j \in 1 .. Len(q) : j > 1 =>
        /\ q[j] \in Commands \cup {"rx"} => q[j - 1] = "wait"
        /\ q[j] = "next" => q[j - 1] = "wait" \/ (q[j - 1] = "enter" /\ a.kind # "chip")
        /\ q[j] = "enter" => a.kind \in {"erase", "block", "chip"} /\ (q[j - 1] = "wait" \/ a.kind = "chip")
        /\ q[j] \in {"tx", "erase"} /\ j > 2 => q[j - 2] = "we"
  BY DEF Follows
<1>7. /\ \A j, n \in 1 .. Len(q) : q[j] = "erase" /\ q[n] = "erase" => j = n
      /\ \A j \in 1 .. Len(q) : q[j] = "next" => j = Len(q)
  BY DEF Follows
<1>8. Follows(t, a.kind)
  <2>1. ASSUME NEW j \in 1 .. Len(t), j > 1
        PROVE  /\ t[j] \in Commands \cup {"rx"} => t[j - 1] = "wait"
               /\ t[j] = "next" => t[j - 1] = "wait" \/ (t[j - 1] = "enter" /\ a.kind # "chip")
               /\ t[j] = "enter" => a.kind \in {"erase", "block", "chip"} /\ (t[j - 1] = "wait" \/ a.kind = "chip")
               /\ t[j] \in {"tx", "erase"} /\ j > 2 => t[j - 2] = "we"
    <3>1. j + 1 \in 1 .. Len(q) /\ t[j] = q[j + 1] /\ j + 1 > 1 /\ t[j - 1] = q[(j + 1) - 1]
      BY <1>3, <1>4, <2>1
    <3>2. t[j] \in {"tx", "erase"} /\ j > 2 => t[j - 2] = "we"
      <4>1. ASSUME t[j] \in {"tx", "erase"}, j > 2
            PROVE  t[j - 2] = "we"
        <5>1. q[(j + 1) - 2] = "we"
          BY <1>4, <1>6, <2>1, <3>1, <4>1
        <5>2. (j + 1) - 2 = j - 1
          OBVIOUS
        <5> QED BY <1>5, <4>1, <5>1, <5>2
      <4> QED BY <4>1
    <3>3. /\ t[j] \in Commands \cup {"rx"} => t[j - 1] = "wait"
          /\ t[j] = "next" => t[j - 1] = "wait" \/ (t[j - 1] = "enter" /\ a.kind # "chip")
          /\ t[j] = "enter" => a.kind \in {"erase", "block", "chip"} /\ (t[j - 1] = "wait" \/ a.kind = "chip")
      BY <1>6, <3>1
    <3> QED BY <3>2, <3>3
  <2>2. ASSUME NEW j \in 1 .. Len(t), NEW n \in 1 .. Len(t), t[j] = "erase", t[n] = "erase"
        PROVE  j = n
    <3>1. j + 1 \in 1 .. Len(q) /\ q[j + 1] = "erase"
      BY <1>3, <2>2
    <3>2. n + 1 \in 1 .. Len(q) /\ q[n + 1] = "erase"
      BY <1>3, <2>2
    <3>3. j + 1 = n + 1
      BY <1>7, <3>1, <3>2
    <3> QED BY <3>3
  <2>3. ASSUME NEW j \in 1 .. Len(t), t[j] = "next"
        PROVE  j = Len(t)
    <3>1. j + 1 \in 1 .. Len(q) /\ q[j + 1] = "next"
      BY <1>3, <2>3
    <3>2. j + 1 = Len(q)
      BY <1>7, <3>1
    <3> QED BY <1>1, <1>2, <3>2
  <2> QED BY <1>1, <2>1, <2>2, <2>3 DEF Follows
<1>9. /\ Len(q) > 1 /\ Head(t) = q[2] /\ q[2 - 1] = Head(q) /\ 2 \in 1 .. Len(q)
      /\ Len(t) > 1 => t[2] = q[3] /\ 3 \in 1 .. Len(q) /\ q[3 - 2] = Head(q)
  <2>1. Len(t) \in Nat \ {0} /\ Head(t) = t[1]
    BY <1>1, EmptySeq DEF t
  <2>2. t[1] = q[1 + 1]
    BY <1>3, <2>1
  <2>3. Len(t) > 1 => t[2] = q[2 + 1] /\ 2 + 1 \in 1 .. Len(q)
    BY <1>3, <2>1
  <2> QED BY <1>1, <1>2, <2>1, <2>2, <2>3
<1> DEFINE h == Head(q)
<1>10. /\ q[2] \in Commands \cup {"rx"} => h = "wait"
       /\ q[2] = "next" => h = "wait" \/ (h = "enter" /\ a.kind # "chip")
       /\ q[2] = "enter" => a.kind \in {"erase", "block", "chip"} /\ (h = "wait" \/ a.kind = "chip")
       /\ Len(t) > 1 /\ q[3] \in {"tx", "erase"} => h = "we"
  BY <1>6, <1>9
<1>11. /\ h \in Commands => ready
       /\ h = "enter" => ready \/ (a.kind \in {"read", "write"} /\ l.len = a.len) \/ a.kind = "chip"
       /\ h \in {"tx", "erase"} => latched
       /\ h = "wait" /\ q[2] \in {"tx", "erase"} => latched
       /\ a.kind = "block" /\ l.len = 0 => \A j \in 1 .. Len(q) : q[j] # "erase"
  BY <1>9 DEF Placed
<1>12. Head(t) \in Commands \cup {"rx"} => ready2
  BY <1>9, <1>10
<1>13. Head(t) = "enter" => ready2 \/ a.kind = "chip"
  BY <1>9, <1>10
<1>14. Head(t) = "next" => ready2 \/ (a.kind \in {"read", "write"} /\ m.len = a.len)
  <2>1. h = "enter" => m = l
    OBVIOUS
  <2> QED BY <1>9, <1>10, <1>11, <2>1
<1>15. Head(t) \in {"tx", "erase"} => latched2
  BY <1>9, <1>10, <1>11 DEF Commands
<1>16. Head(t) = "wait" /\ Len(t) > 1 /\ t[2] \in {"tx", "erase"} => ready2 /\ latched2
  <2>1. "we" \in Commands
    BY DEF Commands
  <2> QED BY <1>9, <1>10, <1>11, <2>1
<1>17. ASSUME a.kind = "block", m.len = 0
       PROVE  \A j \in 1 .. Len(t) : t[j] # "erase"
  <2>1. h \in Tokens("block")
    BY <1>2, <1>17
  <2>2. CASE h = "erase"
    <3>1. ASSUME NEW j \in 1 .. Len(t), t[j] = "erase"
          PROVE  FALSE
      <4>1. 1 = j + 1
        BY <1>2, <1>3, <1>7, <2>2, <3>1
      <4> QED BY <4>1
    <3> QED BY <3>1
  <2>3. CASE h # "erase"
    <3>1. m = l
      BY <2>1, <2>3 DEF Tokens
    <3> QED BY <1>3, <1>11, <1>17, <3>1
  <2> QED BY <2>2, <2>3
<1>18. Placed(t, a, m, ready2, latched2)
  <2>1. Head(t) \in Commands => ready2
    BY <1>12
  <2>2. Head(t) = "rx" => ready2
    BY <1>12
  <2> QED BY <2>1, <2>2, <1>13, <1>14, <1>15, <1>16, <1>17 DEF Placed
<1> QED BY <1>2, <1>8, <1>18 DEF t

(* The statements of the opening of a call, and of what is left of it.     *)
LEMMA WholeParts ==
  ASSUME NEW r, r.kind \in QspiKinds
  PROVE  /\ Whole(W!Opening(r.kind)) /\ W!Opening(r.kind) # <<>>
         /\ r.kind \notin {"chip", "id"} => Whole(W!Round(r)) /\ W!Round(r) # <<>>
<1>1. \A x \in {"clear", "enter", "next", "wait", "erase", "we", "rx", "RX"} : x \in Tests
  BY DEF Tests, Inner
<1>2. /\ "clear" \in Tests /\ "enter" \in Tests /\ "next" \in Tests /\ "wait" \in Tests
      /\ "erase" \in Tests /\ "we" \in Tests /\ "rx" \in Tests /\ "RX" \in Tests
  BY <1>1
<1> DEFINE q == W!Opening(r.kind)
<1>3. Whole(q) /\ q # <<>>
  <2>1. CASE r.kind \in {"read", "write"}
    <3>1. q = <<"enter", "next">>
      BY <2>1 DEF W!Opening
    <3> QED BY <1>2, <3>1, Short DEF Whole
  <2>2. CASE r.kind \in {"erase", "block"}
    <3>1. q = <<"wait", "enter", "next">>
      BY <2>2 DEF W!Opening
    <3> QED BY <1>2, <3>1, Short DEF Whole
  <2>3. CASE r.kind = "chip"
    <3>1. q = <<"clear", "enter", "wait", "we", "wait", "erase", "wait", "next">>
      BY <2>3 DEF W!Opening
    <3>2. q \in Seq(Tests)
      BY <1>2, <3>1, Short
    <3>3. Len(q) = 8 /\ q[8] = "next" /\ q # <<>>
      BY <3>1
    <3> QED BY <3>2, <3>3 DEF Whole
  <2>4. CASE r.kind = "id"
    <3>1. q = <<"rx", "RX", "next">>
      BY <2>4 DEF W!Opening
    <3> QED BY <1>2, <3>1, Short DEF Whole
  <2> QED BY <2>1, <2>2, <2>3, <2>4 DEF QspiKinds
<1>4. ASSUME r.kind \notin {"chip", "id"}
      PROVE  Whole(W!Round(r)) /\ W!Round(r) # <<>>
  <2> DEFINE s == W!Round(r)
  <2>1. s \in Seq(Inner) /\ Len(s) \in Nat \ {0} /\ s[Len(s)] = "next"
    <3>1. CASE r.kind = "read"
      BY <3>1, ReadRound
    <3>2. CASE r.kind = "write"
      <4>1. s \in Seq(Inner) /\ Len(s) = 10 /\ s[10] = "next"
        BY <3>2, WriteRound
      <4> HIDE DEF s
      <4> QED BY <4>1
    <3>3. CASE r.kind \in {"erase", "block"}
      <4>1. s \in Seq(Inner) /\ Len(s) = 9 /\ s[9] = "next"
        BY <3>3, EraseRound
      <4> HIDE DEF s
      <4> QED BY <4>1
    <3> QED BY <1>4, <3>1, <3>2, <3>3 DEF QspiKinds
  <2> HIDE DEF s
  <2>2. s \in Seq(Tests)
    BY <2>1, SeqMonotonic DEF Tests
  <2>3. s # <<>>
    BY <2>1, EmptySeq
  <2> QED BY <2>1, <2>2, <2>3 DEF Whole, s
<1> QED BY <1>3, <1>4 DEF q

(* Something is left until the test for the next round is taken.           *)
LEMMA WholeTail ==
  ASSUME NEW q, Whole(q), q # <<>>, Head(q) # "next"
  PROVE  Whole(Tail(q)) /\ Tail(q) # <<>>
<1> DEFINE t == Tail(q)
<1>1. /\ q \in Seq(Tests) /\ t \in Seq(Tests) /\ Len(t) = Len(q) - 1
      /\ \A j \in 1 .. Len(t) : t[j] = q[j + 1]
  BY HeadTailProperties DEF Whole
<1>2. Len(q) \in Nat \ {0} /\ Len(t) \in Nat /\ q[Len(q)] = "next" /\ Head(q) = q[1]
  BY <1>1, EmptySeq, LenProperties DEF Whole
<1> HIDE DEF t
<1>3. Len(q) # 1
  BY <1>2
<1>4. Len(t) \in 1 .. Len(t) /\ Len(t) + 1 = Len(q)
  BY <1>1, <1>2, <1>3
<1>5. t[Len(t)] = "next"
  BY <1>1, <1>2, <1>4
<1>6. Len(t) # 0
  BY <1>4
<1>7. t # <<>>
  BY <1>1, <1>6, EmptySeq
<1> QED BY <1>1, <1>5, <1>7 DEF Whole, t

(* A step of one process, the transfer and the chip.                       *)
LEMMA OwnStep ==
  ASSUME DoneInv, NEW p \in Users, W!Active(p), Whole(script'[p]),
         \A q \in Users \ {p} : /\ script'[q] = script[q] /\ alone'[q] = alone[q]
                                /\ done'[q] = done[q] /\ deaf'[q] = deaf[q],
         DOMAIN done' = Users, DOMAIN deaf' = Users, DOMAIN alone' = Users,
         busy' \in BOOLEAN, wel' \in BOOLEAN, DOMAIN xfer' = {"dir", "by", "addr", "len"},
         xfer'.by # 0 => (W!Active(p)' /\ xfer'.by = p) \/ (xfer'.by = xfer.by /\ xfer.by # p),
         ~ W!Active(p)' => done'[p] = {} /\ ~ deaf'[p],
         W!Active(p)' /\ alone'[p] => alone[p] /\ Good(p)'
  PROVE  DoneInv'
<1>1. \A q \in Users \ {p} : W!Active(q)' <=> W!Active(q)
  BY DEF W!Active
<1>2. Owned'
  <2>1. /\ \A q \in Users : Whole(script'[q])
        /\ \A q \in Users : ~ W!Active(q)' => done'[q] = {} /\ ~ deaf'[q]
    BY <1>1 DEF DoneInv, Owned
  <2>2. xfer'.by # 0 => xfer'.by \in Users /\ script'[xfer'.by] # <<>>
    <3>1. ASSUME xfer'.by # 0, xfer'.by = xfer.by, xfer.by # p
          PROVE  xfer'.by \in Users /\ script'[xfer'.by] # <<>>
      <4>1. xfer.by \in Users /\ script[xfer.by] # <<>>
        BY <3>1 DEF DoneInv, Owned, W!Active
      <4>2. script'[xfer.by] = script[xfer.by]
        BY <3>1, <4>1
      <4> QED BY <3>1, <4>1, <4>2
    <3>2. ASSUME W!Active(p)', xfer'.by = p
          PROVE  xfer'.by \in Users /\ script'[xfer'.by] # <<>>
      BY <3>2 DEF W!Active
    <3> QED BY <3>1, <3>2
  <2>3. xfer'.by # 0 => xfer'.by \in Users /\ W!Active(xfer.by)'
    BY <2>2 DEF W!Active
  <2> QED BY <2>1, <2>3 DEF Owned
<1>3. ASSUME NEW q \in Users, W!Active(q)', alone'[q]
      PROVE  Good(q)' /\ \A n \in Users \ {q} : ~ W!Active(n)'
  <2>1. CASE q = p
    BY <1>1, <1>3, <2>1 DEF DoneInv
  <2>2. CASE q # p
    <3>1. W!Active(q) /\ alone[q]
      BY <1>1, <1>3, <2>2
    <3>2. ~ W!Active(p)
      BY <2>2, <3>1 DEF DoneInv
    <3> QED BY <3>2
  <2> QED BY <2>1, <2>2
<1> QED BY <1>2, <1>3 DEF DoneInv

(* What a statement that starts nothing leaves, if wel may change.         *)
LEMMA PoppedKept ==
  ASSUME NEW q, NEW a, Follows(q, a.kind), q # <<>>, Tail(q) # <<>>, a.kind \in QspiKinds,
         NEW l, NEW ready \in BOOLEAN, NEW latched \in BOOLEAN, NEW latched2 \in BOOLEAN,
         Placed(q, a, l, ready, latched), Head(q) \notin {"rx", "tx", "erase"},
         Head(q) = "wait" => ready /\ (latched => latched2), Head(q) = "we" => latched2
  PROVE  Follows(Tail(q), a.kind) /\ Placed(Tail(q), a, l, ready, latched2)
<1>1. /\ Head(q) = "wait" => ready /\ (latched => latched2)
      /\ Head(q) = "we" => (ready => ready) /\ latched2
      /\ Head(q) = "enter" => (ready => ready)
      /\ Head(q) \notin {"rx", "tx", "erase"} => l = l
  OBVIOUS
<1> QED BY <1>1, Popped

(* A chip erase whose command is to be sent has it to send afterwards.     *)
LEMMA ClearedKept ==
  ASSUME NEW q, Whole(q), q # <<>>, Head(q) # "erase", NEW d, Cleared(d, q)
  PROVE  Cleared(d, Tail(q))
<1> DEFINE t == Tail(q)
<1>1. /\ q \in Seq(Tests) /\ Len(t) = Len(q) - 1 /\ t \in Seq(Tests)
      /\ \A j \in 1 .. Len(t) : t[j] = q[j + 1]
  BY HeadTailProperties DEF Whole
<1>2. Len(q) \in Nat /\ Head(q) = q[1]
  BY <1>1, LenProperties
<1> HIDE DEF t
<1>3. ASSUME NEW j \in 1 .. Len(q), q[j] = "erase"
      PROVE  \E m \in 1 .. Len(t) : t[m] = "erase"
  <2>1. j # 1
    BY <1>2, <1>3
  <2>2. j - 1 \in 1 .. Len(t) /\ (j - 1) + 1 = j
    BY <1>1, <1>2, <2>1
  <2>3. t[j - 1] = "erase"
    BY <1>1, <1>3, <2>2
  <2> QED BY <2>2, <2>3
<1> QED BY <1>3 DEF Cleared, t

(* A statement that leaves transfer, chip and request as they are, ...     *)
LEMMA PopDone ==
  ASSUME DoneInv, QspiTypes, NEW p \in Users, W!Active(p), W!Pop(p),
         Head(script[p]) \in {"enter", "clear", "wait", "RX", "TX", "we", "wd"},
         UNCHANGED <<xfer, busy, left, done, deaf, asked, alone>>,
         Head(script[p]) \notin {"we", "wd"} => wel' = wel,
         Head(script[p]) \in {"we", "wd"} => W!HalFree /\ wel' \in BOOLEAN,
         Head(script[p]) = "we" => wel' \/ busy,
         Head(script[p]) = "wait" => W!HalFree /\ ~ busy
  PROVE  DoneInv'
<1> DEFINE q == script[p]
<1>1. /\ script'[p] = Tail(q) /\ \A n \in Users \ {p} : script'[n] = script[n]
  BY DEF W!Pop, QspiTypes
<1>2. Whole(q) /\ q # <<>> /\ busy \in BOOLEAN /\ wel \in BOOLEAN
  BY DEF DoneInv, Owned, W!Active
<1>3. Whole(Tail(q)) /\ Tail(q) # <<>>
  BY <1>2, WholeTail
<1>4. wel' \in BOOLEAN /\ busy' = busy
  BY <1>2
<1>5. ASSUME alone[p], asked[p].kind # "id"
      PROVE  Good(p)'
  <2>1. /\ Follows(q, asked[p].kind) /\ Placed(q, asked[p], left[p], Ready, wel)
        /\ Progress(p, asked[p], left[p])
    BY <1>5 DEF DoneInv, Good
  <2>2. asked[p].kind \in QspiKinds
    BY <1>2 DEF QspiTypes, Fits
  <2>3. Ready \in BOOLEAN /\ Ready' = Ready
    BY <1>2 DEF Ready, W!HalFree, W!NoXfer
  <2>4. /\ Head(q) = "wait" => Ready /\ (wel => wel')
        /\ Head(q) = "we" => (Ready => Ready) /\ (wel' \/ ~ Ready)
    BY DEF Ready
  <2>5. Head(q) = "we" => Ready
    BY <2>1 DEF Placed, Commands
  <2>6. Follows(Tail(q), asked[p].kind) /\ Placed(Tail(q), asked[p], left[p], Ready, wel')
    <3>1. /\ q # <<>> /\ Tail(q) # <<>> /\ wel \in BOOLEAN /\ Ready \in BOOLEAN
          /\ Follows(q, asked[p].kind) /\ Placed(q, asked[p], left[p], Ready, wel)
          /\ Head(q) = "wait" => Ready /\ (wel => wel')
      BY <1>2, <1>3, <2>1, <2>3, <2>4
    <3>2. Head(q) = "we" => wel'
      BY <2>4, <2>5
    <3>3. Head(q) \notin {"rx", "tx", "erase"}
      OBVIOUS
    <3> QED BY <1>4, <2>2, <3>1, <3>2, <3>3, PoppedKept
  <2>7. xfer.by = p => wel' = wel
    <3>1. W!HalFree => xfer.by = 0
      BY DEF W!HalFree, W!NoXfer
    <3>2. 0 \notin Users
      BY W25qAssumption
    <3> QED BY <3>1, <3>2
  <2>8. Progress(p, asked[p], left[p])'
    BY <1>4, <2>1, <2>7 DEF Progress, Under
  <2>9. asked[p].kind = "chip" => Cleared(done'[p], Tail(q))
    BY <1>2, <1>5, ClearedKept DEF DoneInv, Good
  <2> QED BY <1>1, <2>3, <2>6, <2>8, <2>9 DEF Good
<1>6. W!Active(p)' /\ alone' = alone
  BY <1>1, <1>3 DEF W!Active
<1>7. Good(p)' \/ ~ alone[p]
  <2>1. asked'[p].kind = "id" => Good(p)'
    BY DEF Good
  <2> QED BY <1>5, <2>1
<1>8. /\ DOMAIN done' = Users /\ DOMAIN deaf' = Users /\ DOMAIN alone' = Users
      /\ DOMAIN xfer' = {"dir", "by", "addr", "len"}
      /\ xfer'.by # 0 => (W!Active(p)' /\ xfer'.by = p) \/ (xfer'.by = xfer.by /\ xfer.by # p)
  BY <1>6 DEF DoneInv, Owned
<1> QED BY <1>1, <1>2, <1>3, <1>4, <1>6, <1>7, <1>8, OwnStep

(* ... the return of a call, ...                                           *)
LEMMA ReturnDone ==
  ASSUME DoneInv, QspiTypes, NEW p \in Users, W!Active(p), NEW s, W!Return(p, s)
  PROVE  DoneInv'
<1> USE DEF W!Return
<1>1. /\ script'[p] = <<>> /\ done'[p] = {} /\ ~ deaf'[p]
      /\ \A q \in Users \ {p} : /\ script'[q] = script[q] /\ alone'[q] = alone[q]
                                /\ done'[q] = done[q] /\ deaf'[q] = deaf[q]
      /\ DOMAIN done' = Users /\ DOMAIN deaf' = Users /\ DOMAIN alone' = Users
  BY DEF QspiTypes, DoneInv, Owned
<1>2. Whole(script'[p]) /\ ~ W!Active(p)'
  BY <1>1, EmptySeq DEF Whole, W!Active
<1>3. xfer'.by # 0 => xfer'.by = xfer.by /\ xfer.by # p
  <2>1. CASE xfer.by = p
    <3>1. xfer' = [xfer EXCEPT !.by = 0]
      BY <2>1
    <3>2. "by" \in DOMAIN xfer
      BY DEF DoneInv, Owned
    <3> QED BY <3>1, <3>2
  <2>2. CASE xfer.by # p
    BY <2>2
  <2> QED BY <2>1, <2>2
<1>4. busy' \in BOOLEAN /\ wel' \in BOOLEAN /\ DOMAIN xfer' = {"dir", "by", "addr", "len"}
  BY DEF DoneInv, Owned
<1> QED BY <1>1, <1>2, <1>3, <1>4, OwnStep

(* ... the next round, ...                                                 *)
LEMMA RoundDone ==
  ASSUME DoneInv, QspiTypes, NEW p \in Users, W!Active(p), left[p].len > 0,
         script' = [script EXCEPT ![p] = W!Round(left[p])],
         UNCHANGED <<xfer, busy, wel, left, asked, done, deaf, alone>>
  PROVE  DoneInv'
<1> DEFINE q == W!Round(left[p])
<1>1. script'[p] = q /\ \A n \in Users \ {p} : script'[n] = script[n]
  BY DEF QspiTypes
<1>2. /\ left[p].kind = asked[p].kind /\ left[p].kind \in QspiKinds
      /\ left[p].kind \notin {"chip", "id"}
  BY DEF QspiTypes, Fits, W!Active
<1>3. Whole(q) /\ q # <<>>
  BY <1>2, WholeParts
<1>4. left[p].kind \in {"read", "write", "erase", "block"}
  BY <1>2 DEF QspiKinds
<1>5. /\ Follows(q, left[p].kind)
      /\ \/ Head(q) = "wait" /\ Len(q) > 1 /\ q[2] \notin {"tx", "erase"}
         \/ Head(q) = "rx" /\ left[p].kind = "read" /\ left[p].addr % PageSize # 0
  BY <1>4, RoundFollows
<1> HIDE DEF q
<1>6. ASSUME alone[p]
      PROVE  Good(p)'
  <2>1. Progress(p, asked[p], left[p])
    BY <1>2, <1>6 DEF DoneInv, Good
  <2>2. left[p].len \in Nat /\ left[p].len # 0
    BY <2>1 DEF Progress
  <2>3. Head(q) = "rx" => left[p].addr = asked[p].addr /\ left[p].addr % PageSize # 0
    BY <1>2, <1>5, <2>1, <2>2 DEF Progress
  <2>4. Placed(q, asked[p], left[p], Ready, wel)
    BY <1>5, <2>2, <2>3 DEF Placed, Commands
  <2>5. Ready' = Ready /\ Progress(p, asked[p], left[p])'
    BY <2>1 DEF Ready, W!HalFree, Progress, Under
  <2> QED BY <1>1, <1>2, <1>5, <2>4, <2>5 DEF Good
<1>7. W!Active(p)' /\ W!Active(p)
  BY <1>1, <1>3 DEF W!Active
<1>8. /\ DOMAIN done' = Users /\ DOMAIN deaf' = Users /\ DOMAIN alone' = Users
      /\ DOMAIN xfer' = {"dir", "by", "addr", "len"} /\ busy' \in BOOLEAN /\ wel' \in BOOLEAN
      /\ xfer'.by # 0 => (W!Active(p)' /\ xfer'.by = p) \/ (xfer'.by = xfer.by /\ xfer.by # p)
  BY <1>7 DEF DoneInv, Owned
<1> QED BY <1>1, <1>3, <1>6, <1>7, <1>8, OwnStep

(* What a command leaves, whatever the chip is.                            *)
LEMMA PoppedCommand ==
  ASSUME NEW q, NEW a, Follows(q, a.kind), q # <<>>, Tail(q) # <<>>, a.kind \in QspiKinds,
         NEW l, NEW m, NEW ready \in BOOLEAN, NEW latched \in BOOLEAN,
         Placed(q, a, l, ready, latched), Head(q) \in {"rx", "tx", "erase"}
  PROVE  Follows(Tail(q), a.kind) /\ Placed(Tail(q), a, m, FALSE, latched) /\ Head(q) \in Tokens(a.kind)
<1>1. /\ Head(q) = "wait" => FALSE /\ (latched => latched)
      /\ Head(q) = "we" => (ready => FALSE) /\ latched
      /\ Head(q) = "enter" => (ready => FALSE)
      /\ Head(q) \notin {"rx", "tx", "erase"} => m = l
  OBVIOUS
<1> QED BY <1>1, Popped

(* What a chunk advances.                                                  *)
LEMMA Chunk ==
  ASSUME NEW p, DOMAIN left = Users, p \in Users, DOMAIN left[p] = {"kind", "addr", "len"},
         W!Advance(p)
  PROVE  /\ DOMAIN left' = Users /\ \A n \in Users \ {p} : left'[n] = left[n]
         /\ left'[p].addr = left[p].addr + W!Size(left[p])
         /\ left'[p].len = IF left[p].len > W!Size(left[p]) THEN left[p].len - W!Size(left[p]) ELSE 0
         /\ left'[p].kind = left[p].kind
<1> DEFINE n == W!Size(left[p])
           r == left[p]
<1>1. left' = [left EXCEPT ![p] = [r EXCEPT !.addr = r.addr + n,
                                            !.len = IF r.len > n THEN r.len - n ELSE 0]]
  BY DEF W!Advance
<1> HIDE DEF n
<1>2. left'[p] = [r EXCEPT !.addr = r.addr + n, !.len = IF r.len > n THEN r.len - n ELSE 0]
  BY <1>1
<1>3. /\ left'[p].addr = r.addr + n /\ left'[p].kind = r.kind
      /\ left'[p].len = IF r.len > n THEN r.len - n ELSE 0
  BY <1>2
<1> QED BY <1>1, <1>3 DEF n

(* What is done and the chunk reach to the address that is next.           *)
LEMMA ChunkSum ==
  ASSUME NEW a \in Nat, NEW c \in Nat, c <= a, NEW l \in Nat, NEW n \in Nat, n <= l,
         NEW b, b = a + n, NEW m, m = IF l > n THEN l - n ELSE 0
  PROVE  /\ b \in Nat /\ m \in Nat /\ c <= b /\ b + m = a + l
         /\ (c .. a - 1) \cup (a .. b - 1) = c .. b - 1
<1>1. m = l - n
  OBVIOUS
<1>2. b \in Nat /\ m \in Nat /\ c <= b /\ b + m = a + l
  BY <1>1
<1> QED BY <1>2

(* The chip erases the block whose number is asked, or its 64 KB.          *)
LEMMA ErasedBlock ==
  ASSUME NEW r, r.kind = "block", r.addr \in Nat
  PROVE  W!Erased(r) = W!Pieces({r.addr})
<1> DEFINE d == 32 * KB
           e == 64 * KB
           x == r.addr
           y == x * 32 * KB
           h == x \div 2
           b == x % 2
<1>0. KB \in Nat \ {0}
  BY W25qAssumption
<1>1. d \in Nat \ {0} /\ e = 2 * d /\ x \in Nat /\ y = x * d
  BY <1>0
<1>2. x = 2 * h + b /\ b \in 0 .. 1 /\ h \in Nat
  BY <1>1
<1>3. W!Erased(r) = IF Large THEN W!Halves(y \div e) ELSE {y \div d}
  BY DEF W!Erased, W!BlockAddress
<1> HIDE DEF d, e, x, y, b
<1>4. y \div d = x
  <2>1. x * d \in Nat /\ 0 \in 0 .. d - 1 /\ x * d = x * d + 0
    BY <1>1
  <2>2. (x * d) \div d = x
    BY <1>1, <2>1, DivisionUnique
  <2> QED BY <1>1, <2>2
<1>5. y \div e = h
  <2> HIDE DEF h
  <2>1. e \in Nat \ {0} /\ y \in Nat
    BY <1>1
  <2>2. b * d \in 0 .. e - 1
    <3>1. b = 0 \/ b = 1
      BY <1>2
    <3>2. 0 * d = 0 /\ 1 * d = d
      BY <1>1
    <3>3. 0 \in 0 .. 2 * d - 1 /\ d \in 0 .. 2 * d - 1
      BY <1>1
    <3> QED BY <1>1, <3>1, <3>2, <3>3
  <2>3. y = h * e + b * d
    <3>1. (2 * h + b) * d = h * (2 * d) + b * d
      BY <1>1, <1>2
    <3> QED BY <1>1, <1>2, <3>1
  <2> QED BY <1>2, <2>1, <2>2, <2>3, DivisionUnique
<1>6. W!Pieces({x}) = IF Large THEN W!Halves(h) ELSE {x}
  BY DEF W!Pieces
<1> QED BY <1>3, <1>4, <1>5, <1>6 DEF x

(* ... an erase command, ...                                               *)
LEMMA EraseDone ==
  ASSUME DoneInv, QspiTypes, NEW p \in Users, W!Active(p),
         Head(script[p]) = "erase", W!Erase(p), UNCHANGED <<asked, alone>>
  PROVE  DoneInv'
<1> DEFINE q == script[p]
           k == asked[p].kind
<1>0. /\ W!HalFree /\ W!Pop(p) /\ W!Advance(p) /\ busy' = (busy \/ wel)
      /\ done' = [done EXCEPT ![p] = IF wel /\ ~ busy THEN @ \cup W!Erased(left[p]) ELSE @]
      /\ xfer' = xfer /\ wel' = wel /\ deaf' = deaf /\ asked' = asked /\ alone' = alone
  BY DEF W!Erase
<1>1. /\ script'[p] = Tail(q) /\ \A n \in Users \ {p} : script'[n] = script[n]
  BY <1>0 DEF W!Pop, QspiTypes
<1>2. Whole(q) /\ q # <<>> /\ busy \in BOOLEAN /\ wel \in BOOLEAN
  BY DEF DoneInv, Owned, W!Active
<1>3. Whole(Tail(q)) /\ Tail(q) # <<>>
  BY <1>2, WholeTail
<1>4. DOMAIN left[p] = {"kind", "addr", "len"} /\ DOMAIN left = Users
  BY DEF QspiTypes, Fits
<1>5. xfer' = xfer /\ W!HalFree /\ xfer.by = 0 /\ 0 \notin Users
  BY <1>0, W25qAssumption DEF W!HalFree, W!NoXfer
<1>6. /\ DOMAIN done' = Users /\ DOMAIN deaf' = Users /\ DOMAIN alone' = Users
      /\ DOMAIN xfer' = {"dir", "by", "addr", "len"} /\ busy' \in BOOLEAN /\ wel' \in BOOLEAN
      /\ \A n \in Users \ {p} : done'[n] = done[n] /\ deaf'[n] = deaf[n]
  BY <1>0, <1>2, <1>5 DEF DoneInv, Owned
<1>7. ASSUME alone[p], k # "id"
      PROVE  Good(p)'
  <2>1. Follows(q, k) /\ Placed(q, asked[p], left[p], Ready, wel) /\ Progress(p, asked[p], left[p])
    BY <1>7 DEF DoneInv, Good
  <2>2. k \in QspiKinds /\ left[p].kind = k
    BY <1>2 DEF QspiTypes, Fits
  <2>3. Ready /\ wel
    BY <2>1 DEF Placed, Commands
  <2>4. Ready \in BOOLEAN /\ Ready' \in BOOLEAN
    BY DEF Ready
  <2>5. /\ Follows(Tail(q), k) /\ Placed(Tail(q), asked[p], left'[p], Ready', wel)
        /\ Head(q) \in Tokens(k)
    <3>1. /\ Follows(Tail(q), k) /\ Placed(Tail(q), asked[p], left'[p], FALSE, wel)
          /\ Head(q) \in Tokens(k)
      <4>1. Follows(q, k) /\ Placed(q, asked[p], left[p], Ready, wel) /\ Head(q) \in {"rx", "tx", "erase"}
        BY <2>1
      <4>2. q # <<>> /\ Tail(q) # <<>> /\ k \in QspiKinds /\ Ready \in BOOLEAN /\ wel \in BOOLEAN
        BY <1>2, <1>3, <2>2, <2>4
      <4> QED BY <4>1, <4>2, PoppedCommand
    <3>2. Placed(Tail(q), asked[p], left'[p], Ready', wel)
      BY <3>1, Zenon DEF Placed
    <3> QED BY <3>1, <3>2
  <2>6. k \in {"erase", "block", "chip"}
    <3>1. "erase" \notin Tokens("read") /\ "erase" \notin Tokens("write")
      BY DEF Tokens
    <3>2. k # "read" /\ k # "write"
      BY <2>5, <3>1
    <3> QED BY <1>7, <2>2, <3>2 DEF QspiKinds
  <2>7. W!Size(left[p]) = 1
    BY <2>2, <2>6 DEF W!Size
  <2>8. /\ left'[p].addr = left[p].addr + 1
        /\ left'[p].len = IF left[p].len > 1 THEN left[p].len - 1 ELSE 0
    BY <1>0, <1>4, <2>7, Chunk
  <2>9. /\ asked[p].addr \in Nat /\ asked[p].len \in Nat /\ left[p].addr \in Nat /\ left[p].len \in Nat
        /\ asked[p].addr <= left[p].addr
    BY <2>1 DEF Progress
  <2>10. /\ left'[p].addr \in Nat /\ left'[p].len \in Nat /\ asked[p].addr <= left'[p].addr
    BY <2>8, <2>9
  <2>11. ASSUME k = "block"
         PROVE  /\ left'[p].addr + left'[p].len = asked[p].addr + asked[p].len
                /\ done'[p] = W!Pieces(asked[p].addr .. left'[p].addr - 1)
    <3>1. /\ left[p].addr + left[p].len = asked[p].addr + asked[p].len
          /\ done[p] = W!Pieces(asked[p].addr .. left[p].addr - 1)
      BY <2>1, <2>11 DEF Progress
    <3>2. left[p].len # 0
      <4>1. Len(q) \in Nat \ {0} /\ q[1] = "erase"
        BY <1>2, <2>1, EmptySeq DEF Follows
      <4>2. 1 \in 1 .. Len(q)
        BY <4>1
      <4> QED BY <2>1, <2>11, <4>1, <4>2 DEF Placed
    <3>3. done'[p] = done[p] \cup W!Pieces({left[p].addr})
      <4>1. W!Erased(left[p]) = W!Pieces({left[p].addr})
        BY <2>2, <2>9, <2>11, ErasedBlock
      <4> QED BY <1>0, <2>3, <4>1 DEF Ready, DoneInv, Owned
    <3>4. 1 \in Nat /\ 1 <= left[p].len
      BY <2>9, <3>2
    <3>5. /\ left'[p].addr + left'[p].len = left[p].addr + left[p].len
          /\ (asked[p].addr .. left[p].addr - 1) \cup (left[p].addr .. left'[p].addr - 1)
               = asked[p].addr .. left'[p].addr - 1
      <4> DEFINE from == asked[p].addr
                 at0 == left[p].addr
                 len0 == left[p].len
                 at1 == left'[p].addr
                 len1 == left'[p].len
      <4>1. /\ from \in Nat /\ at0 \in Nat /\ len0 \in Nat /\ from <= at0 /\ 1 <= len0
            /\ at1 = at0 + 1 /\ len1 = IF len0 > 1 THEN len0 - 1 ELSE 0
        BY <2>8, <2>9, <3>4
      <4> HIDE DEF from, at0, len0, at1, len1
      <4>2. at1 + len1 = at0 + len0 /\ (from .. at0 - 1) \cup (at0 .. at1 - 1) = from .. at1 - 1
        BY <4>1
      <4> QED BY <4>2 DEF from, at0, len0, at1, len1
    <3>6. left[p].addr .. left'[p].addr - 1 = {left[p].addr}
      BY <2>8, <2>9
    <3> DEFINE Before == asked[p].addr .. left[p].addr - 1
               Now == {left[p].addr}
               SoFar == asked[p].addr .. left'[p].addr - 1
    <3>7. SoFar = Before \cup Now /\ done'[p] = W!Pieces(Before) \cup W!Pieces(Now)
      BY <3>1, <3>3, <3>5, <3>6
    <3> HIDE DEF Before, Now, SoFar
    <3>8. done'[p] = W!Pieces(SoFar)
      BY <3>7 DEF W!Pieces
    <3> QED BY <3>1, <3>5, <3>8 DEF SoFar
  <2>12. xfer'.by # p
    BY <1>5
  <2>13. Progress(p, asked[p], left[p])'
    BY <1>0, <2>6, <2>9, <2>10, <2>11, <2>12 DEF Progress
  <2>14. ASSUME k = "chip"
         PROVE  done'[p] = W!Chip
    <3>1. W!Erased(left[p]) = W!Chip
      BY <2>2, <2>14 DEF W!Erased
    <3>2. done[p] = {} \/ done[p] = W!Chip
      BY <1>7, <2>14 DEF DoneInv, Good, Cleared
    <3>3. done'[p] = done[p] \cup W!Chip
      BY <1>0, <2>3, <3>1 DEF Ready, DoneInv, Owned
    <3> QED BY <3>2, <3>3
  <2> QED BY <1>0, <1>1, <2>5, <2>13, <2>14 DEF Good, Cleared
<1>8. Good(p)' \/ ~ alone[p]
  <2>1. asked'[p].kind = "id" => Good(p)'
    BY DEF Good
  <2> QED BY <1>0, <1>7, <2>1
<1>9. W!Active(p)' /\ alone' = alone
  BY <1>0, <1>1, <1>3 DEF W!Active
<1> QED BY <1>0, <1>1, <1>3, <1>5, <1>6, <1>8, <1>9, OwnStep

(* A chunk ends with the request or at the end of a page.                  *)
LEMMA ChunkFacts ==
  ASSUME NEW a \in Nat, NEW n \in Nat
  PROVE  /\ W!WriteChunk(a, n) \in Nat /\ W!WriteChunk(a, n) <= n
         /\ (a % PageSize) + W!WriteChunk(a, n) <= PageSize
         /\ W!ReadChunk(a, n) \in Nat
         /\ W!ReadChunk(a, n) >= n \/ (a + W!ReadChunk(a, n)) % PageSize = 0
<1> DEFINE b == a % PageSize
           d == a \div PageSize
<1>1. PageSize \in Nat \ {0}
  BY W25qAssumption
<1>2. b \in 0 .. PageSize - 1 /\ d \in Nat /\ a = PageSize * d + b
  BY <1>1, Division
<1>3. /\ W!InPage(a, n) = IF n <= PageSize - b THEN n ELSE PageSize - b
      /\ W!WriteChunk(a, n) = W!InPage(a, n)
      /\ W!ReadChunk(a, n) = IF b = 0 THEN PageSize ELSE W!InPage(a, n)
  BY DEF W!InPage, W!WriteChunk, W!ReadChunk
<1>4. (a + (PageSize - b)) % PageSize = 0
  <2> DEFINE x == a + (PageSize - b)
  <2>1. x \in Nat /\ d + 1 \in Int /\ 0 \in 0 .. PageSize - 1 /\ x = (d + 1) * PageSize + 0
    <3>1. (d + 1) * PageSize = PageSize * d + PageSize
      BY <1>1, <1>2
    <3> HIDE DEF b, d
    <3> QED BY <1>1, <1>2, <3>1
  <2> HIDE DEF x
  <2>2. x % PageSize = 0
    BY <1>1, <2>1, DivisionUnique
  <2> QED BY <2>2 DEF x
<1> HIDE DEF b, d
<1>5. W!WriteChunk(a, n) \in Nat /\ W!WriteChunk(a, n) <= n /\ b + W!WriteChunk(a, n) <= PageSize
  BY <1>1, <1>2, <1>3
<1>6. W!ReadChunk(a, n) \in Nat
  BY <1>1, <1>2, <1>3
<1>7. W!ReadChunk(a, n) >= n \/ W!ReadChunk(a, n) = PageSize - b
  BY <1>1, <1>2, <1>3
<1>8. W!ReadChunk(a, n) >= n \/ (a + W!ReadChunk(a, n)) % PageSize = 0
  BY <1>4, <1>7
<1> QED BY <1>5, <1>6, <1>8 DEF b

(* ... a transfer, ...                                                     *)
LEMMA StartDone ==
  ASSUME DoneInv, QspiTypes, NEW p \in Users, W!Active(p), NEW dir \in {"rx", "tx"},
         Head(script[p]) = dir, W!Start(p, dir), UNCHANGED <<asked, alone>>
  PROVE  DoneInv'
<1> DEFINE q == script[p]
           k == asked[p].kind
           n == W!Size(left[p])
<1>0. /\ W!HalFree /\ W!Pop(p) /\ W!Advance(p)
      /\ xfer' = [dir |-> dir, by |-> p, addr |-> left[p].addr, len |-> n]
      /\ deaf' = [deaf EXCEPT ![p] = @ \/ (dir = "rx" /\ busy)]
      /\ busy' = busy /\ wel' = wel /\ done' = done /\ asked' = asked /\ alone' = alone
  BY DEF W!Start
<1>1. /\ script'[p] = Tail(q) /\ \A m \in Users \ {p} : script'[m] = script[m]
  BY <1>0 DEF W!Pop, QspiTypes
<1>2. Whole(q) /\ q # <<>> /\ busy \in BOOLEAN /\ wel \in BOOLEAN
  BY DEF DoneInv, Owned, W!Active
<1>3. Whole(Tail(q)) /\ Tail(q) # <<>>
  BY <1>2, WholeTail
<1>4. DOMAIN left[p] = {"kind", "addr", "len"} /\ DOMAIN left = Users
  BY DEF QspiTypes, Fits
<1>5. /\ xfer.by = 0 /\ 0 \notin Users
  BY <1>0, W25qAssumption DEF W!HalFree, W!NoXfer
<1>6. xfer'.by = p /\ xfer'.dir = dir /\ xfer'.addr = left[p].addr /\ xfer'.len = n
  BY <1>0
<1>7. /\ DOMAIN done' = Users /\ DOMAIN deaf' = Users /\ DOMAIN alone' = Users
      /\ DOMAIN xfer' = {"dir", "by", "addr", "len"} /\ busy' \in BOOLEAN /\ wel' \in BOOLEAN
      /\ \A m \in Users \ {p} : done'[m] = done[m] /\ deaf'[m] = deaf[m]
  BY <1>0, <1>2 DEF DoneInv, Owned
<1>8. deaf'[p] <=> deaf[p] \/ (dir = "rx" /\ busy)
  BY <1>0 DEF DoneInv, Owned
<1>9. /\ left'[p].addr = left[p].addr + n
      /\ left'[p].len = IF left[p].len > n THEN left[p].len - n ELSE 0
  BY <1>0, <1>4, Chunk
<1>10. ASSUME alone[p], k # "id"
       PROVE  Good(p)'
  <2>1. Follows(q, k) /\ Placed(q, asked[p], left[p], Ready, wel) /\ Progress(p, asked[p], left[p])
    BY <1>10 DEF DoneInv, Good
  <2>2. k \in QspiKinds /\ left[p].kind = k
    BY <1>2 DEF QspiTypes, Fits
  <2>3. Ready \in BOOLEAN /\ ~ Ready'
    BY <1>6, <1>5 DEF Ready, W!HalFree, W!NoXfer
  <2>4. Head(q) \in {"rx", "tx", "erase"}
    OBVIOUS
  <2>5. /\ Follows(Tail(q), k) /\ Placed(Tail(q), asked[p], left'[p], FALSE, wel)
        /\ Head(q) \in Tokens(k)
    BY <1>2, <1>3, <2>1, <2>2, <2>3, <2>4, PoppedCommand
  <2>6. Placed(Tail(q), asked[p], left'[p], Ready', wel)
    BY <2>5, Zenon DEF Placed
  <2>7. (k = "read" /\ dir = "rx") \/ (k = "write" /\ dir = "tx")
    <3>1. "tx" \notin Tokens("read") /\ "rx" \notin Tokens("write")
      BY DEF Tokens
    <3>2. k \in {"erase", "block", "chip"} => Tokens(k) = {"clear", "enter", "next", "wait", "we", "wd", "erase"}
      BY DEF Tokens
    <3>3. k \notin {"erase", "block", "chip"}
      BY <2>5, <3>2
    <3>4. k \in {"read", "write"}
      BY <1>10, <2>2, <3>3 DEF QspiKinds
    <3> QED BY <2>5, <3>1, <3>4
  <2>8. /\ asked[p].addr \in Nat /\ asked[p].len \in Nat /\ left[p].addr \in Nat /\ left[p].len \in Nat
        /\ asked[p].addr <= left[p].addr /\ asked[p].len > 0
    BY <2>1, <2>7 DEF Progress
  <2>9. Under(p) = {} /\ Under(p)' = left[p].addr .. left[p].addr + n - 1
    BY <1>5, <1>6 DEF Under, W!Covered
  <2>10. CASE k = "write"
    <3>1. n = W!WriteChunk(left[p].addr, left[p].len)
      BY <2>2, <2>10 DEF W!Size
    <3>2. n \in Nat /\ n <= left[p].len /\ (left[p].addr % PageSize) + n <= PageSize
      BY <2>8, <3>1, ChunkFacts
    <3> HIDE DEF n
    <3>3. /\ left'[p].addr \in Nat /\ left'[p].len \in Nat /\ asked[p].addr <= left'[p].addr
          /\ left'[p].addr + left'[p].len = left[p].addr + left[p].len
          /\ (asked[p].addr .. left[p].addr - 1) \cup (left[p].addr .. left'[p].addr - 1)
               = asked[p].addr .. left'[p].addr - 1
      BY <1>9, <2>8, <3>2, ChunkSum
    <3>4. /\ left[p].addr + left[p].len = asked[p].addr + asked[p].len
          /\ done[p] \cup Under(p) = asked[p].addr .. left[p].addr - 1
      BY <2>1, <2>10 DEF Progress
    <3>5. done'[p] \cup Under(p)' = asked[p].addr .. left'[p].addr - 1
      <4>1. done'[p] = done[p] /\ done[p] = asked[p].addr .. left[p].addr - 1
        BY <1>0, <2>9, <3>4
      <4>2. Under(p)' = left[p].addr .. left'[p].addr - 1
        BY <1>9, <2>8, <2>9, <3>2
      <4> QED BY <3>3, <4>1, <4>2
    <3>6. wel /\ ~ busy
      BY <2>1, <2>7, <2>10 DEF Placed, Ready, Commands
    <3>7. Progress(p, asked[p], left[p])'
      BY <1>0, <1>6, <2>7, <2>8, <2>10, <3>2, <3>3, <3>4, <3>5, <3>6 DEF Progress
    <3> QED BY <1>0, <1>1, <2>5, <2>6, <2>10, <3>7 DEF Good
  <2>11. CASE k = "read"
    <3>1. n = W!ReadChunk(left[p].addr, left[p].len)
      BY <2>2, <2>11 DEF W!Size
    <3>2. n \in Nat /\ (n >= left[p].len \/ (left[p].addr + n) % PageSize = 0)
      BY <2>8, <3>1, ChunkFacts
    <3> HIDE DEF n
    <3>3. /\ left'[p].addr \in Nat /\ left'[p].len \in Nat /\ asked[p].addr <= left'[p].addr
          /\ left'[p].addr + left'[p].len >= left[p].addr + left[p].len
      BY <1>9, <2>8, <3>2
    <3>4. left'[p].len = 0 \/ left'[p].addr % PageSize = 0
      <4>1. CASE n >= left[p].len
        <5>1. ~ (left[p].len > n)
          BY <2>8, <3>2, <4>1
        <5> QED BY <1>9, <5>1
      <4>2. CASE (left[p].addr + n) % PageSize = 0
        BY <1>9, <4>2
      <4> QED BY <3>2, <4>1, <4>2
    <3>5. /\ left[p].addr + left[p].len >= asked[p].addr + asked[p].len
          /\ \/ deaf[p] /\ asked[p].addr % PageSize # 0
             \/ asked[p].addr .. left[p].addr - 1 \subseteq done[p] \cup Under(p)
      BY <2>1, <2>11 DEF Progress
    <3>6. left'[p].addr + left'[p].len >= asked[p].addr + asked[p].len
      BY <2>8, <3>3, <3>5
    <3>7. \/ deaf'[p] /\ asked[p].addr % PageSize # 0
          \/ asked[p].addr .. left'[p].addr - 1 \subseteq done'[p] \cup Under(p)' /\ ~ busy
      <4>1. CASE deaf[p] /\ asked[p].addr % PageSize # 0
        BY <1>8, <4>1
      <4>2. CASE asked[p].addr .. left[p].addr - 1 \subseteq done[p] /\ busy
        <5>1. left[p].addr = asked[p].addr /\ left[p].addr % PageSize # 0
          BY <2>1, <2>7, <2>11, <4>2 DEF Placed, Ready
        <5> QED BY <1>8, <2>7, <2>11, <4>2, <5>1
      <4>3. CASE asked[p].addr .. left[p].addr - 1 \subseteq done[p] /\ ~ busy
        <5>1. asked[p].addr .. left'[p].addr - 1
                \subseteq (asked[p].addr .. left[p].addr - 1) \cup (left[p].addr .. left[p].addr + n - 1)
          BY <1>9, <2>8, <3>2
        <5> QED BY <1>0, <2>9, <4>3, <5>1
      <4> QED BY <1>2, <2>9, <3>5, <4>1, <4>2, <4>3
    <3>8. Progress(p, asked[p], left[p])'
      BY <1>0, <1>6, <2>7, <2>8, <2>11, <3>3, <3>4, <3>6, <3>7 DEF Progress
    <3> QED BY <1>0, <1>1, <2>5, <2>6, <2>11, <3>8 DEF Good
  <2> QED BY <2>7, <2>10, <2>11
<1>11. Good(p)' \/ ~ alone[p]
  <2>1. asked'[p].kind = "id" => Good(p)'
    BY DEF Good
  <2> QED BY <1>0, <1>10, <2>1
<1>12. W!Active(p)' /\ alone' = alone
  BY <1>0, <1>1, <1>3 DEF W!Active
<1> QED BY <1>0, <1>1, <1>3, <1>6, <1>7, <1>11, <1>12, OwnStep

(* ... and the call itself, which is alone if no other one is under way.   *)
LEMMA CallDone ==
  ASSUME DoneInv, QspiTypes, NEW p \in Users, NEW r \in Requests[p], W!Call(p, r)
  PROVE  DoneInv'
<1>0. /\ ~ W!Active(p)
      /\ script' = [script EXCEPT ![p] = W!Opening(r.kind)]
      /\ left' = [left EXCEPT ![p] = IF r.kind \in {"chip", "id"} THEN [r EXCEPT !.len = 0] ELSE r]
      /\ asked' = [asked EXCEPT ![p] = r]
      /\ alone' = [q \in Users |-> IF q = p THEN W!Others(p) = {} ELSE alone[q] /\ ~ W!Active(q)]
      /\ xfer' = xfer /\ busy' = busy /\ wel' = wel /\ done' = done /\ deaf' = deaf
  BY DEF W!Call, W!flash
<1>1. /\ r \in [kind : QspiKinds, addr : Nat, len : Nat]
      /\ r.kind \in {"read", "write"} => r.len > 0
  BY W25qAssumption DEF QspiKinds
<1>2. /\ script'[p] = W!Opening(r.kind) /\ \A q \in Users \ {p} : script'[q] = script[q]
      /\ asked'[p] = r
      /\ left'[p] = IF r.kind \in {"chip", "id"} THEN [r EXCEPT !.len = 0] ELSE r
  BY <1>0 DEF QspiTypes
<1>3. Whole(script'[p]) /\ script'[p] # <<>>
  BY <1>1, <1>2, WholeParts
<1>4. W!Active(p)' /\ \A q \in Users \ {p} : W!Active(q)' <=> W!Active(q)
  BY <1>2, <1>3 DEF W!Active
<1>5. done[p] = {} /\ ~ deaf[p] /\ xfer.by # p
  <2>1. 0 \notin Users
    BY W25qAssumption
  <2> QED BY <1>0, <2>1 DEF DoneInv, Owned
<1>6. Owned'
  <2>1. xfer'.by # 0 => xfer.by \in Users /\ W!Active(xfer.by)
    BY <1>0 DEF DoneInv, Owned
  <2>2. \A q \in Users : W!Active(q) => script'[q] # <<>>
    BY <1>0, <1>4 DEF W!Active
  <2>3. xfer'.by # 0 => xfer'.by \in Users /\ W!Active(xfer.by)'
    BY <1>0, <2>1, <2>2 DEF W!Active
  <2>4. /\ \A q \in Users : Whole(script'[q])
        /\ \A q \in Users : ~ W!Active(q)' => done'[q] = {} /\ ~ deaf'[q]
    BY <1>0, <1>2, <1>3, <1>4 DEF DoneInv, Owned
  <2>5. /\ DOMAIN done' = Users /\ DOMAIN deaf' = Users /\ DOMAIN alone' = Users
        /\ busy' \in BOOLEAN /\ wel' \in BOOLEAN /\ DOMAIN xfer' = {"dir", "by", "addr", "len"}
    BY <1>0 DEF DoneInv, Owned
  <2> QED BY <2>3, <2>4, <2>5 DEF Owned
<1>7. ASSUME r.kind # "id"
      PROVE  Good(p)'
  <2> DEFINE o == W!Opening(r.kind)
  <2>1. r.kind \in QspiKinds \ {"id"}
    BY <1>1, <1>7
  <2>2. /\ Follows(o, r.kind) /\ o # <<>>
        /\ r.kind \in {"read", "write"} => Head(o) = "enter"
        /\ r.kind \in {"erase", "block"} => Head(o) = "wait" /\ o[2] = "enter"
        /\ r.kind = "chip" => Head(o) = "clear"
        /\ r.kind # "chip" => \A j \in 1 .. Len(o) : o[j] # "erase"
        /\ r.kind = "chip" => \E j \in 1 .. Len(o) : o[j] = "erase"
    BY <2>1, OpeningFollows
  <2> HIDE DEF o
  <2>3. /\ left'[p].addr = r.addr /\ left'[p].len \in Nat
        /\ r.kind # "chip" => left'[p].len = r.len
    BY <1>1, <1>2, <1>7
  <2>4. Head(o) \in {"enter", "wait", "clear"} /\ (Head(o) = "wait" => o[2] = "enter")
    BY <2>1, <2>2 DEF QspiKinds
  <2>5. Head(o) = "enter" => r.kind \in {"read", "write"} /\ left'[p].len = r.len
    BY <2>1, <2>2, <2>3 DEF QspiKinds
  <2>6. Placed(o, r, left'[p], FALSE, wel)
    BY <2>2, <2>4, <2>5 DEF Placed, Commands
  <2>7. Placed(o, r, left'[p], Ready', wel)
    BY <2>6, Zenon DEF Placed
  <2>8. Under(p)' = {} /\ xfer'.by # p /\ done'[p] = {}
    BY <1>0, <1>5 DEF Under
  <2>9. r.addr .. r.addr - 1 = {} /\ W!Pieces({}) = {}
    BY <1>1 DEF W!Pieces
  <2>10. Progress(p, r, left[p])'
    BY <1>1, <1>7, <2>3, <2>8, <2>9 DEF Progress
  <2>11. r.kind = "chip" => Cleared(done'[p], o)
    BY <2>2, <2>8 DEF Cleared
  <2> QED BY <1>0, <1>2, <2>2, <2>7, <2>10, <2>11 DEF Good, o
<1>8. Good(p)'
  BY <1>2, <1>7 DEF Good
<1>9. alone'[p] => \A q \in Users \ {p} : ~ W!Active(q)'
  BY <1>0, <1>4 DEF W!Others
<1>10. ASSUME NEW q \in Users \ {p}, W!Active(q)', alone'[q]
       PROVE  FALSE
  BY <1>0, <1>4, <1>10
<1> QED BY <1>6, <1>8, <1>9, <1>10 DEF DoneInv

(* What the chip programs of a chunk that stays in its page.               *)
LEMMA Programs ==
  ASSUME NEW a \in Nat, NEW n \in Nat, (a % PageSize) + n <= PageSize
  PROVE  {(a - (a % PageSize)) + (j % PageSize) : j \in W!Covered(a % PageSize, n)} = W!Covered(a, n)
<1> DEFINE b == a % PageSize
           P == {(a - b) + (j % PageSize) : j \in W!Covered(b, n)}
<1>1. PageSize \in Nat \ {0}
  BY W25qAssumption
<1>2. b \in 0 .. PageSize - 1
  BY <1>1, Division
<1>3. b + n <= PageSize
  OBVIOUS
<1> HIDE DEF b
<1>4. \A j \in b .. b + n - 1 : j % PageSize = j
  <2>1. ASSUME NEW j \in b .. b + n - 1
        PROVE  j % PageSize = j
    <3>1. j \in Nat /\ j \in 0 .. PageSize - 1 /\ j = 0 * PageSize + j
      BY <1>1, <1>2, <1>3
    <3> QED BY <1>1, <3>1, DivisionUnique
  <2> QED BY <2>1
<1>5. \A j \in b .. b + n - 1 : (a - b) + (j % PageSize) \in a .. a + n - 1
  <2>1. ASSUME NEW j \in b .. b + n - 1
        PROVE  (a - b) + j \in a .. a + n - 1
    BY <1>2, <2>1
  <2> QED BY <1>4, <2>1
<1>6. \A x \in a .. a + n - 1 : \E j \in b .. b + n - 1 : x = (a - b) + (j % PageSize)
  <2>1. ASSUME NEW x \in a .. a + n - 1
        PROVE  \E j \in b .. b + n - 1 : x = (a - b) + (j % PageSize)
    <3>1. x - (a - b) \in b .. b + n - 1 /\ x = (a - b) + (x - (a - b))
      BY <1>2, <2>1
    <3> QED BY <1>4, <3>1
  <2> QED BY <2>1
<1>7. P = a .. a + n - 1
  BY <1>5, <1>6 DEF W!Covered
<1> QED BY <1>7 DEF W!Covered, b

(* A transfer completes, ...                                               *)
LEMMA CompleteDone ==
  ASSUME DoneInv, W!Complete
  PROVE  DoneInv'
<1> DEFINE sees == ~ busy /\ (xfer.dir = "tx" => wel)
           programmed == {(xfer.addr - (xfer.addr % PageSize)) + (j % PageSize) :
                            j \in W!Covered(xfer.addr % PageSize, xfer.len)}
           got == IF xfer.dir = "tx" THEN programmed ELSE W!Covered(xfer.addr, xfer.len)
<1>0. /\ ~ W!HalFree /\ xfer' = W!NoXfer
      /\ busy' = (busy \/ (sees /\ xfer.dir = "tx"))
      /\ done' = [p \in Users |-> IF p # xfer.by \/ ~ sees THEN done[p] ELSE done[p] \cup got]
      /\ wel' = wel /\ script' = script /\ left' = left /\ asked' = asked /\ deaf' = deaf
      /\ alone' = alone
  BY DEF W!Complete
<1> HIDE DEF sees, programmed, got
<1>1. 0 \notin Users
  BY W25qAssumption
<1>2. \A p \in Users : p # xfer.by => done'[p] = done[p]
  BY <1>0
<1>3. \A p \in Users : W!Active(p)' <=> W!Active(p)
  BY <1>0 DEF W!Active
<1>4. xfer'.by = 0 /\ DOMAIN xfer' = {"dir", "by", "addr", "len"}
  BY <1>0 DEF W!NoXfer
<1>5. Owned'
  <2>1. /\ DOMAIN done' = Users /\ DOMAIN deaf' = Users /\ DOMAIN alone' = Users
        /\ busy' \in BOOLEAN /\ wel' \in BOOLEAN /\ \A p \in Users : Whole(script'[p])
    BY <1>0 DEF DoneInv, Owned
  <2>2. \A p \in Users : ~ W!Active(p) => p # xfer.by /\ done[p] = {} /\ ~ deaf[p]
    BY <1>1 DEF DoneInv, Owned
  <2>3. \A p \in Users : ~ W!Active(p)' => done'[p] = {} /\ ~ deaf'[p]
    BY <1>0, <1>2, <1>3, <2>2
  <2> QED BY <1>4, <2>1, <2>3 DEF Owned
<1>6. ASSUME NEW p \in Users, Good(p), asked[p].kind # "id"
      PROVE  Good(p)'
  <2> DEFINE k == asked[p].kind
  <2>1. Follows(script[p], k) /\ Placed(script[p], asked[p], left[p], Ready, wel) /\ Progress(p, asked[p], left[p])
    BY <1>6 DEF Good
  <2>2. Ready = FALSE
    BY <1>0 DEF Ready
  <2>3. Placed(script[p], asked[p], left[p], Ready', wel)
    BY <2>1, <2>2, Zenon DEF Placed
  <2>4. Under(p)' = {} /\ xfer'.by # p
    BY <1>1, <1>4 DEF Under
  <2>5. ASSUME k = "write"
        PROVE  done'[p] = done[p] \cup Under(p)
    <3>1. CASE xfer.by # p
      BY <1>2, <3>1 DEF Under
    <3>2. CASE xfer.by = p
      <4>1. /\ xfer.dir = "tx" /\ wel /\ ~ busy /\ xfer.addr \in Nat /\ xfer.len \in Nat
            /\ (xfer.addr % PageSize) + xfer.len <= PageSize
        BY <2>1, <2>5, <3>2 DEF Progress
      <4>2. sees
        BY <4>1 DEF sees
      <4>3. programmed = W!Covered(xfer.addr, xfer.len)
        BY <4>1, Programs DEF programmed
      <4>4. done'[p] = done[p] \cup programmed
        BY <1>0, <3>2, <4>1, <4>2 DEF got
      <4> QED BY <3>2, <4>3, <4>4 DEF Under
    <3> QED BY <3>1, <3>2
  <2>6. ASSUME k = "block"
        PROVE  done'[p] = done[p]
    BY <1>2, <2>1, <2>6 DEF Progress
  <2>7. ASSUME k = "read"
        PROVE  \/ deaf'[p] /\ asked[p].addr % PageSize # 0
               \/ asked[p].addr .. left[p].addr - 1 \subseteq done'[p]
    <3>1. CASE deaf[p] /\ asked[p].addr % PageSize # 0
      BY <1>0, <3>1
    <3>2. CASE /\ asked[p].addr .. left[p].addr - 1 \subseteq done[p] \cup Under(p)
               /\ xfer.by = p => xfer.dir = "rx" /\ ~ busy
      <4>1. CASE xfer.by # p
        BY <1>2, <3>2, <4>1 DEF Under
      <4>2. CASE xfer.by = p
        <5>1. sees /\ xfer.dir # "tx"
          BY <3>2, <4>2 DEF sees
        <5>2. done'[p] = done[p] \cup W!Covered(xfer.addr, xfer.len)
          BY <1>0, <4>2, <5>1 DEF got
        <5> QED BY <3>2, <4>2, <5>2 DEF Under
      <4> QED BY <4>1, <4>2
    <3> QED BY <2>1, <2>7, <3>1, <3>2 DEF Progress
  <2>8. Progress(p, asked[p], left[p])'
    BY <1>0, <2>1, <2>4, <2>5, <2>6, <2>7 DEF Progress
  <2>9. ASSUME k = "chip"
        PROVE  done'[p] = done[p]
    BY <1>2, <2>1, <2>9 DEF Progress
  <2> QED BY <1>0, <1>6, <2>1, <2>3, <2>8, <2>9 DEF Good
<1>7. \A p \in Users : Good(p) => Good(p)'
  <2>1. \A p \in Users : asked[p].kind = "id" => Good(p)'
    BY <1>0 DEF Good
  <2> QED BY <1>6, <2>1
<1>8. \A p \in Users : W!Active(p)' /\ alone'[p] =>
        Good(p)' /\ \A q \in Users \ {p} : ~ W!Active(q)'
  BY <1>0, <1>3, <1>7 DEF DoneInv
<1> QED BY <1>5, <1>8 DEF DoneInv

(* ... and the chip gets free.                                             *)
LEMMA FreeDone ==
  ASSUME DoneInv, W!ChipDone
  PROVE  DoneInv'
<1>0. /\ busy /\ busy' = FALSE /\ wel' = FALSE
      /\ xfer' = xfer /\ script' = script /\ left' = left /\ asked' = asked /\ done' = done
      /\ deaf' = deaf /\ alone' = alone
  BY DEF W!ChipDone
<1>1. \A p \in Users : W!Active(p)' <=> W!Active(p)
  BY <1>0 DEF W!Active
<1>2. Owned'
  <2>1. xfer'.by # 0 => script'[xfer'.by] # <<>> /\ xfer'.by \in Users
    BY <1>0 DEF DoneInv, Owned, W!Active
  <2>2. xfer'.by # 0 => xfer'.by \in Users /\ W!Active(xfer.by)'
    BY <2>1 DEF W!Active
  <2>3. /\ DOMAIN done' = Users /\ DOMAIN deaf' = Users /\ DOMAIN alone' = Users
        /\ busy' \in BOOLEAN /\ wel' \in BOOLEAN /\ \A p \in Users : Whole(script'[p])
        /\ DOMAIN xfer' = {"dir", "by", "addr", "len"}
    BY <1>0 DEF DoneInv, Owned
  <2>4. \A p \in Users : ~ W!Active(p)' => done'[p] = {} /\ ~ deaf'[p]
    BY <1>0, <1>1 DEF DoneInv, Owned
  <2> QED BY <2>2, <2>3, <2>4 DEF Owned
<1>3. ASSUME NEW p \in Users, Good(p), asked[p].kind # "id"
      PROVE  Good(p)'
  <2> DEFINE k == asked[p].kind
  <2>1. Follows(script[p], k) /\ Placed(script[p], asked[p], left[p], Ready, wel) /\ Progress(p, asked[p], left[p])
    BY <1>3 DEF Good
  <2>2. Ready = FALSE
    BY <1>0 DEF Ready
  <2>3. Head(script[p]) \notin {"tx", "erase"}
    BY <2>1, <2>2 DEF Placed, Commands
  <2>4. ~ (Head(script[p]) = "wait" /\ Len(script[p]) > 1 /\ script[p][2] \in {"tx", "erase"})
    BY <2>1, <2>2 DEF Placed
  <2>5. Placed(script[p], asked[p], left[p], FALSE, wel')
    BY <2>1, <2>2, <2>3, <2>4, Zenon DEF Placed
  <2>6. Placed(script[p], asked[p], left[p], Ready', wel')
    BY <2>5, Zenon DEF Placed
  <2>7. Under(p)' = Under(p)
    BY <1>0 DEF Under
  <2>8. Progress(p, asked[p], left[p])'
    BY <1>0, <2>1, <2>7 DEF Progress
  <2>9. k = "chip" => Cleared(done[p], script[p])
    BY <1>3 DEF Good
  <2> QED BY <1>0, <2>1, <2>6, <2>8, <2>9 DEF Good
<1>4. \A p \in Users : Good(p) => Good(p)'
  <2>1. \A p \in Users : asked[p].kind = "id" => Good(p)'
    BY <1>0 DEF Good
  <2> QED BY <1>3, <2>1
<1>5. \A p \in Users : W!Active(p)' /\ alone'[p] =>
        Good(p)' /\ \A q \in Users \ {p} : ~ W!Active(q)'
  BY <1>0, <1>1, <1>4 DEF DoneInv
<1> QED BY <1>2, <1>5 DEF DoneInv

(* Nothing of this changes, ...                                            *)
LEMMA StillDone ==
  ASSUME DoneInv, UNCHANGED <<xfer, busy, wel, script, left, asked, done, deaf, alone>>
  PROVE  DoneInv'
<1>1. \A p \in Users : W!Active(p)' <=> W!Active(p)
  BY DEF W!Active
<1>2. Owned'
  <2>1. xfer'.by # 0 => script'[xfer'.by] # <<>> /\ xfer'.by \in Users
    BY DEF DoneInv, Owned, W!Active
  <2>2. xfer'.by # 0 => xfer'.by \in Users /\ W!Active(xfer.by)'
    BY <2>1 DEF W!Active
  <2>3. /\ DOMAIN done' = Users /\ DOMAIN deaf' = Users /\ DOMAIN alone' = Users
        /\ busy' \in BOOLEAN /\ wel' \in BOOLEAN /\ \A p \in Users : Whole(script'[p])
        /\ DOMAIN xfer' = {"dir", "by", "addr", "len"}
    BY DEF DoneInv, Owned
  <2>4. \A p \in Users : ~ W!Active(p)' => done'[p] = {} /\ ~ deaf'[p]
    BY <1>1 DEF DoneInv, Owned
  <2> QED BY <2>2, <2>3, <2>4 DEF Owned
<1>3. ASSUME NEW p \in Users, Good(p), asked[p].kind # "id"
      PROVE  Good(p)'
  <2>1. /\ Follows(script[p], asked[p].kind) /\ Placed(script[p], asked[p], left[p], Ready, wel)
        /\ Progress(p, asked[p], left[p])
    BY <1>3 DEF Good
  <2>2. Ready' = Ready /\ Under(p)' = Under(p)
    BY DEF Ready, W!HalFree, Under
  <2>3. Progress(p, asked[p], left[p])'
    BY <2>1, <2>2 DEF Progress
  <2>4. asked[p].kind = "chip" => Cleared(done[p], script[p])
    BY <1>3 DEF Good
  <2> QED BY <2>1, <2>2, <2>3, <2>4 DEF Good
<1>4. \A p \in Users : Good(p) => Good(p)'
  <2>1. \A p \in Users : asked[p].kind = "id" => Good(p)'
    BY DEF Good
  <2> QED BY <1>3, <2>1
<1>5. \A p \in Users : W!Active(p)' /\ alone'[p] =>
        Good(p)' /\ \A q \in Users \ {p} : ~ W!Active(q)'
  BY <1>1, <1>4 DEF DoneInv
<1> QED BY <1>2, <1>5 DEF DoneInv

(* ... or the process takes the next statement of its script.              *)
LEMMA StepDone ==
  ASSUME DoneInv, QspiTypes, NEW p \in Users, W!Step(p)
  PROVE  DoneInv'
<1> DEFINE s == Head(script[p])
<1>0. W!Active(p)
  BY DEF W!Step
<1>1. CASE s = "next" /\ W!NextRound(p)
  <2>1. CASE left[p].len > 0
    <3>1. /\ script' = [script EXCEPT ![p] = W!Round(left[p])]
          /\ UNCHANGED <<xfer, busy, wel, left, asked, done, deaf, alone>>
      BY <1>1, <2>1 DEF W!NextRound, W!flash
    <3> QED BY <1>0, <2>1, <3>1, RoundDone
  <2>2. CASE ~ (left[p].len > 0)
    <3>1. W!Return(p, IF asked[p].kind = "id" THEN qspi_status ELSE qspi_status \ {"BUSY"})
      BY <1>1, <2>2 DEF W!NextRound
    <3> QED BY <1>0, <3>1, ReturnDone
  <2> QED BY <2>1, <2>2
<1>2. CASE W!GiveUp(p)
  BY <1>0, <1>2, ReturnDone DEF W!GiveUp
<1>3. ASSUME s = "enter", W!Enter(p), UNCHANGED <<asked, alone>>
      PROVE  DoneInv'
  <2>1. /\ W!Pop(p) /\ UNCHANGED <<xfer, busy, left, done, deaf>> /\ wel' = wel
    BY <1>3 DEF W!Enter, W!flash
  <2> QED BY <1>0, <1>3, <2>1, PopDone
<1>4. ASSUME s = "clear", W!Clear(p), UNCHANGED <<asked, alone>>
      PROVE  DoneInv'
  <2>1. /\ W!Pop(p) /\ UNCHANGED <<xfer, busy, left, done, deaf>> /\ wel' = wel
    BY <1>4 DEF W!Clear, W!flash
  <2> QED BY <1>0, <1>4, <2>1, PopDone
<1>5. ASSUME s = "wait", W!Wait(p), UNCHANGED <<asked, alone>>
      PROVE  DoneInv'
  <2>1. /\ W!Pop(p) /\ UNCHANGED <<xfer, busy, left, done, deaf>> /\ wel' = wel
        /\ W!HalFree /\ ~ busy
    BY <1>5 DEF W!Wait, W!flash
  <2> QED BY <1>0, <1>5, <2>1, PopDone
<1>6. ASSUME W!WaitError(p), UNCHANGED <<asked, alone>>
      PROVE  DoneInv'
  <2>1. UNCHANGED <<xfer, busy, wel, script, left, asked, done, deaf, alone>>
    BY <1>6 DEF W!WaitError, W!flash
  <2> QED BY <2>1, StillDone
<1>7. ASSUME s \in {"RX", "TX"}, W!WaitFlag(p, s), UNCHANGED <<asked, alone>>
      PROVE  DoneInv'
  <2>1. /\ W!Pop(p) /\ UNCHANGED <<xfer, busy, left, done, deaf>> /\ wel' = wel
    BY <1>7 DEF W!WaitFlag, W!flash
  <2> QED BY <1>0, <1>7, <2>1, PopDone
<1>8. ASSUME s \in {"we", "wd"}, W!SetWel(p, s = "we"), UNCHANGED <<asked, alone>>
      PROVE  DoneInv'
  <2>1. /\ W!Pop(p) /\ UNCHANGED <<xfer, busy, left, done, deaf>> /\ W!HalFree
        /\ wel' = IF busy THEN wel ELSE s = "we"
    BY <1>8 DEF W!SetWel
  <2>2. busy \in BOOLEAN /\ wel \in BOOLEAN
    BY DEF DoneInv, Owned
  <2>3. wel' \in BOOLEAN /\ (s = "we" => wel' \/ busy)
    BY <2>1, <2>2
  <2> QED BY <1>0, <1>8, <2>1, <2>3, PopDone
<1>9. ASSUME s = "erase", W!Erase(p), UNCHANGED <<asked, alone>>
      PROVE  DoneInv'
  BY <1>0, <1>9, EraseDone
<1>10. ASSUME s \in {"rx", "tx"}, W!Start(p, s), UNCHANGED <<asked, alone>>
       PROVE  DoneInv'
  BY <1>0, <1>10, StartDone
<1> QED BY <1>1, <1>2, <1>3, <1>4, <1>5, <1>6, <1>7, <1>8, <1>9, <1>10 DEF W!Step

(* So a call stands well from the start, and after every step.             *)
LEMMA DoneInit == W!Init => DoneInv
<1> SUFFICES ASSUME W!Init PROVE DoneInv
  OBVIOUS
<1>1. \A p \in Users : ~ W!Active(p) /\ script[p] = <<>> /\ done[p] = {} /\ ~ deaf[p]
  BY DEF W!Init, W!Active
<1>2. xfer.by = 0 /\ DOMAIN xfer = {"dir", "by", "addr", "len"}
  BY DEF W!Init, W!NoXfer
<1>3. /\ DOMAIN done = Users /\ DOMAIN deaf = Users /\ DOMAIN alone = Users
      /\ busy \in BOOLEAN /\ wel \in BOOLEAN
  BY DEF W!Init
<1>4. Whole(<<>>)
  BY EmptySeq DEF Whole
<1> QED BY <1>1, <1>2, <1>3, <1>4 DEF DoneInv, Owned

(* It does, whatever the step.                                             *)
LEMMA DoneStep ==
  ASSUME QspiInv, DoneInv, [Next]_vars
  PROVE  DoneInv'
<1>1. W!Next \/ UNCHANGED w25q
  BY DEF Next, vars
<1>2. QspiTypes
  BY DEF QspiInv
<1>3. ASSUME NEW p \in Users, NEW r \in Requests[p], W!Call(p, r)
      PROVE  DoneInv'
  BY <1>2, <1>3, CallDone
<1>4. ASSUME NEW p \in Users, W!Timeout(p)
      PROVE  DoneInv'
  BY <1>2, <1>4, ReturnDone DEF W!Timeout, W!GiveUp
<1>5. ASSUME NEW p \in Users, W!Step(p)
      PROVE  DoneInv'
  BY <1>2, <1>5, StepDone
<1>6. CASE UNCHANGED w25q
  BY <1>6, StillDone DEF w25q
<1> QED BY <1>1, <1>3, <1>4, <1>5, <1>6, CompleteDone, FreeDone DEF W!Next

(* Of a call that no other one overlaps, only the test for the next round  *)
(* ends it without error, when nothing is left of the request.             *)
LEMMA ReturnsLast ==
  ASSUME QspiInv, DoneInv, W!Next, NEW p \in Users, W!Active(p), Head(script[p]) = "next",
         ~ W!Active(p)', alone[p]
  PROVE  ~ (left[p].len > 0)
<1>1. \A q \in Users \ {p} : ~ W!Active(q)
  BY DEF DoneInv
<1>2. script[p] # <<>> /\ script'[p] = <<>>
  BY DEF W!Active
<1>3. DOMAIN script = Users /\ Fits(script[p], asked[p], left[p])
  BY DEF QspiInv, QspiTypes
<1>4. ASSUME NEW q \in Users, NEW r \in Requests[q], W!Call(q, r)
      PROVE  FALSE
  <2>1. q # p
    BY <1>4 DEF W!Call
  <2> QED BY <1>2, <1>3, <1>4, <2>1 DEF W!Call
<1>5. ASSUME NEW q \in Users, W!Timeout(q)
      PROVE  FALSE
  <2>1. q = p
    BY <1>1, <1>5 DEF W!Timeout
  <2> QED BY <1>5, <2>1 DEF W!Timeout
<1>6. ASSUME NEW q \in Users, W!Step(q), left[p].len > 0
      PROVE  FALSE
  <2>1. q = p
    BY <1>1, <1>6 DEF W!Step
  <2>2. W!NextRound(p)
    BY <1>6, <2>1 DEF W!Step
  <2>3. script' = [script EXCEPT ![p] = W!Round(left[p])]
    BY <1>6, <2>2 DEF W!NextRound
  <2>4. left[p].kind \in QspiKinds /\ left[p].kind \notin {"chip", "id"}
    BY <1>2, <1>3, <1>6 DEF Fits
  <2>5. W!Round(left[p]) # <<>>
    BY <2>4, WholeParts
  <2> QED BY <1>2, <1>3, <2>3, <2>5
<1>7. script' # script
  BY <1>2
<1>8. ~ W!Complete /\ ~ W!ChipDone
  BY <1>7 DEF W!Complete, W!ChipDone
<1> QED BY <1>4, <1>5, <1>6, <1>8 DEF W!Next

(* A call of the flash driver that no other one overlaps and that returns  *)
(* 0 leaves the chip free, whatever the call before left behind. A write   *)
(* has programmed its bytes and no others, a chip erase erased all, a      *)
(* block erase its blocks and no others, or the 64 KB they lie in on a     *)
(* large chip, and a read got its bytes, unless its first chunk was sent   *)
(* to a busy chip. Of sector erases only that the chip is free is stated.  *)
THEOREM DoesWhole == Spec => DoneWhole
<1>1. ASSUME QspiInv, DoneInv, W!Next, NEW p \in Users, W!Returns0(p), asked[p].kind # "id"
      PROVE  /\ W!HalFree /\ ~ busy
             /\ asked[p].kind = "write" => done[p] = W!Wanted(p)
             /\ asked[p].kind = "block" => done[p] = W!Pieces(W!Wanted(p))
             /\ asked[p].kind = "chip" => done[p] = W!Chip
             /\ asked[p].kind = "read" =>
                  \/ W!Wanted(p) \subseteq done[p]
                  \/ deaf[p] /\ asked[p].addr % PageSize # 0
  <2>1. W!Active(p) /\ Head(script[p]) = "next" /\ ~ W!Active(p)' /\ alone[p]
    BY <1>1 DEF W!Returns0
  <2>2. Placed(script[p], asked[p], left[p], Ready, wel) /\ Progress(p, asked[p], left[p])
    BY <1>1, <2>1 DEF DoneInv, Good
  <2>3. left[p].len \in Nat /\ ~ (left[p].len > 0)
    BY <1>1, <2>1, <2>2, ReturnsLast DEF Progress
  <2>4. left[p].len = 0
    BY <2>3
  <2>5. asked[p].kind \in {"read", "write"} => left[p].len # asked[p].len
    BY <2>2, <2>4 DEF Progress
  <2>6. Ready
    BY <2>1, <2>2, <2>5 DEF Placed
  <2>7. xfer.by # p
    BY <2>6, W25qAssumption DEF Ready, W!HalFree, W!NoXfer
  <2>8. /\ asked[p].addr \in Nat /\ asked[p].len \in Nat /\ left[p].addr \in Nat
        /\ W!Wanted(p) = asked[p].addr .. asked[p].addr + asked[p].len - 1
    BY <2>2 DEF Progress, W!Wanted, W!Covered
  <2>9. Under(p) = {}
    BY <2>7 DEF Under
  <2>10. ASSUME asked[p].kind \in {"write", "block"}
         PROVE  asked[p].addr .. left[p].addr - 1 = W!Wanted(p)
    <3>1. left[p].addr + left[p].len = asked[p].addr + asked[p].len
      BY <2>2, <2>10 DEF Progress
    <3>2. left[p].addr = asked[p].addr + asked[p].len
      BY <2>4, <2>8, <3>1
    <3> QED BY <2>8, <3>2
  <2>12. asked[p].kind = "write" => done[p] = W!Wanted(p)
    <3>1. asked[p].kind = "write" => done[p] = asked[p].addr .. left[p].addr - 1
      BY <2>2, <2>9 DEF Progress
    <3> QED BY <2>10, <3>1
  <2>13. asked[p].kind = "block" => done[p] = W!Pieces(W!Wanted(p))
    <3>1. asked[p].kind = "block" => done[p] = W!Pieces(asked[p].addr .. left[p].addr - 1)
      BY <2>2 DEF Progress
    <3> QED BY <2>10, <3>1
  <2>14. asked[p].kind = "chip" => done[p] = W!Chip
    <3>1. asked[p].kind = "chip" => Cleared(done[p], script[p])
      BY <1>1, <2>1 DEF DoneInv, Good
    <3>2. \A j \in 1 .. Len(script[p]) : script[p][j] # "erase"
      <4>1. script[p] \in Seq(Tests) /\ script[p] # <<>>
        BY <1>1, <2>1 DEF DoneInv, Owned, Whole, W!Active
      <4>2. Len(script[p]) \in Nat \ {0} /\ script[p][1] = "next"
        BY <2>1, <4>1, EmptySeq, LenProperties
      <4>3. 1 \in 1 .. Len(script[p])
        BY <4>2
      <4>4. Len(script[p]) = 1
        BY <1>1, <2>1, <4>2, <4>3 DEF DoneInv, Good, Follows
      <4> QED BY <4>2, <4>4
    <3> QED BY <3>1, <3>2 DEF Cleared
  <2>11. ASSUME asked[p].kind = "read"
         PROVE  \/ W!Wanted(p) \subseteq done[p]
                \/ deaf[p] /\ asked[p].addr % PageSize # 0
    <3>1. /\ left[p].addr + left[p].len >= asked[p].addr + asked[p].len
          /\ \/ deaf[p] /\ asked[p].addr % PageSize # 0
             \/ asked[p].addr .. left[p].addr - 1 \subseteq done[p]
      BY <2>2, <2>9, <2>11 DEF Progress
    <3>2. left[p].addr >= asked[p].addr + asked[p].len
      BY <2>4, <2>8, <3>1
    <3>3. W!Wanted(p) \subseteq asked[p].addr .. left[p].addr - 1
      <4> DEFINE a == asked[p].addr
                 n == asked[p].len
                 b == left[p].addr
      <4>1. a \in Nat /\ n \in Nat /\ b \in Nat /\ b >= a + n
        BY <2>8, <3>2
      <4> HIDE DEF a, n, b
      <4>2. a .. a + n - 1 \subseteq a .. b - 1
        BY <4>1
      <4> QED BY <2>8, <4>2 DEF a, n, b
    <3> QED BY <3>1, <3>3
  <2> QED BY <2>6, <2>11, <2>12, <2>13, <2>14 DEF Ready
<1>2. QspiInv /\ DoneInv /\ [Next]_vars =>
        [\A p \in Users : W!Returns0(p) /\ asked[p].kind # "id" =>
           /\ W!HalFree /\ ~ busy
           /\ asked[p].kind = "write" => done[p] = W!Wanted(p)
           /\ asked[p].kind = "block" => done[p] = W!Pieces(W!Wanted(p))
           /\ asked[p].kind = "chip" => done[p] = W!Chip
           /\ asked[p].kind = "read" =>
                \/ W!Wanted(p) \subseteq done[p]
                \/ deaf[p] /\ asked[p].addr % PageSize # 0]_(W!vars)
  <2>1. [Next]_vars => W!Next \/ UNCHANGED W!vars
    BY DEF Next, vars, w25q, W!vars, W!flash
  <2> QED BY <1>1, <2>1
<1>3. QspiInv /\ DoneInv /\ [Next]_vars => QspiInv' /\ DoneInv'
  BY QspiStep, DoneStep
<1>4. Init => QspiInv /\ DoneInv
  BY QspiInit, DoneInit DEF Init
<1> QED BY <1>2, <1>3, <1>4, PTL DEF Spec, DoneWhole, W!DoneWhole
-----------------------------------------------------------------------------
(* The timers of a process.                                                *)

(* What is proved of Timers on its own.                                    *)
TP == INSTANCE TimersProofs WITH pc <- timer_pc, reg <- timer_reg

(* The process or a tick takes a step of Timers, or none.                  *)
LEMMA TimersStep == [Next]_vars => [TP!Next]_(TP!vars)
<1>1. T!Next <=> TP!Next
  BY DEF T!Next, TP!Next, T!Call, TP!Call, T!CreateTimer, TP!CreateTimer,
     T!StartTimer, TP!StartTimer, T!RestartTimer, TP!RestartTimer,
     T!RestartFill, TP!RestartFill, T!StopTimer, TP!StopTimer,
     T!DestroyTimer, TP!DestroyTimer, T!WaitEvent, TP!WaitEvent,
     T!WaitReturn, TP!WaitReturn, T!GetTimerExpired, TP!GetTimerExpired,
     T!LoadExpired, TP!LoadExpired, T!StoreExpired, TP!StoreExpired, T!Tick, TP!Tick,
     T!Fill, TP!Fill, T!SetFlags, TP!SetFlags, T!IdBit, TP!IdBit, T!InUse, TP!InUse,
     T!Enabled, TP!Enabled, T!Forever, TP!Forever, T!Fired, TP!Fired, T!Paused, TP!Paused,
     T!PutOff, TP!PutOff, T!Report, TP!Report, T!NextTick, TP!NextTick, T!Slots, TP!Slots,
     T!UserFlags, TP!UserFlags, T!table, TP!table, T!local, TP!local
<1> QED BY <1>1 DEF Next, vars, timers, TP!vars, TP!table, TP!local

(* The table starts as it does on its own.                                 *)
LEMMA TimersInit == Init => TP!Init
BY DEF Init, T!Init, TP!Init, T!Slots, TP!Slots

(* What Timers assumes of its constants.                                   *)
LEMMA TimersConstants == TP!TimersAssumption
BY TimerAssumption DEF T!TimersAssumption, TP!TimersAssumption,
   T!IdBit, TP!IdBit, T!Slots, TP!Slots

(* No timer fires before its count has run since it was created or last    *)
(* fired, whatever calls are made between the ticks and between their      *)
(* statements, as long as the expiries stay below the wrap of              *)
(* g_tick_count.                                                           *)
THEOREM TimersNotEarly == ASSUME TP!NoWrap PROVE Spec => TimerNotEarly
<1>1. Init => TP!TypeOK /\ TP!ExpiryInv
  BY TimersConstants, TimersInit, TP!InitTypeOK, TP!InitExpiry
<1>2. TP!TypeOK /\ TP!ExpiryInv /\ [Next]_vars => TP!TypeOK' /\ TP!ExpiryInv'
  BY TimersConstants, TimersStep, TP!StepTypeOK, TP!StepExpiry
<1>3. TP!TypeOK /\ TP!ExpiryInv /\ [Next]_vars
        => [\A j \in T!Slots : j \in unread' \ unread => owed[j] <= 1]_(T!vars)
  BY TimersConstants, TimersStep, TP!FiresInTime
<1> QED BY <1>1, <1>2, <1>3, PTL DEF Spec, TimerNotEarly, T!TimerNotEarly

(* An expiry is lost in one way only, whatever calls are made between the  *)
(* ticks and between their statements: the tick comes between the load and *)
(* the store of get_timer_expired.                                         *)
THEOREM ExpiriesLostByRace == Spec => ExpiryLostOnlyByRace
<1>1. Init => TP!TypeOK
  BY TimersConstants, TimersInit, TP!InitTypeOK
<1>2. TP!TypeOK /\ [Next]_vars => TP!TypeOK'
  BY TimersConstants, TimersStep, TP!StepTypeOK
<1>3. T!Lost = TP!Lost /\ (T!Lost)' = (TP!Lost)'
  BY DEF T!Lost, TP!Lost
<1>4. TP!TypeOK /\ [Next]_vars
        => [\A j \in (T!Lost)' \ T!Lost :
              timer_pc = "storing" /\ j \in timer_expired \ timer_reg]_(T!vars)
  BY <1>3, TimersStep, TP!LosesInRace
<1> QED BY <1>1, <1>2, <1>4, PTL DEF Spec, ExpiryLostOnlyByRace, T!ExpiryLostOnlyByRace
=============================================================================
