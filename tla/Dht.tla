---------------------------------- MODULE Dht ----------------------------------
(***************************************************************************)
(* The DHT11/AM230x driver: the state machine that every tick runs for the *)
(* sensor started last, and the start call, whose three stores a tick can  *)
(* come between. The samples and their decoding are one choice: the        *)
(* checksum is right or not.                                               *)
(***************************************************************************)
EXTENDS Integers

CONSTANTS
  Sensors,      \* the sensors, numbered from 1
  Rounds,       \* the turns of the worker in a tick: MAX_DHT11_DEVICES for
                \* each sensor, because each has registered the callback
  StartTicks, CycleTicks,
  MaxFailures,  \* bound: wrong checksums
  MaxStarts     \* bound: calls of dhtxx_am230x_start

VARIABLES
  sensor,       \* per sensor: status, state_machine, ticks; whether its
                \* capture runs; whether start sent it back
  dhtxx_am230x_Running,
  turn,         \* where the tick stands
  pc,           \* what the start call of each sensor does next
  failures, starts,
  replaced      \* history: the sensors that ran when another was started

vars == <<sensor, dhtxx_am230x_Running, turn, pc, failures, starts, replaced>>

None == 0

(* dhtxx_am230x_register and dhtxx_am230x_init                             *)
Init ==
  /\ sensor = [d \in Sensors |-> [status |-> "none", state |-> "IDLE", ticks |-> 0,
                                  capture |-> FALSE, redone |-> FALSE]]
  /\ dhtxx_am230x_Running = None /\ turn = 0
  /\ pc = [d \in Sensors |-> "out"]
  /\ failures = 0 /\ starts = 0 /\ replaced = {}

-----------------------------------------------------------------------------
(* Definitions named Mut... are defects a change to the code could bring   *)
(* in: see module Scheduler.                                               *)

Running(d) == sensor[d].status = "RUNNING"

(* dhtxx_am230x_start, one store at a time, between ticks.                 *)
Begin(d) ==
  /\ pc[d] = "out" /\ ~ Running(d) /\ starts < MaxStarts
  /\ pc' = [pc EXCEPT ![d] = "status"] /\ starts' = starts + 1
  /\ sensor' = [sensor EXCEPT ![d].status = "RUNNING"]
  /\ UNCHANGED <<dhtxx_am230x_Running, replaced>>

BackToIdle(d) ==
  /\ pc[d] = "status"
  /\ pc' = [pc EXCEPT ![d] = "state"]
  /\ sensor' = [sensor EXCEPT ![d].state = "IDLE", ![d].redone = sensor[d].state # "IDLE"]
  /\ UNCHANGED <<dhtxx_am230x_Running, starts, replaced>>

TakeOver(d) ==
  /\ pc[d] = "state"
  /\ pc' = [pc EXCEPT ![d] = "out"]
  /\ dhtxx_am230x_Running' = d
  /\ replaced' = (replaced \ {d})
                  \cup {e \in Sensors \ {d} : Running(e) /\ dhtxx_am230x_Running = e}
  /\ UNCHANGED <<sensor, starts>>

Start(d) ==
  /\ turn = 0
  /\ Begin(d) \/ BackToIdle(d) \/ TakeOver(d)
  /\ UNCHANGED <<turn, failures>>

MutEnd(r, ok) == [r EXCEPT !.state = "IDLE"]
End(r, ok) == [r EXCEPT !.state = "IDLE", !.status = IF ok THEN "ACQDONE" ELSE @]

(* One turn of dhtxx_am230x_worker for a sensor.                           *)
Turn(r, ok) ==
  LET s == [r EXCEPT !.ticks = IF @ > 0 THEN @ - 1 ELSE 0]
  IN CASE s.state = "IDLE" /\ s.status = "RUNNING" ->
            [s EXCEPT !.state = "START_BIT_SET", !.ticks = StartTicks]
       [] s.state = "START_BIT_SET" /\ s.ticks = 0 ->
            [s EXCEPT !.state = "WAIT", !.ticks = CycleTicks, !.capture = TRUE]
       [] s.state = "WAIT" /\ s.ticks = 0 ->
            [s EXCEPT !.state = "END", !.capture = FALSE, !.redone = FALSE]
       [] s.state = "END" -> End(s, ok)
       [] OTHER -> s

(* dhtxx_am230x_worker, a turn at a time: the process runs between ticks.  *)
Tick ==
  /\ dhtxx_am230x_Running # None
  /\ turn' = (turn + 1) % Rounds
  /\ \E ok \in BOOLEAN :
       LET d == dhtxx_am230x_Running
           ends == sensor[d].state = "END"
       IN /\ ~ ok => ends /\ failures < MaxFailures
          /\ sensor' = [sensor EXCEPT ![d] = Turn(@, ok)]
          /\ failures' = IF ok THEN failures ELSE failures + 1
  /\ UNCHANGED <<dhtxx_am230x_Running, pc, starts, replaced>>

Next ==
  \/ \E d \in Sensors : Start(d)
  \/ Tick

(* The ticks go on, and so does a process between them.                    *)
Fairness == WF_vars(Tick) /\ \A d \in Sensors : SF_vars(pc[d] # "out" /\ Start(d))
Spec == Init /\ [][Next]_vars /\ Fairness

-----------------------------------------------------------------------------
(* Properties *)

(* A sensor that is started is acquired, however often its checksum fails  *)
(* first, unless another one is started meanwhile: then it is running for  *)
(* ever, and cannot be started again.                                      *)
Acquired == \A d \in Sensors : Running(d) ~> ~ Running(d) \/ d \in replaced

(* The capture of a sensor runs only while the worker waits for its end,   *)
(* except for one whose worker came between the first two stores of its    *)
(* start and was sent back.                                                *)
CaptureOnlyInWait ==
  \A d \in Sensors : sensor[d].capture => sensor[d].state = "WAIT" \/ sensor[d].redone
=============================================================================
