---------------------------------- MODULE Dcc ----------------------------------
(***************************************************************************)
(* The DCC track driver: a process that compiles commands into the work    *)
(* packet, and the DMA interrupt that copies it to the track between its   *)
(* statements. The DMA plays two packets in turn. The interrupt for the    *)
(* first looks for a channel that never raises it, so the first packet     *)
(* stays idle and only the second is modelled; of the two cutout packets   *)
(* the DMA plays the first only, which the commands write.                 *)
(***************************************************************************)
EXTENDS Integers, Sequences

CONSTANTS
  Kinds,       \* the commands and calls made, of AllKinds
  Repeat,      \* command_repeat_number
  MaxCommands  \* bound: commands given

AllKinds == {"T4", "T5", "R", "A", "a", "other", "dcc_start", "dcc_stop"}

VARIABLES
  status, on,   \* the status bits; whether the DMA runs
  counter,      \* command_repeat_counter
  work,         \* DCC_WorkPkt: its template, and the command of each part
  second,       \* DCC_Pkt[SECOND_HALF]
  cutout,       \* DCC_Cutout_Pkt[FIRST_HALF]
  power,        \* the pin that enables the power on the line
  todo,         \* the steps of the call still to take
  reg,          \* the status it has loaded
  count,        \* history: calls made
  loads,        \* history: copies to the track since the last command began
  given         \* history: whether a packet was in progress when it began

driver  == <<status, on, counter, work, second, cutout, power>>
history == <<count, loads, given>>
vars    == <<driver, todo, reg, history>>

Parts == {"address", "data"}
IdlePkt(t) == [template |-> t, part |-> [i \in Parts |-> 0]]
Blank == IdlePkt("none")
Idle  == IdlePkt("standard")

(* dcc_register, of a structure in zeroed memory.                          *)
Init ==
  /\ status = {} /\ on = FALSE /\ counter = Repeat
  /\ work = Blank /\ second = Idle /\ cutout = "standard" /\ power = FALSE
  /\ todo = <<>> /\ reg = {}
  /\ count = 0 /\ loads = 0 /\ given = "none"

-----------------------------------------------------------------------------
(* The commands. Definitions named Mut... are defects a change to the code *)
(* could bring in: see module Scheduler.                                   *)

Do(x, y) == [do |-> x, set |-> y, clear |-> {}]
Rmw(set, clear) == <<Do("load", {}), [do |-> "store", set |-> set, clear |-> clear]>>
Fill  == <<Do("fill", "address"), Do("fill", "data")>>
Start == <<Do("start", {})>> \o Rmw({"ON"}, {})
Stop  == <<Do("stop", {})>> \o Rmw({}, {"ON"})

(* four_bytes_commands, five_bytes_commands and one_byte_commands          *)
Compile(kind) ==
  CASE kind = "T4" -> <<Do("template", "standard"), Do("cutout", "standard")>> \o Fill
                        \o Rmw({}, {"EXTENDED"})
    [] kind = "T5" -> <<Do("template", "extended"), Do("cutout", "extended")>> \o Fill
                        \o Rmw({"EXTENDED"}, {})
    [] kind = "R" -> <<Do("template", "standard"), Do("cutout", "standard")>>
                        \o Rmw({}, {"EXTENDED"}) \o Fill \o Rmw({"RESET_SENT"}, {})
    [] kind = "A" -> Start
    [] kind = "a" -> Stop
    [] kind = "other" -> <<>>

MutRequest == <<Do("counter", {})>> \o Rmw({"PENDING"}, {})
Request == <<Do("counter", {})>> \o Rmw({"PENDING", "INPROGRESS"}, {})

MutScript(kind) == Request \o Compile(kind)
Script(kind) == Compile(kind) \o Request

(* dcc_commands, dcc_start and dcc_stop. A command that is not known, or   *)
(* compiles nothing, sends the work packet as it is.                       *)
Call(kind) ==
  /\ todo = <<>> /\ count < MaxCommands
  /\ count' = count + 1
  /\ todo' = CASE kind = "dcc_start" -> Start
               [] kind = "dcc_stop" -> Stop
               [] OTHER -> Script(kind)
  /\ loads' = IF kind \in {"dcc_start", "dcc_stop"} THEN loads ELSE 0
  /\ given' = CASE "INPROGRESS" \in status -> "busy"
                [] "INPROGRESS" \notin status /\ kind \in {"dcc_start", "dcc_stop"} -> given
                [] OTHER -> "free"
  /\ UNCHANGED <<driver, reg>>

Step ==
  /\ todo # <<>>
  /\ todo' = Tail(todo)
  /\ LET s == Head(todo)
     IN /\ work' = CASE s.do = "template" -> IdlePkt(s.set)
                     [] s.do = "fill" -> [work EXCEPT !.part[s.set] = count]
                     [] OTHER -> work
        /\ cutout' = IF s.do = "cutout" THEN s.set ELSE cutout
        /\ counter' = IF s.do = "counter" THEN Repeat ELSE counter
        /\ on' = (s.do = "start" \/ (on /\ s.do # "stop"))
        /\ reg' = IF s.do = "load" THEN status ELSE reg
        /\ status' = IF s.do = "store" THEN (reg \ s.clear) \cup s.set ELSE status
  /\ UNCHANGED <<second, power, history>>

(* dcc_TIM_DMADelayPulseCplt: the second packet has been played.           *)
Cplt ==
  /\ on
  /\ IF "PENDING" \in status
     THEN /\ power' = TRUE
          /\ second' = work
          /\ loads' = loads + 1
          /\ IF counter = 0 THEN status' = status \ {"PENDING", "RESET_SENT"} /\ UNCHANGED counter
                     ELSE counter' = counter - 1 /\ UNCHANGED status
     ELSE /\ power' = FALSE
          /\ second' = IF "INPROGRESS" \in status THEN Idle ELSE second
          /\ status' = IF "INPROGRESS" \in status THEN status \ {"EXTENDED", "INPROGRESS"} ELSE status
          /\ UNCHANGED <<counter, loads>>
  /\ UNCHANGED <<on, work, cutout, todo, reg, count, given>>

Next ==
  \/ \E kind \in Kinds : Call(kind)
  \/ Step
  \/ Cplt

(* The DMA goes on as long as it is on, and calls return.                  *)
Fairness == WF_vars(Step) /\ WF_vars(Cplt)
Spec == Init /\ [][Next]_vars /\ Fairness

-----------------------------------------------------------------------------
(* Properties *)

(* Wherever the interrupts fall, no packet goes out half compiled, with the *)
(* cutout of another kind, or as the bare template, and a command is sent  *)
(* once more than it is to be repeated, unless a command or call comes     *)
(* while the one before is in progress. Blank is sent if the first command *)
(* compiles nothing, as A, which starts the driver.                        *)
SentAsGiven ==
  given = "free" =>
    /\ second \notin {Idle, Blank} =>
         /\ second.part["address"] = second.part["data"] /\ second.part["data"] # 0
         /\ second.template = cutout
    /\ todo = <<>> =>
         loads + (IF "PENDING" \in status THEN counter + 1 ELSE 0) = Repeat + 1

(* The line has power while a packet other than idle is sent, and the      *)
(* driver says that one is in progress, whatever commands come when.       *)
PoweredWhileSent == second # Idle => power /\ "INPROGRESS" \in status

=============================================================================
