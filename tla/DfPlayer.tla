------------------------------- MODULE DfPlayer --------------------------------
(***************************************************************************)
(* The DFPlayer module: the process that calls its state machine and hands *)
(* it the replies, another process that leaves commands in one variable    *)
(* and their parameters in another, and the player, which answers the      *)
(* query for its tracks later. Every frame is sent with a delay, in which  *)
(* the other process runs.                                                 *)
(***************************************************************************)
EXTENDS Naturals

CONSTANTS
  Commands,    \* the commands given: those Sent names, "REINIT" and unknown ones
  Parameters,  \* the parameters given
  MaxCommands  \* bound: commands given

VARIABLES
  sm,            \* DfPlayer_sm
  command,       \* DfPlayer_command, and which one it is
  parameter,     \* DfPlayer_parameter
  pc,            \* where the state machine stands
  doing,         \* the command it carries out
  last_command,
  number_of_tracks,  \* whether it is known
  idle,          \* the busy line, which is high while nothing is played
  reply,         \* the query is not answered yet
  giving,        \* the other process has stored the parameter only
  given,         \* history: commands given
  ordered,       \* history: the last command given, and its parameter
  clash,         \* history: the commands given while another was carried out,
                 \* and those
  done           \* history: the command carried out last and the frame sent

driver == <<sm, command, parameter, pc, doing, last_command, number_of_tracks>>
vars   == <<driver, idle, reply, giving, given, ordered, clash, done>>

NoCommand == [kind |-> "none", id |-> 0]
NoFrame   == [cmd |-> "none", par |-> 0]

(* DfPlayer_register                                                       *)
Init ==
  /\ sm = "INIT" /\ command = NoCommand /\ parameter = 0 /\ pc = "out" /\ doing = NoCommand
  /\ last_command = "none" /\ number_of_tracks = FALSE
  /\ idle \in BOOLEAN /\ reply = FALSE
  /\ giving = FALSE /\ given = 0 /\ ordered = [kind |-> "none", value |-> 0] /\ clash = {}
  /\ done = [id |-> 0, sent |-> NoFrame]

-----------------------------------------------------------------------------
(* Definitions named Mut... are defects a change to the code could bring   *)
(* in: see module Scheduler.                                               *)

SendCmd(c) ==
  /\ last_command' = c
  /\ reply' = (reply \/ c = "QUERY")

(* The states before the main loop: what each sends, when the line is      *)
(* high, and its successor.                                                *)
Opening == [INIT        |-> [send |-> "STOP",       next |-> "STOP"],
            STOP        |-> [send |-> "STOP",       next |-> "SETSOURCE"],
            SETSOURCE   |-> [send |-> "SET_SOURCE", next |-> "QUERYTRACKS"],
            QUERYTRACKS |-> [send |-> "QUERY",      next |-> "SETVOLUME"],
            SETVOLUME   |-> [send |-> "SET_VOLUME", next |-> "MAINLOOP"]]

High == sm = "INIT" \/ idle

Open ==
  /\ pc = "out" /\ sm \in DOMAIN Opening /\ High
  /\ sm' = Opening[sm].next
  /\ SendCmd(Opening[sm].send)
  /\ UNCHANGED <<command, parameter, pc, doing, number_of_tracks, done>>

(* What is sent for a command: set_eq sends that for the track before, and *)
(* both it and set_play_mode send nothing for a parameter out of range,    *)
(* which they tell a caller that does not look.                            *)
EqBase == 5
RandomMode == 3
MaxVolume == 30

Sent(kind, value) ==
  CASE kind = "PLAY"          -> [cmd |-> kind, par |-> 0]
    [] kind = "PLAY_TRACK"    -> [cmd |-> kind, par |-> value]
    [] kind = "SET_VOLUME"    -> [cmd |-> kind, par |-> IF value > MaxVolume THEN MaxVolume ELSE value]
    [] kind = "SET_PLAY_MODE" -> IF value <= RandomMode THEN [cmd |-> kind, par |-> value] ELSE NoFrame
    [] kind = "SET_EQ"        -> IF value <= EqBase THEN [cmd |-> "PREV", par |-> value] ELSE NoFrame
    [] OTHER -> NoFrame

(* The main loop reads the command, carries it out, and erases it.         *)
Take ==
  /\ pc = "out" /\ sm = "MAINLOOP" /\ command # NoCommand
  /\ pc' = "clear" /\ doing' = command
  /\ sm' = IF command.kind = "REINIT" THEN "INIT" ELSE sm
  /\ done' = [id |-> command.id, sent |-> Sent(command.kind, parameter)]
  /\ IF done'.sent # NoFrame THEN SendCmd(done'.sent.cmd) ELSE UNCHANGED <<last_command, reply>>
  /\ UNCHANGED <<command, parameter, number_of_tracks>>

MutDone == pc = "clear" \/ sm # "MAINLOOP"
Done == pc = "clear"

Clear ==
  /\ Done
  /\ pc' = "out" /\ command' = NoCommand /\ doing' = NoCommand
  /\ UNCHANGED <<sm, parameter, last_command, number_of_tracks, reply, done>>

(* DFPlayer_ProcessResponse                                                *)
Response ==
  /\ pc = "out" /\ reply
  /\ reply' = FALSE
  /\ number_of_tracks' = (number_of_tracks \/ last_command = "QUERY")
  /\ UNCHANGED <<sm, command, parameter, pc, doing, last_command, done>>

Process == (Open \/ Take \/ Clear \/ Response) /\ UNCHANGED <<idle, giving, given, ordered, clash>>

(* The other process stores the parameter and calls DfPlayer_command.      *)
Busy == command # NoCommand \/ pc = "clear"

Clash(n) == clash \cup IF Busy THEN {n, command.id, doing.id} ELSE {}

Parameter(value) ==
  /\ ~ giving /\ given < MaxCommands
  /\ giving' = TRUE /\ given' = given + 1 /\ parameter' = value
  /\ clash' = Clash(given')
  /\ UNCHANGED <<sm, command, pc, doing, last_command, number_of_tracks, idle, reply, ordered, done>>

Command(kind) ==
  /\ giving /\ giving' = FALSE
  /\ command' = [kind |-> kind, id |-> given]
  /\ ordered' = [kind |-> kind, value |-> parameter]
  /\ clash' = Clash(given)
  /\ UNCHANGED <<sm, parameter, pc, doing, last_command, number_of_tracks, idle, reply, given, done>>

Line ==
  /\ idle' = ~ idle
  /\ UNCHANGED <<driver, reply, giving, given, ordered, clash, done>>

Next ==
  \/ Process \/ Line
  \/ \E value \in Parameters : Parameter(value)
  \/ \E kind \in Commands : Command(kind)

(* The process goes on, and the player is not busy for ever.               *)
Fairness == WF_vars(Process) /\ SF_vars(Process /\ sm' # sm) /\ WF_vars(~ idle /\ Line)
Spec == Init /\ [][Next]_vars /\ Fairness

-----------------------------------------------------------------------------
(* Properties *)

(* A frame that does what a command asks for: that of the command, with    *)
(* its parameter if it takes one. REINIT and unknown commands need none.   *)
(* For SET_EQ it is that for the track before, with the parameter asked    *)
(* for, and for a parameter out of range there is none: that is what the   *)
(* code does, not what the names say.                                      *)
Fulfils(sent, kind, value) ==
  CASE kind \in {"PLAY_TRACK", "SET_VOLUME", "SET_PLAY_MODE"} ->
         \/ sent = [cmd |-> kind, par |-> value]
         \/ kind = "SET_VOLUME" /\ value > MaxVolume /\ sent = [cmd |-> kind, par |-> MaxVolume]
         \/ kind = "SET_PLAY_MODE" /\ value > RandomMode /\ sent = NoFrame
    [] kind = "SET_EQ" -> \/ value <= EqBase /\ sent = [cmd |-> "PREV", par |-> value]
                          \/ value > EqBase /\ sent = NoFrame
    [] kind = "PLAY" -> sent = [cmd |-> "PLAY", par |-> 0]
    [] OTHER -> TRUE

Last == IF giving THEN given - 1 ELSE given

(* Once a command is erased, its frame has been sent with the parameter of *)
(* the same call, but for the frames Fulfils names, unless it was given    *)
(* while another was carried out or another while it was: then it can be   *)
(* erased with the other, and parameter and command can be of two calls.   *)
NotErased ==
  ~ Busy /\ Last > 0 /\ Last \notin clash =>
    done.id = Last /\ Fulfils(done.sent, ordered.kind, ordered.value)

(* A command is carried out some time and then erased, with the same       *)
(* exception; it is not enough that it is erased.                          *)
CommandDone ==
  \A n \in 1 .. MaxCommands : command.id = n ~> n \in clash \/ (done.id = n /\ ~ Busy)
=============================================================================
