-------------------------------- MODULE Esp01s ---------------------------------
(***************************************************************************)
(* The ESP-01S worker: a process that calls ESP01S_Worker again and again  *)
(* walks through a list of commands, each sent, waited for and sent again  *)
(* after a while; and the WiFi module, which answers one command after the *)
(* other, late or not at all, into one buffer. A reply is recognised by    *)
(* its text, which several commands share.                                 *)
(***************************************************************************)
EXTENDS Integers, Sequences

CONSTANTS
  Lists,      \* the lists of commands, each a sequence of [reply, delay]
  MaxDelay,   \* ESP01S_WAIT_60
  NumRetry,   \* ESP01S_NUM_RETRY
  MaxLine,    \* the commands the module keeps; it drops those that come on top
  MaxFaults,  \* bound: commands not answered, or not before the delay runs out
  MaxResets   \* bound: calls of ESP01S_Reset_Worker

VARIABLES
  list,           \* the list the process passes
  worker_state, cmd_sent, finished, delay, cmd_retry,
  rx_buf,         \* the reply in the buffer, and the command it answers
  line,           \* the commands the module has not answered
  faults, resets,
  confirmed,      \* history: the reply that was taken for the last command
  restarted,      \* history: the list was begun anew and nothing sent since
  stale           \* history: the last command was sent with another unanswered

worker  == <<list, worker_state, cmd_sent, finished, delay, cmd_retry>>
bounds  == <<faults, resets>>
history == <<confirmed, restarted, stale>>
vars    == <<worker, rx_buf, line, bounds, history>>

Nothing == [reply |-> "none", of |-> <<>>]

(* ESP01S_Init                                                             *)
Init ==
  /\ list \in Lists /\ worker_state = 1 /\ cmd_sent = FALSE /\ finished = FALSE
  /\ delay = 0 /\ cmd_retry = NumRetry
  /\ rx_buf = Nothing /\ line = <<>> /\ faults = 0 /\ resets = 0
  /\ confirmed = Nothing /\ restarted = FALSE /\ stale = FALSE

-----------------------------------------------------------------------------
(* The worker. Definitions named Mut... are defects a change to the code   *)
(* could bring in: see module Scheduler.                                   *)

AtEnd == worker_state > Len(list)
Cmd   == list[worker_state]
This  == <<list, worker_state>>

(* A command is sent, which empties the buffer.                            *)
MutCleared == rx_buf
Cleared == Nothing

Transmit ==
  /\ rx_buf' = Cleared
  /\ cmd_sent' = TRUE /\ delay' = Cmd.delay
  /\ line' = IF Len(line) < MaxLine THEN Append(line, [reply |-> Cmd.reply, of |-> This]) ELSE line
  /\ restarted' = FALSE /\ stale' = (line # <<>>)
  /\ UNCHANGED <<worker_state, finished, confirmed>>

Send == ~ cmd_sent /\ Transmit /\ UNCHANGED cmd_retry

(* ESP01S_AT_reply finds the reply.                                        *)
Match == rx_buf.reply = Cmd.reply

Confirm ==
  /\ cmd_sent /\ Match
  /\ cmd_sent' = FALSE
  /\ worker_state' = worker_state + 1 /\ cmd_retry' = NumRetry
  /\ confirmed' = rx_buf
  /\ UNCHANGED <<finished, delay, rx_buf, line, restarted, stale>>

(* It does not: the delay, which wraps below 0, is counted down.           *)
MutCounted == IF delay = 0 THEN MaxDelay ELSE delay
Counted == IF delay = 0 \/ delay - 1 > MaxDelay THEN MaxDelay ELSE delay - 1

Wait ==
  /\ cmd_sent /\ ~ Match /\ Counted > 0
  /\ delay' = Counted
  /\ UNCHANGED <<worker_state, cmd_sent, finished, cmd_retry, rx_buf, line, history>>

(* The command is sent again, in the same call, or the list is begun anew  *)
(* with CMD_SENT set.                                                      *)
TimedOut ==
  /\ cmd_sent /\ ~ Match /\ Counted = 0
  /\ faults' = IF line = <<>> THEN faults ELSE faults + 1
  /\ faults' <= MaxFaults

Again ==
  /\ TimedOut /\ cmd_retry > 1
  /\ cmd_retry' = cmd_retry - 1
  /\ Transmit

Restart ==
  /\ worker_state' = 1 /\ finished' = FALSE /\ delay' = 0
  /\ restarted' = TRUE
  /\ UNCHANGED <<cmd_sent, rx_buf, line, confirmed, stale>>

Error ==
  /\ TimedOut /\ cmd_retry = 1
  /\ cmd_retry' = NumRetry
  /\ Restart

Last ==
  /\ AtEnd /\ ~ finished
  /\ finished' = TRUE
  /\ UNCHANGED <<worker_state, cmd_sent, delay, cmd_retry, rx_buf, line, history>>

Worker ==
  /\ \/ ~ AtEnd /\ (Send \/ Confirm \/ Wait) /\ UNCHANGED faults
     \/ ~ AtEnd /\ (Again \/ Error)
     \/ Last /\ UNCHANGED faults
  /\ UNCHANGED <<list, resets>>

(* ESP01S_Reset_Worker, before a list is passed.                           *)
ResetWorker(l) ==
  /\ resets < MaxResets
  /\ resets' = resets + 1 /\ list' = l
  /\ Restart
  /\ UNCHANGED <<cmd_retry, faults>>

(* The module.                                                             *)
Answer ==
  /\ line # <<>>
  /\ rx_buf' = Head(line) /\ line' = Tail(line)
  /\ UNCHANGED <<worker, bounds, history>>

Lose ==
  /\ line # <<>> /\ faults < MaxFaults
  /\ faults' = faults + 1 /\ line' = Tail(line)
  /\ UNCHANGED <<worker, rx_buf, resets, history>>

Next ==
  \/ Worker
  \/ \E l \in Lists : ResetWorker(l)
  \/ Answer \/ Lose

(* The process goes on calling, and the module goes on answering.          *)
Spec == Init /\ [][Next]_vars /\ WF_vars(Worker) /\ WF_vars(Answer)

-----------------------------------------------------------------------------
(* Properties *)

(* The reply that confirms a command is its own, unless an earlier one was *)
(* unanswered when it was sent, or the list was begun anew and the worker  *)
(* waits for the reply to a command it has not sent.                       *)
OwnReply ==
  [][confirmed' # confirmed \/ worker_state' = worker_state + 1
       => confirmed'.of = This \/ stale \/ restarted]_vars

(* A list comes to its end, if the module leaves finitely many commands    *)
(* unanswered while the worker waits, however late it answers those.       *)
ListFinishes == ~ finished ~> finished
=============================================================================
