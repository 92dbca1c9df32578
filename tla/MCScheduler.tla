---------------------------- MODULE MCScheduler ----------------------------
(* Instances of Scheduler for TLC.                                         *)
EXTENDS Scheduler

(* User processes that use every call but task_delay and suspend, and a    *)
(* supervisor that can fault.                                              *)
CallsFaulty == [p \in Procs |-> IF p = 0 THEN {"activate", "fault"}
                                ELSE {"wait", "activate", "finish", "fault"}]
(* Two user processes in task_delay and wait_event.                        *)
CallsDelay == [p \in Procs |-> IF p = 0 THEN {} ELSE {"wait", "delay", "suspend"}]
CallsOnlyDelay == [p \in Procs |-> IF p = 0 THEN {} ELSE {"delay"}]
(* Process 1 waits for events and may finish, process 2 delays, the last   *)
(* computes for ever.                                                      *)
CallsMixed == [p \in Procs |-> CASE p = 1 -> {"wait", "finish"} [] p = 2 -> {"delay"} [] OTHER -> {}]
CallsOnlyWait == [p \in Procs |-> IF p = 0 THEN {} ELSE {"wait"}]

MasksTimer == [p \in User |-> {{"TIMER"}}]
MasksNone == [p \in User |-> {{}}]
MasksOne   == [p \in User |-> {{"A", "TIMER"}}]
MasksA     == [p \in User |-> {{"A"}}]
MasksAny == [p \in User |-> {{}, {"A"}, {"A", "TIMER"}}]
=============================================================================
