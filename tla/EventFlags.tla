----------------------------- MODULE EventFlags -----------------------------
(***************************************************************************)
(* What the kernel promises a process about its events, without scheduler, *)
(* interrupts or ticks: an event it asked for is kept from the moment it   *)
(* is raised until the process reads its flags, and wait_event sleeps      *)
(* exactly while there is none. Scheduler implements it.                   *)
(***************************************************************************)

CONSTANTS
  Procs,  \* the processes
  Kinds   \* the events

VARIABLES
  mode,     \* a process is "running", "blocked" or "returning" in wait_event, or "stopped"
  asked,    \* the events it asked for
  pending   \* the events raised for it and not read

flags == <<mode, asked, pending>>

Init ==
  /\ mode = [p \in Procs |-> "running"]
  /\ asked = [p \in Procs |-> {}]
  /\ pending = [p \in Procs |-> {}]

(* Process p asks for the events of a mask, and sleeps if none is pending. *)
Wait(p, mask) ==
  /\ mode[p] = "running"
  /\ asked' = [asked EXCEPT ![p] = mask]
  /\ mode' = [mode EXCEPT ![p] = IF pending[p] = {} THEN "blocked" ELSE "returning"]
  /\ UNCHANGED pending

Return(p) ==
  /\ mode[p] = "blocked" /\ pending[p] # {}
  /\ mode' = [mode EXCEPT ![p] = "returning"]
  /\ UNCHANGED <<asked, pending>>

Read(p) ==
  /\ mode[p] = "returning"
  /\ mode' = [mode EXCEPT ![p] = "running"]
  /\ pending' = [pending EXCEPT ![p] = {}]
  /\ UNCHANGED asked

(* A delay asks for DELAY and drops the DELAY of an earlier one.           *)
Delay(p) ==
  /\ mode[p] = "running"
  /\ asked' = [asked EXCEPT ![p] = @ \cup {"DELAY"}]
  /\ pending' = [pending EXCEPT ![p] = @ \ {"DELAY"}]
  /\ UNCHANGED mode

Stop(p) ==
  /\ mode[p] \in {"running", "returning"}
  /\ mode' = [mode EXCEPT ![p] = "stopped"]
  /\ UNCHANGED <<asked, pending>>

(* Events that processes asked for are raised; the end of a delay can      *)
(* withdraw a process's request for DELAY.                                 *)
Raise ==
  /\ UNCHANGED mode
  /\ \A p \in Procs :
       /\ pending[p] \subseteq pending'[p]
       /\ pending'[p] \subseteq pending[p] \cup asked[p]
       /\ asked'[p] \in {asked[p], asked[p] \ {"DELAY"}}

Next ==
  \/ \E p \in Procs :
       \/ \E mask \in SUBSET Kinds : Wait(p, mask)
       \/ Return(p)
       \/ Read(p)
       \/ Delay(p)
       \/ Stop(p)
  \/ Raise

Spec == Init /\ [][Next]_flags
=============================================================================
