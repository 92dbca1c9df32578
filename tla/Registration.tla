----------------------------- MODULE Registration ------------------------------
(***************************************************************************)
(* Processes that register their UART drivers at the same time: the list   *)
(* the interrupts search, and the array of functions SysTick calls. A      *)
(* process can be preempted, and an interrupt or a tick taken, between any *)
(* two statements. The other drivers append to their lists the same way.   *)
(* The stores to fields of the driver itself are left out.                 *)
(***************************************************************************)
EXTENDS Integers, FiniteSets

CONSTANTS
  Drivers,   \* the drivers, numbered from 1; each has a process
  ArraySize, \* TIMER_CALLBACK_ARRAY_SIZE
  MaxCalls   \* bound: registrations

VARIABLES
  uart_drv_ptr, next_uart,  \* the list; 0 is NULL
  callback, param,          \* the array: whether a function is there, and its
                            \* parameter
  pc, at,                   \* per driver: the statement its process is at, and
                            \* the element or slot it has found
  registered,               \* history: how often each driver was registered
  overlapped,               \* history: the drivers registered at the same time as
                            \* another
  full                      \* history: the drivers that found the array full

list  == <<uart_drv_ptr, next_uart>>
array == <<callback, param>>
vars  == <<list, array, pc, at, registered, overlapped, full>>

NULL  == 0
Slots == 1 .. ArraySize

Init ==
  /\ uart_drv_ptr = NULL /\ next_uart = [d \in Drivers |-> NULL]
  /\ callback = [i \in Slots |-> FALSE] /\ param = [i \in Slots |-> NULL]
  /\ pc = [d \in Drivers |-> "out"] /\ at = [d \in Drivers |-> NULL]
  /\ registered = [d \in Drivers |-> 0] /\ overlapped = {} /\ full = {}

-----------------------------------------------------------------------------
(* Definitions named Mut... are defects a change to the code could bring   *)
(* in: see module Scheduler.                                               *)

Go(d, from, to) == pc[d] = from /\ pc' = [pc EXCEPT ![d] = to]

Calls == LET sum[S \in SUBSET Drivers] ==
               IF S = {} THEN 0
               ELSE LET d == CHOOSE x \in S : TRUE IN registered[d] + sum[S \ {d}]
         IN sum[Drivers]

Begin(d) ==
  /\ Calls < MaxCalls
  /\ Go(d, "out", "head")
  /\ registered' = [registered EXCEPT ![d] = @ + 1]
  /\ LET others == {e \in Drivers : pc[e] # "out"}
     IN overlapped' = overlapped \cup others \cup (IF others = {} THEN {} ELSE {d})
  /\ UNCHANGED <<list, array, at, full>>

(* The list is empty, or the search for its end begins.                    *)
Head(d) ==
  /\ IF uart_drv_ptr = NULL THEN Go(d, "head", "first") /\ UNCHANGED at
     ELSE Go(d, "head", "walk") /\ at' = [at EXCEPT ![d] = uart_drv_ptr]
  /\ UNCHANGED <<list, array, registered, overlapped, full>>

First(d) ==
  /\ Go(d, "first", "end")
  /\ uart_drv_ptr' = d
  /\ UNCHANGED <<next_uart, array, at, registered, overlapped, full>>

Walk(d) ==
  /\ pc[d] = "walk"
  /\ IF next_uart[at[d]] = NULL THEN Go(d, "walk", "link") /\ UNCHANGED at
     ELSE Go(d, "walk", "walk") /\ at' = [at EXCEPT ![d] = next_uart[at[d]]]
  /\ UNCHANGED <<list, array, registered, overlapped, full>>

(* What qspi_register links.                                               *)
MutLinked(d) == uart_drv_ptr
Linked(d) == d

Link(d) ==
  /\ Go(d, "link", "end")
  /\ next_uart' = [next_uart EXCEPT ![at[d]] = Linked(d)]
  /\ UNCHANGED <<uart_drv_ptr, array, at, registered, overlapped, full>>

End(d) ==
  /\ Go(d, "end", "slot")
  /\ next_uart' = [next_uart EXCEPT ![d] = NULL]
  /\ UNCHANGED <<uart_drv_ptr, array, at, registered, overlapped, full>>

(* set_before_check_timers_callback, whose result uart_register drops.     *)
Free == {i \in Slots : ~ callback[i]}

Slot(d) ==
  /\ IF Free = {}
     THEN Go(d, "slot", "out") /\ full' = full \cup {d} /\ UNCHANGED at
     ELSE /\ Go(d, "slot", "function")
          /\ \E i \in Free : (\A j \in Free : i <= j) /\ at' = [at EXCEPT ![d] = i]
          /\ UNCHANGED full
  /\ UNCHANGED <<list, array, registered, overlapped>>

Function(d) ==
  /\ Go(d, "function", "param")
  /\ callback' = [callback EXCEPT ![at[d]] = TRUE]
  /\ UNCHANGED <<list, param, at, registered, overlapped, full>>

StoreParam(d) ==
  /\ Go(d, "param", "out")
  /\ param' = [param EXCEPT ![at[d]] = d]
  /\ UNCHANGED <<list, callback, at, registered, overlapped, full>>

Step(d) == \/ Head(d) \/ First(d) \/ Walk(d) \/ Link(d) \/ End(d)
           \/ Slot(d) \/ Function(d) \/ StoreParam(d)

Next == \E d \in Drivers : Begin(d) \/ Step(d)

Fairness == \A d \in Drivers : WF_vars(Step(d))
Spec == Init /\ [][Next]_vars /\ Fairness

-----------------------------------------------------------------------------
(* Properties *)

(* The elements find_uart comes to: those in every set that holds the head *)
(* of the list and, with an element, the one after it.                     *)
Closed(S) == uart_drv_ptr \in S \cup {NULL} /\ \A d \in S : next_uart[d] \in S \cup {NULL}
Found == {d \in Drivers : \A S \in SUBSET Drivers : Closed(S) => d \in S}

Once(d) == registered[d] = 1 /\ d \notin overlapped

(* An interrupt finds each driver that was registered alone, from the      *)
(* statement that links it on, however the others overlap each other       *)
(* before or after it, unless some driver is registered a second time.     *)
AllFound ==
  \A d \in Drivers :
    Once(d) /\ pc[d] \notin {"head", "first", "walk", "link"} =>
      d \in Found \/ \E e \in Drivers : registered[e] > 1

(* The search of an interrupt for a UART that has no driver ends: the list *)
(* has no cycle, except while a driver is registered a second time.        *)
SearchEnds ==
  (\A d \in Drivers : registered[d] > 1 => pc[d] \notin {"head", "first", "walk", "link", "end"}) =>
    \A S \in SUBSET Found : S # {} => \E d \in S : next_uart[d] \notin S

(* A tick runs the timeout of a registered driver once, unless the array   *)
(* is full or another process was registering.                             *)
CalledOnce ==
  \A d \in Drivers : Once(d) /\ pc[d] = "out" /\ d \notin full =>
    Cardinality({i \in Slots : callback[i] /\ param[i] = d}) = 1

(* Interrupts and ticks serve every driver, wherever a registration is     *)
(* interrupted or preempted, with the exceptions of the three parts.       *)
Served == AllFound /\ SearchEnds /\ CalledOnce
=============================================================================
