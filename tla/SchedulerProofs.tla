-------------------------- MODULE SchedulerProofs --------------------------
(***************************************************************************)
(* What holds of Scheduler for every number of processes, every set of     *)
(* events and every way the processes use the kernel.                      *)
(***************************************************************************)
EXTENDS Scheduler, TLAPS

(* Only a process that finished or faulted carries KILLED, and it carries  *)
(* it as long as nothing makes it READY.                                   *)
StoppedInv ==
  \A p \in Procs : (Killed(p) => Stopped(p)) /\ (Stopped(p) => Killed(p) \/ Ready(p))

(* In wait_event, READY and a recorded reason go together.                 *)
WaitInv ==
  \A p \in User : pc[p] = "waiting" => (Ready(p) <=> wakeup_rsn[p] # {})

(* Without line errors interrupts are never left masked, and a process     *)
(* that executes in wait_event with no PendSV to come is READY.            *)
RunnerInv ==
  LineErrors = FALSE =>
    /\ primask = FALSE
    /\ \A p \in User : pc[p] = "waiting" /\ OnCpu(p) /\ ~ pendsv => Ready(p)
    /\ WokenWithReason

(* While the supervisor lives it is READY, so the loop of update_next_task *)
(* stops there at the latest: it has come at most as far as `current'.     *)
DispatchInv ==
  \/ Killed(0)
  \/ /\ Ready(0)
     /\ cpu = "pendsv" => scan <= current
     /\ cpu # "lost"

(* A process in task_delay whose delay ends before g_tick_count wraps has  *)
(* no ticks left to wait, or has no DELAY recorded and its delay_value     *)
(* lies at least that many ticks ahead.                                    *)
DelayInv ==
  /\ \A p \in User : pc[p] = "delay" =>
       \/ owed[p] = 0
       \/ "DELAY" \notin wakeup_rsn[p] /\ tick + owed[p] <= delay_value[p]
  /\ \A p \in Procs : pc[p] = "activating" => call[p].ev \in Events

IInv == TypeOK /\ StoppedInv /\ WaitInv /\ RunnerInv /\ DispatchInv

-----------------------------------------------------------------------------
(* Arithmetic modulo n stays below n.                                      *)
LEMMA ModBound ==
  ASSUME NEW a \in Nat, NEW n \in Nat \ {0}
  PROVE  a % n \in 0 .. n - 1
  BY SMT

(* ... and leaves what is below n alone.                                   *)
LEMMA ModSmall ==
  ASSUME NEW a \in Nat, NEW n \in Nat, a < n
  PROVE  a % n = a
  BY SMT

(* The next index is a process, and it is the one after unless the circle  *)
(* closes at the supervisor.                                               *)
LEMMA NextIndexProperty ==
  ASSUME NEW c \in Procs
  PROVE  /\ NextIndex(c) \in Procs
         /\ NextIndex(c) = c + 1 \/ NextIndex(c) = 0
<1>1. MaxTasks \in Nat /\ MaxTasks >= 2
  BY SchedulerAssumption
<1>2. c \in Nat /\ c < MaxTasks
  BY <1>1 DEF Procs
<1>3. CASE c + 1 < MaxTasks
  <2>1. (c + 1) % MaxTasks = c + 1
    BY <1>1, <1>2, <1>3
  <2> QED
    BY <2>1, <1>1, <1>2, <1>3 DEF NextIndex, Procs
<1>4. CASE c + 1 = MaxTasks
  <2>1. (c + 1) % MaxTasks = 0
    BY <1>1, <1>4
  <2> QED
    BY <2>1, <1>1 DEF NextIndex, Procs
<1> QED
  BY <1>1, <1>2, <1>3, <1>4

(* What the constants are, in the form the steps need.                     *)
LEMMA ConstantFacts ==
  /\ MaxTasks \in Nat /\ MaxTasks >= 2 /\ TickMod \in Nat \ {0}
  /\ 0 \in Procs /\ User \subseteq Procs /\ 0 \notin User
  /\ \A n \in Delays : n \in Nat
  /\ \A p \in User : \A m \in Masks[p] : m \subseteq AllEvents
  /\ Events \subseteq AllEvents /\ "DELAY" \in AllEvents /\ "TIMER" \in AllEvents
  /\ Calls[0] \subseteq {"activate", "fault"}
  /\ NoCall \in [dest : Procs, ev : AllEvents]
  /\ LineErrors \in BOOLEAN /\ Overrun \in BOOLEAN
<1>1. MaxTasks \in Nat /\ MaxTasks >= 2 /\ TickMod \in Nat \ {0}
      /\ 0 \in Procs /\ User \subseteq Procs /\ 0 \notin User
      /\ (\A n \in Delays : n \in Nat)
      /\ Calls[0] \subseteq {"activate", "fault"}
  BY SchedulerAssumption DEF Procs, User
<1>2. \A p \in User : \A m \in Masks[p] : m \subseteq AllEvents
  BY SchedulerAssumption
<1>3. Events \subseteq AllEvents /\ "DELAY" \in AllEvents /\ "TIMER" \in AllEvents
  BY DEF AllEvents
<1>4. NoCall \in [dest : Procs, ev : AllEvents]
  BY <1>1, <1>3 DEF NoCall
<1>5. LineErrors \in BOOLEAN /\ Overrun \in BOOLEAN
  BY SchedulerAssumption
<1> QED
  BY <1>1, <1>2, <1>3, <1>4, <1>5

-----------------------------------------------------------------------------
(* The two facts about activate_process' critical section the steps share:  *)
(* it keeps the types, and it makes a destination READY and gives it a     *)
(* reason, or changes nothing.                                             *)
LEMMA MarkActiveProperty ==
  ASSUME TypeOK, NEW d \in Procs, NEW e \in AllEvents, MarkActive(d, e)
  PROVE  /\ state' \in [Procs -> SUBSET States]
         /\ wakeup_rsn' \in [Procs -> SUBSET AllEvents]
         /\ wait_event' = wait_event /\ delay_value' = delay_value
         /\ \A p \in Procs :
              \/ state'[p] = state[p] /\ wakeup_rsn'[p] = wakeup_rsn[p]
              \/ p = d /\ state'[p] = {"READY"} /\ wakeup_rsn'[p] # {}
<1>1. CASE Awaited(d, e)
  <2>1. /\ wakeup_rsn' = [wakeup_rsn EXCEPT ![d] = @ \cup {e}]
        /\ state' = [state EXCEPT ![d] = {"READY"}]
        /\ wait_event' = wait_event /\ delay_value' = delay_value
    BY <1>1 DEF MarkActive, Record
  <2> QED
    BY <2>1 DEF TypeOK, States
<1>2. CASE ~ Awaited(d, e)
  BY <1>2 DEF MarkActive, TypeOK
<1> QED
  BY <1>1, <1>2

-----------------------------------------------------------------------------
(* The state A_start leaves has the right types.                           *)
LEMMA InitTypeOK == Init => TypeOK
<1> SUFFICES ASSUME Init PROVE TypeOK
  OBVIOUS
<1>1. 0 \in 0 .. TickMod - 1 /\ 0 \in 0 .. MaxTasks
  BY ConstantFacts
<1>2. /\ state \in [Procs -> SUBSET States]
      /\ wait_event \in [Procs -> SUBSET AllEvents]
      /\ wakeup_rsn \in [Procs -> SUBSET AllEvents]
      /\ delay_value \in [Procs -> 0 .. TickMod - 1]
      /\ pc \in [Procs -> Pcs]
      /\ owed \in [Procs -> Nat]
  BY <1>1 DEF Init, States, Pcs
<1>3. call \in [Procs -> [dest : Procs, ev : AllEvents]]
  BY ConstantFacts DEF Init
<1> QED
  BY <1>1, <1>2, <1>3, ConstantFacts DEF Init, TypeOK

(* TypeCorrect: the bits, masks, counters and control points of every      *)
(* process stay in their range, g_tick_count and delay_value wrap, and     *)
(* update_next_task's index never leaves the process table.                *)
THEOREM TypeCorrect == Spec => []TypeOK
<1>1. Init => TypeOK
  BY InitTypeOK
<1>2. TypeOK /\ [Next]_vars => TypeOK'
  <2> SUFFICES ASSUME TypeOK, [Next]_vars PROVE TypeOK'
    OBVIOUS
  <2> USE ConstantFacts
  <2>1. ASSUME NEW p \in Procs, Process(p) PROVE TypeOK'
    <3> USE DEF TypeOK, States, Pcs, kernel, hw, disp, Schedule, EnableIrq
    <3>0. ran' = TRUE
      BY <2>1 DEF Process
    <3>1. ASSUME p \in User, NEW mask \in Masks[p], WaitEvent(p, mask) PROVE TypeOK'
      BY <3>0, <3>1 DEF WaitEvent
    <3>2. CASE WaitReturn(p)
      BY <3>0, <3>2 DEF WaitReturn
    <3>3. CASE GetWakeupFlags(p)
      BY <3>0, <3>3 DEF GetWakeupFlags
    <3>4. ASSUME NEW n \in Delays, TaskDelay(p, n) PROVE TypeOK'
      <4>1. tick + n \in Nat
        BY SMT
      <4>2. (tick + n) % TickMod \in 0 .. TickMod - 1
        BY <4>1, ModBound
      <4> QED
        BY <3>0, <3>4, <4>2 DEF TaskDelay, ForgetDelay
    <3>5. CASE DelayLoop(p)
      BY <3>0, <3>5 DEF DelayLoop
    <3>6. CASE Suspend(p)
      BY <3>0, <3>6 DEF Suspend
    <3>7. CASE SuspendReturn(p)
      BY <3>0, <3>7 DEF SuspendReturn
    <3>8. ASSUME NEW d \in User, NEW e \in Events, ActivateTest(p, d, e) PROVE TypeOK'
      BY <3>0, <3>8 DEF ActivateTest
    <3>9. CASE ActivateUpdate(p)
      <4>1. call[p].dest \in Procs /\ call[p].ev \in AllEvents
        OBVIOUS
      <4>2. MarkActive(call[p].dest, call[p].ev)
        BY <3>9 DEF ActivateUpdate
      <4>3. /\ state' \in [Procs -> SUBSET States]
            /\ wakeup_rsn' \in [Procs -> SUBSET AllEvents]
            /\ wait_event' = wait_event /\ delay_value' = delay_value
        BY <4>1, <4>2, MarkActiveProperty
      <4> QED
        BY <3>0, <3>9, <4>3 DEF ActivateUpdate
    <3>10. CASE Finish(p)
      BY <3>0, <3>10 DEF Finish
    <3>11. CASE Fault(p)
      BY <3>0, <3>11 DEF Fault
    <3>12. CASE Compute(p)
      BY <3>0, <3>12 DEF Compute
    <3>13. CASE SupervisorLoop
      BY <3>0, <3>13 DEF SupervisorLoop
    <3> QED
      BY <2>1, <3>1, <3>2, <3>3, <3>4, <3>5, <3>6, <3>7, <3>8, <3>9, <3>10,
         <3>11, <3>12, <3>13 DEF Process
  <2>2. ASSUME NEW d \in User, NEW e \in Events, Irq(d, e) PROVE TypeOK'
    <3>1. /\ state' \in [Procs -> SUBSET States]
          /\ wakeup_rsn' \in [Procs -> SUBSET AllEvents]
          /\ wait_event' = wait_event /\ delay_value' = delay_value
      BY <2>2, MarkActiveProperty DEF Irq
    <3> QED
      BY <2>2, <3>1 DEF Irq, TypeOK, hw, disp
  <2>3. ASSUME NEW d \in User, NEW e \in Events, UartError(d, e) PROVE TypeOK'
    <3>1. CASE MarkActive(d, e)
      <4>1. /\ state' \in [Procs -> SUBSET States]
            /\ wakeup_rsn' \in [Procs -> SUBSET AllEvents]
            /\ wait_event' = wait_event /\ delay_value' = delay_value
        BY <3>1, MarkActiveProperty
      <4> QED
        BY <2>3, <4>1 DEF UartError, TypeOK, disp
    <3>2. CASE UNCHANGED kernel
      BY <2>3, <3>2 DEF UartError, TypeOK, disp, kernel
    <3> QED
      BY <2>3, <3>1, <3>2 DEF UartError
  <2>4. CASE SysTick
    <3>1. tick' \in 0 .. TickMod - 1
      <4>1. tick + 1 \in Nat
        BY SMT DEF TypeOK
      <4> QED
        BY <2>4, <4>1, ModBound DEF SysTick, NextTick
    <3>2. /\ state' \in [Procs -> SUBSET States]
          /\ wakeup_rsn' \in [Procs -> SUBSET AllEvents]
          /\ wait_event' \in [Procs -> SUBSET AllEvents]
      BY <2>4 DEF SysTick, TypeOK, States
    <3>3. owed' \in [Procs -> Nat]
      <4>1. \A p \in Procs : (IF owed[p] = 0 THEN 0 ELSE owed[p] - 1) \in Nat
        BY DEF TypeOK
      <4>2. owed' = [p \in Procs |-> IF owed[p] = 0 THEN 0 ELSE owed[p] - 1]
        BY <2>4 DEF SysTick
      <4> QED
        BY <4>1, <4>2
    <3>4. skip' \in BOOLEAN /\ pendsv' \in BOOLEAN /\ ran' \in BOOLEAN
      BY <2>4 DEF SysTick, TypeOK, TickEnd
    <3> QED
      BY <2>4, <3>1, <3>2, <3>3, <3>4 DEF SysTick, TypeOK, disp
  <2>5. CASE PendSV
    <3>1. scan' \in 0 .. MaxTasks
      BY <2>5 DEF PendSV
    <3> QED
      BY <2>5, <3>1 DEF PendSV, TypeOK, kernel
  <2>6. CASE NextTask
    <3>1. current' \in Procs
      BY <2>6, NextIndexProperty DEF NextTask, TypeOK
    <3>2. scan' \in 0 .. MaxTasks
      BY <2>6 DEF NextTask, LoopCount, TypeOK
    <3> QED
      BY <2>6, <3>1, <3>2 DEF NextTask, TypeOK, kernel, hw
  <2>7. CASE NoTask
    BY <2>7 DEF NoTask, TypeOK, kernel, hw
  <2>8. CASE UNCHANGED vars
    BY <2>8 DEF vars, kernel, hw, disp, TypeOK
  <2> QED
    BY <2>1, <2>2, <2>3, <2>4, <2>5, <2>6, <2>7, <2>8 DEF Next, Interrupt, LineError
<1> QED
  BY <1>1, <1>2, PTL DEF Spec

-----------------------------------------------------------------------------
(* InductiveInvariant: the four facts above hold together of every         *)
(* reachable state. None is inductive alone: a process in wait_event is    *)
(* READY exactly when it has a reason because nothing but activate_process *)
(* sets READY, except the timer branch of check_timers for a killed        *)
(* process, and a killed process is not in wait_event (StoppedInv).        *)
THEOREM InductiveInvariant == Spec => []IInv
<1>1. Init => IInv
  <2> SUFFICES ASSUME Init, TypeOK PROVE StoppedInv /\ WaitInv /\ RunnerInv /\ DispatchInv
    BY InitTypeOK DEF IInv
  <2> QED
    BY ConstantFacts DEF Init, TypeOK, StoppedInv, WaitInv, RunnerInv, WokenWithReason,
       DispatchInv, Killed, Ready, Stopped, OnCpu
<1>2. IInv /\ TypeOK' /\ [Next]_vars => IInv'
  <2> SUFFICES ASSUME IInv, TypeOK', [Next]_vars
               PROVE  (StoppedInv /\ WaitInv /\ RunnerInv /\ DispatchInv)'
    BY DEF IInv
  <2> USE ConstantFacts
  <2> USE DEF IInv, StoppedInv, WaitInv, RunnerInv, WokenWithReason, DispatchInv,
          Killed, Ready, Stopped, OnCpu
  <2>1. ASSUME NEW p \in Procs, Process(p)
        PROVE  (StoppedInv /\ WaitInv /\ RunnerInv /\ DispatchInv)'
    <3> USE DEF TypeOK, Pcs, kernel, hw, disp, Executes
    <3>1. ASSUME p \in User, NEW mask \in Masks[p], WaitEvent(p, mask)
          PROVE  (StoppedInv /\ WaitInv /\ RunnerInv /\ DispatchInv)'
      BY <3>1 DEF WaitEvent, MustBlock, Schedule, EnableIrq
    <3>2. CASE WaitReturn(p)
      BY <3>2 DEF WaitReturn
    <3>3. CASE GetWakeupFlags(p)
      BY <3>3 DEF GetWakeupFlags
    <3>4. ASSUME NEW n \in Delays, TaskDelay(p, n)
          PROVE  (StoppedInv /\ WaitInv /\ RunnerInv /\ DispatchInv)'
      BY <3>4 DEF TaskDelay, ForgetDelay, Schedule
    <3>5. CASE DelayLoop(p)
      <4>1. CASE "DELAY" \in wakeup_rsn[p]
        BY <3>5, <4>1 DEF DelayLoop, EnableIrq
      <4>2. CASE "DELAY" \notin wakeup_rsn[p]
        BY <3>5, <4>2 DEF DelayLoop, Schedule
      <4> QED BY <4>1, <4>2
    <3>6. CASE Suspend(p)
      BY <3>6 DEF Suspend, Schedule
    <3>7. CASE SuspendReturn(p)
      BY <3>7 DEF SuspendReturn, EnableIrq
    <3>8. ASSUME NEW d \in User, NEW e \in Events, ActivateTest(p, d, e)
          PROVE  (StoppedInv /\ WaitInv /\ RunnerInv /\ DispatchInv)'
      BY <3>8 DEF ActivateTest
    <3>9. CASE ActivateUpdate(p)
      <4>1. call[p].dest \in Procs /\ call[p].ev \in AllEvents
        OBVIOUS
      <4>2. MarkActive(call[p].dest, call[p].ev)
        BY <3>9 DEF ActivateUpdate
      <4>3. \A q \in Procs :
              \/ state'[q] = state[q] /\ wakeup_rsn'[q] = wakeup_rsn[q]
              \/ state'[q] = {"READY"} /\ wakeup_rsn'[q] # {}
        <5> HIDE DEF StoppedInv, WaitInv, RunnerInv, DispatchInv
        <5>1. TypeOK
          BY DEF IInv
        <5> QED
          BY <4>1, <4>2, <5>1, MarkActiveProperty
      <4>4. /\ pc' = [pc EXCEPT ![p] = "run"] /\ pc[p] = "activating"
            /\ cpu' = cpu /\ cpu = "thread" /\ current' = current
            /\ pendsv' = pendsv /\ primask' = primask
        BY <3>9 DEF ActivateUpdate
      <4>5. StoppedInv' /\ WaitInv'
        <5>1. \A q \in Procs : pc'[q] = IF q = p THEN "run" ELSE pc[q]
          BY <4>4
        <5>2. StoppedInv'
          BY <4>3, <4>4, <5>1
        <5>3. ASSUME NEW q \in User, pc'[q] = "waiting"
              PROVE  Ready(q)' <=> wakeup_rsn'[q] # {}
          <6>1. q \in Procs /\ pc[q] = "waiting"
            BY <5>1, <5>3
          <6>2. CASE state'[q] = state[q] /\ wakeup_rsn'[q] = wakeup_rsn[q]
            BY <6>1, <6>2
          <6>3. CASE state'[q] = {"READY"} /\ wakeup_rsn'[q] # {}
            BY <6>3
          <6> QED
            BY <4>3, <6>1, <6>2, <6>3
        <5> QED
          BY <5>2, <5>3
      <4>6. RunnerInv'
        <5>1. ASSUME NEW q \in User, pc'[q] # "run"
              PROVE  /\ q \in Procs /\ pc'[q] = pc[q]
                     /\ (Ready(q) => Ready(q)')
                     /\ (wakeup_rsn[q] # {} => wakeup_rsn'[q] # {})
          BY <4>3, <4>4, <5>1
        <5> QED
          BY <4>4, <5>1
      <4>7. DispatchInv'
        BY <4>3, <4>4
      <4> QED
        BY <4>5, <4>6, <4>7
    <3>10. CASE Finish(p)
      BY <3>10 DEF Finish
    <3>11. CASE Fault(p)
      BY <3>11 DEF Fault, Schedule
    <3>12. CASE Compute(p)
      BY <3>12 DEF Compute
    <3>13. CASE SupervisorLoop
      BY <3>13 DEF SupervisorLoop, EnableIrq
    <3> QED
      BY <2>1, <3>1, <3>2, <3>3, <3>4, <3>5, <3>6, <3>7, <3>8, <3>9, <3>10,
         <3>11, <3>12, <3>13 DEF Process
  <2>2. ASSUME NEW d \in User, NEW e \in Events, Irq(d, e)
        PROVE  (StoppedInv /\ WaitInv /\ RunnerInv /\ DispatchInv)'
    BY <2>2, MarkActiveProperty DEF Irq, hw, disp
  <2>3. ASSUME NEW d \in User, NEW e \in Events, UartError(d, e)
        PROVE  (StoppedInv /\ WaitInv /\ RunnerInv /\ DispatchInv)'
    BY <2>3, MarkActiveProperty DEF UartError, disp, kernel
  <2>4. CASE SysTick
    <3>1. /\ pc' = pc /\ cpu' = cpu /\ current' = current /\ scan' = scan
          /\ primask' = primask /\ (pendsv => pendsv')
      BY <2>4 DEF SysTick, TickEnd, disp, TypeOK
    <3>2. PICK expired \in SUBSET {p \in User : "TIMER" \in wait_event[p]} :
            LET woken == DelayWoken(DelayDue(tick'))
            IN /\ wakeup_rsn' = [p \in Procs |-> wakeup_rsn[p] \cup
                    {e \in {"DELAY"} : p \in woken /\ ~ Killed(p)} \cup
                    {e \in {"TIMER"} : p \in expired /\ ~ Killed(p)}]
               /\ state' = [p \in Procs |->
                    IF p \in (woken \cup expired) /\ ~ Killed(p) THEN {"READY"}
                    ELSE state[p] \cup {b \in {"READY"} : p \in expired}]
      BY <2>4 DEF SysTick
    <3> DEFINE woken == DelayWoken(DelayDue(tick'))
    <3>3. \A p \in Procs : p \in woken \cup expired => p \in User
      BY DEF DelayWoken, DelayDue
    <3>4. \A p \in Procs : \/ state'[p] = state[p] /\ wakeup_rsn'[p] = wakeup_rsn[p]
                           \/ p \in User /\ ~ Killed(p) /\ Ready(p)' /\ ~ Killed(p)'
                              /\ wakeup_rsn'[p] # {}
                           \/ p \in User /\ Killed(p) /\ Ready(p)' /\ Killed(p)'
                              /\ wakeup_rsn'[p] = wakeup_rsn[p]
      <4> HIDE DEF StoppedInv, WaitInv, RunnerInv, DispatchInv
      <4> TAKE p \in Procs
      <4>1. CASE p \in woken \cup expired /\ ~ Killed(p)
        <5>1. state'[p] = {"READY"}
          BY <4>1, <3>2
        <5>2. wakeup_rsn'[p] # {}
          BY <4>1, <3>2
        <5> QED
          BY <4>1, <5>1, <5>2, <3>3
      <4>2. CASE p \notin woken \cup expired
        <5>1. state'[p] = state[p]
          BY <4>2, <3>2
        <5>2. wakeup_rsn'[p] = wakeup_rsn[p]
          BY <4>2, <3>2
        <5> QED
          BY <5>1, <5>2
      <4>3. CASE p \in woken \cup expired /\ Killed(p)
        <5>1. state'[p] = state[p] \cup {b \in {"READY"} : p \in expired}
          BY <4>3, <3>2
        <5>2. wakeup_rsn'[p] = wakeup_rsn[p]
          BY <4>3, <3>2
        <5>3. Killed(p)' /\ (state'[p] = state[p] \/ Ready(p)')
          BY <4>3, <5>1
        <5> QED
          BY <4>3, <5>2, <5>3, <3>3
      <4> QED
        BY <4>1, <4>2, <4>3
    <3>5. StoppedInv' /\ WaitInv'
      BY <3>1, <3>4
    <3>6. RunnerInv'
      BY <3>1, <3>4
    <3>7. DispatchInv'
      BY <3>1, <3>4
    <3> QED
      BY <3>5, <3>6, <3>7
  <2>5. CASE PendSV
    <3>1. StoppedInv' /\ WaitInv' /\ RunnerInv'
      BY <2>5 DEF PendSV, kernel
    <3>2. scan' = 0 /\ current' \in Nat /\ state' = state /\ cpu' = "pendsv"
      BY <2>5 DEF PendSV, kernel, TypeOK, Procs
    <3>3. DispatchInv'
      BY <3>2, <2>5 DEF PendSV
    <3> QED
      BY <3>1, <3>3
  <2>6. CASE NextTask
    <3>1. /\ state' = state /\ wakeup_rsn' = wakeup_rsn /\ pc' = pc
          /\ primask' = primask /\ pendsv' = pendsv
      BY <2>6 DEF NextTask, kernel, hw
    <3>2. CASE Eligible(current') /\ cpu' = "thread" /\ scan' = 0
      BY <3>1, <3>2 DEF Eligible
    <3>3. CASE ~ Eligible(current') /\ cpu' = cpu /\ scan' = scan + 1
      <4>1. StoppedInv' /\ WaitInv' /\ RunnerInv'
        BY <2>6, <3>1, <3>3 DEF NextTask
      <4>2. ASSUME Ready(0), cpu = "pendsv" => scan <= current
            PROVE  scan' <= current'
        <5>1. current' # 0
          BY <3>3, <4>2 DEF Eligible
        <5>2. current' = current + 1
          BY <2>6, <5>1, NextIndexProperty DEF NextTask, TypeOK
        <5>3. scan <= current /\ scan \in Nat /\ current \in Nat
          BY <2>6, <4>2 DEF NextTask, TypeOK, Procs
        <5> QED
          BY <3>3, <5>2, <5>3
      <4>3. DispatchInv'
        BY <2>6, <3>1, <3>3, <4>2 DEF NextTask
      <4> QED
        BY <4>1, <4>3
    <3> QED
      BY <2>6, <3>2, <3>3 DEF NextTask
  <2>7. CASE NoTask
    <3>1. StoppedInv' /\ WaitInv' /\ RunnerInv'
      BY <2>7 DEF NoTask, kernel, hw
    <3>2. scan = MaxTasks /\ current \in Nat /\ current < MaxTasks
      BY <2>7 DEF NoTask, LoopCount, TypeOK, Procs
    <3>3. ~ (scan <= current)
      BY <3>2
    <3>4. DispatchInv'
      BY <2>7, <3>3 DEF NoTask, kernel
    <3> QED
      BY <3>1, <3>4
  <2>8. CASE UNCHANGED vars
    BY <2>8 DEF vars, kernel, hw, disp
  <2> QED
    BY <2>1, <2>2, <2>3, <2>4, <2>5, <2>6, <2>7, <2>8 DEF Next, Interrupt, LineError
<1> QED
  BY <1>1, <1>2, TypeCorrect, PTL DEF Spec

-----------------------------------------------------------------------------
(* NothingSleptOver: whatever the interrupts do before, during and after a *)
(* wait_event, a process blocked in it has no reason recorded, because     *)
(* activate_process and check_timers set both in one critical section and  *)
(* wait_event tests and sleeps in one.                                     *)
THEOREM NothingSleptOver == Spec => []NoLostWakeup
<1>1. IInv => NoLostWakeup
  BY DEF IInv, WaitInv, NoLostWakeup
<1> QED
  BY <1>1, InductiveInvariant, PTL

(* ReturnsWithReason: if the UART driver never leaves interrupts masked,   *)
(* get_wakeup_flags after wait_event always finds a reason.                *)
THEOREM ReturnsWithReason ==
  ASSUME LineErrors = FALSE PROVE Spec => []WokenWithReason
<1>1. IInv => WokenWithReason
  BY DEF IInv, RunnerInv
<1> QED
  BY <1>1, InductiveInvariant, PTL

(* AlwaysFindsTask: update_next_task ends its loop without a process only  *)
(* after a fault of the supervisor, for every number of user processes and *)
(* whatever interrupts do between two turns of the loop.                   *)
THEOREM AlwaysFindsTask == Spec => []AlwaysDispatches
<1>1. IInv => AlwaysDispatches
  BY DEF IInv, DispatchInv, AlwaysDispatches
<1> QED
  BY <1>1, InductiveInvariant, PTL

-----------------------------------------------------------------------------
(* Every call of a process and every interrupt gives a process blocked in  *)
(* wait_event only events of its mask: it blocks with none recorded, and   *)
(* its mask stays the same until it returns, but for DELAY.                *)
LEMMA MaskStep ==
  ASSUME TypeOK, WokenByMask, [Next]_vars
  PROVE  WokenByMask'
<1> USE ConstantFacts DEF WokenByMask
<1>1. ASSUME NEW d \in Procs, NEW e, MarkActive(d, e),
             \A q \in User : pc'[q] = "waiting" => pc[q] = "waiting"
      PROVE  WokenByMask'
  BY <1>1 DEF MarkActive, Awaited, Record, TypeOK
<1>2. ASSUME NEW p \in Procs, Process(p)
      PROVE  WokenByMask'
  <2>1. ASSUME NEW mask \in Masks[p], p \in User, WaitEvent(p, mask)
        PROVE  WokenByMask'
    <3>1. /\ wakeup_rsn' = wakeup_rsn
          /\ \A q \in User \ {p} : wait_event'[q] = wait_event[q] /\ pc'[q] = pc[q]
          /\ pc'[p] = "waiting" => wakeup_rsn[p] = {}
      BY <2>1 DEF WaitEvent, MustBlock, TypeOK
    <3> QED BY <3>1
  <2>2. CASE WaitReturn(p) \/ DelayLoop(p) \/ Suspend(p) \/ SuspendReturn(p) \/ Finish(p) \/ Fault(p)
             \/ Compute(p) \/ SupervisorLoop \/ \E d \in User, e \in Events : ActivateTest(p, d, e)
    BY <2>2 DEF WaitReturn, DelayLoop, Suspend, SuspendReturn, Finish, Fault, Compute, SupervisorLoop,
       ActivateTest, kernel, TypeOK
  <2>3. CASE GetWakeupFlags(p)
    BY <2>3 DEF GetWakeupFlags, TypeOK
  <2>4. ASSUME NEW n \in Delays, TaskDelay(p, n)
        PROVE  WokenByMask'
    BY <2>4 DEF TaskDelay, TypeOK
  <2>5. CASE ActivateUpdate(p)
    <3>1. MarkActive(call[p].dest, call[p].ev) /\ call[p].dest \in Procs
      BY <2>5 DEF ActivateUpdate, TypeOK
    <3>2. \A q \in User : pc'[q] = "waiting" => pc[q] = "waiting"
      BY <2>5 DEF ActivateUpdate, TypeOK
    <3> QED BY <1>1, <3>1, <3>2
  <2> QED BY <1>2, <2>1, <2>2, <2>3, <2>4, <2>5 DEF Process
<1>3. CASE Interrupt
  <2>1. ASSUME NEW d \in User, NEW e \in Events, Irq(d, e) \/ UartError(d, e)
        PROVE  WokenByMask'
    <3>1. pc' = pc /\ (MarkActive(d, e) \/ UNCHANGED kernel)
      BY <2>1 DEF Irq, UartError
    <3> QED BY <1>1, <3>1 DEF kernel
  <2>2. CASE SysTick
    <3>1. PICK expired \in SUBSET {p \in User : "TIMER" \in wait_event[p]} :
            /\ wait_event' = [p \in Procs |-> IF p = current /\ DelayDue(tick') # {}
                                              THEN wait_event[p] \ {"DELAY"} ELSE wait_event[p]]
            /\ wakeup_rsn' = [p \in Procs |-> wakeup_rsn[p] \cup
                 {e \in {"DELAY"} : p \in DelayWoken(DelayDue(tick')) /\ ~ Killed(p)} \cup
                 {e \in {"TIMER"} : p \in expired /\ ~ Killed(p)}]
      BY <2>2 DEF SysTick
    <3>2. ASSUME NEW p \in User, pc[p] = "waiting"
          PROVE  wakeup_rsn'[p] \subseteq wait_event'[p] \cup {"DELAY"}
      <4>1. wait_event[p] \subseteq wait_event'[p] \cup {"DELAY"}
        BY <3>1
      <4>2. wakeup_rsn'[p] \subseteq wakeup_rsn[p] \cup {"DELAY"} \cup {e \in {"TIMER"} : p \in expired}
        BY <3>1
      <4>3. {e \in {"TIMER"} : p \in expired} \subseteq wait_event[p]
        BY <3>1
      <4> QED BY <3>2, <4>1, <4>2, <4>3
    <3>3. pc' = pc
      BY <2>2 DEF SysTick
    <3> QED BY <3>2, <3>3
  <2>3. CASE PendSV \/ NextTask \/ NoTask
    BY <2>3 DEF PendSV, NextTask, NoTask, kernel
  <2> QED BY <1>3, <2>1, <2>2, <2>3 DEF Interrupt, LineError
<1>4. CASE UNCHANGED vars
  BY <1>4 DEF vars, kernel
<1> QED BY <1>2, <1>3, <1>4 DEF Next

(* WakesByMask: a process that blocks in wait_event is woken, and is given *)
(* events, by the mask of that call alone (and DELAY), whatever masks it   *)
(* passed before, and with or without line errors. (Where the call does    *)
(* not block, an event of an old mask may be recorded still.)              *)
THEOREM WakesByMask == Spec => []WokenByMask
<1>1. Init => WokenByMask
  BY ConstantFacts DEF Init, WokenByMask
<1>2. TypeOK /\ WokenByMask /\ [Next]_vars => WokenByMask'
  BY MaskStep
<1> QED
  BY <1>1, <1>2, TypeCorrect, PTL DEF Spec

-----------------------------------------------------------------------------
(* StaysStopped: interrupts never restart a process that finished or       *)
(* faulted, because activate_process tests KILLED: only the timer branch   *)
(* of check_timers does, or a process caught between activate_process'     *)
(* test and its critical section.                                          *)
THEOREM StaysStopped == Spec => RestartOnlyByRaceOrTimer
<1> DEFINE Restarted(p) == Stopped(p) /\ ~ Ready(p) /\ Ready(p)'
           Excused(p) == \/ "TIMER" \in wait_event[p]
                         \/ \E q \in Procs : pc[q] = "activating" /\ call[q].dest = p
<1>1. ASSUME IInv, [Next]_vars, NEW p \in User, Restarted(p) PROVE Excused(p)
  <2> USE ConstantFacts DEF Ready
  <2>1. p \in Procs /\ TypeOK /\ Killed(p)
    BY <1>1 DEF IInv, StoppedInv
  <2>2. ASSUME NEW q \in Procs, Process(q) PROVE Excused(p)
    <3>1. CASE ActivateUpdate(q)
      <4>1. call[q].dest \in Procs /\ call[q].ev \in AllEvents
        BY <2>1 DEF TypeOK
      <4>2. pc[q] = "activating" /\ MarkActive(call[q].dest, call[q].ev)
        BY <3>1 DEF ActivateUpdate
      <4>3. p = call[q].dest
        BY <1>1, <2>1, <4>1, <4>2, MarkActiveProperty
      <4> QED
        BY <4>2, <4>3
    <3>2. CASE ~ ActivateUpdate(q)
      <4>1. Ready(p)' => Ready(p)
        <5> USE <2>1 DEF TypeOK
        <5>1. ASSUME NEW mask \in Masks[q], WaitEvent(q, mask) PROVE Ready(p)' => Ready(p)
          BY <5>1 DEF WaitEvent
        <5>2. ASSUME NEW n \in Delays, TaskDelay(q, n) PROVE Ready(p)' => Ready(p)
          BY <5>2 DEF TaskDelay
        <5>3. CASE Suspend(q) \/ Finish(q) \/ Fault(q)
          <6>1. CASE Suspend(q)
            BY <6>1 DEF Suspend
          <6>2. CASE Finish(q)
            BY <6>2 DEF Finish
          <6>3. CASE Fault(q)
            BY <6>3 DEF Fault
          <6> QED BY <5>3, <6>1, <6>2, <6>3
        <5>4. CASE WaitReturn(q) \/ GetWakeupFlags(q) \/ DelayLoop(q) \/ SuspendReturn(q)
                   \/ Compute(q) \/ SupervisorLoop
          BY <5>4 DEF WaitReturn, GetWakeupFlags, DelayLoop, SuspendReturn, Compute,
             SupervisorLoop, kernel
        <5>5. ASSUME NEW d \in User, NEW e \in Events, ActivateTest(q, d, e)
              PROVE  Ready(p)' => Ready(p)
          BY <5>5 DEF ActivateTest, kernel
        <5> QED
          BY <2>2, <3>2, <5>1, <5>2, <5>3, <5>4, <5>5 DEF Process
      <4> QED
        BY <1>1, <4>1
    <3> QED
      BY <3>1, <3>2
  <2>3. ASSUME NEW d \in User, NEW e \in Events, Irq(d, e) \/ UartError(d, e)
        PROVE  Excused(p)
    <3>1. CASE MayActivate(d) /\ MarkActive(d, e)
      <4>1. d # p
        BY <2>1, <3>1 DEF MayActivate
      <4> QED
        BY <1>1, <2>1, <3>1, <4>1, MarkActiveProperty
    <3>2. CASE UNCHANGED kernel
      BY <1>1, <3>2 DEF kernel
    <3> QED
      BY <2>3, <3>1, <3>2 DEF Irq, UartError
  <2>4. CASE SysTick
    <3>1. PICK expired \in SUBSET {q \in User : "TIMER" \in wait_event[q]} :
            state' = [q \in Procs |->
                 IF q \in (DelayWoken(DelayDue(tick')) \cup expired) /\ ~ Killed(q)
                 THEN {"READY"}
                 ELSE state[q] \cup {b \in {"READY"} : q \in expired}]
      BY <2>4 DEF SysTick
    <3>2. state'[p] = state[p] \cup {b \in {"READY"} : p \in expired}
      BY <2>1, <3>1
    <3>3. p \in expired
      BY <1>1, <3>2
    <3> QED
      BY <3>3
  <2>5. CASE PendSV \/ NextTask \/ NoTask \/ UNCHANGED vars
    BY <1>1, <2>5 DEF PendSV, NextTask, NoTask, vars, kernel
  <2> QED
    BY <1>1, <2>2, <2>3, <2>4, <2>5 DEF Next, Interrupt, LineError
<1>2. IInv /\ [Next]_vars =>
        [\A p \in User : Restarted(p) => Excused(p)]_vars
  BY <1>1
<1> QED
  BY <1>2, InductiveInvariant, PTL DEF Spec, RestartOnlyByRaceOrTimer

-----------------------------------------------------------------------------
(* DelayInvariant: DELAY is recorded only for a process that has waited    *)
(* its ticks, or whose delay ends behind the wrap of g_tick_count.         *)
THEOREM DelayInvariant == Spec => [](TypeOK /\ DelayInv)
<1> USE ConstantFacts
<1>0. "DELAY" \notin Events /\ "TIMER" \notin Events
  BY SchedulerAssumption
<1>1. Init => DelayInv
  <2> SUFFICES ASSUME Init PROVE DelayInv
    OBVIOUS
  <2>1. \A p \in Procs : pc[p] = "run"
    BY DEF Init
  <2> QED
    BY <2>1 DEF DelayInv
<1>2. TypeOK /\ TypeOK' /\ DelayInv /\ [Next]_vars => DelayInv'
  <2> SUFFICES ASSUME TypeOK, TypeOK', DelayInv, [Next]_vars PROVE DelayInv'
    OBVIOUS
  <2>1. ASSUME NEW p \in Procs, Process(p) PROVE DelayInv'
    <3> USE DEF DelayInv, TypeOK
    <3>1. ASSUME NEW n \in Delays, TaskDelay(p, n) PROVE DelayInv'
      <4>1. /\ delay_value' = [delay_value EXCEPT ![p] = (tick + n) % TickMod]
            /\ wakeup_rsn' = [wakeup_rsn EXCEPT ![p] = @ \ {"DELAY"}]
            /\ pc' = [pc EXCEPT ![p] = "delay"] 
            /\ owed' = [owed EXCEPT ![p] = IF tick + n < TickMod THEN n ELSE 0]
            /\ call' = call /\ tick' = tick
        BY <3>1 DEF TaskDelay, ForgetDelay
      <4>2. tick + n < TickMod => (tick + n) % TickMod = tick + n
        <5> DEFINE later == tick + n
        <5>1. later \in Nat /\ TickMod \in Nat
          OBVIOUS
        <5> HIDE DEF later
        <5>2. later < TickMod => later % TickMod = later
          BY <5>1, ModSmall
        <5> QED
          BY <5>2 DEF later
      <4>3. ASSUME NEW q \in User, pc'[q] = "delay"
            PROVE  \/ owed'[q] = 0
                   \/ "DELAY" \notin wakeup_rsn'[q] /\ tick' + owed'[q] <= delay_value'[q]
        BY <4>1, <4>2, <4>3
      <4> QED
        BY <4>1, <4>3
    <3>2. CASE ActivateUpdate(p)
      <4>1. /\ pc' = [pc EXCEPT ![p] = "run"] /\ pc[p] = "activating"
            /\ call' = [call EXCEPT ![p] = NoCall]
            /\ tick' = tick /\ owed' = owed /\ delay_value' = delay_value
            /\ MarkActive(call[p].dest, call[p].ev)
        BY <3>2 DEF ActivateUpdate, hw, MarkActive
      <4>2. call[p].ev # "DELAY" /\ call[p].dest \in Procs /\ call[p].ev \in AllEvents
        BY <1>0, <4>1
      <4>3. \A q \in Procs : "DELAY" \in wakeup_rsn'[q] => "DELAY" \in wakeup_rsn[q]
        BY <4>1, <4>2 DEF MarkActive, Record
      <4> QED
        BY <4>1, <4>3
    <3>3. ASSUME NEW d \in User, NEW e \in Events, ActivateTest(p, d, e) PROVE DelayInv'
      BY <3>3 DEF ActivateTest, kernel, hw
    <3>4. ASSUME NEW mask \in Masks[p], WaitEvent(p, mask) PROVE DelayInv'
      BY <3>4 DEF WaitEvent
    <3>5. CASE GetWakeupFlags(p)
      BY <3>5 DEF GetWakeupFlags, hw
    <3>6. CASE WaitReturn(p) \/ DelayLoop(p) \/ SuspendReturn(p) \/ Compute(p) \/ SupervisorLoop
      BY <3>6 DEF WaitReturn, DelayLoop, SuspendReturn, Compute, SupervisorLoop, kernel, hw
    <3>7. CASE Suspend(p) \/ Finish(p) \/ Fault(p)
      BY <3>7 DEF Suspend, Finish, Fault, hw
    <3> QED
      BY <2>1, <3>1, <3>2, <3>3, <3>4, <3>5, <3>6, <3>7 DEF Process
  <2>2. ASSUME NEW d \in User, NEW e \in Events, Irq(d, e) \/ UartError(d, e) PROVE DelayInv'
    <3>1. /\ tick' = tick /\ pc' = pc /\ call' = call /\ owed' = owed
          /\ delay_value' = delay_value
          /\ wakeup_rsn' = wakeup_rsn \/ wakeup_rsn' = [wakeup_rsn EXCEPT ![d] = @ \cup {e}]
      BY <2>2 DEF Irq, UartError, MarkActive, Record, hw, kernel
    <3>2. e # "DELAY"
      BY <1>0
    <3>3. \A q \in Procs : "DELAY" \in wakeup_rsn'[q] => "DELAY" \in wakeup_rsn[q]
      BY <3>1, <3>2 DEF TypeOK
    <3> QED
      BY <3>1, <3>3 DEF DelayInv
  <2>3. CASE SysTick
    <3>1. tick + 1 < TickMod => tick' = tick + 1
      <4>1. tick + 1 \in Nat
        BY DEF TypeOK
      <4> QED
        BY <2>3, <4>1, ModSmall DEF SysTick, NextTick
    <3>2. pc' = pc /\ call' = call /\ delay_value' = delay_value
      BY <2>3 DEF SysTick
    <3>3. ASSUME NEW p \in User, "DELAY" \in wakeup_rsn'[p], "DELAY" \notin wakeup_rsn[p]
          PROVE  tick' >= delay_value[p]
      BY <2>3, <3>3 DEF SysTick, DelayWoken, DelayDue
    <3>4. \A p \in Procs : owed'[p] = IF owed[p] = 0 THEN 0 ELSE owed[p] - 1
      BY <2>3 DEF SysTick
    <3>5. ASSUME NEW p \in User, pc'[p] = "delay"
          PROVE  \/ owed'[p] = 0
                 \/ "DELAY" \notin wakeup_rsn'[p] /\ tick' + owed'[p] <= delay_value'[p]
      <4>1. owed[p] \in Nat /\ delay_value[p] \in Nat /\ tick \in Nat
        BY DEF TypeOK
      <4>2. CASE owed[p] = 0
        BY <3>4, <4>2
      <4>3. CASE owed[p] # 0
        <5>1. "DELAY" \notin wakeup_rsn[p] /\ tick + owed[p] <= delay_value[p]
          BY <3>2, <3>5, <4>3 DEF DelayInv
        <5>2. owed'[p] = owed[p] - 1 /\ tick' = tick + 1
          <6>1. delay_value[p] < TickMod
            BY DEF TypeOK
          <6> QED
            BY <3>1, <3>4, <4>1, <4>3, <5>1, <6>1
        <5>3. tick' + owed'[p] <= delay_value'[p]
          BY <3>2, <4>1, <5>1, <5>2
        <5>4. CASE "DELAY" \in wakeup_rsn'[p]
          <6>1. tick + 1 >= delay_value[p]
            BY <3>3, <5>1, <5>2, <5>4
          <6>2. tick + owed[p] <= tick + 1
            BY <4>1, <5>1, <6>1
          <6> QED
            BY <4>1, <4>3, <5>2, <6>2
        <5> QED
          BY <5>3, <5>4
      <4> QED
        BY <4>2, <4>3
    <3> QED
      BY <3>1, <3>2, <3>5 DEF DelayInv
  <2>4. CASE PendSV \/ NextTask \/ NoTask \/ UNCHANGED vars
    BY <2>4 DEF PendSV, NextTask, NoTask, vars, kernel, hw, DelayInv
  <2> QED
    BY <2>1, <2>2, <2>3, <2>4 DEF Next, Interrupt, LineError
<1> QED
  BY <1>1, <1>2, TypeCorrect, PTL DEF Spec

(* DelayLastsLongEnough: task_delay never returns early unless its delay   *)
(* crosses the wrap of g_tick_count, whatever other events wake the        *)
(* process in the meantime and whatever check_timers does to the others.   *)
THEOREM DelayLastsLongEnough == Spec => DelayNotEarly
<1>1. ASSUME TypeOK, DelayInv, [Next]_vars, NEW p \in User, pc[p] = "delay", pc'[p] = "run"
      PROVE  owed[p] = 0
  <2> USE ConstantFacts, <1>1 DEF TypeOK
  <2>1. ASSUME NEW q \in Procs, Process(q) PROVE DelayLoop(p)
    <3>1. CASE p = q
      BY <2>1, <3>1 DEF Process, WaitEvent, WaitReturn, GetWakeupFlags, TaskDelay, Suspend,
         SuspendReturn, ActivateTest, ActivateUpdate, Finish, Fault, Compute, SupervisorLoop
    <3>2. CASE p # q
      <4>1. pc'[p] = pc[p]
        BY <2>1, <3>2 DEF Process, WaitEvent, WaitReturn, GetWakeupFlags, TaskDelay, DelayLoop,
           Suspend, SuspendReturn, ActivateTest, ActivateUpdate, Finish, Fault, Compute,
           SupervisorLoop
      <4> QED
        BY <4>1
    <3> QED
      BY <3>1, <3>2
  <2>2. DelayLoop(p)
    <3>1. pc' # pc
      OBVIOUS
    <3> QED
      BY <2>1, <3>1 DEF Next, Interrupt, LineError, Irq, UartError, SysTick, PendSV, NextTask,
         NoTask, vars
  <2>3. "DELAY" \in wakeup_rsn[p]
    BY <2>2 DEF DelayLoop
  <2> QED
    BY <2>3 DEF DelayInv
<1>2. TypeOK /\ DelayInv /\ [Next]_vars =>
        [\A p \in User : pc[p] = "delay" /\ pc'[p] = "run" => owed[p] = 0]_vars
  BY <1>1
<1> QED
  BY <1>2, DelayInvariant, PTL DEF Spec, DelayNotEarly
-----------------------------------------------------------------------------
(***************************************************************************)
(* Scheduler implements EventFlags, for any processes, events and masks,   *)
(* as long as no UART line error leaves interrupts masked.                 *)
(***************************************************************************)

(* A step that moves one process in its call moves its mode alone.         *)
LEMMA ModeStep ==
  ASSUME TypeOK, NEW p \in Procs, NEW c, pc' = [pc EXCEPT ![p] = c]
  PROVE  [q \in Procs |-> Mode(pc[q])]' = [[q \in Procs |-> Mode(pc[q])] EXCEPT ![p] = Mode(c)]
BY DEF TypeOK

(* ... and changes no mode if EventFlags does not tell the two places      *)
(* apart.                                                                  *)
LEMMA SameMode ==
  ASSUME TypeOK, NEW p \in Procs, NEW c, pc' = [pc EXCEPT ![p] = c], Mode(c) = Mode(pc[p])
  PROVE  [q \in Procs |-> Mode(pc[q])]' = [q \in Procs |-> Mode(pc[q])]
BY DEF TypeOK

(* The modes of the places.                                                *)
LEMMA Modes ==
  /\ Mode("waiting") = "blocked"
  /\ Mode("woken") = "returning"
  /\ Mode("spin") = "stopped" /\ Mode("dead") = "stopped"
  /\ \A c \in {"run", "delay", "suspended", "activating"} : Mode(c) = "running"
BY DEF Mode

(* activate_process raises an event the destination asked for, or nothing. *)
LEMMA MarkActiveRaises ==
  ASSUME TypeOK, NEW d \in Procs, NEW e \in AllEvents, MarkActive(d, e),
         [q \in Procs |-> Mode(pc[q])]' = [q \in Procs |-> Mode(pc[q])]
  PROVE  Promise!Raise
<1>1. \A q \in Procs : wakeup_rsn'[q] = wakeup_rsn[q]
                       \/ (wakeup_rsn'[q] = wakeup_rsn[q] \cup {e} /\ e \in wait_event[q])
  BY DEF MarkActive, Record, Awaited, TypeOK
<1>2. wait_event' = wait_event
  BY DEF MarkActive
<1>3. \A q \in Procs : /\ wakeup_rsn[q] \subseteq wakeup_rsn'[q]
                       /\ wakeup_rsn'[q] \subseteq wakeup_rsn[q] \cup wait_event[q]
  BY <1>1
<1> QED BY <1>2, <1>3 DEF Promise!Raise

(* The supervisor never waits for events.                                  *)
SupervisorInv == pc[0] \in {"run", "activating", "dead"}

(* Every step keeps the supervisor out of wait_event.                      *)
LEMMA SupervisorStep == TypeOK /\ SupervisorInv /\ [Next]_vars => SupervisorInv'
<1> SUFFICES ASSUME TypeOK, SupervisorInv, [Next]_vars PROVE SupervisorInv'
    OBVIOUS
<1> USE ConstantFacts DEF SupervisorInv
<1>1. ASSUME NEW p \in Procs, Process(p) PROVE SupervisorInv'
  <2>1. CASE p # 0
    <3>1. pc'[0] = pc[0]
      BY <1>1, <2>1 DEF TypeOK, Process, WaitEvent, WaitReturn, GetWakeupFlags, TaskDelay, DelayLoop,
         Suspend, SuspendReturn, ActivateTest, ActivateUpdate, Finish, Fault, Compute,
         SupervisorLoop
    <3> QED BY <3>1
  <2>2. CASE p = 0
    BY <1>1, <2>2 DEF TypeOK, Process, WaitReturn, GetWakeupFlags, TaskDelay, DelayLoop,
       Suspend, SuspendReturn, ActivateTest, ActivateUpdate, Finish, Fault, Compute,
       SupervisorLoop
  <2> QED BY <2>1, <2>2
<1>2. CASE Interrupt
  BY <1>2 DEF Interrupt, LineError, Irq, UartError, SysTick, PendSV, NextTask, NoTask
<1>3. CASE UNCHANGED vars
  BY <1>3 DEF vars
<1> QED BY <1>1, <1>2, <1>3 DEF Next

(* The kernel starts as EventFlags does.                                   *)
LEMMA InitPromise == Init => Promise!Init
BY Modes DEF Init, Promise!Init

(* Each step of a process is one of EventFlags or changes nothing of it.   *)
LEMMA ProcessPromise ==
  ASSUME IInv, SupervisorInv, LineErrors = FALSE, NEW p \in Procs, Process(p)
  PROVE  [Promise!Next]_Promise!flags
<1> USE DEF Promise!flags
<1>t. TypeOK /\ WaitInv /\ RunnerInv
  BY DEF IInv
<1>p. pc[p] \in Pcs
  BY <1>t DEF TypeOK
<1>s. ASSUME UNCHANGED <<pc, wait_event, wakeup_rsn>> PROVE UNCHANGED Promise!flags
  BY <1>s
<1>m. ASSUME NEW c, pc' = [pc EXCEPT ![p] = c], Mode(c) = Mode(pc[p]),
             UNCHANGED <<wait_event, wakeup_rsn>>
      PROVE  UNCHANGED Promise!flags
  BY <1>m, <1>t, SameMode
<1>1. ASSUME p \in User, NEW mask \in Masks[p], WaitEvent(p, mask)
      PROVE  Promise!Wait(p, mask) /\ mask \in SUBSET AllEvents
  <2>1. mask \in SUBSET AllEvents
    BY ConstantFacts, <1>1
  <2>2. /\ wait_event' = [wait_event EXCEPT ![p] = mask] /\ UNCHANGED wakeup_rsn
        /\ pc[p] = "run"
        /\ pc' = [pc EXCEPT ![p] = IF wakeup_rsn[p] = {} THEN "waiting" ELSE "woken"]
    BY <1>1 DEF WaitEvent, MustBlock
  <2>3. Mode(IF wakeup_rsn[p] = {} THEN "waiting" ELSE "woken")
          = IF wakeup_rsn[p] = {} THEN "blocked" ELSE "returning"
    BY Modes
  <2>4. [q \in Procs |-> Mode(pc[q])]'
          = [[q \in Procs |-> Mode(pc[q])] EXCEPT
               ![p] = IF wakeup_rsn[p] = {} THEN "blocked" ELSE "returning"]
    BY <1>t, <2>2, <2>3, ModeStep
  <2>5. [q \in Procs |-> Mode(pc[q])][p] = "running"
    BY <2>2, Modes
  <2> QED BY <2>1, <2>2, <2>4, <2>5 DEF Promise!Wait
<1>2. ASSUME WaitReturn(p) PROVE Promise!Return(p)
  <2>1. pc[p] = "waiting" /\ OnCpu(p) /\ ~ pendsv /\ p \in User
    <3>1. primask = FALSE
      BY ConstantFacts, <1>t DEF RunnerInv
    <3>2. p # 0 /\ pc[p] = "waiting"
      BY <1>2 DEF WaitReturn, SupervisorInv
    <3> QED BY <1>2, <3>1, <3>2, ConstantFacts DEF WaitReturn, Executes, OnCpu, Procs, User
  <2>2. wakeup_rsn[p] # {}
    BY <1>t, <2>1 DEF RunnerInv, WaitInv
  <2>3. /\ pc' = [pc EXCEPT ![p] = "woken"]
        /\ UNCHANGED <<wait_event, wakeup_rsn>>
    BY <1>2 DEF WaitReturn, kernel
  <2>4. [q \in Procs |-> Mode(pc[q])]'
          = [[q \in Procs |-> Mode(pc[q])] EXCEPT ![p] = "returning"]
    <3>1. Mode("woken") = "returning"
      BY Modes
    <3> QED BY <1>t, <2>3, <3>1, ModeStep
  <2> QED BY <2>1, <2>2, <2>3, <2>4, Modes DEF Promise!Return
<1>3. ASSUME GetWakeupFlags(p) PROVE Promise!Read(p)
  <2>1. /\ pc' = [pc EXCEPT ![p] = "run"] /\ pc[p] = "woken"
        /\ wakeup_rsn' = [wakeup_rsn EXCEPT ![p] = {}] /\ UNCHANGED wait_event
    BY <1>3 DEF GetWakeupFlags
  <2>2. [q \in Procs |-> Mode(pc[q])]'
          = [[q \in Procs |-> Mode(pc[q])] EXCEPT ![p] = "running"]
    <3>1. Mode("run") = "running"
      BY Modes
    <3> QED BY <1>t, <2>1, <3>1, ModeStep
  <2> QED BY <2>1, <2>2, Modes DEF Promise!Read
<1>4. ASSUME NEW n \in Delays, TaskDelay(p, n) PROVE Promise!Delay(p)
  <2>1. /\ pc' = [pc EXCEPT ![p] = "delay"] /\ pc[p] = "run"
        /\ wakeup_rsn' = [wakeup_rsn EXCEPT ![p] = @ \ {"DELAY"}]
        /\ wait_event' = [wait_event EXCEPT ![p] = @ \cup {"DELAY"}]
    BY <1>4 DEF TaskDelay, ForgetDelay
  <2>2. [q \in Procs |-> Mode(pc[q])]' = [q \in Procs |-> Mode(pc[q])]
    BY <1>t, <2>1, SameMode, Modes
  <2> QED BY <2>1, <2>2, Modes DEF Promise!Delay
<1>5. ASSUME DelayLoop(p) PROVE UNCHANGED Promise!flags
  BY <1>5, <1>m, <1>s, Modes DEF DelayLoop, kernel
<1>6. ASSUME Suspend(p) \/ SuspendReturn(p) \/ (\E d \in User, e \in Events : ActivateTest(p, d, e))
      PROVE  UNCHANGED Promise!flags
  <2>1. PICK c \in {"run", "suspended", "activating"} : pc' = [pc EXCEPT ![p] = c]
    BY <1>6 DEF Suspend, SuspendReturn, ActivateTest
  <2>2. pc[p] \in {"run", "suspended"} /\ UNCHANGED <<wait_event, wakeup_rsn>>
    BY <1>6 DEF Suspend, SuspendReturn, ActivateTest, kernel
  <2>3. Mode(c) = Mode(pc[p])
    BY <2>1, <2>2, Modes
  <2> QED BY <2>1, <2>2, <2>3, <1>m
<1>7. ASSUME ActivateUpdate(p) PROVE Promise!Raise
  <2>1. /\ pc' = [pc EXCEPT ![p] = "run"] /\ pc[p] = "activating"
        /\ MarkActive(call[p].dest, call[p].ev)
        /\ call[p].dest \in Procs /\ call[p].ev \in AllEvents
    BY <1>7, <1>t DEF ActivateUpdate, TypeOK
  <2>2. [q \in Procs |-> Mode(pc[q])]' = [q \in Procs |-> Mode(pc[q])]
    BY <1>t, <2>1, SameMode, Modes
  <2> QED BY <1>t, <2>1, <2>2, MarkActiveRaises
<1>8. ASSUME Finish(p) \/ Fault(p) PROVE [Promise!Next]_Promise!flags
  <2>1. PICK c \in {"spin", "dead"} : pc' = [pc EXCEPT ![p] = c]
    BY <1>8 DEF Finish, Fault
  <2>2. pc[p] \in {"run", "woken", "dead"} /\ UNCHANGED <<wait_event, wakeup_rsn>>
    BY <1>8 DEF Finish, Fault
  <2>3. [q \in Procs |-> Mode(pc[q])]'
          = [[q \in Procs |-> Mode(pc[q])] EXCEPT ![p] = "stopped"]
    <3>1. Mode(c) = "stopped"
      BY <2>1, Modes
    <3> QED BY <1>t, <2>1, <3>1, ModeStep
  <2>4. CASE pc[p] \in {"run", "woken"}
    <3>1. Promise!Stop(p)
      BY <2>2, <2>3, <2>4, Modes DEF Promise!Stop
    <3> QED BY <3>1 DEF Promise!Next
  <2>5. CASE pc[p] = "dead"
    <3>1. Mode(c) = Mode(pc[p])
      BY <2>1, <2>5, Modes
    <3> QED BY <2>1, <2>2, <3>1, <1>m
  <2> QED BY <2>2, <2>4, <2>5
<1>9. ASSUME Compute(p) \/ SupervisorLoop PROVE UNCHANGED Promise!flags
  BY <1>9, <1>s DEF Compute, SupervisorLoop, kernel
<1> QED
  <2>1. CASE p \in User /\ \E mask \in Masks[p] : WaitEvent(p, mask)
    BY <2>1, <1>1 DEF Promise!Next
  <2>2. CASE WaitReturn(p)
    BY <2>2, <1>2 DEF Promise!Next
  <2>3. CASE GetWakeupFlags(p)
    BY <2>3, <1>3 DEF Promise!Next
  <2>4. CASE \E n \in Delays : TaskDelay(p, n)
    BY <2>4, <1>4 DEF Promise!Next
  <2>5. CASE ActivateUpdate(p)
    BY <2>5, <1>7 DEF Promise!Next
  <2> QED BY <2>1, <2>2, <2>3, <2>4, <2>5, <1>5, <1>6, <1>8, <1>9 DEF Process

(* Each interrupt raises events or changes nothing EventFlags sees.        *)
LEMMA InterruptPromise ==
  ASSUME IInv, Interrupt
  PROVE  [Promise!Next]_Promise!flags
<1> USE DEF Promise!flags
<1>t. TypeOK /\ User \subseteq Procs /\ Events \subseteq AllEvents
  BY ConstantFacts DEF IInv
<1>s. ASSUME UNCHANGED <<pc, wait_event, wakeup_rsn>> PROVE UNCHANGED Promise!flags
  BY <1>s
<1>a. ASSUME NEW d \in User, NEW e \in Events, MarkActive(d, e), pc' = pc
      PROVE  Promise!Raise
  BY <1>a, <1>t, MarkActiveRaises
<1>1. ASSUME NEW d \in User, NEW e \in Events, Irq(d, e) PROVE Promise!Raise
  BY <1>1, <1>a DEF Irq
<1>2. ASSUME NEW d \in User, NEW e \in Events, UartError(d, e)
      PROVE  Promise!Raise \/ UNCHANGED Promise!flags
  BY <1>2, <1>a, <1>s DEF UartError, kernel
<1>3. CASE SysTick
  <2>1. PICK expired \in SUBSET {p \in User : "TIMER" \in wait_event[p]} :
          LET due   == DelayDue(tick')
              woken == DelayWoken(due)
          IN /\ wait_event' = [p \in Procs |-> IF p = current /\ due # {}
                                               THEN wait_event[p] \ {"DELAY"}
                                               ELSE wait_event[p]]
             /\ wakeup_rsn' = [p \in Procs |-> wakeup_rsn[p] \cup
                  {e \in {"DELAY"} : p \in woken /\ ~ Killed(p)} \cup
                  {e \in {"TIMER"} : p \in expired /\ ~ Killed(p)}]
    BY <1>3 DEF SysTick
  <2>2. \A p \in Procs : /\ p \in DelayWoken(DelayDue(tick')) => "DELAY" \in wait_event[p]
                         /\ p \in expired => "TIMER" \in wait_event[p]
    BY <2>1 DEF DelayWoken, DelayDue
  <2>3. ASSUME NEW p \in Procs
        PROVE  /\ wakeup_rsn[p] \subseteq wakeup_rsn'[p]
               /\ wakeup_rsn'[p] \subseteq wakeup_rsn[p] \cup wait_event[p]
               /\ wait_event'[p] \in {wait_event[p], wait_event[p] \ {"DELAY"}}
    BY <2>1, <2>2
  <2>4. pc' = pc
    BY <1>3 DEF SysTick
  <2>5. Promise!Raise
    BY <2>3, <2>4 DEF Promise!Raise
  <2> QED BY <2>5 DEF Promise!Next
<1>4. CASE PendSV \/ NextTask \/ NoTask
  BY <1>4, <1>s DEF PendSV, NextTask, NoTask, kernel
<1> QED BY <1>1, <1>2, <1>3, <1>4 DEF Interrupt, LineError, Promise!Next

(* The kernel implements EventFlags: events that were asked for are kept   *)
(* until they are read, no others are recorded, and wait_event sleeps      *)
(* exactly while none is, in every interleaving of processes, interrupts   *)
(* and ticks.                                                              *)
THEOREM ImplementsEventFlags == ASSUME LineErrors = FALSE PROVE Spec => KeepsPromise
<1>1. Init => SupervisorInv
  BY ConstantFacts DEF Init, SupervisorInv
<1>2. IInv /\ SupervisorInv /\ [Next]_vars => SupervisorInv'
  BY SupervisorStep DEF IInv
<1>3. IInv /\ SupervisorInv /\ [Next]_vars => [Promise!Next]_Promise!flags
  <2>1. ASSUME IInv, UNCHANGED vars PROVE UNCHANGED Promise!flags
    BY <2>1 DEF vars, kernel, Promise!flags
  <2> QED BY <2>1, ProcessPromise, InterruptPromise DEF Next
<1> QED BY <1>1, <1>2, <1>3, InitPromise, InductiveInvariant, PTL
        DEF Spec, KeepsPromise, Promise!Spec
=============================================================================
