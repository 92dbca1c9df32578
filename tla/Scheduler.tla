----------------------------- MODULE Scheduler -----------------------------
(***************************************************************************)
(* The A_os kernel as one processor sees it: the process table, the calls  *)
(* a process makes to give the processor up (wait_event, task_delay,       *)
(* suspend), activate_process from interrupts and from other processes,    *)
(* the SysTick handler with the kernel's half of check_timers, and the     *)
(* PendSV handler that picks the next process.                             *)
(*                                                                         *)
(* A step is what runs between two points where an interrupt can be taken. *)
(* A critical section is one step; PendSV, which runs with interrupts      *)
(* enabled at the lowest priority, is one step per iteration of its loop.  *)
(***************************************************************************)
EXTENDS Integers, FiniteSets

CONSTANTS
  MaxTasks,   \* MAX_TASKS: the supervisor is process 0, the others are user processes
  Events,     \* the events interrupts and processes raise (neither DELAY nor TIMER)
  Masks,      \* Masks[p]: the masks process p passes to wait_event
  Calls,      \* Calls[p]: the kernel calls process p makes, of CallNames
  Delays,     \* the tick counts passed to task_delay
  TickMod,    \* g_tick_count counts modulo TickMod (2^32 in the code)
  TickLimit,  \* bound: no tick is taken at this count (TickMod: no bound)
  LineErrors, \* whether the UART reports line errors (HAL_UART_ErrorCallback)
  Overrun     \* whether a tick can come in PendSV, or before any process code ran since
              \* the last one: FALSE for liveness, where such ticks would have to recur for ever

CallNames == {"wait", "delay", "suspend", "activate", "finish", "fault"}

AllEvents == Events \cup {"DELAY", "TIMER"}

Procs == 0 .. MaxTasks - 1
User  == 1 .. MaxTasks - 1

ASSUME SchedulerAssumption ==
  /\ MaxTasks \in Nat \ {0, 1}
  /\ {"DELAY", "TIMER"} \cap Events = {}
  /\ Masks \in [User -> SUBSET SUBSET AllEvents]
  /\ Calls \in [Procs -> SUBSET CallNames]
  /\ Calls[0] \subseteq {"activate", "fault"}
  /\ Delays \subseteq Nat
  /\ TickMod \in Nat \ {0}
  /\ TickLimit \in Nat
  /\ LineErrors \in BOOLEAN
  /\ Overrun \in BOOLEAN

VARIABLES
  state,        \* current_state of each process, as the set of its bits
  wait_event,   \* the mask of the last wait_event, with the bits task_delay adds
  wakeup_rsn,   \* the events that woke the process and that it has not read
  delay_value,  \* the tick at which task_delay ends
  current,      \* Asys.current_process
  tick,         \* Asys.g_tick_count
  skip,         \* SYS_FLAGS_SKIP_TICK
  pendsv,       \* PendSV is pending in the interrupt controller
  primask,      \* PRIMASK: interrupts are masked
  ran,          \* process code has executed since the last tick
  cpu,          \* "thread", "pendsv" (in update_next_task) or "lost"
  scan,         \* iterations of update_next_task's loop done so far
  pc,           \* where each process stands in the kernel call it makes
  call,         \* the process and event of an activate_process under way
  owed          \* history: ticks that still have to pass in a task_delay that ends before
                \* g_tick_count wraps

kernel == <<state, wait_event, wakeup_rsn, delay_value>>
hw     == <<tick, skip, pendsv, primask>>
disp   == <<current, cpu, scan>>
vars   == <<kernel, hw, disp, ran, pc, call, owed>>

States == {"READY", "KILLED", "FINISHED", "FAULT"}
Pcs    == {"run",        \* in its own code
           "waiting",    \* in wait_event, after schedule()
           "woken",      \* back from wait_event, about to call get_wakeup_flags
           "delay",      \* in task_delay's loop
           "suspended",  \* in suspend, after schedule()
           "activating", \* in activate_process, between the test and the update
           "spin",       \* in the while(1) behind a finished process
           "dead"}       \* stopped at a faulting instruction

NoCall == [dest |-> 0, ev |-> "DELAY"]

Init ==
  /\ state = [p \in Procs |-> {"READY"}]
  /\ wait_event = [p \in Procs |-> {}]
  /\ wakeup_rsn = [p \in Procs |-> {}]
  /\ delay_value = [p \in Procs |-> 0]
  /\ current = 0
  /\ tick = 0
  /\ skip = FALSE
  /\ pendsv = FALSE
  /\ primask = FALSE
  /\ ran = TRUE
  /\ cpu = "thread"
  /\ scan = 0
  /\ pc = [p \in Procs |-> "run"]
  /\ call = [p \in Procs |-> NoCall]
  /\ owed = [p \in Procs |-> 0]

-----------------------------------------------------------------------------
(* Definitions named Mut... are defects a change to the kernel could bring *)
(* in. No action uses them: a property is checked against the model that   *)
(* has one in place of the definition it precedes.                         *)

(* The next instruction of process p executes: p is the process the        *)
(* scheduler restored and no PendSV can be taken first.                    *)
Executes(p) == cpu = "thread" /\ current = p /\ (pendsv => primask)

Ready(p)  == "READY" \in state[p]
Killed(p) == "KILLED" \in state[p]

(* schedule(): pends PendSV and enables interrupts.                        *)
Schedule == pendsv' = TRUE /\ primask' = FALSE

MutEnableIrq == UNCHANGED <<pendsv, primask>>
EnableIrq == UNCHANGED pendsv /\ primask' = FALSE

MutMustBlock(p) == TRUE
(* wait_event blocks only a process with no reason left to read.           *)
MustBlock(p) == wakeup_rsn[p] = {}

MutMayActivate(d) == TRUE
(* activate_process leaves a killed process alone.                         *)
MayActivate(d) == ~ Killed(d)

MutAwaited(d, e) == TRUE
(* SCHED_STD: only an event of the mask counts.                            *)
Awaited(d, e) == e \in wait_event[d]

MutRecord(reasons, e) == {e}
Record(reasons, e) == reasons \cup {e}

(* The critical section of activate_process.                               *)
MarkActive(d, e) ==
  /\ \/ /\ Awaited(d, e)
        /\ wakeup_rsn' = [wakeup_rsn EXCEPT ![d] = Record(@, e)]
        /\ state' = [state EXCEPT ![d] = {"READY"}]
     \/ ~ Awaited(d, e) /\ UNCHANGED <<wakeup_rsn, state>>
  /\ UNCHANGED <<wait_event, delay_value>>

-----------------------------------------------------------------------------
(* Calls of a process *)

(* wait_event: with a reason already recorded the process goes on at once, *)
(* and its READY bit stays cleared.                                        *)
WaitEvent(p, mask) ==
  /\ Executes(p) /\ pc[p] = "run" /\ "wait" \in Calls[p]
  /\ wait_event' = [wait_event EXCEPT ![p] = mask]
  /\ state' = [state EXCEPT ![p] = @ \ {"READY"}]
  /\ skip' = TRUE
  /\ \/ MustBlock(p) /\ Schedule    /\ pc' = [pc EXCEPT ![p] = "waiting"]
     \/ ~ MustBlock(p) /\ EnableIrq /\ pc' = [pc EXCEPT ![p] = "woken"]
  /\ UNCHANGED <<wakeup_rsn, delay_value, tick, disp, call, owed>>

WaitReturn(p) ==
  /\ Executes(p) /\ pc[p] = "waiting"
  /\ pc' = [pc EXCEPT ![p] = "woken"]
  /\ UNCHANGED <<kernel, hw, disp, call, owed>>

(* get_wakeup_flags: every sample process calls it when wait_event returns. *)
GetWakeupFlags(p) ==
  /\ Executes(p) /\ pc[p] = "woken"
  /\ wakeup_rsn' = [wakeup_rsn EXCEPT ![p] = {}]
  /\ pc' = [pc EXCEPT ![p] = "run"]
  /\ UNCHANGED <<state, wait_event, delay_value, hw, disp, call, owed>>

MutForgetDelay(reasons) == reasons
(* task_delay forgets a DELAY reason left over from an earlier delay.      *)
ForgetDelay(reasons) == reasons \ {"DELAY"}

(* task_delay up to the first schedule() of its loop: the reason has just  *)
(* been cleared, so the loop is always entered.                            *)
TaskDelay(p, n) ==
  /\ Executes(p) /\ pc[p] = "run" /\ "delay" \in Calls[p]
  /\ delay_value' = [delay_value EXCEPT ![p] = (tick + n) % TickMod]
  /\ state' = [state EXCEPT ![p] = @ \ {"READY"}]
  /\ wait_event' = [wait_event EXCEPT ![p] = @ \cup {"DELAY"}]
  /\ wakeup_rsn' = [wakeup_rsn EXCEPT ![p] = ForgetDelay(@)]
  /\ Schedule
  /\ pc' = [pc EXCEPT ![p] = "delay"]
  /\ owed' = [owed EXCEPT ![p] = IF tick + n < TickMod THEN n ELSE 0]
  /\ UNCHANGED <<tick, skip, disp, call>>

(* The loop of task_delay: an awaited event other than DELAY runs the      *)
(* process too, and it then calls schedule() again while READY.            *)
DelayLoop(p) ==
  /\ Executes(p) /\ pc[p] = "delay"
  /\ \/ "DELAY" \in wakeup_rsn[p] /\ EnableIrq /\ pc' = [pc EXCEPT ![p] = "run"]
     \/ "DELAY" \notin wakeup_rsn[p] /\ Schedule /\ UNCHANGED pc
  /\ UNCHANGED <<kernel, tick, skip, disp, call, owed>>

Suspend(p) ==
  /\ Executes(p) /\ pc[p] = "run" /\ "suspend" \in Calls[p]
  /\ state' = [state EXCEPT ![p] = {}]
  /\ Schedule
  /\ pc' = [pc EXCEPT ![p] = "suspended"]
  /\ UNCHANGED <<wait_event, wakeup_rsn, delay_value, tick, skip, disp, call, owed>>

SuspendReturn(p) ==
  /\ Executes(p) /\ pc[p] = "suspended"
  /\ EnableIrq
  /\ pc' = [pc EXCEPT ![p] = "run"]
  /\ UNCHANGED <<kernel, tick, skip, disp, call, owed>>

(* activate_process from a process: the KILLED test comes before the       *)
(* critical section, so the two are steps of their own. A destination of   *)
(* 0 or a killed one returns at once.                                      *)
ActivateTest(p, d, e) ==
  /\ Executes(p) /\ pc[p] = "run" /\ "activate" \in Calls[p]
  /\ MayActivate(d)
  /\ pc' = [pc EXCEPT ![p] = "activating"]
  /\ call' = [call EXCEPT ![p] = [dest |-> d, ev |-> e]]
  /\ UNCHANGED <<kernel, hw, disp, owed>>

ActivateUpdate(p) ==
  /\ Executes(p) /\ pc[p] = "activating"
  /\ MarkActive(call[p].dest, call[p].ev)
  /\ pc' = [pc EXCEPT ![p] = "run"]
  /\ call' = [call EXCEPT ![p] = NoCall]
  /\ UNCHANGED <<hw, disp, owed>>

(* supervisor_process<n>: the user process returned.                       *)
Finish(p) ==
  /\ Executes(p) /\ pc[p] = "run" /\ "finish" \in Calls[p]
  /\ state' = [state EXCEPT ![p] = {"KILLED", "FINISHED"}]
  /\ pc' = [pc EXCEPT ![p] = "spin"]
  /\ UNCHANGED <<wait_event, wakeup_rsn, delay_value, hw, disp, call, owed>>

(* A fault handler. The faulting instruction is executed again, and faults *)
(* again, if the process is ever given the processor back.                 *)
Fault(p) ==
  /\ Executes(p) /\ pc[p] \in {"run", "woken", "dead"} /\ "fault" \in Calls[p]
  /\ state' = [state EXCEPT ![p] = {"KILLED", "FAULT"}]
  /\ Schedule
  /\ pc' = [pc EXCEPT ![p] = "dead"]
  /\ UNCHANGED <<wait_event, wakeup_rsn, delay_value, tick, skip, disp, call, owed>>

(* User code that makes no kernel call, and the while(1) of a finished     *)
(* process.                                                                *)
Compute(p) ==
  /\ Executes(p) /\ pc[p] \in {"run", "spin"}
  /\ UNCHANGED <<kernel, hw, disp, pc, call, owed>>

(* One turn of supervisor(): it masks and unmasks interrupts.              *)
SupervisorLoop ==
  /\ Executes(0) /\ pc[0] = "run"
  /\ EnableIrq
  /\ UNCHANGED <<kernel, tick, skip, disp, pc, call, owed>>

Process(p) ==
  /\ ran' = TRUE
  /\ \/ p \in User /\ \E mask \in Masks[p] : WaitEvent(p, mask)
     \/ WaitReturn(p)
     \/ GetWakeupFlags(p)
     \/ \E n \in Delays : TaskDelay(p, n)
     \/ DelayLoop(p)
     \/ Suspend(p)
     \/ SuspendReturn(p)
     \/ \E d \in User, e \in Events : ActivateTest(p, d, e)
     \/ ActivateUpdate(p)
     \/ Finish(p)
     \/ Fault(p)
     \/ p \in User /\ Compute(p)
     \/ p = 0 /\ SupervisorLoop

-----------------------------------------------------------------------------
(* Interrupts *)

(* A driver's interrupt handler calls activate_process. Nothing can kill   *)
(* the destination between its test and its critical section.              *)
Irq(d, e) ==
  /\ ~ primask
  /\ MayActivate(d)
  /\ MarkActive(d, e)
  /\ UNCHANGED <<hw, disp, ran, pc, call, owed>>

(* HAL_UART_ErrorCallback masks interrupts, may wake the process of the    *)
(* driver, and returns without unmasking them.                             *)
UartError(d, e) ==
  /\ LineErrors /\ ~ primask
  /\ primask' = TRUE
  /\ \/ MayActivate(d) /\ MarkActive(d, e)
     \/ UNCHANGED kernel
  /\ UNCHANGED <<tick, skip, pendsv, disp, ran, pc, call, owed>>

MutDelayDue(now) == {p \in User : "DELAY" \in wait_event[p] /\ now > delay_value[p]}

(* The processes check_timers finds at the end of their delay, and the     *)
(* ones among them it can activate: it clears the DELAY bit of the current *)
(* process (timer.c:157) instead of the process it is looking at.          *)
DelayDue(now) == {p \in User : "DELAY" \in wait_event[p] /\ now >= delay_value[p]}
DelayWoken(due) == due \ {current}

MutTickEnd ==
  /\ skip' = skip
  /\ pendsv' = (pendsv \/ ~ skip)

MutNextTick == tick + 1

(* uwTick and g_tick_count are incremented together.                       *)
NextTick == (tick + 1) % TickMod

(* The end of SysTick_Handler: the tick after a wait_event is skipped.     *)
TickEnd ==
  /\ skip' = FALSE
  /\ pendsv' = (pendsv \/ ~ skip)

(* SysTick_Handler and check_timers. Any set of the processes that wait    *)
(* for TIMER may have a timer that expires; the timer branch sets READY    *)
(* whatever the state (timer.c:172).                                       *)
SysTick ==
  /\ ~ primask
  /\ tick < TickLimit
  /\ Overrun \/ (ran /\ cpu = "thread")
  /\ ran' = Overrun
  /\ tick' = NextTick
  /\ \E expired \in SUBSET {p \in User : "TIMER" \in wait_event[p]} :
       LET due   == DelayDue(tick')
           woken == DelayWoken(due)
       IN /\ wait_event' = [p \in Procs |-> IF p = current /\ due # {}
                                            THEN wait_event[p] \ {"DELAY"}
                                            ELSE wait_event[p]]
          /\ wakeup_rsn' = [p \in Procs |-> wakeup_rsn[p] \cup
               {e \in {"DELAY"} : p \in woken /\ ~ Killed(p)} \cup
               {e \in {"TIMER"} : p \in expired /\ ~ Killed(p)}]
          /\ state' = [p \in Procs |->
               IF p \in (woken \cup expired) /\ ~ Killed(p) THEN {"READY"}
               ELSE state[p] \cup {b \in {"READY"} : p \in expired}]
  /\ TickEnd
  /\ owed' = [p \in Procs |-> IF owed[p] = 0 THEN 0 ELSE owed[p] - 1]
  /\ UNCHANGED <<delay_value, primask, disp, pc, call>>

(* PendSV_Handler up to the loop of update_next_task.                      *)
PendSV ==
  /\ cpu = "thread" /\ pendsv /\ ~ primask
  /\ pendsv' = FALSE
  /\ cpu' = "pendsv"
  /\ scan' = 0
  /\ UNCHANGED <<kernel, tick, skip, primask, current, ran, pc, call, owed>>

MutEligible(p) == TRUE
Eligible(p) == Ready(p)

NextIndex(c) == (c + 1) % MaxTasks

MutLoopCount == MaxTasks - 1

(* for(int i = 0 ; i < MAX_TASKS ; i++)                                    *)
LoopCount == MaxTasks

(* One iteration of update_next_task: the next process in the circle gets  *)
(* the processor if its READY bit is set.                                  *)
NextTask ==
  /\ cpu = "pendsv" /\ scan < LoopCount
  /\ current' = NextIndex(current)
  /\ \/ Eligible(current') /\ cpu' = "thread" /\ scan' = 0
     \/ ~ Eligible(current') /\ UNCHANGED cpu /\ scan' = scan + 1
  /\ UNCHANGED <<kernel, hw, ran, pc, call, owed>>

(* The loop ends with no process READY: the naked function has no epilogue *)
(* and execution runs into whatever code follows it.                       *)
NoTask ==
  /\ cpu = "pendsv" /\ scan = LoopCount
  /\ cpu' = "lost"
  /\ UNCHANGED <<kernel, hw, current, scan, ran, pc, call, owed>>

LineError == \E d \in User, e \in Events : UartError(d, e)

Interrupt ==
  \/ \E d \in User, e \in Events : Irq(d, e)
  \/ LineError
  \/ SysTick
  \/ PendSV
  \/ NextTask
  \/ NoTask

Next == (\E p \in Procs : Process(p)) \/ Interrupt

Spec == Init /\ [][Next]_vars

(* Ticks keep coming, the handler that is pending is taken, and a process  *)
(* that is given the processor again and again makes progress.             *)
Fairness ==
  /\ WF_vars(SysTick)
  /\ WF_vars(PendSV)
  /\ WF_vars(NextTask)
  /\ \A p \in Procs : SF_vars(Process(p))

FairSpec == Spec /\ Fairness

-----------------------------------------------------------------------------
(* Properties *)

(* Every field of the process table, the counters of the scheduler and the *)
(* place of every process in its call keep their types.                    *)
TypeOK ==
  /\ state \in [Procs -> SUBSET States]
  /\ wait_event \in [Procs -> SUBSET AllEvents]
  /\ wakeup_rsn \in [Procs -> SUBSET AllEvents]
  /\ delay_value \in [Procs -> 0 .. TickMod - 1]
  /\ current \in Procs
  /\ tick \in 0 .. TickMod - 1
  /\ skip \in BOOLEAN /\ pendsv \in BOOLEAN /\ primask \in BOOLEAN /\ ran \in BOOLEAN
  /\ cpu \in {"thread", "pendsv", "lost"}
  /\ scan \in 0 .. MaxTasks
  /\ pc \in [Procs -> Pcs]
  /\ call \in [Procs -> [dest : Procs, ev : AllEvents]]
  /\ owed \in [Procs -> Nat]

(* A process blocked in wait_event has no event recorded: one that arrives *)
(* before, in or after the call is not slept over there. (Where wait_event *)
(* returns at once it leaves READY cleared: ReturnedRuns.)                 *)
NoLostWakeup ==
  \A p \in User : pc[p] = "waiting" /\ ~ Ready(p) => wakeup_rsn[p] = {}

(* A process that comes back from wait_event finds a reason: the sample    *)
(* process calls wku_error when get_wakeup_flags returns none.             *)
WokenWithReason ==
  \A p \in User : pc[p] = "woken" => wakeup_rsn[p] # {}

(* A process blocked in wait_event, or switched on again in it, has been   *)
(* given no event but those it asked for in this call, whatever earlier    *)
(* masks it waited with (DELAY apart: check_timers can withdraw its bit    *)
(* when it has recorded it). A call that does not block is excluded: it    *)
(* returns an event of an earlier mask or a DELAY left over by task_delay. *)
WokenByMask ==
  \A p \in User : pc[p] = "waiting" => wakeup_rsn[p] \subseteq wait_event[p] \cup {"DELAY"}

(* update_next_task finds a process to run, whatever happens to the user   *)
(* processes: only a fault of the supervisor can take its last resort away.*)
AlwaysDispatches == cpu = "lost" => Killed(0)

(* Where a process stands, as EventFlags sees it.                          *)
Mode(c) ==
  CASE c = "waiting" -> "blocked"
    [] c = "woken" -> "returning"
    [] c \in {"spin", "dead"} -> "stopped"
    [] OTHER -> "running"

Promise == INSTANCE EventFlags WITH
  Kinds <- AllEvents, mode <- [p \in Procs |-> Mode(pc[p])],
  asked <- wait_event, pending <- wakeup_rsn

(* The kernel keeps what EventFlags promises: no event is dropped before   *)
(* get_wakeup_flags returns it, none is recorded that was not asked for,   *)
(* and wait_event sleeps exactly while none is recorded.                   *)
KeepsPromise == Promise!Spec

(* A process that finished or faulted is made READY again in two ways      *)
(* only: check_timers finds one of its timers expired, or another process  *)
(* is in activate_process and tested it before it stopped.                 *)
Stopped(p) == pc[p] \in {"spin", "dead"}
RestartOnlyByRaceOrTimer ==
  [][\A p \in User : Stopped(p) /\ ~ Ready(p) /\ Ready(p)' =>
       \/ "TIMER" \in wait_event[p]
       \/ \E q \in Procs : pc[q] = "activating" /\ call[q].dest = p]_vars

(* task_delay never returns before the ticks it was asked for have passed, *)
(* unless g_tick_count wraps before they have.                             *)
DelayNotEarly ==
  [][\A p \in User : pc[p] = "delay" /\ pc'[p] = "run" => owed[p] = 0]_vars

(* task_delay returns.                                                     *)
DelayEnds == \A p \in User : pc[p] = "delay" ~> pc[p] # "delay"

OnCpu(p) == cpu = "thread" /\ current = p

(* wait_event finds a reason recorded and goes on.                         *)
GoesOn == \E p \in User : pc[p] = "run" /\ pc'[p] = "woken"

(* The scheduler is called at every tick: ticks keep being taken.          *)
TicksKeepComing == []<><<SysTick>>_vars

(* What no process can be promised the processor under: interrupts that    *)
(* stay masked or are masked again and again by line errors, or a process  *)
(* that for ever finds an event recorded when it calls wait_event, which   *)
(* makes every tick a skipped one.                                         *)
SchedulerStops ==
  \/ ~ TicksKeepComing
  \/ []<><<LineError>>_vars
  \/ []<><<GoesOn>>_vars

(* A process stays in task_delay for ever only if check_timers cleared its *)
(* DELAY bit, or if the scheduler stops: with the bit set the delay ends.  *)
DelayEndsWithBit ==
  \/ \A p \in User : ~ <>[](pc[p] = "delay" /\ "DELAY" \in wait_event[p])
  \/ SchedulerStops

(* A process that stays READY gets the processor again and again, unless   *)
(* the scheduler stops.                                                    *)
NoStarvation ==
  \A p \in Procs : <>[]Ready(p) => []<>OnCpu(p) \/ SchedulerStops

(* A process that wait_event has returned to, or that never called it, is  *)
(* in its own code until its next call, and gets the processor there.      *)
ReturnedRuns == \A p \in User : pc[p] = "run" ~> OnCpu(p)

(* The supervisor runs again and again.                                    *)
SupervisorRuns == []<>OnCpu(0)

(* The interrupts a line error leaves masked are unmasked by the next call *)
(* of the process it interrupted or by the supervisor: ticks stop only if  *)
(* line errors never do, or if that process is a user process that for     *)
(* ever makes no kernel call.                                              *)
TicksStopOnlyInUserCode ==
  \/ TicksKeepComing
  \/ []<><<LineError>>_vars
  \/ <>[](primask /\ current \in User /\ pc[current] \in {"run", "spin"})
=============================================================================
