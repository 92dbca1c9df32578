------------------------------- MODULE Timers -------------------------------
(***************************************************************************)
(* The software timers of one process: its table of slots, the calls that  *)
(* create, start, restart, stop and destroy a timer, the timer half of     *)
(* check_timers at every tick, and get_timer_expired, which is not a       *)
(* critical section. check_timers serves each process by itself, so one    *)
(* process is enough.                                                      *)
(***************************************************************************)
EXTENDS Integers

CONSTANTS
  Ids,        \* the timers used: k stands for TIMER_ID_k
  Counts,     \* the tick counts passed to create_timer and restart_timer
  Masks,      \* whether a mask passed to wait_event has EVENT_TIMER
  MaxTimers,  \* MAX_TIMERS, the number of slots
  TickMod,    \* g_tick_count counts modulo TickMod (2^32 in the code)
  TickLimit   \* bound: no tick is taken at this count

Slots == 0 .. MaxTimers - 1
Flags == {"IN_USE", "ENABLED", "FOREVER"}
UserFlags == {"ENABLED", "FOREVER"}

(* TIMER_ID_k is the mask 1 << k, and the mask is also used as an index.   *)
IdBit(k) == 2 ^ k

TimersAssumption ==
  /\ MaxTimers \in Nat \ {0}
  /\ Ids \subseteq Slots
  /\ \A k \in Ids : IdBit(k) \in Slots
  /\ Counts \subseteq Nat
  /\ Masks \subseteq BOOLEAN
  /\ TickMod \in Nat \ {0}
  /\ TickLimit \in Nat

VARIABLES
  timer_flags,    \* the flags of each slot
  timer_value,    \* the count each slot was created with
  current_timer,  \* the tick at which each slot expires
  timer_expired,  \* the slots whose expiry get_timer_expired has not returned
  tick,           \* Asys.g_tick_count
  served,         \* SUSPEND_ON_TIMER is set in wait_event
  pc,             \* where the process stands in the call it makes
  arg,            \* restart_timer's timer
  tim_exp,        \* get_timer_expired's local variable
  reg,            \* the register of its read-modify-write
  owed,           \* history: ticks each slot still has to run before it expires
  unread,         \* history: the slots that expired and were never returned
  stopped         \* history: the timers stopped and not created or started since

table == <<timer_flags, timer_value, current_timer>>
local == <<pc, arg, tim_exp, reg>>
vars  == <<table, timer_expired, tick, served, local, owed, unread, stopped>>

Pcs == {"run",        \* in its own code
        "waiting",    \* in wait_event
        "restarting", \* in restart_timer, at the call of create_timer
        "copied",     \* in get_timer_expired, after its first statement
        "storing"}    \* and with the value its second one stores computed

Init ==
  /\ timer_flags = [j \in Slots |-> {}]
  /\ timer_value = [j \in Slots |-> 0]
  /\ current_timer = [j \in Slots |-> 0]
  /\ timer_expired = {}
  /\ tick = 0
  /\ served = FALSE
  /\ pc = "run"
  /\ arg = 0
  /\ tim_exp = {}
  /\ reg = {}
  /\ owed = [j \in Slots |-> 0]
  /\ unread = {}
  /\ stopped = {}

-----------------------------------------------------------------------------
(* Definitions named Mut... are defects a change to the code could bring   *)
(* in: see module Scheduler.                                               *)

InUse(j)   == "IN_USE" \in timer_flags[j]
Enabled(j) == "ENABLED" \in timer_flags[j]

(* The critical section of create_timer.                                   *)
Fill(k, n, f) ==
  /\ timer_flags' = [timer_flags EXCEPT ![k] = f \cup {"IN_USE"}]
  /\ timer_value' = [timer_value EXCEPT ![k] = n]
  /\ current_timer' = [current_timer EXCEPT ![k] = (tick + n) % TickMod]
  /\ owed' = [owed EXCEPT ![k] = n]
  /\ UNCHANGED <<timer_expired, tick, served, arg, tim_exp, reg, unread>>
  /\ stopped' = stopped \ {k}

SetFlags(j, f) ==
  /\ timer_flags' = [timer_flags EXCEPT ![j] = f]
  /\ UNCHANGED <<timer_value, current_timer, timer_expired, tick, served, tim_exp, reg, owed, unread>>

(* create_timer looks for IN_USE in the slot whose number is the mask of   *)
(* the timer, and fills the slot of the timer.                             *)
CreateTimer(k, n, f) ==
  /\ pc = "run" /\ ~ InUse(IdBit(k))
  /\ Fill(k, n, f)
  /\ UNCHANGED pc

StartTimer(k) ==
  /\ pc = "run" /\ ~ InUse(IdBit(k))
  /\ SetFlags(k, timer_flags[k] \cup {"ENABLED"})
  /\ stopped' = stopped \ {k}
  /\ UNCHANGED <<pc, arg>>

(* restart_timer up to the call of create_timer, and that call, whose test *)
(* looks at the slot just cleared.                                         *)
RestartTimer(k) ==
  /\ pc = "run" /\ InUse(IdBit(k))
  /\ SetFlags(IdBit(k), timer_flags[IdBit(k)] \ {"IN_USE"})
  /\ pc' = "restarting"
  /\ arg' = k
  /\ UNCHANGED stopped

RestartFill(n, f) ==
  /\ pc = "restarting"
  /\ Fill(arg, n, f)
  /\ pc' = "run"

(* stop_timer and destroy_timer index the table with the mask too.         *)
StopTimer(k) ==
  /\ pc = "run"
  /\ SetFlags(IdBit(k), timer_flags[IdBit(k)] \ {"ENABLED"})
  /\ stopped' = stopped \cup {k}
  /\ UNCHANGED <<pc, arg>>

DestroyTimer(k) ==
  /\ pc = "run"
  /\ SetFlags(IdBit(k), {})
  /\ UNCHANGED <<pc, arg, stopped>>

(* wait_event, and its return for any event of the mask.                   *)
WaitEvent(m) ==
  /\ pc = "run"
  /\ pc' = "waiting"
  /\ served' = m
  /\ UNCHANGED <<table, timer_expired, tick, arg, tim_exp, reg, owed, unread, stopped>>

WaitReturn ==
  /\ pc = "waiting"
  /\ pc' = "run"
  /\ UNCHANGED <<table, timer_expired, tick, served, arg, tim_exp, reg, owed, unread, stopped>>

(* get_timer_expired copies timer_expired, then loads it again to clear    *)
(* the bits it copied, and stores the result.                              *)
GetTimerExpired ==
  /\ pc = "run"
  /\ tim_exp' = timer_expired
  /\ pc' = "copied"
  /\ UNCHANGED <<table, timer_expired, tick, served, arg, reg, owed, unread, stopped>>

LoadExpired ==
  /\ pc = "copied"
  /\ reg' = timer_expired
  /\ pc' = "storing"
  /\ UNCHANGED <<table, timer_expired, tick, served, arg, tim_exp, owed, unread, stopped>>

StoreExpired ==
  /\ pc = "storing"
  /\ timer_expired' = reg \ tim_exp
  /\ unread' = unread \ tim_exp
  /\ pc' = "run"
  /\ UNCHANGED <<table, tick, served, arg, tim_exp, reg, owed, stopped>>

-----------------------------------------------------------------------------
NextTick == (tick + 1) % TickMod

(* The slots check_timers finds expired.                                   *)
Fired(now) == {j \in Slots : served /\ InUse(j) /\ Enabled(j) /\ now >= current_timer[j]}

MutReport(fired) == fired
Report(fired) == timer_expired \cup fired

(* The slots whose expiry it puts off by a tick.                           *)
Paused == {j \in Slots : served /\ InUse(j) /\ ~ Enabled(j)}

MutPutOff(j) == current_timer[j]
PutOff(j) == (current_timer[j] + 1) % TickMod

Forever(j) == "FOREVER" \in timer_flags[j]

Tick ==
  /\ tick < TickLimit
  /\ tick' = NextTick
  /\ LET fired == Fired(tick')
     IN /\ timer_flags' = [j \in Slots |-> IF j \in fired /\ ~ Forever(j)
                                           THEN timer_flags[j] \ {"ENABLED"}
                                           ELSE timer_flags[j]]
        /\ current_timer' = [j \in Slots |->
             CASE j \in fired /\ Forever(j) -> (tick' + timer_value[j]) % TickMod
               [] j \in Paused -> PutOff(j)
               [] OTHER -> current_timer[j]]
        /\ timer_expired' = Report(fired)
        /\ unread' = unread \cup fired
        /\ owed' = [j \in Slots |->
             IF j \in fired /\ Forever(j) THEN timer_value[j]
             ELSE IF j \in Paused \/ owed[j] = 0 THEN owed[j]
             ELSE owed[j] - 1]
  /\ UNCHANGED <<timer_value, served, local, stopped>>

Call ==
  \/ \E k \in Ids, n \in Counts, f \in SUBSET UserFlags : CreateTimer(k, n, f)
  \/ \E k \in Ids : StartTimer(k)
  \/ \E k \in Ids : RestartTimer(k)
  \/ \E n \in Counts, f \in SUBSET UserFlags : RestartFill(n, f)
  \/ \E k \in Ids : StopTimer(k)
  \/ \E k \in Ids : DestroyTimer(k)
  \/ \E m \in Masks : WaitEvent(m)
  \/ WaitReturn
  \/ GetTimerExpired
  \/ LoadExpired
  \/ StoreExpired

Next == Call \/ Tick

Spec == Init /\ [][Next]_vars

-----------------------------------------------------------------------------
(* Properties *)

(* The fields of the table and the state of the calls keep their types.    *)
TypeOK ==
  /\ timer_flags \in [Slots -> SUBSET Flags]
  /\ timer_value \in [Slots -> Nat]
  /\ current_timer \in [Slots -> 0 .. TickMod - 1]
  /\ timer_expired \in SUBSET Slots
  /\ tick \in 0 .. TickMod - 1
  /\ served \in BOOLEAN
  /\ pc \in Pcs
  /\ arg \in Slots
  /\ tim_exp \in SUBSET Slots
  /\ reg \in SUBSET Slots
  /\ owed \in [Slots -> Nat]
  /\ unread \in SUBSET Slots
  /\ stopped \in SUBSET Slots

(* A timer never fires before its count has run since it was created or    *)
(* last fired. The ticks it is stopped for do not count, if the last mask  *)
(* its process passed to wait_event has EVENT_TIMER.                       *)
TimerNotEarly ==
  [][\A j \in Slots : j \in unread' \ unread => owed[j] <= 1]_vars

(* The expiries get_timer_expired has not returned and never will.         *)
Lost == unread \ (timer_expired \cup (IF pc \in {"copied", "storing"} THEN tim_exp ELSE {}))

(* An expiry is lost in one way only: the tick comes between the load and  *)
(* the store of get_timer_expired's read-modify-write.                     *)
ExpiryLostOnlyByRace ==
  [][\A j \in Lost' \ Lost : pc = "storing" /\ j \in timer_expired \ reg]_vars

(* A timer that was stopped is not enabled until it is created or started  *)
(* again.                                                                  *)
StoppedIsDisabled == \A k \in stopped : ~ Enabled(k)
=============================================================================
