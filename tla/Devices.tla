-------------------------------- MODULE Devices --------------------------------
(***************************************************************************)
(* The drivers of timer peripherals and of flash memory, the lists drivers *)
(* register in, the mailboxes and the timers of a process, side by side: a *)
(* behaviour is that of one of them, which unit names, while the variables *)
(* of the others stand still. They do not share state; the sum keeps TLC's *)
(* runs few.                                                               *)
(***************************************************************************)
EXTENDS Integers, Sequences

CONSTANTS
  Units,                                               \* the parts that are looked at
  Kinds, Repeat, MaxCommands,                          \* of Dcc
  MaxVal, Rotations, MaxMotorCalls, MaxPulses,         \* of Stepper
  Sensors, Rounds, StartTicks, CycleTicks, MaxFailures, MaxStarts,       \* of Dht
  SectorWords, BankSectors, Images, MaxFlashCalls, MaxFaults,   \* of FlashUpdater
  Users, PageSize, KB, Large, BlockCount, Requests, HalFails,           \* of W25q
  Drivers, ArraySize, MaxRegistrations,                \* of Registration
  Senders, MailboxCount, MaxEvents,                    \* of Mailbox
  Ids, Counts, Masks, MaxTimers, TickMod, TickLimit    \* of Timers

VARIABLES
  unit,
  status, on, counter, work, second, cutout, power, todo, reg, count, loads, given,
  started, number_of_rotation, number_of_steps, rcr, shadow, running, it_update,
  enabled, motor_todo, calls, rotations, pulses, again, ended,
  sensor, dhtxx_am230x_Running, turn, pc, failures, starts, replaced,
  flash, irq, lock, error, call, flash_pc, i, made, faults, failed,
  qspi_status, xfer, busy, wel, script, left, asked, done, deaf, alone, lapse,
  uart_drv_ptr, next_uart, callback, param, list_pc, at, registered, overlapped, full,
  mbx, mbx_size, mbx_bits, wakeup_rsn, send, mbx_todo, cur, mbx_reg, sent, other,
  taken, mixed, hidden,
  timer_flags, timer_value, current_timer, timer_expired, tick, served, timer_pc, arg,
  tim_exp, timer_reg, owed, unread, stopped

dcc == <<status, on, counter, work, second, cutout, power, todo, reg, count, loads, given>>
stepper == <<started, number_of_rotation, number_of_steps, rcr, shadow, running, it_update,
             enabled, motor_todo, calls, rotations, pulses, again, ended>>
dht == <<sensor, dhtxx_am230x_Running, turn, pc, failures, starts, replaced>>
updater == <<flash, irq, lock, error, call, flash_pc, i, made, faults, failed>>
w25q == <<qspi_status, xfer, busy, wel, script, left, asked, done, deaf, alone, lapse>>
registration == <<uart_drv_ptr, next_uart, callback, param, list_pc, at, registered,
                  overlapped, full>>
mailbox == <<mbx, mbx_size, mbx_bits, wakeup_rsn, send, mbx_todo, cur, mbx_reg, sent, other,
             taken, mixed, hidden>>
timers == <<timer_flags, timer_value, current_timer, timer_expired, tick, served, timer_pc,
            arg, tim_exp, timer_reg, owed, unread, stopped>>
vars == <<unit, dcc, stepper, dht, updater, w25q, registration, mailbox, timers>>

C == INSTANCE Dcc
S == INSTANCE Stepper WITH MaxCalls <- MaxMotorCalls, asked <- rotations, todo <- motor_todo
H == INSTANCE Dht
F == INSTANCE FlashUpdater WITH MaxCalls <- MaxFlashCalls, pc <- flash_pc
W == INSTANCE W25q WITH status <- qspi_status
R == INSTANCE Registration WITH MaxCalls <- MaxRegistrations, pc <- list_pc
M == INSTANCE Mailbox WITH Count <- MailboxCount, todo <- mbx_todo, reg <- mbx_reg
T == INSTANCE Timers WITH pc <- timer_pc, reg <- timer_reg

ASSUME DccAssumption == Kinds \subseteq C!AllKinds /\ Repeat \in Nat
(* The pulses of a motion are counted to its end.                          *)
ASSUME StepperAssumption ==
  /\ MaxVal \in Nat \ {0} /\ Rotations \subseteq Nat /\ MaxPulses \in Nat
  /\ \A n \in Rotations : n * (MaxVal + 1) <= MaxPulses
ASSUME DhtAssumption == StartTicks \in Int /\ CycleTicks \in Int
ASSUME UpdaterAssumption ==
  /\ SectorWords \in Nat \ {0} /\ BankSectors \in Nat \ {0}
  /\ Images \subseteq [op : {"write", "erase"}, at : F!Words, size : Nat]
(* Process 0 is the supervisor, which calls no driver. An empty read or     *)
(* write, for which the chip is sent a command too, is not modelled.        *)
ASSUME W25qAssumption ==
  /\ PageSize \in Nat \ {0} /\ KB \in Nat \ {0} /\ 0 \notin Users
  /\ \A p \in Users : Requests[p] \subseteq
       [kind : {"read", "write", "erase", "block", "chip", "id"}, addr : Nat, len : Nat]
  /\ \A p \in Users : \A r \in Requests[p] : r.kind \in {"read", "write"} => r.len > 0
ASSUME ListAssumption == R!NULL \notin Drivers
ASSUME MailboxAssumption == MailboxCount \in Nat \ {0}
ASSUME TimerAssumption == T!TimersAssumption

Init ==
  /\ unit \in Units
  /\ C!Init /\ S!Init /\ H!Init /\ F!Init /\ W!Init /\ R!Init /\ M!Init /\ T!Init

Next ==
  /\ UNCHANGED unit
  /\ \/ unit = "dcc" /\ C!Next
        /\ UNCHANGED <<stepper, dht, updater, w25q, registration, mailbox, timers>>
     \/ unit = "stepper" /\ S!Next
        /\ UNCHANGED <<dcc, dht, updater, w25q, registration, mailbox, timers>>
     \/ unit = "dht" /\ H!Next
        /\ UNCHANGED <<dcc, stepper, updater, w25q, registration, mailbox, timers>>
     \/ unit = "updater" /\ F!Next
        /\ UNCHANGED <<dcc, stepper, dht, w25q, registration, mailbox, timers>>
     \/ unit = "w25q" /\ W!Next
        /\ UNCHANGED <<dcc, stepper, dht, updater, registration, mailbox, timers>>
     \/ unit = "registration" /\ R!Next
        /\ UNCHANGED <<dcc, stepper, dht, updater, w25q, mailbox, timers>>
     \/ unit = "mailbox" /\ M!Next
        /\ UNCHANGED <<dcc, stepper, dht, updater, w25q, registration, timers>>
     \/ unit = "timers" /\ T!Next
        /\ UNCHANGED <<dcc, stepper, dht, updater, w25q, registration, mailbox>>

(* The fairness of the modules that have a liveness property here, of the  *)
(* steps their unit takes.                                                 *)
Fairness ==
  /\ WF_dht(unit = "dht" /\ H!Tick)
  /\ \A d \in Sensors : SF_dht(unit = "dht" /\ pc[d] # "out" /\ H!Start(d))
  /\ WF_updater(unit = "updater" /\ F!Step)

Spec == Init /\ [][Next]_vars /\ Fairness

-----------------------------------------------------------------------------
(* Properties *)

(* Of dcc_commands: what goes out on the track is the command given, and   *)
(* the line has power while it does.                                       *)
SentAsGiven == unit = "dcc" => C!SentAsGiven
PoweredWhileSent == C!PoweredWhileSent

(* Of stepper_start and stepper_stop: the status and the enable pin tell   *)
(* whether the motor turns; a motion makes the rotations asked for (which  *)
(* it does not), or those and one more.                                    *)
StatusTrue == S!StatusTrue
RotationsDone == S!RotationsDone
OneMore == S!OneMore

(* Of dhtxx_am230x_worker: a sensor that is started is acquired.           *)
Acquired == H!Acquired

(* Of the flash updater: a call that returns without error did its work,   *)
(* and the interrupts come back.                                           *)
Written == F!Written
InterruptsReturn == F!InterruptsReturn

(* Of the W25Q driver: a read, write, block or chip erase that is reported *)
(* done is done as a whole, a sector erase (which is not) too, and two     *)
(* processes do not use the chip at once.                                  *)
DoneWhole == W!DoneWhole
SectorsErased == W!SectorsErased
Exclusive == W!Exclusive

(* Of uart_register: the drivers registered alone are found and called.    *)
Served == R!Served

(* Of mbx_send and mbx_receive: messages stay whole, and none is left for  *)
(* a process that sleeps.                                                  *)
MessageWhole == M!MessageWhole
NoneLeft == M!NoneLeft

(* Of check_timers, the timer calls and get_timer_expired: no timer fires  *)
(* early, and an expiry is lost in one way only.                           *)
TimerNotEarly == T!TimerNotEarly
ExpiryLostOnlyByRace == T!ExpiryLostOnlyByRace
=============================================================================
