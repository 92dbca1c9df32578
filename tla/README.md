# A_os: models and proofs

A_os is a small preemptive kernel for STM32 microcontrollers with a set of
device drivers and protocol modules. This directory holds TLA+ models of its
kernel and of the drivers whose state is shared with interrupts, other processes
or a peer on a line, TLC configurations that check them on small instances, and
TLAPS proofs of what holds for every instance.

| file | what it is |
|---|---|
| `Scheduler.tla` | the kernel: process table, kernel calls, SysTick, PendSV, faults |
| `EventFlags.tla` | the abstract specification of events: what a process may rely on |
| `Timers.tla` | the software timers of one process |
| `Mailbox.tla` | the mailboxes of one process: senders and the receiver |
| `Registration.tla` | processes that register drivers and tick functions at the same time |
| `Uart.tla`, `UsbRx.tla` | reception by the UART and the USB device driver |
| `Xmodem.tla`, `Modbus.tla`, `Esp01s.tla`, `DfPlayer.tla` | the protocol modules, with their peers and the line between |
| `Dcc.tla`, `Stepper.tla`, `Dht.tla` | drivers on timer peripherals |
| `W25q.tla`, `FlashUpdater.tla` | the QSPI flash driver, and the update of the internal flash |
| `Serial.tla`, `Devices.tla` | the parts on a line and the drivers, side by side |
| `MCScheduler.tla`, `MCSerial.tla`, `MCDevices.tla` | the instances the configurations check |
| `SchedulerProofs.tla`, `TimersProofs.tla`, `MailboxProofs.tla`, `UartProofs.tla`, `UsbRxProofs.tla`, `DccProofs.tla`, `SerialProofs.tla`, `DevicesProofs.tla` | theorems and their proofs |
| `PROJECT.json` | components, runs, mutants, the map from definitions to source lines, findings, hazards, theorems |

To repeat a run: `tlc -config sched_calls.cfg MCScheduler` (section 3 names the
module of each run). To repeat a proof: `tlapm SchedulerProofs.tla`.

## 1. Inventory of the system

Paths are below `src/`.

**Kernel scheduler** (`kernel/scheduler.c`, `.h`). State: `process[]`, a table
of `MAX_TASKS` = 5 control blocks (0 is the supervisor, 1 to 4 are user
processes) with `current_state`, `wait_event`, `wakeup_rsn`, `wakeup_flags`;
`Asys.current_process`; `SYS_FLAGS_SKIP_TICK`. Operations: `wait_event`,
`suspend`, `get_wakeup_flags` from a process; `activate_process` from processes
and interrupts; `schedule` pends PendSV, whose handler saves the context and
calls `update_next_task`. Hard: `activate_process` at every point of a
`wait_event`, and from process context against a fault. Correct when no event is
slept over, no process wakes without a reason, a READY process is always found,
and a READY process gets the processor again and again.

**Ticks, delays and timers** (`kernel/timer.c`). State: `g_tick_count`,
`delay_value`, the timer table `timer_flags`/`timer_value`/`current_timer`, the
bits `timer_expired`, two arrays of callbacks. Operations: `SysTick_Handler`
with `check_timers`, `task_delay`, the timer calls, the registry of callbacks.
Hard: wrap of the counter, ticks between the statements of a timer call, the
tick at which a delay ends while another event wakes its process. Correct when a
delay or timer is never early, always ends, and no expiry is lost.

**Supervisor and faults** (`kernel/supervisor.c`). State: `failed_process`,
fault counters. The supervisor runs when its turn comes; a user process that
returns is marked KILLED and spins; a fault handler marks the process on the
processor KILLED and pends PendSV. Correct when a stopped process stays stopped
and the rest goes on.

**Start** (`kernel/A.c`, `kernel/svc.c`). Runs the hardware set-up and the
processes' init functions, builds the stacks, and falls into the supervisor.

**Mailboxes** (`kernel/mbx.c`). Per process a pointer, a size and a bit for each
mailbox. `mbx_send` stores them and calls `activate_process`; `mbx_receive`
copies and clears. Nothing is a critical section. Correct when what is received
is one message, and no message is left while its receiver sleeps.

**Memory pool** (`kernel/mem.c`). Lists of chunks, compiled with `POOL_ENABLE`
only.

**UART** (`drivers/uart/uart.c`). A list of drivers; per driver a receive buffer
with index, length and timeout. Interrupt callbacks, a tick callback and the
process share them. Correct when every character is in one packet and every
packet is reported, neither early nor never.

**USB device** (`drivers/USB_Device`). The same scheme with packets of any
length.

**QSPI and W25Q flash** (`drivers/qspi`). A process polls completion flags that
the QSPI interrupts set.

**Timer peripherals** (`drivers/timers`). Dispatch of the HAL callbacks by the
timer's type; DCC track signal (two half-transfer interrupts against commands of
a process), DHT sensors (a state machine run by the tick), PWM, servo, stepper,
encoder, LEDs. Correct when no half-written packet goes out, when the status
tells the truth, and when what was started ends.

**CAN, GPIO interrupts, analog, DMX512, I2C, SPI, Ethernet** (`drivers/...`).
Look a driver up and wake its process, or move registers over a bus.

**Protocol modules** (`modules/`, `libraries/WiFi`). XMODEM receiver, Modbus RTU
slave, DFPlayer, ESP-01S WiFi: state machines over a UART with retries, timeouts
and replies that may be late. MIDI and hex decoders, MD5, PID: sequential
computations. MQTT client, WAV player: layers over vendored code. Correct when
an answer is taken for the request it belongs to and for no other, and an
exchange ends.

**Flash updater** (`kernel/flash_updater`): erase and program loops per chip.
Correct when success means the image is in the flash.

**Qt tools, samples, linker scripts, CMSIS**: not part of the firmware's logic.

How they interact: every driver ends in `activate_process(process, event,
flags)`, called from its interrupt; every process loops over `wait_event`,
`get_wakeup_flags` and its work. SysTick runs the drivers' tick callbacks,
`check_timers` and, unless the tick is to be skipped, pends PendSV. PendSV has
the lowest priority (15), SysTick 12 and the external interrupts 13, so PendSV
is the only handler another one can interrupt for what matters here.

The hazards of each part, at their lines, are in `PROJECT.json`, with the
property that watches over each, or the reason why there is none.

## 2. How the models are built

### Scheduler

An action is what the processor runs between two points where an interrupt can
be taken. The code between `__disable_irq` and `__enable_irq` (or `schedule()`,
which enables interrupts) is one action; PendSV runs with interrupts enabled and
is one action for the entry and one for each turn of `update_next_task`'s loop.
SysTick is one action: the handlers that can come during it only call
`activate_process`, which could as well come before or after it.

| variable | code |
|---|---|
| `state`, `wait_event`, `wakeup_rsn`, `delay_value` | the fields of `PCB_t`; a bit mask is the set of its bits |
| `current`, `tick`, `skip` | `Asys.current_process`, `Asys.g_tick_count`, `SYS_FLAGS_SKIP_TICK` |
| `pendsv`, `primask`, `cpu` | PendSV pending, the interrupt mask, thread or PendSV mode |
| `scan` | the loop variable of `update_next_task` |
| `pc`, `call` | where a process stands in its kernel call, and its arguments |
| `ran`, `owed` | history: process code ran since the last tick; ticks a delay still has to last |

| action | code |
|---|---|
| `WaitEvent`, `WaitReturn` | `wait_event` up to `schedule()`, and its return |
| `GetWakeupFlags` | `get_wakeup_flags` |
| `TaskDelay`, `DelayLoop` | `task_delay` up to its first `schedule()`, and its loop |
| `Suspend`, `SuspendReturn` | `suspend` |
| `ActivateTest`, `ActivateUpdate` | `activate_process` from a process: the test of KILLED, and the critical section |
| `Finish`, `Fault` | `supervisor_process<n>`, the four fault handlers |
| `Compute`, `SupervisorLoop` | code of a process that makes no kernel call; a turn of `supervisor` |
| `Irq` | an interrupt that calls `activate_process` |
| `UartError` | `HAL_UART_ErrorCallback` |
| `SysTick` | `SysTick_Handler` with `check_timers`; which timers expire is any set |
| `PendSV`, `NextTask`, `NoTask` | `PendSV_Handler`, a turn of `update_next_task`, its end without a process |

Every sample process calls `get_wakeup_flags` when `wait_event` returns, and so
does every process of the model. The configuration modelled is the default one,
with `SCHED_STD`. `wakeup_flags`, the second word with details of an event, goes
with its event and is left out.

### EventFlags

What a process may rely on, without scheduler, ticks and interrupts: a process
asks for events, sleeps exactly while none is pending, and an event raised stays
pending until the process reads its flags. A delay asks for DELAY; the end of a
delay may withdraw that request, which is what `timer.c:157` does to the process
on the processor. `Scheduler!KeepsPromise` is this specification under the
mapping `mode` from `pc`, `asked` = `wait_event`, `pending` = `wakeup_rsn`.

### Timers

The timer table of one process (`check_timers` treats each process by itself),
with `restart_timer` cut at its inner call of `create_timer` and
`get_timer_expired` cut into the copy, the load and the store. The mask
`TIMER_ID_k` = 1 << k is used as an index by the code and therefore by the
model. `owed`, `unread` and `stopped` are history.

### Uart and UsbRx

The interrupt of a character (`RxCplt`) and of a line error (`Error`) are one
action each. The timeout function that SysTick calls with interrupts enabled is
cut at its accesses to what they share: `TickStart` (the test and the load of
the timeout), `TickStore` (its decrement), `TickCopy` (of the index),
`TickReset`. `SetRxLen` and `GetWakeupFlags` are the calls of the process. A
character is its number, so the order in the buffer says what was lost. `UsbRx`
is the same scheme with packets (`PktReceived`), which can be longer than a
request, and with a process that reads (`Read`) as much as `usb_get_rx_len`
tells. History: `unreported` and `count` against what is in the buffer; `raced`,
`late` and `broken` mark the cases that the properties name as exceptions.

### Xmodem, Modbus, Esp01s, DfPlayer

`Xmodem` composes the device's receiver (`HandleUart`, `HandleUsb`, the `Poll`
that repeats NAK), the sender in `Qt/QtXmodem` (`Start`, `Proceed`, `Retry`,
`Timeout`) and a line that loses and damages (`Arrive`, `Damage`). A block is
its number; no answer names the block it is for, as in the code.

`Modbus` receives frames (`Process`, and `Skip` for a frame of another slave or
a damaged one); the function codes are the operators `RegWrites`, `CoilWrites`,
`Read` and `Gathered`, with the byte and bit offsets the code computes. `tx`
survives from frame to frame, as `modbus_tx_packet` does; `asked` keeps the
values the master last asked for. `Legal` has the check of the address of each
function code; a request it refuses is answered with an exception. The check of
a register write (line 246) lets numbers of up to twice the registers through,
and a coil write has none: what they store behind an array lands in the next
arrays of `A_modbus_inout`, which `holding` and `coils` go on with. What a coil
number reaches behind all of them is not modelled.

`Esp01s` is `ESP01S_Worker` with one action for each of its branches (`Send`,
`Confirm`, `Wait`, `Again`, `Error`, `Last`), `ResetWorker`, and the WiFi module
(`Answer`, `Lose`).

`DfPlayer` has the state machine (`Open` for its opening states, `Take` and
`Clear` for a command, with the delay of the frame between them). `Sent` is the
frame the code sends: that for the track before for SET_EQ, and none for a
SET_EQ or SET_PLAY_MODE out of range; `done` records it. Then there are the
replies of the player (`Response`), its busy line, and another process that
gives commands (`Parameter`, `Command`: two stores).

### Dcc, Stepper, Dht

A command or call is the script of its stores, in the order of the code:
`Script` and `Compile` of `Dcc`, `StartSteps` and `StopSteps` of `Stepper`,
`Begin`, `BackToIdle` and `TakeOver` of `Dht`. The interrupt can come between
any two: `Cplt` (DMA), `Update` (end of a part of a motion), `Tick` (the worker,
as many turns as functions were registered). A read-modify-write of a status
word is two stores, a load and a store. The hardware that raises the interrupts
is modelled where it decides: the two halves of the DMA buffer, the repetition
counter with its shadow register.

### W25q and FlashUpdater

An operation of the QSPI driver is a script of the steps of its process
(`Enter`, `Wait`, `SetWel`, `Start`, `WaitFlag`, `Advance`, ...), with the
interrupt that completes a transfer (`Complete`), the chip that becomes free
(`ChipDone`), and a HAL that refuses a command during a transfer. Several
processes use the one driver. `Start` takes the command of a chunk and its
transfer as one step: the HAL is free before and after the command, so only a
call that overlaps this one can come between. The addresses sent are those of
the code: four times the number of a sector, and 32 KB times that of a block,
also on a large chip, which erases 64 KB (`Erased`, `Halves`).

`FlashUpdater` takes `flash_write` and `flash_erase_by_address` one access of
the flash at a time; `PowerFails` comes between any two and leaves what it
touched undefined. A call returns 1 at an address behind the flash (`Outside`),
at an error, and at the flag an earlier error left in the status register of the
bank (`Stuck`), which nothing clears but a reset.

### Mailbox and Registration

One action per access to a shared word: `Store` of `mbx_send`, `Test` and
`Receive` of `mbx_receive`, with the read-modify-writes of `mbx_bits` and
`wakeup_rsn` cut into load and store. `WaitEvent` waits and takes the flags, as
`EventFlags` allows. `Registration` is `uart_register` with the walk to the end
of the list (`Head`, `First`, `Walk`, `Link`, `End`) and the array of tick
functions (`Slot`, `Function`, `StoreParam`); the other drivers append to their
lists in the same way.

### Serial and Devices

These two put the parts that share no state beside each other; `Uart` is a part
of `Serial`, `Timers` one of `Devices`. `unit` names the one part a behaviour is
about, the variables of the others stand still, and fairness is that of the
part. A property of a part is the property of the composition, because the
initial states of a part that stands still satisfy it. Their constants are those
of the parts, with the assumptions the proofs need; `MCSerial` and `MCDevices`
extend them with the values TLC takes.

## 3. Runs

In every run of the kernel an interrupt, and where `Overrun` is TRUE a tick, may
come between any two steps of a process or of PendSV; in the runs of the drivers
an interrupt may come between any two of their stores.

| run (module) | instance | what it shows |
|---|---|---|
| `sched_calls` (`MCScheduler`) | 2 user processes and the supervisor, one event and TIMER, three masks that each process uses in turn (none, one or both); wait, activate, finish, fault | `TypeOK`; `NoLostWakeup`: no process stays blocked in `wait_event` with a reason recorded (one it returned to at once is another matter: `bug_wait_returns_unready`); `WokenWithReason`: `get_wakeup_flags` finds one after `wait_event`; `WokenByMask`: a process blocked in `wait_event` is given only events of the mask of that call, DELAY apart; `AlwaysDispatches`: the loop of `update_next_task` always finds a process while the supervisor lives; `RestartOnlyByRaceOrTimer`: a stopped process is made READY only by the timer branch of `check_timers` or by an `activate_process` that tested it before it stopped; `KeepsPromise`: it implements `EventFlags` |
| `sched_delay` (`MCScheduler`) | 2 user processes, delays 0 and 2, 5 ticks | `DelayNotEarly`, and the refinement with delays and `suspend` |
| `sched_live` (`MCScheduler`) | one process that waits or finishes, one that delays 0 to 2 ticks over the wrap of the counter, one that computes for ever, line errors at any time, fairness | `NoStarvation`: a process that stays READY runs again and again, and `DelayEndsWithBit`: a delay whose DELAY bit stays set ends, both unless ticks stop, line errors never end, or some process for ever finds an event at the call of `wait_event` (`SchedulerStops`); `TicksStopOnlyInUserCode`: the interrupts an error leaves masked are unmasked by the next kernel call or by the supervisor, unless errors never end or the interrupted user process never calls |
| `serial` (`MCSerial`), UART | buffer of 3, lengths 2 and 3, timeout 2, 7 characters, one error | `CharsKept`: every character is in one packet, in order, unless it came between copy and reset of the index; `TimeoutNotEarly`: no packet is cut by a pause shorter than the timeout; `DeliveredUnlessFull`: every packet is reported unless the one before had the length set now |
| USB | requests of 0, 2 and 3 bytes, packets up to 4, 9 bytes | `ReadInOrder`: the process reads every byte once and in order, with two named exceptions; `PartReported`: a request that is never filled is reported |
| XMODEM | file of 2 blocks sent twice, areas for 2, 3 and 6, UART and USB, 2 faults of the line, 1 early timeout | `NoneMissing`, `InOrder`: no block the sender went past is missing, and none in the area is out of order or there twice without a lost answer, while nothing is sent over something under way; `Finishes`: a transfer ends, unless the area is used up |
| Modbus | 6 bytes of registers, 4 coils in bytes of 2 bits, 3 frames of 26 kinds, refused ones and ones that store behind an array among them | `OwnAnswer`: an answer is that to its frame, except to a damaged frame and an unknown function; `ReadsBack`: a read answers what was last written, with the offsets at which the code writes elsewhere |
| ESP-01S | lists of 2 and 3 commands, 4 late or missing answers, one reset | `OwnReply`: the reply that confirms a command is its own, unless an older one was unanswered or the list was begun anew; `ListFinishes` |
| DFPlayer | 3 commands of any kind, with a parameter in and one out of every range | `NotErased`: before a command is erased its frame was sent with its own parameter, unless two overlapped; `Fulfils` says which frame that is, for SET_EQ and out of range too; `CommandDone`: a command is carried out so and then erased, it is not enough that it is erased |
| `devices` (`MCDevices`), DCC | 4 commands of any kind, each sent 3 times | `SentAsGiven`: no packet goes out half compiled, and each as often as it should, unless commands overlap; `PoweredWhileSent`: power and status stay on while a packet is sent |
| stepper | 4 calls, 0 to 3 rotations, 4 pulses to a part | `StatusTrue`: status and enable pin tell whether the motor turns, with two named exceptions; `OneMore`: a motion makes the pulses asked for and those of one rotation more (that this is too many is `bug_stepper_rotations`) |
| DHT | 2 sensors, 3 starts, 2 wrong checksums, the turns and ticks of the code | `Acquired`: a sensor that is started is acquired, unless another is started meanwhile |
| flash updater | 4 sectors of 2 words in 2 banks, 7 images, 3 calls, 2 errors (with or without a flag that stays set) or power failures | `Written`: a write that returns 0 has programmed its image, if the image fits; `InterruptsReturn`: interrupts come back unless a call failed |
| W25Q | 2 processes, pages of 2 bytes, one of the two reads or identifies, the other writes and erases | `DoneWhole`: a write, block or chip erase that returns 0 did what was asked and no more, and a read got its bytes unless its first chunk met a busy chip (sector erases are in `bug_w25q_sectors`); `Exclusive`: two are inside only after one of the named lapses |
| registration | 3 drivers, 2 slots, 3 registrations | `Served`: interrupts find each driver that was registered alone, however the others overlap, unless one is registered twice; searches end, except while one is; and a tick calls each driver registered alone once |
| mailboxes | 2 senders, 2 mailboxes, 3 messages and other events | `MessageWhole`: pointer and size received are of one message, unless a send met another, a receive, an unread message or an old value of `mbx_bits`; `NoneLeft`: no message is left while the receiver sleeps, unless a read-modify-write was interrupted or EVENT_MBX was cleared for another mailbox too |
| timers | 2 timers and the slot their masks point at, count 2, 3 ticks | `TimerNotEarly`: a timer never fires before its count ran; `ExpiryLostOnlyByRace`: an expiry is lost to a tick between load and store of `get_timer_expired` and in no other way |

**Bounds of the kernel.** Two user processes next to the supervisor are enough
for every interaction of the code, which relates at most the process on the
processor, a destination and the one that runs next; a third (`sched_live`)
makes the round of the scheduler longer than its neighbours. One event beside
TIMER and DELAY is enough where masks are compared with single events;
`sched_calls` has three masks, so that one event was asked for by one call and
not by the next, and `sched_live` two events, one of them outside the mask.
`TickMod` (2^32 in the code) is small so that the counter wraps in the runs
where it is to wrap (`sched_live`), and `TickLimit` stops it before where a
delay over the wrap would end early (`sched_delay`, the timers of `devices`);
runs without delays do not look at the count. Delays of 0, 1 and 2 ticks are
those for which the tick that comes at once is too late, in time and too early.
Three ticks let a timer with count 2 expire, be put off or be restarted on each
of them.

**Bounds of the drivers.** Buffers, requests and pages have two sizes of which
one is not a multiple of the other, and the traffic is enough for a third packet
after one that filled the buffer and one that was cut. Faults and calls are
bounded so that one can fall on the repetition of what another one failed. Three
messages are needed for a bit of `mbx_bits` that an interrupted
read-modify-write brings back to be taken for a new message; two let that pass
unseen. The DHT driver keeps its real constants, because its states are entered
at counts of its own ticks. The parts have also been searched with larger bounds
(three blocks and three faults, three users, four drivers, six calls and the
like) and without a violation; of the W25Q driver and the mailboxes only a part
of those states, but the mailboxes are proved for every bound.

**Mutants.** Each property has a mutant in `PROJECT.json`: a definition of the
code, changed as a plausible mistake would (a dropped guard, an off-by-one, a
missing reset), under which TLC finds the property violated in the same run.
They stand beside the definitions they replace, named `Mut...`.

**Symmetry.** The two senders of `MCDevices` are alike, so the first message is
the first sender's (`FirstSender` in `MCSpec`); no symmetry set is declared,
because some of the properties are temporal.

### Fairness

`FairSpec` of the kernel assumes that ticks never stop while interrupts are
enabled (`WF(SysTick)`: the SysTick counter is hardware), that a pending PendSV
is taken and its loop goes on (`WF(PendSV)`, `WF(NextTask)`), and that a process
that is given the processor again and again executes an instruction
(`SF(Process(p))`). The last is strong because PendSV can take the processor
away; it is what a slice of 1 ms against a context switch of microseconds gives.
For the same reason liveness is checked with `Overrun = FALSE`: no tick comes
within PendSV, nor twice without process code in between. Nothing is assumed
about interrupts, about processes calling the kernel or about errors ending.
Safety is checked with `Overrun = TRUE`, where ticks come at any point.

`Uart` and `UsbRx` assume the same of the tick that runs their timeouts, `Dht`
of the one that runs its worker, and that a start call goes on though ticks cut
it (`SF`: a tick takes microseconds of its millisecond). `Xmodem` assumes that a
process that was woken handles its block, polls when nothing else comes, that a
packet on the line arrives or is lost, and that the configurator goes on;
`Esp01s` that its process calls the worker and that the module answers the
commands it keeps; `FlashUpdater` that a call goes on. `DfPlayer` assumes that
its process calls the state machine, with `SF` for calls that change its state,
since replies come between them, and that a title that is played ends. Errors of
a line or of the flash are bounded in the guards, which stands for their ending;
nothing is assumed about commands being given.

### Findings

Seven runs show where the code does not do what its documentation says:

| run | property | what happens |
|---|---|---|
| `bug_supervisor_starves` | `SupervisorRuns` | `wait_event` sets SKIP_TICK also when it returns at once, so a process that always finds an event keeps the processor for ever (`scheduler.c:78`) |
| `bug_wait_returns_unready` | `ReturnedRuns` | `wait_event` clears READY before it looks at `wakeup_rsn` and does not set it again when it returns at once (`scheduler.c:77`): the next tick that switches takes the processor from the process for ever, unless one more event of its mask comes |
| `bug_delay_hangs` | `DelayEnds` | `check_timers` clears the DELAY bit of the process on the processor (`timer.c:157`): if that is the one whose delay ends, it never wakes |
| `bug_timer_not_stopped` | `StoppedIsDisabled` | the timer calls use the mask of a timer as its index (`timer.c:280`) |
| `bug_uart_short_packet` | `Delivered` | after a packet that filled the buffer the timeout of a shorter one never runs (`uart.c:213`) |
| `bug_stepper_rotations` | `RotationsDone` | the RCR of a part is written after the update that would have taken it (`stepper.c:52`): a motion of 2 rotations makes 600 pulses, not the 400 of the driver's readme |
| `bug_w25q_sectors` | `SectorsErased` | a sector erase sends four times the number of the sector as its address, where a sector has 4 KB (`w25qxx.c:383`): sectors 1 to 1023 erase sector 0 and the call returns 0 |

Other surprises are the exceptions that the properties name, which state exactly
how far the code goes and break if it goes further:

- `task_delay` leaves DELAY in `wakeup_rsn`, and the next `wait_event` returns
  for it (`timer.c:141`); an event of an earlier mask that was not read does the
  same. `WokenByMask` is about calls that block, and leaves DELAY out.
- A line error leaves interrupts masked (`uart.c:138`):
  `TicksStopOnlyInUserCode`.
- `get_timer_expired` loses an expiry to a tick (`timer.c:295`):
  `ExpiryLostOnlyByRace`.
- A character between copy and reset of the index is thrown away, and one behind
  a USB packet not yet read overwrites it: `CharsKept`, `ReadInOrder`.
- The block that fills the XMODEM area is refused for ever, and stored again
  behind it: `Finishes`, `InOrder`.
- A damaged Modbus frame is answered with an old packet; registers at odd places
  and coils that do not begin a byte are written elsewhere: `OwnAnswer`,
  `ReadsBack`.
- After its last retry the ESP-01S worker waits for the reply to a command it
  has not sent: `OwnReply`.
- A DFPlayer or DCC command given during another can be erased or mixed with it:
  `NotErased`, `SentAsGiven`.
- SET_EQ sends the DFPlayer the frame for the track before (`dfplayer.c:116`),
  and a SET_EQ or SET_PLAY_MODE out of range is erased with nothing sent:
  `Fulfils`.
- A stepper makes one rotation more than asked, and never any other number:
  `OneMore`.
- A humidity sensor whose acquisition is overtaken runs for ever: `Acquired`.
- A flash image that spans banks or part of a last sector is not erased as a
  whole, an early return leaves interrupts masked, and the flag of an error
  makes every later call on its bank fail until a reset: `Written`,
  `InterruptsReturn`.
- The first chunk of a W25Q read does not wait for the chip, and erasing the
  chip or reading its identifier does not test BUSY; a large chip erases blocks
  of 64 KB, which the driver numbers by 32 KB, so it erases the other half too:
  `DoneWhole`, `Exclusive`.
- Two processes that register at once can lose each other's driver or tick
  function, and a driver registered again can cut off what is behind it:
  `Served`.
- Messages to one mailbox mix, and a read-modify-write of `mbx_bits` that is
  interrupted revives or drops a message in another: `MessageWhole`, `NoneLeft`.

## 4. Proofs

For every value of the constants:

| theorem | module | statement |
|---|---|---|
| `TypeCorrect` | `SchedulerProofs` | `[]TypeOK` |
| `InductiveInvariant` | | `[]IInv` |
| `NothingSleptOver` | | `[]NoLostWakeup`: of processes blocked in `wait_event`; also with line errors |
| `ReturnsWithReason` | | `[]WokenWithReason`, if `LineErrors = FALSE` |
| `AlwaysFindsTask` | | `[]AlwaysDispatches` |
| `StaysStopped` | | `RestartOnlyByRaceOrTimer` |
| `DelayInvariant`, `DelayLastsLongEnough` | | `DelayNotEarly`, of every delay that ends before the counter wraps |
| `WakesByMask` | | `[]WokenByMask`, for any masks in any order, delays and line errors |
| `ImplementsEventFlags` | | `KeepsPromise`, if `LineErrors = FALSE` |
| `TimersTypeCorrect` | `TimersProofs` | `[]TypeOK` of `Timers` |
| `TimersNeverEarly` | | `TimerNotEarly`, if no count crosses the wrap |
| `LostOnlyByRace` | | `ExpiryLostOnlyByRace` |
| `TypeCorrect`, `StoresInBuffer` | `UartProofs` | `[]TypeOK` and `[]InBuffer` of `Uart`: no character is stored behind the buffer |
| `KeepsChars`, `WaitsForTimeout` | | `[]CharsKept`, `[]TimeoutNotEarly` |
| `StoresInBuffer`, `ReadsInOrder` | `UsbRxProofs` | `[]UsbInBuffer`, `[]ReadInOrder` of `UsbRx` |
| `ReceivesWhole`, `LeavesNone` | `MailboxProofs` | `MessageWhole`, `[]NoneLeft` of `Mailbox`, for at least one mailbox |
| `PoweredWhileSending`, `SendsAsGiven` | `DccProofs` | `[]PoweredWhileSent`, `[]SentAsGiven` of `Dcc`, for any set of commands of `AllKinds` |
| `UartKeepsChars`, `UartWaitsForTimeout` | `SerialProofs` | `[]CharsKept`, `[]TimeoutNotEarly` |
| `UsbReadsInOrder` | | `[]ReadInOrder` |
| `StoresAll`, `StoresInOrder` | | `[]NoneMissing`, `[]InOrder` of XMODEM |
| `AnswersOwn`, `AnswersAsked` | | `[]OwnAnswer`, `[]ReadsBack` of Modbus |
| `TakesOwnReply` | | `OwnReply` of the ESP-01S worker |
| `ErasesDone` | | `[]NotErased` of the DFPlayer |
| `SendsAsGiven`, `PowersWhileSending` | `DevicesProofs` | `[]SentAsGiven`, `[]PoweredWhileSent` |
| `LeavesNoMessage`, `TakesWhole` | | `[]NoneLeft`, `MessageWhole` |
| `CapturesInWait` | | `[]CaptureOnlyInWait` of `Dht`: a capture runs only while the worker waits for its end |
| `TellsStatus`, `TurnsOneMore` | | `[]StatusTrue`, `OneMore` of the stepper |
| `OneInside`, `DoesWhole` | | `[]Exclusive`, `DoneWhole` of the W25Q driver |
| `WritesImage` | | `Written` of the flash updater |
| `ServesAll` | | `[]Served` of the registrations |
| `TimersNotEarly`, `ExpiriesLostByRace` | | `TimerNotEarly`, if no count crosses the wrap, and `ExpiryLostOnlyByRace` |

So every invariant and every action property the runs check has a theorem, and
the invariants that make the proofs go through were checked by TLC on the
instances of the runs first.

The theorems assume what the modules name and what they state themselves:

- `SchedulerAssumption`: at least one user process, DELAY and TIMER are no
  driver's events, a supervisor that makes no blocking call. `TimerAssumption`,
  `SerialAssumption`: those of `Timers`, `Uart` and `UsbRx`, where no request is
  longer than the buffer.
- `DccAssumption`: the commands are those of `dcc_commands`, `dcc_start` and
  `dcc_stop`, and the repetitions a number (`dcc.h:61`).
- `StepperAssumption`: a part of a motion has at least one pulse, and the
  history counts the pulses of a motion to the number asked for.
- `W25qAssumption`: requests are of the six kinds, a page and a kilobyte are not
  empty, and process 0, the supervisor, uses no driver. A read or write of no
  bytes is left out: from an address inside a page the code sends the chip a
  command for it (`w25qxx.c:184`), which `Round` does not. `UpdaterAssumption`:
  sectors and banks are not empty and an image begins in the flash.
  `MailboxAssumption`: there is a mailbox. `ListAssumption`: NULL is no driver.
- `XmodemAssumption`: what is counted is a number. `ModbusAssumption`: sizes are
  numbers, and a request to write one register has two bytes. `DfAssumption`:
  parameters are numbers. `EspAssumption`: a command of a list names a reply, as
  every list of the code does.

**Composition.** A theorem about a part is one about `Serial` or `Devices`: a
step of the composition is one of the part or leaves its variables alone. The
proofs of parts that had a module of their own are taken over with `INSTANCE`
under the same substitution (`MP`, `CP`, `TP`, `BP`, `UP`), after a lemma that
the actions of both instances are the same.

**Scheduler.** `NoLostWakeup` is not inductive: in a state where a killed
process is in `wait_event`, the timer branch of `check_timers` would set READY
without a reason. `IInv` adds what excludes such states.

- `StoppedInv`: only a process that finished or faulted carries KILLED.
- `WaitInv`: in `wait_event`, READY and a recorded reason go together.
- `RunnerInv`: without line errors interrupts are not left masked, and a process
  that executes in `wait_event` with no PendSV pending is READY; hence it has a
  reason when it returns.
- `DispatchInv`: while the supervisor lives it is READY, and `scan` has not come
  further than `current` allows, so the loop reaches process 0 at the latest.

`DelayInv` relates `delay_value` to the ticks owed: DELAY is recorded, or the
delay lies at least that many ticks ahead. `ExpiryInv` says the same of a
timer's slot, together with the bound that keeps its sums below the wrap. The
refinement maps every step of a process to one step of `EventFlags` or to none
(`ProcessPromise`), and every interrupt to `Raise` or to none
(`InterruptPromise`); it needs `SupervisorInv`: the supervisor never waits.

**Uart.** `Typed` adds to the types that the index is in the buffer. `Chars`
says of each place inside the timeout function what index and count are worth
there; `Waited` relates the timeout, loaded or stored, to the ticks of silence.

**UsbRx.** `Kept`: a process that was woken finds as many bytes as it is told,
in order (`Holds`), and the next request has not begun; else what is being
filled is all there is to read.

**Dcc.** `Rest` and `Whole` describe the scripts: a store of the status word
follows its load, sets PENDING only with INPROGRESS and clears neither
(`Harmless`). `Flagged` says the same of the status and of what the process has
loaded. Between a load and its store the interrupt only clears bits, so what was
loaded has all that the status has, and a stale store never takes INPROGRESS
away. `SendInv` carries `SentAsGiven`: the stores that are left of a command are
the end of its chain, in order (`InOrder`, `Control`), the packet being prepared
is compiled as far as that chain has come (`Compiling`), and while a command
that came into an idle driver is compiled nothing is sent; then the packets
loaded and those still to be repeated are one more than the repetitions
(`Sending`).

**Dht.** `Sound`: a sensor past its first state, or capturing, is running, and
one at the end no longer captures; between the first two stores of its start it
captures only while the worker waits.

**Stepper.** `MotorInv` says for every place in `stepper_start` and
`stepper_stop` what the update interrupt can have left there; `MotionInv` that a
motion after k parts has made k parts of pulses and has one more to make than
`number_of_steps` says, which is the rotation too many.

**Mailbox.** `MessageWhole` rests on `PureInv`: a mailbox that no send met has
pointer and size of one message from the second store on, and its bit is set
only after both. `NoneLeft` rests on `KnownInv`: a bit that is set has a sender
before its `activate_process`, a reason recorded, or a receiver that has yet to
look at the mailbox.

**W25q.** `QspiTypes` says which steps a call still has to make (`Fits`): the
rest of its opening, or rounds (`Body`). `Busy`: without a lapse BUSY is set
while a process is inside, only one is, and another that is active is
identifying the chip or about to clear the status. `DoneWhole` rests on
`DoneInv`, which says three things of a call that no other one overlapped.
`Follows`: a command comes after a poll of the chip, a program or erase command
after a write enable. `Placed`: so the chip is free, and takes writes, where the
script needs that, whatever the call before left behind; only the first chunk of
a read is sent without a poll. `Progress`: what the chip has done and what the
transfer under way is about to do reach from the address asked to the one of the
next chunk, and a chunk stays in its page (`ChunkFacts`), so the chip does not
wrap while it programs it (`Programs`). The blocks erased are those from the
block asked for to the next one, with their other halves on a large chip
(`Pieces`), and a chip erase has either erased everything or still has its
command before it (`Cleared`). When nothing is left of the request the chip has
been polled and no transfer is under way.

**FlashUpdater.** `UpdaterInv` is the loop invariant of the two loops: the
sectors that were come to are blank, then the words of the image up to `i` are
written; an error and the flag of an earlier one only end the call. It needs
that the sectors a call erases hold the image (`ErasesImage`), which is
arithmetic over sectors and banks, and is where `Fits` is used.

**Registration.** `ListInv`: nothing points at a driver that was never linked
(`Apart`), so linking it makes no cycle, and a cycle runs through a driver
registered again whose pointer is about to be cleared (`Broken`). A driver that
no other registration overlapped registers alone (`Alone`). A driver whose
pointer another one is about to store is `Pending`: what lies behind it may
still be cut off. `Held` are the drivers the list comes to before it leaves a
pending one, and as long as none is registered twice those registered alone are
among them (`Reached`): a step of another registration changes the pointer of a
pending driver only, so `Held` never loses one (`HeldKept`), and a driver that
registers alone finds none pending. The slot of a driver that was registered
once and alone is its own (`Slotted`).

**XMODEM.** As long as the configurator sends nothing over something under way,
there is one packet: the block it waits for, or what the line made of it, and an
ACK is the answer to that (`OnePacket`). Then the blocks it has gone past are
stored (`Arrived`). For the order it takes two more facts: the last block stored
is before the one that is sent, or is that one and its ACK is under way or was
not heard (`LastStored`), and a transfer begins with an empty area or with the
end of the last one still in the buffer (`EotLeft`).

**Modbus, ESP-01S, DFPlayer.** `Holds`: the arrays hold what was last asked for,
where that is known; the proof goes through the function codes and the bytes
each of them touches, those behind an array included. `Expected`: after a
command only its own reply is on the line or in the buffer, unless a command was
stale or the list was begun anew. `DfInv`: without a clash the parameter is
stored while nothing is to be done, and the frame that was sent last is the one
`Fulfils` names for the call that was given (`SentFulfils`).

Only model-checked:

- every liveness property (`TicksStopOnlyInUserCode`, `NoStarvation`,
  `DelayEndsWithBit`, `DeliveredUnlessFull`, `PartReported`, `Finishes`,
  `ListFinishes`, `CommandDone`, `Acquired`, `InterruptsReturn`): liveness under
  fairness, which speaks of ENABLED, is out of the prover's reach.

## 5. Not modelled

- **Memory pool** (`mem.c`): compiled with `POOL_ENABLE`, which no configuration
  sets; its initialisation takes addresses of local variables and its call in
  `A_start` is commented out. There is no initial state to model from.
- **Start**: what the init functions of the user processes do before the
  supervisor runs, with interrupts enabled (`A.c:214`), and hardware set-up.
  This is the one hazard listed without a property: `Init` of the models is the
  state after it.
- **Kernel details**: `wakeup_flags`, the word with details of an event, which
  goes with its event; the fault counters, which only the memory pool reads; the
  second array of tick functions, which is the first under another name.
- **UART by DMA to idle** beyond its use in `Xmodem`, transmission and printf:
  one HAL call each.
- **CAN, GPIO interrupts, analog, DMX512, PWM, servo, LED, Ethernet**: they set
  up a peripheral, and their interrupts look a driver up and wake its process,
  which `Scheduler!Irq` stands for.
- **I2C and SPI devices**: register reads and writes in blocking HAL calls by
  one process. Most of their lines are tables and set-up of vendor code
  (`vl53l5cx_buffers.h`, `mlx90640.c`, `imx335.c`).
- **MIDI, hex and MD5 decoders, PID**: sequential computations within reach of
  unit tests.
- **MQTT client, WAV player**: thin layers over lwIP and FatFs, which are not in
  the repository.
- **Flash updaters of the other two chips** and the jump to the boot loader; the
  set-up of the QSPI chip and its memory-mapped mode.
- **CMSIS, HAL, samples, linker scripts, the configurator** except its side of
  XMODEM.

Parts of the code that interrupts, processes and peers share are covered by the
modules above. What could follow is depth: a refinement of the transfer and the
mailbox to an abstract channel for the behaviours without overlap;
`wakeup_flags` with the flags of the UART driver; runs of `Timers` over the wrap
of the counter.
