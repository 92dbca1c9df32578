--------------------------------- MODULE Uart ---------------------------------
(***************************************************************************)
(* The receiving half of the UART driver without DMA: the interrupt of     *)
(* each character, the error interrupt, and the timeout that SysTick runs  *)
(* before check_timers with interrupts enabled, so that a character can    *)
(* come between its statements. What an error does to the interrupt mask   *)
(* is in module Scheduler.                                                 *)
(***************************************************************************)
EXTENDS Integers

CONSTANTS
  BufSize,   \* the characters the buffer has room for
  Lens,      \* the lengths rx_max_len is set to
  Reload,    \* the timeout, in ticks
  Wakes,     \* the flags of the driver, of WakeFlags
  MaxChars,  \* bound: characters received
  MaxTicks,  \* bound: ticks of silence that are counted
  MaxErrors  \* bound: line errors

WakeFlags == {"RXCHAR", "RXFULL", "TIMEOUT", "ERRORS"}

UartAssumption ==
  /\ BufSize \in Nat \ {0}
  /\ Lens \subseteq 1 .. BufSize
  /\ Reload \in 0 .. MaxTicks
  /\ Wakes \subseteq WakeFlags
  /\ MaxChars \in Nat
  /\ MaxTicks \in Nat
  /\ MaxErrors \in Nat

VARIABLES
  data,          \* the buffer; a character is the number it came with
  rx_index,      \* where the next character goes
  rx_max_len,    \* the length that completes a packet
  rx_num_chars,  \* the length of the last packet
  timeout,       \* ticks until a packet is complete without more characters
  armed,         \* HAL_UART_Receive_IT is under way
  uart_error,    \* the errors counted
  flags,         \* the UART bits of the process's wakeup_flags
  tick,          \* where SysTick stands in the timeout callback
  reg,           \* the timeout it loaded
  count,         \* history: characters received
  unreported,    \* history: characters received since the last packet
  quiet,         \* history: ticks since the last character outside the callback
  raced          \* history: a character came where the callback loses it

buffer  == <<data, rx_index, rx_max_len, rx_num_chars>>
line    == <<armed, uart_error>>
history == <<count, unreported, quiet, raced>>
vars    == <<buffer, timeout, line, flags, tick, reg, history>>

Indices == 0 .. BufSize - 1

Init ==
  /\ data = [i \in Indices |-> 0]
  /\ rx_index = 0
  /\ rx_max_len \in Lens
  /\ rx_num_chars = 0
  /\ timeout = Reload
  /\ armed = TRUE
  /\ uart_error = 0
  /\ flags = {}
  /\ tick = "idle"
  /\ reg = 0
  /\ count = 0
  /\ unreported = 0
  /\ quiet = 0
  /\ raced = FALSE

-----------------------------------------------------------------------------
(* Definitions named Mut... are defects a change to the code could bring   *)
(* in: see module Scheduler.                                               *)

Raise(cause, f) == IF cause \in Wakes THEN f ELSE {}

Full(n) == n >= rx_max_len

MutReloaded == timeout
Reloaded == Reload

(* HAL_UART_RxCpltCallback: the character is stored, and completes a       *)
(* packet if it fills it.                                                  *)
RxCplt ==
  /\ armed /\ count < MaxChars
  /\ count' = count + 1
  /\ data' = [data EXCEPT ![rx_index] = count']
  /\ timeout' = Reloaded
  /\ quiet' = IF tick = "idle" THEN 0 ELSE quiet
  /\ raced' = (raced \/ tick = "copied")
  /\ \/ /\ Full(rx_index + 1)
        /\ rx_num_chars' = rx_index + 1
        /\ rx_index' = 0
        /\ flags' = flags \cup Raise("RXFULL", {"RX"}) \cup Raise("RXCHAR", {"RX"})
        /\ unreported' = 0
     \/ /\ ~ Full(rx_index + 1)
        /\ rx_index' = rx_index + 1
        /\ flags' = flags \cup Raise("RXCHAR", {"RX"})
        /\ unreported' = unreported + 1
        /\ UNCHANGED rx_num_chars
  /\ UNCHANGED <<rx_max_len, line, tick, reg>>

(* HAL_UART_ErrorCallback. The HAL ends the reception first when the error *)
(* is an overrun, and nothing starts it again.                             *)
Error(overrun) ==
  /\ armed /\ uart_error < MaxErrors
  /\ uart_error' = uart_error + 1
  /\ armed' = ~ overrun
  /\ timeout' = Reloaded
  /\ flags' = flags \cup Raise("ERRORS", {"ERR"})
  /\ UNCHANGED <<buffer, tick, reg, history>>

(* UART_Driver_RxTimeoutCheckCallback: the condition, the decrement as a   *)
(* load and a store, the copy of rx_index, and its reset.                  *)
Pending == rx_index > 0 /\ rx_num_chars # rx_max_len

TickStart ==
  /\ tick = "idle"
  /\ quiet' = IF quiet < MaxTicks THEN quiet + 1 ELSE quiet
  /\ reg' = timeout
  /\ tick' = CASE ~ Pending -> "idle" [] Pending /\ timeout > 0 -> "loaded" [] OTHER -> "expired"
  /\ UNCHANGED <<buffer, timeout, line, flags, count, unreported, raced>>

MutStored == reg
Stored == reg - 1

TickStore ==
  /\ tick = "loaded"
  /\ timeout' = Stored
  /\ tick' = IF Stored = 0 THEN "expired" ELSE "idle"
  /\ UNCHANGED <<buffer, line, flags, reg, history>>

TickCopy ==
  /\ tick = "expired"
  /\ rx_num_chars' = rx_index
  /\ tick' = "copied"
  /\ unreported' = 0
  /\ UNCHANGED <<data, rx_index, rx_max_len, timeout, line, flags, reg, count, quiet, raced>>

MutReset == rx_index
Reset == 0

TickReset ==
  /\ tick = "copied"
  /\ rx_index' = Reset
  /\ timeout' = Reload
  /\ flags' = flags \cup Raise("TIMEOUT", {"TO", "RX"})
  /\ tick' = "idle"
  /\ UNCHANGED <<data, rx_max_len, rx_num_chars, line, reg, history>>

(* The process, which runs when the tick is over: uart_set_rxlen, and the  *)
(* return of get_wakeup_flags.                                             *)
SetRxLen(n) ==
  /\ tick = "idle"
  /\ rx_max_len' = n
  /\ UNCHANGED <<data, rx_index, rx_num_chars, timeout, line, flags, tick, reg, history>>

GetWakeupFlags ==
  /\ tick = "idle" /\ flags # {}
  /\ flags' = {}
  /\ UNCHANGED <<buffer, timeout, line, tick, reg, history>>

SysTick == TickStart \/ TickStore \/ TickCopy \/ TickReset

Next ==
  \/ RxCplt
  \/ \E overrun \in BOOLEAN : Error(overrun)
  \/ SysTick
  \/ \E n \in Lens : SetRxLen(n)
  \/ GetWakeupFlags

(* SysTick comes for ever and ends each time.                              *)
Spec == Init /\ [][Next]_vars /\ WF_vars(SysTick)

-----------------------------------------------------------------------------
(* Properties *)

TypeOK ==
  /\ data \in [Indices -> Nat]
  /\ rx_index \in Nat
  /\ rx_max_len \in Lens
  /\ rx_num_chars \in 0 .. BufSize
  /\ timeout \in Nat
  /\ armed \in BOOLEAN
  /\ uart_error \in Nat
  /\ flags \in SUBSET {"RX", "TO", "ERR"}
  /\ tick \in {"idle", "loaded", "expired", "copied"}
  /\ tick = "loaded" => reg \in Nat \ {0}
  /\ count \in Nat
  /\ unreported \in Nat
  /\ quiet \in Nat
  /\ raced \in BOOLEAN

(* No character is stored behind the buffer, whatever lengths the process  *)
(* sets while a packet comes in.                                           *)
InBuffer == rx_index \in Indices

(* Every character is in one packet: those not yet reported are the ones   *)
(* in the buffer, in the order they came. Only a character that comes      *)
(* between the copy of rx_index and its reset is taken away.               *)
CharsKept ==
  ~ raced /\ tick # "copied" =>
    /\ rx_index = unreported
    /\ \A i \in 0 .. rx_index - 1 : data[i] = count - rx_index + i + 1

(* A packet is not cut in two by a pause shorter than the timeout. A       *)
(* character that comes inside the callback does not start the count again *)
(* because the decrement stores over it.                                   *)
TimeoutNotEarly == tick = "expired" => quiet >= Reload

(* The characters of a packet that pauses are reported by the timeout.     *)
Delivered == rx_index > 0 ~> rx_index = 0

(* They are, unless the packet before them had the length set now.         *)
DeliveredUnlessFull == rx_index > 0 ~> (rx_index = 0 \/ rx_num_chars = rx_max_len)
=============================================================================
