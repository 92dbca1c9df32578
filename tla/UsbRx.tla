--------------------------------- MODULE UsbRx ---------------------------------
(***************************************************************************)
(* Reception by the USB device driver: packets of any length cut into      *)
(* requests of requested_len bytes, the timeout of SysTick, which a packet *)
(* can interrupt between any two statements, and the process that reads    *)
(* the one buffer after it was woken.                                      *)
(***************************************************************************)
EXTENDS Integers

CONSTANTS
  Requested,  \* the values of requested_len
  BufSize,    \* the bytes the buffer has room for
  Reload,     \* timeout_reload_value
  MaxLen,     \* the longest packet of the host
  MaxBytes    \* bound: bytes received

UsbRxAssumption ==
  /\ Requested \subseteq Nat /\ BufSize \in Nat \ {0}
  /\ \A r \in Requested : r <= BufSize
  /\ Reload \in Nat \ {0}
  /\ MaxLen \in Nat \ {0} /\ MaxBytes \in Nat

VARIABLES
  requested_len,
  data,          \* the buffer; a byte is the number it came with
  data_index, rx_num_chars, timeout,
  woken,         \* the process has been woken and has not read yet
  tick, reg,     \* where the timeout callback stands, and what it has loaded
  count,         \* history: bytes received
  read,          \* history: bytes read in the order they came
  broken,        \* history: the process has read something else
  late,          \* history: bytes came behind a packet before it was read
  raced          \* history: a packet came where the timeout callback loses it

driver  == <<requested_len, data, data_index, rx_num_chars, timeout, woken>>
history == <<count, read, broken, late, raced>>
vars    == <<driver, tick, reg, history>>

(* usb_device_driver_register                                              *)
Init ==
  /\ requested_len \in Requested
  /\ data = [i \in 0 .. BufSize - 1 |-> 0]
  /\ data_index = 0 /\ rx_num_chars = 0 /\ woken = FALSE
  /\ timeout = IF requested_len > 0 THEN Reload ELSE 0
  /\ tick = "idle" /\ reg = 0
  /\ count = 0 /\ read = 0
  /\ broken = FALSE /\ late = FALSE /\ raced = FALSE

-----------------------------------------------------------------------------
(* Definitions named Mut... are defects a change to the code could bring   *)
(* in: see module Scheduler.                                               *)

(* The numbers of the bytes of a packet that are stored at position i: the *)
(* index goes back to 0 whenever a request is full.                        *)
Position(k) == IF requested_len = 0 THEN data_index ELSE (data_index + k - 1) % requested_len
At(i, len)  == {k \in 1 .. len : Position(k) = i}
Last(S)     == CHOOSE k \in S : \A j \in S : j <= k

Full(len) == requested_len = 0 \/ data_index + len >= requested_len
Over(len) == IF requested_len = 0 THEN len > 1 ELSE data_index + len > requested_len

Index(len) == IF requested_len = 0 THEN data_index ELSE (data_index + len) % requested_len

(* usb_device_driver_pktreceived_callback                                  *)
PktReceived(len) ==
  /\ count + len <= MaxBytes
  /\ count' = count + len
  /\ data' = [i \in DOMAIN data |-> IF At(i, len) = {} THEN data[i] ELSE count + Last(At(i, len))]
  /\ data_index' = Index(len)
  /\ rx_num_chars' = CASE ~ Full(len) -> rx_num_chars
                       [] requested_len = 0 -> len
                       [] OTHER -> requested_len
  /\ woken' = (woken \/ Full(len))
  /\ timeout' = IF requested_len > 0 THEN Reload ELSE 0
  /\ late' = (late \/ woken \/ Over(len))
  /\ raced' = (raced \/ tick = "copied" \/ (tick # "idle" /\ Full(len)))
  /\ UNCHANGED <<requested_len, tick, reg, read, broken>>

(* USB_Driver_RxTimeoutCheckCallback                                       *)
TickStart ==
  /\ tick = "idle" /\ data_index > 0 /\ timeout > 0
  /\ tick' = "loaded" /\ reg' = timeout
  /\ UNCHANGED <<driver, history>>

TickStore ==
  /\ tick = "loaded"
  /\ timeout' = reg - 1
  /\ tick' = IF timeout' = 0 THEN "expired" ELSE "idle"
  /\ UNCHANGED <<requested_len, data, data_index, rx_num_chars, woken, reg, history>>

TickCopy ==
  /\ tick = "expired" /\ tick' = "copied"
  /\ rx_num_chars' = data_index
  /\ late' = (late \/ woken)
  /\ UNCHANGED <<requested_len, data, data_index, timeout, woken, reg, count, read, broken, raced>>

MutReset == data_index
Reset == 0

TickReset ==
  /\ tick = "copied" /\ tick' = "idle"
  /\ data_index' = Reset
  /\ woken' = TRUE
  /\ timeout' = Reload
  /\ UNCHANGED <<requested_len, data, rx_num_chars, reg, history>>

SysTick == TickStart \/ TickStore \/ TickCopy \/ TickReset

(* The process reads usb_get_rx_len bytes when no interrupt is under way.  *)
Read ==
  /\ woken /\ tick = "idle"
  /\ woken' = FALSE
  /\ read' = read + rx_num_chars
  /\ broken' = (broken \/ rx_num_chars = 0
                       \/ \E i \in 0 .. rx_num_chars - 1 : data[i] # read + i + 1)
  /\ UNCHANGED <<requested_len, data, data_index, rx_num_chars, timeout, tick, reg,
                 count, late, raced>>

Next ==
  \/ \E len \in 1 .. MaxLen : PktReceived(len)
  \/ SysTick
  \/ Read

(* SysTick comes for ever and ends each time.                              *)
Spec == Init /\ [][Next]_vars /\ WF_vars(SysTick)

-----------------------------------------------------------------------------
(* Properties *)

(* No byte is stored behind the buffer, whatever the host sends and        *)
(* wherever the timeout stands.                                            *)
UsbInBuffer == data_index \in 0 .. BufSize - 1

(* The process reads every byte once, in order, unless bytes came behind a *)
(* packet before it was read, in the same packet of the host or a later    *)
(* one (or requested_len is 0 and a packet has two), or a packet came      *)
(* where the timeout callback takes it away.                               *)
ReadInOrder ==
  ~ late /\ ~ raced =>
    /\ ~ broken
    /\ ~ woken /\ tick # "copied" => read + data_index = count

(* The bytes of a request that is never filled are reported.               *)
PartReported == data_index > 0 ~> data_index = 0
=============================================================================
