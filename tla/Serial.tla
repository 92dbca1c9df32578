-------------------------------- MODULE Serial --------------------------------
(***************************************************************************)
(* The parts of A_os that talk over a line, side by side: a behaviour is   *)
(* that of one of them, which unit names, while the variables of the       *)
(* others stand still. They do not share state; the sum keeps TLC's runs   *)
(* few.                                                                    *)
(***************************************************************************)
EXTENDS Integers, Sequences

CONSTANTS
  Units,                                              \* the parts that are looked at
  Requested, BufSize, Reload, MaxLen, MaxBytes,       \* of UsbRx
  Blocks, Areas, Links, Downloads, MaxFaults, MaxEarly, Beyond, \* of Xmodem
  Regs, Coils, Bits, Half, Requests, MaxFrames,       \* of Modbus
  Lists, MaxDelay, NumRetry, MaxLine, MaxEspFaults, MaxResets,  \* of Esp01s
  Commands, Parameters, MaxCommands,                  \* of DfPlayer
  UartBufSize, Lens, UartReload, Wakes, MaxChars, MaxTicks, MaxErrors \* of Uart

VARIABLES
  unit,
  requested_len, data, data_index, rx_num_chars, timeout, woken,
  tick, reg, count, read, broken, late, raced,
  link, area, pc, block, sent, down, up, buf, xmodem_woken, enable, poll,
  stored, session, faults, early, misheard, surplus, appended,
  holding, coils, tx, answered, frame, asked,
  list, worker_state, cmd_sent, finished, delay, cmd_retry, rx_buf, line,
  esp_faults, resets, confirmed, restarted, stale,
  sm, command, parameter, df_pc, doing, last_command, number_of_tracks, idle,
  reply, giving, given, ordered, clash, done,
  uart_data, rx_index, rx_max_len, uart_num_chars, uart_timeout, armed, uart_error, flags,
  uart_tick, uart_reg, uart_count, unreported, quiet, uart_raced

usb == <<requested_len, data, data_index, rx_num_chars, timeout, woken,
         tick, reg, count, read, broken, late, raced>>
xmodem == <<link, area, pc, block, sent, down, up, buf, xmodem_woken, enable, poll,
            stored, session, faults, early, misheard, surplus, appended>>
modbus == <<holding, coils, tx, answered, frame, asked>>
esp01s == <<list, worker_state, cmd_sent, finished, delay, cmd_retry, rx_buf, line,
            esp_faults, resets, confirmed, restarted, stale>>
dfplayer == <<sm, command, parameter, df_pc, doing, last_command, number_of_tracks, idle,
              reply, giving, given, ordered, clash, done>>
uart == <<uart_data, rx_index, rx_max_len, uart_num_chars, uart_timeout, armed, uart_error, flags,
          uart_tick, uart_reg, uart_count, unreported, quiet, uart_raced>>
vars == <<unit, usb, xmodem, modbus, esp01s, dfplayer, uart>>

B == INSTANCE UsbRx
X == INSTANCE Xmodem WITH woken <- xmodem_woken
M == INSTANCE Modbus
E == INSTANCE Esp01s WITH MaxFaults <- MaxEspFaults, faults <- esp_faults
D == INSTANCE DfPlayer WITH pc <- df_pc
U == INSTANCE Uart WITH
  BufSize <- UartBufSize, Reload <- UartReload,
  data <- uart_data, rx_num_chars <- uart_num_chars, timeout <- uart_timeout,
  tick <- uart_tick, reg <- uart_reg, count <- uart_count, raced <- uart_raced

ASSUME SerialAssumption == B!UsbRxAssumption /\ U!UartAssumption

ASSUME XmodemAssumption ==
  /\ Blocks \in Nat /\ Beyond \in Nat /\ Areas \subseteq Nat
  /\ Links \subseteq {"UART", "USB"}

(* A request to write a register has two bytes for it.                     *)
ASSUME ModbusAssumption ==
  /\ Regs \in Nat /\ Coils \in Nat /\ Bits \in Nat \ {0} /\ Half \in Nat \ {0}
  /\ \A r \in Requests :
       /\ r.at \in Nat /\ r.n \in Nat /\ Len(r.data) \in Nat
       /\ r.fc = "WRITE_REGISTER" => r.data = <<r.data[1], r.data[2]>>

(* Every command of a list is one of the replies the worker looks for.     *)
ASSUME EspAssumption ==
  \A l \in Lists : l \in Seq([reply : STRING \ {"none"}, delay : Nat])

(* Parameters are numbers.                                                 *)
ASSUME DfAssumption == Parameters \subseteq Nat

(* The parts that stand still do so in one initial state.                  *)
Init ==
  /\ unit \in Units
  /\ B!Init /\ X!Init /\ M!Init /\ E!Init /\ D!Init /\ U!Init
  /\ unit # "usb" => requested_len = CHOOSE r \in Requested : TRUE
  /\ unit # "xmodem" => link = (CHOOSE l \in Links : TRUE) /\ area = CHOOSE a \in Areas : TRUE
  /\ unit # "esp01s" => list = CHOOSE l \in Lists : TRUE
  /\ unit # "dfplayer" => idle
  /\ unit # "uart" => rx_max_len = CHOOSE n \in Lens : TRUE

Next ==
  /\ UNCHANGED unit
  /\ \/ unit = "usb" /\ B!Next /\ UNCHANGED <<xmodem, modbus, esp01s, dfplayer, uart>>
     \/ unit = "xmodem" /\ X!Next /\ UNCHANGED <<usb, modbus, esp01s, dfplayer, uart>>
     \/ unit = "modbus" /\ M!Next /\ UNCHANGED <<usb, xmodem, esp01s, dfplayer, uart>>
     \/ unit = "esp01s" /\ E!Next /\ UNCHANGED <<usb, xmodem, modbus, dfplayer, uart>>
     \/ unit = "dfplayer" /\ D!Next /\ UNCHANGED <<usb, xmodem, modbus, esp01s, uart>>
     \/ unit = "uart" /\ U!Next /\ UNCHANGED <<usb, xmodem, modbus, esp01s, dfplayer>>

(* The fairness of each module, of the steps its unit takes.               *)
Fairness ==
  /\ WF_usb(unit = "usb" /\ B!SysTick)
  /\ WF_xmodem(unit = "xmodem" /\ X!Handle) /\ WF_xmodem(unit = "xmodem" /\ X!Quiet /\ X!Poll)
  /\ WF_xmodem(unit = "xmodem" /\ X!Arrive) /\ WF_xmodem(unit = "xmodem" /\ X!Configurator)
  /\ WF_esp01s(unit = "esp01s" /\ E!Worker) /\ WF_esp01s(unit = "esp01s" /\ E!Answer)
  /\ WF_dfplayer(unit = "dfplayer" /\ D!Process) /\ SF_dfplayer(unit = "dfplayer" /\ D!Process /\ sm' # sm)
  /\ WF_dfplayer(unit = "dfplayer" /\ ~ idle /\ D!Line)
  /\ WF_uart(unit = "uart" /\ U!SysTick)

Spec == Init /\ [][Next]_vars /\ Fairness

-----------------------------------------------------------------------------
(* Properties *)

(* Of the USB device driver: the process reads the bytes in order, and is  *)
(* told of a part of a request when the host stops.                        *)
ReadInOrder == B!ReadInOrder
PartReported == B!PartReported

(* Of xmodem_handle: a file that is received is complete and in order, and *)
(* a transfer ends.                                                        *)
NoneMissing == X!NoneMissing
InOrder == X!InOrder
Finishes == X!Finishes

(* Of modbus_slave_process: an answer is that of the request, and what is  *)
(* written reads back.                                                     *)
OwnAnswer == M!OwnAnswer
ReadsBack == M!ReadsBack

(* Of ESP01S_Worker: a reply is that of the command it is taken for, and a *)
(* list of commands ends.                                                  *)
OwnReply == E!OwnReply
ListFinishes == unit = "esp01s" => E!ListFinishes

(* Of DfPlayer_state_machine: what is sent for a command is that of its    *)
(* own call, and it is sent some time.                                     *)
NotErased == D!NotErased
CommandDone == D!CommandDone

(* Of the UART driver: every character is in one packet, a pause shorter   *)
(* than the timeout does not end one, and a packet that pauses is reported *)
(* unless the one before it was full.                                      *)
CharsKept == U!CharsKept
TimeoutNotEarly == U!TimeoutNotEarly
DeliveredUnlessFull == U!DeliveredUnlessFull
=============================================================================
