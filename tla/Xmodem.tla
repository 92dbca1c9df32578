-------------------------------- MODULE Xmodem --------------------------------
(***************************************************************************)
(* A file transfer: the configurator that sends the blocks, the line, and  *)
(* the process that polls, takes a block from its only receive buffer,     *)
(* stores it and answers. No answer names its block and the receiver does  *)
(* not compare block numbers, so what the file becomes depends on how many *)
(* blocks and answers are under way. The three EOTs of the configurator,   *)
(* which the USB driver reports as one packet and the UART driver as       *)
(* packets of one character, are one here.                                 *)
(***************************************************************************)
EXTENDS Integers, Sequences

CONSTANTS
  Blocks,     \* the blocks of the file
  Areas,      \* the sizes of the receive area, in blocks
  Links,      \* "UART", "USB"
  Downloads,  \* bound: files sent
  MaxFaults,  \* bound: blocks and answers lost or damaged
  MaxEarly,   \* bound: timeouts and polls while something is under way
  Beyond      \* bound: blocks behind the area that are looked at

VARIABLES
  link,     \* how the two are connected
  area,     \* requested_data_count
  pc,       \* what the configurator waits for
  block,    \* the block it sends
  sent,     \* history: files sent
  down, up, \* what is on the line to the device and from it
  buf,      \* the receive buffer
  woken,    \* the process has an event to handle
  enable, poll,
  stored,   \* the blocks at requested_data_ptr, up to data_ptr
  session,  \* history: what was stored when the last session ended
  faults, early,
  misheard, \* history: an answer was lost, damaged or not looked at
  surplus,  \* history: a block was sent while something was under way
  appended  \* history: a file was sent while the one before was still open

bounds  == <<faults, early>>
history == <<misheard, surplus, appended>>
pcs     == <<pc, block, sent>>
device  == <<buf, woken, enable, poll, stored, session>>
vars    == <<link, area, pcs, down, up, device, bounds, history>>

(* A packet is a block, with its number, or of another kind.               *)
Block(n)  == [kind |-> "block", n |-> n]
Packet(k) == [kind |-> k, n |-> 0]

Init ==
  /\ link \in Links /\ area \in Areas
  /\ pc = "idle" /\ block = 0 /\ sent = 0
  /\ down = <<>> /\ up = <<>>
  /\ buf = Packet("none") /\ woken = FALSE
  /\ enable = (link = "UART") /\ poll = TRUE
  /\ stored = <<>> /\ session = <<>>
  /\ faults = 0 /\ early = 0
  /\ misheard = FALSE /\ surplus = FALSE /\ appended = FALSE

-----------------------------------------------------------------------------
(* The device. Definitions named Mut... are defects a change to the code   *)
(* could bring in: see module Scheduler.                                   *)

(* xmodem_rx_line_parser: the packet it stores, and the answer.            *)
MutAccepted(f) == f.kind = "block" /\ (stored = <<>> \/ f.n > stored[Len(stored)])
MutUnchecked(f) == f.kind \in {"block", "junk"}
Accepted(f) == f.kind = "block"

Store(f) ==
  /\ stored' = IF Accepted(f) /\ Len(stored) < area + Beyond THEN Append(stored, f.n) ELSE stored
  /\ up' = Append(up, IF Accepted(f) /\ Len(stored') < area THEN "ACK" ELSE "NAK")
  /\ UNCHANGED session

(* sample_process_1_uart_xmodem and xmodem_uart_data_process. A packet of  *)
(* one character, as EOT is, gets neither an answer nor the end of the     *)
(* session; a command is taken for a damaged block when poll is off.       *)
HandleUart ==
  /\ poll' = (poll /\ buf.kind \in {"CMD", "EOT"})
  /\ IF buf.kind = "EOT" \/ (buf.kind = "CMD" /\ poll)
     THEN UNCHANGED <<up, stored, session>>
     ELSE Store(buf)
  /\ UNCHANGED enable

(* sample_process_1_usb_xmodem and xmodem_usb_data_process. Polling is the *)
(* mode too: the first packet is answered with NAK unread.                 *)
HandleUsb ==
  IF buf.kind = "CMD"
  THEN /\ enable' = TRUE /\ poll' = TRUE
       /\ UNCHANGED <<up, stored, session>>
  ELSE /\ enable' = (poll \/ buf.kind # "EOT")
       /\ poll' = FALSE
       /\ CASE poll -> up' = Append(up, "NAK") /\ UNCHANGED <<stored, session>>
            [] ~ poll /\ buf.kind # "EOT" -> Store(buf)
            [] OTHER -> up' = Append(up, "ACK") /\ session' = stored /\ stored' = <<>>

Handle ==
  /\ woken /\ woken' = FALSE
  /\ IF link = "UART" THEN HandleUart ELSE HandleUsb
  /\ UNCHANGED <<link, area, pcs, down, buf, bounds, history>>

Quiet == down = <<>> /\ ~ woken /\ up = <<>>

(* What is done while something is under way is bounded.                   *)
Hurried == IF Quiet THEN UNCHANGED early
           ELSE early < MaxEarly /\ early' = early + 1

(* The timer of the process asks for a file.                               *)
Polling == enable /\ poll

Poll ==
  /\ Polling /\ up = <<>>
  /\ Hurried
  /\ up' = <<"NAK">>
  /\ UNCHANGED <<link, area, pcs, down, device, faults, history>>

-----------------------------------------------------------------------------
(* The line. The interrupt writes a packet over the one before it.         *)

Arrive ==
  /\ down # <<>>
  /\ buf' = Head(down) /\ woken' = TRUE
  /\ down' = Tail(down)
  /\ UNCHANGED <<link, area, pcs, up, enable, poll, stored, session, bounds, history>>

Damage ==
  /\ link = "UART" /\ faults < MaxFaults
  /\ faults' = faults + 1
  /\ \/ /\ down # <<>> /\ down' \in {Tail(down), <<Packet("junk")>> \o Tail(down)}
        /\ UNCHANGED <<up, misheard>>
     \/ /\ up # <<>> /\ up' \in {Tail(up), <<"junk">> \o Tail(up)}
        /\ misheard' = TRUE
        /\ UNCHANGED down
  /\ UNCHANGED <<link, area, pcs, device, early, surplus, appended>>

-----------------------------------------------------------------------------
(* The configurator.                                                       *)

(* on_SetTargetRX_pushButton_clicked                                       *)
Command ==
  /\ pc = "idle" /\ down = <<>> /\ Len(up) < 2
  /\ down' = <<Packet("CMD")>>
  /\ UNCHANGED <<link, area, pcs, up, device, bounds, history>>

(* on_Download_pushButton_clicked                                          *)
Download ==
  /\ pc = "idle" /\ down = <<>> /\ sent < Downloads
  /\ pc' = "start" /\ sent' = sent + 1 /\ block' = 1
  /\ appended' = (appended \/ (stored # <<>> /\ ~ (woken /\ buf.kind = "EOT")))
  /\ UNCHANGED <<link, area, down, up, device, bounds, misheard, surplus>>

(* serial_rx: the first answer counts, those that came with it are lost.   *)
Read(kinds) ==
  /\ up # <<>> /\ Head(up) \in kinds
  /\ \E n \in 1 .. Len(up) :
       /\ up' = SubSeq(up, n + 1, Len(up))
       /\ misheard' = (misheard \/ n > 1)

Send(f) ==
  /\ down' = Append(down, f)
  /\ surplus' = (surplus \/ down # <<>> \/ woken \/ up' # <<>>)

Start ==
  /\ pc = "start"
  /\ Read({"NAK", "ACK", "junk"})
  /\ IF Head(up) = "NAK" THEN pc' = "answer" /\ Send(Block(1))
                         ELSE UNCHANGED <<pc, down, surplus>>
  /\ UNCHANGED <<link, area, block, sent, device, bounds, appended>>

MutConfirms == {"ACK", "junk"}
Confirms == {"ACK"}

Proceed ==
  /\ pc = "answer"
  /\ Read(Confirms)
  /\ IF block = Blocks
     THEN pc' = "idle" /\ UNCHANGED block /\ Send(Packet("EOT"))
     ELSE UNCHANGED pc /\ block' = block + 1 /\ Send(Block(block + 1))
  /\ UNCHANGED <<link, area, sent, device, bounds, appended>>

Retry ==
  /\ pc = "answer"
  /\ Read({"ACK", "NAK", "junk"} \ Confirms)
  /\ Send(Block(block))
  /\ UNCHANGED <<link, area, pcs, device, bounds, appended>>

Timeout ==
  /\ pc = "answer"
  /\ Hurried
  /\ UNCHANGED up
  /\ Send(Block(block))
  /\ UNCHANGED <<link, area, pcs, device, faults, misheard, appended>>

Configurator == Start \/ Proceed \/ Retry \/ (Quiet /\ Timeout)

Next ==
  \/ Handle \/ Poll
  \/ Arrive \/ Damage
  \/ Command \/ Download \/ Start \/ Proceed \/ Retry \/ Timeout

(* The timer of the device, the line, the process and the configurator go  *)
(* on; the user need not.                                                  *)
Fairness ==
  /\ WF_vars(Handle) /\ WF_vars(Quiet /\ Poll) /\ WF_vars(Arrive)
  /\ WF_vars(Configurator)

Spec == Init /\ [][Next]_vars /\ Fairness

-----------------------------------------------------------------------------
(* Properties *)

Stored == {stored[i] : i \in DOMAIN stored}
Ended  == {session[i] : i \in DOMAIN session}

(* No block the configurator has gone past is missing, whatever the line   *)
(* loses or damages, as long as it sends nothing while something is under  *)
(* way: then an answer may be for another block than the one it confirms.  *)
NoneMissing ==
  ~ surplus =>
    CASE pc = "answer" -> 1 .. block - 1 \subseteq Stored
      [] pc = "idle" /\ sent > 0 -> 1 .. Blocks \subseteq Stored \/ 1 .. Blocks \subseteq Ended
      [] OTHER -> TRUE

(* The blocks in the area are in their order, and one is there twice only  *)
(* if an answer did not get through. (The block that fills the area is     *)
(* refused, and comes again behind it.)                                    *)
InOrder ==
  ~ surplus /\ ~ appended =>
    \A i \in 2 .. Len(stored) : i <= area =>
      stored[i - 1] < stored[i] \/ (misheard /\ stored[i - 1] = stored[i])

(* A file that is being sent arrives, if the line fails finitely often,    *)
(* unless the area is used up: from then on every block is refused.        *)
Finishes == pc = "answer" ~> (pc = "idle" \/ Len(stored) >= area)
=============================================================================
