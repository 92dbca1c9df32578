------------------------------- MODULE MCDevices -------------------------------
(* An instance of Devices for TLC.                                         *)
EXTENDS Devices

Area(op, first, size) == [op |-> op, at |-> first, size |-> size]
FlashImages ==
  {Area("write", 0, 4), Area("write", 2, 3), Area("write", 3, 4), Area("write", 6, 2), Area("write", 6, 3),
   Area("erase", 0, 2), Area("erase", 6, 4)}

Request(kind, addr, len) == [kind |-> kind, addr |-> addr, len |-> len]
QspiRequests ==
  <<{Request("read", 1, 3), Request("id", 0, 0)},
    {Request("write", 1, 2), Request("block", 1, 2), Request("erase", 1, 1), Request("chip", 0, 0)}>>

(* The two senders do the same: the first message is sent by the first.    *)
FirstSender == unit = "mailbox" /\ sent = 0 => send'[2] = send[2]
MCSpec == Init /\ [][Next /\ FirstSender]_vars /\ Fairness
=============================================================================
