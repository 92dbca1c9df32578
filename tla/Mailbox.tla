------------------------------- MODULE Mailbox ---------------------------------
(***************************************************************************)
(* The mailboxes of one process: the senders, preempted between any two    *)
(* stores of mbx_send, and the receiver, which waits for EVENT_MBX or      *)
(* another event, takes its flags and looks into each mailbox once. The    *)
(* scheduler is reduced to what wait_event, activate_process and           *)
(* get_wakeup_flags do to wakeup_rsn: see module EventFlags.               *)
(***************************************************************************)
EXTENDS Integers, Sequences

CONSTANTS
  Senders,
  Count,       \* MAILBOX_NUM
  MaxEvents    \* bound: messages sent and other events

VARIABLES
  mbx, mbx_size, mbx_bits,
  wakeup_rsn,
  send,        \* per sender: the stores still to do, mailbox, message, bits
  todo, cur,   \* the steps of the receiver, and the mailbox it looks at
  reg,         \* what the receiver has loaded
  sent, other, \* history: messages sent, other events raised
  taken,       \* history: the message copied, and the size returned
  mixed,       \* history: the mailboxes a send was in together with another
               \* send, a receive or a message, and those whose bit came back
               \* with the store of a read-modify-write of mbx_bits
  hidden       \* history: EVENT_MBX was cleared with a message in another
               \* mailbox, or an event came between its load and its store

boxes   == <<mbx, mbx_size, mbx_bits>>
history == <<sent, other, taken, mixed, hidden>>
vars    == <<boxes, wakeup_rsn, send, todo, cur, reg, history>>

Boxes == 0 .. Count - 1
Free  == [todo |-> <<>>, box |-> 0, msg |-> 0, bits |-> {}]

Init ==
  /\ mbx = [m \in Boxes |-> 0] /\ mbx_size = [m \in Boxes |-> 0] /\ mbx_bits = {}
  /\ wakeup_rsn = {} /\ send = [s \in Senders |-> Free]
  /\ todo = <<>> /\ cur = 0 /\ reg = [rsn |-> {}, bits |-> {}]
  /\ sent = 0 /\ other = 0 /\ taken = <<0, 0>> /\ mixed = {} /\ hidden = FALSE

-----------------------------------------------------------------------------
(* Definitions named Mut... are defects a change to the code could bring   *)
(* in: see module Scheduler.                                               *)

(* The receiver holds a copy of wakeup_rsn or is about to decide on one.   *)
Receiving(m) == todo # <<>> /\ cur = m
InSend(m) == {s \in Senders : send[s].todo # <<>> /\ send[s].box = m}

(* mbx_send                                                                *)
MutStores == <<"load", "bits", "activate", "ptr", "size">>
Stores == <<"ptr", "size", "load", "bits", "activate">>

Send(s, m) ==
  /\ send[s].todo = <<>> /\ sent + other < MaxEvents
  /\ sent' = sent + 1
  /\ send' = [send EXCEPT ![s] = [todo |-> Stores, box |-> m, msg |-> sent', bits |-> {}]]
  /\ mixed' = IF InSend(m) # {} \/ Receiving(m) \/ m \in mbx_bits THEN mixed \cup {m}
              ELSE mixed
  /\ UNCHANGED <<boxes, wakeup_rsn, todo, cur, reg, other, taken, hidden>>

Store(s) ==
  /\ send[s].todo # <<>>
  /\ LET x == send[s]
         do == Head(x.todo)
     IN /\ send' = [send EXCEPT ![s] =
                      IF Len(x.todo) = 1 THEN Free
                      ELSE [x EXCEPT !.todo = Tail(@),
                                     !.bits = IF do = "load" THEN mbx_bits ELSE @]]
        /\ mbx' = IF do = "ptr" THEN [mbx EXCEPT ![x.box] = x.msg] ELSE mbx
        /\ mbx_size' = IF do = "size" THEN [mbx_size EXCEPT ![x.box] = x.msg] ELSE mbx_size
        /\ mbx_bits' = IF do = "bits" THEN x.bits \cup {x.box} ELSE mbx_bits
        /\ wakeup_rsn' = IF do = "activate" THEN wakeup_rsn \cup {"MBX"} ELSE wakeup_rsn
        /\ mixed' = mixed \cup (IF Receiving(x.box) THEN {x.box} ELSE {})
                         \cup (IF do = "bits" THEN x.bits \ mbx_bits ELSE {})
        /\ hidden' = (hidden \/ (do = "activate" /\ todo # <<>> /\ Head(todo) = "rsn")
                             \/ (do = "bits" /\ (mbx_bits # x.bits \/ (todo # <<>> /\ Head(todo) = "bits"))))
  /\ UNCHANGED <<todo, cur, reg, sent, other, taken>>

(* An interrupt raises another event.                                      *)
Irq ==
  /\ sent + other < MaxEvents /\ other' = other + 1
  /\ wakeup_rsn' = wakeup_rsn \cup {"OTHER"}
  /\ hidden' = (hidden \/ (todo # <<>> /\ Head(todo) = "rsn"))
  /\ UNCHANGED <<boxes, send, todo, cur, reg, sent, taken, mixed>>

(* wait_event returns, and get_wakeup_flags takes the reasons.             *)
WaitEvent ==
  /\ todo = <<>> /\ wakeup_rsn # {}
  /\ wakeup_rsn' = {}
  /\ todo' = <<"test">> /\ cur' = 0
  /\ UNCHANGED <<boxes, send, reg, history>>

(* mbx_receive, once for each mailbox.                                     *)
Leave ==
  IF cur = Count - 1 THEN todo' = <<>> /\ cur' = 0
                     ELSE todo' = <<"test">> /\ cur' = cur + 1

Taken == <<"copy", "rsn?", "rsn", "bits?", "bits", "size">>

Test ==
  /\ todo # <<>> /\ Head(todo) = "test"
  /\ IF cur \in mbx_bits THEN todo' = Taken /\ UNCHANGED cur ELSE Leave
  /\ UNCHANGED <<boxes, wakeup_rsn, send, reg, history>>

MutKept(m) == reg.bits
Kept(m) == reg.bits \ {m}
Receive ==
  /\ todo # <<>> /\ Head(todo) # "test"
  /\ LET do == Head(todo)
     IN /\ reg' = CASE do = "rsn?" -> [reg EXCEPT !.rsn = wakeup_rsn]
                    [] do = "bits?" -> [reg EXCEPT !.bits = mbx_bits]
                    [] do \in {"rsn", "bits"} -> [rsn |-> {}, bits |-> {}]
                    [] OTHER -> reg
        /\ wakeup_rsn' = IF do = "rsn" THEN reg.rsn \ {"MBX"} ELSE wakeup_rsn
        /\ mbx_bits' = IF do = "bits" THEN Kept(cur) ELSE mbx_bits
        /\ taken' = CASE do = "copy" -> <<mbx[cur], mbx_size[cur]>>
                      [] do = "size" -> <<taken[1], mbx_size[cur]>>
                      [] OTHER -> taken
        /\ hidden' = (hidden \/ (do = "rsn" /\ "MBX" \in reg.rsn /\ mbx_bits # {cur}))
        /\ mixed' = IF do = "bits" THEN mixed \cup (Kept(cur) \ mbx_bits) ELSE mixed
  /\ IF Len(todo) = 1 THEN Leave ELSE todo' = Tail(todo) /\ UNCHANGED cur
  /\ UNCHANGED <<mbx, mbx_size, send, sent, other>>

Receiver == WaitEvent \/ Test \/ Receive

Next ==
  \/ \E s \in Senders : Store(s) \/ \E m \in Boxes : Send(s, m)
  \/ Irq
  \/ Receiver

Spec == Init /\ [][Next]_vars

-----------------------------------------------------------------------------
(* Properties *)

(* The receiver gets the pointer and the size of one message, unless a     *)
(* send to the mailbox met another one, a receive, or a message not yet    *)
(* received, or its bit was brought back by a send to another mailbox or a *)
(* receive that had loaded mbx_bits before it was cleared.                 *)
MessageWhole ==
  [][taken' # taken /\ cur \notin mixed => taken'[1] = taken'[2]]_vars

(* No message is left in its mailbox while the receiver sleeps without a   *)
(* reason to wake, unless mbx_receive cleared EVENT_MBX for another one    *)
(* too, or one of the read-modify-writes of wakeup_rsn and mbx_bits was    *)
(* interrupted by another.                                                 *)
Left(m) == m \in mbx_bits /\ todo = <<>> /\ "MBX" \notin wakeup_rsn

Activates(m) == \E s \in InSend(m) : send[s].todo = <<"activate">>

NoneLeft == ~ hidden => \A m \in Boxes : Left(m) => Activates(m)
=============================================================================
