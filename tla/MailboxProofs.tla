----------------------------- MODULE MailboxProofs -----------------------------
(***************************************************************************)
(* Proofs about the mailboxes of one process, for every number of senders, *)
(* mailboxes and messages.                                                 *)
(***************************************************************************)
EXTENDS Mailbox, TLAPS

(* What a sender and the receiver can still have to do.                    *)
StoresLeft == {<<>>, <<"activate">>, <<"bits", "activate">>, <<"load", "bits", "activate">>,
               <<"size", "load", "bits", "activate">>, Stores}
StepsLeft == {<<>>, <<"test">>, <<"size">>, <<"bits", "size">>, <<"bits?", "bits", "size">>,
              <<"rsn", "bits?", "bits", "size">>, <<"rsn?", "rsn", "bits?", "bits", "size">>,
              Taken}


(* The statements of mbx_send in the order they are executed, counted      *)
(* backwards, ...                                                          *)
LEMMA StoreOrder ==
  ASSUME NEW q \in StoresLeft
  PROVE  /\ Len(q) \in 0 .. 5
         /\ (q = <<>>) = (Len(q) = 0)
         /\ (q = <<"activate">>) = (Len(q) = 1)
         /\ Len(q) > 0 => /\ Tail(q) \in StoresLeft /\ Len(Tail(q)) = Len(q) - 1
                          /\ (Head(q) = "ptr") = (Len(q) = 5)
                          /\ (Head(q) = "size") = (Len(q) = 4)
                          /\ (Head(q) = "load") = (Len(q) = 3)
                          /\ (Head(q) = "bits") = (Len(q) = 2)
                          /\ (Head(q) = "activate") = (Len(q) = 1)
<1> USE DEF StoresLeft
<1>1. CASE q = <<>>
  BY <1>1
<1>2. CASE q = <<"activate">>
  BY <1>2
<1>3. CASE q = <<"bits", "activate">>
  BY <1>3
<1>4. CASE q = <<"load", "bits", "activate">>
  BY <1>4
<1>5. CASE q = <<"size", "load", "bits", "activate">>
  BY <1>5
<1>6. CASE q = Stores
  BY <1>6 DEF Stores
<1> QED BY <1>1, <1>2, <1>3, <1>4, <1>5, <1>6

(* ... and those of mbx_receive.                                           *)
LEMMA StepOrder ==
  ASSUME NEW q \in StepsLeft, q # <<>>
  PROVE  /\ Head(q) \in {"test", "copy", "rsn?", "rsn", "bits?", "bits", "size"}
         /\ (Len(q) = 1) = (Head(q) \in {"test", "size"})
         /\ Len(q) # 1 => /\ Tail(q) \in StepsLeft /\ Tail(q) # <<>>
                          /\ Head(q) = "copy" => Head(Tail(q)) = "rsn?"
                          /\ Head(q) = "rsn?" => Head(Tail(q)) = "rsn"
                          /\ Head(q) = "rsn" => Head(Tail(q)) = "bits?"
                          /\ Head(q) = "bits?" => Head(Tail(q)) = "bits"
                          /\ Head(q) = "bits" => Head(Tail(q)) = "size"
<1> USE DEF StepsLeft
<1>1. CASE q = <<"test">>
  BY <1>1
<1>2. CASE q = <<"size">>
  BY <1>2
<1>3. CASE q = <<"bits", "size">>
  BY <1>3
<1>4. CASE q = <<"bits?", "bits", "size">>
  BY <1>4
<1>5. CASE q = <<"rsn", "bits?", "bits", "size">>
  BY <1>5
<1>6. CASE q = <<"rsn?", "rsn", "bits?", "bits", "size">>
  BY <1>6
<1>7. CASE q = Taken
  BY <1>7 DEF Taken
<1> QED BY <1>1, <1>2, <1>3, <1>4, <1>5, <1>6, <1>7

(* Where both begin.                                                       *)
LEMMA Orders ==
  /\ Stores \in StoresLeft /\ Len(Stores) = 5 /\ Stores # <<>>
  /\ Taken \in StepsLeft /\ Taken # <<>> /\ Head(Taken) = "copy"
  /\ <<"test">> \in StepsLeft /\ <<"test">> # <<>> /\ Head(<<"test">>) = "test"
  /\ <<>> \in StepsLeft /\ <<>> \in StoresLeft /\ Len(<<>>) = 0
BY DEF StoresLeft, StepsLeft, Stores, Taken

-----------------------------------------------------------------------------
TypeOK ==
  /\ mbx \in [Boxes -> Nat] /\ mbx_size \in [Boxes -> Nat] /\ mbx_bits \subseteq Boxes
  /\ send \in [Senders -> [todo : StoresLeft, box : Boxes, msg : Nat, bits : SUBSET Boxes]]
  /\ todo \in StepsLeft /\ cur \in Boxes
  /\ reg.bits \subseteq Boxes /\ DOMAIN reg = {"rsn", "bits"}
  /\ sent \in Nat

(* All mailboxes are empty at first.                                       *)
LEMMA InitTypeOK ==
  ASSUME Count \in Nat \ {0}, Init
  PROVE  TypeOK
<1>1. 0 \in Boxes
  BY DEF Boxes
<1>2. Free \in [todo : StoresLeft, box : Boxes, msg : Nat, bits : SUBSET Boxes]
  BY <1>1, Orders DEF Free
<1> QED BY <1>1, <1>2, Orders DEF Init, TypeOK

(* What a step of a sender does to its record.                             *)
LEMMA StoreSteps ==
  ASSUME TypeOK, NEW s \in Senders, Store(s), Count \in Nat \ {0}
  PROVE  /\ send[s].todo \in StoresLeft /\ send[s].box \in Boxes
         /\ Len(send[s].todo) \in 1 .. 5
         /\ send'[s] \in [todo : StoresLeft, box : Boxes, msg : Nat, bits : SUBSET Boxes]
         /\ Len(send'[s].todo) = Len(send[s].todo) - 1
         /\ Len(send[s].todo) > 1 => send'[s].box = send[s].box /\ send'[s].msg = send[s].msg
         /\ \A t \in Senders \ {s} : send'[t] = send[t]
         /\ send' = [send EXCEPT ![s] = send'[s]]
<1> DEFINE x == send[s]
           R == [todo : StoresLeft, box : Boxes, msg : Nat, bits : SUBSET Boxes]
           y == IF Len(x.todo) = 1 THEN Free
                ELSE [x EXCEPT !.todo = Tail(@),
                               !.bits = IF Head(x.todo) = "load" THEN mbx_bits ELSE @]
<1>1. x \in R /\ x.todo # <<>> /\ x.todo \in StoresLeft /\ x.box \in Boxes
  BY DEF TypeOK, Store
<1>2. Len(x.todo) \in 1 .. 5 /\ Tail(x.todo) \in StoresLeft /\ Len(Tail(x.todo)) = Len(x.todo) - 1
  BY <1>1, StoreOrder
<1>3. send' = [send EXCEPT ![s] = y] /\ send'[s] = y
  BY DEF Store, TypeOK
<1>4. /\ y \in R /\ Len(y.todo) = Len(x.todo) - 1
      /\ Len(x.todo) > 1 => y.box = x.box /\ y.msg = x.msg
  <2>1. CASE Len(x.todo) = 1
    <3>1. y = Free /\ Free \in R /\ Len(Free.todo) = 0
      BY <2>1, Orders DEF Free, Boxes
    <3> QED BY <2>1, <3>1
  <2>2. CASE Len(x.todo) # 1
    <3> DEFINE b == IF Head(x.todo) = "load" THEN mbx_bits ELSE x.bits
    <3>1. b \in SUBSET Boxes
      BY <1>1 DEF TypeOK
    <3>2. y = [x EXCEPT !.todo = Tail(x.todo), !.bits = b]
      BY <2>2
    <3> HIDE DEF b
    <3>3. y \in R /\ y.todo = Tail(x.todo) /\ y.box = x.box /\ y.msg = x.msg
      BY <1>1, <1>2, <3>1, <3>2
    <3> QED BY <1>2, <3>3
  <2> QED BY <2>1, <2>2
<1>5. \A t \in Senders \ {s} : send'[t] = send[t]
  BY <1>3 DEF TypeOK
<1> HIDE DEF y
<1>6. send' = [send EXCEPT ![s] = send'[s]]
  BY <1>3
<1> QED BY <1>1, <1>2, <1>3, <1>4, <1>5, <1>6

(* What it stores.                                                         *)
LEMMA StoreEffects ==
  ASSUME TypeOK, NEW s \in Senders, Store(s), Count \in Nat \ {0}, NEW m \in Boxes
  PROVE  /\ send[s].box # m \/ Len(send[s].todo) \notin {4, 5}
              => mbx'[m] = mbx[m] /\ mbx_size'[m] = mbx_size[m]
         /\ send[s].box = m /\ Len(send[s].todo) = 5 => mbx'[m] = send[s].msg
         /\ send[s].box = m /\ Len(send[s].todo) = 4
              => mbx'[m] = mbx[m] /\ mbx_size'[m] = send[s].msg
         /\ Len(send[s].todo) # 2 => mbx_bits' = mbx_bits
         /\ Len(send[s].todo) = 2 => mbx_bits' = send[s].bits \cup {send[s].box}
         /\ Len(send[s].todo) # 1 => wakeup_rsn' = wakeup_rsn
         /\ Len(send[s].todo) = 1 => wakeup_rsn' = wakeup_rsn \cup {"MBX"}
<1> DEFINE x == send[s]
           do == Head(x.todo)
<1>1. /\ (do = "ptr") = (Len(x.todo) = 5) /\ (do = "size") = (Len(x.todo) = 4)
      /\ (do = "bits") = (Len(x.todo) = 2) /\ (do = "activate") = (Len(x.todo) = 1)
  BY StoreSteps, StoreOrder
<1>2. /\ mbx' = IF do = "ptr" THEN [mbx EXCEPT ![x.box] = x.msg] ELSE mbx
      /\ mbx_size' = IF do = "size" THEN [mbx_size EXCEPT ![x.box] = x.msg] ELSE mbx_size
      /\ mbx_bits' = IF do = "bits" THEN x.bits \cup {x.box} ELSE mbx_bits
      /\ wakeup_rsn' = IF do = "activate" THEN wakeup_rsn \cup {"MBX"} ELSE wakeup_rsn
  BY DEF Store
<1>3. DOMAIN mbx = Boxes /\ DOMAIN mbx_size = Boxes
  BY DEF TypeOK
<1> HIDE DEF do, x
<1>4. /\ x.box # m \/ Len(x.todo) \notin {4, 5} => mbx'[m] = mbx[m] /\ mbx_size'[m] = mbx_size[m]
      /\ x.box = m /\ Len(x.todo) = 5 => mbx'[m] = x.msg
      /\ x.box = m /\ Len(x.todo) = 4 => mbx'[m] = mbx[m] /\ mbx_size'[m] = x.msg
  BY <1>1, <1>2, <1>3
<1>5. /\ Len(x.todo) # 2 => mbx_bits' = mbx_bits
      /\ Len(x.todo) = 2 => mbx_bits' = x.bits \cup {x.box}
      /\ Len(x.todo) # 1 => wakeup_rsn' = wakeup_rsn
      /\ Len(x.todo) = 1 => wakeup_rsn' = wakeup_rsn \cup {"MBX"}
  BY <1>1, <1>2
<1> QED BY <1>4, <1>5 DEF x

(* Where the receiver goes.                                                *)
LEMMA LeaveSteps ==
  ASSUME Count \in Nat \ {0}, cur \in Boxes, Leave
  PROVE  /\ todo' \in StepsLeft /\ cur' \in Boxes
         /\ todo' # <<>> => Head(todo') = "test" /\ cur' = cur + 1
         /\ todo' = <<>> => cur = Count - 1
  BY Orders DEF Leave, Boxes

(* The statements of mbx_receive follow each other in their order.         *)
LEMMA ReceiveSteps ==
  ASSUME Count \in Nat \ {0}, TypeOK, Receive
  PROVE  /\ todo # <<>> /\ Head(todo) \in {"copy", "rsn?", "rsn", "bits?", "bits", "size"}
         /\ IF Head(todo) = "size" THEN Leave
            ELSE /\ todo' \in StepsLeft /\ cur' = cur /\ todo' # <<>>
                 /\ Head(todo) = "copy" => Head(todo') = "rsn?"
                 /\ Head(todo) = "rsn?" => Head(todo') = "rsn"
                 /\ Head(todo) = "rsn" => Head(todo') = "bits?"
                 /\ Head(todo) = "bits?" => Head(todo') = "bits"
                 /\ Head(todo) = "bits" => Head(todo') = "size"
<1>1. todo \in StepsLeft /\ todo # <<>> /\ Head(todo) # "test"
  BY DEF TypeOK, Receive
<1>2. /\ Head(todo) \in {"copy", "rsn?", "rsn", "bits?", "bits", "size"}
      /\ (Len(todo) = 1) = (Head(todo) = "size")
  BY <1>1, StepOrder
<1>3. (Len(todo) = 1 => Leave) /\ (Len(todo) # 1 => todo' = Tail(todo) /\ cur' = cur)
  BY DEF Receive
<1>4. ASSUME Len(todo) # 1
      PROVE  /\ todo' \in StepsLeft /\ todo' # <<>>
             /\ Head(todo) = "copy" => Head(todo') = "rsn?"
             /\ Head(todo) = "rsn?" => Head(todo') = "rsn"
             /\ Head(todo) = "rsn" => Head(todo') = "bits?"
             /\ Head(todo) = "bits?" => Head(todo') = "bits"
             /\ Head(todo) = "bits" => Head(todo') = "size"
  <2>1. /\ Tail(todo) \in StepsLeft /\ Tail(todo) # <<>>
        /\ Head(todo) = "copy" => Head(Tail(todo)) = "rsn?"
        /\ Head(todo) = "rsn?" => Head(Tail(todo)) = "rsn"
        /\ Head(todo) = "rsn" => Head(Tail(todo)) = "bits?"
        /\ Head(todo) = "bits?" => Head(Tail(todo)) = "bits"
        /\ Head(todo) = "bits" => Head(Tail(todo)) = "size"
    BY <1>1, <1>4, StepOrder
  <2>2. todo' = Tail(todo)
    BY <1>3, <1>4
  <2> QED BY <2>1, <2>2, Zenon
<1> QED BY <1>1, <1>2, <1>3, <1>4

(* Senders, receiver and interrupts keep the types.                        *)
LEMMA StepTypeOK ==
  ASSUME Count \in Nat \ {0}, TypeOK, [Next]_vars
  PROVE  TypeOK'
<1> USE DEF TypeOK
<1>1. ASSUME NEW s \in Senders, Store(s)
      PROVE  TypeOK'
  <2>1. /\ send'[s] \in [todo : StoresLeft, box : Boxes, msg : Nat, bits : SUBSET Boxes]
        /\ send' = [send EXCEPT ![s] = send'[s]] /\ send[s].box \in Boxes
    BY <1>1, StoreSteps
  <2>2. send[s].msg \in Nat /\ send[s].bits \subseteq Boxes
    OBVIOUS
  <2>3. mbx' \in [Boxes -> Nat] /\ mbx_size' \in [Boxes -> Nat] /\ mbx_bits' \subseteq Boxes
    BY <1>1, <2>1, <2>2 DEF Store
  <2> QED BY <1>1, <2>1, <2>3 DEF Store
<1>2. ASSUME NEW s \in Senders, NEW m \in Boxes, Send(s, m)
      PROVE  TypeOK'
  <2>1. /\ send' = [send EXCEPT ![s] = [todo |-> Stores, box |-> m, msg |-> sent', bits |-> {}]]
        /\ sent' \in Nat
    BY <1>2 DEF Send
  <2>2. [todo |-> Stores, box |-> m, msg |-> sent', bits |-> {}]
          \in [todo : StoresLeft, box : Boxes, msg : Nat, bits : SUBSET Boxes]
    BY <2>1, Orders
  <2> QED BY <1>2, <2>1, <2>2 DEF Send, boxes
<1>3. CASE Irq
  BY <1>3 DEF Irq, boxes
<1>4. CASE WaitEvent
  BY <1>4, Orders DEF WaitEvent, boxes, history, Boxes
<1>5. CASE Test
  <2>1. todo' \in StepsLeft /\ cur' \in Boxes
    BY <1>5, LeaveSteps, Orders DEF Test
  <2> QED BY <1>5, <2>1 DEF Test, boxes, history
<1>6. CASE Receive
  <2>1. todo' \in StepsLeft /\ cur' \in Boxes
    BY <1>6, ReceiveSteps, LeaveSteps
  <2>2. Kept(cur) \subseteq Boxes
    BY DEF Kept
  <2>3. mbx_bits' \subseteq Boxes
    BY <1>6, <2>2 DEF Receive
  <2>4. reg'.bits \subseteq Boxes /\ DOMAIN reg' = {"rsn", "bits"}
    BY <1>6 DEF Receive
  <2> QED BY <1>6, <2>1, <2>3, <2>4 DEF Receive
<1>7. CASE UNCHANGED vars
  BY <1>7 DEF vars, boxes, history
<1> QED BY <1>1, <1>2, <1>3, <1>4, <1>5, <1>6, <1>7 DEF Next, Receiver

-----------------------------------------------------------------------------
(* A mailbox that is not mixed: one sender at a time, whose bit is not set *)
(* before pointer and size are stored; they belong together except between *)
(* their two stores; and no send is at its stores while it is received.    *)
In(s, m) == send[s].box = m /\ Len(send[s].todo) > 0

Receives(m) == todo # <<>> /\ cur = m /\ Head(todo) # "test"

Pure(m) ==
  /\ \A s, t \in Senders : In(s, m) /\ In(t, m) => s = t
  /\ \A s \in Senders : In(s, m) /\ Len(send[s].todo) > 1 => m \notin mbx_bits /\ ~ Receives(m)
  /\ mbx[m] # mbx_size[m] => \E s \in Senders : In(s, m) /\ Len(send[s].todo) = 4
  /\ \A s \in Senders : In(s, m) /\ Len(send[s].todo) = 4 => mbx[m] = send[s].msg
  /\ Receives(m) /\ Head(todo) # "copy" => taken[1] = mbx[m]

PureInv == \A m \in Boxes : m \notin mixed => Pure(m)

(* No mailbox is in use at first.                                          *)
LEMMA InitPure ==
  ASSUME Count \in Nat \ {0}, Init
  PROVE  PureInv
  BY Orders DEF Init, PureInv, Pure, In, Receives, Free

(* Every step keeps what is said of the mailboxes that are not mixed after *)
(* it.                                                                     *)
LEMMA StepPure ==
  ASSUME Count \in Nat \ {0}, TypeOK, TypeOK', PureInv, [Next]_vars
  PROVE  PureInv'
<1> SUFFICES ASSUME NEW m \in Boxes, m \notin mixed'
             PROVE  Pure(m)'
  BY DEF PureInv, Boxes
<1>1. ASSUME NEW s \in Senders, Store(s)
      PROVE  Pure(m)'
  <2>1. /\ mixed \subseteq mixed' /\ todo' = todo /\ cur' = cur /\ taken' = taken
        /\ Receiving(send[s].box) => send[s].box \in mixed'
    BY <1>1 DEF Store
  <2>2. Pure(m)
    BY <2>1 DEF PureInv
  <2>3. /\ Len(send[s].todo) \in 1 .. 5 /\ send[s].box \in Boxes
        /\ Len(send'[s].todo) = Len(send[s].todo) - 1
        /\ Len(send[s].todo) > 1 => send'[s].box = send[s].box /\ send'[s].msg = send[s].msg
        /\ \A t \in Senders \ {s} : send'[t] = send[t]
    BY <1>1, StoreSteps
  <2>4. (Receives(m)' <=> Receives(m)) /\ (Head(todo)' = Head(todo))
    BY <2>1 DEF Receives
  <2>5. \A t \in Senders : In(t, m)' => In(t, m) /\ (t # s => Len(send'[t].todo) = Len(send[t].todo))
    BY <2>3 DEF In
  <2>6. CASE send[s].box = m
    <3>1. In(s, m) /\ ~ Receives(m)
      BY <2>1, <2>3, <2>6 DEF In, Receives, Receiving
    <3>2. \A t \in Senders : In(t, m) => t = s
      BY <3>1, <2>2 DEF Pure
    <3>4. Len(send'[s].todo) > 1 => m \notin mbx_bits'
      <4>1. SUFFICES ASSUME Len(send'[s].todo) > 1 PROVE m \notin mbx_bits'
        OBVIOUS
      <4>2. Len(send[s].todo) > 1 /\ Len(send[s].todo) # 2
        <5> DEFINE n == Len(send[s].todo)
                   k == Len(send'[s].todo)
        <5>1. n \in 1 .. 5 /\ k = n - 1 /\ k > 1
          BY <2>3, <4>1
        <5> HIDE DEF n, k
        <5>2. n > 1 /\ n # 2
          BY <5>1
        <5> QED BY <5>2 DEF n
      <4>3. m \notin mbx_bits
        BY <2>2, <3>1, <4>2 DEF Pure
      <4>4. mbx_bits' = mbx_bits
        BY <1>1, <4>2, StoreEffects
      <4> QED BY <4>3, <4>4
    <3>5. /\ mbx'[m] # mbx_size'[m] => In(s, m)' /\ Len(send'[s].todo) = 4
          /\ Len(send'[s].todo) = 4 => mbx'[m] = send'[s].msg
      <4>1. CASE Len(send[s].todo) = 5
        BY <1>1, <4>1, <2>3, <2>6, StoreEffects DEF In
      <4>2. CASE Len(send[s].todo) = 4
        <5>1. mbx[m] = send[s].msg
          BY <4>2, <2>2, <3>1 DEF Pure
        <5> QED BY <1>1, <4>2, <5>1, <2>3, <2>6, StoreEffects
      <4>3. CASE Len(send[s].todo) \notin {4, 5}
        <5>1. mbx'[m] = mbx[m] /\ mbx_size'[m] = mbx_size[m]
          BY <1>1, <4>3, StoreEffects
        <5>2. mbx[m] = mbx_size[m]
          BY <4>3, <2>2, <3>2 DEF Pure
        <5> QED BY <5>1, <5>2, <4>3, <2>3
      <4> QED BY <4>1, <4>2, <4>3
    <3> QED BY <2>4, <2>5, <3>1, <3>2, <3>4, <3>5 DEF Pure
  <2>7. CASE send[s].box # m
    <3>1. mbx'[m] = mbx[m] /\ mbx_size'[m] = mbx_size[m]
      BY <1>1, <2>7, StoreEffects
    <3>2. m \in mbx_bits' => m \in mbx_bits
      BY <1>1, <2>7 DEF Store
    <3>3. \A t \in Senders : In(t, m) => t # s /\ In(t, m)'
      BY <2>3, <2>7 DEF In
    <3>4. \A t \in Senders : In(t, m)' => t # s
      BY <2>5, <3>3
    <3>5. \A t \in Senders : In(t, m)' => In(t, m) /\ send'[t] = send[t]
      BY <2>3, <2>5, <3>4
    <3>6. \A t \in Senders : In(t, m) => In(t, m)' /\ send'[t] = send[t]
      BY <2>3, <3>3
    <3>7. \A t \in Senders : In(t, m)' /\ Len(send'[t].todo) > 1 => m \notin mbx_bits' /\ ~ Receives(m)'
      BY <2>2, <2>4, <3>2, <3>5 DEF Pure
    <3>8. mbx'[m] # mbx_size'[m] => \E t \in Senders : In(t, m)' /\ Len(send'[t].todo) = 4
      BY <2>2, <3>1, <3>6 DEF Pure
    <3>9. Receives(m)' /\ Head(todo)' # "copy" => taken'[1] = mbx'[m]
      BY <2>1, <2>2, <2>4, <3>1 DEF Pure
    <3>10. \A t \in Senders : In(t, m)' /\ Len(send'[t].todo) = 4 => mbx'[m] = send'[t].msg
      BY <2>2, <3>1, <3>5 DEF Pure
    <3>11. \A t, u \in Senders : In(t, m)' /\ In(u, m)' => t = u
      BY <2>2, <3>5 DEF Pure
    <3> QED BY <3>7, <3>8, <3>9, <3>10, <3>11 DEF Pure
  <2> QED BY <2>6, <2>7
<1>2. ASSUME NEW s \in Senders, NEW b \in Boxes, Send(s, b)
      PROVE  Pure(m)'
  <2>1. /\ mixed \subseteq mixed' /\ todo' = todo /\ cur' = cur /\ taken' = taken
        /\ mbx' = mbx /\ mbx_size' = mbx_size /\ mbx_bits' = mbx_bits
        /\ InSend(b) # {} \/ Receiving(b) \/ b \in mbx_bits => b \in mixed'
    BY <1>2 DEF Send, boxes
  <2>2. Pure(m)
    BY <2>1 DEF PureInv
  <2>3. /\ send[s].todo = <<>> /\ send'[s].todo = Stores /\ send'[s].box = b
        /\ \A t \in Senders \ {s} : send'[t] = send[t]
    BY <1>2 DEF Send, TypeOK
  <2>4. ~ In(s, m) /\ (In(s, m)' <=> b = m) /\ Len(send'[s].todo) = 5
    BY <2>3, Orders DEF In
  <2>5. (Receives(m)' <=> Receives(m)) /\ (Head(todo)' = Head(todo))
    BY <2>1 DEF Receives
  <2>6. CASE b = m
    <3>1. \A t \in Senders : ~ In(t, m)
      <4>1. \A t \in Senders : send[t].todo \in StoresLeft /\ (send[t].todo = <<>>) = (Len(send[t].todo) = 0)
        BY StoreOrder DEF TypeOK
      <4> QED BY <2>1, <2>6, <4>1 DEF In, InSend
    <3>2. m \notin mbx_bits /\ ~ Receives(m)
      BY <2>1, <2>6 DEF Receives, Receiving
    <3>3. \A t \in Senders : In(t, m)' => t = s
      BY <2>3, <3>1 DEF In
    <3>4. mbx[m] = mbx_size[m]
      BY <2>2, <3>1 DEF Pure
    <3> QED BY <2>1, <2>4, <2>5, <3>2, <3>3, <3>4 DEF Pure
  <2>7. CASE b # m
    <3>1. \A t \in Senders : In(t, m)' <=> In(t, m)
      BY <2>3, <2>4, <2>7 DEF In
    <3>2. \A t \in Senders : In(t, m) => send'[t] = send[t]
      BY <2>3, <2>4
    <3> QED BY <2>1, <2>2, <2>5, <3>1, <3>2 DEF Pure
  <2> QED BY <2>6, <2>7
<1>3. CASE Irq \/ WaitEvent \/ Test
  <2>1. mbx' = mbx /\ mbx_size' = mbx_size /\ mbx_bits' = mbx_bits /\ send' = send
        /\ mixed' = mixed /\ taken' = taken
    BY <1>3 DEF Irq, WaitEvent, Test, boxes, history
  <2>2. Pure(m)
    BY <2>1 DEF PureInv
  <2>3. Receives(m)' => \/ Receives(m) /\ todo' = todo
                        \/ m \in mbx_bits /\ Head(todo') = "copy"
    <3>1. CASE Irq
      BY <3>1 DEF Irq, Receives
    <3>2. CASE WaitEvent
      BY <3>2, Orders DEF WaitEvent, Receives
    <3>3. CASE Test
      BY <3>3, Orders, LeaveSteps DEF Test, Receives, TypeOK
    <3> QED BY <1>3, <3>1, <3>2, <3>3
  <2>4. \A t \in Senders : In(t, m)' <=> In(t, m)
    BY <2>1 DEF In
  <2> QED BY <2>1, <2>2, <2>3, <2>4 DEF Pure
<1>4. CASE Receive
  <2>1. /\ mbx' = mbx /\ mbx_size' = mbx_size /\ send' = send /\ mixed \subseteq mixed'
        /\ m \in mbx_bits' => m \in mbx_bits
    BY <1>4 DEF Receive, Kept
  <2>2. Pure(m)
    BY <2>1 DEF PureInv
  <2>3. Receives(m)' => Receives(m) /\ Head(todo') # "copy" /\ cur' = cur /\ Head(todo) # "size"
    BY <1>4, ReceiveSteps, LeaveSteps DEF Receives, TypeOK
  <2>4. Receives(m)' => taken'[1] = mbx[m]
    <3>1. CASE Head(todo) = "copy"
      BY <1>4, <2>3, <3>1 DEF Receive, Receives
    <3>2. CASE Head(todo) # "copy"
      <4>1. Receives(m)' => taken' = taken
        BY <1>4, <2>3, <3>2 DEF Receive
      <4> QED BY <2>2, <2>3, <3>2, <4>1 DEF Pure
    <3> QED BY <3>1, <3>2
  <2>5. \A t \in Senders : In(t, m)' <=> In(t, m)
    BY <2>1 DEF In
  <2> QED BY <2>1, <2>2, <2>3, <2>4, <2>5 DEF Pure
<1>5. CASE UNCHANGED vars
  <2>1. Pure(m)
    BY <1>5 DEF PureInv, vars, history
  <2> QED BY <1>5, <2>1 DEF vars, boxes, history, Pure, In, Receives
<1> QED BY <1>1, <1>2, <1>3, <1>4, <1>5 DEF Next, Receiver

(* The receiver gets the pointer and the size of one message, unless the   *)
(* mailbox is mixed.                                                       *)
LEMMA TakenWhole ==
  ASSUME Count \in Nat \ {0}, TypeOK, PureInv, [Next]_vars, taken' # taken, cur \notin mixed
  PROVE  taken'[1] = taken'[2]
<1>1. CASE Receive
  <2>1. todo # <<>> /\ Head(todo) # "test" /\ Receives(cur) /\ Head(todo) \in {"copy", "size"}
    BY <1>1 DEF Receive, Receives
  <2>2. Pure(cur)
    BY DEF PureInv, TypeOK
  <2>3. mbx[cur] = mbx_size[cur]
    <3>1. ASSUME NEW s \in Senders, In(s, cur), Len(send[s].todo) = 4
          PROVE  FALSE
      <4>1. Len(send[s].todo) > 1
        BY <3>1
      <4>2. In(s, cur) /\ Len(send[s].todo) > 1 => ~ Receives(cur)
        BY <2>2, Zenon DEF Pure
      <4> QED BY <2>1, <3>1, <4>1, <4>2, Zenon
    <3> QED BY <2>2, <3>1 DEF Pure
  <2>4. CASE Head(todo) = "copy"
    BY <1>1, <2>3, <2>4 DEF Receive
  <2>5. CASE Head(todo) = "size"
    BY <1>1, <2>1, <2>2, <2>3, <2>5 DEF Receive, Pure
  <2> QED BY <2>1, <2>4, <2>5
<1>2. Receive \/ taken' = taken
  BY DEF Next, Receiver, Store, Send, Irq, WaitEvent, Test, history, vars
<1> QED BY <1>1, <1>2

(* The receiver gets the pointer and the size of one message, however many *)
(* senders use the mailboxes and wherever they are preempted, unless the   *)
(* mailbox is mixed.                                                       *)
THEOREM ReceivesWhole ==
  ASSUME Count \in Nat \ {0}
  PROVE  Spec => MessageWhole
<1>1. Init => TypeOK /\ PureInv
  BY InitTypeOK, InitPure
<1>2. TypeOK /\ PureInv /\ [Next]_vars => TypeOK' /\ PureInv'
  BY StepTypeOK, StepPure
<1>3. TypeOK /\ PureInv /\ [Next]_vars
        => [taken' # taken /\ cur \notin mixed => taken'[1] = taken'[2]]_vars
  BY TakenWhole
<1> QED BY <1>1, <1>2, <1>3, PTL DEF Spec, MessageWhole

-----------------------------------------------------------------------------
(* As long as no read-modify-write has hidden anything, every message has  *)
(* its reason recorded, or a sender will record it, or the receiver will   *)
(* come to its mailbox before it sleeps again.                             *)
Ahead(m) == todo # <<>> /\ (cur < m \/ (cur = m /\ Head(todo) # "size"))

Known(m) == "MBX" \in wakeup_rsn \/ Activates(m) \/ Ahead(m)

KnownInv ==
  ~ hidden =>
    /\ todo # <<>> /\ Head(todo) = "rsn" => reg.rsn = wakeup_rsn
    /\ todo # <<>> /\ Head(todo) = "bits" => reg.bits = mbx_bits
    /\ \A m \in mbx_bits : Known(m)

(* A receiver that leaves a mailbox goes to all that are behind it.        *)
LEMMA LastLeft ==
  ASSUME Count \in Nat \ {0}, cur \in Boxes, Leave, NEW m \in Boxes, cur < m
  PROVE  Ahead(m)'
<1>1. cur # Count - 1
  BY DEF Boxes
<1>2. todo' # <<>> /\ Head(todo') = "test" /\ cur' = cur + 1
  BY <1>1, LeaveSteps
<1>3. cur + 1 < m \/ cur + 1 = m
  BY DEF Boxes
<1> QED BY <1>2, <1>3 DEF Ahead

(* At first there is no message.                                           *)
LEMMA InitKnown == Init => KnownInv
  BY DEF Init, KnownInv

(* Every step keeps what is known of the messages.                         *)
LEMMA StepKnown ==
  ASSUME Count \in Nat \ {0}, TypeOK, TypeOK', KnownInv, [Next]_vars
  PROVE  KnownInv'
<1> SUFFICES ASSUME ~ hidden'
             PROVE  /\ todo' # <<>> /\ Head(todo') = "rsn" => reg'.rsn = wakeup_rsn'
                    /\ todo' # <<>> /\ Head(todo') = "bits" => reg'.bits = mbx_bits'
                    /\ \A m \in mbx_bits' : Known(m)'
  BY DEF KnownInv
<1>1. ASSUME NEW s \in Senders, Store(s)
      PROVE  KnownInv'
  <2> DEFINE do == Head(send[s].todo)
             b == send[s].box
  <2>1. /\ todo' = todo /\ cur' = cur /\ reg' = reg /\ ~ hidden
        /\ do = "activate" => ~ (todo # <<>> /\ Head(todo) = "rsn")
        /\ do = "bits" => mbx_bits = send[s].bits /\ ~ (todo # <<>> /\ Head(todo) = "bits")
    BY <1>1 DEF Store
  <2>2. /\ send[s].todo \in StoresLeft /\ Len(send[s].todo) \in 1 .. 5
        /\ send'[s].todo \in StoresLeft
        /\ Len(send'[s].todo) = Len(send[s].todo) - 1
        /\ Len(send[s].todo) > 1 => send'[s].box = b
        /\ \A t \in Senders \ {s} : send'[t] = send[t]
    BY <1>1, StoreSteps
  <2>3. /\ (do = "bits") = (Len(send[s].todo) = 2)
        /\ (do = "activate") = (Len(send[s].todo) = 1)
        /\ (send'[s].todo = <<"activate">>) = (Len(send'[s].todo) = 1)
        /\ (send[s].todo = <<"activate">>) = (Len(send[s].todo) = 1)
    <3> DEFINE q == send[s].todo
               r == send'[s].todo
    <3>1. q \in StoresLeft /\ r \in StoresLeft /\ Len(q) \in 1 .. 5
      BY <2>2
    <3>2. (r = <<"activate">>) = (Len(r) = 1) /\ (q = <<"activate">>) = (Len(q) = 1)
      BY <3>1, StoreOrder
    <3>3. (Head(q) = "bits") = (Len(q) = 2) /\ (Head(q) = "activate") = (Len(q) = 1)
      BY <3>1, StoreOrder
    <3> QED BY <3>2, <3>3
  <2>4. /\ wakeup_rsn' = IF do = "activate" THEN wakeup_rsn \cup {"MBX"} ELSE wakeup_rsn
        /\ mbx_bits' = IF do = "bits" THEN send[s].bits \cup {b} ELSE mbx_bits
    BY <1>1 DEF Store
  <2> HIDE DEF do, b
  <2>5. todo # <<>> /\ Head(todo) = "rsn" => reg'.rsn = wakeup_rsn'
    BY <2>1, <2>4 DEF KnownInv
  <2>6. todo # <<>> /\ Head(todo) = "bits" => reg'.bits = mbx_bits'
    BY <2>1, <2>4 DEF KnownInv
  <2>7. ASSUME NEW m \in mbx_bits'
        PROVE  Known(m)'
    <3>1. CASE do = "activate"
      BY <2>4, <3>1 DEF Known
    <3>2. CASE do = "bits" /\ m = b
      <4>1. send'[s].todo = <<"activate">> /\ send'[s].box = m
        <5>1. Len(send[s].todo) = 2
          BY <2>3, <3>2
        <5>2. Len(send'[s].todo) = 1 /\ send'[s].box = b
          BY <2>2, <5>1
        <5> QED BY <2>3, <3>2, <5>2
      <4>2. <<"activate">> # <<>>
        OBVIOUS
      <4>3. Activates(m)'
        BY <4>1, <4>2 DEF Activates, InSend
      <4> QED BY <4>3 DEF Known
    <3>3. CASE do # "activate" /\ ~ (do = "bits" /\ m = b)
      <4>1. Known(m)
        BY <2>1, <2>4, <3>3 DEF KnownInv
      <4>2. Ahead(m) => Ahead(m)'
        BY <2>1 DEF Ahead
      <4>3. Activates(m) => Activates(m)'
        <5>1. send[s].todo # <<"activate">>
          BY <2>3, <3>3
        <5> QED BY <2>2, <5>1 DEF Activates, InSend
      <4> QED BY <2>4, <3>3, <4>1, <4>2, <4>3 DEF Known
    <3> QED BY <3>1, <3>2, <3>3
  <2> QED BY <2>1, <2>5, <2>6, <2>7 DEF KnownInv
<1>2. ASSUME NEW s \in Senders, NEW b \in Boxes, Send(s, b)
      PROVE  KnownInv'
  <2>1. /\ todo' = todo /\ cur' = cur /\ reg' = reg /\ hidden' = hidden
        /\ wakeup_rsn' = wakeup_rsn /\ mbx_bits' = mbx_bits
        /\ send[s].todo = <<>>
        /\ \A t \in Senders \ {s} : send'[t] = send[t]
    BY <1>2 DEF Send, boxes, TypeOK
  <2>2. \A m \in Boxes : Activates(m) => Activates(m)'
    BY <2>1 DEF Activates, InSend
  <2>3. \A m \in Boxes : Known(m) => Known(m)'
    BY <2>1, <2>2 DEF Known, Ahead
  <2> QED BY <2>1, <2>3 DEF KnownInv, TypeOK
<1>3. CASE Irq
  <2>1. /\ todo' = todo /\ cur' = cur /\ reg' = reg /\ ~ hidden /\ send' = send
        /\ wakeup_rsn' = wakeup_rsn \cup {"OTHER"} /\ mbx_bits' = mbx_bits
        /\ ~ (todo # <<>> /\ Head(todo) = "rsn")
    BY <1>3 DEF Irq, boxes
  <2>2. \A m \in mbx_bits : Known(m) => Known(m)'
    BY <2>1 DEF Known, Activates, InSend, Ahead
  <2> QED BY <2>1, <2>2 DEF KnownInv
<1>4. CASE WaitEvent
  <2>1. todo' # <<>> /\ Head(todo') = "test" /\ cur' = 0 /\ mbx_bits' = mbx_bits
    BY <1>4, Orders DEF WaitEvent, boxes
  <2>2. \A m \in Boxes : Ahead(m)'
    BY <2>1 DEF Ahead, Boxes
  <2> QED BY <2>1, <2>2 DEF KnownInv, Known, TypeOK
<1>5. CASE Test
  <2>1. /\ mbx_bits' = mbx_bits /\ wakeup_rsn' = wakeup_rsn /\ send' = send /\ hidden' = hidden
        /\ todo # <<>> /\ Head(todo) = "test"
        /\ IF cur \in mbx_bits THEN todo' = Taken /\ cur' = cur ELSE Leave
    BY <1>5 DEF Test, boxes, history
  <2>2. \A m \in mbx_bits : Ahead(m) => Ahead(m)'
    <3>1. CASE cur \in mbx_bits
      BY <2>1, <3>1, Orders DEF Ahead
    <3>2. CASE cur \notin mbx_bits
      <4>1. cur \in Boxes /\ mbx_bits \subseteq Boxes /\ Leave
        BY <2>1, <3>2 DEF TypeOK
      <4> QED BY <3>2, <4>1, LastLeft DEF Ahead
    <3> QED BY <3>1, <3>2
  <2>3. \A m \in mbx_bits : Known(m) => Known(m)'
    BY <2>1, <2>2 DEF Known, Activates, InSend
  <2>4. todo' # <<>> => Head(todo') \in {"test", "copy"}
    BY <2>1, Orders, LeaveSteps DEF TypeOK
  <2> QED BY <2>1, <2>3, <2>4 DEF KnownInv
<1>6. CASE Receive
  <2> DEFINE do == Head(todo)
  <2>1. /\ send' = send /\ ~ hidden /\ todo # <<>>
        /\ reg' = CASE do = "rsn?" -> [reg EXCEPT !.rsn = wakeup_rsn]
                    [] do = "bits?" -> [reg EXCEPT !.bits = mbx_bits]
                    [] do \in {"rsn", "bits"} -> [rsn |-> {}, bits |-> {}]
                    [] OTHER -> reg
        /\ wakeup_rsn' = IF do = "rsn" THEN reg.rsn \ {"MBX"} ELSE wakeup_rsn
        /\ mbx_bits' = IF do = "bits" THEN reg.bits \ {cur} ELSE mbx_bits
        /\ ~ (do = "rsn" /\ "MBX" \in reg.rsn /\ mbx_bits # {cur})
    BY <1>6 DEF Receive, Kept
  <2>2. DOMAIN reg = {"rsn", "bits"}
    BY DEF TypeOK
  <2>3. /\ do = "rsn" => reg.rsn = wakeup_rsn
        /\ do = "bits" => reg.bits = mbx_bits
        /\ \A m \in mbx_bits : Known(m)
    BY <2>1 DEF KnownInv
  <2>4. todo' # <<>> /\ Head(todo') = "rsn" => reg'.rsn = wakeup_rsn'
    <3>1. todo' # <<>> /\ Head(todo') = "rsn" => do = "rsn?"
      BY <1>6, ReceiveSteps, LeaveSteps DEF TypeOK
    <3> QED BY <2>1, <2>2, <3>1
  <2>5. todo' # <<>> /\ Head(todo') = "bits" => reg'.bits = mbx_bits'
    <3>1. todo' # <<>> /\ Head(todo') = "bits" => do = "bits?"
      BY <1>6, ReceiveSteps, LeaveSteps DEF TypeOK
    <3> QED BY <2>1, <2>2, <3>1
  <2>6. ASSUME NEW m \in mbx_bits'
        PROVE  Known(m)'
    <3>1. m \in mbx_bits /\ m \in Boxes /\ (do = "bits" => m # cur) /\ Known(m)
      BY <2>1, <2>3 DEF TypeOK
    <3>2. Activates(m) => Activates(m)'
      BY <2>1 DEF Activates, InSend
    <3>3. Ahead(m) => Ahead(m)'
      <4>1. CASE do = "size"
        <5>1. Leave /\ cur \in Boxes
          BY <1>6, <4>1, ReceiveSteps DEF TypeOK
        <5> QED BY <3>1, <4>1, <5>1, LastLeft DEF Ahead
      <4>2. CASE do # "size" /\ do # "bits"
        <5>1. todo' # <<>> /\ cur' = cur /\ Head(todo') # "size"
          BY <1>6, <4>2, ReceiveSteps
        <5> QED BY <4>2, <5>1 DEF Ahead
      <4>3. CASE do = "bits"
        <5>1. todo' # <<>> /\ cur' = cur
          BY <1>6, <4>3, ReceiveSteps
        <5> QED BY <3>1, <4>3, <5>1 DEF Ahead
      <4> QED BY <4>1, <4>2, <4>3
    <3>4. "MBX" \in wakeup_rsn /\ "MBX" \notin wakeup_rsn' => Ahead(m)'
      <4>1. SUFFICES ASSUME "MBX" \in wakeup_rsn, "MBX" \notin wakeup_rsn'
                     PROVE  Ahead(m)'
        OBVIOUS
      <4>2. do = "rsn" /\ mbx_bits = {cur}
        BY <2>1, <2>3, <4>1
      <4>3. todo' # <<>> /\ cur' = cur /\ Head(todo') # "size" /\ m = cur
        BY <1>6, <3>1, <4>2, ReceiveSteps
      <4> QED BY <4>3 DEF Ahead
    <3> QED BY <3>1, <3>2, <3>3, <3>4 DEF Known
  <2> QED BY <2>4, <2>5, <2>6 DEF KnownInv
<1>7. CASE UNCHANGED vars
  BY <1>7 DEF vars, boxes, history, KnownInv, Known, Activates, InSend, Ahead
<1> QED BY <1>1, <1>2, <1>3, <1>4, <1>5, <1>6, <1>7 DEF Next, Receiver, KnownInv

(* No message is left in a mailbox while the receiver sleeps and no reason *)
(* is recorded or about to be, for every order of the statements of        *)
(* mbx_send and mbx_receive, except after the lapses that hidden names.    *)
THEOREM LeavesNone ==
  ASSUME Count \in Nat \ {0}
  PROVE  Spec => []NoneLeft
<1>1. Init => TypeOK /\ KnownInv
  BY InitTypeOK, InitKnown
<1>2. TypeOK /\ KnownInv /\ [Next]_vars => TypeOK' /\ KnownInv'
  BY StepTypeOK, StepKnown
<1>3. TypeOK /\ KnownInv => NoneLeft
  BY DEF KnownInv, Known, Ahead, NoneLeft, Left
<1> QED BY <1>1, <1>2, <1>3, PTL DEF Spec
=============================================================================
