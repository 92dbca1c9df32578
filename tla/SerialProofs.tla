----------------------------- MODULE SerialProofs ------------------------------
(***************************************************************************)
(* Proofs about the parts that talk over a line, for every value of their  *)
(* constants and whichever of them are looked at. A step of Serial is a    *)
(* step of the part unit names and leaves the variables of the others      *)
(* alone; so it is, for each part, one of its steps or a stutter.          *)
(***************************************************************************)
EXTENDS Serial, SequenceTheorems, TLAPS

(* What is proved of UsbRx on its own.                                     *)
BP == INSTANCE UsbRxProofs

(* The part whose variables these are takes a step, or none.               *)
LEMMA UsbStep == [Next]_vars => [BP!Next]_(BP!vars)
<1>1. B!Next <=> BP!Next
  BY DEF B!Next, BP!Next, B!SysTick, BP!SysTick, B!Read, BP!Read,
     B!PktReceived, BP!PktReceived, B!TickStart, BP!TickStart, B!TickStore, BP!TickStore,
     B!TickCopy, BP!TickCopy, B!TickReset, BP!TickReset, B!driver, BP!driver, B!history, BP!history,
     B!At, BP!At, B!Last, BP!Last, B!Position, BP!Position, B!Full, BP!Full, B!Over, BP!Over,
     B!Index, BP!Index, B!Reset, BP!Reset
<1> QED BY <1>1 DEF Next, vars, usb, BP!vars, BP!driver, BP!history

(* The ring of the USB device driver starts as it does on its own.       *)
LEMMA UsbInit == Init => BP!Init
  BY DEF Init, B!Init, BP!Init

(* The process that reads from the USB device driver gets every byte once  *)
(* and in order, except in the cases ReadInOrder names.                    *)
THEOREM UsbReadsInOrder == Spec => []ReadInOrder
<1>0. BP!UsbRxAssumption
  BY SerialAssumption DEF B!UsbRxAssumption, BP!UsbRxAssumption
<1>1. Init => BP!TypeOK /\ BP!Kept
  BY <1>0, UsbInit, BP!InitInv
<1>2. BP!TypeOK /\ BP!Kept /\ [Next]_vars => BP!TypeOK' /\ BP!Kept'
  BY <1>0, UsbStep, BP!StepTypeOK, BP!StepKept
<1>3. BP!TypeOK /\ BP!Kept => ReadInOrder
  BY DEF BP!TypeOK, BP!Kept, BP!Holds, ReadInOrder, B!ReadInOrder
<1> QED BY <1>1, <1>2, <1>3, PTL DEF Spec
-----------------------------------------------------------------------------
(* The Modbus slave.                                                       *)

(* The slave takes a step, or none.                                      *)
LEMMA ModbusStep == [Next]_vars => M!Next \/ UNCHANGED modbus
  BY DEF Next, vars

(* What the slave answers is the answer to the frame before it, whatever   *)
(* requests a master sends and in which order, except to a damaged frame   *)
(* and to a function it does not know.                                     *)
THEOREM AnswersOwn == Spec => []OwnAnswer
<1> USE DEF OwnAnswer, M!OwnAnswer
<1>1. Init => OwnAnswer
  BY DEF Init, M!Init
<1>2. ASSUME OwnAnswer, [Next]_vars
      PROVE  OwnAnswer'
  <2>1. ASSUME NEW r \in Requests, M!Process(r)
        PROVE  OwnAnswer'
    <3>1. frame' = [r |-> r, number |-> frame.number + 1, how |-> "ours"]
      BY <2>1 DEF M!Process, M!Frame
    <3>2. CASE M!Known(r)
      <4>1. tx'.of = frame'.number
        BY <2>1, <3>2 DEF M!Process
      <4> QED BY <4>1
    <3>3. CASE ~ M!Known(r)
      BY <3>1, <3>3 DEF M!Known
    <3> QED BY <3>2, <3>3
  <2>2. ASSUME NEW r \in Requests, NEW how, M!Skip(r, how)
        PROVE  OwnAnswer'
    <3>1. frame'.how = how /\ answered' = M!Replies(how)
      BY <2>2 DEF M!Skip, M!Frame
    <3> QED BY <3>1 DEF M!Replies
  <2>3. CASE UNCHANGED modbus
    <3>1. answered' = answered /\ tx' = tx /\ frame' = frame
      BY <2>3 DEF modbus
    <3> QED BY <1>2, <3>1 DEF M!Known
  <2> QED BY <1>2, <2>1, <2>2, <2>3, ModbusStep DEF M!Next
<1> QED BY <1>1, <1>2, PTL DEF Spec
-----------------------------------------------------------------------------
(* The ESP-01S.                                                            *)

(* The worker of the ESP-01S or the line takes a step, or none.          *)
LEMMA EspStep == [Next]_vars => E!Next \/ UNCHANGED esp01s
  BY DEF Next, vars

(* A reply in the buffer or on the line, and the command it answers.       *)
EspReplies == [reply : STRING, of : Lists \X Nat]

(* A command that was sent while none was unanswered has its own reply in  *)
(* the buffer or none, and nothing but it is under way.                    *)
Expected ==
  cmd_sent /\ ~ stale /\ ~ restarted =>
    /\ line # <<>> => Len(line) = 1 /\ Head(line).of = E!This
    /\ rx_buf # E!Nothing => rx_buf.of = E!This

EspInv ==
  /\ list \in Lists /\ worker_state \in Nat \ {0}
  /\ line \in Seq(EspReplies)
  /\ Expected

(* What is appended to an empty line, and what follows the only element.   *)
LEMMA OneElement ==
  ASSUME NEW S, NEW q \in Seq(S), NEW e \in S
  PROVE  /\ Append(q, e) \in Seq(S)
         /\ q = <<>> => Len(Append(q, e)) = 1 /\ Head(Append(q, e)) = e
         /\ q # <<>> => Tail(q) \in Seq(S) /\ (Len(q) = 1 => Tail(q) = <<>>)
<1>1. Append(q, e) \in Seq(S)
  BY AppendProperties
<1>2. q = <<>> => Len(Append(q, e)) = 1 /\ Head(Append(q, e)) = e
  BY AppendProperties, HeadTailProperties
<1>3. q # <<>> => Tail(q) \in Seq(S) /\ Len(Tail(q)) = Len(q) - 1
  BY HeadTailProperties
<1>4. Tail(q) \in Seq(S) /\ Len(Tail(q)) = 0 => Tail(q) = <<>>
  BY EmptySeq
<1> QED BY <1>1, <1>2, <1>3, <1>4

(* A command of a list has a reply.                                        *)
LEMMA EspCommand ==
  ASSUME EspInv, ~ E!AtEnd
  PROVE  E!Cmd.reply \in STRING \ {"none"} /\ E!This \in Lists \X Nat
<1> DEFINE R == [reply : STRING \ {"none"}, delay : Nat]
<1>1. list \in Seq(R)
  BY EspAssumption DEF EspInv
<1>2. worker_state \in 1 .. Len(list)
  BY <1>1, LenProperties DEF EspInv, E!AtEnd
<1>3. list[worker_state] \in R
  BY <1>1, <1>2, ElementOfSeq
<1> QED BY <1>3 DEF E!Cmd, E!This, EspInv

(* Sending a command keeps the invariant, ...                              *)
LEMMA TransmitInv ==
  ASSUME EspInv, ~ E!AtEnd, E!Transmit, list' = list
  PROVE  EspInv'
<1> DEFINE e == [reply |-> E!Cmd.reply, of |-> E!This]
<1>1. e \in EspReplies /\ e.of = E!This
  BY EspCommand DEF EspReplies
<1>2. line' = (IF Len(line) < MaxLine THEN Append(line, e) ELSE line) /\ stale' = (line # <<>>)
  BY DEF E!Transmit
<1>3. rx_buf' = E!Nothing /\ worker_state' = worker_state /\ E!This' = E!This
  BY DEF E!Transmit, E!Cleared, E!This
<1> HIDE DEF e
<1>4. line \in Seq(EspReplies)
  BY DEF EspInv
<1>5. line' \in Seq(EspReplies)
  <2>1. Append(line, e) \in Seq(EspReplies)
    BY <1>1, <1>4, AppendProperties
  <2> QED BY <1>2, <1>4, <2>1
<1>6. ~ stale' /\ line' # <<>> => Len(line') = 1 /\ Head(line') = e
  <2>1. line = <<>> => Len(Append(line, e)) = 1 /\ Head(Append(line, e)) = e
    BY <1>1, <1>4, OneElement
  <2> QED BY <1>2, <2>1
<1> QED BY <1>1, <1>3, <1>5, <1>6 DEF EspInv, Expected

(* ... and so does every step of the worker, of the module and of the      *)
(* line.                                                                   *)
LEMMA EspStepInv ==
  ASSUME EspInv, [Next]_vars
  PROVE  EspInv'
<1> USE DEF EspInv
<1>1. CASE E!Worker
  <2>1. list' = list
    BY <1>1 DEF E!Worker
  <2>2. CASE ~ E!AtEnd /\ (E!Send \/ E!Again)
    BY <2>1, <2>2, TransmitInv DEF E!Send, E!Again
  <2>3. CASE ~ E!AtEnd /\ E!Confirm
    BY <2>1, <2>3 DEF E!Confirm, Expected
  <2>4. CASE ~ E!AtEnd /\ E!Wait
    BY <2>1, <2>4 DEF E!Wait, E!history, Expected, E!This
  <2>5. CASE ~ E!AtEnd /\ E!Error
    BY <2>1, <2>5 DEF E!Error, E!Restart, Expected
  <2>6. CASE E!Last
    BY <2>1, <2>6 DEF E!Last, E!history, Expected, E!This
  <2> QED BY <1>1, <2>2, <2>3, <2>4, <2>5, <2>6 DEF E!Worker
<1>2. ASSUME NEW l \in Lists, E!ResetWorker(l)
      PROVE  EspInv'
  BY <1>2 DEF E!ResetWorker, E!Restart, Expected
<1>3. CASE E!Answer
  <2>1. /\ line # <<>> /\ rx_buf' = Head(line) /\ line' = Tail(line)
        /\ UNCHANGED <<list, worker_state, cmd_sent, stale, restarted>> /\ E!This' = E!This
    BY <1>3 DEF E!Answer, E!worker, E!history, E!This
  <2>2. Tail(line) \in Seq(EspReplies) /\ (Len(line) = 1 => Tail(line) = <<>>)
    BY <2>1, HeadTailProperties, OneElement
  <2> QED BY <2>1, <2>2 DEF Expected
<1>4. CASE E!Lose
  <2>1. /\ line # <<>> /\ line' = Tail(line)
        /\ UNCHANGED <<list, worker_state, cmd_sent, stale, restarted, rx_buf>> /\ E!This' = E!This
    BY <1>4 DEF E!Lose, E!worker, E!history, E!This
  <2>2. Tail(line) \in Seq(EspReplies) /\ (Len(line) = 1 => Tail(line) = <<>>)
    BY <2>1, HeadTailProperties, OneElement
  <2> QED BY <2>1, <2>2 DEF Expected
<1>5. CASE UNCHANGED esp01s
  BY <1>5 DEF esp01s, Expected, E!This
<1> QED BY <1>1, <1>2, <1>3, <1>4, <1>5, EspStep DEF E!Next

(* The reply the worker takes for its command is that of the command,      *)
(* however late the module answers and whatever it leaves unanswered,      *)
(* unless an earlier command was unanswered when it was sent or the list   *)
(* was begun anew.                                                         *)
THEOREM TakesOwnReply == Spec => OwnReply
<1>1. Init => EspInv
  BY EmptySeq DEF Init, E!Init, EspInv, Expected
<1>2. EspInv /\ [Next]_vars => EspInv'
  BY EspStepInv
<1>3. ASSUME EspInv, [Next]_vars, confirmed' # confirmed \/ worker_state' = worker_state + 1
      PROVE  confirmed'.of = E!This \/ stale \/ restarted
  <2>1. CASE ~ E!AtEnd /\ E!Confirm
    <3>1. rx_buf.reply # "none"
      BY <1>3, <2>1, EspCommand DEF E!Confirm, E!Match
    <3>2. rx_buf # E!Nothing
      BY <3>1 DEF E!Nothing
    <3> QED BY <1>3, <2>1, <3>2 DEF E!Confirm, EspInv, Expected
  <2>2. CASE ~ (~ E!AtEnd /\ E!Confirm)
    <3>1. E!Next => confirmed' = confirmed /\ worker_state' \in {worker_state, 1}
      BY <2>2 DEF E!Next, E!Worker, E!Send, E!Again, E!Transmit, E!Wait, E!Error, E!Restart, E!Last,
         E!ResetWorker, E!Answer, E!Lose, E!worker, E!history
    <3>2. confirmed' = confirmed /\ worker_state' \in {worker_state, 1}
      BY <1>3, <3>1, EspStep DEF esp01s
    <3> QED BY <1>3, <3>2 DEF EspInv
  <2> QED BY <2>1, <2>2
<1>4. EspInv /\ [Next]_vars => [confirmed' # confirmed \/ worker_state' = worker_state + 1
                                 => confirmed'.of = E!This \/ stale \/ restarted]_(E!vars)
  BY <1>3
<1> QED BY <1>1, <1>2, <1>4, PTL DEF Spec, OwnReply, E!OwnReply
-----------------------------------------------------------------------------
(* The DFPlayer.                                                           *)

(* The DFPlayer or one of its processes takes a step, or none.           *)
LEMMA DfStep == [Next]_vars => D!Next \/ UNCHANGED dfplayer
  BY DEF Next, vars

(* Unless the last command clashed with another, its parameter is stored   *)
(* while nothing is to be done, command and parameter are of the same      *)
(* call, and what was done is that or, before it is taken, the call before *)
(* it.                                                                     *)
DfFulfilled == D!Fulfils(done.sent, ordered.kind, ordered.value)

DfInv ==
  /\ given \in Nat /\ giving \in BOOLEAN /\ (giving => given > 0) /\ parameter \in Nat
  /\ D!Last \notin clash =>
       /\ giving => ~ D!Busy
       /\ command # D!NoCommand =>
            command.id = given /\ ordered = [kind |-> command.kind, value |-> parameter]
       /\ df_pc = "clear" => command # D!NoCommand /\ done.id = given /\ DfFulfilled
       /\ ~ D!Busy => done.id = D!Last /\ (D!Last > 0 => DfFulfilled)

(* What is sent for a command is what it asks for, as far as the code does *)
(* it.                                                                     *)
LEMMA SentFulfils ==
  ASSUME NEW kind, NEW value \in Nat
  PROVE  D!Fulfils(D!Sent(kind, value), kind, value)
<1> DEFINE f == D!Sent(kind, value)
<1>1. /\ kind = "PLAY" => f = [cmd |-> "PLAY", par |-> 0]
      /\ kind = "PLAY_TRACK" => f = [cmd |-> kind, par |-> value]
      /\ kind = "SET_VOLUME" /\ ~ (value > D!MaxVolume) => f = [cmd |-> kind, par |-> value]
      /\ kind = "SET_VOLUME" /\ value > D!MaxVolume => f = [cmd |-> kind, par |-> D!MaxVolume]
  BY DEF D!Sent
<1>2. /\ kind = "SET_PLAY_MODE" /\ value <= D!RandomMode => f = [cmd |-> kind, par |-> value]
      /\ kind = "SET_PLAY_MODE" /\ ~ (value <= D!RandomMode) => f = D!NoFrame
      /\ kind = "SET_EQ" /\ value <= D!EqBase => f = [cmd |-> "PREV", par |-> value]
      /\ kind = "SET_EQ" /\ ~ (value <= D!EqBase) => f = D!NoFrame
  BY DEF D!Sent
<1>3. /\ ~ (value <= D!RandomMode) => value > D!RandomMode
      /\ ~ (value <= D!EqBase) => value > D!EqBase
  BY DEF D!RandomMode, D!EqBase
<1> HIDE DEF f
<1>4. D!Fulfils(f, kind, value)
  BY <1>1, <1>2, <1>3 DEF D!Fulfils
<1> QED BY <1>4 DEF f

(* What is sent for a command is sent with the parameter of its own call,  *)
(* and before the command is erased, wherever the process that gives it    *)
(* comes between the steps of the state machine, unless it is given while  *)
(* another is carried out or another while it is. What SET_EQ and          *)
(* parameters out of range are answered with is in Fulfils.                *)
THEOREM ErasesDone == Spec => []NotErased
<1>1. Init => DfInv
  <2> SUFFICES ASSUME Init PROVE DfInv
    OBVIOUS
  <2>1. /\ given = 0 /\ giving = FALSE /\ command = D!NoCommand /\ df_pc = "out"
        /\ done.id = 0 /\ parameter = 0
    BY DEF Init, D!Init
  <2>2. D!Last = 0 /\ giving \in BOOLEAN /\ ~ giving
    BY <2>1, Zenon DEF D!Last
  <2> QED BY <2>1, <2>2 DEF DfInv
<1>2. ASSUME DfInv, [Next]_vars
      PROVE  DfInv'
  <2> USE <1>2 DEF DfInv, D!Busy, D!Last
  <2>1. CASE D!Process
    <3>1. UNCHANGED <<giving, given, ordered, clash, parameter>>
      BY <2>1 DEF D!Process, D!Open, D!Take, D!Clear, D!Response
    <3>2. CASE D!Open \/ D!Response
      BY <3>1, <3>2 DEF D!Open, D!Response, DfFulfilled
    <3>3. CASE D!Take
      <4>1. /\ df_pc = "out" /\ command # D!NoCommand /\ df_pc' = "clear" /\ command' = command
            /\ done' = [id |-> command.id, sent |-> D!Sent(command.kind, parameter)]
        BY <3>3 DEF D!Take
      <4>2. ASSUME D!Last' \notin clash'
            PROVE  DfFulfilled'
        <5>1. ordered' = [kind |-> command.kind, value |-> parameter]
          BY <3>1, <4>1, <4>2
        <5> QED BY <3>1, <4>1, <5>1, SentFulfils DEF DfFulfilled
      <4> QED BY <3>1, <4>1, <4>2
    <3>4. CASE D!Clear
      BY <3>1, <3>4 DEF D!Clear, D!Done, DfFulfilled
    <3> QED BY <2>1, <3>2, <3>3, <3>4 DEF D!Process
  <2>2. ASSUME NEW value \in Parameters, D!Parameter(value)
        PROVE  DfInv'
    <3>1. /\ ~ giving /\ giving' = TRUE /\ given' = given + 1 /\ parameter' = value
          /\ UNCHANGED <<command, df_pc, done, ordered>> /\ D!Busy' = D!Busy /\ DfFulfilled' = DfFulfilled
      BY <2>2 DEF D!Parameter, DfFulfilled
    <3>2. clash' = clash \cup IF D!Busy THEN {given', command.id, doing.id} ELSE {}
      BY <2>2 DEF D!Parameter, D!Clash
    <3>3. value \in Nat /\ D!Last' = given /\ D!Last = given
      BY <3>1, DfAssumption DEF DfAssumption
    <3>4. given \notin clash' => given \notin clash /\ ~ D!Busy
      BY <3>2, <3>3
    <3> QED BY <3>1, <3>3, <3>4
  <2>3. ASSUME NEW kind \in Commands, D!Command(kind)
        PROVE  DfInv'
    <3>1. /\ command' = [kind |-> kind, id |-> given] /\ giving /\ giving' = FALSE
          /\ ordered' = [kind |-> kind, value |-> parameter]
          /\ UNCHANGED <<given, parameter, df_pc, done>>
      BY <2>3 DEF D!Command
    <3>2. clash' = clash \cup IF D!Busy THEN {given, command.id, doing.id} ELSE {}
      BY <2>3 DEF D!Command, D!Clash
    <3>3. given \notin clash' => df_pc # "clear"
      BY <3>2
    <3>4. command'.id = given /\ command' # D!NoCommand /\ command'.kind = kind
      BY <3>1 DEF D!NoCommand
    <3> QED BY <3>1, <3>3, <3>4
  <2>4. CASE D!Line
    BY <2>4 DEF D!Line, D!driver, DfFulfilled
  <2>5. CASE UNCHANGED dfplayer
    BY <2>5 DEF dfplayer, DfFulfilled
  <2> QED BY <2>1, <2>2, <2>3, <2>4, <2>5, DfStep DEF D!Next
<1>3. DfInv => NotErased
  BY DEF DfInv, NotErased, D!NotErased, DfFulfilled
<1> QED BY <1>1, <1>2, <1>3, PTL DEF Spec
-----------------------------------------------------------------------------
(* The file transfer. Answers are those on the line to the configurator,   *)
(* OnWay is a packet on the line to the device or not yet handled.         *)
Elements(q) == {q[i] : i \in DOMAIN q}
Answers == Elements(up)
XPackets == [kind : {"none", "block", "junk", "CMD", "EOT"}, n : Nat]
OnWay(f) == (down # <<>> /\ f = Head(down)) \/ (xmodem_woken /\ f = buf)

(* While the configurator sends nothing too early, there is one packet at  *)
(* a time: the block it waits for an answer to, or what it became; and an  *)
(* ACK is the answer to that.                                              *)
OnePacket ==
  /\ Len(down) <= 1
  /\ pc = "answer" =>
       /\ down # <<>> => ~ xmodem_woken
       /\ \A f \in XPackets : OnWay(f) => f.kind \in {"block", "junk"} /\ (f.kind = "block" => f.n = block)
       /\ "ACK" \in Answers => block \in X!Stored /\ down = <<>> /\ ~ xmodem_woken
  /\ pc # "answer" =>
       /\ \A f \in XPackets : OnWay(f) => f.kind # "block"
       /\ down # <<>> /\ Head(down).kind = "EOT" => ~ xmodem_woken

(* What the configurator has gone past is stored; the end of the session,  *)
(* which moves it, comes once.                                             *)
Arrived ==
  /\ pc = "answer" => 1 .. block - 1 \subseteq X!Stored
  /\ pc = "idle" /\ sent > 0 =>
       \/ 1 .. Blocks \subseteq X!Stored
       \/ 1 .. Blocks \subseteq X!Ended /\ \A f \in XPackets : OnWay(f) => f.kind # "EOT"

(* While a file is received, the last block in the area is not behind the  *)
(* one that is sent, and is that only if its answer is still to be read or *)
(* was not.                                                                *)
LastStored ==
  pc = "answer" /\ stored # <<>> =>
    /\ ~ poll
    /\ Len(stored) < area =>
         \/ stored[Len(stored)] < block
         \/ stored[Len(stored)] = block /\ (misheard \/ "ACK" \in Answers)

(* A file is begun with the area empty, or with the end of the last one    *)
(* still to be handled, when the device asks for nothing.                  *)
EotLeft ==
  /\ pc = "idle" /\ stored # <<>> /\ (\E f \in XPackets : OnWay(f) /\ f.kind = "EOT")
       => ~ poll /\ up = <<>>
  /\ pc = "start" /\ stored # <<>> =>
       /\ down = <<>> /\ ~ poll /\ "NAK" \notin Answers
       /\ xmodem_woken => buf.kind = "EOT"
       /\ link # "UART" => xmodem_woken

XTypes ==
  /\ pc \in {"idle", "start", "answer"} /\ block \in Nat /\ sent \in Nat
  /\ (pc = "start" => block = 1) /\ (pc = "answer" => block > 0)
  /\ area \in Nat
  /\ down \in Seq(XPackets) /\ buf \in XPackets
  /\ up \in Seq({"ACK", "NAK", "junk"})
  /\ stored \in Seq(Nat) /\ session \in Seq(Nat)

XInv ==
  /\ XTypes
  /\ ~ surplus => OnePacket /\ Arrived
  /\ ~ surplus /\ ~ appended => LastStored /\ EotLeft /\ InOrder

(* The two ends of the transfer or the line take a step, or none.        *)
LEMMA XmodemStep == [Next]_vars => X!Next \/ UNCHANGED xmodem
  BY DEF Next, vars

(* What is appended, taken away or replaced on a line.                     *)
LEMMA LineAppend ==
  ASSUME NEW S, NEW q \in Seq(S), NEW e \in S
  PROVE  /\ Append(q, e) \in Seq(S) /\ Append(q, e) # <<>>
         /\ Len(Append(q, e)) = Len(q) + 1 /\ Append(q, e)[Len(q) + 1] = e
         /\ \A i \in 1 .. Len(q) : Append(q, e)[i] = q[i]
         /\ Elements(Append(q, e)) = Elements(q) \cup {e}
         /\ q = <<>> => Append(q, e) = <<e>> /\ Head(Append(q, e)) = e
<1>1. /\ Append(q, e) \in Seq(S) /\ Len(Append(q, e)) = Len(q) + 1
      /\ \A i \in 1 .. Len(q) : Append(q, e)[i] = q[i]
      /\ Append(q, e)[Len(q) + 1] = e
  BY AppendProperties
<1>2. Len(q) \in Nat /\ DOMAIN q = 1 .. Len(q) /\ DOMAIN Append(q, e) = 1 .. Len(q) + 1
  BY <1>1, LenProperties
<1>3. Elements(Append(q, e)) = Elements(q) \cup {e}
  BY <1>1, <1>2 DEF Elements
<1>4. q = <<>> => Append(q, e) = <<e>> /\ Head(Append(q, e)) = e
  BY <1>1
<1>5. Append(q, e) # <<>>
  BY <1>1, <1>2, EmptySeq
<1> QED BY <1>1, <1>3, <1>4, <1>5

(* What is left of a line when its first element is taken, ...           *)
LEMMA LineTail ==
  ASSUME NEW S, NEW q \in Seq(S), q # <<>>
  PROVE  /\ Head(q) \in S /\ Head(q) \in Elements(q)
         /\ Tail(q) \in Seq(S) /\ Elements(Tail(q)) \subseteq Elements(q)
         /\ Len(q) <= 1 => Tail(q) = <<>>
<1>1. /\ Head(q) \in S /\ Tail(q) \in Seq(S) /\ Len(Tail(q)) = Len(q) - 1
      /\ \A i \in 1 .. Len(Tail(q)) : Tail(q)[i] = q[i + 1]
  BY HeadTailProperties
<1>2. /\ Len(q) \in Nat /\ Len(q) > 0 /\ DOMAIN q = 1 .. Len(q) /\ Head(q) = q[1]
      /\ DOMAIN Tail(q) = 1 .. Len(q) - 1
  BY <1>1, LenProperties, EmptySeq
<1>3. Len(q) <= 1 => Tail(q) = <<>>
  BY <1>1, <1>2, EmptySeq
<1> QED BY <1>1, <1>2, <1>3 DEF Elements

(* ... when one element becomes another, ...                             *)
LEMMA LineReplace ==
  ASSUME NEW S, NEW q \in Seq(S), q # <<>>, NEW e \in S
  PROVE  /\ <<e>> \o Tail(q) \in Seq(S)
         /\ Elements(<<e>> \o Tail(q)) \subseteq {e} \cup Elements(q)
         /\ Len(<<e>> \o Tail(q)) = Len(q) /\ Head(<<e>> \o Tail(q)) = e
<1>1. <<e>> \in Seq(S) /\ Len(<<e>>) = 1 /\ Tail(q) \in Seq(S) /\ Len(Tail(q)) = Len(q) - 1
  BY HeadTailProperties
<1> DEFINE r == <<e>> \o Tail(q)
<1>2. /\ r \in Seq(S) /\ Len(r) = 1 + (Len(q) - 1)
      /\ \A i \in 1 .. 1 + (Len(q) - 1) : r[i] = IF i <= 1 THEN <<e>>[i] ELSE Tail(q)[i - 1]
  BY <1>1, ConcatProperties
<1>3. Len(q) \in Nat /\ Len(q) > 0
  BY LenProperties, EmptySeq
<1> HIDE DEF r
<1>4. /\ DOMAIN r = 1 .. Len(q) /\ r[1] = e
      /\ \A i \in 2 .. Len(q) : r[i] = Tail(q)[i - 1]
      /\ DOMAIN Tail(q) = 1 .. Len(q) - 1
  BY <1>1, <1>2, <1>3
<1>5. Elements(r) \subseteq {e} \cup Elements(Tail(q))
  <2>1. ASSUME NEW i \in 2 .. Len(q) PROVE r[i] \in Elements(Tail(q))
    <3>1. i - 1 \in DOMAIN Tail(q)
      BY <1>3, <1>4
    <3> QED BY <1>4, <3>1 DEF Elements
  <2> QED BY <1>3, <1>4, <2>1 DEF Elements
<1>6. Head(r) = e
  BY <1>2, <1>3, <1>4
<1> QED BY <1>2, <1>3, <1>5, <1>6, LineTail DEF r

(* ... and when the first few are read at once.                          *)
LEMMA LineRead ==
  ASSUME NEW S, NEW q \in Seq(S), q # <<>>, NEW n \in 1 .. Len(q)
  PROVE  LET r == SubSeq(q, n + 1, Len(q))
         IN /\ r \in Seq(S) /\ Elements(r) \subseteq Elements(q)
            /\ n = 1 => Elements(q) \subseteq Elements(r) \cup {Head(q)}
<1> DEFINE r == SubSeq(q, n + 1, Len(q))
<1>1. Len(q) \in Nat /\ DOMAIN q = 1 .. Len(q) /\ \A i \in 1 .. Len(q) : q[i] \in S
  BY LenProperties, ElementOfSeq
<1>2. /\ r \in Seq(S) /\ Len(r) = Len(q) - n
      /\ \A i \in 1 .. Len(q) - n : r[i] = q[n + i]
  BY <1>1, SubSeqProperties
<1> HIDE DEF r
<1>3. DOMAIN r = 1 .. Len(q) - n
  BY <1>2, LenProperties
<1>4. Elements(r) \subseteq Elements(q)
  BY <1>1, <1>2, <1>3 DEF Elements
<1>5. ASSUME n = 1, NEW i \in 1 .. Len(q)
      PROVE  q[i] \in Elements(r) \cup {Head(q)}
  <2>1. CASE i = 1
    BY <2>1
  <2>2. CASE i > 1
    <3>1. i - 1 \in DOMAIN r /\ r[i - 1] = q[i]
      BY <1>1, <1>2, <1>3, <1>5, <2>2
    <3> QED BY <3>1 DEF Elements
  <2> QED BY <2>1, <2>2
<1> QED BY <1>1, <1>2, <1>4, <1>5 DEF Elements, r

(* What the configurator reads: the first answer, and perhaps more.        *)
LEMMA ReadFacts ==
  ASSUME XTypes, NEW kinds, X!Read(kinds)
  PROVE  /\ Head(up) \in kinds /\ Head(up) \in Answers
         /\ up' \in Seq({"ACK", "NAK", "junk"}) /\ Answers' \subseteq Answers
         /\ misheard => misheard'
         /\ ~ misheard' => Answers \subseteq Answers' \cup {Head(up)}
<1>1. /\ up # <<>> /\ Head(up) \in kinds
  BY DEF X!Read
<1>2. PICK n \in 1 .. Len(up) :
        up' = SubSeq(up, n + 1, Len(up)) /\ misheard' = (misheard \/ n > 1)
  BY DEF X!Read
<1>3. up \in Seq({"ACK", "NAK", "junk"}) /\ Len(up) \in Nat
  BY LenProperties DEF XTypes
<1>4. /\ up' \in Seq({"ACK", "NAK", "junk"}) /\ Elements(up') \subseteq Elements(up)
      /\ n = 1 => Elements(up) \subseteq Elements(up') \cup {Head(up)}
  BY <1>1, <1>2, <1>3, LineRead
<1>5. (~ misheard' => ~ (n > 1)) /\ (misheard => misheard')
  BY <1>2, Zenon
<1>6. n > 1 \/ n = 1
  BY <1>3
<1> QED BY <1>1, <1>3, <1>4, <1>5, <1>6, LineTail DEF Answers

(* A packet is sent: alone, unless it is too early.                        *)
LEMMA SendFacts ==
  ASSUME XTypes, NEW f \in XPackets, X!Send(f)
  PROVE  /\ down' \in Seq(XPackets)
         /\ ~ surplus' => /\ ~ surplus /\ down = <<>> /\ ~ xmodem_woken /\ up' = <<>>
                          /\ down' # <<>> /\ Len(down') = 1 /\ Head(down') = f
<1>1. down \in Seq(XPackets) /\ down' = Append(down, f)
  BY DEF XTypes, X!Send
<1>2. ~ surplus' => ~ surplus /\ down = <<>> /\ ~ xmodem_woken /\ up' = <<>>
  BY DEF X!Send
<1> QED BY <1>1, <1>2, LineAppend

(* What the device stores and answers.                                     *)
LEMMA StoreFacts ==
  ASSUME XTypes, XmodemAssumption, X!Store(buf)
  PROVE  /\ stored' \in Seq(Nat) /\ up' \in Seq({"ACK", "NAK", "junk"}) /\ session' = session
         /\ Answers' \subseteq Answers \cup {"ACK", "NAK"} /\ Answers \subseteq Answers'
         /\ buf.kind # "block" => stored' = stored /\ Answers' \subseteq Answers \cup {"NAK"}
         /\ X!Stored \subseteq X!Stored'
         /\ \/ stored' = stored /\ Answers' \subseteq Answers \cup {"NAK"}
            \/ /\ buf.kind = "block" /\ stored' = Append(stored, buf.n) /\ buf.n \in X!Stored'
               /\ Len(stored) + 1 < area => "ACK" \in Answers'
<1>1. /\ stored \in Seq(Nat) /\ buf \in XPackets /\ up \in Seq({"ACK", "NAK", "junk"})
      /\ area \in Nat /\ Beyond \in Nat
  BY DEF XTypes, XmodemAssumption
<1>2. buf.n \in Nat /\ Len(stored) \in Nat
  BY <1>1, LenProperties DEF XPackets
<1>3. /\ Append(stored, buf.n) \in Seq(Nat) /\ Len(Append(stored, buf.n)) = Len(stored) + 1
      /\ Elements(Append(stored, buf.n)) = Elements(stored) \cup {buf.n}
  BY <1>1, <1>2, LineAppend
<1>4. /\ session' = session
      /\ stored' = (IF buf.kind = "block" /\ Len(stored) < area + Beyond
                    THEN Append(stored, buf.n) ELSE stored)
      /\ up' = Append(up, IF buf.kind = "block" /\ Len(stored') < area THEN "ACK" ELSE "NAK")
  BY DEF X!Store, X!Accepted
<1>5. X!Stored = Elements(stored) /\ X!Stored' = Elements(stored')
  BY DEF X!Stored, Elements
<1>6. PICK a \in {"ACK", "NAK"} :
        /\ up' = Append(up, a)
        /\ a = "ACK" <=> (buf.kind = "block" /\ Len(stored') < area)
  BY <1>4
<1>7. up' \in Seq({"ACK", "NAK", "junk"}) /\ Answers' = Answers \cup {a}
  BY <1>1, <1>6, LineAppend DEF Answers
<1>8. CASE stored' = stored
  <2>1. a = "NAK"
    BY <1>1, <1>2, <1>3, <1>4, <1>6, <1>8
  <2> QED BY <1>1, <1>4, <1>5, <1>7, <1>8, <2>1
<1>9. CASE buf.kind = "block" /\ stored' = Append(stored, buf.n)
  BY <1>1, <1>2, <1>3, <1>4, <1>5, <1>6, <1>7, <1>9
<1> QED BY <1>4, <1>8, <1>9

(* What one turn of the process does to the area and the line.             *)
LEMMA HandleFacts ==
  ASSUME XTypes, XmodemAssumption, X!Handle
  PROVE  /\ UNCHANGED <<link, area, pc, block, sent, down, buf, misheard, surplus, appended>>
         /\ xmodem_woken /\ ~ xmodem_woken'
         /\ \/ X!Store(buf) /\ buf.kind # "EOT" /\ ~ poll'
            \/ /\ UNCHANGED <<stored, session>> /\ buf.kind # "block"
               /\ up' = up /\ (poll' => poll \/ buf.kind = "CMD")
               /\ buf.kind = "EOT" => link = "UART"
            \/ /\ UNCHANGED <<stored, session>> /\ poll /\ ~ poll'
               /\ up' = Append(up, "NAK") /\ Answers' \subseteq Answers \cup {"NAK"}
            \/ /\ buf.kind = "EOT" /\ ~ poll'
               /\ up' = Append(up, "ACK") /\ Answers' \subseteq Answers \cup {"ACK"}
               /\ session' = stored /\ stored' = <<>>
<1>1. /\ UNCHANGED <<link, area, pc, block, sent, down, buf, misheard, surplus, appended>>
      /\ xmodem_woken /\ ~ xmodem_woken'
  BY DEF X!Handle, X!pcs, X!history
<1>2. CASE link = "UART"
  <2>1. X!HandleUart
    BY <1>2 DEF X!Handle
  <2>2. CASE buf.kind = "EOT" \/ (buf.kind = "CMD" /\ poll)
    BY <1>1, <1>2, <2>1, <2>2, Zenon DEF X!HandleUart
  <2>3. CASE ~ (buf.kind = "EOT" \/ (buf.kind = "CMD" /\ poll))
    BY <1>1, <2>1, <2>3, Zenon DEF X!HandleUart
  <2> QED BY <2>2, <2>3
<1>3. CASE link # "UART"
  <2>1. X!HandleUsb
    BY <1>3 DEF X!Handle
  <2>2. CASE buf.kind = "CMD"
    BY <1>1, <2>1, <2>2 DEF X!HandleUsb
  <2> DEFINE Answer(a) == up' = Append(up, a) => Answers' \subseteq Answers \cup {a}
  <2>6. Answer("NAK") /\ Answer("ACK")
    <3>1. up \in Seq({"ACK", "NAK", "junk"})
      BY DEF XTypes
    <3>2. /\ Elements(Append(up, "NAK")) = Elements(up) \cup {"NAK"}
          /\ Elements(Append(up, "ACK")) = Elements(up) \cup {"ACK"}
      BY <3>1, LineAppend
    <3> QED BY <3>2 DEF Answers
  <2>3. CASE buf.kind # "CMD" /\ poll
    BY <1>1, <2>1, <2>3, <2>6 DEF X!HandleUsb
  <2>4. CASE buf.kind # "CMD" /\ ~ poll /\ buf.kind # "EOT"
    BY <1>1, <2>1, <2>4 DEF X!HandleUsb
  <2>5. CASE ~ poll /\ buf.kind = "EOT"
    BY <1>1, <2>1, <2>5, <2>6 DEF X!HandleUsb
  <2> QED BY <2>2, <2>3, <2>4, <2>5
<1> QED BY <1>2, <1>3

(* The line takes a packet or an answer away or damages it.                *)
LEMMA DamageFacts ==
  ASSUME XTypes, X!Damage
  PROVE  /\ UNCHANGED <<area, pc, block, sent, buf, stored, session, poll, xmodem_woken, surplus, appended>>
         /\ link = "UART" /\ link' = link
         /\ \/ /\ up' = up /\ misheard' = misheard /\ down # <<>>
               /\ down' \in Seq(XPackets)
               /\ Len(down) <= 1 =>
                    \/ down' = <<>> /\ Len(down') = 0
                    \/ Len(down') = 1 /\ Head(down').kind = "junk"
            \/ /\ down' = down /\ up # <<>> /\ up' \in Seq({"ACK", "NAK", "junk"})
               /\ misheard' /\ Answers' \subseteq Answers \cup {"junk"}
<1>1. /\ UNCHANGED <<area, pc, block, sent, buf, stored, session, poll, xmodem_woken, surplus, appended>>
      /\ link = "UART" /\ link' = link
  BY DEF X!Damage, X!pcs, X!device
<1>2. /\ down \in Seq(XPackets) /\ up \in Seq({"ACK", "NAK", "junk"})
      /\ X!Packet("junk") \in XPackets /\ X!Packet("junk").kind = "junk"
  BY DEF XTypes, XPackets, X!Packet
<1>3. ASSUME down # <<>>, down' \in {Tail(down), <<X!Packet("junk")>> \o Tail(down)}
      PROVE  /\ down' \in Seq(XPackets)
             /\ Len(down) <= 1 =>
                    \/ down' = <<>> /\ Len(down') = 0
                    \/ Len(down') = 1 /\ Head(down').kind = "junk"
  <2>1. CASE down' = Tail(down)
    <3>1. down' \in Seq(XPackets) /\ (Len(down) <= 1 => down' = <<>>)
      BY <1>2, <1>3, <2>1, LineTail
    <3> QED BY <3>1
  <2>2. CASE down' = <<X!Packet("junk")>> \o Tail(down)
    <3>1. /\ down' \in Seq(XPackets) /\ Len(down') = Len(down) /\ Head(down') = X!Packet("junk")
      BY <1>2, <1>3, <2>2, LineReplace
    <3>2. Len(down) \in Nat \ {0}
      BY <1>2, <1>3, EmptySeq
    <3> QED BY <1>2, <3>1, <3>2
  <2> QED BY <1>3, <2>1, <2>2
<1>4. ASSUME up # <<>>, up' \in {Tail(up), <<"junk">> \o Tail(up)}
      PROVE  up' \in Seq({"ACK", "NAK", "junk"}) /\ Answers' \subseteq Answers \cup {"junk"}
  <2>1. CASE up' = Tail(up)
    BY <1>2, <1>4, <2>1, LineTail DEF Answers
  <2>2. CASE up' = <<"junk">> \o Tail(up)
    <3>1. "junk" \in {"ACK", "NAK", "junk"}
      OBVIOUS
    <3> QED BY <1>2, <1>4, <2>2, <3>1, LineReplace DEF Answers
  <2> QED BY <1>4, <2>1, <2>2
<1>5. \/ /\ down # <<>> /\ down' \in {Tail(down), <<X!Packet("junk")>> \o Tail(down)}
         /\ UNCHANGED <<up, misheard>>
      \/ /\ up # <<>> /\ up' \in {Tail(up), <<"junk">> \o Tail(up)}
         /\ misheard' = TRUE
         /\ UNCHANGED down
  BY DEF X!Damage
<1> QED BY <1>1, <1>3, <1>4, <1>5

(* Every step keeps the types.                                             *)
LEMMA XTypesStep ==
  ASSUME XTypes, XmodemAssumption, X!Next
  PROVE  XTypes'
<1> USE DEF XTypes
<1>1. \A n \in Nat, k \in {"junk", "CMD", "EOT"} : X!Block(n) \in XPackets /\ X!Packet(k) \in XPackets
  BY DEF X!Block, X!Packet, XPackets
<1>2. CASE X!Handle
  <2>1. UNCHANGED <<area, pc, block, sent, down, buf>>
    BY <1>2, HandleFacts
  <2>2. CASE X!Store(buf)
    BY <2>1, <2>2, StoreFacts
  <2>3. ASSUME NEW a \in {"ACK", "NAK"}, up' = Append(up, a) PROVE up' \in Seq({"ACK", "NAK", "junk"})
    BY <2>3, LineAppend
  <2>4. CASE ~ X!Store(buf)
    <3>1. up' \in {up, Append(up, "ACK"), Append(up, "NAK")}
      BY <1>2, <2>4, HandleFacts
    <3>2. stored' \in {stored, <<>>} /\ session' \in {session, stored}
      BY <1>2, <2>4, HandleFacts
    <3> QED BY <2>1, <2>3, <3>1, <3>2, EmptySeq
  <2> QED BY <2>2, <2>4
<1>3. CASE X!Poll
  BY <1>3 DEF X!Poll, X!pcs, X!device
<1>4. CASE X!Arrive
  BY <1>4, LineTail DEF X!Arrive, X!pcs
<1>5. CASE X!Damage
  BY <1>5, DamageFacts
<1>6. CASE X!Command
  BY <1>6, <1>1 DEF X!Command, X!pcs, X!device
<1>7. CASE X!Download
  BY <1>7 DEF X!Download, X!device
<1>8. CASE X!Start
  <2>1. up' \in Seq({"ACK", "NAK", "junk"})
    BY <1>8, ReadFacts DEF X!Start
  <2>2. down' \in Seq(XPackets)
    BY <1>8, <1>1, SendFacts DEF X!Start
  <2> QED BY <1>8, <2>1, <2>2 DEF X!Start, X!device
<1>9. CASE X!Proceed
  <2>1. up' \in Seq({"ACK", "NAK", "junk"})
    BY <1>9, ReadFacts DEF X!Proceed
  <2>2. down' \in Seq(XPackets)
    BY <1>9, <1>1, SendFacts DEF X!Proceed
  <2> QED BY <1>9, <2>1, <2>2 DEF X!Proceed, X!device
<1>10. CASE X!Retry
  <2>1. up' \in Seq({"ACK", "NAK", "junk"})
    BY <1>10, ReadFacts DEF X!Retry
  <2>2. down' \in Seq(XPackets)
    BY <1>10, <1>1, SendFacts DEF X!Retry
  <2> QED BY <1>10, <2>1, <2>2 DEF X!Retry, X!device, X!pcs
<1>11. CASE X!Timeout
  <2>1. down' \in Seq(XPackets)
    BY <1>11, <1>1, SendFacts DEF X!Timeout
  <2> QED BY <1>11, <2>1 DEF X!Timeout, X!device, X!pcs
<1> QED BY <1>2, <1>3, <1>4, <1>5, <1>6, <1>7, <1>8, <1>9, <1>10, <1>11 DEF X!Next

(* The rest of the invariant, step by step: the process handles a packet,  *)
LEMMA HandleInv ==
  ASSUME XInv, XTypes', XmodemAssumption, X!Handle
  PROVE  XInv'
<1>1. /\ UNCHANGED <<link, area, pc, block, sent, down, buf, misheard, surplus, appended>>
      /\ xmodem_woken /\ ~ xmodem_woken' /\ XTypes
      /\ \A f : OnWay(f)' => OnWay(f)
      /\ OnWay(buf) /\ buf \in XPackets
  BY HandleFacts DEF XInv, OnWay, XTypes
<1>2. ASSUME ~ surplus
      PROVE  OnePacket' /\ Arrived'
  <2>1. OnePacket /\ Arrived
    BY <1>2 DEF XInv
  <2>2. CASE X!Store(buf) /\ buf.kind # "EOT"
    <3>1. X!Stored \subseteq X!Stored' /\ session' = session
      BY <1>1, <2>2, StoreFacts
    <3>2. Arrived'
      BY <1>1, <2>1, <3>1 DEF Arrived, X!Ended
    <3>3. ASSUME pc = "answer", "ACK" \in Answers'
          PROVE  block \in X!Stored' /\ down = <<>>
      <4>1. down = <<>> /\ "ACK" \notin Answers
        BY <1>1, <2>1, <3>3 DEF OnePacket
      <4>2. buf.kind = "block" => buf.n = block
        BY <1>1, <2>1, <3>3 DEF OnePacket
      <4>3. buf.kind = "block" /\ buf.n \in X!Stored'
        BY <1>1, <2>2, <3>3, <4>1, StoreFacts
      <4> QED BY <4>1, <4>2, <4>3
    <3> QED BY <1>1, <2>1, <3>2, <3>3 DEF OnePacket
  <2>3. CASE UNCHANGED <<stored, session>> /\ Answers' \subseteq Answers \cup {"NAK"}
    <3>1. X!Stored' = X!Stored /\ X!Ended' = X!Ended
      BY <2>3 DEF X!Stored, X!Ended
    <3> QED BY <1>1, <2>1, <2>3, <3>1 DEF OnePacket, Arrived
  <2>4. CASE buf.kind = "EOT" /\ session' = stored /\ stored' = <<>>
    <3>1. X!Ended' = X!Stored
      BY <2>4 DEF X!Stored, X!Ended
    <3>2. pc # "answer"
      BY <1>1, <2>1, <2>4 DEF OnePacket
    <3>3. ASSUME pc = "idle", sent > 0
          PROVE  1 .. Blocks \subseteq X!Ended' /\ \A f \in XPackets : OnWay(f)' => f.kind # "EOT"
      <4>1. 1 .. Blocks \subseteq X!Stored
        BY <1>1, <2>1, <2>4, <3>3 DEF Arrived
      <4>2. ASSUME NEW f \in XPackets, OnWay(f)' PROVE f.kind # "EOT"
        BY <1>1, <2>1, <3>3, <4>2 DEF OnePacket, OnWay
      <4> QED BY <3>1, <4>1, <4>2
    <3> QED BY <1>1, <2>1, <3>2, <3>3 DEF OnePacket, Arrived
  <2>5. up' = up => Answers' = Answers
    BY DEF Answers
  <2>6. \/ X!Store(buf) /\ buf.kind # "EOT"
        \/ UNCHANGED <<stored, session>> /\ Answers' \subseteq Answers \cup {"NAK"}
        \/ buf.kind = "EOT" /\ session' = stored /\ stored' = <<>>
    BY <1>1, <2>5, HandleFacts
  <2> QED BY <2>2, <2>3, <2>4, <2>6
<1>3. ASSUME ~ surplus, ~ appended
      PROVE  LastStored' /\ EotLeft' /\ InOrder'
  <2>1. OnePacket /\ LastStored /\ EotLeft /\ InOrder
    BY <1>3 DEF XInv
  <2>2. ASSUME pc # "answer", NEW f \in XPackets, OnWay(f)' PROVE f.kind # "EOT"
    BY <1>1, <2>1, <2>2 DEF OnePacket, OnWay
  <2>3. pc = "answer" => /\ buf.kind \in {"block", "junk"} /\ (buf.kind = "block" => buf.n = block)
                        /\ "ACK" \notin Answers
    BY <1>1, <2>1 DEF OnePacket
  <2>4. pc = "start" /\ stored # <<>> => buf.kind = "EOT" /\ ~ poll
    BY <1>1, <2>1 DEF EotLeft
  <2>5. CASE stored' = stored /\ Answers \subseteq Answers' /\ ~ poll' /\ buf.kind # "EOT"
    <3>1. InOrder'
      BY <1>1, <1>3, <2>1, <2>5 DEF InOrder, X!InOrder
    <3>2. LastStored'
      BY <1>1, <2>1, <2>5 DEF LastStored
    <3>3. EotLeft'
      BY <1>1, <2>2, <2>4, <2>5 DEF EotLeft
    <3> QED BY <3>1, <3>2, <3>3
  <2>6. CASE /\ ~ poll' /\ buf.kind = "block" /\ stored' = Append(stored, buf.n)
             /\ Len(stored) + 1 < area => "ACK" \in Answers'
    <3>1. pc = "answer" /\ buf.n = block
      BY <1>1, <2>1, <2>3, <2>6 DEF OnePacket
    <3>2. stored \in Seq(Nat) /\ block \in Nat /\ area \in Nat /\ Len(stored) \in Nat
      BY <1>1, LenProperties DEF XTypes
    <3>3. /\ Len(stored') = Len(stored) + 1 /\ stored'[Len(stored) + 1] = block
          /\ \A i \in 1 .. Len(stored) : stored'[i] = stored[i]
      BY <2>6, <3>1, <3>2, LineAppend
    <3>4. LastStored'
      BY <1>1, <2>6, <3>1, <3>2, <3>3 DEF LastStored
    <3>5. ASSUME NEW i \in 2 .. Len(stored'), i <= area
          PROVE  stored'[i - 1] < stored'[i] \/ (misheard' /\ stored'[i - 1] = stored'[i])
      <4>1. CASE i <= Len(stored)
        <5>1. i \in 2 .. Len(stored) /\ stored'[i] = stored[i] /\ stored'[i - 1] = stored[i - 1]
          BY <3>2, <3>3, <4>1
        <5> QED BY <1>1, <1>3, <2>1, <3>5, <5>1 DEF InOrder, X!InOrder
      <4>2. CASE i = Len(stored) + 1
        <5>1. stored # <<>> /\ Len(stored) < area /\ i - 1 = Len(stored) /\ Len(stored) \in 1 .. Len(stored)
          BY <3>2, <3>5, <4>2, EmptySeq
        <5>2. \/ stored[Len(stored)] < block
              \/ stored[Len(stored)] = block /\ misheard
          BY <2>1, <2>3, <3>1, <5>1 DEF LastStored
        <5> QED BY <1>1, <3>3, <4>2, <5>1, <5>2
      <4> QED BY <3>2, <3>3, <4>1, <4>2
    <3>6. InOrder' /\ EotLeft'
      BY <1>1, <3>1, <3>5 DEF InOrder, X!InOrder, EotLeft
    <3> QED BY <3>4, <3>6
  <2>7. CASE /\ stored' = stored /\ buf.kind # "block" /\ Answers' = Answers
             /\ (poll' => poll \/ buf.kind = "CMD") /\ (buf.kind = "EOT" => link = "UART")
    <3>1. InOrder'
      BY <1>1, <1>3, <2>1, <2>7 DEF InOrder, X!InOrder
    <3>2. LastStored'
      BY <1>1, <2>1, <2>3, <2>7 DEF LastStored
    <3>3. EotLeft'
      BY <1>1, <2>1, <2>2, <2>4, <2>7 DEF EotLeft
    <3> QED BY <3>1, <3>2, <3>3
  <2>8. CASE stored' = stored /\ poll
    <3>1. InOrder'
      BY <1>1, <1>3, <2>1, <2>8 DEF InOrder, X!InOrder
    <3>2. LastStored' /\ EotLeft'
      BY <1>1, <2>1, <2>2, <2>4, <2>8 DEF LastStored, EotLeft
    <3> QED BY <3>1, <3>2
  <2>9. CASE stored' = <<>>
    BY <2>9, EmptySeq DEF InOrder, X!InOrder, LastStored, EotLeft
  <2>10. \/ stored' = stored /\ Answers \subseteq Answers' /\ ~ poll' /\ buf.kind # "EOT"
         \/ /\ ~ poll' /\ buf.kind = "block" /\ stored' = Append(stored, buf.n)
            /\ Len(stored) + 1 < area => "ACK" \in Answers'
         \/ /\ stored' = stored /\ buf.kind # "block" /\ Answers' = Answers
            /\ (poll' => poll \/ buf.kind = "CMD") /\ (buf.kind = "EOT" => link = "UART")
         \/ stored' = stored /\ poll
         \/ stored' = <<>>
    <3>1. up' = up => Answers' = Answers
      BY DEF Answers
    <3> QED BY <1>1, <3>1, StoreFacts, HandleFacts
  <2> QED BY <2>5, <2>6, <2>7, <2>8, <2>9, <2>10
<1>4. ~ surplus' => ~ surplus
  BY <1>1
<1>5. ~ appended' => ~ appended
  BY <1>1
<1> QED BY <1>2, <1>3, <1>4, <1>5 DEF XInv

(* ... the timer asks for a file or a packet arrives, ...                  *)
LEMMA ArriveInv ==
  ASSUME XInv, XTypes', X!Poll \/ X!Arrive
  PROVE  XInv'
<1>1. /\ UNCHANGED <<link, area, pc, block, sent, stored, session, poll, misheard, surplus, appended>>
      /\ XTypes
  BY DEF X!Poll, X!Arrive, X!pcs, X!device, X!history, XInv
<1>2. X!Stored' = X!Stored /\ X!Ended' = X!Ended /\ (~ surplus /\ ~ appended => (InOrder => InOrder'))
  BY <1>1 DEF X!Stored, X!Ended, InOrder, X!InOrder
<1>3. CASE X!Poll
  <2>1. poll /\ UNCHANGED <<down, xmodem_woken, buf>> /\ up = <<>> /\ up' = <<"NAK">>
    BY <1>3 DEF X!Poll, X!Polling, X!device
  <2>2. Answers = {} /\ Answers' = {"NAK"} /\ \A f : OnWay(f)' <=> OnWay(f)
    BY <2>1 DEF Answers, Elements, OnWay
  <2>3. ~ surplus => OnePacket' /\ Arrived'
    BY <1>1, <1>2, <2>1, <2>2 DEF XInv, OnePacket, Arrived
  <2>4. ~ surplus /\ ~ appended => LastStored' /\ EotLeft'
    BY <1>1, <2>1, <2>2 DEF XInv, LastStored, EotLeft
  <2> QED BY <1>1, <1>2, <2>3, <2>4 DEF XInv
<1>4. CASE X!Arrive
  <2>1. down # <<>> /\ buf' = Head(down) /\ xmodem_woken' /\ down' = Tail(down) /\ up' = up
    BY <1>4 DEF X!Arrive
  <2>2. Answers' = Answers
    BY <2>1 DEF Answers
  <2>3. ASSUME ~ surplus PROVE down' = <<>> /\ Len(down') = 0 /\ \A f : OnWay(f)' => OnWay(f)
    <3>1. Len(down) <= 1
      BY <2>3 DEF XInv, OnePacket
    <3>2. down' = <<>>
      BY <1>1, <2>1, <3>1, LineTail DEF XTypes
    <3> QED BY <2>1, <3>2 DEF OnWay
  <2>4. ~ surplus => OnePacket' /\ Arrived'
    BY <1>1, <1>2, <2>1, <2>2, <2>3 DEF XInv, OnePacket, Arrived
  <2>5. ~ surplus /\ ~ appended => LastStored' /\ EotLeft'
    BY <1>1, <2>1, <2>2, <2>3 DEF XInv, LastStored, EotLeft
  <2> QED BY <1>1, <1>2, <2>4, <2>5 DEF XInv
<1> QED BY <1>3, <1>4

(* ... something is lost or damaged, ...                                   *)
LEMMA DamageInv ==
  ASSUME XInv, XTypes', X!Damage
  PROVE  XInv'
<1>1. /\ UNCHANGED <<link, area, pc, block, sent, buf, stored, session, poll, xmodem_woken, surplus, appended>>
      /\ link = "UART" /\ XTypes
  BY DamageFacts DEF XInv
<1>2. X!Stored' = X!Stored /\ X!Ended' = X!Ended
  BY <1>1 DEF X!Stored, X!Ended
<1>3. misheard => misheard'
  BY DamageFacts, <1>1
<1>4. ~ surplus /\ ~ appended => InOrder'
  BY <1>1, <1>3 DEF XInv, InOrder, X!InOrder
<1>5. CASE /\ down' = down /\ up # <<>> /\ misheard' /\ Answers' \subseteq Answers \cup {"junk"}
  <2>1. \A f : OnWay(f)' <=> OnWay(f)
    BY <1>1, <1>5 DEF OnWay
  <2>2. ~ surplus => OnePacket' /\ Arrived'
    BY <1>1, <1>2, <1>5, <2>1 DEF XInv, OnePacket, Arrived
  <2>3. ~ surplus /\ ~ appended => LastStored' /\ EotLeft'
    BY <1>1, <1>5, <2>1 DEF XInv, LastStored, EotLeft
  <2> QED BY <1>1, <1>4, <2>2, <2>3 DEF XInv
<1>6. CASE /\ up' = up /\ misheard' = misheard /\ down # <<>>
           /\ Len(down) <= 1 =>
                \/ down' = <<>> /\ Len(down') = 0
                \/ Len(down') = 1 /\ Head(down').kind = "junk"
  <2>1. Answers' = Answers
    BY <1>6 DEF Answers
  <2>2. ASSUME ~ surplus
        PROVE  /\ Len(down') <= 1 /\ (down' # <<>> => Head(down').kind = "junk")
               /\ \A f : OnWay(f)' => OnWay(f) \/ f.kind = "junk"
    <3>1. Len(down) <= 1
      BY <2>2 DEF XInv, OnePacket
    <3> QED BY <1>1, <1>6, <3>1 DEF OnWay
  <2>3. ~ surplus => OnePacket' /\ Arrived'
    BY <1>1, <1>2, <1>6, <2>1, <2>2 DEF XInv, OnePacket, Arrived
  <2>4. ~ surplus /\ ~ appended => LastStored' /\ EotLeft'
    BY <1>1, <1>6, <2>1, <2>2 DEF XInv, LastStored, EotLeft
  <2> QED BY <1>1, <1>4, <2>3, <2>4 DEF XInv
<1> QED BY <1>1, <1>5, <1>6, DamageFacts

(* ... the user gives a command or starts a download, ...                  *)
LEMMA UserInv ==
  ASSUME XInv, XTypes', X!Command \/ X!Download
  PROVE  XInv'
<1>1. /\ UNCHANGED <<link, area, up, buf, stored, session, poll, xmodem_woken, misheard, surplus>>
      /\ pc = "idle" /\ down = <<>> /\ Answers' = Answers /\ (~ appended' => ~ appended) /\ XTypes
  <2>1. /\ UNCHANGED <<link, area, up, buf, stored, session, poll, xmodem_woken, misheard, surplus>>
        /\ pc = "idle" /\ down = <<>>
    BY DEF X!Command, X!Download, X!pcs, X!device, X!history
  <2>2. Answers' = Answers
    BY <2>1 DEF Answers
  <2>3. ~ appended' => ~ appended
    BY Zenon DEF X!Command, X!Download, X!history
  <2> QED BY <2>1, <2>2, <2>3 DEF XInv
<1>2. X!Stored' = X!Stored /\ X!Ended' = X!Ended
  BY <1>1 DEF X!Stored, X!Ended
<1>3. ~ surplus /\ ~ appended' => InOrder'
  BY <1>1 DEF XInv, InOrder, X!InOrder
<1>4. CASE X!Command
  <2>1. /\ pc' = pc /\ sent' = sent /\ appended' = appended
        /\ down' = <<X!Packet("CMD")>> /\ X!Packet("CMD").kind = "CMD"
    BY <1>4 DEF X!Command, X!pcs, X!history, X!Packet
  <2>2. Len(down') = 1 /\ Head(down').kind = "CMD" /\ \A f : OnWay(f)' => OnWay(f) \/ f.kind = "CMD"
    BY <1>1, <2>1 DEF OnWay
  <2>3. ~ surplus => OnePacket' /\ Arrived'
    BY <1>1, <1>2, <2>1, <2>2 DEF XInv, OnePacket, Arrived
  <2>4. ~ surplus /\ ~ appended => LastStored' /\ EotLeft'
    BY <1>1, <2>1, <2>2 DEF XInv, LastStored, EotLeft
  <2> QED BY <1>1, <1>3, <2>1, <2>3, <2>4 DEF XInv
<1>5. CASE X!Download
  <2>1. pc' = "start" /\ down' = down /\ \A f : OnWay(f)' <=> OnWay(f)
    BY <1>1, <1>5 DEF X!Download, OnWay
  <2>2. ~ surplus => OnePacket' /\ Arrived'
    BY <1>1, <2>1 DEF XInv, OnePacket, Arrived
  <2>3. ASSUME ~ surplus, ~ appended', stored # <<>>
        PROVE  ~ poll /\ "NAK" \notin Answers /\ xmodem_woken /\ buf.kind = "EOT"
    <3>1. ~ appended /\ xmodem_woken /\ buf.kind = "EOT"
      BY <1>5, <2>3 DEF X!Download
    <3>2. OnWay(buf) /\ buf \in XPackets
      BY <1>1, <3>1 DEF OnWay, XTypes
    <3>3. ~ poll /\ up = <<>>
      BY <1>1, <2>3, <3>1, <3>2 DEF XInv, EotLeft
    <3> QED BY <3>1, <3>3 DEF Answers, Elements
  <2>4. ~ surplus /\ ~ appended' => LastStored' /\ EotLeft'
    BY <1>1, <2>1, <2>3 DEF LastStored, EotLeft
  <2> QED BY <1>1, <1>3, <2>2, <2>4 DEF XInv
<1> QED BY <1>4, <1>5

(* ... or the configurator acts.                                           *)
LEMMA ConfiguratorInv ==
  ASSUME XInv, XTypes', X!Start \/ X!Proceed \/ X!Retry \/ X!Timeout
  PROVE  XInv'
<1>1. /\ UNCHANGED <<link, area, buf, stored, session, poll, xmodem_woken, appended>>
      /\ (~ surplus' => ~ surplus) /\ (misheard => misheard') /\ XTypes
  <2>1. UNCHANGED <<link, area, buf, stored, session, poll, xmodem_woken, appended>>
    BY DEF X!Start, X!Proceed, X!Retry, X!Timeout, X!device
  <2>2. ~ surplus' => ~ surplus
    BY DEF X!Start, X!Proceed, X!Retry, X!Timeout, X!Send
  <2>3. misheard => misheard'
    BY ReadFacts DEF X!Start, X!Proceed, X!Retry, X!Timeout, XInv
  <2> QED BY <2>1, <2>2, <2>3 DEF XInv
<1>2. X!Stored' = X!Stored /\ X!Ended' = X!Ended
  BY <1>1 DEF X!Stored, X!Ended
<1>3. ~ surplus' /\ ~ appended => InOrder'
  BY <1>1 DEF XInv, InOrder, X!InOrder
<1>4. \A n \in Nat : X!Block(n) \in XPackets /\ X!Block(n).kind = "block" /\ X!Block(n).n = n
  BY DEF X!Block, XPackets
<1>5. ASSUME NEW f \in XPackets, X!Send(f), ~ surplus'
      PROVE  /\ down = <<>> /\ ~ xmodem_woken /\ up' = <<>> /\ Answers' = {}
             /\ Len(down') = 1 /\ Head(down') = f /\ \A g : OnWay(g)' => g = f
  <2>1. /\ down = <<>> /\ ~ xmodem_woken /\ up' = <<>> /\ Len(down') = 1 /\ Head(down') = f
    BY <1>1, <1>5, SendFacts
  <2>2. Answers' = {}
    BY <2>1 DEF Answers, Elements
  <2> QED BY <1>1, <2>1, <2>2 DEF OnWay
<1>6. ASSUME NEW n \in Nat, X!Send(X!Block(n)), ~ surplus', block' = n, pc' = "answer"
      PROVE  OnePacket'
  <2>1. /\ Len(down') = 1 /\ ~ xmodem_woken' /\ Answers' = {} /\ \A g : OnWay(g)' => g = X!Block(n)
    BY <1>1, <1>4, <1>5, <1>6
  <2> QED BY <1>4, <1>6, <2>1 DEF OnePacket
<1>7. CASE X!Start /\ Head(up) = "NAK"
  <2>1. pc = "start" /\ pc' = "answer" /\ block' = block /\ block = 1 /\ X!Send(X!Block(1))
    BY <1>1, <1>7 DEF X!Start, XTypes
  <2>2. ~ surplus' => OnePacket' /\ Arrived'
    BY <1>6, <2>1 DEF Arrived
  <2>3. "NAK" \in Answers
    BY <1>1, <1>7, ReadFacts DEF X!Start
  <2>4. ~ surplus' /\ ~ appended => stored = <<>>
    BY <1>1, <2>1, <2>3 DEF XInv, EotLeft
  <2>5. ~ surplus' /\ ~ appended => LastStored' /\ EotLeft'
    BY <1>1, <2>1, <2>4 DEF LastStored, EotLeft
  <2> QED BY <1>1, <1>3, <2>2, <2>5 DEF XInv
<1>8. CASE X!Start /\ Head(up) # "NAK"
  <2>1. UNCHANGED <<pc, block, down, surplus>> /\ pc = "start" /\ \A f : OnWay(f)' <=> OnWay(f)
    BY <1>1, <1>8 DEF X!Start, OnWay
  <2>2. Answers' \subseteq Answers
    BY <1>1, <1>8, ReadFacts DEF X!Start
  <2>3. ~ surplus => OnePacket' /\ Arrived'
    BY <1>1, <2>1, <2>2 DEF XInv, OnePacket, Arrived
  <2>4. ~ surplus /\ ~ appended => LastStored' /\ EotLeft'
    BY <1>1, <2>1, <2>2 DEF XInv, LastStored, EotLeft
  <2> QED BY <1>1, <1>3, <2>1, <2>3, <2>4 DEF XInv
<1>9. CASE X!Proceed
  <2>1. pc = "answer" /\ "ACK" \in Answers /\ block \in Nat /\ block > 0
    BY <1>1, <1>9, ReadFacts DEF X!Proceed, X!Confirms, XTypes
  <2>2. ~ surplus' => 1 .. block \subseteq X!Stored
    <3>1. ~ surplus' => block \in X!Stored /\ 1 .. block - 1 \subseteq X!Stored
      BY <1>1, <2>1 DEF XInv, OnePacket, Arrived
    <3> QED BY <2>1, <3>1
  <2>3. CASE block = Blocks
    <3>1. pc' = "idle" /\ block' = block /\ X!Send(X!Packet("EOT"))
      BY <1>9, <2>3 DEF X!Proceed
    <3>2. X!Packet("EOT") \in XPackets /\ X!Packet("EOT").kind = "EOT"
      BY DEF X!Packet, XPackets
    <3>3. ASSUME ~ surplus' PROVE OnePacket' /\ Arrived'
      <4>1. Len(down') = 1 /\ ~ xmodem_woken' /\ \A g : OnWay(g)' => g.kind = "EOT"
        BY <1>1, <1>5, <3>1, <3>2, <3>3
      <4>2. 1 .. Blocks \subseteq X!Stored'
        BY <1>2, <2>2, <2>3, <3>3
      <4>3. OnePacket'
        BY <3>1, <4>1 DEF OnePacket
      <4>4. Arrived'
        BY <3>1, <4>2 DEF Arrived
      <4> QED BY <4>3, <4>4
    <3>4. ~ surplus' /\ ~ appended => LastStored' /\ EotLeft'
      BY <1>1, <1>5, <2>1, <3>1, <3>2 DEF XInv, LastStored, EotLeft
    <3> QED BY <1>1, <1>3, <3>3, <3>4 DEF XInv
  <2>4. CASE block # Blocks
    <3>1. pc' = "answer" /\ block' = block + 1 /\ X!Send(X!Block(block + 1))
      BY <1>9, <2>1, <2>4 DEF X!Proceed
    <3>2. ~ surplus' => OnePacket' /\ Arrived'
      BY <1>1, <1>2, <1>6, <2>1, <2>2, <3>1 DEF Arrived
    <3>3. ASSUME ~ surplus', ~ appended PROVE LastStored' /\ EotLeft'
      <4>1. LastStored /\ stored \in Seq(Nat)
        BY <1>1, <3>3 DEF XInv, XTypes
      <4>2. stored # <<>> => stored[Len(stored)] \in Nat
        BY <4>1, EmptySeq, ElementOfSeq
      <4> QED BY <1>1, <2>1, <3>1, <4>1, <4>2 DEF LastStored, EotLeft
    <3> QED BY <1>1, <1>3, <3>2, <3>3 DEF XInv
  <2> QED BY <2>3, <2>4
<1>10. CASE X!Retry \/ X!Timeout
  <2>1. UNCHANGED <<pc, block, sent>> /\ pc = "answer" /\ X!Send(X!Block(block)) /\ block \in Nat
    BY <1>1, <1>10 DEF X!Retry, X!Timeout, X!pcs, XTypes
  <2>2. ~ surplus' => OnePacket' /\ Arrived'
    BY <1>1, <1>2, <1>6, <2>1 DEF XInv, Arrived
  <2>3. ASSUME ~ surplus', "ACK" \in Answers PROVE misheard'
    <3>1. Answers' = {}
      BY <1>4, <1>5, <2>1, <2>3
    <3>2. CASE X!Timeout
      <4>1. up' = up
        BY <3>2 DEF X!Timeout
      <4> QED BY <2>3, <3>1, <4>1 DEF Answers
    <3>3. CASE X!Retry
      BY <1>1, <2>3, <3>1, <3>3, ReadFacts DEF X!Retry, X!Confirms
    <3> QED BY <1>10, <3>2, <3>3
  <2>4. ~ surplus' /\ ~ appended => LastStored' /\ EotLeft'
    BY <1>1, <2>1, <2>3 DEF XInv, LastStored, EotLeft
  <2> QED BY <1>1, <1>3, <2>2, <2>4 DEF XInv
<1> QED BY <1>7, <1>8, <1>9, <1>10

(* Every step keeps the invariant.                                         *)
LEMMA XmodemStepInv ==
  ASSUME XInv, [Next]_vars
  PROVE  XInv'
<1>1. CASE X!Next
  <2>1. XTypes'
    BY <1>1, XTypesStep, XmodemAssumption DEF XInv
  <2> QED BY <1>1, <2>1, HandleInv, ArriveInv, DamageInv, UserInv, ConfiguratorInv, XmodemAssumption
          DEF X!Next
<1>2. CASE UNCHANGED xmodem
  <2>1. /\ UNCHANGED <<link, area, pc, block, sent, down, up, buf, xmodem_woken, poll, stored, session,
                       misheard, surplus, appended>>
    BY <1>2 DEF xmodem
  <2>2. /\ Answers' = Answers /\ X!Stored' = X!Stored /\ X!Ended' = X!Ended
        /\ \A f : OnWay(f)' <=> OnWay(f)
    BY <2>1 DEF Answers, X!Stored, X!Ended, OnWay
  <2> QED BY <2>1, <2>2 DEF XInv, XTypes, OnePacket, Arrived, LastStored, EotLeft, InOrder, X!InOrder
<1> QED BY <1>1, <1>2, XmodemStep

(* Before the first file nothing is stored and nothing is on the line.     *)
LEMMA XmodemInitInv == Init => XInv
<1> SUFFICES ASSUME Init PROVE XInv
  OBVIOUS
<1>1. /\ pc = "idle" /\ block = 0 /\ sent = 0 /\ area \in Areas /\ down = <<>> /\ up = <<>>
      /\ buf = X!Packet("none") /\ ~ xmodem_woken /\ stored = <<>> /\ session = <<>>
  BY DEF Init, X!Init
<1>2. buf \in XPackets /\ area \in Nat
  BY <1>1, XmodemAssumption DEF X!Packet, XPackets
<1>3. \A f : ~ OnWay(f)
  BY <1>1 DEF OnWay
<1>4. XTypes
  BY <1>1, <1>2, EmptySeq DEF XTypes
<1>5. Len(down) = 0 /\ Len(stored) = 0
  BY <1>1
<1> QED BY <1>1, <1>3, <1>4, <1>5 DEF XInv, OnePacket, Arrived, LastStored, EotLeft, InOrder, X!InOrder

(* No block the configurator has gone past is missing in the area or, once *)
(* the session has ended, in what was stored, whatever the line loses or   *)
(* damages and however many blocks and areas there are, as long as nothing *)
(* is sent while something is under way.                                   *)
THEOREM StoresAll == Spec => []NoneMissing
<1>1. XInv => NoneMissing
  BY DEF XInv, XTypes, Arrived, NoneMissing, X!NoneMissing
<1> QED BY <1>1, XmodemInitInv, XmodemStepInv, PTL DEF Spec

(* The blocks in the area are in their order, and one is there twice only  *)
(* if an answer did not get through.                                       *)
THEOREM StoresInOrder == Spec => []InOrder
<1>1. XInv => InOrder
  BY DEF XInv, InOrder, X!InOrder
<1> QED BY <1>1, XmodemInitInv, XmodemStepInv, PTL DEF Spec
-----------------------------------------------------------------------------
(* What a Modbus request stores and reads.                                 *)

(* The arrays hold what was last asked for, where that is known, ...       *)
Holds ==
  /\ \A x \in M!RegSet : asked.reg[x] \in {<<M!Unknown, M!Unknown>>, <<holding[2 * x], holding[2 * x + 1]>>}
  /\ \A c \in M!CoilSet : asked.coil[c] \in {M!Unknown, coils[c]}

(* ... and the transmit packet an answer to one of the frames there were.  *)
ModbusInv ==
  /\ DOMAIN holding = 0 .. 4 * Regs - 1 /\ DOMAIN coils = 0 .. 3 * Coils - 1
  /\ DOMAIN asked = {"reg", "coil"} /\ DOMAIN asked.reg = M!RegSet /\ DOMAIN asked.coil = M!CoilSet
  /\ tx.of \in Nat /\ frame.number \in Nat /\ tx.of <= frame.number
  /\ Holds

(* One function laid over another.                                         *)
LEMMA OverlayFacts ==
  ASSUME NEW f, NEW g
  PROVE  /\ DOMAIN M!Overlay(f, g) = DOMAIN g
         /\ \A x \in DOMAIN g : M!Overlay(f, g)[x] = IF x \in DOMAIN f THEN f[x] ELSE g[x]
BY DEF M!Overlay

(* The bytes of a register are in the array.                               *)
LEMMA RegisterBytes ==
  ASSUME ModbusAssumption, NEW x \in M!RegSet
  PROVE  x \in Nat /\ 2 * x \in 0 .. 4 * Regs - 1 /\ 2 * x + 1 \in 0 .. 4 * Regs - 1
<1>1. Regs \in Nat /\ Regs \div 2 \in Nat /\ 2 * (Regs \div 2) <= Regs
  BY DEF ModbusAssumption
<1>2. x \in Nat /\ x <= Regs \div 2 - 1
  BY <1>1 DEF M!RegSet
<1> QED BY <1>1, <1>2

(* The bytes of a register that a request leaves alone.                    *)
LEMMA BytesApart ==
  ASSUME NEW x \in Nat, NEW a \in Nat, NEW b \in Int, x # a, x # b \div 2
  PROVE  /\ 2 * x \notin {2 * a, 2 * a + 1} /\ 2 * x + 1 \notin {2 * a, 2 * a + 1}
         /\ 2 * x # b /\ 2 * x + 1 # b
OBVIOUS

(* What a request stores in the registers is what it asks for, or its      *)
(* values are not known.                                                   *)
LEMMA RegistersHold ==
  ASSUME ModbusAssumption, ModbusInv, NEW r \in Requests, M!Process(r)
  PROVE  /\ DOMAIN asked'.reg = M!RegSet
         /\ \A x \in M!RegSet : asked'.reg[x] \in {<<M!Unknown, M!Unknown>>, <<holding'[2 * x], holding'[2 * x + 1]>>}
<1>1. /\ holding' = M!Overlay(M!RegWrites(r), M!Overlay(M!BitWrites(r), holding))
      /\ asked'.reg = [x \in M!RegSet |-> M!AskedReg(r, x)]
  BY DEF M!Process
<1>2. r.at \in Nat /\ DOMAIN holding = 0 .. 4 * Regs - 1
  BY DEF ModbusAssumption, ModbusInv
<1> SUFFICES ASSUME NEW x \in M!RegSet
             PROVE  M!AskedReg(r, x) \in {<<M!Unknown, M!Unknown>>, <<holding'[2 * x], holding'[2 * x + 1]>>}
  BY <1>1
<1>3. x \in Nat /\ 2 * x \in DOMAIN holding /\ 2 * x + 1 \in DOMAIN holding
  BY <1>2, RegisterBytes
<1>4. \A j \in {2 * x, 2 * x + 1} :
         holding'[j] = IF j \in DOMAIN M!RegWrites(r) THEN M!RegWrites(r)[j]
                       ELSE IF j \in DOMAIN M!BitWrites(r) THEN M!BitWrites(r)[j] ELSE holding[j]
  BY <1>1, <1>3, OverlayFacts
<1>5. asked.reg[x] \in {<<M!Unknown, M!Unknown>>, <<holding[2 * x], holding[2 * x + 1]>>}
  BY DEF ModbusInv, Holds
<1>6. ASSUME /\ 2 * x \notin DOMAIN M!RegWrites(r) /\ 2 * x + 1 \notin DOMAIN M!RegWrites(r)
             /\ 2 * x \notin DOMAIN M!BitWrites(r) /\ 2 * x + 1 \notin DOMAIN M!BitWrites(r)
      PROVE  asked.reg[x] \in {<<M!Unknown, M!Unknown>>, <<holding'[2 * x], holding'[2 * x + 1]>>}
  BY <1>4, <1>5, <1>6
<1>7. r.fc # "WRITE_COIL" => M!BitWrites(r) = <<>> /\ DOMAIN M!BitWrites(r) = {}
  BY DEF M!BitWrites, M!WritesCoil
<1>8. CASE r.fc = "WRITE_REGISTER" /\ M!Legal(r)
  <2>1. /\ DOMAIN M!RegWrites(r) = {2 * r.at, 2 * r.at + 1}
        /\ M!RegWrites(r) = [j \in {2 * r.at, 2 * r.at + 1} |-> r.data[j - 2 * r.at + 1]]
    BY <1>8 DEF M!RegWrites, M!RegByte
  <2>2. CASE x = r.at
    <3>1. M!RegWrites(r)[2 * x] = r.data[1] /\ M!RegWrites(r)[2 * x + 1] = r.data[2]
      <4>1. 2 * x - 2 * x + 1 = 1 /\ (2 * x + 1) - 2 * x + 1 = 2
        BY <1>3
      <4> QED BY <2>1, <2>2, <4>1
    <3>2. holding'[2 * x] = r.data[1] /\ holding'[2 * x + 1] = r.data[2]
      BY <1>4, <2>1, <2>2, <3>1
    <3>3. M!AskedReg(r, x) = r.data /\ r.data = <<r.data[1], r.data[2]>>
      BY <1>8, <2>2 DEF ModbusAssumption, M!AskedReg
    <3> QED BY <3>2, <3>3
  <2>3. CASE x # r.at
    <3>1. 2 * x \notin DOMAIN M!RegWrites(r) /\ 2 * x + 1 \notin DOMAIN M!RegWrites(r)
      BY <1>2, <1>3, <2>1, <2>3
    <3>2. M!AskedReg(r, x) = asked.reg[x]
      BY <1>8, <2>3 DEF M!AskedReg, M!Spoils
    <3> QED BY <1>6, <1>7, <1>8, <3>1, <3>2
  <2> QED BY <2>2, <2>3
<1>9. CASE r.fc = "WRITE_COIL"
  <2>1. CASE x \in {r.at, M!Behind(r.at) \div 2}
    BY <1>9, <2>1 DEF M!AskedReg, M!Spoils
  <2>2. CASE x \notin {r.at, M!Behind(r.at) \div 2}
    <3>1. DOMAIN M!RegWrites(r) \subseteq {2 * r.at, 2 * r.at + 1}
      <4>1. CASE M!Legal(r)
        BY <1>9, <4>1 DEF M!RegWrites, M!RegByte
      <4>2. CASE ~ M!Legal(r)
        <5>1. M!RegWrites(r) = <<>>
          BY <1>9, <4>2 DEF M!RegWrites
        <5> QED BY <5>1
      <4> QED BY <4>1, <4>2
    <3>2. DOMAIN M!BitWrites(r) \subseteq {M!Behind(r.at)}
      <4>1. CASE M!WritesCoil(r)
        BY <4>1 DEF M!BitWrites
      <4>2. CASE ~ M!WritesCoil(r)
        <5>1. M!BitWrites(r) = <<>>
          BY <4>2 DEF M!BitWrites
        <5> QED BY <5>1
      <4> QED BY <4>1, <4>2
    <3>3. M!Behind(r.at) \in Int
      BY <1>2 DEF M!Behind, ModbusAssumption
    <3>4. /\ 2 * x \notin {2 * r.at, 2 * r.at + 1} /\ 2 * x + 1 \notin {2 * r.at, 2 * r.at + 1}
          /\ 2 * x # M!Behind(r.at) /\ 2 * x + 1 # M!Behind(r.at)
      BY <1>2, <1>3, <2>2, <3>3, BytesApart
    <3>5. M!AskedReg(r, x) = asked.reg[x]
      BY <1>9, <2>2 DEF M!AskedReg, M!Spoils
    <3>6. /\ 2 * x \notin DOMAIN M!RegWrites(r) /\ 2 * x + 1 \notin DOMAIN M!RegWrites(r)
          /\ 2 * x \notin DOMAIN M!BitWrites(r) /\ 2 * x + 1 \notin DOMAIN M!BitWrites(r)
      BY <3>1, <3>2, <3>4
    <3> QED BY <1>6, <3>5, <3>6
  <2> QED BY <2>1, <2>2
<1>10. CASE r.fc = "WRITE_MULTIPLE_REGISTERS" /\ M!Legal(r)
  <2> DEFINE n == Len(r.data)
  <2>1. /\ DOMAIN M!RegWrites(r) = r.at .. r.at + n - 1
        /\ M!RegWrites(r) = [j \in r.at .. r.at + n - 1 |-> r.data[j - r.at + 1]]
    BY <1>10 DEF M!RegWrites
  <2>2. n \in Nat
    BY DEF ModbusAssumption
  <2>3. M!AskedReg(r, x) = IF r.at = 0 /\ 2 * x + 1 < n THEN <<r.data[2 * x + 1], r.data[2 * x + 2]>>
                           ELSE IF x \in r.at \div 2 .. r.at + n THEN <<M!Unknown, M!Unknown>>
                           ELSE asked.reg[x]
    BY <1>10 DEF M!AskedReg, M!Spoils
  <2> HIDE DEF n
  <2>4. CASE r.at = 0 /\ 2 * x + 1 < n
    <3>1. /\ 2 * x \in r.at .. r.at + n - 1 /\ 2 * x + 1 \in r.at .. r.at + n - 1
          /\ 2 * x - r.at + 1 = 2 * x + 1 /\ (2 * x + 1) - r.at + 1 = 2 * x + 2
      BY <1>3, <2>2, <2>4
    <3>2. M!RegWrites(r)[2 * x] = r.data[2 * x + 1] /\ M!RegWrites(r)[2 * x + 1] = r.data[2 * x + 2]
      BY <2>1, <3>1
    <3>3. holding'[2 * x] = r.data[2 * x + 1] /\ holding'[2 * x + 1] = r.data[2 * x + 2]
      BY <1>4, <2>1, <3>1, <3>2
    <3> QED BY <2>3, <2>4, <3>3
  <2>5. CASE ~ (r.at = 0 /\ 2 * x + 1 < n) /\ x \in r.at \div 2 .. r.at + n
    BY <2>3, <2>5
  <2>6. CASE ~ (r.at = 0 /\ 2 * x + 1 < n) /\ x \notin r.at \div 2 .. r.at + n
    <3>1. 2 * x \notin r.at .. r.at + n - 1 /\ 2 * x + 1 \notin r.at .. r.at + n - 1
      BY <1>2, <1>3, <2>2, <2>6
    <3> QED BY <1>6, <1>7, <1>10, <2>1, <2>3, <2>6, <3>1
  <2> QED BY <2>4, <2>5, <2>6
<1>11. CASE r.fc # "WRITE_COIL" /\ ~ (r.fc \in {"WRITE_REGISTER", "WRITE_MULTIPLE_REGISTERS"} /\ M!Legal(r))
  <2>1. M!RegWrites(r) = <<>> /\ DOMAIN M!RegWrites(r) = {}
    BY <1>11 DEF M!RegWrites
  <2>2. M!AskedReg(r, x) = asked.reg[x]
    BY <1>11 DEF M!AskedReg, M!Spoils
  <2> QED BY <1>6, <1>7, <1>11, <2>1, <2>2
<1> QED BY <1>8, <1>9, <1>10, <1>11

(* The quotient and the remainder of a division.                           *)
LEMMA Remainder ==
  ASSUME NEW n \in Nat, NEW d \in Nat \ {0}
  PROVE  n \div d \in Nat /\ n % d \in 0 .. d - 1 /\ n = (n \div d) * d + (n % d)
OBVIOUS

(* A number below the divisor that is left is the remainder.               *)
LEMMA RemainderUnique ==
  ASSUME NEW n \in Nat, NEW d \in Nat \ {0}, NEW t \in Nat, NEW u \in 0 .. d - 1, n = t * d + u
  PROVE  n % d = u
OBVIOUS

(* The same of the coils.                                                  *)
LEMMA CoilsHold ==
  ASSUME ModbusAssumption, ModbusInv, NEW r \in Requests, M!Process(r)
  PROVE  /\ DOMAIN coils' = 0 .. 3 * Coils - 1 /\ DOMAIN asked'.coil = M!CoilSet
         /\ \A c \in M!CoilSet : asked'.coil[c] \in {M!Unknown, coils'[c]}
<1> DEFINE w(crc) == IF M!ReadsBits(r) THEN M!Gathered(r) ELSE M!CoilWrites(r, crc)
<1>1. PICK crc \in {0, 1} : coils' = M!Overlay(w(crc), coils)
  BY DEF M!Process
<1>2. asked'.coil = M!Overlay(M!AskedCoils(r), asked.coil)
  BY DEF M!Process
<1>3. /\ r.at \in Nat /\ r.n \in Nat /\ Coils \in Nat /\ Bits \in Nat \ {0}
      /\ DOMAIN asked.coil = M!CoilSet /\ DOMAIN coils = 0 .. 3 * Coils - 1
  BY DEF ModbusAssumption, ModbusInv
<1>4. /\ DOMAIN coils' = 0 .. 3 * Coils - 1
      /\ \A c \in M!CoilSet : c \in DOMAIN coils
      /\ \A c \in DOMAIN coils : coils'[c] = IF c \in DOMAIN w(crc) THEN w(crc)[c] ELSE coils[c]
  <2>1. \A c \in M!CoilSet : c \in 0 .. 3 * Coils - 1
    BY <1>3 DEF M!CoilSet
  <2> HIDE DEF w
  <2> QED BY <1>1, <1>3, <2>1, OverlayFacts
<1>5. \A c \in M!CoilSet : asked.coil[c] \in {M!Unknown, coils[c]}
  BY DEF ModbusInv, Holds
<1>6. /\ DOMAIN asked'.coil = M!CoilSet
      /\ \A c \in M!CoilSet : asked'.coil[c] = IF c \in DOMAIN M!AskedCoils(r)
                                               THEN M!AskedCoils(r)[c] ELSE asked.coil[c]
  BY <1>2, <1>3, OverlayFacts
<1>7. CASE M!WritesCoil(r)
  <2>1. ~ M!ReadsBits(r) /\ M!CoilWrites(r, crc) = M!AskedCoils(r)
    BY <1>7 DEF M!CoilWrites, M!AskedCoils, M!WritesCoil, M!ReadsBits
  <2>2. w(crc) = M!AskedCoils(r)
    BY <2>1
  <2> HIDE DEF w
  <2> QED BY <1>4, <1>5, <1>6, <2>2
<1>8. CASE r.fc = "WRITE_MULTIPLE_COILS" /\ M!Legal(r)
  <2> DEFINE g == [c \in r.at .. r.at + r.n - 1 |-> M!Bit(r, M!DataBit(r.at, c - r.at), crc)]
             h == [c \in r.at .. r.at + r.n - 1 |-> IF r.at % Bits = 0 THEN r.data[c - r.at + 1] ELSE M!Unknown]
  <2>1. ~ M!ReadsBits(r) /\ M!CoilWrites(r, crc) = g /\ M!AskedCoils(r) = h
    BY <1>8 DEF M!CoilWrites, M!AskedCoils, M!WritesCoil, M!ReadsBits
  <2>2. w(crc) = g
    BY <2>1
  <2>3. \A c \in r.at .. r.at + r.n - 1 : h[c] \in {M!Unknown, g[c]}
    <3>1. ASSUME NEW c \in r.at .. r.at + r.n - 1, r.at % Bits = 0
          PROVE  M!Bit(r, M!DataBit(r.at, c - r.at), crc) = r.data[c - r.at + 1]
      <4>1. M!DataBit(r.at, c - r.at) = c - r.at /\ c - r.at < r.n
        BY <1>3, <3>1 DEF M!DataBit
      <4>2. r.n \in Int /\ c - r.at \in Int /\ ~ (c - r.at >= r.n)
        BY <1>3, <4>1
      <4> QED BY <4>1, <4>2 DEF M!Bit
    <3> QED BY <3>1
  <2>4. DOMAIN g = DOMAIN h /\ DOMAIN h = r.at .. r.at + r.n - 1
    OBVIOUS
  <2> HIDE DEF g, h, w
  <2> QED BY <1>4, <1>5, <1>6, <2>1, <2>2, <2>3, <2>4
<1>9. CASE ~ M!WritesCoil(r) /\ ~ (r.fc = "WRITE_MULTIPLE_COILS" /\ M!Legal(r))
  <2>1. M!CoilWrites(r, crc) = <<>> /\ DOMAIN M!CoilWrites(r, crc) = {} /\ M!AskedCoils(r) = <<>> /\ DOMAIN M!AskedCoils(r) = {}
    BY <1>9 DEF M!CoilWrites, M!AskedCoils
  <2>2. DOMAIN M!Gathered(r) = {Coils + M!TempBit(r.at, k) : k \in 0 .. r.n - 1}
    BY DEF M!Gathered
  <2>3. \A c \in M!CoilSet : c \notin DOMAIN M!Gathered(r)
    <3>1. ASSUME NEW k \in 0 .. r.n - 1
          PROVE  M!TempBit(r.at, k) \in Nat
      <4>1. k \in Nat /\ r.at + k \in Nat
        BY <1>3
      <4>2. k \div Bits \in Nat /\ (r.at + k) % Bits \in Nat
        <5>1. \A m \in Nat : m \div Bits \in Nat /\ m % Bits \in 0 .. Bits - 1
          BY <1>3, Remainder
        <5>2. \A m \in 0 .. Bits - 1 : m \in Nat
          BY <1>3
        <5> QED BY <4>1, <5>1, <5>2
      <4>3. \A a, b, d \in Nat : a * b + d \in Nat
        OBVIOUS
      <4> QED BY <1>3, <4>2, <4>3 DEF M!TempBit
    <3> QED BY <1>3, <2>2, <3>1 DEF M!CoilSet
  <2>4. \A c \in M!CoilSet : c \notin DOMAIN w(crc)
    BY <2>1, <2>3
  <2> HIDE DEF w
  <2> QED BY <1>4, <1>5, <1>6, <2>1, <2>4
<1> QED BY <1>7, <1>8, <1>9

(* A read that begins with the first coil of a byte gathers them in order. *)
LEMMA GathersCoils ==
  ASSUME ModbusAssumption, ModbusInv, NEW r \in Requests, r.fc = "READ_COIL", M!Legal(r),
         r.at % Bits = 0, NEW k \in 0 .. r.n - 1
  PROVE  /\ Coils + k \in DOMAIN M!Gathered(r) /\ M!Gathered(r)[Coils + k] = coils[r.at + k]
         /\ Coils + k \in DOMAIN coils /\ r.at + k \in M!CoilSet
<1>1. /\ r.at \in Nat /\ r.n \in Nat /\ Bits \in Nat \ {0} /\ Coils \in Nat
      /\ r.at + r.n <= Coils /\ DOMAIN coils = 0 .. 3 * Coils - 1
  BY DEF ModbusAssumption, ModbusInv, M!Legal
<1>2. \A j \in 0 .. r.n - 1 : M!TempBit(r.at, j) = j
  <2>1. \A j \in Nat : (j \div Bits) * Bits + (j % Bits) = j
    BY <1>1, Remainder
  <2>2. \A j \in Nat : (r.at + j) % Bits = j % Bits
    <3>1. ASSUME NEW j \in Nat
          PROVE  (r.at + j) % Bits = j % Bits
      <4> DEFINE q == r.at \div Bits
                 s == j \div Bits
                 m == j % Bits
      <4>1. q \in Nat /\ r.at = q * Bits
        <5>1. q \in Nat /\ r.at = q * Bits + (r.at % Bits)
          BY <1>1, Remainder
        <5> QED BY <1>1, <5>1
      <4>2. s \in Nat /\ m \in 0 .. Bits - 1 /\ j = s * Bits + m
        BY <1>1, Remainder
      <4> HIDE DEF q, s, m
      <4>3. r.at + j = (q + s) * Bits + m /\ q + s \in Nat /\ r.at + j \in Nat
        <5>1. (q + s) * Bits = q * Bits + s * Bits
          BY <1>1, <4>1, <4>2
        <5> QED BY <1>1, <4>1, <4>2, <5>1
      <4>4. (r.at + j) % Bits = m
        <5> DEFINE n == r.at + j
                   t == q + s
        <5>1. n \in Nat /\ t \in Nat /\ m \in 0 .. Bits - 1 /\ n = t * Bits + m
          BY <4>2, <4>3
        <5> HIDE DEF n, t
        <5>2. n % Bits = m
          BY <1>1, <5>1, RemainderUnique
        <5> QED BY <5>2 DEF n
      <4> QED BY <4>4 DEF m
    <3> QED BY <3>1
  <2>3. \A j \in 0 .. r.n - 1 : j \in Nat
    BY <1>1
  <2> QED BY <2>1, <2>2, <2>3 DEF M!TempBit
<1>3. k \in Nat /\ r.at + k \in M!CoilSet /\ Coils + k \in DOMAIN coils
  BY <1>1 DEF M!CoilSet
<1> DEFINE set == {Coils + M!TempBit(r.at, j) : j \in 0 .. r.n - 1}
           at(b) == CHOOSE j \in 0 .. r.n - 1 : Coils + M!TempBit(r.at, j) = b
<1>4. Coils + k \in set
  BY <1>2
<1>5. at(Coils + k) = k
  <2>1. \A j \in 0 .. r.n - 1 : Coils + M!TempBit(r.at, j) = Coils + k <=> j = k
    BY <1>1, <1>2, <1>3
  <2> QED BY <2>1
<1>6. DOMAIN M!Gathered(r) = set /\ M!Gathered(r) = [b \in set |-> coils[r.at + 0 + at(b)]]
  BY <1>1 DEF M!Gathered
<1> HIDE DEF set, at
<1>7. r.at + 0 + k = r.at + k
  BY <1>1, <1>3
<1> QED BY <1>3, <1>4, <1>5, <1>6, <1>7

(* A reply to a read holds what the registers or coils held.               *)
LEMMA ReadsWhatIsHeld ==
  ASSUME ModbusAssumption, ModbusInv, NEW r \in Requests, M!Process(r), M!Known(r), M!Legal(r)
  PROVE  ReadsBack'
<1>1. /\ tx' = [fc |-> r.fc, err |-> FALSE, read |-> M!Read(r), of |-> frame'.number]
      /\ frame'.r = r /\ r.at \in Nat /\ r.n \in Nat
  BY DEF M!Process, M!Frame, ModbusAssumption
<1>2. CASE r.fc = "READ_REGISTER"
  <2> DEFINE a == M!Number(r.at)
  <2>1. a \in Nat
    BY <1>1 DEF M!Number, ModbusAssumption
  <2>2. ~ M!ReadsBits(r) /\ M!Read(r) = [k \in 1 .. r.n |-> <<holding[2 * a + 0 + 2 * (k - 1)], holding[2 * a + 0 + 2 * (k - 1) + 1]>>]
    BY <1>1, <1>2 DEF M!Read, M!ReadsBits
  <2>3. \A x \in M!RegSet : asked'.reg[x] = asked.reg[x]
    BY <1>2 DEF M!Process, M!AskedReg, M!Spoils
  <2> HIDE DEF a
  <2>4. Len(M!Read(r)) = r.n
    BY <1>1, <2>2
  <2>5. ASSUME NEW k \in 1 .. r.n, a + k - 1 \in M!RegSet
        PROVE  asked'.reg[a + k - 1] \in {<<M!Unknown, M!Unknown>>, M!Read(r)[k]}
    <3>1. 2 * a + 0 + 2 * (k - 1) = 2 * (a + k - 1)
      BY <1>1, <2>1
    <3>2. M!Read(r)[k] = <<holding[2 * (a + k - 1)], holding[2 * (a + k - 1) + 1]>>
      BY <2>2, <3>1
    <3> QED BY <2>3, <2>5, <3>2 DEF ModbusInv, Holds
  <2> QED BY <1>1, <1>2, <2>4, <2>5 DEF ReadsBack, M!ReadsBack, a
<1>3. CASE r.fc = "READ_COIL"
  <2>0. M!ReadsBits(r) /\ ~ M!WritesCoil(r)
    BY <1>3 DEF M!ReadsBits, M!WritesCoil
  <2>1. M!Read(r) = [k \in 1 .. r.n |-> coils'[Coils + k - 1]]
    BY <1>3, <2>0 DEF M!Read
  <2>2. Len(M!Read(r)) = r.n
    BY <1>1, <2>1
  <2>3. M!AskedCoils(r) = <<>> /\ DOMAIN M!AskedCoils(r) = {}
    BY <1>3, <2>0 DEF M!AskedCoils
  <2>4. /\ asked'.coil = M!Overlay(M!AskedCoils(r), asked.coil) /\ coils' = M!Overlay(M!Gathered(r), coils)
        /\ DOMAIN asked.coil = M!CoilSet /\ Coils \in Nat
    BY <2>0 DEF M!Process, ModbusInv, ModbusAssumption
  <2>5. \A c \in M!CoilSet : asked'.coil[c] = asked.coil[c]
    BY <2>3, <2>4, OverlayFacts
  <2>6. ASSUME NEW k \in 1 .. r.n, r.at % Bits = 0
        PROVE  asked'.coil[r.at + k - 1] \in {M!Unknown, M!Read(r)[k]}
    <3>1. k - 1 \in 0 .. r.n - 1 /\ r.at + (k - 1) = r.at + k - 1 /\ Coils + (k - 1) = Coils + k - 1
      BY <1>1, <2>4
    <3>2. /\ Coils + k - 1 \in DOMAIN M!Gathered(r) /\ M!Gathered(r)[Coils + k - 1] = coils[r.at + k - 1]
          /\ Coils + k - 1 \in DOMAIN coils /\ r.at + k - 1 \in M!CoilSet
      BY <1>1, <1>3, <2>6, <3>1, GathersCoils
    <3>3. coils'[Coils + k - 1] = coils[r.at + k - 1]
      BY <2>4, <3>2, OverlayFacts
    <3> QED BY <2>1, <2>5, <3>2, <3>3 DEF ModbusInv, Holds
  <2> QED BY <1>1, <1>3, <2>2, <2>6 DEF ReadsBack, M!ReadsBack
<1>4. CASE r.fc \notin {"READ_REGISTER", "READ_COIL"}
  BY <1>1, <1>4 DEF ReadsBack, M!ReadsBack
<1> QED BY <1>2, <1>3, <1>4

(* The registers and coils start as the masters know them.                 *)
LEMMA ModbusInitInv == ModbusAssumption /\ Init => ModbusInv /\ ReadsBack
<1> SUFFICES ASSUME ModbusAssumption, M!Init PROVE ModbusInv /\ ReadsBack
  BY DEF Init
<1>1. \A x \in M!RegSet : 2 * x \in 0 .. 4 * Regs - 1 /\ 2 * x + 1 \in 0 .. 4 * Regs - 1
  BY RegisterBytes
<1>2. \A c \in M!CoilSet : c \in 0 .. 3 * Coils - 1
  BY DEF M!CoilSet, ModbusAssumption
<1>3. /\ DOMAIN holding = 0 .. 4 * Regs - 1 /\ DOMAIN coils = 0 .. 3 * Coils - 1
      /\ DOMAIN asked = {"reg", "coil"} /\ DOMAIN asked.reg = M!RegSet /\ DOMAIN asked.coil = M!CoilSet
      /\ tx.of = 0 /\ frame.number = 0
  BY DEF M!Init
<1>4. Holds
  BY <1>1, <1>2 DEF M!Init, Holds
<1>5. ~ answered
  BY DEF M!Init
<1>6. ModbusInv
  BY <1>3, <1>4 DEF ModbusInv
<1>7. ReadsBack
  BY <1>5 DEF ReadsBack, M!ReadsBack
<1> QED BY <1>6, <1>7

(* Every frame keeps the replies true.                                     *)
LEMMA ModbusStepInv ==
  ASSUME ModbusAssumption, ModbusInv, ReadsBack, [Next]_vars
  PROVE  ModbusInv' /\ ReadsBack'
<1>1. ASSUME NEW r \in Requests, M!Process(r)
      PROVE  ModbusInv' /\ ReadsBack'
  <2>1. /\ frame'.number = frame.number + 1 /\ frame'.number \in Nat /\ frame.number < frame'.number
        /\ tx.of \in Nat /\ tx.of <= frame.number /\ frame.number \in Nat
    BY <1>1 DEF M!Process, M!Frame, ModbusInv
  <2>2. tx'.of = frame'.number \/ tx' = tx
    BY <1>1 DEF M!Process
  <2>3. DOMAIN asked' = {"reg", "coil"}
    BY <1>1 DEF M!Process
  <2>4. DOMAIN holding' = 0 .. 4 * Regs - 1
    BY <1>1, OverlayFacts DEF M!Process, ModbusInv
  <2>5. /\ DOMAIN asked'.reg = M!RegSet
        /\ \A x \in M!RegSet : asked'.reg[x] \in {<<M!Unknown, M!Unknown>>, <<holding'[2 * x], holding'[2 * x + 1]>>}
    BY <1>1, RegistersHold
  <2>6. /\ DOMAIN coils' = 0 .. 3 * Coils - 1 /\ DOMAIN asked'.coil = M!CoilSet
        /\ \A c \in M!CoilSet : asked'.coil[c] \in {M!Unknown, coils'[c]}
    BY <1>1, CoilsHold
  <2>7. tx'.of \in Nat /\ tx'.of <= frame'.number
    BY <2>1, <2>2
  <2>8. ModbusInv'
    BY <2>1, <2>3, <2>4, <2>5, <2>6, <2>7 DEF ModbusInv, Holds
  <2>9. CASE M!Known(r) /\ M!Legal(r)
    BY <1>1, <2>8, <2>9, ReadsWhatIsHeld
  <2>10. CASE M!Known(r) /\ ~ M!Legal(r)
    <3>1. tx'.err
      BY <1>1, <2>10 DEF M!Process
    <3> QED BY <2>8, <3>1 DEF ReadsBack, M!ReadsBack
  <2>11. CASE ~ M!Known(r)
    <3>1. tx' = tx
      BY <1>1, <2>11 DEF M!Process
    <3>2. tx'.of # frame'.number
      BY <2>1, <3>1
    <3> QED BY <2>8, <3>2 DEF ReadsBack, M!ReadsBack
  <2> QED BY <2>9, <2>10, <2>11
<1>2. ASSUME NEW r \in Requests, NEW how, M!Skip(r, how)
      PROVE  ModbusInv' /\ ReadsBack'
  <2>1. UNCHANGED <<holding, coils, tx, asked>>
    BY <1>2 DEF M!Skip
  <2>2. frame'.number = frame.number + 1
    BY <1>2 DEF M!Skip, M!Frame
  <2>3. tx.of \in Nat /\ frame.number \in Nat /\ tx.of <= frame.number
    BY DEF ModbusInv
  <2>4. tx.of < frame'.number /\ frame'.number \in Nat
    BY <2>2, <2>3
  <2>5. Holds'
    BY <2>1 DEF ModbusInv, Holds
  <2>6. ModbusInv'
    BY <2>1, <2>3, <2>4, <2>5 DEF ModbusInv
  <2>7. tx'.of # frame'.number
    BY <2>1, <2>3, <2>4
  <2> QED BY <2>6, <2>7 DEF ReadsBack, M!ReadsBack
<1>3. CASE UNCHANGED modbus
  BY <1>3 DEF modbus, ModbusInv, Holds, ReadsBack, M!ReadsBack
<1>4. M!Next => \E r \in Requests : M!Process(r) \/ \E how : M!Skip(r, how)
  BY Zenon DEF M!Next
<1> QED BY <1>1, <1>2, <1>3, <1>4, ModbusStep

(* A read answers what was last asked for, for every sequence of requests, *)
(* the refused ones and those that store behind an array included, every   *)
(* size of the arrays and whatever lies behind the data of a request, with *)
(* the exceptions ReadsBack names and as long as no coil number reaches    *)
(* behind A_modbus_inout.                                                  *)
THEOREM AnswersAsked == Spec => []ReadsBack
BY ModbusAssumption, ModbusInitInv, ModbusStepInv, PTL DEF Spec
-----------------------------------------------------------------------------
(* The UART driver.                                                        *)

(* What is proved of Uart on its own.                                      *)
UP == INSTANCE UartProofs WITH
  BufSize <- UartBufSize, Reload <- UartReload,
  data <- uart_data, rx_num_chars <- uart_num_chars, timeout <- uart_timeout,
  tick <- uart_tick, reg <- uart_reg, count <- uart_count, raced <- uart_raced

(* The driver takes a step of Uart, or none.                               *)
LEMMA UartStep == [Next]_vars => [UP!Next]_(UP!vars)
<1>1. U!Next <=> UP!Next
  BY DEF U!Next, UP!Next, U!SysTick, UP!SysTick, U!RxCplt, UP!RxCplt, U!Error, UP!Error,
     U!TickStart, UP!TickStart, U!TickStore, UP!TickStore, U!TickCopy, UP!TickCopy,
     U!TickReset, UP!TickReset, U!SetRxLen, UP!SetRxLen, U!GetWakeupFlags, UP!GetWakeupFlags,
     U!buffer, UP!buffer, U!line, UP!line, U!history, UP!history, U!Indices, UP!Indices,
     U!Full, UP!Full, U!Pending, UP!Pending, U!Raise, UP!Raise,
     U!Reloaded, UP!Reloaded, U!Stored, UP!Stored, U!Reset, UP!Reset
<1> QED BY <1>1 DEF Next, vars, uart, UP!vars, UP!buffer, UP!line, UP!history

(* It starts as it does on its own.                                        *)
LEMMA UartInit == Init => UP!Init
  BY DEF Init, U!Init, UP!Init, U!Indices, UP!Indices

(* Every character is in one packet and in its place, unless one comes     *)
(* between the copy of rx_index and its reset.                             *)
THEOREM UartKeepsChars == Spec => []CharsKept
<1>0. UP!UartAssumption
  BY SerialAssumption DEF U!UartAssumption, UP!UartAssumption, U!WakeFlags, UP!WakeFlags
<1>1. Init => UP!Typed /\ UP!Chars
  BY <1>0, UartInit, UP!InitTyped, UP!InitChars
<1>2. UP!Typed /\ UP!Chars /\ [Next]_vars => UP!Typed' /\ UP!Chars'
  BY <1>0, UartStep, UP!StepTyped, UP!StepChars
<1>3. UP!Chars => CharsKept
  BY DEF UP!Chars, UP!CharsKept, CharsKept, U!CharsKept
<1> QED BY <1>1, <1>2, <1>3, PTL DEF Spec

(* A packet is not cut in two by a pause shorter than the timeout, though  *)
(* the decrement can store over the reload of a character.                 *)
THEOREM UartWaitsForTimeout == Spec => []TimeoutNotEarly
<1>0. UP!UartAssumption
  BY SerialAssumption DEF U!UartAssumption, UP!UartAssumption, U!WakeFlags, UP!WakeFlags
<1>1. Init => UP!Typed /\ UP!Waited
  BY <1>0, UartInit, UP!InitTyped, UP!InitWaited
<1>2. UP!Typed /\ UP!Waited /\ [Next]_vars => UP!Typed' /\ UP!Waited'
  BY <1>0, UartStep, UP!StepTyped, UP!StepWaited
<1>3. UP!Waited => TimeoutNotEarly
  BY DEF UP!Waited, UP!TimeoutNotEarly, TimeoutNotEarly, U!TimeoutNotEarly
<1> QED BY <1>1, <1>2, <1>3, PTL DEF Spec
=============================================================================
