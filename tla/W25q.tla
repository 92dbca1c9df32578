--------------------------------- MODULE W25q ---------------------------------
(***************************************************************************)
(* The W25Qxx flash driver: processes that read, write, erase and identify *)
(* the chip through one driver, the completion flags the QSPI interrupts   *)
(* set, the chip behind them, and a HAL that refuses a command during a    *)
(* transfer. An operation is a script of steps; another process can run    *)
(* between any two. What qspi_register does to the status registers is     *)
(* left out.                                                               *)
(***************************************************************************)
EXTENDS Integers, Sequences

CONSTANTS
  Users,      \* the processes that share the driver
  PageSize,   \* W25Q_MEM_PAGE_SIZE
  KB,         \* the bytes of a kilobyte
  Large,      \* FlashSize > 128
  BlockCount, \* W25Q_BLOCK_COUNT
  Requests,   \* the calls each makes: [kind, addr, len], erases in sectors
              \* or blocks
  HalFails    \* whether the HAL may refuse a command for no reason known here

VARIABLES
  status,  \* the status of the driver
  xfer,    \* the transfer under way in the QSPI peripheral, and whose it is
  busy,    \* BUSY of the chip's status register
  wel,     \* and its WEL
  script,  \* the steps each process still has to take
  left,    \* what is left of its request
  asked,   \* history: the request
  done,    \* history: the bytes or sectors the chip has taken part of
  deaf,    \* history: the chip was busy when a read was sent
  alone,   \* history: no other process was inside during the call
  lapse    \* history: BUSY was cleared or passed with a process inside, since
           \* a call found no other under way

flash == <<xfer, busy, wel>>
vars  == <<status, flash, script, left, asked, done, deaf, alone, lapse>>

NoXfer == [dir |-> "none", by |-> 0, addr |-> 0, len |-> 0]
Idle   == [kind |-> "none", addr |-> 0, len |-> 0]

Init ==
  /\ status = {}
  /\ xfer = NoXfer
  /\ busy = FALSE
  /\ wel = FALSE
  /\ script = [p \in Users |-> <<>>]
  /\ left = [p \in Users |-> Idle]
  /\ asked = [p \in Users |-> Idle]
  /\ done = [p \in Users |-> {}]
  /\ deaf = [p \in Users |-> FALSE]
  /\ alone = [p \in Users |-> TRUE]
  /\ lapse = FALSE

-----------------------------------------------------------------------------
(* Definitions named Mut... are defects a change to the code could bring   *)
(* in: see module Scheduler.                                               *)

Active(p)  == script[p] # <<>>
(* Past the statement that sets BUSY.                                      *)
Inside(p)  == Active(p) /\ asked[p].kind # "id" /\ \A i \in DOMAIN script[p] : script[p][i] # "enter"
Others(p)  == {q \in Users \ {p} : Active(q)}
HalFree    == xfer = NoXfer
Covered(a, n) == a .. a + n - 1

SetError(s) == (s \ {"BUSY"}) \cup {"ERROR"}

(* The part of a page a chunk may take; the tail of a read takes a page.   *)
InPage(a, n) == IF n <= PageSize - (a % PageSize) THEN n ELSE PageSize - (a % PageSize)
WriteChunk(a, n) == InPage(a, n)
ReadChunk(a, n)  == IF a % PageSize = 0 THEN PageSize ELSE InPage(a, n)

(* w25qxx_read_cycle, w25qxx_WriteEnable and w25qxx_write_cycle.           *)
MutReadCycle == <<"rx", "RX">>
ReadCycle == <<"rx", "RX", "wait">>
WriteEnable(e) == <<"wait", e, "wait">>
WriteCycle == <<"tx", "TX", "wait">>

(* The sectors of 4 KB or blocks of 32 KB the chip erases, from the        *)
(* address it is sent: a large chip erases 64 KB, two blocks.              *)
SectorAddress(i) == i * 4
BlockAddress(i)  == i * 32 * KB
Halves(b) == {2 * b, 2 * b + 1}
Chip      == Covered(0, 2 * BlockCount)
Erased(r) ==
  CASE r.kind = "erase" -> {SectorAddress(r.addr) \div (4 * KB)}
    [] r.kind = "block" /\ ~ Large -> {BlockAddress(r.addr) \div (32 * KB)}
    [] r.kind = "block" /\ Large -> Halves(BlockAddress(r.addr) \div (64 * KB))
    [] r.kind = "chip" -> Chip

(* The script of a call, before and after its first "next".                *)
Opening(kind) ==
  CASE kind \in {"read", "write"} -> <<"enter", "next">>
    [] kind \in {"erase", "block"} -> <<"wait", "enter", "next">>
    [] kind = "chip"  -> <<"clear", "enter", "wait", "we", "wait", "erase", "wait", "next">>
    [] kind = "id"    -> <<"rx", "RX", "next">>

(* What one round of the loop of the call does to its request.             *)
Round(r) ==
  CASE r.kind = "read" ->
         (IF r.addr % PageSize = 0 THEN <<"wait">> ELSE <<>>) \o ReadCycle \o <<"next">>
    [] r.kind = "write" ->
         WriteEnable("we") \o WriteCycle \o WriteEnable("wd") \o <<"next">>
    [] r.kind \in {"erase", "block"} ->
         WriteEnable("we") \o <<"erase", "wait">> \o WriteEnable("wd") \o <<"next">>

Size(r) == CASE r.kind = "read" -> ReadChunk(r.addr, r.len)
             [] r.kind = "write" -> WriteChunk(r.addr, r.len)
             [] OTHER -> 1

Pop(p) == script' = [script EXCEPT ![p] = Tail(@)]

(* The call returns: BUSY is cleared, or was by w25qxx_seterror.           *)
Return(p, s) ==
  /\ status' = s
  /\ script' = [script EXCEPT ![p] = <<>>]
  /\ left' = [left EXCEPT ![p] = Idle]
  /\ asked' = [asked EXCEPT ![p] = Idle]
  /\ done' = [done EXCEPT ![p] = {}]
  /\ deaf' = [deaf EXCEPT ![p] = FALSE]
  /\ alone' = [alone EXCEPT ![p] = TRUE]
  /\ xfer' = IF xfer.by = p THEN [xfer EXCEPT !.by = 0] ELSE xfer
  /\ UNCHANGED <<busy, wel>>

MutFree(r) == TRUE
Free(r) == "BUSY" \notin status \/ r.kind \in {"chip", "id"}

(* A call tests BUSY (GetID and erasechip do not) and sets it in a later   *)
(* statement.                                                              *)
Call(p, r) ==
  /\ ~ Active(p)
  /\ r.kind \in {"erase", "block"} => r.addr + r.len < BlockCount
  /\ Free(r)
  /\ script' = [script EXCEPT ![p] = Opening(r.kind)]
  /\ left' = [left EXCEPT ![p] = IF r.kind \in {"chip", "id"} THEN [r EXCEPT !.len = 0] ELSE r]
  /\ asked' = [asked EXCEPT ![p] = r]
  /\ alone' = [q \in Users |-> IF q = p THEN Others(p) = {}
                               ELSE alone[q] /\ ~ Active(q)]
  /\ lapse' = \E q \in Others(p) : lapse \/ ~ Inside(q)
  /\ UNCHANGED <<status, flash, done, deaf>>

Enter(p) ==
  /\ status' = {"BUSY"}
  /\ Pop(p)
  /\ UNCHANGED <<flash, left, done, deaf, lapse>>

(* w25qxx_erasechip clears the status before it tests it.                  *)
Clear(p) ==
  /\ status' = {}
  /\ lapse' = (lapse \/ \E q \in Others(p) : Inside(q))
  /\ Pop(p)
  /\ UNCHANGED <<flash, left, done, deaf>>

(* The next chunk, or the return of the call.                              *)
NextRound(p) ==
  /\ IF left[p].len > 0
     THEN /\ script' = [script EXCEPT ![p] = Round(left[p])]
          /\ UNCHANGED <<status, flash, left, asked, done, deaf, alone>>
     ELSE Return(p, IF asked[p].kind = "id" THEN status ELSE status \ {"BUSY"})
  /\ UNCHANGED lapse

Advance(p) ==
  LET n == Size(left[p])
      r == left[p]
  IN left' = [left EXCEPT ![p] = [@ EXCEPT !.addr = r.addr + n,
                                           !.len = IF r.len > n THEN r.len - n ELSE 0]]

(* w25qxx_WaitIfFlashBusy: the status register says the chip is free.      *)
Wait(p) ==
  /\ HalFree /\ ~ busy
  /\ Pop(p)
  /\ UNCHANGED <<status, flash, left, done, deaf, lapse>>

(* Its call of w25qxx_ReadStatusReg fails, which it does not look at.      *)
WaitError(p) ==
  /\ ~ HalFree \/ HalFails
  /\ status' = SetError(status)
  /\ lapse' = TRUE
  /\ UNCHANGED <<flash, script, left, done, deaf>>

(* w25qxx_WaitForDriverFlag.                                               *)
WaitFlag(p, f) ==
  /\ f \in status
  /\ Pop(p)
  /\ UNCHANGED <<status, flash, left, done, deaf, lapse>>

(* HAL_QSPI_Command with a write enable or disable, which a busy chip does *)
(* not see.                                                                *)
SetWel(p, e) ==
  /\ HalFree
  /\ wel' = IF busy THEN wel ELSE e
  /\ status' = status \cup {"WEL"}
  /\ Pop(p)
  /\ UNCHANGED <<xfer, busy, left, done, deaf, lapse>>

Erase(p) ==
  /\ HalFree
  /\ busy' = (busy \/ wel)
  /\ done' = [done EXCEPT ![p] = IF wel /\ ~ busy THEN @ \cup Erased(left[p]) ELSE @]
  /\ Pop(p)
  /\ Advance(p)
  /\ UNCHANGED <<status, xfer, wel, deaf, lapse>>

(* HAL_QSPI_Command and HAL_QSPI_Receive or Transmit, by DMA or interrupt, *)
(* as one step: between them the HAL is free, as before them, and only a   *)
(* call that overlaps this one runs there. That HAL_QSPI_Receive or        *)
(* Transmit is refused is GiveUp before this step.                         *)
Start(p, dir) ==
  /\ HalFree
  /\ xfer' = [dir |-> dir, by |-> p, addr |-> left[p].addr, len |-> Size(left[p])]
  /\ deaf' = [deaf EXCEPT ![p] = @ \/ (dir = "rx" /\ busy)]
  /\ Pop(p)
  /\ Advance(p)
  /\ UNCHANGED <<status, busy, wel, done, lapse>>

(* The HAL refuses the command, or a wait runs out: the call gives up.     *)
GiveUp(p) ==
  /\ Return(p, SetError(status))
  /\ lapse' = (lapse \/ Others(p) # {})

Timeout(p) ==
  /\ Active(p) /\ Head(script[p]) \in {"wait", "RX", "TX"}
  /\ GiveUp(p)

Step(p) ==
  /\ Active(p)
  /\ LET s == Head(script[p])
     IN \/ s = "next" /\ NextRound(p)
        \/ s \in {"we", "wd", "erase", "rx", "tx"} /\ (~ HalFree \/ HalFails) /\ GiveUp(p)
        \/ /\ \/ s = "enter" /\ Enter(p)
              \/ s = "clear" /\ Clear(p)
              \/ s = "wait" /\ (Wait(p) \/ WaitError(p))
              \/ s \in {"RX", "TX"} /\ WaitFlag(p, s)
              \/ s \in {"we", "wd"} /\ SetWel(p, s = "we")
              \/ s = "erase" /\ Erase(p)
              \/ s \in {"rx", "tx"} /\ Start(p, s)
           /\ UNCHANGED <<asked, alone>>

(* HAL_QSPI_RxCpltCallback and HAL_QSPI_TxCpltCallback. The chip programs  *)
(* what was sent, if it may, and wraps at the end of the page.             *)
Complete ==
  /\ ~ HalFree
  /\ xfer' = NoXfer
  /\ status' = status \cup (IF xfer.dir = "rx" THEN {"RX"} ELSE {"TX"})
  /\ LET page  == xfer.addr - (xfer.addr % PageSize)
         taken == {page + (i % PageSize) : i \in Covered(xfer.addr % PageSize, xfer.len)}
         sees  == ~ busy /\ (xfer.dir = "tx" => wel)
     IN /\ busy' = (busy \/ (sees /\ xfer.dir = "tx"))
        /\ done' = [p \in Users |-> IF p # xfer.by \/ ~ sees THEN done[p]
                                    ELSE done[p] \cup IF xfer.dir = "tx" THEN taken
                                                      ELSE Covered(xfer.addr, xfer.len)]
  /\ UNCHANGED <<wel, script, left, asked, deaf, alone, lapse>>

(* The chip ends a program or erase cycle, and clears WEL.                 *)
ChipDone ==
  /\ busy
  /\ busy' = FALSE
  /\ wel' = FALSE
  /\ UNCHANGED <<status, xfer, script, left, asked, done, deaf, alone, lapse>>

Next ==
  \/ \E p \in Users : \E r \in Requests[p] : Call(p, r)
  \/ \E p \in Users : Step(p)
  \/ \E p \in Users : Timeout(p)
  \/ Complete
  \/ ChipDone

Fairness == \A p \in Users : WF_vars(Step(p)) /\ WF_vars(Timeout(p))

Spec == Init /\ [][Next]_vars /\ Fairness

-----------------------------------------------------------------------------
(* Properties *)

(* A call that no other one overlapped returns 0.                          *)
Returns0(p) == Active(p) /\ Head(script[p]) = "next" /\ ~ Active(p)' /\ alone[p]

Wanted(p) == Covered(asked[p].addr, asked[p].len)

(* What a call has erased when it erased these blocks one by one.          *)
Pieces(B) == IF Large THEN UNION {Halves(i \div 2) : i \in B} ELSE B

(* A call that returns 0 and that no other one overlapped leaves the chip  *)
(* free, even if the call before gave up while it was busy. A write has    *)
(* programmed its bytes and no others, a chip erase has erased everything, *)
(* and a block erase its blocks of 32 KB and no others; on a large chip,   *)
(* where it numbers blocks of 32 KB all the same, the other half of their  *)
(* 64 KB too. A read has got every byte from the chip, unless its first    *)
(* chunk, which does not wait for the chip, was sent to a busy one. What a *)
(* sector erase does is not stated here but in SectorsErased.              *)
DoneWhole ==
  [][\A p \in Users : Returns0(p) /\ asked[p].kind # "id" =>
       /\ HalFree /\ ~ busy
       /\ asked[p].kind = "write" => done[p] = Wanted(p)
       /\ asked[p].kind = "block" => done[p] = Pieces(Wanted(p))
       /\ asked[p].kind = "chip" => done[p] = Chip
       /\ asked[p].kind = "read" =>
            \/ Wanted(p) \subseteq done[p]
            \/ deaf[p] /\ asked[p].addr % PageSize # 0]_vars

(* A sector erase that returns 0 and that no other call overlapped has     *)
(* erased the sectors it was asked to. It does not hold: the address sent  *)
(* is four times the number of the sector, and the sectors have 4 KB.      *)
SectorsErased ==
  [][\A p \in Users : Returns0(p) /\ asked[p].kind = "erase" => done[p] = Wanted(p)]_vars

(* Two processes are inside the driver only after one of the named lapses: *)
(* a call began after another had tested BUSY and before it set it, or     *)
(* with a GetID under way, a status read failed during a transfer,         *)
(* erasechip cleared the status, or another call failed.                   *)
Exclusive == ~ lapse => \A p, q \in Users : Inside(p) /\ Inside(q) => p = q
=============================================================================
