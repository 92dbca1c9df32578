----------------------------- MODULE FlashUpdater ------------------------------
(***************************************************************************)
(* The flash updater of the STM32H743/753: flash_write and                 *)
(* flash_erase_by_address, which run with interrupts masked and return     *)
(* early on any error, and resets between any two accesses of the flash.   *)
(* Addresses count flash words of 32 bytes.                                *)
(***************************************************************************)
EXTENDS Integers

CONSTANTS
  SectorWords,  \* the flash words of a sector
  BankSectors,  \* the sectors of one of the two banks
  Images,       \* the areas that are written or erased: [op, at, size]
  MaxCalls,     \* bound: calls made
  MaxFaults     \* bound: errors of the flash, and resets

VARIABLES
  flash,   \* per word: the number of the call that programmed it, Blank, or
           \* Mixed if it was programmed twice or a reset came
  irq,     \* interrupts are enabled
  lock,    \* the control registers are locked
  error,   \* the banks whose status register shows an error: nothing here
           \* clears it
  call,    \* the call under way
  pc, i,   \* its loop, and how far it is
  made, faults,
  failed   \* history: a call has returned 1 since the last reset

vars == <<flash, irq, lock, error, call, pc, i, made, faults, failed>>

Blank == 0
Mixed == -1
Words == 0 .. 2 * BankSectors * SectorWords - 1
NoCall == [op |-> "none", at |-> 0, size |-> 0]

Init ==
  /\ flash = [a \in Words |-> Mixed] /\ irq = TRUE /\ lock = TRUE /\ error = {}
  /\ call = NoCall /\ pc = "out" /\ i = 0
  /\ made = 0 /\ faults = 0 /\ failed = FALSE

-----------------------------------------------------------------------------
(* Definitions named Mut... are defects a change to the code could bring   *)
(* in: see module Scheduler.                                               *)

Sector(a) == a \div SectorWords
Bank(a)   == Sector(a) \div BankSectors
OfSector(s) == {a \in Words : Sector(a) = s}

(* The sectors a call erases: in the bank of its first address.            *)
Count(size) == IF size < SectorWords THEN 1 ELSE size \div SectorWords

MutErases(c, k) == Sector(c.at)
Erases(c, k) == Bank(c.at) * BankSectors + (Sector(c.at + k * SectorWords) % BankSectors)

(* flash_write and flash_erase_by_address: the words of the image are in   *)
(* the flash, or the loop ends at its end.                                 *)
Call(c) ==
  /\ pc = "out" /\ made < MaxCalls
  /\ made' = made + 1
  /\ call' = c /\ pc' = "erase" /\ i' = 0
  /\ irq' = FALSE /\ lock' = FALSE
  /\ UNCHANGED <<flash, error, faults, failed>>

(* The bank a loop works on, if it is not at its end: it waits for the     *)
(* flash before or after it starts there, and an error it finds in the     *)
(* status register, or one of an earlier call, is its end.                 *)
Works ==
  CASE pc = "erase" /\ i < Count(call.size) -> {Bank(call.at)}
    [] pc = "program" /\ i < call.size -> {Bank(call.at + i)}
    [] OTHER -> {}

Outside ==
  \/ pc = "erase" /\ i < Count(call.size) /\ call.at + i * SectorWords \notin Words
  \/ pc = "program" /\ i < call.size /\ call.at + i \notin Words

Stuck == Works \cap error # {}

Erase ==
  /\ pc = "erase" /\ i < Count(call.size) /\ ~ Outside /\ ~ Stuck
  /\ flash' = [a \in Words |-> IF a \in OfSector(Erases(call, i)) THEN Blank ELSE flash[a]]
  /\ i' = i + 1
  /\ UNCHANGED <<irq, lock, error, call, pc, made, faults, failed>>

Erased ==
  /\ pc = "erase" /\ i = Count(call.size)
  /\ pc' = (IF call.op = "write" THEN "program" ELSE "lock") /\ i' = 0
  /\ UNCHANGED <<flash, irq, lock, error, call, made, faults, failed>>

Program ==
  /\ pc = "program" /\ i < call.size /\ ~ Outside /\ ~ Stuck
  /\ flash' = [flash EXCEPT ![call.at + i] = IF @ = Blank THEN made ELSE Mixed]
  /\ i' = i + 1
  /\ UNCHANGED <<irq, lock, error, call, pc, made, faults, failed>>

Programmed ==
  /\ pc = "program" /\ i = call.size
  /\ pc' = "lock"
  /\ UNCHANGED <<flash, irq, lock, error, call, i, made, faults, failed>>

MutUnmask == irq
Unmask == TRUE

Return0 ==
  /\ pc = "lock"
  /\ lock' = TRUE /\ irq' = Unmask
  /\ call' = NoCall /\ pc' = "out" /\ i' = 0
  /\ UNCHANGED <<flash, error, made, faults, failed>>

(* What is being erased or programmed is left half done.                   *)
Touched ==
  CASE pc = "erase" /\ i < Count(call.size) -> OfSector(Erases(call, i))
    [] pc = "program" /\ i < call.size -> {call.at + i}
    [] OTHER -> {}

Halfway ==
  \E half \in BOOLEAN : flash' = [a \in Words |-> IF half /\ a \in Touched THEN Mixed ELSE flash[a]]

(* An address behind the flash, the flag of an earlier error, or an error, *)
(* also of the lock and one that leaves no flag: the call returns 1.       *)
Return1 ==
  /\ pc # "out"
  /\ \/ Outside /\ UNCHANGED <<flash, error, faults>>
     \/ ~ Outside /\ Stuck /\ Halfway /\ UNCHANGED <<error, faults>>
     \/ /\ ~ Outside /\ ~ Stuck
        /\ faults < MaxFaults /\ faults' = faults + 1
        /\ error' \in {error, error \cup Works} /\ Halfway
  /\ call' = NoCall /\ pc' = "out" /\ i' = 0 /\ failed' = TRUE
  /\ UNCHANGED <<irq, lock, made>>

Step == Erase \/ Erased \/ Program \/ Programmed \/ Return0 \/ Return1

PowerFails ==
  /\ faults < MaxFaults /\ faults' = faults + 1
  /\ Halfway
  /\ irq' = TRUE /\ lock' = TRUE /\ error' = {} /\ failed' = FALSE
  /\ call' = NoCall /\ pc' = "out" /\ i' = 0
  /\ UNCHANGED made

Next == (\E c \in Images : Call(c)) \/ Step \/ PowerFails

Spec == Init /\ [][Next]_vars /\ WF_vars(Step)

-----------------------------------------------------------------------------
(* Properties *)

Image(c) == c.at .. c.at + c.size - 1

InOneBank(c) == Bank(c.at) = Bank(c.at + c.size - 1)

(* The image is in one bank, and in one sector or in as many as it has     *)
(* whole ones.                                                             *)
Fits(c) ==
  LET sectors == Sector(c.at + c.size - 1) - Sector(c.at) + 1
  IN InOneBank(c) /\ (sectors = 1 \/ sectors * SectorWords <= c.size)

(* A write that returns 0 has programmed its image, whatever errors and    *)
(* power failures there were before, if the image fits: else its last      *)
(* sector is programmed over what was there.                               *)
Written ==
  [][pc = "lock" /\ pc' = "out" /\ lock' /\ faults' = faults /\ call.op = "write" /\ Fits(call)
       => \A a \in Image(call) : flash[a] = made]_vars

(* Interrupts are enabled again after a call, unless one has failed.       *)
InterruptsReturn == ~ irq ~> irq \/ failed
=============================================================================
