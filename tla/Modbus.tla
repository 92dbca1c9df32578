-------------------------------- MODULE Modbus ---------------------------------
(***************************************************************************)
(* The Modbus RTU slave: a sequence of frames, each carried out on the     *)
(* arrays of A_modbus_inout and answered from the one transmit packet,     *)
(* which keeps the last answer. A register is two bytes of its array. What *)
(* is stored or read behind an array is in the next ones of                *)
(* A_modbus_inout; what a coil number reaches behind them all is not       *)
(* modelled, and a read asks for what fits in the packet.                  *)
(***************************************************************************)
EXTENDS Integers, Sequences

CONSTANTS
  Regs,       \* A_MAX_REGS: bytes of the holding registers
  Coils,      \* A_MAX_COILS
  Bits,       \* the bits of a byte
  Half,       \* half the values of reg_index, which has 16 bits
  Requests,   \* the requests of the master: [fc, at, n, data]
  MaxFrames   \* bound: frames received

VARIABLES
  holding,    \* the bytes of holding_registers, input_registers and the two
              \* arrays behind them
  coils,      \* the bits of coils, temp_coils_icoils and discrete_input
  tx,         \* modbus_tx_packet: the function, whether it is an exception,
              \* what was read, and the frame it was made for
  answered,   \* the last frame was answered
  frame,      \* history: the last frame, and how many there were
  asked       \* history: the values last asked for, by register and by coil

vars == <<holding, coils, tx, answered, frame, asked>>

Unknown == -1
Value(b) == IF b THEN 1 ELSE 0
CoilSet == 0 .. Coils - 1
RegSet  == 0 .. (Regs \div 2) - 1

None == [fc |-> "none", at |-> 0, n |-> 0, data |-> <<>>]

Init ==
  /\ holding = [i \in 0 .. 4 * Regs - 1 |-> 0]
  /\ coils = [c \in 0 .. 3 * Coils - 1 |-> 0]
  /\ tx = [fc |-> "none", err |-> FALSE, read |-> <<>>, of |-> 0]
  /\ answered = FALSE
  /\ frame = [r |-> None, number |-> 0, how |-> "none"]
  /\ asked = [reg |-> [r \in RegSet |-> <<0, 0>>], coil |-> [c \in CoilSet |-> 0]]

-----------------------------------------------------------------------------
(* Definitions named Mut... are defects a change to the code could bring   *)
(* in: see module Scheduler.                                               *)

Overlay(f, g) == [x \in DOMAIN g |-> IF x \in DOMAIN f THEN f[x] ELSE g[x]]
On  == <<255, 0>>
Off == <<0, 0>>

(* The checks of the addresses. A request that fails one is answered with  *)
(* an exception. A register read has its number doubled before.            *)
Number(at) == at % Half

Legal(r) ==
  CASE r.fc \in {"READ_COIL", "READ_DISCRETE_INPUT", "WRITE_MULTIPLE_COILS"} -> r.at + r.n <= Coils
    [] r.fc \in {"READ_REGISTER", "READ_INPUT_REGISTER"} -> 2 * Number(r.at) + r.n <= Regs
    [] r.fc \in {"WRITE_REGISTER", "WRITE_COIL"} -> r.at <= Regs
    [] r.fc = "WRITE_MULTIPLE_REGISTERS" -> r.at + Len(r.data) <= Regs
    [] OTHER -> TRUE

(* What rtu_write_mb_register and rtu_modbus_write_multiple_regs store,    *)
(* which the second counts in bytes. WRITE_COIL has no break, and the      *)
(* check of line 246 lets numbers of up to twice the registers through.    *)
MutRegByte(at) == at
RegByte(at) == 2 * at

RegWrites(r) ==
  CASE r.fc \in {"WRITE_REGISTER", "WRITE_COIL"} /\ Legal(r) ->
         [i \in {RegByte(r.at), RegByte(r.at) + 1} |-> r.data[i - RegByte(r.at) + 1]]
    [] r.fc = "WRITE_MULTIPLE_REGISTERS" /\ Legal(r) ->
         [i \in r.at .. r.at + Len(r.data) - 1 |-> r.data[i - r.at + 1]]
    [] OTHER -> <<>>

(* rtu_modbus_write_single_coil, which checks no number, and               *)
(* rtu_modbus_write_multiple_coils, which looks for the first coil where   *)
(* it is in its byte of the array; behind the data is the checksum.        *)
DataBit(at, i) == (at % Bits) + i

Bit(r, k, crc) == CASE k < r.n -> r.data[k + 1]
                    [] k >= r.n /\ (k \div Bits) * Bits < r.n -> 0
                    [] OTHER -> crc

WritesCoil(r) == r.fc = "WRITE_COIL" /\ r.data \in {On, Off}

CoilWrites(r, crc) ==
  CASE WritesCoil(r) -> [c \in {r.at} |-> Value(r.data = On)]
    [] r.fc = "WRITE_MULTIPLE_COILS" /\ Legal(r) ->
         [c \in r.at .. r.at + r.n - 1 |-> Bit(r, DataBit(r.at, c - r.at), crc)]
    [] OTHER -> <<>>

(* A coil behind the bits is one of a byte of the registers.               *)
Behind(at) == (at - 3 * Coils) \div Bits

WithBit(byte, b, v) == byte + (v - ((byte \div 2^b) % 2)) * 2^b

BitWrites(r) ==
  IF WritesCoil(r)
  THEN [i \in {Behind(r.at)} \cap DOMAIN holding |->
          WithBit(holding[i], (r.at - 3 * Coils) % Bits, Value(r.data = On))]
  ELSE <<>>

(* get_coils_discrete_in: a coil keeps its place in the byte.              *)
TempBit(at, k) == (k \div Bits) * Bits + ((at + k) % Bits)

ReadsBits(r) == r.fc \in {"READ_COIL", "READ_DISCRETE_INPUT"} /\ Legal(r)

Gathered(r) ==
  LET from == r.at + IF r.fc = "READ_COIL" THEN 0 ELSE 2 * Coils
  IN [b \in {Coils + TempBit(r.at, k) : k \in 0 .. r.n - 1} |->
        coils[from + CHOOSE k \in 0 .. r.n - 1 : Coils + TempBit(r.at, k) = b]]

(* What the answer to a legal request has read.                            *)
Read(r) ==
  LET from == 2 * Number(r.at) + IF r.fc = "READ_REGISTER" THEN 0 ELSE Regs
  IN CASE ReadsBits(r) -> [k \in 1 .. r.n |-> coils'[Coils + k - 1]]
       [] r.fc \in {"READ_REGISTER", "READ_INPUT_REGISTER"} ->
            [k \in 1 .. r.n |-> <<holding[from + 2 * (k - 1)], holding[from + 2 * (k - 1) + 1]>>]
       [] OTHER -> <<>>

(* What a master has asked for by a request that is carried out, and the   *)
(* registers it may not get by it.                                         *)
Spoils(r, x) ==
  \/ r.fc = "WRITE_MULTIPLE_REGISTERS" /\ Legal(r) /\ x \in r.at \div 2 .. r.at + Len(r.data)
  \/ r.fc = "WRITE_COIL" /\ x \in {r.at, Behind(r.at) \div 2}

AskedReg(r, x) ==
  CASE r.fc = "WRITE_REGISTER" /\ Legal(r) /\ x = r.at -> r.data
    [] r.fc = "WRITE_MULTIPLE_REGISTERS" /\ Legal(r) /\ r.at = 0 /\ 2 * x + 1 < Len(r.data) ->
         <<r.data[2 * x + 1], r.data[2 * x + 2]>>
    [] OTHER -> IF Spoils(r, x) THEN <<Unknown, Unknown>> ELSE asked.reg[x]

AskedCoils(r) ==
  CASE WritesCoil(r) -> [c \in {r.at} |-> Value(r.data = On)]
    [] r.fc = "WRITE_MULTIPLE_COILS" /\ Legal(r) ->
         [c \in r.at .. r.at + r.n - 1 |-> IF r.at % Bits = 0 THEN r.data[c - r.at + 1] ELSE Unknown]
    [] OTHER -> <<>>

Frame(r, how) ==
  /\ frame.number < MaxFrames
  /\ frame' = [r |-> r, number |-> frame.number + 1, how |-> how]

(* rtu_modbus_process, of a request to this slave.                         *)
Known(r) == r.fc # "OTHER"

Process(r) ==
  /\ Frame(r, "ours")
  /\ \E crc \in {0, 1} :
       coils' = Overlay(IF ReadsBits(r) THEN Gathered(r) ELSE CoilWrites(r, crc), coils)
  /\ holding' = Overlay(RegWrites(r), Overlay(BitWrites(r), holding))
  /\ tx' = IF ~ Known(r) THEN tx
           ELSE [fc |-> r.fc, err |-> ~ Legal(r), read |-> IF Legal(r) THEN Read(r) ELSE <<>>,
                 of |-> frame'.number]
  /\ asked' = [reg |-> [x \in RegSet |-> AskedReg(r, x)], coil |-> Overlay(AskedCoils(r), asked.coil)]
  /\ answered' = (tx'.fc # "none")

(* A frame for another slave, or with a wrong checksum.                    *)
MutReplies(how) == tx.fc # "none"
Replies(how) == how = "damaged" /\ tx.fc # "none"

Skip(r, how) ==
  /\ Frame(r, how)
  /\ answered' = Replies(how)
  /\ UNCHANGED <<holding, coils, tx, asked>>

Next == \E r \in Requests : Process(r) \/ \E how \in {"other slave", "damaged"} : Skip(r, how)

Spec == Init /\ [][Next]_vars

-----------------------------------------------------------------------------
(* Properties *)

(* What is answered is the answer to the frame before it, except to a      *)
(* damaged frame and to a function the slave does not know: those get the  *)
(* answer to an earlier one. Frames for other slaves are not answered.     *)
OwnAnswer ==
  answered => tx.of = frame.number \/ frame.how = "damaged" \/ ~ Known(frame.r)

(* A read answers the values last asked for, whatever requests and frames  *)
(* came between, those that are refused or store behind an array among     *)
(* them. It may not answer them for a register after a write to the coil   *)
(* of its number or to one that far behind the coils that it is in the     *)
(* register, or one to several registers that does not begin with the      *)
(* first one; nor for coils, if it does not begin with the first of a byte *)
(* or if the last write to one was to several and did not.                 *)
ReadsBack ==
  answered /\ ~ tx.err /\ tx.of = frame.number =>
    \A k \in 1 .. Len(tx.read) :
      CASE tx.fc = "READ_REGISTER" ->
             LET x == Number(frame.r.at) + k - 1
             IN x \in RegSet => asked.reg[x] \in {<<Unknown, Unknown>>, tx.read[k]}
        [] tx.fc = "READ_COIL" ->
             frame.r.at % Bits # 0 \/ asked.coil[frame.r.at + k - 1] \in {Unknown, tx.read[k]}
        [] OTHER -> TRUE
=============================================================================
