------------------------------ MODULE UsbRxProofs ------------------------------
(***************************************************************************)
(* Proofs about the reception by the USB device driver, for every          *)
(* requested_len, size of the buffer and length of the packets.            *)
(***************************************************************************)
EXTENDS UsbRx, TLAPS

TypeOK ==
  /\ requested_len \in Requested
  /\ DOMAIN data = 0 .. BufSize - 1
  /\ data_index \in Nat /\ rx_num_chars \in Nat
  /\ IF requested_len = 0 THEN data_index = 0 ELSE data_index < requested_len
  /\ timeout \in Nat
  /\ woken \in BOOLEAN
  /\ tick \in {"idle", "loaded", "expired", "copied"}
  /\ reg \in Nat /\ (tick = "loaded" => reg > 0)
  /\ count \in Nat /\ read \in Nat
  /\ broken \in BOOLEAN /\ late \in BOOLEAN /\ raced \in BOOLEAN

(* The next n bytes for the process are in the buffer, and are the last    *)
(* that came.                                                              *)
Holds(n) ==
  /\ read + n = count
  /\ \A i \in 0 .. n - 1 : i < BufSize /\ data[i] = read + i + 1

(* A process that was woken finds as many bytes as it is told, and the     *)
(* next request has not begun; before that the request that is being       *)
(* filled is all there is to read, and is not empty while the timeout      *)
(* callback is busy with it.                                               *)
Kept ==
  ~ late /\ ~ raced =>
    /\ ~ broken
    /\ woken => /\ tick = "idle" /\ data_index = 0
                /\ rx_num_chars > 0 /\ Holds(rx_num_chars)
    /\ ~ woken => /\ Holds(data_index)
                  /\ tick # "idle" => data_index > 0
                  /\ tick = "copied" => rx_num_chars = data_index

(* What is stored of a packet stays below the length of the request.       *)
LEMMA ModBound ==
  ASSUME NEW a \in Nat, NEW n \in Nat \ {0}
  PROVE  a % n \in 0 .. n - 1
  BY SMT

(* A position below the length of the request is left alone.               *)
LEMMA ModSmall ==
  ASSUME NEW a \in Nat, NEW n \in Nat, a < n
  PROVE  a % n = a
  BY SMT

(* The buffer has room for a whole request.                                *)
LEMMA Constants ==
  ASSUME UsbRxAssumption, NEW r \in Requested
  PROVE  r \in Nat /\ r <= BufSize /\ BufSize \in Nat \ {0} /\ Reload \in Nat \ {0} /\ MaxLen \in Nat
  BY DEF UsbRxAssumption

(* After usb_device_driver_register nothing has been received.             *)
LEMMA InitInv ==
  ASSUME UsbRxAssumption, Init
  PROVE  TypeOK /\ Kept
<1>1. requested_len \in Nat /\ requested_len <= BufSize /\ Reload \in Nat
  BY Constants DEF Init
<1>2. TypeOK
  <2>1. DOMAIN data = 0 .. BufSize - 1
    BY DEF Init
  <2>2. timeout \in Nat
    BY <1>1, Constants DEF Init
  <2>3. IF requested_len = 0 THEN data_index = 0 ELSE data_index < requested_len
    BY <1>1 DEF Init
  <2>4. broken \in BOOLEAN /\ late \in BOOLEAN /\ raced \in BOOLEAN /\ woken \in BOOLEAN
    BY Zenon DEF Init
  <2> QED BY <2>1, <2>2, <2>3, <2>4 DEF Init, TypeOK
<1> QED BY <1>2 DEF Init, Kept, Holds

(* Packets, the statements of the timeout callback and the process keep    *)
(* the types.                                                              *)
LEMMA StepTypeOK ==
  ASSUME UsbRxAssumption, TypeOK, [Next]_vars
  PROVE  TypeOK'
<1> USE DEF TypeOK
<1>1. requested_len \in Nat /\ requested_len <= BufSize /\ Reload \in Nat \ {0} /\ MaxLen \in Nat
  BY Constants
<1>2. ASSUME NEW len \in 1 .. MaxLen, PktReceived(len)
      PROVE  TypeOK'
  <2>1. IF requested_len = 0 THEN data_index' = 0
        ELSE data_index' \in Nat /\ data_index' < requested_len
    <3>1. CASE requested_len = 0
      BY <1>2, <3>1 DEF PktReceived, Index
    <3>2. CASE requested_len # 0
      <4>1. data_index' = (data_index + len) % requested_len
        BY <1>2, <3>2 DEF PktReceived, Index
      <4>2. data_index + len \in Nat /\ requested_len \in Nat \ {0}
        BY <1>1, <3>2
      <4> QED BY <4>1, <4>2, <3>2, <1>1, ModBound
    <3> QED BY <3>1, <3>2
  <2>2. DOMAIN data' = DOMAIN data
    BY <1>2 DEF PktReceived
  <2>3. rx_num_chars' \in Nat /\ timeout' \in Nat /\ count' \in Nat
    BY <1>2, <1>1 DEF PktReceived
  <2> QED BY <1>2, <2>1, <2>2, <2>3 DEF PktReceived
<1>3. CASE TickStart
  BY <1>3 DEF TickStart, driver, history
<1>4. CASE TickStore
  BY <1>4 DEF TickStore, history
<1>5. CASE TickCopy
  BY <1>5 DEF TickCopy
<1>6. CASE TickReset
  BY <1>6, <1>1 DEF TickReset, Reset, history
<1>7. CASE Read
  <2>1. /\ broken' \in BOOLEAN /\ woken' \in BOOLEAN
        /\ late' \in BOOLEAN /\ raced' \in BOOLEAN
    BY <1>7, Zenon DEF Read
  <2>2. /\ UNCHANGED <<requested_len, data, data_index, rx_num_chars, timeout, tick, reg, count>>
        /\ read' = read + rx_num_chars
    BY <1>7, Zenon DEF Read
  <2> QED BY <2>1, <2>2
<1>8. CASE UNCHANGED vars
  BY <1>8 DEF vars, driver, history
<1> QED BY <1>2, <1>3, <1>4, <1>5, <1>6, <1>7, <1>8 DEF Next, SysTick

(* A packet that fits into the rest of the request is stored behind what   *)
(* is there, byte after byte.                                              *)
LEMMA FitsBehind ==
  ASSUME UsbRxAssumption, TypeOK, NEW len \in 1 .. MaxLen, PktReceived(len), ~ Over(len)
  PROVE  \A i \in 0 .. data_index + len - 1 :
           /\ i < BufSize
           /\ data'[i] = IF i < data_index THEN data[i] ELSE count + (i - data_index + 1)
<1>1. requested_len \in Nat /\ requested_len <= BufSize /\ BufSize \in Nat \ {0} /\ len \in Nat
  BY Constants DEF TypeOK
<1>2. data_index + len - 1 < BufSize
  BY <1>1 DEF Over, TypeOK
<1>3. ASSUME NEW k \in 1 .. len
      PROVE  Position(k) = data_index + k - 1
  <2>1. CASE requested_len = 0
    BY <1>1, <2>1 DEF Over, Position, TypeOK
  <2>2. CASE requested_len # 0
    <3>1. data_index + k - 1 \in Nat /\ data_index + k - 1 < requested_len
      BY <1>1, <2>2 DEF Over, TypeOK
    <3>2. (data_index + k - 1) % requested_len = data_index + k - 1
      BY <3>1, <1>1, ModSmall
    <3> QED BY <3>2, <2>2 DEF Position
  <2> QED BY <2>1, <2>2
<1>4. ASSUME NEW i \in 0 .. data_index + len - 1
      PROVE  data'[i] = IF i < data_index THEN data[i] ELSE count + (i - data_index + 1)
  <2>1. data'[i] = IF At(i, len) = {} THEN data[i] ELSE count + Last(At(i, len))
    BY <1>2, <1>1 DEF PktReceived, TypeOK
  <2>2. CASE i < data_index
    <3>1. At(i, len) = {}
      BY <1>3, <1>1, <2>2 DEF At, TypeOK
    <3> QED BY <2>1, <2>2, <3>1
  <2>3. CASE ~ i < data_index
    <3> DEFINE k == i - data_index + 1
    <3>1. k \in 1 .. len
      BY <1>1, <2>3 DEF TypeOK
    <3>2. At(i, len) = {k}
      BY <1>3, <1>1, <3>1 DEF At, TypeOK
    <3>3. Last({k}) = k
      BY <3>1, <1>1 DEF Last
    <3> QED BY <2>1, <2>3, <3>2, <3>3
  <2> QED BY <2>2, <2>3
<1> QED BY <1>1, <1>2, <1>4 DEF TypeOK

(* They keep the bytes that are still to be read, too.                     *)
LEMMA StepKept ==
  ASSUME UsbRxAssumption, TypeOK, TypeOK', Kept, [Next]_vars
  PROVE  Kept'
<1>1. requested_len \in Nat /\ requested_len <= BufSize
  BY Constants DEF TypeOK
<1>2. ASSUME NEW len \in 1 .. MaxLen, PktReceived(len)
      PROVE  Kept'
  <2> SUFFICES ASSUME ~ late', ~ raced'
      PROVE  /\ ~ broken'
             /\ woken' => /\ tick' = "idle" /\ data_index' = 0
                          /\ rx_num_chars' > 0 /\ Holds(rx_num_chars)'
             /\ ~ woken' => /\ Holds(data_index)'
                            /\ tick' # "idle" => data_index' > 0
                            /\ tick' = "copied" => rx_num_chars' = data_index'
    BY DEF Kept
  <2>1. /\ ~ late /\ ~ woken /\ ~ Over(len) /\ ~ raced
        /\ tick # "copied" /\ (Full(len) => tick = "idle")
    BY <1>2 DEF PktReceived, TypeOK
  <2>2. ~ broken /\ Holds(data_index) /\ (tick # "idle" => data_index > 0)
    BY <2>1 DEF Kept
  <2>3. len \in Nat /\ len > 0
    BY Constants DEF TypeOK
  <2>4. /\ read' = read /\ tick' = tick /\ broken' = broken /\ count' = count + len
        /\ requested_len' = requested_len /\ woken' = Full(len)
    BY <1>2, <2>1 DEF PktReceived, TypeOK, Full
  <2>5. /\ read + (data_index + len) = count'
        /\ \A i \in 0 .. data_index + len - 1 : i < BufSize /\ data'[i] = read + i + 1
    <3>1. \A i \in 0 .. data_index + len - 1 :
            /\ i < BufSize
            /\ data'[i] = IF i < data_index THEN data[i] ELSE count + (i - data_index + 1)
      BY <1>2, <2>1, FitsBehind
    <3>2. data_index \in Nat /\ read \in Nat /\ count \in Nat
      BY DEF TypeOK
    <3>3. read + data_index = count /\ \A i \in 0 .. data_index - 1 : data[i] = read + i + 1
      BY <2>2 DEF Holds
    <3> QED BY <2>3, <2>4, <3>1, <3>2, <3>3
  <2>6. CASE Full(len)
    <3>1. data_index' = 0 /\ rx_num_chars' = data_index + len
      <4>1. CASE requested_len = 0
        BY <1>2, <2>1, <2>3, <2>6, <4>1 DEF PktReceived, Index, Over, TypeOK
      <4>2. CASE requested_len # 0
        <5>1. data_index + len = requested_len
          BY <1>1, <2>1, <2>3, <2>6, <4>2 DEF Full, Over, TypeOK
        <5>2. requested_len % requested_len = 0
          BY <1>1, <4>2, SMT
        <5> QED BY <1>2, <2>6, <4>2, <5>1, <5>2 DEF PktReceived, Index
      <4> QED BY <4>1, <4>2
    <3>2. Holds(rx_num_chars)'
      <4>1. 0 .. rx_num_chars' - 1 = 0 .. data_index + len - 1
        BY <2>3, <3>1 DEF TypeOK
      <4> QED BY <2>4, <2>5, <3>1, <4>1 DEF Holds
    <3> QED BY <2>1, <2>2, <2>3, <2>4, <2>6, <3>1, <3>2 DEF TypeOK
  <2>7. CASE ~ Full(len)
    <3>1. requested_len # 0 /\ data_index + len < requested_len
      BY <1>1, <2>3, <2>7 DEF Full, TypeOK
    <3>2. data_index' = data_index + len
      <4>1. data_index + len \in Nat
        BY <2>3 DEF TypeOK
      <4>2. (data_index + len) % requested_len = data_index + len
        BY <1>1, <3>1, <4>1, ModSmall
      <4> QED BY <1>2, <3>1, <4>2 DEF PktReceived, Index
    <3>3. Holds(data_index)'
      <4>1. 0 .. data_index' - 1 = 0 .. data_index + len - 1
        BY <2>3, <3>2 DEF TypeOK
      <4> QED BY <2>4, <2>5, <3>2, <4>1 DEF Holds
    <3> QED BY <2>1, <2>2, <2>3, <2>4, <2>7, <3>2, <3>3 DEF TypeOK
  <2> QED BY <2>6, <2>7
<1>3. CASE TickStart
  BY <1>3 DEF TickStart, driver, history, Kept, Holds, TypeOK
<1>4. CASE TickStore
  BY <1>4 DEF TickStore, history, Kept, Holds, TypeOK
<1>5. CASE TickCopy
  BY <1>5 DEF TickCopy, Kept, Holds, TypeOK
<1>6. CASE TickReset
  BY <1>6 DEF TickReset, Reset, history, Kept, Holds, TypeOK
<1>7. CASE Read
  <2> SUFFICES ASSUME ~ late, ~ raced
      PROVE  ~ broken' /\ Holds(data_index)' /\ ~ woken' /\ tick' = "idle"
    BY <1>7 DEF Read, Kept
  <2>1. /\ woken /\ tick = "idle" /\ woken' = FALSE /\ tick' = tick /\ count' = count
        /\ data_index' = data_index /\ data' = data /\ read' = read + rx_num_chars
    BY <1>7 DEF Read
  <2>2. ~ broken /\ data_index = 0 /\ rx_num_chars > 0 /\ Holds(rx_num_chars)
    BY <2>1 DEF Kept
  <2>3. ~ broken'
    BY <1>7, <2>2 DEF Read, Holds, TypeOK
  <2>4. Holds(data_index)'
    BY <2>1, <2>2 DEF Holds, TypeOK
  <2> QED BY <2>1, <2>3, <2>4
<1>8. CASE UNCHANGED vars
  BY <1>8 DEF vars, driver, history, Kept, Holds
<1> QED BY <1>2, <1>3, <1>4, <1>5, <1>6, <1>7, <1>8 DEF Next, SysTick

(* No byte is stored behind the buffer, whatever the host sends and        *)
(* wherever a packet cuts the statements of the timeout callback.          *)
THEOREM StoresInBuffer ==
  ASSUME UsbRxAssumption
  PROVE  Spec => []UsbInBuffer
<1>1. TypeOK => UsbInBuffer
  BY Constants DEF TypeOK, UsbInBuffer
<1>2. Init => TypeOK
  BY InitInv
<1>3. TypeOK /\ [Next]_vars => TypeOK'
  BY StepTypeOK
<1> QED BY <1>1, <1>2, <1>3, PTL DEF Spec

(* The process reads every byte once and in order, wherever a packet cuts  *)
(* the timeout callback, except in the cases ReadInOrder names.            *)
THEOREM ReadsInOrder ==
  ASSUME UsbRxAssumption
  PROVE  Spec => []ReadInOrder
<1>1. TypeOK /\ Kept => ReadInOrder
  BY DEF TypeOK, Kept, Holds, ReadInOrder
<1>2. Init => TypeOK /\ Kept
  BY InitInv
<1>3. TypeOK /\ Kept /\ [Next]_vars => TypeOK' /\ Kept'
  BY StepTypeOK, StepKept
<1> QED BY <1>1, <1>2, <1>3, PTL DEF Spec
=============================================================================
