------------------------------ MODULE UartProofs ------------------------------
(* Theorems about Uart, for any buffer, lengths, timeout and flags.        *)
EXTENDS Uart, TLAPS

-----------------------------------------------------------------------------
(* Type correctness                                                        *)

(* rx_index stays in the buffer, which the types of the rest rely on: a    *)
(* packet is complete at rx_max_len at the latest.                         *)
Typed == TypeOK /\ InBuffer

(* A character more is within the buffer, and its index if not complete. *)
LEMMA LenFits ==
  ASSUME UartAssumption, Typed
  PROVE  /\ rx_index + 1 \in 1 .. BufSize
         /\ ~ Full(rx_index + 1) => rx_index + 1 \in Indices
<1>1. rx_max_len \in 1 .. BufSize /\ BufSize \in Nat /\ rx_index \in 0 .. BufSize - 1
  BY DEF UartAssumption, Typed, TypeOK, InBuffer, Indices
<1> QED BY <1>1 DEF Full, Indices

(* Every step of the driver keeps the types, ...                         *)
LEMMA StepTyped == UartAssumption /\ Typed /\ [Next]_vars => Typed'
<1> SUFFICES ASSUME UartAssumption, Typed, [Next]_vars PROVE Typed'
    OBVIOUS
<1> USE DEF UartAssumption, Typed, TypeOK, InBuffer
<1>1. CASE RxCplt
  <2>1. /\ rx_index + 1 \in 1 .. BufSize
        /\ ~ Full(rx_index + 1) => rx_index + 1 \in Indices
    BY LenFits
  <2>2. data' \in [Indices -> Nat] /\ count' \in Nat
    BY <1>1 DEF RxCplt
  <2>3. rx_index' \in Indices /\ rx_index' \in Nat /\ rx_num_chars' \in 0 .. BufSize
    BY <1>1, <2>1 DEF RxCplt, Indices
  <2>4. flags' \in SUBSET {"RX", "TO", "ERR"}
    BY <1>1 DEF RxCplt, Raise
  <2>5. timeout' \in Nat /\ quiet' \in Nat /\ unreported' \in Nat
    BY <1>1 DEF RxCplt, Reloaded
  <2>6. raced' \in BOOLEAN
    BY <1>1 DEF RxCplt
  <2> QED BY <1>1, <2>2, <2>3, <2>4, <2>5, <2>6 DEF RxCplt, line
<1>2. ASSUME NEW overrun \in BOOLEAN, Error(overrun) PROVE Typed'
  BY <1>2 DEF Error, Raise, Reloaded, buffer, history
<1>3. CASE TickStart
  <2>1. /\ tick' \in {"idle", "loaded", "expired"}
        /\ tick' = "loaded" => reg' \in Nat \ {0}
    BY <1>3 DEF TickStart
  <2>2. quiet' \in Nat
    BY <1>3 DEF TickStart
  <2> QED BY <1>3, <2>1, <2>2 DEF TickStart, buffer, line
<1>4. CASE TickStore
  BY <1>4 DEF TickStore, Stored, buffer, line, history
<1>5. CASE TickCopy
  BY <1>5 DEF TickCopy, Indices, line
<1>6. CASE TickReset
  BY <1>6 DEF TickReset, Reset, Raise, Indices, line, history
<1>7. ASSUME NEW n \in Lens, SetRxLen(n) PROVE Typed'
  BY <1>7 DEF SetRxLen, line, history
<1>8. CASE GetWakeupFlags
  BY <1>8 DEF GetWakeupFlags, buffer, line, history
<1>9. CASE UNCHANGED vars
  BY <1>9 DEF vars, buffer, line, history
<1> QED BY <1>1, <1>2, <1>3, <1>4, <1>5, <1>6, <1>7, <1>8, <1>9 DEF Next, SysTick

(* ... they hold at the start, ...                                       *)
LEMMA InitTyped == UartAssumption /\ Init => Typed
<1> SUFFICES ASSUME UartAssumption, Init PROVE Typed
    OBVIOUS
<1> USE DEF UartAssumption, Init
<1>1. 0 \in Indices /\ 0 \in 0 .. BufSize /\ Reload \in Nat
  BY DEF Indices
<1>2. data \in [Indices -> Nat]
  OBVIOUS
<1>3. flags \in SUBSET {"RX", "TO", "ERR"} /\ tick \in {"idle", "loaded", "expired", "copied"}
  OBVIOUS
<1>4. rx_max_len \in Lens /\ armed \in BOOLEAN /\ raced \in BOOLEAN
  OBVIOUS
<1> QED BY <1>1, <1>2, <1>3, <1>4 DEF Typed, TypeOK, InBuffer

(* ... and so in every reachable state.                                  *)
LEMMA AlwaysTyped == ASSUME UartAssumption PROVE Spec => []Typed
<1>1. Init => Typed
  BY InitTyped
<1>2. Typed /\ [Next]_vars => Typed'
  BY StepTyped
<1> QED BY <1>1, <1>2, PTL DEF Spec

(* Every variable has its type in every reachable state.                   *)
THEOREM TypeCorrect == ASSUME UartAssumption PROVE Spec => []TypeOK
<1>1. Typed => TypeOK
  BY DEF Typed
<1>2. Spec => []Typed
  BY AlwaysTyped
<1> QED BY <1>1, <1>2, PTL

(* No character is stored behind the buffer.                               *)
THEOREM StoresInBuffer == ASSUME UartAssumption PROVE Spec => []InBuffer
<1>1. Typed => InBuffer
  BY DEF Typed
<1>2. Spec => []Typed
  BY AlwaysTyped
<1> QED BY <1>1, <1>2, PTL

-----------------------------------------------------------------------------
(* The characters of a packet                                              *)

(* CharsKept does not say what is unreported between the copy and the      *)
(* reset of rx_index: nothing, as long as no character comes there.        *)
Chars == CharsKept /\ (~ raced /\ tick = "copied" => unreported = 0)

(* Every step keeps the count of the characters.                         *)
LEMMA StepChars == Typed /\ Chars /\ [Next]_vars => Chars'
<1> SUFFICES ASSUME Typed, Chars, [Next]_vars PROVE Chars'
    OBVIOUS
<1> USE DEF Chars, CharsKept
<1>1. CASE RxCplt
  <2>1. tick' = tick /\ (raced' <=> raced \/ tick = "copied")
    BY <1>1 DEF RxCplt
  <2> SUFFICES ASSUME ~ raced, tick # "copied"
               PROVE  /\ rx_index' = unreported'
                      /\ \A i \in 0 .. rx_index' - 1 : data'[i] = count' - rx_index' + i + 1
    BY <2>1
  <2>2. CASE Full(rx_index + 1)
    <3>1. rx_index' = 0 /\ unreported' = 0
      BY <1>1, <2>2 DEF RxCplt
    <3> QED BY <3>1
  <2>3. CASE ~ Full(rx_index + 1)
    <3>1. /\ rx_index' = rx_index + 1 /\ unreported' = unreported + 1 /\ count' = count + 1
          /\ data' = [data EXCEPT ![rx_index] = count + 1]
      BY <1>1, <2>3 DEF RxCplt
    <3>2. rx_index \in Indices /\ rx_index \in Nat /\ count \in Nat /\ data \in [Indices -> Nat]
      BY DEF Typed, TypeOK, InBuffer
    <3>3. ASSUME NEW i \in 0 .. rx_index' - 1
          PROVE  data'[i] = count' - rx_index' + i + 1
      <4>1. CASE i = rx_index
        BY <3>1, <3>2, <4>1
      <4>2. CASE i # rx_index
        <5>1. i \in 0 .. rx_index - 1
          BY <3>1, <3>2, <4>2
        <5>2. data'[i] = data[i]
          BY <3>1, <3>2, <4>2
        <5>3. data[i] = count - rx_index + i + 1
          BY <5>1
        <5> QED BY <3>1, <3>2, <5>1, <5>2, <5>3
      <4> QED BY <4>1, <4>2
    <3> QED BY <3>1, <3>3
  <2> QED BY <2>2, <2>3
<1>2. ASSUME NEW overrun \in BOOLEAN, Error(overrun) PROVE Chars'
  BY <1>2 DEF Error, buffer, history
<1>3. CASE TickStart
  BY <1>3 DEF TickStart, buffer
<1>4. CASE TickStore
  BY <1>4 DEF TickStore, buffer, history
<1>5. CASE TickCopy
  BY <1>5 DEF TickCopy
<1>6. CASE TickReset
  <2>1. rx_index' = 0 /\ unreported' = unreported /\ raced' = raced /\ tick' = "idle" /\ tick = "copied"
    BY <1>6 DEF TickReset, Reset, history
  <2> QED BY <2>1
<1>7. ASSUME NEW n \in Lens, SetRxLen(n) PROVE Chars'
  BY <1>7 DEF SetRxLen, history
<1>8. CASE GetWakeupFlags
  BY <1>8 DEF GetWakeupFlags, buffer, history
<1>9. CASE UNCHANGED vars
  BY <1>9 DEF vars, buffer, history
<1> QED BY <1>1, <1>2, <1>3, <1>4, <1>5, <1>6, <1>7, <1>8, <1>9 DEF Next, SysTick

(* The buffer starts empty.                                                *)
LEMMA InitChars == Init => Chars
  BY DEF Init, Chars, CharsKept

(* Every character is in one packet and in its place, unless one comes     *)
(* between the copy of rx_index and its reset.                             *)
THEOREM KeepsChars == ASSUME UartAssumption PROVE Spec => []CharsKept
<1>1. Init => Chars
  BY InitChars
<1>2. Chars => CharsKept
  BY DEF Chars
<1>3. Spec => []Typed
  BY AlwaysTyped
<1> QED BY <1>1, <1>2, <1>3, StepChars, PTL DEF Spec

-----------------------------------------------------------------------------
(* The timeout                                                             *)

(* The timeout and the ticks of silence add up to the reload value at      *)
(* least, also for the value SysTick has loaded and not yet stored.        *)
Waited ==
  /\ timeout + quiet >= Reload
  /\ tick = "loaded" => reg + quiet > Reload
  /\ TimeoutNotEarly

(* Every step keeps the count of the ticks.                              *)
LEMMA StepWaited == UartAssumption /\ Typed /\ Waited /\ [Next]_vars => Waited'
<1> SUFFICES ASSUME UartAssumption, Typed, Waited, [Next]_vars PROVE Waited'
    OBVIOUS
<1>t. /\ timeout \in Nat /\ quiet \in Nat /\ Reload \in Nat /\ MaxTicks \in Nat /\ Reload <= MaxTicks
      /\ tick = "loaded" => reg \in Nat \ {0}
  BY DEF UartAssumption, Typed, TypeOK
<1> USE <1>t DEF Waited, TimeoutNotEarly
<1>1. CASE RxCplt
  BY <1>1 DEF RxCplt, Reloaded
<1>2. ASSUME NEW overrun \in BOOLEAN, Error(overrun) PROVE Waited'
  BY <1>2 DEF Error, Reloaded, history
<1>3. CASE TickStart
  <2>1. /\ timeout' = timeout /\ reg' = timeout
        /\ quiet' = IF quiet < MaxTicks THEN quiet + 1 ELSE quiet
    BY <1>3 DEF TickStart
  <2>2. tick' = "loaded" => timeout > 0
    BY <1>3 DEF TickStart
  <2>3. tick' = "expired" => timeout = 0
    BY <1>3 DEF TickStart
  <2> QED BY <2>1, <2>2, <2>3
<1>4. CASE TickStore
  <2>1. /\ tick = "loaded" /\ timeout' = reg - 1 /\ quiet' = quiet
        /\ tick' = IF reg - 1 = 0 THEN "expired" ELSE "idle"
    BY <1>4 DEF TickStore, Stored, history
  <2> QED BY <2>1
<1>5. CASE TickCopy
  BY <1>5 DEF TickCopy
<1>6. CASE TickReset
  BY <1>6 DEF TickReset, history
<1>7. ASSUME NEW n \in Lens, SetRxLen(n) PROVE Waited'
  BY <1>7 DEF SetRxLen, history
<1>8. CASE GetWakeupFlags
  BY <1>8 DEF GetWakeupFlags, buffer, history
<1>9. CASE UNCHANGED vars
  BY <1>9 DEF vars, buffer, history
<1> QED BY <1>1, <1>2, <1>3, <1>4, <1>5, <1>6, <1>7, <1>8, <1>9 DEF Next, SysTick

(* The timeout starts full.                                                *)
LEMMA InitWaited == UartAssumption /\ Init => Waited
  BY DEF UartAssumption, Init, Waited, TimeoutNotEarly

(* A packet is not cut in two by a pause shorter than the timeout, though  *)
(* the decrement can store over the reload of a character.                 *)
THEOREM WaitsForTimeout == ASSUME UartAssumption PROVE Spec => []TimeoutNotEarly
<1>1. Init => Waited
  BY InitWaited
<1>2. Waited => TimeoutNotEarly
  BY DEF Waited
<1>3. Typed /\ Waited /\ [Next]_vars => Waited'
  BY StepWaited
<1>4. Spec => []Typed
  BY AlwaysTyped
<1> QED BY <1>1, <1>2, <1>3, <1>4, PTL DEF Spec
=============================================================================
