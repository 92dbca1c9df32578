---------------------------- MODULE TimersProofs ----------------------------
(* Theorems about Timers, for any number of slots, any counts and any      *)
(* masks.                                                                  *)
EXTENDS Timers, TLAPS

-----------------------------------------------------------------------------
(* Type correctness                                                        *)

(* A count that update_global_tick_count or a timer leaves is in range.    *)
LEMMA CountInRange ==
  ASSUME TimersAssumption, NEW n \in Nat
  PROVE  n % TickMod \in 0 .. TickMod - 1
BY SMT DEF TimersAssumption

(* Every call and every tick keeps the types.                              *)
LEMMA StepTypeOK == TimersAssumption /\ TypeOK /\ [Next]_vars => TypeOK'
<1> SUFFICES ASSUME TimersAssumption, TypeOK, [Next]_vars PROVE TypeOK'
    OBVIOUS
<1> USE DEF TimersAssumption, TypeOK
<1>n. tick + 1 \in Nat /\ \A n \in Nat : tick + n \in Nat
  OBVIOUS
<1>f. ASSUME NEW k \in Slots, NEW n \in Nat, NEW f \in SUBSET UserFlags, Fill(k, n, f)
      PROVE  (TypeOK /\ pc' \in Pcs) => TypeOK'
  <2>1. (tick + n) % TickMod \in 0 .. TickMod - 1
    BY <1>n, CountInRange
  <2> QED BY <1>f, <2>1 DEF Fill, UserFlags, Flags
<1>1. ASSUME NEW k \in Ids, NEW n \in Counts, NEW f \in SUBSET UserFlags, CreateTimer(k, n, f)
      PROVE  TypeOK'
  BY <1>1, <1>f DEF CreateTimer
<1>2. ASSUME NEW k \in Ids, StartTimer(k) PROVE TypeOK'
  BY <1>2 DEF StartTimer, SetFlags, Flags
<1>3. ASSUME NEW k \in Ids, RestartTimer(k) PROVE TypeOK'
  BY <1>3 DEF RestartTimer, SetFlags, Pcs
<1>4. ASSUME NEW n \in Counts, NEW f \in SUBSET UserFlags, RestartFill(n, f) PROVE TypeOK'
  BY <1>4, <1>f DEF RestartFill, Pcs
<1>5. ASSUME NEW k \in Ids, StopTimer(k) PROVE TypeOK'
  BY <1>5 DEF StopTimer, SetFlags
<1>6. ASSUME NEW k \in Ids, DestroyTimer(k) PROVE TypeOK'
  BY <1>6 DEF DestroyTimer, SetFlags
<1>7. ASSUME NEW mm \in Masks, WaitEvent(mm) PROVE TypeOK'
  BY <1>7 DEF WaitEvent, table, Pcs
<1>8. CASE WaitReturn
  BY <1>8 DEF WaitReturn, table, Pcs
<1>9. CASE GetTimerExpired
  BY <1>9 DEF GetTimerExpired, table, Pcs
<1>10. CASE LoadExpired
  BY <1>10 DEF LoadExpired, table, Pcs
<1>11. CASE StoreExpired
  BY <1>11 DEF StoreExpired, table, Pcs
<1>12. CASE Tick
  <2>1. tick' \in 0 .. TickMod - 1
    BY <1>12, <1>n, CountInRange DEF Tick, NextTick
  <2>2. Fired(tick') \subseteq Slots
    BY DEF Fired
  <2>3. \A j \in Slots : (current_timer[j] + 1) % TickMod \in 0 .. TickMod - 1
    <3>1. \A j \in Slots : current_timer[j] + 1 \in Nat
      OBVIOUS
    <3> QED BY <3>1, CountInRange
  <2>4. \A j \in Slots : (tick' + timer_value[j]) % TickMod \in 0 .. TickMod - 1
    <3>1. \A j \in Slots : tick' + timer_value[j] \in Nat
      BY <2>1
    <3> QED BY <3>1, CountInRange
  <2>5. current_timer' \in [Slots -> 0 .. TickMod - 1]
    BY <1>12, <2>3, <2>4 DEF Tick, PutOff
  <2>6. timer_flags' \in [Slots -> SUBSET Flags]
    BY <1>12 DEF Tick
  <2>7. timer_expired' \in SUBSET Slots /\ unread' \in SUBSET Slots
    BY <1>12, <2>2 DEF Tick, Report
  <2>8. owed' \in [Slots -> Nat]
    BY <1>12 DEF Tick
  <2> QED BY <1>12, <2>1, <2>5, <2>6, <2>7, <2>8 DEF Tick, local
<1>13. CASE UNCHANGED vars
  BY <1>13 DEF vars, table, local
<1> QED BY <1>1, <1>2, <1>3, <1>4, <1>5, <1>6, <1>7, <1>8, <1>9, <1>10, <1>11, <1>12, <1>13
        DEF Next, Call

(* The table starts empty.                                                 *)
LEMMA InitTypeOK == TimersAssumption /\ Init => TypeOK
<1> SUFFICES ASSUME TimersAssumption, Init PROVE TypeOK
    OBVIOUS
<1>1. 0 \in Nat /\ 0 \in 0 .. TickMod - 1 /\ 0 \in Slots
  BY DEF TimersAssumption, Slots
<1> HIDE DEF Slots
<1>2. /\ timer_flags \in [Slots -> SUBSET Flags]
      /\ timer_value \in [Slots -> Nat]
      /\ current_timer \in [Slots -> 0 .. TickMod - 1]
      /\ owed \in [Slots -> Nat]
  BY <1>1 DEF Init
<1> QED BY <1>1, <1>2 DEF Init, TypeOK, Pcs

(* Every reachable state has its types.                                    *)
THEOREM TimersTypeCorrect == ASSUME TimersAssumption PROVE Spec => []TypeOK
<1>1. Init => TypeOK
  BY InitTypeOK
<1>2. TypeOK /\ [Next]_vars => TypeOK'
  BY StepTypeOK
<1> QED BY <1>1, <1>2, PTL DEF Spec

-----------------------------------------------------------------------------
(* No timer fires early                                                    *)

(* The counts that fit under the wrap of g_tick_count.                     *)
NoWrap == TickLimit < TickMod /\ \A n \in Counts : TickLimit + n < TickMod

(* Each slot expires no later than its whole count from now, and no        *)
(* earlier than the ticks it still has to run.                             *)
ExpiryInv ==
  /\ tick <= TickLimit
  /\ \A j \in Slots : /\ timer_value[j] \in Counts \cup {0}
                      /\ current_timer[j] <= tick + timer_value[j]
                      /\ owed[j] = 0 \/ tick + owed[j] <= current_timer[j]

(* A count in the range of the modulus is unchanged by it.                 *)
LEMMA BelowWrap ==
  ASSUME TimersAssumption, NEW n \in Nat, n < TickMod
  PROVE  n % TickMod = n
BY SMT DEF TimersAssumption

(* Filling a slot makes it expire after exactly its count.                 *)
LEMMA FillExpiry ==
  ASSUME TimersAssumption, NoWrap, TypeOK, ExpiryInv,
         NEW k \in Slots, NEW n \in Counts, NEW f \in SUBSET UserFlags, Fill(k, n, f)
  PROVE  ExpiryInv'
<1>1. n \in Nat /\ tick \in Nat /\ tick + n < TickMod /\ tick' = tick
  BY DEF TimersAssumption, NoWrap, TypeOK, ExpiryInv, Fill
<1>2. (tick + n) % TickMod = tick + n
  BY <1>1, BelowWrap
<1>3. ASSUME NEW j \in Slots
      PROVE  /\ timer_value'[j] \in Counts \cup {0}
             /\ current_timer'[j] <= tick' + timer_value'[j]
             /\ owed'[j] = 0 \/ tick' + owed'[j] <= current_timer'[j]
  <2>1. CASE j = k
    BY <1>1, <1>2, <2>1 DEF Fill, TypeOK
  <2>2. CASE j # k
    BY <1>1, <2>2 DEF Fill, TypeOK, ExpiryInv
  <2> QED BY <2>1, <2>2
<1> QED BY <1>1, <1>3 DEF ExpiryInv

(* A tick moves the expiry of a fired periodic timer one count on, and the *)
(* expiry of a stopped timer along with it.                                *)
LEMMA TickExpiry ==
  ASSUME TimersAssumption, NoWrap, TypeOK, ExpiryInv, Tick
  PROVE  /\ ExpiryInv'
         /\ tick' = tick + 1
         /\ \A j \in Fired(tick') : owed[j] <= 1
<1>1. tick \in Nat /\ tick < TickLimit /\ TickLimit \in Nat /\ TickMod \in Nat /\ TickLimit < TickMod
  BY DEF TimersAssumption, NoWrap, TypeOK, Tick
<1>2. tick' = tick + 1
  <2>1. (tick + 1) % TickMod = tick + 1
    BY <1>1, BelowWrap
  <2> QED BY <2>1 DEF Tick, NextTick
<1>3. ASSUME NEW j \in Slots
      PROVE  /\ timer_value[j] \in Nat /\ current_timer[j] \in Nat /\ owed[j] \in Nat
             /\ timer_value'[j] = timer_value[j]
             /\ tick' + timer_value[j] < TickMod
             /\ current_timer[j] <= tick + timer_value[j]
             /\ owed[j] = 0 \/ tick + owed[j] <= current_timer[j]
  <2>1. timer_value[j] \in Nat /\ current_timer[j] \in 0 .. TickMod - 1 /\ owed[j] \in Nat
    BY DEF TypeOK
  <2>2. tick' + timer_value[j] < TickMod
    <3>1. timer_value[j] = 0 \/ (timer_value[j] \in Counts /\ TickLimit + timer_value[j] < TickMod)
      BY DEF NoWrap, ExpiryInv
    <3> QED BY <1>1, <1>2, <2>1, <3>1
  <2> QED BY <1>1, <2>1, <2>2 DEF ExpiryInv, Tick
<1>4. ASSUME NEW j \in Slots
      PROVE  /\ current_timer'[j] <= tick' + timer_value'[j]
             /\ owed'[j] = 0 \/ tick' + owed'[j] <= current_timer'[j]
  <2>1. CASE j \in Fired(tick') /\ Forever(j)
    <3>1. (tick' + timer_value[j]) % TickMod = tick' + timer_value[j]
      <4>1. tick' + timer_value[j] \in Nat /\ tick' + timer_value[j] < TickMod
        BY <1>1, <1>2, <1>3
      <4> QED BY <4>1, BelowWrap
    <3>2. current_timer'[j] = (tick' + timer_value[j]) % TickMod /\ owed'[j] = timer_value[j]
      <4>1. j \notin Paused
        BY <2>1 DEF Fired, Paused
      <4> QED BY <2>1, <4>1 DEF Tick
    <3> QED BY <1>1, <1>2, <1>3, <3>1, <3>2
  <2>2. CASE ~ (j \in Fired(tick') /\ Forever(j)) /\ j \in Paused
    <3>1. (current_timer[j] + 1) % TickMod = current_timer[j] + 1
      <4>1. current_timer[j] + 1 \in Nat /\ current_timer[j] + 1 < TickMod
        BY <1>1, <1>2, <1>3
      <4> QED BY <4>1, BelowWrap
    <3>2. current_timer'[j] = current_timer[j] + 1 /\ owed'[j] = owed[j]
      BY <2>2, <3>1 DEF Tick, PutOff
    <3> QED BY <1>1, <1>2, <1>3, <3>2
  <2>3. CASE ~ (j \in Fired(tick') /\ Forever(j)) /\ j \notin Paused
    <3>1. /\ current_timer'[j] = current_timer[j]
          /\ owed'[j] = IF owed[j] = 0 THEN 0 ELSE owed[j] - 1
      BY <2>3 DEF Tick
    <3> QED BY <1>1, <1>2, <1>3, <3>1
  <2> QED BY <2>1, <2>2, <2>3
<1>5. ExpiryInv'
  BY <1>1, <1>2, <1>3, <1>4 DEF ExpiryInv, Tick
<1>6. ASSUME NEW j \in Fired(tick') PROVE owed[j] <= 1
  <2>1. j \in Slots /\ tick' >= current_timer[j]
    BY DEF Fired
  <2> QED BY <1>1, <1>2, <1>3, <2>1
<1> QED BY <1>2, <1>5, <1>6

(* Every other step moves neither the tick nor an expiry of its slots.     *)
LEMMA StepExpiry ==
  TimersAssumption /\ NoWrap /\ TypeOK /\ ExpiryInv /\ [Next]_vars => ExpiryInv'
<1> SUFFICES ASSUME TimersAssumption, NoWrap, TypeOK, ExpiryInv, [Next]_vars PROVE ExpiryInv'
    OBVIOUS
<1>s. ASSUME NEW j, NEW f, SetFlags(j, f) PROVE ExpiryInv'
  BY <1>s DEF SetFlags, ExpiryInv
<1>u. ASSUME UNCHANGED <<table, tick, owed>> PROVE ExpiryInv'
  BY <1>u DEF table, ExpiryInv
<1>1. ASSUME NEW k \in Ids, NEW n \in Counts, NEW f \in SUBSET UserFlags, CreateTimer(k, n, f)
      PROVE  ExpiryInv'
  <2>1. k \in Slots /\ Fill(k, n, f)
    BY <1>1 DEF TimersAssumption, CreateTimer
  <2> QED BY <2>1, FillExpiry
<1>2. ASSUME NEW k \in Ids, StartTimer(k) PROVE ExpiryInv'
  BY <1>2, <1>s DEF StartTimer
<1>3. ASSUME NEW k \in Ids, RestartTimer(k) PROVE ExpiryInv'
  BY <1>3, <1>s DEF RestartTimer
<1>4. ASSUME NEW n \in Counts, NEW f \in SUBSET UserFlags, RestartFill(n, f) PROVE ExpiryInv'
  <2>1. arg \in Slots /\ Fill(arg, n, f)
    BY <1>4 DEF RestartFill, TypeOK
  <2> QED BY <2>1, FillExpiry
<1>5. ASSUME NEW k \in Ids, StopTimer(k) PROVE ExpiryInv'
  BY <1>5, <1>s DEF StopTimer
<1>6. ASSUME NEW k \in Ids, DestroyTimer(k) PROVE ExpiryInv'
  BY <1>6, <1>s DEF DestroyTimer
<1>7. ASSUME NEW mm \in Masks, WaitEvent(mm) PROVE ExpiryInv'
  BY <1>7, <1>u DEF WaitEvent
<1>8. CASE WaitReturn
  BY <1>8, <1>u DEF WaitReturn
<1>9. CASE GetTimerExpired
  BY <1>9, <1>u DEF GetTimerExpired
<1>10. CASE LoadExpired
  BY <1>10, <1>u DEF LoadExpired
<1>11. CASE StoreExpired
  BY <1>11, <1>u DEF StoreExpired
<1>12. CASE Tick
  BY <1>12, TickExpiry
<1>13. CASE UNCHANGED vars
  BY <1>13, <1>u DEF vars
<1> QED BY <1>1, <1>2, <1>3, <1>4, <1>5, <1>6, <1>7, <1>8, <1>9, <1>10, <1>11, <1>12, <1>13
        DEF Next, Call

(* Only a tick makes a slot expire.                                        *)
LEMMA UnreadOnlyByTick ==
  ASSUME [Next]_vars, NEW j \in unread' \ unread
  PROVE  Tick /\ j \in Fired(tick')
<1>1. ASSUME NEW k, NEW n, NEW f, Fill(k, n, f) PROVE FALSE
  BY <1>1 DEF Fill
<1>2. ASSUME NEW k, NEW f, SetFlags(k, f) PROVE FALSE
  BY <1>2 DEF SetFlags
<1>3. ASSUME unread' \subseteq unread PROVE FALSE
  BY <1>3
<1>4. ASSUME NEW k \in Ids, NEW n \in Counts, NEW f \in SUBSET UserFlags, CreateTimer(k, n, f)
      PROVE  FALSE
  BY <1>4, <1>1 DEF CreateTimer
<1>5. ASSUME NEW n \in Counts, NEW f \in SUBSET UserFlags, RestartFill(n, f) PROVE FALSE
  BY <1>5, <1>1 DEF RestartFill
<1>6. ASSUME NEW k \in Ids,
             StartTimer(k) \/ RestartTimer(k) \/ StopTimer(k) \/ DestroyTimer(k)
      PROVE  FALSE
  BY <1>6, <1>2 DEF StartTimer, RestartTimer, StopTimer, DestroyTimer
<1>7. ASSUME NEW mm \in Masks, WaitEvent(mm) PROVE FALSE
  BY <1>7, <1>3 DEF WaitEvent
<1>8. ASSUME WaitReturn \/ GetTimerExpired \/ LoadExpired \/ StoreExpired PROVE FALSE
  BY <1>8, <1>3 DEF WaitReturn, GetTimerExpired, LoadExpired, StoreExpired
<1>9. ASSUME UNCHANGED vars PROVE FALSE
  BY <1>9, <1>3 DEF vars
<1>10. Tick
  BY <1>4, <1>5, <1>6, <1>7, <1>8, <1>9 DEF Next, Call
<1> QED BY <1>10 DEF Tick

(* No slot is due at the start.                                            *)
LEMMA InitExpiry == TimersAssumption /\ Init => ExpiryInv
BY DEF TimersAssumption, Init, ExpiryInv

(* A slot that expires has its last tick to run.                           *)
LEMMA FiresInTime ==
  ASSUME TimersAssumption, NoWrap, TypeOK, ExpiryInv, [Next]_vars, NEW j \in unread' \ unread
  PROVE  owed[j] <= 1
<1>1. Tick /\ j \in Fired(tick')
  BY UnreadOnlyByTick
<1> QED BY <1>1, TickExpiry

(* No timer fires before its count has run, as long as the expiries stay   *)
(* below the wrap of g_tick_count.                                         *)
THEOREM TimersNeverEarly ==
  ASSUME TimersAssumption, NoWrap PROVE Spec => TimerNotEarly
<1>1. Init => ExpiryInv
  BY InitExpiry
<1>2. TypeOK /\ ExpiryInv /\ [Next]_vars =>
        [\A j \in Slots : j \in unread' \ unread => owed[j] <= 1]_vars
  BY FiresInTime
<1>3. TypeOK /\ ExpiryInv /\ [Next]_vars => ExpiryInv'
  BY StepExpiry
<1>4. Spec => []TypeOK
  BY TimersTypeCorrect
<1> QED BY <1>1, <1>2, <1>3, <1>4, PTL DEF Spec, TimerNotEarly

-----------------------------------------------------------------------------
(* How an expiry is lost                                                   *)

(* A step that changes none of what Lost is made of loses nothing.         *)
LEMMA LostUnchanged ==
  ASSUME TypeOK,
         unread' = unread, timer_expired' = timer_expired, tim_exp' = tim_exp,
         pc \notin {"copied", "storing"} \/ pc' \in {"copied", "storing"}
  PROVE  Lost' \subseteq Lost
BY DEF Lost

(* An expiry that is lost was not yet recorded when get_timer_expired      *)
(* loaded the word it stores now.                                          *)
LEMMA LosesInRace ==
  ASSUME TypeOK, [Next]_vars, NEW j \in Lost' \ Lost
  PROVE  pc = "storing" /\ j \in timer_expired \ reg
<1>s. ASSUME NEW k, NEW f, SetFlags(k, f), pc = "run" PROVE FALSE
  BY <1>s, LostUnchanged DEF SetFlags
<1>f. ASSUME NEW k, NEW n, NEW f, Fill(k, n, f), pc \in {"run", "restarting"} PROVE FALSE
  BY <1>f, LostUnchanged DEF Fill
<1>1. ASSUME NEW k \in Ids, NEW n \in Counts, NEW f \in SUBSET UserFlags, CreateTimer(k, n, f)
      PROVE  FALSE
  BY <1>1, <1>f DEF CreateTimer
<1>2. ASSUME NEW n \in Counts, NEW f \in SUBSET UserFlags, RestartFill(n, f) PROVE FALSE
  BY <1>2, <1>f DEF RestartFill
<1>3. ASSUME NEW k \in Ids,
             StartTimer(k) \/ RestartTimer(k) \/ StopTimer(k) \/ DestroyTimer(k)
      PROVE  FALSE
  BY <1>3, <1>s DEF StartTimer, RestartTimer, StopTimer, DestroyTimer
<1>4. ASSUME NEW mm \in Masks, WaitEvent(mm) PROVE FALSE
  BY <1>4, LostUnchanged DEF WaitEvent
<1>5. ASSUME WaitReturn \/ LoadExpired PROVE FALSE
  BY <1>5, LostUnchanged DEF WaitReturn, LoadExpired
<1>6. ASSUME GetTimerExpired PROVE FALSE
  BY <1>6 DEF GetTimerExpired, Lost
<1>7. CASE StoreExpired
  BY <1>7 DEF StoreExpired, Lost
<1>8. ASSUME Tick PROVE FALSE
  BY <1>8 DEF Tick, Report, Lost, local
<1>9. ASSUME UNCHANGED vars PROVE FALSE
  BY <1>9 DEF vars, local, Lost
<1> QED BY <1>1, <1>2, <1>3, <1>4, <1>5, <1>6, <1>7, <1>8, <1>9 DEF Next, Call

(* An expiry is lost only between the load and the store of                *)
(* get_timer_expired.                                                      *)
THEOREM LostOnlyByRace ==
  ASSUME TimersAssumption PROVE Spec => ExpiryLostOnlyByRace
<1>1. TypeOK /\ [Next]_vars =>
        [\A j \in Lost' \ Lost : pc = "storing" /\ j \in timer_expired \ reg]_vars
  BY LosesInRace
<1>2. Spec => []TypeOK
  BY TimersTypeCorrect
<1> QED BY <1>1, <1>2, PTL DEF Spec, ExpiryLostOnlyByRace
=============================================================================
