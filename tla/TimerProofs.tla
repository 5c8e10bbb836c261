----------------------------- MODULE TimerProofs -----------------------------
(***************************************************************************)
(* Proofs about Timer, for every width of a half, interval, wrap of the    *)
(* count of ticks and delay.                                               *)
(***************************************************************************)
EXTENDS Timer, TLAPS

(* A register and its halves *)

LEMMA Halves ==
    ASSUME NEW t \in Nat
    PROVE  /\ HighOf(t) \in Nat /\ LowOf(t) \in Word /\ LowOf(t) \in Nat
           /\ HighOf(t) * WORD \in Nat
           /\ t = HighOf(t) * WORD + LowOf(t)
  BY WordAssumption DEF HighOf, LowOf, Word

\* What two halves make has those halves.
LEMMA Joined ==
    ASSUME NEW q \in Nat, NEW r \in Word
    PROVE  /\ q * WORD + r \in Nat
           /\ HighOf(q * WORD + r) = q /\ LowOf(q * WORD + r) = r
<1> DEFINE t == q * WORD + r
           h == HighOf(t)
           l == LowOf(t)
<1>1. t \in Nat
  BY WordAssumption DEF Word
<1>2. h \in Nat /\ l \in Word /\ t = h * WORD + l
  BY <1>1, Halves
<1>3. q * WORD + r = h * WORD + l
  BY <1>2
<1> HIDE DEF t, h, l
<1>4. ~(h >= q + 1)
  <2> SUFFICES ASSUME h >= q + 1 PROVE FALSE
    OBVIOUS
  <2>1. h * WORD >= (q + 1) * WORD /\ (q + 1) * WORD = q * WORD + WORD
    BY <1>2, WordAssumption
  <2> QED BY <2>1, <1>2, <1>3, WordAssumption DEF Word
<1>5. ~(q >= h + 1)
  <2> SUFFICES ASSUME q >= h + 1 PROVE FALSE
    OBVIOUS
  <2>1. q * WORD >= (h + 1) * WORD /\ (h + 1) * WORD = h * WORD + WORD
    BY <1>2, WordAssumption
  <2> QED BY <2>1, <1>2, <1>3, WordAssumption DEF Word
<1>6. h = q
  BY <1>2, <1>4, <1>5
<1>7. l = r
  BY <1>2, <1>3, <1>6, WordAssumption DEF Word
<1> QED BY <1>1, <1>6, <1>7 DEF t, h, l

LEMMA HighGrows ==
    ASSUME NEW s \in Nat, NEW t \in Nat, s <= t
    PROVE  HighOf(s) <= HighOf(t)
<1> DEFINE h == HighOf(s)
           k == HighOf(t)
           l == LowOf(s)
           m == LowOf(t)
<1>0. /\ h \in Nat /\ l \in Word /\ h * WORD \in Nat /\ s = h * WORD + l
      /\ k \in Nat /\ m \in Word /\ k * WORD \in Nat /\ t = k * WORD + m
  BY Halves
<1> HIDE DEF h, k, l, m
<1>1. h \in Nat /\ k \in Nat /\ h * WORD <= s /\ t < k * WORD + WORD
  BY <1>0, WordAssumption DEF Word
<1>2. ~(h >= k + 1)
  <2> SUFFICES ASSUME h >= k + 1 PROVE FALSE
    OBVIOUS
  <2>1. h * WORD >= (k + 1) * WORD /\ (k + 1) * WORD = k * WORD + WORD
    BY <1>1, WordAssumption
  <2>2. h * WORD \in Nat /\ k * WORD \in Nat
    BY <1>1, WordAssumption
  <2> QED BY <2>1, <2>2, <1>1, WordAssumption
<1> QED BY <1>1, <1>2 DEF h, k

-----------------------------------------------------------------------------
(* Types *)

LEMMA TypeStep == TypeOK /\ [Next]_vars => TypeOK'
<1> SUFFICES ASSUME TypeOK, [Next]_vars PROVE TypeOK'
  OBVIOUS
<1> USE DEF TypeOK, Contexts, ReadSteps, WriteSteps, Goto
<1>1. CASE Pass
  BY <1>1, MaxTimeAssumption DEF Pass
<1>2. ASSUME NEW c \in Contexts, ReadHigh(c) \/ ReadLow(c) \/ ReadHighAgain(c) PROVE TypeOK'
  <2>1. mtime \in Nat
    BY MaxTimeAssumption
  <2>2. HighOf(mtime) \in Nat /\ LowOf(mtime) \in Word
    BY <2>1, Halves
  <2> QED BY <1>2, <2>2 DEF ReadHigh, ReadLow, ReadHighAgain, Reading
<1>3. ASSUME NEW c \in Contexts, SetLowMax(c) PROVE TypeOK'
  <2>1. Trigger(c) \in Nat
    BY WordAssumption, IntervalAssumption DEF Trigger, Value, Word
  <2>2. HighOf(mtimecmp) * WORD + (WORD - 1) \in Nat
    <3>1. HighOf(mtimecmp) * WORD \in Nat
      BY Halves
    <3> QED BY <3>1, WordAssumption
  <2>3. 0 \in Word
    BY WordAssumption DEF Word
  <2> HIDE DEF Trigger
  <2> QED BY <1>3, <2>1, <2>2, <2>3 DEF SetLowMax, Forget, Writing
<1>4. ASSUME NEW c \in Contexts, SetHigh(c) PROVE TypeOK'
  <2>1. HighOf(trigger[c]) \in Nat /\ LowOf(mtimecmp) \in Word
    BY Halves
  <2>2. HighOf(trigger[c]) * WORD + LowOf(mtimecmp) \in Nat
    BY <2>1, Joined
  <2> QED BY <1>4, <2>2 DEF SetHigh, Writing
<1>5. ASSUME NEW c \in Contexts, SetLow(c) PROVE TypeOK'
  <2>1. HighOf(mtimecmp) \in Nat /\ LowOf(trigger[c]) \in Word
    BY Halves
  <2>2. HighOf(mtimecmp) * WORD + LowOf(trigger[c]) \in Nat
    BY <2>1, Joined
  <2> QED BY <1>5, <2>2 DEF SetLow, Writing
<1>6. CASE EnableTicks
  BY <1>6 DEF EnableTicks
<1>7. CASE Trap
  BY <1>7 DEF Trap
<1>8. CASE Count
  <2>1. (ticks + 1) % WRAP \in 0..(WRAP - 1)
    BY WrapAssumption
  <2> QED BY <1>8, <2>1 DEF Count
<1>9. CASE SetMask
  BY <1>9 DEF SetMask
<1>10. ASSUME NEW n \in Delays, Sleep(n) PROVE TypeOK'
  BY <1>10, WrapAssumption DEF Sleep
<1>11. ASSUME NEW n \in Delays, BusyWait(n) PROVE TypeOK'
  BY <1>11 DEF BusyWait
<1>12. CASE SleepOver
  BY <1>12, MaxTimeAssumption DEF SleepOver, Finish
<1>13. CASE StartWait
  <2>1. Value("main") \in Nat /\ 0 \in Word
    BY WordAssumption DEF Value, Word
  <2> HIDE DEF Value
  <2> QED BY <1>13, <2>1 DEF StartWait, Forget
<1>14. CASE WaitOn
  <2>1. 0 \in Word
    BY WordAssumption DEF Word
  <2> QED BY <1>14, <2>1 DEF WaitOn, Forget, Reading
<1>15. CASE WaitOver
  <2>1. 0 \in Word
    BY WordAssumption DEF Word
  <2> QED BY <1>15, <2>1, MaxTimeAssumption DEF WaitOver, Forget, Finish
<1>16. CASE UNCHANGED vars
  BY <1>16 DEF vars
<1> QED BY <1>1, <1>2, <1>3, <1>4, <1>5, <1>6, <1>7, <1>8, <1>9, <1>10, <1>11, <1>12, <1>13,
           <1>14, <1>15, <1>16 DEF Next

LEMMA TypeInit == Init => TypeOK
<1> SUFFICES ASSUME Init PROVE TypeOK
  OBVIOUS
<1>1. 0 \in Word /\ 0 \in 0..MaxTime /\ 0 \in 0..(WRAP - 1)
  BY WordAssumption, MaxTimeAssumption, WrapAssumption DEF Word
<1>2. mtime \in 0..MaxTime /\ mtimecmp \in Nat
  BY WordAssumption, MaxTimeAssumption DEF Init
<1> QED BY <1>1, <1>2 DEF Init, TypeOK, Contexts, ReadSteps, WriteSteps

\* Registers, halves and the count keep their ranges.
THEOREM TypeCorrect == Spec => []TypeOK
<1> QED BY TypeInit, TypeStep, PTL DEF Spec

-----------------------------------------------------------------------------
(***************************************************************************)
(* The inductive invariant, part 1: who may be where.  Only main's init()  *)
(* and then the handler set the comparator, never both.                    *)
(***************************************************************************)
Control ==
    /\ task = "init" => mtie = FALSE /\ pc["handler"] = "idle"
    /\ task # "init" => pc["main"] \notin WriteSteps \cup {"enable"}
    /\ task \in {"none", "sleep"} => pc["main"] = "idle"
    /\ pc["main"] # "count"

LEMMA ControlStep == TypeOK /\ Control /\ [Next]_vars => Control'
<1> SUFFICES ASSUME TypeOK, Control, [Next]_vars PROVE Control'
  OBVIOUS
<1>0. pc \in [Contexts -> {"idle", "count", "read", "enable"} \cup ReadSteps \cup WriteSteps]
  BY DEF TypeOK
<1> USE <1>0 DEF Control, Contexts, ReadSteps, WriteSteps, Goto, Runs
<1>1. CASE Pass \/ SetMask \/ UNCHANGED vars
  BY <1>1 DEF Pass, SetMask, vars
<1>2. ASSUME NEW c \in Contexts, ReadHigh(c) \/ ReadLow(c) \/ ReadHighAgain(c) PROVE Control'
  BY <1>2 DEF ReadHigh, ReadLow, ReadHighAgain, Reading
<1>3. ASSUME NEW c \in Contexts, SetLowMax(c) PROVE Control'
  BY <1>3 DEF SetLowMax, Writing
<1>4. ASSUME NEW c \in Contexts, SetHigh(c) PROVE Control'
  BY <1>4 DEF SetHigh, Writing
<1>5. ASSUME NEW c \in Contexts, SetLow(c) PROVE Control'
  BY <1>5 DEF SetLow, Writing
<1>6. CASE EnableTicks
  BY <1>6 DEF EnableTicks
<1>7. CASE Trap
  BY <1>7 DEF Trap
<1>8. CASE Count
  BY <1>8 DEF Count
<1>10. ASSUME NEW n \in Delays, Sleep(n) PROVE Control'
  BY <1>10 DEF Sleep, Rests
<1>11. ASSUME NEW n \in Delays, BusyWait(n) PROVE Control'
  BY <1>11 DEF BusyWait, Rests
<1>12. CASE SleepOver
  BY <1>12 DEF SleepOver, Finish
<1>13. CASE StartWait
  BY <1>13 DEF StartWait
<1>14. CASE WaitOn
  BY <1>14 DEF WaitOn, Reading
<1>15. CASE WaitOver
  BY <1>15 DEF WaitOver, Finish
<1> QED BY <1>1, <1>2, <1>3, <1>4, <1>5, <1>6, <1>7, <1>8, <1>10, <1>11, <1>12, <1>13,
           <1>14, <1>15 DEF Next

-----------------------------------------------------------------------------
(***************************************************************************)
(* Part 2: what get_mtime() returns is a time the clock had while it was   *)
(* read.  A context that began to read when the clock was b or later has   *)
(* low of a time s in b..mtime, and a high half that is s's if it is still *)
(* the clock's when it is read again; the comparator's new value is an     *)
(* interval after such a time.                                             *)
(***************************************************************************)
ReadsFrom(c, b) ==
    /\ pc[c] = "low" => high[c] <= HighOf(mtime)
    /\ pc[c] = "high_again" =>
           \E s \in Nat : b <= s /\ s <= mtime /\ low[c] = LowOf(s) /\ high[c] <= HighOf(s)
    /\ pc[c] = "read" => b <= Value(c) /\ Value(c) <= mtime
    /\ pc[c] \in WriteSteps =>
           b + INTERVAL <= trigger[c] /\ trigger[c] <= mtime + INTERVAL

\* The read that finds the high half unchanged has a time between its reads.
LEMMA ReadIsATime ==
    ASSUME NEW s \in Nat, NEW t \in Nat, NEW h \in Nat, s <= t, h <= HighOf(s), h = HighOf(t)
    PROVE  h * WORD + LowOf(s) = s
<1>1. HighOf(s) <= HighOf(t) /\ HighOf(s) \in Nat
  BY HighGrows, Halves
<1>2. h = HighOf(s)
  BY <1>1
<1>3. s = HighOf(s) * WORD + LowOf(s)
  BY Halves
<1> QED BY <1>2, <1>3

\* A step of another context, while the clock may go on.
LEMMA ReadsKept ==
    ASSUME TypeOK, NEW c \in Contexts, NEW b \in Int, ReadsFrom(c, b),
           mtime' \in Nat, mtime <= mtime',
           pc'[c] = pc[c], high'[c] = high[c], low'[c] = low[c], trigger'[c] = trigger[c]
    PROVE  ReadsFrom(c, b)'
<1>1. mtime \in Nat /\ high[c] \in Nat /\ trigger[c] \in Nat /\ Value(c) \in Nat
  BY MaxTimeAssumption, WordAssumption DEF TypeOK, Value, Word
<1>2. HighOf(mtime) <= HighOf(mtime') /\ HighOf(mtime) \in Nat /\ HighOf(mtime') \in Nat
  BY <1>1, HighGrows, Halves
<1>3. pc'[c] = "low" => high'[c] <= HighOf(mtime')
  BY <1>1, <1>2 DEF ReadsFrom
<1>4. ASSUME pc'[c] = "high_again"
      PROVE  \E s \in Nat : b <= s /\ s <= mtime' /\ low'[c] = LowOf(s) /\ high'[c] <= HighOf(s)
  <2>1. PICK s \in Nat : b <= s /\ s <= mtime /\ low[c] = LowOf(s) /\ high[c] <= HighOf(s)
    BY <1>4 DEF ReadsFrom
  <2>2. s <= mtime'
    BY <1>1, <2>1
  <2> QED BY <2>1, <2>2
<1>5. Value(c)' = Value(c)
  BY DEF Value
<1>6. pc'[c] = "read" => b <= Value(c)' /\ Value(c)' <= mtime'
  BY <1>1, <1>5 DEF ReadsFrom
<1>7. pc'[c] \in WriteSteps => b + INTERVAL <= trigger'[c] /\ trigger'[c] <= mtime' + INTERVAL
  BY <1>1, IntervalAssumption DEF ReadsFrom
<1> HIDE DEF HighOf, LowOf, Value
<1> QED BY <1>3, <1>4, <1>6, <1>7 DEF ReadsFrom, HighOf, LowOf

LEMMA ReadStep ==
    ASSUME TypeOK, NEW c \in Contexts, NEW b \in Int, b <= mtime, ReadsFrom(c, b),
           ReadHigh(c) \/ ReadLow(c) \/ ReadHighAgain(c)
    PROVE  ReadsFrom(c, b)'
<1>1. /\ mtime \in Nat /\ high[c] \in Nat /\ mtime' = mtime
      /\ pc \in [Contexts -> {"idle", "count", "read", "enable"} \cup ReadSteps \cup WriteSteps]
      /\ high \in [Contexts -> Nat] /\ low \in [Contexts -> Word]
  BY MaxTimeAssumption DEF TypeOK, ReadHigh, ReadLow, ReadHighAgain, Reading
<1>2. CASE ReadHigh(c)
  <2>1. pc'[c] = "low" /\ high'[c] = HighOf(mtime)
    BY <1>1, <1>2 DEF ReadHigh, Goto
  <2>2. HighOf(mtime) \in Nat
    BY <1>1, Halves
  <2> QED BY <1>1, <2>1, <2>2 DEF ReadsFrom, WriteSteps
<1>3. CASE ReadLow(c)
  <2>1. pc[c] = "low" /\ pc'[c] = "high_again" /\ low'[c] = LowOf(mtime) /\ high' = high
    BY <1>1, <1>3 DEF ReadLow, Goto
  <2>2. high[c] <= HighOf(mtime)
    BY <2>1 DEF ReadsFrom
  <2> QED BY <1>1, <2>1, <2>2 DEF ReadsFrom, WriteSteps
<1>4. CASE ReadHighAgain(c)
  <2>1. /\ pc[c] = "high_again" /\ high' = high /\ low' = low
        /\ pc'[c] = IF high[c] = HighOf(mtime) THEN "read" ELSE "high"
    BY <1>1, <1>4 DEF ReadHighAgain, Goto
  <2>2. PICK s \in Nat : b <= s /\ s <= mtime /\ low[c] = LowOf(s) /\ high[c] <= HighOf(s)
    BY <2>1 DEF ReadsFrom
  <2>3. CASE high[c] = HighOf(mtime)
    <3>1. Value(c)' = s
      BY <1>1, <2>1, <2>2, <2>3, ReadIsATime DEF Value
    <3> HIDE DEF Value
    <3> QED BY <1>1, <2>1, <2>2, <2>3, <3>1 DEF ReadsFrom, WriteSteps
  <2>4. CASE high[c] # HighOf(mtime)
    BY <2>1, <2>4 DEF ReadsFrom, WriteSteps
  <2> QED BY <2>3, <2>4
<1> QED BY <1>2, <1>3, <1>4

LEMMA ReadsStep ==
    ASSUME TypeOK, TypeOK', [Next]_vars,
           NEW c \in Contexts, NEW b \in Int, b <= mtime, ReadsFrom(c, b)
    PROVE  ReadsFrom(c, b)'
<1>0. /\ mtime \in Nat /\ mtime' \in Nat /\ mtime <= mtime'
      /\ pc \in [Contexts -> {"idle", "count", "read", "enable"} \cup ReadSteps \cup WriteSteps]
      /\ high \in [Contexts -> Nat] /\ low \in [Contexts -> Word] /\ trigger \in [Contexts -> Nat]
  <2>1. mtime \in Nat /\ mtime' \in Nat
    BY MaxTimeAssumption DEF TypeOK
  <2>2. mtime' = mtime \/ mtime' = mtime + 1
    BY DEF Next, Pass, ReadHigh, ReadLow, ReadHighAgain, Reading, SetLowMax, SetHigh, SetLow,
           Writing, EnableTicks, Trap, Count, SetMask, Sleep, SleepOver, BusyWait, StartWait,
           WaitOn, WaitOver, vars
  <2> QED BY <2>1, <2>2 DEF TypeOK
<1>1. ASSUME NEW d \in Contexts, ReadHigh(d) \/ ReadLow(d) \/ ReadHighAgain(d)
      PROVE  ReadsFrom(c, b)'
  <2>1. CASE d = c
    BY <1>1, <2>1, ReadStep
  <2>2. CASE d # c
    BY <1>0, <1>1, <2>2, ReadsKept DEF ReadHigh, ReadLow, ReadHighAgain, Reading, Goto
  <2> QED BY <2>1, <2>2
<1>2. ASSUME NEW d \in Contexts, SetLowMax(d) PROVE ReadsFrom(c, b)'
  <2>1. CASE d = c
    <3>1. pc[c] = "read" /\ pc'[c] = "set_high" /\ trigger'[c] = Value(c) + INTERVAL /\ mtime' = mtime
      BY <1>0, <1>2, <2>1 DEF SetLowMax, Goto, Trigger, Writing
    <3>2. b <= Value(c) /\ Value(c) <= mtime
      BY <3>1 DEF ReadsFrom
    <3>3. Value(c) \in Nat
      BY <1>0, WordAssumption DEF Value, Word
    <3> HIDE DEF Value
    <3>4. b + INTERVAL <= trigger'[c] /\ trigger'[c] <= mtime' + INTERVAL
      BY <1>0, <3>1, <3>2, <3>3, IntervalAssumption
    <3> QED BY <3>1, <3>4 DEF ReadsFrom
  <2>2. CASE d # c
    BY <1>0, <1>2, <2>2, ReadsKept DEF SetLowMax, Writing, Goto, Forget
  <2> QED BY <2>1, <2>2
<1>3. ASSUME NEW d \in Contexts, SetHigh(d) PROVE ReadsFrom(c, b)'
  <2>1. CASE d = c
    <3>1. pc[c] = "set_high" /\ pc'[c] = "set_low" /\ trigger' = trigger /\ mtime' = mtime
      BY <1>0, <1>3, <2>1 DEF SetHigh, Goto, Writing
    <3> QED BY <3>1 DEF ReadsFrom, WriteSteps
  <2>2. CASE d # c
    BY <1>0, <1>3, <2>2, ReadsKept DEF SetHigh, Writing, Goto
  <2> QED BY <2>1, <2>2
<1>4. ASSUME NEW d \in Contexts, SetLow(d) PROVE ReadsFrom(c, b)'
  <2>1. CASE d = c
    <3>1. pc'[c] \in {"idle", "enable"}
      BY <1>0, <1>4, <2>1 DEF SetLow, Goto
    <3> QED BY <3>1 DEF ReadsFrom, WriteSteps
  <2>2. CASE d # c
    BY <1>0, <1>4, <2>2, ReadsKept DEF SetLow, Writing, Goto
  <2> QED BY <2>1, <2>2
\* The other steps leave the registers' halves alone, or start to read anew.
<1>5. ASSUME pc'[c] \in {"idle", "count", "high"} PROVE ReadsFrom(c, b)'
  BY <1>5 DEF ReadsFrom, WriteSteps
<1>6. ASSUME NEW d \in Contexts, Goto(d, pc[d], pc'[d]), pc'[d] \in {"idle", "count", "high"},
             c # d => high'[c] = high[c] /\ low'[c] = low[c], trigger' = trigger
      PROVE  ReadsFrom(c, b)'
  <2>1. CASE d = c
    BY <1>5, <1>6, <2>1
  <2>2. CASE d # c
    BY <1>0, <1>6, <2>2, ReadsKept DEF Goto
  <2> QED BY <2>1, <2>2
<1>7. CASE EnableTicks
  BY <1>0, <1>6, <1>7 DEF EnableTicks, Goto, Contexts
<1>8. CASE Count
  BY <1>0, <1>6, <1>8 DEF Count, Goto, Contexts
<1>9. CASE StartWait \/ WaitOn \/ WaitOver
  BY <1>0, <1>6, <1>9 DEF StartWait, WaitOn, WaitOver, Reading, Goto, Forget, Contexts
<1>10. CASE Trap
  <2>1. CASE c = "handler"
    BY <1>0, <1>5, <1>10, <2>1 DEF Trap
  <2>2. CASE c # "handler"
    BY <1>0, <1>10, <2>2, ReadsKept DEF Trap
  <2> QED BY <2>1, <2>2
<1>11. ASSUME NEW n \in Delays, BusyWait(n) PROVE ReadsFrom(c, b)'
  <2>1. CASE c = "main"
    BY <1>0, <1>5, <1>11, <2>1 DEF BusyWait
  <2>2. CASE c # "main"
    BY <1>0, <1>11, <2>2, ReadsKept DEF BusyWait
  <2> QED BY <2>1, <2>2
<1>12. CASE Pass \/ SetMask \/ SleepOver \/ UNCHANGED vars
  BY <1>0, <1>12, ReadsKept DEF Pass, SetMask, SleepOver, vars
<1>13. ASSUME NEW n \in Delays, Sleep(n) PROVE ReadsFrom(c, b)'
  BY <1>0, <1>13, ReadsKept DEF Sleep
<1> QED BY <1>1, <1>2, <1>3, <1>4, <1>7, <1>8, <1>9, <1>10, <1>11, <1>12, <1>13 DEF Next

-----------------------------------------------------------------------------
(***************************************************************************)
(* Part 3: the comparator.  After its high half is set it has the new      *)
(* value's, so that the low half completes the new value.                  *)
(***************************************************************************)
HalfSet(c) == pc[c] = "set_low" => HighOf(mtimecmp) = HighOf(trigger[c])

Near == mtimecmp <= mtime + INTERVAL

ComparatorInv ==
    /\ \A c \in Contexts : ReadsFrom(c, 0) /\ HalfSet(c)
    /\ mtie /\ pc["handler"] = "idle" => Near
    /\ pc["main"] = "enable" => Near

LEMMA SetLowStores ==
    ASSUME TypeOK, NEW c \in Contexts, SetLow(c), HalfSet(c)
    PROVE  mtimecmp' = trigger[c] /\ pc[c] = "set_low"
<1>1. pc[c] = "set_low" /\ trigger[c] \in Nat
  BY DEF SetLow, Goto, TypeOK
<1>2. mtimecmp' = HighOf(trigger[c]) * WORD + LowOf(trigger[c])
  BY <1>1 DEF SetLow, HalfSet
<1>3. trigger[c] = HighOf(trigger[c]) * WORD + LowOf(trigger[c])
  BY <1>1, Halves
<1> HIDE DEF HighOf, LowOf
<1> QED BY <1>1, <1>2, <1>3

LEMMA ComparatorStep ==
    ASSUME TypeOK, TypeOK', Control, ComparatorInv, [Next]_vars PROVE ComparatorInv'
<1>0. /\ mtime \in Nat /\ mtime' \in Nat /\ mtimecmp \in Nat /\ 0 <= mtime
      /\ pc \in [Contexts -> {"idle", "count", "read", "enable"} \cup ReadSteps \cup WriteSteps]
      /\ trigger \in [Contexts -> Nat]
  BY MaxTimeAssumption DEF TypeOK
<1>1. \A c \in Contexts : ReadsFrom(c, 0)'
  BY <1>0, ReadsStep DEF ComparatorInv
<1> SUFFICES /\ \A c \in Contexts : HalfSet(c)'
             /\ mtie' /\ pc'["handler"] = "idle" => Near'
             /\ pc'["main"] = "enable" => Near'
  BY <1>1 DEF ComparatorInv, Contexts
<1> DEFINE Goal == /\ \A c \in Contexts : HalfSet(c)'
                   /\ mtie' /\ pc'["handler"] = "idle" => Near'
                   /\ pc'["main"] = "enable" => Near'
<1>2. ASSUME NEW c \in Contexts, SetLowMax(c) \/ SetHigh(c) \/ SetLow(c)
      PROVE  \A d \in Contexts : d # c => pc[d] \notin WriteSteps \cup {"enable"}
  <2>1. Goto(c, pc[c], pc'[c]) /\ pc[c] \notin {"idle", "enable"}
        /\ (c = "handler" \/ task = "init")
    <3>1. CASE SetLowMax(c)
      BY <3>1, <1>0 DEF SetLowMax, Goto
    <3>2. CASE SetHigh(c) \/ SetLow(c)
      BY <3>2, <1>0 DEF SetHigh, SetLow, Goto, Control, WriteSteps, Contexts
    <3> QED BY <1>2, <3>1, <3>2
  <2>2. CASE c = "handler"
    <3>1. task # "init"
      BY <2>1, <2>2 DEF Control
    <3> QED BY <2>2, <3>1 DEF Control, Contexts
  <2>3. CASE c = "main"
    BY <2>1, <2>3 DEF Runs, Goto, Contexts, WriteSteps
  <2> QED BY <2>2, <2>3 DEF Contexts
<1>3. ASSUME NEW c \in Contexts, SetLowMax(c) PROVE Goal
  <2>1. pc' = [pc EXCEPT ![c] = "set_high"] /\ UNCHANGED <<mtie, task>>
    BY <1>3 DEF SetLowMax, Goto, Writing
  <2>2. \A d \in Contexts : pc'[d] # "set_low"
    BY <1>0, <1>2, <1>3, <2>1 DEF WriteSteps
  <2>3. pc'["main"] # "enable"
    BY <1>0, <1>2, <1>3, <2>1 DEF Contexts
  <2>4. ~(mtie' /\ pc'["handler"] = "idle")
    <3>1. CASE c = "handler"
      BY <1>0, <2>1, <3>1
    <3>2. CASE c # "handler"
      BY <1>3, <2>1, <3>2 DEF SetLowMax, Control
    <3> QED BY <3>1, <3>2
  <2> QED BY <2>2, <2>3, <2>4 DEF HalfSet
<1>4. ASSUME NEW c \in Contexts, SetHigh(c) PROVE Goal
  <2>1. /\ pc[c] = "set_high" /\ pc' = [pc EXCEPT ![c] = "set_low"]
        /\ UNCHANGED <<mtie, task, trigger>>
        /\ mtimecmp' = HighOf(trigger[c]) * WORD + LowOf(mtimecmp)
    BY <1>4 DEF SetHigh, Goto, Writing
  <2>2. HighOf(trigger[c]) \in Nat /\ LowOf(mtimecmp) \in Word
    BY <1>0, Halves
  <2>3. HighOf(mtimecmp') = HighOf(trigger[c])
    BY <2>1, <2>2, Joined
  <2>4. \A d \in Contexts : d # c => pc'[d] # "set_low"
    BY <1>0, <1>2, <1>4, <2>1 DEF WriteSteps
  <2>5. pc'["main"] # "enable"
    BY <1>0, <1>2, <1>4, <2>1 DEF Contexts
  <2>6. ~(mtie' /\ pc'["handler"] = "idle")
    <3>1. CASE c = "handler"
      BY <1>0, <2>1, <3>1
    <3>2. CASE c # "handler"
      BY <2>1, <3>2 DEF Control, WriteSteps, Contexts
    <3> QED BY <3>1, <3>2
  <2> QED BY <2>1, <2>3, <2>4, <2>5, <2>6 DEF HalfSet, HighOf
<1>5. ASSUME NEW c \in Contexts, SetLow(c) PROVE Goal
  <2>1. mtimecmp' = trigger[c] /\ pc[c] = "set_low"
    BY <1>5, SetLowStores DEF ComparatorInv
  <2>2. mtime' = mtime /\ pc' = [pc EXCEPT ![c] = IF c = "handler" THEN "idle" ELSE "enable"]
    BY <1>5 DEF SetLow, Goto, Writing
  <2>3. Near'
    BY <1>0, <2>1, <2>2 DEF ComparatorInv, ReadsFrom, WriteSteps, Near
  <2>4. \A d \in Contexts : pc'[d] # "set_low"
    BY <1>0, <1>2, <1>5, <2>2 DEF WriteSteps
  <2> QED BY <2>3, <2>4 DEF HalfSet
\* A step that does not set the comparator
<1>6. ASSUME mtimecmp' = mtimecmp, mtime <= mtime', trigger' = trigger,
             \A d \in Contexts : pc'[d] = "set_low" => pc[d] = "set_low",
             mtie' /\ pc'["handler"] = "idle" => Near,
             pc'["main"] = "enable" => Near
      PROVE  Goal
  <2>1. Near => Near'
    <3> SUFFICES ASSUME mtimecmp <= mtime + INTERVAL PROVE mtimecmp' <= mtime' + INTERVAL
      BY DEF Near
    <3>1. mtimecmp' = mtimecmp /\ mtime <= mtime' /\ mtime \in Nat /\ mtime' \in Nat
          /\ mtimecmp \in Nat
      BY <1>0, <1>6
    <3>2. \A t, u, m \in Nat : m <= t + INTERVAL /\ t <= u => m <= u + INTERVAL
      BY IntervalAssumption
    <3> QED BY <3>1, <3>2
  <2> QED BY <1>6, <2>1 DEF HalfSet, ComparatorInv, HighOf
<1>7. ASSUME NEW c \in Contexts, ReadHigh(c) \/ ReadLow(c) \/ ReadHighAgain(c) PROVE Goal
  <2>1. /\ UNCHANGED <<mtime, mtimecmp, mtie, trigger>>
        /\ pc' = [pc EXCEPT ![c] = pc'[c]] /\ pc'[c] \in ReadSteps \cup {"read"}
    BY <1>0, <1>7 DEF ReadHigh, ReadLow, ReadHighAgain, Reading, Goto, ReadSteps
  <2>2. \A d \in Contexts : pc'[d] \in {"set_low", "idle", "enable"} => pc[d] = pc'[d]
    BY <1>0, <2>1 DEF ReadSteps
  <2> QED BY <1>0, <1>6, <2>1, <2>2 DEF ComparatorInv, Contexts
<1>8. CASE EnableTicks
  <2>1. pc["main"] = "enable" /\ pc' = [pc EXCEPT !["main"] = "idle"]
        /\ UNCHANGED <<mtime, mtimecmp, trigger>>
    BY <1>8 DEF EnableTicks, Goto
  <2>2. Near
    BY <2>1 DEF ComparatorInv
  <2> QED BY <1>0, <1>6, <2>1, <2>2
<1>9. CASE Count
  <2>1. pc' = [pc EXCEPT !["handler"] = "high"] /\ UNCHANGED <<mtime, mtimecmp, mtie, trigger>>
    BY <1>9 DEF Count, Goto
  <2> QED BY <1>0, <1>6, <2>1 DEF ComparatorInv, Contexts
<1>10. CASE Trap
  <2>1. pc' = [pc EXCEPT !["handler"] = "count"] /\ UNCHANGED <<mtime, mtimecmp, mtie, trigger>>
    BY <1>10 DEF Trap
  <2> QED BY <1>0, <1>6, <2>1 DEF ComparatorInv, Contexts
<1>11. CASE StartWait \/ WaitOn \/ WaitOver \/ (\E n \in Delays : BusyWait(n))
  <2>1. /\ \E to \in {"high", "idle"} : pc' = [pc EXCEPT !["main"] = to]
        /\ UNCHANGED <<mtime, mtimecmp, mtie, trigger>>
    BY <1>11 DEF StartWait, WaitOn, WaitOver, BusyWait, Goto, Reading
  <2> QED BY <1>0, <1>6, <2>1 DEF ComparatorInv, Contexts
<1>12. CASE Pass \/ SetMask \/ SleepOver \/ (\E n \in Delays : Sleep(n)) \/ UNCHANGED vars
  <2>1. UNCHANGED <<pc, mtimecmp, mtie, trigger>> /\ mtime <= mtime'
    BY <1>0, <1>12 DEF Pass, SetMask, SleepOver, Sleep, vars
  <2> QED BY <1>0, <1>6, <2>1 DEF ComparatorInv, Contexts
<1> QED BY <1>3, <1>4, <1>5, <1>7, <1>8, <1>9, <1>10, <1>11, <1>12 DEF Next

-----------------------------------------------------------------------------
(***************************************************************************)
(* Part 4: busy_wait_ms.  Its first read of the clock began after the      *)
(* call, so that what it counts from is no earlier.                        *)
(***************************************************************************)
WaitInv ==
    /\ began <= mtime
    /\ task = "wait_start" => ReadsFrom("main", began)
    /\ task = "wait" => began <= start

LEMMA WaitStep ==
    ASSUME TypeOK, TypeOK', WaitInv, [Next]_vars PROVE WaitInv'
<1>0. /\ mtime \in Nat /\ mtime' \in Nat /\ began \in Nat /\ start \in Nat /\ "main" \in Contexts
      /\ pc \in [Contexts -> {"idle", "count", "read", "enable"} \cup ReadSteps \cup WriteSteps]
  BY MaxTimeAssumption DEF TypeOK, Contexts
<1>1. ASSUME UNCHANGED <<task, began, start>>, mtime <= mtime' PROVE WaitInv'
  <2>1. PICK b \in Nat : b = began
    BY <1>0
  <2>2. b <= mtime /\ b <= mtime'
    BY <1>0, <1>1, <2>1 DEF WaitInv
  <2>3. task = "wait_start" => ReadsFrom("main", b)'
    BY <1>0, <2>1, <2>2, ReadsStep DEF WaitInv
  <2> QED BY <1>1, <2>1, <2>2, <2>3 DEF WaitInv, ReadsFrom, Value, HighOf, LowOf
<1>2. ASSUME NEW n \in Delays, BusyWait(n) PROVE WaitInv'
  <2>1. pc'["main"] = "high" /\ task' = "wait_start" /\ began' = mtime /\ mtime' = mtime
    BY <1>0, <1>2 DEF BusyWait
  <2> QED BY <1>0, <2>1 DEF WaitInv, ReadsFrom, WriteSteps
<1>3. CASE StartWait
  <2>1. /\ task = "wait_start" /\ pc["main"] = "read" /\ start' = Value("main")
        /\ task' = "wait" /\ UNCHANGED <<mtime, began>>
    BY <1>3 DEF StartWait, Goto
  <2>2. began <= Value("main")
    BY <2>1 DEF WaitInv, ReadsFrom
  <2> HIDE DEF Value
  <2> QED BY <2>1, <2>2 DEF WaitInv
<1>4. CASE SleepOver \/ WaitOver
  BY <1>0, <1>4 DEF SleepOver, WaitOver, Finish, WaitInv
<1>5. CASE EnableTicks
  BY <1>5 DEF EnableTicks, WaitInv
<1>6. ASSUME NEW n \in Delays, Sleep(n) PROVE WaitInv'
  BY <1>0, <1>6 DEF Sleep, WaitInv
<1>7. CASE Pass \/ (\E c \in Contexts : \/ ReadHigh(c) \/ ReadLow(c) \/ ReadHighAgain(c)
                                       \/ SetLowMax(c) \/ SetHigh(c) \/ SetLow(c))
           \/ Trap \/ Count \/ SetMask \/ WaitOn \/ UNCHANGED vars
  BY <1>0, <1>1, <1>7
  DEF Pass, ReadHigh, ReadLow, ReadHighAgain, SetLowMax, SetHigh, SetLow, Trap, Count, SetMask,
      WaitOn, Reading, Writing, vars
<1> QED BY <1>2, <1>3, <1>4, <1>5, <1>6, <1>7 DEF Next

-----------------------------------------------------------------------------
(***************************************************************************)
(* Part 5: sleep_ms.  k ticks were counted since it was called, the count  *)
(* wrapping j times, and the last of them at least k - 1 intervals after   *)
(* the call: each was due an interval after a time its predecessor's       *)
(* handler read.                                                           *)
(***************************************************************************)
Ticked(k, j, b) ==
    /\ b = began + (k - 1) * INTERVAL
    /\ ticks = start + k - j * WRAP
    /\ b <= mtime
    /\ ReadsFrom("handler", b)
    /\ pc["handler"] = "idle" => k = 0 \/ b + INTERVAL <= mtimecmp
    /\ pc["handler"] = "count" => b + INTERVAL <= mtime

SleepInv == task = "sleep" => \E k \in Nat, j \in Nat, b \in Int : Ticked(k, j, b)

\* What a counter that wraps shows is no more than what was counted.
LEMMA CountedAtLeast ==
    ASSUME NEW k \in Nat, NEW j \in Nat, NEW x \in Int, x = k - j * WRAP
    PROVE  x % WRAP \in Nat /\ x % WRAP <= k
<1> DEFINE q == x \div WRAP
           r == x % WRAP
<1>1. q \in Int /\ r \in 0..(WRAP - 1) /\ x = q * WRAP + r
  BY WrapAssumption
<1> HIDE DEF q, r
<1>2. k - r = (q + j) * WRAP
  <2>1. (q + j) * WRAP = q * WRAP + j * WRAP
    BY <1>1, WrapAssumption
  <2>2. q * WRAP \in Int /\ j * WRAP \in Int
    BY <1>1, WrapAssumption
  <2> QED BY <1>1, <2>1, <2>2, WrapAssumption
<1>3. q + j < 0 => (q + j) * WRAP <= 0 - WRAP
  <2> SUFFICES ASSUME q + j < 0 PROVE (q + j) * WRAP <= 0 - WRAP
    OBVIOUS
  <2> DEFINE m == 0 - (q + j) - 1
  <2>1. m \in Nat /\ q + j = 0 - 1 - m
    BY <1>1
  <2> HIDE DEF m
  <2>2. m * WRAP \in Nat
    BY <2>1, WrapAssumption
  <2>3. (0 - 1 - m) * WRAP = 0 - WRAP - m * WRAP
    BY <2>1, WrapAssumption
  <2> QED BY <2>1, <2>2, <2>3, WrapAssumption
<1>4. q + j >= 0 => (q + j) * WRAP >= 0
  BY <1>1, WrapAssumption
<1>5. r <= k
  BY <1>1, <1>2, <1>3, <1>4, WrapAssumption
<1> QED BY <1>1, <1>5, WrapAssumption DEF r

LEMMA SleepStep ==
    ASSUME TypeOK, TypeOK', Control, ComparatorInv, WaitInv, SleepInv, [Next]_vars
    PROVE  SleepInv'
<1>0. /\ mtime \in Nat /\ mtime' \in Nat /\ mtimecmp \in Nat /\ began \in Nat
      /\ start \in Nat /\ ticks \in 0..(WRAP - 1) /\ "handler" \in Contexts
      /\ pc \in [Contexts -> {"idle", "count", "read", "enable"} \cup ReadSteps \cup WriteSteps]
      /\ trigger \in [Contexts -> Nat]
  BY MaxTimeAssumption DEF TypeOK, Contexts
<1> SUFFICES ASSUME task' = "sleep" PROVE \E k \in Nat, j \in Nat, b \in Int : Ticked(k, j, b)'
  BY DEF SleepInv
<1>1. ASSUME NEW n \in Delays, Sleep(n)
      PROVE  \E k \in Nat, j \in Nat, b \in Int : Ticked(k, j, b)'
  <2>1. /\ pc' = pc /\ pc["handler"] = "idle" /\ start' = ticks /\ ticks' = ticks
        /\ began' = mtime /\ mtime' = mtime
    BY <1>1 DEF Sleep, Rests
  <2> DEFINE b == mtime - INTERVAL
  <2>2. /\ b \in Int /\ b <= mtime /\ b = mtime + (0 - 1) * INTERVAL
        /\ ticks = ticks + 0 - 0 * WRAP
    BY <1>0, IntervalAssumption, WrapAssumption
  <2> PICK m \in Int : m = b
    BY <2>2
  <2> HIDE DEF b
  <2>3. Ticked(0, 0, m)'
    BY <2>1, <2>2 DEF Ticked, ReadsFrom, WriteSteps
  <2> QED BY <2>3
\* The other steps continue a sleep.
<1>2. ASSUME task = "sleep"
      PROVE  \E k \in Nat, j \in Nat, b \in Int : Ticked(k, j, b)'
  <2>1. PICK k \in Nat, j \in Nat, b \in Int : Ticked(k, j, b)
    BY <1>2 DEF SleepInv
  <2>2. ReadsFrom("handler", b)'
    BY <1>0, <2>1, ReadsStep DEF Ticked
  <2>3. pc["main"] = "idle"
    BY <1>2 DEF Control
  <2>4. ASSUME UNCHANGED <<began, start, ticks>>, mtime <= mtime',
               pc'["handler"] = "idle" => k = 0 \/ b + INTERVAL <= mtimecmp',
               pc'["handler"] = "count" => b + INTERVAL <= mtime'
        PROVE  Ticked(k, j, b)'
    <3>1. b <= mtime'
      BY <1>0, <2>1, <2>4 DEF Ticked
    <3> QED BY <2>1, <2>2, <2>4, <3>1 DEF Ticked, ReadsFrom, Value, HighOf, LowOf
  <2>5. ASSUME UNCHANGED <<began, start, ticks, mtimecmp, pc>>, mtime <= mtime'
        PROVE  Ticked(k, j, b)'
    <3>1. pc["handler"] = "count" => b + INTERVAL <= mtime'
      BY <1>0, <2>1, <2>5, IntervalAssumption DEF Ticked
    <3> QED BY <2>1, <2>4, <2>5, <3>1 DEF Ticked
  <2>6. CASE Pass \/ UNCHANGED vars
    BY <1>0, <2>5, <2>6 DEF Pass, vars
  <2>7. ASSUME NEW c \in Contexts,
               \/ ReadHigh(c) \/ ReadLow(c) \/ ReadHighAgain(c) \/ SetLowMax(c) \/ SetHigh(c)
        PROVE  Ticked(k, j, b)'
    <3>1. /\ UNCHANGED <<began, start, ticks, mtime>> /\ c = "handler"
          /\ pc'["handler"] \in ReadSteps \cup {"read"} \cup WriteSteps
      BY <1>0, <2>3, <2>7
      DEF ReadHigh, ReadLow, ReadHighAgain, SetLowMax, SetHigh, Reading, Writing, Goto, Contexts,
          ReadSteps, WriteSteps
    <3> QED BY <1>0, <2>4, <3>1 DEF ReadSteps, WriteSteps
  <2>8. ASSUME NEW c \in Contexts, SetLow(c) PROVE Ticked(k, j, b)'
    <3>1. c = "handler" /\ pc'["handler"] = "idle" /\ UNCHANGED <<began, start, ticks, mtime>>
      BY <1>0, <2>3, <2>8 DEF SetLow, Goto, Writing, Contexts
    <3>2. mtimecmp' = trigger["handler"] /\ pc["handler"] = "set_low"
      BY <2>8, <3>1, SetLowStores DEF ComparatorInv
    <3>3. b + INTERVAL <= mtimecmp'
      BY <2>1, <3>2 DEF Ticked, ReadsFrom, WriteSteps
    <3> QED BY <1>0, <2>4, <3>1, <3>3
  <2>9. CASE Trap
    <3>1. /\ pc["handler"] = "idle" /\ pc'["handler"] = "count" /\ mtime >= mtimecmp
          /\ UNCHANGED <<began, start, ticks, mtime, mtimecmp>>
      BY <1>0, <2>9 DEF Trap, Due
    <3>2. b + INTERVAL <= mtime
      <4>1. CASE k = 0
        <5>1. b = began + (0 - 1) * INTERVAL /\ began <= mtime
          BY <2>1, <4>1 DEF Ticked, WaitInv
        <5> QED BY <1>0, <5>1, IntervalAssumption
      <4>2. CASE k # 0
        <5>1. b + INTERVAL <= mtimecmp
          BY <2>1, <3>1, <4>2 DEF Ticked
        <5> QED BY <1>0, <3>1, <5>1, IntervalAssumption
      <4> QED BY <4>1, <4>2
    <3> QED BY <1>0, <2>4, <3>1, <3>2
  <2>10. CASE Count
    <3>1. /\ pc["handler"] = "count" /\ pc'["handler"] = "high" /\ ticks' = (ticks + 1) % WRAP
          /\ UNCHANGED <<began, start, mtime>>
      BY <1>0, <2>10 DEF Count, Goto
    <3>2. b + INTERVAL <= mtime /\ b = began + (k - 1) * INTERVAL /\ ticks = start + k - j * WRAP
      BY <2>1, <3>1 DEF Ticked
    <3> PICK a \in Int : a = b + INTERVAL
      BY IntervalAssumption
    <3>3. a = began + ((k + 1) - 1) * INTERVAL
      <4>1. (k + 1) - 1 = k /\ (k - 1) * INTERVAL = k * INTERVAL - INTERVAL /\ k * INTERVAL \in Int
        BY IntervalAssumption
      <4> QED BY <1>0, <3>2, <4>1, IntervalAssumption
    <3>4. \E i \in Nat : ticks' = start + (k + 1) - i * WRAP
      <4>1. j * WRAP \in Int /\ (j + 1) * WRAP = j * WRAP + WRAP
        BY WrapAssumption
      <4>2. CASE ticks + 1 < WRAP
        <5>1. (ticks + 1) % WRAP = ticks + 1
          BY <1>0, <4>2, WrapAssumption
        <5>2. ticks' = start + (k + 1) - j * WRAP
          BY <1>0, <3>1, <3>2, <4>1, <5>1
        <5> QED BY <5>2
      <4>3. CASE ticks + 1 = WRAP
        <5>1. (ticks + 1) % WRAP = 0
          BY <4>3, WrapAssumption
        <5>2. ticks' = start + (k + 1) - (j + 1) * WRAP
          BY <1>0, <3>1, <3>2, <4>1, <4>3, <5>1, WrapAssumption
        <5> QED BY <5>2
      <4> QED BY <1>0, <4>2, <4>3, WrapAssumption
    <3>5. PICK i \in Nat : ticks' = start + (k + 1) - i * WRAP
      BY <3>4
    <3>6. Ticked(k + 1, i, a)'
      BY <1>0, <3>1, <3>2, <3>3, <3>5 DEF Ticked, ReadsFrom, WriteSteps
    <3> QED BY <3>6
  <2>11. ~(EnableTicks \/ StartWait \/ WaitOn \/ WaitOver)
    BY <2>3 DEF EnableTicks, StartWait, WaitOn, WaitOver, Goto
  <2>12. ~(SetMask \/ SleepOver \/ \E n \in Delays : Sleep(n) \/ BusyWait(n))
    BY <1>2 DEF SetMask, SleepOver, Finish, Sleep, BusyWait, Rests
  <2> QED BY <2>6, <2>7, <2>8, <2>9, <2>10, <2>11, <2>12 DEF Next
<1>3. ASSUME task # "sleep" PROVE \E n \in Delays : Sleep(n)
  BY <1>3
  DEF Next, Pass, ReadHigh, ReadLow, ReadHighAgain, SetLowMax, SetHigh, SetLow, Trap, Count,
      SetMask, EnableTicks, BusyWait, SleepOver, StartWait, WaitOn, WaitOver, Finish, Reading,
      Writing, vars
<1> QED BY <1>1, <1>2, <1>3

-----------------------------------------------------------------------------
TimerInv == TypeOK /\ Control /\ ComparatorInv /\ WaitInv /\ SleepInv

LEMMA TimerInvKept == Spec => []TimerInv
<1>1. Init => TimerInv
  <2> SUFFICES ASSUME Init PROVE TimerInv
    OBVIOUS
  <2>1. TypeOK
    BY TypeInit
  <2>2. /\ pc["main"] = "high" /\ pc["handler"] = "idle" /\ task = "init" /\ mtie = FALSE
        /\ began = 0 /\ mtime \in Nat /\ 0 <= mtime
    BY MaxTimeAssumption, WordAssumption DEF Init, Contexts
  <2>3. \A c \in Contexts : ReadsFrom(c, 0) /\ HalfSet(c)
    BY <2>2 DEF Contexts, ReadsFrom, HalfSet, WriteSteps
  <2> QED BY <2>1, <2>2, <2>3 DEF TimerInv, Control, ComparatorInv, WaitInv, SleepInv
<1>2. TimerInv /\ [Next]_vars => TimerInv'
  <2> SUFFICES ASSUME TimerInv, [Next]_vars PROVE TimerInv'
    OBVIOUS
  <2>1. TypeOK'
    BY TypeStep DEF TimerInv
  <2>2. Control'
    BY ControlStep DEF TimerInv
  <2>3. ComparatorInv'
    BY <2>1, ComparatorStep DEF TimerInv
  <2>4. WaitInv'
    BY <2>1, WaitStep DEF TimerInv
  <2>5. SleepInv'
    BY <2>1, SleepStep DEF TimerInv
  <2> QED BY <2>1, <2>2, <2>3, <2>4, <2>5 DEF TimerInv
<1> QED BY <1>1, <1>2, PTL DEF Spec

\* Outside the handler the comparator is never more than an interval ahead of
\* the clock, however its halves carry while get_mtime() reads them.
THEOREM TickIsNear == Spec => []NextTickIsNear
<1>1. TimerInv => NextTickIsNear
  BY DEF TimerInv, ComparatorInv, Near, NextTickIsNear
<1> QED BY <1>1, TimerInvKept, PTL

\* sleep_ms(n) sleeps for n - 1 intervals at least, for every n below the wrap
\* of the count, also when the count wraps meanwhile.
THEOREM SleepIsLongEnough == Spec => SleepsLongEnough
<1>1. ASSUME TimerInv, SleepOver PROVE mtime - began >= (ms - 1) * INTERVAL
  <2>1. /\ mtime \in Nat /\ began \in Nat /\ start \in Nat /\ ticks \in Nat /\ ms \in Nat
    BY <1>1, MaxTimeAssumption, DelaysAssumption, WrapAssumption DEF TimerInv, TypeOK
  <2>2. PICK k \in Nat, j \in Nat, b \in Int : Ticked(k, j, b)
    BY <1>1 DEF TimerInv, SleepInv, SleepOver
  <2>3. b = began + (k - 1) * INTERVAL /\ ticks = start + k - j * WRAP /\ b <= mtime
    BY <2>2 DEF Ticked
  <2>4. ticks - start = k - j * WRAP
    <3>1. j * WRAP \in Int
      BY WrapAssumption
    <3> QED BY <2>1, <2>3, <3>1
  <2>5. (ticks - start) % WRAP \in Nat /\ (ticks - start) % WRAP <= k
    BY <2>1, <2>4, CountedAtLeast
  <2>6. ms <= k
    BY <1>1, <2>1, <2>5 DEF SleepOver
  <2>7. (ms - 1) * INTERVAL <= (k - 1) * INTERVAL
    BY <2>1, <2>6, IntervalAssumption
  <2>8. (ms - 1) * INTERVAL \in Int /\ (k - 1) * INTERVAL \in Int
    BY <2>1, IntervalAssumption
  <2> QED BY <2>1, <2>3, <2>7, <2>8
<1>2. TimerInv /\ [Next]_vars => [SleepOver => mtime - began >= (ms - 1) * INTERVAL]_vars
  BY <1>1
<1> QED BY <1>2, TimerInvKept, PTL DEF Spec, SleepsLongEnough

\* busy_wait_ms(n) waits for n whole intervals at least.
THEOREM BusyWaitIsLongEnough == Spec => BusyWaitsLongEnough
<1>1. ASSUME TimerInv, WaitOver PROVE mtime - began >= ms * INTERVAL
  <2>1. /\ mtime \in Nat /\ began \in Nat /\ start \in Nat /\ ms \in Nat /\ Value("main") \in Nat
    BY <1>1, MaxTimeAssumption, DelaysAssumption, WrapAssumption, WordAssumption
    DEF TimerInv, TypeOK, Value, Contexts, Word
  <2>2. task = "wait" /\ pc["main"] = "read" /\ Value("main") - start >= ms * INTERVAL
    BY <1>1 DEF WaitOver, WaitIsOver, Goto
  <2>3. Value("main") <= mtime /\ began <= start
    BY <1>1, <2>2 DEF TimerInv, ComparatorInv, WaitInv, ReadsFrom, Contexts
  <2>4. ms * INTERVAL \in Int
    BY <2>1, IntervalAssumption
  <2> HIDE DEF Value
  <2> QED BY <2>1, <2>2, <2>3, <2>4
<1>2. TimerInv /\ [Next]_vars => [WaitOver => mtime - began >= ms * INTERVAL]_vars
  BY <1>1
<1> QED BY <1>2, TimerInvKept, PTL DEF Spec, BusyWaitsLongEnough

=============================================================================
