-------------------------------- MODULE Timer --------------------------------
(***************************************************************************)
(* arch/timer.rs: the tick interrupt and the waits built on the CLINT's    *)
(* mtime and mtimecmp, 64-bit registers that a 32-bit hart reads and       *)
(* writes by halves while the clock runs.  The main code and the handler   *)
(* that interrupts it execute get_mtime() and set_mtimecmp() each for      *)
(* themselves; a lock held by the main code masks the handler.             *)
(***************************************************************************)
EXTENDS Integers

CONSTANTS
    WORD,      \* 2^32: each half of a register holds 0..WORD-1
    INTERVAL,  \* TIMER_INTERVAL
    WRAP,      \* 2^32: the count of ticks is modulo WRAP
    Delays,    \* arguments of sleep_ms and busy_wait_ms
    MaxTime    \* where the clock stops, not within its first word

ASSUME WordAssumption == WORD \in Nat \ {0}
ASSUME IntervalAssumption == INTERVAL \in Nat \ {0}
ASSUME WrapAssumption == WRAP \in Nat \ {0}
ASSUME DelaysAssumption == Delays \subseteq 0..(WRAP - 1)
ASSUME MaxTimeAssumption == MaxTime \in Nat /\ MaxTime >= WORD - 1

VARIABLES
    mtime, mtimecmp,
    mtie,         \* MTIE in mie: init() is done
    masked,       \* the main code holds a lock
    ticks,        \* TICKS
    pc,           \* by context, the step it is at
    high, low,    \* by context, the halves get_mtime() has read
    trigger,      \* by context, the argument of set_mtimecmp()
    task,         \* what the main code does
    ms,           \* its argument
    start,        \* sleep_ms's start, or busy_wait_ms's count_start
    began         \* mtime when it was called

vars == <<mtime, mtimecmp, mtie, masked, ticks, pc,
          high, low, trigger, task, ms, start, began>>

Contexts == {"main", "handler"}
ReadSteps == {"high", "low", "high_again"}
WriteSteps == {"set_high", "set_low"}
Word == 0..(WORD - 1)

HighOf(t) == t \div WORD
LowOf(t) == t % WORD

TypeOK ==
    /\ mtime \in 0..MaxTime /\ mtimecmp \in Nat
    /\ mtie \in BOOLEAN /\ masked \in BOOLEAN
    /\ ticks \in 0..(WRAP - 1)
    /\ pc \in [Contexts -> {"idle", "count", "read", "enable"} \cup ReadSteps \cup WriteSteps]
    /\ high \in [Contexts -> Nat] /\ low \in [Contexts -> Word]
    /\ trigger \in [Contexts -> Nat]
    /\ task \in {"init", "none", "sleep", "wait_start", "wait"}
    /\ ms \in Delays \cup {0}
    /\ start \in Nat /\ began \in 0..MaxTime

Init ==
    /\ mtime \in 0..(WORD - 1) /\ mtimecmp \in 0..MaxTime
    /\ mtie = FALSE /\ masked = FALSE
    /\ ticks = 0
    /\ pc = [c \in Contexts |-> IF c = "main" THEN "high" ELSE "idle"]  \* main() in init()
    /\ high = [c \in Contexts |-> 0] /\ low = [c \in Contexts |-> 0]
    /\ trigger = [c \in Contexts |-> 0]
    /\ task = "init"
    /\ ms = 0 /\ start = 0 /\ began = 0

\* the handler runs to its end before the main code goes on
Runs(c) == c = "handler" \/ pc["handler"] = "idle"

Goto(c, from, to) ==
    /\ Runs(c)
    /\ pc[c] = from
    /\ pc' = [pc EXCEPT ![c] = to]

\* the clock
Pass ==
    /\ mtime < MaxTime
    /\ mtime' = mtime + 1
    /\ UNCHANGED <<mtimecmp, mtie, masked, ticks, pc,
                   high, low, trigger, task, ms, start, began>>

-----------------------------------------------------------------------------
(* get_mtime() *)

Reading == <<mtime, mtimecmp, mtie, masked, ticks, trigger, task, ms, start, began>>

ReadHigh(c) ==
    /\ Goto(c, "high", "low")
    /\ high' = [high EXCEPT ![c] = HighOf(mtime)]
    /\ UNCHANGED <<low, Reading>>

ReadLow(c) ==
    /\ Goto(c, "low", "high_again")
    /\ low' = [low EXCEPT ![c] = LowOf(mtime)]
    /\ UNCHANGED <<high, Reading>>

ReadHighUnchecked(c) ==  \* Faulty: the second high half is taken with the low one
    /\ Goto(c, "high_again", "read")
    /\ high' = [high EXCEPT ![c] = HighOf(mtime)]
    /\ UNCHANGED <<low, Reading>>

\* the loop repeats when the high half has changed meanwhile
ReadHighAgain(c) ==
    /\ Goto(c, "high_again", IF high[c] = HighOf(mtime) THEN "read" ELSE "high")
    /\ UNCHANGED <<high, low, Reading>>

Value(c) == high[c] * WORD + low[c]

\* what the program no longer reads is set to 0
Forget(c) == high' = [high EXCEPT ![c] = 0] /\ low' = [low EXCEPT ![c] = 0]

-----------------------------------------------------------------------------
(* set_mtimecmp(get_mtime() + TIMER_INTERVAL), in init() and the handler *)

Writing == <<mtime, mtie, masked, ticks, task, ms, start, began>>

TriggerFromLast(c) == mtimecmp + INTERVAL  \* Faulty: missed ticks are made up for

Trigger(c) == Value(c) + INTERVAL

\* u32::MAX in the low half, against spurious interrupts
SetLowMax(c) ==
    /\ c = "handler" \/ task = "init"
    /\ Goto(c, "read", "set_high")
    /\ trigger' = [trigger EXCEPT ![c] = Trigger(c)]
    /\ mtimecmp' = HighOf(mtimecmp) * WORD + (WORD - 1)
    /\ Forget(c)
    /\ UNCHANGED Writing

SetHigh(c) ==
    /\ Goto(c, "set_high", "set_low")
    /\ mtimecmp' = HighOf(trigger[c]) * WORD + LowOf(mtimecmp)
    /\ UNCHANGED <<high, low, trigger, Writing>>

\* the last step of the handler, or of init() but for MTIE
SetLow(c) ==
    /\ Goto(c, "set_low", IF c = "handler" THEN "idle" ELSE "enable")
    /\ mtimecmp' = HighOf(mtimecmp) * WORD + LowOf(trigger[c])
    /\ trigger' = [trigger EXCEPT ![c] = 0]
    /\ UNCHANGED <<high, low, Writing>>

EnableTicks ==
    /\ Goto("main", "enable", "idle")
    /\ mtie' = TRUE
    /\ task' = "none"
    /\ UNCHANGED <<mtime, mtimecmp, masked, ticks, high, low, trigger, ms, start, began>>

-----------------------------------------------------------------------------
(* the interrupt *)

Due == mtime >= mtimecmp

\* between any two instructions of the main code
Trap ==
    /\ mtie /\ ~masked /\ Due
    /\ pc["handler"] = "idle"
    /\ pc' = [pc EXCEPT !["handler"] = "count"]
    /\ UNCHANGED <<mtime, mtimecmp, mtie, masked, ticks,
                   high, low, trigger, task, ms, start, began>>

CountNoWrap ==  \* Faulty: the count leaves its 32 bits
    /\ Goto("handler", "count", "high")
    /\ ticks' = ticks + 1
    /\ UNCHANGED <<mtime, mtimecmp, mtie, masked,
                   high, low, trigger, task, ms, start, began>>

\* TICKS.fetch_add(1), which wraps
Count ==
    /\ Goto("handler", "count", "high")
    /\ ticks' = (ticks + 1) % WRAP
    /\ UNCHANGED <<mtime, mtimecmp, mtie, masked,
                   high, low, trigger, task, ms, start, began>>

-----------------------------------------------------------------------------
(* the main code: it takes and releases locks, sleeps and waits *)

Finish == task' = "none" /\ ms' = 0 /\ start' = 0 /\ began' = 0

Rests == pc["handler"] = "idle" /\ pc["main"] = "idle" /\ task = "none"

\* a lock is taken, or the last one released
SetMask ==
    /\ Rests
    /\ masked' = ~masked
    /\ UNCHANGED <<mtime, mtimecmp, mtie, ticks, pc,
                   high, low, trigger, task, ms, start, began>>

\* What wakes it is an interrupt: nobody calls it with a lock held.
Sleep(n) ==
    /\ Rests /\ ~masked
    /\ task' = "sleep" /\ ms' = n /\ start' = ticks /\ began' = mtime
    /\ UNCHANGED <<mtime, mtimecmp, mtie, masked, ticks, pc, high, low, trigger>>

\* ticks_ms().wrapping_sub(start) has reached ms; until then the loop waits in wfi
SleepOver ==
    /\ task = "sleep" /\ Runs("main")
    /\ (ticks - start) % WRAP >= ms
    /\ Finish
    /\ UNCHANGED <<mtime, mtimecmp, mtie, masked, ticks, pc, high, low, trigger>>

\* The bell waits with CONSOLE held; others may wait unmasked.
BusyWait(n) ==
    /\ Rests
    /\ task' = "wait_start" /\ ms' = n /\ began' = mtime
    /\ pc' = [pc EXCEPT !["main"] = "high"]
    /\ UNCHANGED <<mtime, mtimecmp, mtie, masked, ticks, high, low, trigger, start>>

StartWait ==
    /\ task = "wait_start"
    /\ Goto("main", "read", "high")
    /\ start' = Value("main")
    /\ task' = "wait"
    /\ Forget("main")
    /\ UNCHANGED <<mtime, mtimecmp, mtie, masked, ticks, trigger, ms, began>>

WaitIsOver == Value("main") - start >= ms * INTERVAL

WaitOn ==
    /\ task = "wait" /\ ~WaitIsOver
    /\ Goto("main", "read", "high")
    /\ Forget("main")
    /\ UNCHANGED Reading

WaitOver ==
    /\ task = "wait" /\ WaitIsOver
    /\ Goto("main", "read", "idle")
    /\ Finish
    /\ Forget("main")
    /\ UNCHANGED <<mtime, mtimecmp, mtie, masked, ticks, trigger>>

-----------------------------------------------------------------------------
Next ==
    \/ Pass
    \/ \E c \in Contexts :
        \/ ReadHigh(c)
        \/ ReadLow(c)
        \/ ReadHighAgain(c)
        \/ SetLowMax(c)
        \/ SetHigh(c)
        \/ SetLow(c)
    \/ EnableTicks
    \/ Trap
    \/ Count
    \/ SetMask
    \/ \E n \in Delays : Sleep(n) \/ BusyWait(n)
    \/ SleepOver
    \/ StartWait
    \/ WaitOn
    \/ WaitOver

Spec == Init /\ [][Next]_vars

-----------------------------------------------------------------------------
\* Outside the handler the next tick is never more than an interval away: no
\* torn read of the clock puts the comparator a word, 7 minutes, ahead.
NextTickIsNear ==
    mtie /\ pc["handler"] = "idle" => mtimecmp <= mtime + INTERVAL

\* sleep_ms(n) sleeps through n - 1 whole intervals at least, however late the
\* ticks are taken and wherever the count of ticks wraps.
SleepsLongEnough ==
    [][SleepOver => mtime - began >= (ms - 1) * INTERVAL]_vars

\* busy_wait_ms(n) waits for n whole intervals, whatever carries of the clock
\* and interrupts fall between its reads.
BusyWaitsLongEnough ==
    [][WaitOver => mtime - began >= ms * INTERVAL]_vars
=============================================================================
