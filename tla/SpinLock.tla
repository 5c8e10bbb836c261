------------------------------ MODULE SpinLock ------------------------------
(***************************************************************************)
(* kernel/sync.rs over the interrupt flag of arch/mod.rs: spin locks that  *)
(* mask the hart's interrupts while they are held.                         *)
(*                                                                         *)
(* A context is a hart and a trap depth: <<h, 0>> is the code main runs,   *)
(* <<h, d>> with d > 0 the handler of the d-th nested trap.  Only the      *)
(* context at the hart's current depth executes; the others are suspended  *)
(* on the stack under it.  Every step of lock(), try_lock() and of the     *)
(* guard's drop that another context can observe is an action of its own.  *)
(***************************************************************************)
EXTENDS Integers, SequencesExt

CONSTANTS
    Harts,        \* the harts; the kernel boots one, the lock is written for several
    Locks,        \* the locks, numbered by the order in which callers nest them
    MaxDepth,     \* bound on nested traps
    ScopedDrops   \* TRUE: guards are dropped in reverse order of acquisition

ASSUME LocksAreRanked == Locks \subseteq Nat
ASSUME MaxDepthAssumption == MaxDepth \in Nat \ {0}
ASSUME ScopedDropsAssumption == ScopedDrops \in BOOLEAN

VARIABLES
    locked,   \* SpinLock.locked, the AtomicBool of each lock
    mie,      \* mstatus.MIE of each hart
    depth,    \* traps the hart is inside of
    pc,       \* next step of each context
    want,     \* the lock the context is calling lock() or try_lock() on
    prev,     \* prev_mstatus & MSTATUS_MIE, in lock() or in the dropping guard
    cont,     \* where restore_interrupts returns to
    guards    \* the context's live SpinLockGuards, oldest first

vars == <<locked, mie, depth, pc, want, prev, cont, guards>>

Contexts == Harts \X (0..MaxDepth)
Hart(c) == c[1]
Main(c) == c[2] = 0
Active(c) == depth[Hart(c)] = c[2]

Guard == [lock : Locks, prev : BOOLEAN]

TypeOK ==
    /\ locked \in [Locks -> BOOLEAN]
    /\ mie \in [Harts -> BOOLEAN]
    /\ depth \in [Harts -> 0..MaxDepth]
    /\ pc \in [Contexts -> {"run", "spin", "mask", "cas", "unmask"}]
    /\ want \in [Contexts -> Locks]
    /\ prev \in [Contexts -> BOOLEAN]
    /\ cont \in [Contexts -> {"run", "spin"}]
    /\ guards \in [Contexts -> Seq(Guard)]

\* boot.rs enables MIE before it calls main
Init ==
    /\ locked = [l \in Locks |-> FALSE]
    /\ mie = [h \in Harts |-> TRUE]
    /\ depth = [h \in Harts |-> 0]
    /\ pc = [c \in Contexts |-> "run"]
    /\ \E l \in Locks : want = [c \in Contexts |-> l]
    /\ prev = [c \in Contexts |-> FALSE]
    /\ cont = [c \in Contexts |-> "run"]
    /\ guards = [c \in Contexts |-> << >>]

At(c, label) == Active(c) /\ pc[c] = label
Goto(c, label) == pc' = [pc EXCEPT ![c] = label]

-----------------------------------------------------------------------------
(* disable_interrupts (csrrc) and restore_interrupts (csrsi) *)

\* Faulty: the flag is read and left as it is (csrr)
ReadInterrupts(c) ==
    /\ prev' = [prev EXCEPT ![c] = mie[Hart(c)]]
    /\ UNCHANGED mie

DisableInterrupts(c) ==
    /\ prev' = [prev EXCEPT ![c] = mie[Hart(c)]]
    /\ mie' = [mie EXCEPT ![Hart(c)] = FALSE]

\* Faulty: interrupts are enabled, whatever they were
EnableInterrupts(c) ==
    mie' = [mie EXCEPT ![Hart(c)] = TRUE]

RestoreInterrupts(c) ==
    mie' = [mie EXCEPT ![Hart(c)] = @ \/ prev[c]]

-----------------------------------------------------------------------------
(* lock() and try_lock() *)

\* A caller holding guards only takes locks of a higher rank (and so none it
\* holds already: the lock is not reentrant).
Lock(c, l) ==
    /\ At(c, "run")
    /\ \A i \in DOMAIN guards[c] : guards[c][i].lock < l
    /\ want' = [want EXCEPT ![c] = l]
    /\ cont' = [cont EXCEPT ![c] = "spin"]
    /\ Goto(c, "spin")
    /\ UNCHANGED <<locked, mie, depth, prev, guards>>

TryLock(c, l) ==
    /\ At(c, "run")
    /\ want' = [want EXCEPT ![c] = l]
    /\ cont' = [cont EXCEPT ![c] = "run"]
    /\ Goto(c, "mask")
    /\ UNCHANGED <<locked, mie, depth, prev, guards>>

\* the relaxed load that finds the lock free
Spin(c) ==
    /\ At(c, "spin")
    /\ ~locked[want[c]]
    /\ Goto(c, "mask")
    /\ UNCHANGED <<locked, mie, depth, want, prev, cont, guards>>

Mask(c) ==
    /\ At(c, "mask")
    /\ DisableInterrupts(c)
    /\ Goto(c, "cas")
    /\ UNCHANGED <<locked, depth, want, cont, guards>>

\* Faulty: a store where the exchange is
AcquireByStore(c) ==
    /\ At(c, "cas")
    /\ locked' = [locked EXCEPT ![want[c]] = TRUE]
    /\ guards' = [guards EXCEPT ![c] =
                    Append(@, [lock |-> want[c], prev |-> prev[c]])]
    /\ Goto(c, "run")
    /\ UNCHANGED <<mie, depth, want, prev, cont>>

Acquire(c) ==
    /\ At(c, "cas")
    /\ ~locked[want[c]]
    /\ locked' = [locked EXCEPT ![want[c]] = TRUE]
    /\ guards' = [guards EXCEPT ![c] =
                    Append(@, [lock |-> want[c], prev |-> prev[c]])]
    /\ Goto(c, "run")
    /\ UNCHANGED <<mie, depth, want, prev, cont>>

\* Faulty: interrupts are not restored before the retry
CasFailsMasked(c) ==
    /\ At(c, "cas")
    /\ Goto(c, cont[c])
    /\ UNCHANGED <<locked, mie, depth, want, prev, cont, guards>>

\* The exchange fails because the lock is taken, or spuriously: it is
\* compare_exchange_weak.
CasFails(c) ==
    /\ At(c, "cas")
    /\ Goto(c, "unmask")
    /\ UNCHANGED <<locked, mie, depth, want, prev, cont, guards>>

Unmask(c) ==
    /\ At(c, "unmask")
    /\ RestoreInterrupts(c)
    /\ Goto(c, cont[c])
    /\ UNCHANGED <<locked, depth, want, prev, cont, guards>>

-----------------------------------------------------------------------------
(* Drop for SpinLockGuard: the release store, then restore_interrupts *)

Drop(c, i) ==
    /\ At(c, "run")
    /\ ScopedDrops => i = Len(guards[c])
    /\ locked' = [locked EXCEPT ![guards[c][i].lock] = FALSE]
    /\ prev' = [prev EXCEPT ![c] = guards[c][i].prev]
    /\ cont' = [cont EXCEPT ![c] = "run"]
    /\ guards' = [guards EXCEPT ![c] = RemoveAt(@, i)]
    /\ Goto(c, "unmask")
    /\ UNCHANGED <<mie, depth, want>>

-----------------------------------------------------------------------------
(* The trap vector.  An interrupt is taken only with MIE set, and clears it; *)
(* the handler may print, which locks; mret sets MIE again.                  *)

Trap(h) ==
    /\ mie[h]
    /\ depth[h] < MaxDepth
    /\ depth' = [depth EXCEPT ![h] = @ + 1]
    /\ mie' = [mie EXCEPT ![h] = FALSE]
    /\ UNCHANGED <<locked, pc, want, prev, cont, guards>>

\* Faulty: an mret that no trap led to
MretAnywhere(h) ==
    LET c == <<h, depth[h]>> IN
    /\ pc[c] = "run"
    /\ guards[c] = << >>
    /\ depth' = [depth EXCEPT ![h] = @ - 1]
    /\ mie' = [mie EXCEPT ![h] = TRUE]
    /\ UNCHANGED <<locked, pc, want, prev, cont, guards>>

Mret(h) ==
    LET c == <<h, depth[h]>> IN
    /\ depth[h] > 0
    /\ pc[c] = "run"
    /\ guards[c] = << >>
    /\ depth' = [depth EXCEPT ![h] = @ - 1]
    /\ mie' = [mie EXCEPT ![h] = TRUE]
    /\ UNCHANGED <<locked, pc, want, prev, cont, guards>>

-----------------------------------------------------------------------------
Next ==
    \/ \E c \in Contexts :
        \/ \E l \in Locks : Lock(c, l)
        \/ \E l \in Locks : TryLock(c, l)
        \/ \E i \in DOMAIN guards[c] : Drop(c, i)
        \/ Spin(c)
        \/ Mask(c)
        \/ Acquire(c)
        \/ CasFails(c)
        \/ Unmask(c)
    \/ \E h \in Harts : Trap(h)
    \/ \E h \in Harts : Mret(h)

Spec == Init /\ [][Next]_vars

-----------------------------------------------------------------------------
\* Two guards, of whichever harts and contexts, are never guards of one lock:
\* the &mut T that two derefs hand out never alias.
MutualExclusion ==
    \A c, d \in Contexts :
        \A i \in DOMAIN guards[c], j \in DOMAIN guards[d] :
            guards[c][i].lock = guards[d][j].lock => c = d /\ i = j

\* While any context of a hart holds a guard the hart's interrupts are off,
\* also between an inner guard's drop and the outer one's: no handler can run
\* over a critical section and spin on its lock for ever.
GuardsMaskInterrupts ==
    \A c \in Contexts : guards[c] # << >> => ~mie[Hart(c)]

\* No trap is taken inside a handler: the trap vector saves neither mepc nor
\* mstatus, so a nested one would lose the return address of the outer.
NoNestedTrap == \A h \in Harts : depth[h] <= 1

\* However locks were nested, retried and dropped, code that holds no guard
\* runs with the interrupt flag it started with: set in main, clear in a
\* handler.  (Set for ever after a lost restore: no tick would arrive again.)
InterruptsRestored ==
    \A h \in Harts :
        LET c == <<h, depth[h]>> IN
        pc[c] \in {"run", "spin"} /\ guards[c] = << >> => (mie[h] <=> Main(c))
=============================================================================
