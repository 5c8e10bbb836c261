--------------------------- MODULE SpinLockProofs ---------------------------
(***************************************************************************)
(* Proofs about SpinLock, for every number of harts, of locks and of       *)
(* nested traps.                                                           *)
(***************************************************************************)
EXTENDS SpinLock, SequenceLemmas, TLAPS

-----------------------------------------------------------------------------
(* Type correctness *)

\* A dropped guard leaves a sequence of guards.
LEMMA DropTypes ==
    ASSUME TypeOK, NEW c \in Contexts, NEW i \in DOMAIN guards[c], Drop(c, i)
    PROVE  /\ guards' \in [Contexts -> Seq(Guard)]
           /\ guards[c][i] \in Guard
           /\ guards'[c] = RemoveAt(guards[c], i)
           /\ \A d \in Contexts : d # c => guards'[d] = guards[d]
<1>1. guards[c] \in Seq(Guard)
  BY DEF TypeOK
<1>2. RemoveAt(guards[c], i) \in Seq(Guard)
  BY <1>1, RemoveAtFacts
<1>3. guards[c][i] \in Guard
  BY <1>1, ElementOfSeq, LenProperties
<1> QED
  BY <1>2, <1>3 DEF TypeOK, Drop

\* A live guard is a guard of some lock.
LEMMA GuardTypes ==
    ASSUME TypeOK, NEW c \in Contexts, NEW i \in DOMAIN guards[c]
    PROVE  guards[c][i] \in Guard /\ guards[c][i].lock \in Locks
<1>1. guards[c] \in Seq(Guard)
  BY DEF TypeOK
<1>2. guards[c][i] \in Guard
  BY <1>1, ElementOfSeq, LenProperties
<1> QED
  BY <1>2 DEF Guard

\* Every variable keeps its type: in particular no trap returns that was not
\* taken, and every program counter stays a step of the code.
THEOREM TypeCorrect == Spec => []TypeOK
<1>1. Init => TypeOK
  BY MaxDepthAssumption DEF Init, TypeOK, Contexts, Guard
<1>2. TypeOK /\ [Next]_vars => TypeOK'
  <2> SUFFICES ASSUME TypeOK, [Next]_vars PROVE TypeOK'
    OBVIOUS
  <2>1. ASSUME NEW c \in Contexts, NEW l \in Locks, Lock(c, l) PROVE TypeOK'
    BY <2>1 DEF TypeOK, Lock, Goto
  <2>2. ASSUME NEW c \in Contexts, NEW l \in Locks, TryLock(c, l) PROVE TypeOK'
    BY <2>2 DEF TypeOK, TryLock, Goto
  <2>3. ASSUME NEW c \in Contexts, NEW i \in DOMAIN guards[c], Drop(c, i)
        PROVE  TypeOK'
    <3>1. guards' \in [Contexts -> Seq(Guard)] /\ guards[c][i] \in Guard
      BY <2>3, DropTypes
    <3> QED BY <2>3, <3>1 DEF TypeOK, Drop, Goto, Guard
  <2>4. ASSUME NEW c \in Contexts, Spin(c) PROVE TypeOK'
    BY <2>4 DEF TypeOK, Spin, Goto
  <2>5. ASSUME NEW c \in Contexts, Mask(c) PROVE TypeOK'
    BY <2>5 DEF TypeOK, Mask, Goto, DisableInterrupts, Contexts, Hart
  <2>6. ASSUME NEW c \in Contexts, Acquire(c) PROVE TypeOK'
    BY <2>6 DEF TypeOK, Acquire, Goto, Guard
  <2>7. ASSUME NEW c \in Contexts, CasFails(c) PROVE TypeOK'
    BY <2>7 DEF TypeOK, CasFails, Goto
  <2>8. ASSUME NEW c \in Contexts, Unmask(c) PROVE TypeOK'
    BY <2>8 DEF TypeOK, Unmask, Goto, RestoreInterrupts, Contexts, Hart
  <2>9. ASSUME NEW h \in Harts, Trap(h) PROVE TypeOK'
    BY <2>9, MaxDepthAssumption DEF TypeOK, Trap
  <2>10. ASSUME NEW h \in Harts, Mret(h) PROVE TypeOK'
    BY <2>10, MaxDepthAssumption DEF TypeOK, Mret
  <2>11. CASE UNCHANGED vars
    BY <2>11 DEF TypeOK, vars
  <2> QED
    BY <2>1, <2>2, <2>3, <2>4, <2>5, <2>6, <2>7, <2>8, <2>9, <2>10, <2>11 DEF Next
<1> QED
  BY <1>1, <1>2, PTL DEF Spec

-----------------------------------------------------------------------------
(* Mutual exclusion.  The inductive part is that the flag of a lock is set  *)
(* while a guard of it lives: the exchange then never succeeds on a held    *)
(* lock, and a drop clears the flag of no other guard.                      *)

LockedWhileHeld ==
    \A c \in Contexts : \A i \in DOMAIN guards[c] : locked[guards[c][i].lock]

ExclusionInv == LockedWhileHeld /\ MutualExclusion

LEMMA AcquireKeepsExclusion ==
    ASSUME TypeOK, ExclusionInv, NEW c \in Contexts, Acquire(c)
    PROVE  ExclusionInv'
<1> DEFINE g == [lock |-> want[c], prev |-> prev[c]]
           n == Len(guards[c]) + 1
<1>1. guards[c] \in Seq(Guard) /\ g \in Guard /\ g.lock = want[c] /\ want[c] \in Locks
  BY DEF TypeOK, Guard
<1>2. /\ DOMAIN guards[c] = 1..(n - 1) /\ n \in Nat \ {0}
      /\ DOMAIN guards'[c] = 1..n /\ guards'[c][n].lock = want[c]
      /\ \A i \in 1..(n - 1) : guards'[c][i] = guards[c][i]
  BY <1>1 DEF Acquire, TypeOK
<1>3. \A d \in Contexts : d # c => guards'[d] = guards[d]
  BY DEF Acquire, TypeOK
<1>4. /\ locked'[want[c]] /\ ~locked[want[c]]
      /\ \A l \in Locks : l # want[c] => locked'[l] = locked[l]
  BY <1>1 DEF Acquire, TypeOK
<1>5. \A d \in Contexts : \A i \in DOMAIN guards[d] : guards[d][i].lock \in Locks
  BY GuardTypes
<1>6. \A d \in Contexts : \A i \in DOMAIN guards[d] : guards[d][i].lock # want[c]
  BY <1>4 DEF ExclusionInv, LockedWhileHeld
<1> HIDE DEF n, g
<1>7. \A d \in Contexts : \A i \in DOMAIN guards'[d] :
        \/ d = c /\ i = n
        \/ i \in DOMAIN guards[d] /\ guards'[d][i] = guards[d][i]
  <2> TAKE d \in Contexts
  <2> TAKE i \in DOMAIN guards'[d]
  <2>1. CASE d = c
    <3>1. i \in 1..n
      BY <2>1, <1>2
    <3>2. n \in Nat
      BY <1>2
    <3>3. i = n \/ i \in 1..(n - 1)
      BY <3>1, <3>2
    <3> QED BY <2>1, <3>3, <1>2
  <2>2. CASE d # c
    BY <2>2, <1>3
  <2> QED BY <2>1, <2>2
<1>8. LockedWhileHeld'
  BY <1>2, <1>4, <1>5, <1>6, <1>7 DEF ExclusionInv, LockedWhileHeld
<1>9. MutualExclusion'
  <2> SUFFICES ASSUME NEW d \in Contexts, NEW e \in Contexts,
                      NEW i \in DOMAIN guards'[d], NEW j \in DOMAIN guards'[e],
                      guards'[d][i].lock = guards'[e][j].lock
               PROVE  d = e /\ i = j
    BY DEF MutualExclusion
  <2>1. CASE d = c /\ i = n
    BY <2>1, <1>2, <1>6, <1>7
  <2>2. CASE e = c /\ j = n
    BY <2>2, <1>2, <1>6, <1>7
  <2>3. CASE ~(d = c /\ i = n) /\ ~(e = c /\ j = n)
    BY <2>3, <1>7 DEF ExclusionInv, MutualExclusion
  <2> QED BY <2>1, <2>2, <2>3
<1> QED BY <1>8, <1>9 DEF ExclusionInv

LEMMA DropKeepsExclusion ==
    ASSUME TypeOK, ExclusionInv,
           NEW c \in Contexts, NEW i \in DOMAIN guards[c], Drop(c, i)
    PROVE  ExclusionInv'
<1> DEFINE old(d, j) == IF d = c /\ j >= i THEN j + 1 ELSE j
<1>1. /\ guards[c] \in Seq(Guard) /\ guards[c][i] \in Guard
      /\ guards'[c] = RemoveAt(guards[c], i)
      /\ \A d \in Contexts : d # c => guards'[d] = guards[d]
  BY DropTypes DEF TypeOK
<1>2. /\ DOMAIN guards[c] = 1..Len(guards[c]) /\ Len(guards[c]) \in Nat
      /\ DOMAIN guards'[c] = 1..(Len(guards[c]) - 1)
      /\ \A j \in 1..(Len(guards[c]) - 1) :
           guards'[c][j] = guards[c][IF j < i THEN j ELSE j + 1]
  BY <1>1, RemoveAtFacts, LenProperties
<1>3. \A d \in Contexts : \A j \in DOMAIN guards'[d] :
        /\ old(d, j) \in DOMAIN guards[d]
        /\ guards'[d][j] = guards[d][old(d, j)]
        /\ ~(d = c /\ old(d, j) = i)
  <2> TAKE d \in Contexts
  <2> TAKE j \in DOMAIN guards'[d]
  <2>1. CASE d = c
    BY <2>1, <1>2
  <2>2. CASE d # c
    BY <2>2, <1>1
  <2> QED BY <2>1, <2>2
<1>4. \A d \in Contexts : \A j, k \in DOMAIN guards'[d] :
        old(d, j) = old(d, k) => j = k
  <2> TAKE d \in Contexts
  <2> TAKE j, k \in DOMAIN guards'[d]
  <2>1. CASE d = c
    BY <2>1, <1>2
  <2>2. CASE d # c
    BY <2>2
  <2> QED BY <2>1, <2>2
<1>5. /\ guards[c][i].lock \in Locks
      /\ \A l \in Locks : l # guards[c][i].lock => locked'[l] = locked[l]
  BY <1>1 DEF Drop, TypeOK, Guard
<1>6. \A d \in Contexts : \A j \in DOMAIN guards[d] : guards[d][j].lock \in Locks
  BY GuardTypes
<1> HIDE DEF old
<1>7. LockedWhileHeld'
  <2> SUFFICES ASSUME NEW d \in Contexts, NEW j \in DOMAIN guards'[d]
               PROVE  locked'[guards'[d][j].lock]
    BY DEF LockedWhileHeld
  <2>1. guards'[d][j].lock # guards[c][i].lock
    BY <1>3 DEF ExclusionInv, MutualExclusion
  <2> QED
    BY <2>1, <1>3, <1>5, <1>6 DEF ExclusionInv, LockedWhileHeld
<1>8. MutualExclusion'
  <2> SUFFICES ASSUME NEW d \in Contexts, NEW e \in Contexts,
                      NEW j \in DOMAIN guards'[d], NEW k \in DOMAIN guards'[e],
                      guards'[d][j].lock = guards'[e][k].lock
               PROVE  d = e /\ j = k
    BY DEF MutualExclusion
  <2>1. d = e /\ old(d, j) = old(e, k)
    BY <1>3 DEF ExclusionInv, MutualExclusion
  <2> QED BY <2>1, <1>4
<1> QED BY <1>7, <1>8 DEF ExclusionInv

\* Two guards of one lock never live at once, on any harts, in any order of
\* nesting and dropping.
THEOREM GuardsExclude == Spec => []MutualExclusion
<1>1. Init => ExclusionInv
  BY DEF Init, ExclusionInv, LockedWhileHeld, MutualExclusion
<1>2. TypeOK /\ ExclusionInv /\ [Next]_vars => ExclusionInv'
  <2> SUFFICES ASSUME TypeOK, ExclusionInv, [Next]_vars PROVE ExclusionInv'
    OBVIOUS
  <2>1. CASE UNCHANGED <<locked, guards>>
    BY <2>1 DEF ExclusionInv, LockedWhileHeld, MutualExclusion
  <2>2. ASSUME NEW c \in Contexts, NEW i \in DOMAIN guards[c], Drop(c, i)
        PROVE  ExclusionInv'
    BY <2>2, DropKeepsExclusion
  <2>3. ASSUME NEW c \in Contexts, Acquire(c) PROVE ExclusionInv'
    BY <2>3, AcquireKeepsExclusion
  <2> QED
    BY <2>1, <2>2, <2>3
    DEF Next, vars, Lock, TryLock, Spin, Mask, CasFails, Unmask, Trap, Mret
<1>3. ExclusionInv => MutualExclusion
  BY DEF ExclusionInv
<1> QED
  BY <1>1, <1>2, <1>3, TypeCorrect, PTL DEF Spec

-----------------------------------------------------------------------------
(* Interrupts, with guards dropped in reverse order of acquisition.  The    *)
(* inductive invariant says when exactly the flag is set (in main, outside  *)
(* lock, drop and critical sections) and which prev_mstatus has it set (the *)
(* outermost guard's of main), so that no restore but that one unmasks.     *)

SuspendedOutsideLocks ==
    \A c \in Contexts : c[2] < depth[c[1]] =>
        guards[c] = << >> /\ pc[c] \in {"run", "spin", "mask"}

ReturnedFramesIdle ==
    \A c \in Contexts : c[2] > depth[c[1]] =>
        guards[c] = << >> /\ pc[c] = "run"

FlagExact ==
    \A c \in Contexts : c[2] = depth[c[1]] =>
        (mie[c[1]] <=> /\ c[2] = 0
                       /\ guards[c] = << >>
                       /\ pc[c] \in {"run", "spin", "mask"})

PrevExact ==
    \A c \in Contexts : pc[c] \in {"cas", "unmask"} =>
        (prev[c] <=> c[2] = 0 /\ guards[c] = << >>)

GuardPrevExact ==
    \A c \in Contexts : \A i \in DOMAIN guards[c] :
        guards[c][i].prev <=> c[2] = 0 /\ i = 1

MaskInv ==
    /\ NoNestedTrap
    /\ SuspendedOutsideLocks
    /\ ReturnedFramesIdle
    /\ FlagExact
    /\ PrevExact
    /\ GuardPrevExact

\* Contexts are determined by their hart and their depth.
LEMMA ContextFacts ==
    /\ \A c \in Contexts : c[1] \in Harts /\ c[2] \in 0..MaxDepth /\ c = <<c[1], c[2]>>
    /\ \A c, d \in Contexts : c[1] = d[1] /\ c[2] = d[2] => c = d
    /\ \A h \in Harts, k \in 0..MaxDepth :
         <<h, k>> \in Contexts /\ <<h, k>>[1] = h /\ <<h, k>>[2] = k
BY MaxDepthAssumption DEF Contexts

\* Steps that leave the flag, the depth and the guards alone and move one
\* active context between program points where the flag is the same.
LEMMA MovesKeepMask ==
    ASSUME TypeOK, MaskInv, NEW c \in Contexts, Active(c),
           UNCHANGED <<mie, depth, prev, guards>>,
           NEW label \in {"run", "spin", "mask", "cas", "unmask"},
           pc' = [pc EXCEPT ![c] = label],
           \/ pc[c] \in {"run", "spin", "mask"} /\ label \in {"run", "spin", "mask"}
           \/ pc[c] = "cas" /\ label = "unmask"
    PROVE  MaskInv'
<1>1. \A d \in Contexts : pc'[d] = IF d = c THEN label ELSE pc[d]
  BY DEF TypeOK
<1>2. NoNestedTrap' /\ GuardPrevExact'
  BY DEF MaskInv, NoNestedTrap, GuardPrevExact
<1>3. SuspendedOutsideLocks' /\ ReturnedFramesIdle'
  <2>1. depth[c[1]] = c[2] /\ c[2] \in Int
    BY ContextFacts DEF Active, Hart
  <2>2. ~(c[2] < depth[c[1]]) /\ ~(c[2] > depth[c[1]])
    BY <2>1
  <2> QED
    BY <1>1, <2>2 DEF MaskInv, SuspendedOutsideLocks, ReturnedFramesIdle
<1>4. FlagExact'
  BY <1>1 DEF MaskInv, FlagExact
<1>5. PrevExact'
  BY <1>1 DEF MaskInv, PrevExact
<1> QED BY <1>2, <1>3, <1>4, <1>5 DEF MaskInv

\* Changes confined to an active context and its hart's flag: only that
\* context's clauses have to be shown again.
LEMMA LocalChange ==
    ASSUME TypeOK, MaskInv, NEW c \in Contexts, Active(c), depth' = depth,
           \A d \in Contexts \ {c} :
               pc'[d] = pc[d] /\ prev'[d] = prev[d] /\ guards'[d] = guards[d],
           \A h \in Harts \ {c[1]} : mie'[h] = mie[h],
           mie'[c[1]] <=> /\ c[2] = 0
                          /\ guards'[c] = << >>
                          /\ pc'[c] \in {"run", "spin", "mask"},
           pc'[c] \in {"cas", "unmask"} =>
               (prev'[c] <=> c[2] = 0 /\ guards'[c] = << >>),
           \A i \in DOMAIN guards'[c] : guards'[c][i].prev <=> c[2] = 0 /\ i = 1
    PROVE  MaskInv'
<1>1. depth[c[1]] = c[2] /\ c[2] \in Int /\ c[1] \in Harts
  BY ContextFacts DEF Active, Hart
<1>2. ~(c[2] < depth[c[1]]) /\ ~(c[2] > depth[c[1]])
  BY <1>1
<1>3. NoNestedTrap'
  BY DEF MaskInv, NoNestedTrap
<1>4. SuspendedOutsideLocks' /\ ReturnedFramesIdle'
  BY <1>2 DEF MaskInv, SuspendedOutsideLocks, ReturnedFramesIdle
<1>5. FlagExact'
  <2> SUFFICES ASSUME NEW d \in Contexts, d[2] = depth[d[1]]
               PROVE  mie'[d[1]] <=> /\ d[2] = 0
                                     /\ guards'[d] = << >>
                                     /\ pc'[d] \in {"run", "spin", "mask"}
    BY DEF FlagExact
  <2>1. CASE d = c
    BY <2>1
  <2>2. CASE d # c
    <3>1. d[1] # c[1]
      BY <2>2, <1>1, ContextFacts
    <3>2. mie'[d[1]] = mie[d[1]]
      BY <3>1, ContextFacts
    <3> QED BY <2>2, <3>2 DEF MaskInv, FlagExact
  <2> QED BY <2>1, <2>2
<1>6. PrevExact'
  BY DEF MaskInv, PrevExact
<1>7. GuardPrevExact'
  BY DEF MaskInv, GuardPrevExact
<1> QED BY <1>3, <1>4, <1>5, <1>6, <1>7 DEF MaskInv

LEMMA MaskKeepsMask ==
    ASSUME TypeOK, MaskInv, NEW c \in Contexts, Mask(c)
    PROVE  MaskInv'
<1>1. c[1] \in Harts
  BY ContextFacts
<1>2. mie[c[1]] <=> c[2] = 0 /\ guards[c] = << >>
  BY DEF MaskInv, FlagExact, Mask, At, Active, Hart
<1>3. prev'[c] = mie[c[1]] /\ pc'[c] = "cas" /\ guards' = guards /\ ~mie'[c[1]]
  BY <1>1 DEF Mask, DisableInterrupts, Goto, Hart, TypeOK
<1> QED
  BY <1>1, <1>2, <1>3, LocalChange
  DEF Mask, DisableInterrupts, Goto, At, Hart, TypeOK, MaskInv, GuardPrevExact

LEMMA AcquireKeepsMask ==
    ASSUME TypeOK, MaskInv, NEW c \in Contexts, Acquire(c)
    PROVE  MaskInv'
<1> DEFINE g == [lock |-> want[c], prev |-> prev[c]]
           n == Len(guards[c]) + 1
<1>1. guards[c] \in Seq(Guard) /\ g \in Guard /\ g.prev = prev[c]
  BY DEF TypeOK, Guard
<1>2. guards'[c] = Append(guards[c], g)
  BY DEF Acquire, TypeOK
<1>3. /\ DOMAIN guards[c] = 1..(n - 1) /\ n \in Nat \ {0}
      /\ DOMAIN guards'[c] = 1..n /\ guards'[c][n].prev = prev[c]
      /\ \A i \in 1..(n - 1) : guards'[c][i] = guards[c][i]
      /\ guards'[c] # << >>
      /\ guards[c] = << >> <=> n = 1
  BY <1>1, <1>2
<1> HIDE DEF g, n
<1>4. prev[c] <=> c[2] = 0 /\ n = 1
  BY <1>3 DEF MaskInv, PrevExact, Acquire, At
<1>5. \A i \in DOMAIN guards'[c] : guards'[c][i].prev <=> c[2] = 0 /\ i = 1
  <2> TAKE i \in DOMAIN guards'[c]
  <2>1. CASE i = n
    BY <2>1, <1>3, <1>4
  <2>2. CASE i # n
    <3>1. i \in DOMAIN guards[c] /\ guards'[c][i] = guards[c][i]
      BY <2>2, <1>3
    <3> QED BY <3>1 DEF MaskInv, GuardPrevExact
  <2> QED BY <2>1, <2>2
<1>6. ~mie[c[1]] /\ mie' = mie /\ pc'[c] = "run" /\ Active(c)
  BY ContextFacts DEF MaskInv, FlagExact, Acquire, At, Active, Hart, Goto, TypeOK
<1> QED
  BY <1>3, <1>5, <1>6, LocalChange DEF Acquire, Goto, TypeOK

LEMMA UnmaskKeepsMask ==
    ASSUME TypeOK, MaskInv, NEW c \in Contexts, Unmask(c)
    PROVE  MaskInv'
<1>1. c[1] \in Harts
  BY ContextFacts
<1>2. ~mie[c[1]] /\ (prev[c] <=> c[2] = 0 /\ guards[c] = << >>)
  BY DEF MaskInv, FlagExact, PrevExact, Unmask, At, Active, Hart
<1>3. /\ mie'[c[1]] = prev[c] /\ guards' = guards /\ prev' = prev
      /\ pc'[c] \in {"run", "spin"}
  BY <1>1, <1>2 DEF Unmask, RestoreInterrupts, Goto, Hart, TypeOK
<1> QED
  BY <1>1, <1>2, <1>3, LocalChange
  DEF Unmask, RestoreInterrupts, Goto, At, Hart, TypeOK, MaskInv, GuardPrevExact

LEMMA DropKeepsMask ==
    ASSUME ScopedDrops, TypeOK, MaskInv,
           NEW c \in Contexts, NEW i \in DOMAIN guards[c], Drop(c, i)
    PROVE  MaskInv'
<1>1. /\ guards[c] \in Seq(Guard) /\ guards'[c] = RemoveAt(guards[c], i)
      /\ \A d \in Contexts : d # c => guards'[d] = guards[d]
  BY DropTypes DEF TypeOK
<1>2. i = Len(guards[c]) /\ i \in Nat \ {0} /\ DOMAIN guards[c] = 1..i
  BY <1>1, LenProperties DEF Drop
<1>3. /\ guards'[c] \in Seq(Guard) /\ DOMAIN guards'[c] = 1..(i - 1)
      /\ Len(guards'[c]) = i - 1
      /\ \A j \in 1..(i - 1) : guards'[c][j] = guards[c][j]
  BY <1>1, <1>2, RemoveAtFacts
<1>4. guards'[c] = << >> <=> i = 1
  <2>1. guards'[c] = << >> <=> Len(guards'[c]) = 0
    BY <1>3, EmptySeq
  <2> QED BY <2>1, <1>2, <1>3
<1>5. prev'[c] = guards[c][i].prev /\ (guards[c][i].prev <=> c[2] = 0 /\ i = 1)
  BY DEF Drop, TypeOK, MaskInv, GuardPrevExact
<1>6. \A j \in DOMAIN guards'[c] : guards'[c][j].prev <=> c[2] = 0 /\ j = 1
  BY <1>2, <1>3 DEF MaskInv, GuardPrevExact
<1>7. guards[c] # << >>
  BY <1>2
<1>8. ~mie[c[1]] /\ mie' = mie /\ pc'[c] = "unmask" /\ Active(c)
  BY <1>7 DEF MaskInv, FlagExact, Drop, At, Active, Hart, Goto, TypeOK
<1> QED
  BY <1>1, <1>4, <1>5, <1>6, <1>8, LocalChange DEF Drop, Goto, TypeOK

LEMMA TrapKeepsMask ==
    ASSUME TypeOK, MaskInv, NEW h \in Harts, Trap(h)
    PROVE  MaskInv'
<1>1. depth[h] \in 0..MaxDepth /\ depth[h] + 1 \in 0..MaxDepth
  BY MaxDepthAssumption DEF Trap, TypeOK
<1>2. /\ depth[h] = 0 /\ guards[<<h, 0>>] = << >>
      /\ pc[<<h, 0>>] \in {"run", "spin", "mask"}
  <2>1. <<h, depth[h]>> \in Contexts
    BY <1>1, ContextFacts
  <2> QED BY <2>1, ContextFacts, <1>1 DEF MaskInv, FlagExact, Trap
<1>3. /\ depth'[h] = 1 /\ ~mie'[h]
      /\ \A k \in Harts \ {h} : depth'[k] = depth[k] /\ mie'[k] = mie[k]
      /\ pc' = pc /\ guards' = guards /\ prev' = prev
  BY <1>2 DEF Trap, TypeOK
<1>4. NoNestedTrap'
  BY <1>3 DEF MaskInv, NoNestedTrap
<1>5. SuspendedOutsideLocks'
  <2> SUFFICES ASSUME NEW c \in Contexts, c[2] < depth'[c[1]]
               PROVE  guards[c] = << >> /\ pc[c] \in {"run", "spin", "mask"}
    BY <1>3 DEF SuspendedOutsideLocks
  <2>1. CASE c[1] = h
    <3>1. c[2] = 0 /\ c = <<h, 0>>
      BY <2>1, <1>3, ContextFacts
    <3> QED BY <3>1, <1>2
  <2>2. CASE c[1] # h
    BY <2>2, <1>3, ContextFacts DEF MaskInv, SuspendedOutsideLocks
  <2> QED BY <2>1, <2>2
<1>6. ReturnedFramesIdle'
  <2> SUFFICES ASSUME NEW c \in Contexts, c[2] > depth'[c[1]]
               PROVE  c[2] > depth[c[1]]
    BY <1>3 DEF MaskInv, ReturnedFramesIdle
  <2> QED BY <1>2, <1>3, ContextFacts
<1>7. FlagExact'
  <2> SUFFICES ASSUME NEW c \in Contexts, c[2] = depth'[c[1]]
               PROVE  mie'[c[1]] <=> /\ c[2] = 0
                                     /\ guards[c] = << >>
                                     /\ pc[c] \in {"run", "spin", "mask"}
    BY <1>3 DEF FlagExact
  <2>1. CASE c[1] = h
    BY <2>1, <1>3
  <2>2. CASE c[1] # h
    BY <2>2, <1>3, ContextFacts DEF MaskInv, FlagExact
  <2> QED BY <2>1, <2>2
<1>8. PrevExact' /\ GuardPrevExact'
  BY <1>3 DEF MaskInv, PrevExact, GuardPrevExact
<1> QED BY <1>4, <1>5, <1>6, <1>7, <1>8 DEF MaskInv

LEMMA MretKeepsMask ==
    ASSUME TypeOK, MaskInv, NEW h \in Harts, Mret(h)
    PROVE  MaskInv'
<1>1. depth[h] = 1 /\ <<h, 0>> \in Contexts /\ <<h, 1>> \in Contexts
  <2>1. depth[h] \in Nat /\ depth[h] > 0 /\ depth[h] <= 1
    BY DEF MaskInv, NoNestedTrap, Mret, TypeOK
  <2>2. depth[h] = 1 /\ 0 \in 0..MaxDepth /\ 1 \in 0..MaxDepth
    BY <2>1, MaxDepthAssumption
  <2> QED BY <2>2, ContextFacts
<1>2. /\ guards[<<h, 0>>] = << >> /\ pc[<<h, 0>>] \in {"run", "spin", "mask"}
      /\ guards[<<h, 1>>] = << >> /\ pc[<<h, 1>>] = "run"
  BY <1>1, ContextFacts DEF MaskInv, SuspendedOutsideLocks, Mret
<1>3. /\ depth'[h] = 0 /\ mie'[h]
      /\ \A k \in Harts \ {h} : depth'[k] = depth[k] /\ mie'[k] = mie[k]
      /\ pc' = pc /\ guards' = guards /\ prev' = prev
  BY <1>1 DEF Mret, TypeOK
<1>4. NoNestedTrap'
  BY <1>3 DEF MaskInv, NoNestedTrap
<1>5. SuspendedOutsideLocks'
  BY <1>3, ContextFacts DEF MaskInv, SuspendedOutsideLocks
<1>6. ReturnedFramesIdle'
  <2> SUFFICES ASSUME NEW c \in Contexts, c[2] > depth'[c[1]]
               PROVE  guards[c] = << >> /\ pc[c] = "run"
    BY <1>3 DEF ReturnedFramesIdle
  <2>1. CASE c[1] = h /\ c[2] = 1
    BY <2>1, <1>2, ContextFacts
  <2>2. CASE ~(c[1] = h /\ c[2] = 1)
    <3>1. c[2] > depth[c[1]]
      BY <2>2, <1>1, <1>3, ContextFacts
    <3> QED BY <3>1 DEF MaskInv, ReturnedFramesIdle
  <2> QED BY <2>1, <2>2
<1>7. FlagExact'
  <2> SUFFICES ASSUME NEW c \in Contexts, c[2] = depth'[c[1]]
               PROVE  mie'[c[1]] <=> /\ c[2] = 0
                                     /\ guards[c] = << >>
                                     /\ pc[c] \in {"run", "spin", "mask"}
    BY <1>3 DEF FlagExact
  <2>1. CASE c[1] = h
    <3>1. c = <<h, 0>>
      BY <2>1, <1>3, ContextFacts
    <3> QED BY <3>1, <1>2, <1>3, ContextFacts
  <2>2. CASE c[1] # h
    BY <2>2, <1>3, ContextFacts DEF MaskInv, FlagExact
  <2> QED BY <2>1, <2>2
<1>8. PrevExact' /\ GuardPrevExact'
  BY <1>3 DEF MaskInv, PrevExact, GuardPrevExact
<1> QED BY <1>4, <1>5, <1>6, <1>7, <1>8 DEF MaskInv

LEMMA MaskInvariant == ASSUME ScopedDrops PROVE Spec => []MaskInv
<1>1. Init => MaskInv
  <2> SUFFICES ASSUME Init PROVE MaskInv
    OBVIOUS
  <2>1. \A c \in Contexts : /\ c[1] \in Harts /\ c[2] \in Nat
                            /\ depth[c[1]] = 0 /\ mie[c[1]]
                            /\ pc[c] = "run" /\ guards[c] = << >>
    BY ContextFacts DEF Init
  <2>2. NoNestedTrap
    BY DEF Init, NoNestedTrap
  <2> QED
    BY <2>1, <2>2 DEF MaskInv, SuspendedOutsideLocks, ReturnedFramesIdle,
                      FlagExact, PrevExact, GuardPrevExact
<1>2. TypeOK /\ MaskInv /\ [Next]_vars => MaskInv'
  <2> SUFFICES ASSUME TypeOK, MaskInv, [Next]_vars PROVE MaskInv'
    OBVIOUS
  <2>1. ASSUME NEW c \in Contexts, NEW l \in Locks, Lock(c, l) PROVE MaskInv'
    BY <2>1, MovesKeepMask DEF Lock, At, Goto
  <2>2. ASSUME NEW c \in Contexts, NEW l \in Locks, TryLock(c, l) PROVE MaskInv'
    BY <2>2, MovesKeepMask DEF TryLock, At, Goto
  <2>3. ASSUME NEW c \in Contexts, NEW i \in DOMAIN guards[c], Drop(c, i)
        PROVE  MaskInv'
    BY <2>3, DropKeepsMask
  <2>4. ASSUME NEW c \in Contexts, Spin(c) PROVE MaskInv'
    BY <2>4, MovesKeepMask DEF Spin, At, Goto
  <2>5. ASSUME NEW c \in Contexts, Mask(c) PROVE MaskInv'
    BY <2>5, MaskKeepsMask
  <2>6. ASSUME NEW c \in Contexts, Acquire(c) PROVE MaskInv'
    BY <2>6, AcquireKeepsMask
  <2>7. ASSUME NEW c \in Contexts, CasFails(c) PROVE MaskInv'
    BY <2>7, MovesKeepMask DEF CasFails, At, Goto
  <2>8. ASSUME NEW c \in Contexts, Unmask(c) PROVE MaskInv'
    BY <2>8, UnmaskKeepsMask
  <2>9. ASSUME NEW h \in Harts, Trap(h) PROVE MaskInv'
    BY <2>9, TrapKeepsMask
  <2>10. ASSUME NEW h \in Harts, Mret(h) PROVE MaskInv'
    BY <2>10, MretKeepsMask
  <2>11. CASE UNCHANGED vars
    BY <2>11 DEF vars, MaskInv, NoNestedTrap, SuspendedOutsideLocks,
                 ReturnedFramesIdle, FlagExact, PrevExact, GuardPrevExact
  <2> QED
    BY <2>1, <2>2, <2>3, <2>4, <2>5, <2>6, <2>7, <2>8, <2>9, <2>10, <2>11 DEF Next
<1> QED
  BY <1>1, <1>2, TypeCorrect, PTL DEF Spec

\* With scoped guards a hart takes no interrupt while one of its contexts
\* holds a lock, however locks nest.
THEOREM HeldLocksMaskInterrupts ==
    ASSUME ScopedDrops PROVE Spec => []GuardsMaskInterrupts
<1>1. TypeOK /\ MaskInv => GuardsMaskInterrupts
  <2> SUFFICES ASSUME TypeOK, MaskInv, NEW c \in Contexts, guards[c] # << >>
               PROVE  ~mie[c[1]]
    BY DEF GuardsMaskInterrupts, Hart
  <2>1. c[2] = depth[c[1]]
    BY ContextFacts DEF MaskInv, SuspendedOutsideLocks, ReturnedFramesIdle, TypeOK
  <2> QED BY <2>1 DEF MaskInv, FlagExact
<1> QED
  BY <1>1, TypeCorrect, MaskInvariant, PTL

\* With scoped guards no handler is interrupted: locking inside it never sets
\* the flag the trap cleared.
THEOREM HandlersRunToMret ==
    ASSUME ScopedDrops PROVE Spec => []NoNestedTrap
<1>1. MaskInv => NoNestedTrap
  BY DEF MaskInv
<1> QED
  BY <1>1, MaskInvariant, PTL

\* With scoped guards lock, try_lock and drop give the interrupt flag back as
\* they found it.
THEOREM FlagGivenBack ==
    ASSUME ScopedDrops PROVE Spec => []InterruptsRestored
<1>1. TypeOK /\ MaskInv => InterruptsRestored
  <2> SUFFICES ASSUME TypeOK, MaskInv, NEW h \in Harts,
                      pc[<<h, depth[h]>>] \in {"run", "spin"},
                      guards[<<h, depth[h]>>] = << >>
               PROVE  mie[h] <=> depth[h] = 0
    BY DEF InterruptsRestored, Main
  <2>1. <<h, depth[h]>> \in Contexts
    BY ContextFacts DEF TypeOK
  <2> QED BY <2>1, ContextFacts DEF MaskInv, FlagExact, TypeOK
<1> QED
  BY <1>1, TypeCorrect, MaskInvariant, PTL
=============================================================================
