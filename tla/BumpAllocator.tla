---------------------------- MODULE BumpAllocator ----------------------------
(***************************************************************************)
(* kernel/alloc.rs: the global allocator.  Its state is only touched under *)
(* its SpinLock, so each operation is one step.                            *)
(***************************************************************************)
EXTENDS Integers

CONSTANTS
    WORD,           \* 2^32: usize arithmetic is modulo WORD
    HeapStart,      \* __heap_start and __heap_end of memory-qemu.x
    HeapEnd,
    Layouts,        \* the layouts asked for, [size, align]
    OverflowChecks  \* TRUE in the dev and test profiles: overflow panics

ASSUME HeapAssumption ==
    /\ WORD \in Nat /\ HeapStart \in Nat /\ HeapEnd \in Nat
    /\ HeapStart <= HeapEnd /\ HeapEnd < WORD
\* GlobalAlloc's contract: no zero-sized layout.  (Alignments are powers of two.)
ASSUME LayoutAssumption ==
    Layouts \subseteq [size : Nat \ {0}, align : Nat \ {0}]
ASSUME OverflowAssumption == OverflowChecks \in BOOLEAN

VARIABLES
    heap_start, heap_end, next,  \* BumpAllocatorInner
    granted,                     \* the blocks ever returned, [start, size, align]
    freed,                       \* the blocks given back
    panicked                     \* an addition overflowed

vars == <<heap_start, heap_end, next, granted, freed, panicked>>

Blocks == [start : Nat, size : Nat \ {0}, align : Nat \ {0}]
End(b) == b.start + b.size

TypeOK ==
    /\ heap_start \in Nat /\ heap_end \in Nat /\ next \in Nat
    /\ granted \subseteq Blocks
    /\ freed \subseteq granted
    /\ panicked \in BOOLEAN

\* the static's initial value: a heap of no bytes, from which nothing is granted
Init ==
    /\ heap_start = 0 /\ heap_end = 0 /\ next = 0
    /\ granted = {} /\ freed = {}
    /\ panicked = FALSE

-----------------------------------------------------------------------------
\* usize addition
Overflows(x, y) == OverflowChecks /\ x + y >= WORD
Plus(x, y) == IF OverflowChecks THEN x + y ELSE (x + y) % WORD

\* Faulty: the mask is !align
AlignUpClearingOneBit(addr, align) ==
    LET last == Plus(addr, align - 1) IN
    IF (last \div align) % 2 = 1 THEN last - align ELSE last

\* (addr + align - 1) & !(align - 1): the next multiple of a power of two
AlignUp(addr, align) ==
    LET last == Plus(addr, align - 1) IN last - (last % align)

Start(layout) == AlignUp(next, layout.align)

AllocPanics(layout) ==
    \/ Overflows(next, layout.align)
    \/ Overflows(Start(layout), layout.size)

\* init(), called by kernel_init before anything allocates
Boot ==
    /\ ~panicked
    /\ heap_end = 0
    /\ heap_start' = HeapStart
    /\ heap_end' = HeapEnd
    /\ next' = HeapStart
    /\ UNCHANGED <<granted, freed, panicked>>

\* Faulty: it is the block's start that is compared with the heap's end
AllocCheckingStart(layout) ==
    LET end == Plus(Start(layout), layout.size) IN
    /\ ~panicked
    /\ ~AllocPanics(layout)
    /\ Start(layout) <= heap_end
    /\ next' = end
    /\ granted' = granted \cup
         {[start |-> Start(layout), size |-> layout.size, align |-> layout.align]}
    /\ UNCHANGED <<heap_start, heap_end, freed, panicked>>

Alloc(layout) ==
    LET end == Plus(Start(layout), layout.size) IN
    /\ ~panicked
    /\ ~AllocPanics(layout)
    /\ end <= heap_end
    /\ next' = end
    /\ granted' = granted \cup
         {[start |-> Start(layout), size |-> layout.size, align |-> layout.align]}
    /\ UNCHANGED <<heap_start, heap_end, freed, panicked>>

\* a null pointer, and the heap is as it was: a smaller block may still fit
AllocNull(layout) ==
    /\ ~panicked
    /\ ~AllocPanics(layout)
    /\ Plus(Start(layout), layout.size) > heap_end
    /\ UNCHANGED vars

AllocOverflows(layout) ==
    /\ ~panicked
    /\ AllocPanics(layout)
    /\ panicked' = TRUE
    /\ UNCHANGED <<heap_start, heap_end, next, granted, freed>>

\* Faulty: the last block's memory is taken back by size, whichever block it is
DeallocBySize(b) ==
    /\ ~panicked
    /\ b \in granted \ freed
    /\ freed' = freed \cup {b}
    /\ next' = next - b.size
    /\ UNCHANGED <<heap_start, heap_end, granted, panicked>>

\* Faulty: the block is forgotten by the allocator and given back by its owner
DeallocForgetting(b) ==
    /\ ~panicked
    /\ b \in granted \ freed
    /\ granted' = granted \ {b}
    /\ freed' = freed \cup {b}
    /\ UNCHANGED <<heap_start, heap_end, next, panicked>>

\* dealloc() keeps the memory
Dealloc(b) ==
    /\ ~panicked
    /\ b \in granted \ freed
    /\ freed' = freed \cup {b}
    /\ UNCHANGED <<heap_start, heap_end, next, granted, panicked>>

Next ==
    \/ Boot
    \/ \E layout \in Layouts : Alloc(layout)
    \/ \E layout \in Layouts : AllocNull(layout)
    \/ \E layout \in Layouts : AllocOverflows(layout)
    \/ \E b \in granted : Dealloc(b)

Spec == Init /\ [][Next]_vars

-----------------------------------------------------------------------------
\* No byte is handed out twice, to any two callers, ever: not even after it was
\* given back.
BlocksDisjoint ==
    \A a, b \in granted : a # b => End(a) <= b.start \/ End(b) <= a.start

\* Every block lies in the linker's heap, before the stack region that follows
\* it, whatever sizes and alignments were asked for before.
BlocksInHeap ==
    \A b \in granted : HeapStart <= b.start /\ End(b) <= HeapEnd

\* Every block has the alignment its layout asked for.
BlocksAligned == \A b \in granted : b.start % b.align = 0
=============================================================================
