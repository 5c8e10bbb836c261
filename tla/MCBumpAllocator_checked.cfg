(* the dev profile; after an overflow the kernel stops in its panic handler *)
SPECIFICATION Spec
CONSTANTS
    WORD = 64
    HeapStart = 41
    HeapEnd = 52
    Layouts <- MCLayouts
    OverflowChecks = TRUE
INVARIANTS TypeOK BlocksDisjoint BlocksInHeap BlocksAligned
CHECK_DEADLOCK FALSE
