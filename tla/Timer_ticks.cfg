(* a clock of three words, intervals shorter than a word, a count of
   ticks that wraps; the kernel stops with the clock *)
SPECIFICATION Spec
CONSTANTS
    WORD = 4
    INTERVAL = 3
    WRAP = 3
    Delays = {0, 1, 2}
    MaxTime = 11
INVARIANTS TypeOK NextTickIsNear
PROPERTIES SleepsLongEnough BusyWaitsLongEnough
CHECK_DEADLOCK FALSE
