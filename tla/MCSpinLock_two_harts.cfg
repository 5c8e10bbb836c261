(* two harts contend for two locks, each with handlers that lock *)
SPECIFICATION Spec
CONSTANTS
    Harts = {h1, h2}
    Locks = {1, 2}
    MaxDepth = 2
    ScopedDrops = TRUE
SYMMETRY HartSymmetry
INVARIANTS TypeOK MutualExclusion GuardsMaskInterrupts NoNestedTrap InterruptsRestored
