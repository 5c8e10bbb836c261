----------------------------- MODULE MCSpinLock -----------------------------
(* Small instances of SpinLock for TLC. *)
EXTENDS SpinLock

\* The harts run the same code and are never compared: they are symmetric.
HartSymmetry == Permutations(Harts)
=============================================================================
