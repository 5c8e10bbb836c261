--------------------------- MODULE MCBumpAllocator ---------------------------
(* A heap of 11 bytes in the upper half of a 6-bit address space, at an odd *)
(* address, and layouts up to isize::MAX, which overflow the addition.      *)
EXTENDS BumpAllocator

MCLayouts == [size : {2, 3, 31}, align : {1, 4}]
=============================================================================
