---------------------------- MODULE MCLineEditor ----------------------------
(* A small LineEditor for TLC. *)
EXTENDS LineEditor, TLC

\* Bytes of one class are only compared with each other, never ordered.
ByteSymmetry == Permutations(Ascii)
=============================================================================
