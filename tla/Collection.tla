----------------------------- MODULE Collection -----------------------------
(***************************************************************************)
(* kernel/collection.rs: the heapless Vec<T, N>, by what its operations do *)
(* to the sequence of its elements.  Indices are the code's, from 0.       *)
(***************************************************************************)
EXTENDS Integers, Sequences, SequencesExt

IsFull(v, n) == Len(v) = n

\* insert() at an index past the end, or in a full collection, returns Err and
\* changes nothing.
VecInsert(v, n, index, e) ==
    IF index <= Len(v) /\ Len(v) < n THEN InsertAt(v, index + 1, e) ELSE v

VecPush(v, n, e) == IF Len(v) < n THEN Append(v, e) ELSE v

VecPop(v) == IF Len(v) > 0 THEN Front(v) ELSE v

\* remove() out of bounds returns None and changes nothing.
VecRemove(v, index) ==
    IF index \in 0..(Len(v) - 1) THEN RemoveAt(v, index + 1) ELSE v

\* v[index], whose assertion holds when InBounds does
InBounds(v, index) == index \in 0..(Len(v) - 1)
At0(v, index) == v[index + 1]

\* as_slice()[from..len]: indexing panics when from > len
SliceInBounds(v, from) == from \in 0..Len(v)
SliceFrom(v, from) == SubSeq(v, from + 1, Len(v))
=============================================================================
