----------------------------- MODULE HeaplessVec -----------------------------
(***************************************************************************)
(* kernel/collection.rs: the buffer under Vec<T, N>.  Its elements from    *)
(* len upwards are MaybeUninit, and what they hold is undefined; the safe  *)
(* operations may only read below len.  Collection has the same operations *)
(* as sequences.                                                           *)
(***************************************************************************)
EXTENDS Integers, Sequences

CONSTANTS
    N,       \* the capacity
    Elements,
    Uninit   \* what an element is before it is written, none of Elements

Slots == 0..(N - 1)
Vec == [len : 0..N, buf : [Slots -> Elements \cup {Uninit}]]

\* what as_slice() shows
AsSlice(v) == [i \in 1..v.len |-> v.buf[i - 1]]

BufNew == [len |-> 0, buf |-> [i \in Slots |-> Uninit]]

BufClear(v) == [v EXCEPT !.len = 0]

\* buf[len].write(element)
BufPush(v, element) ==
    IF v.len < N THEN [len |-> v.len + 1, buf |-> [v.buf EXCEPT ![v.len] = element]]
                 ELSE v

BufPop(v) == IF v.len > 0 THEN [v EXCEPT !.len = v.len - 1] ELSE v
BufPopReads(v) == v.buf[v.len - 1]

\* buf.copy_within(from..to, dest), which panics unless both ranges are in buf
CopyInBounds(from, to, dest) == from <= to /\ to <= N /\ dest + (to - from) <= N
CopyWithin(buf, from, to, dest) ==
    [i \in Slots |-> IF dest <= i /\ i < dest + (to - from) THEN buf[from + (i - dest)]
                                                            ELSE buf[i]]

BufInsert(v, index, element) ==
    IF index > v.len \/ v.len >= N THEN v
    ELSE [len |-> v.len + 1,
          buf |-> [CopyWithin(v.buf, index, v.len, index + 1) EXCEPT ![index] = element]]

BufRemove(v, index) ==
    IF index >= v.len THEN v
    ELSE [len |-> v.len - 1, buf |-> CopyWithin(v.buf, index + 1, v.len, index)]
BufRemoveReads(v, index) == v.buf[index]

\* Of a string longer than the buffer the first N bytes are taken.
CopyFromStr(v, bytes) ==
    LET len == IF Len(bytes) < N THEN Len(bytes) ELSE N IN
    [len |-> len,
     buf |-> [i \in Slots |-> IF i < len THEN bytes[i + 1] ELSE v.buf[i]]]

-----------------------------------------------------------------------------
\* What the code's SAFETY comments rest on: every element below len was written.
Initialized(v) == \A i \in 0..(v.len - 1) : v.buf[i] \in Elements
=============================================================================
