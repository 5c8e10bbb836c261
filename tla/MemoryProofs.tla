---------------------------- MODULE MemoryProofs -----------------------------
(***************************************************************************)
(* Proofs about the kernel's memory: the heap of BumpAllocator, for every  *)
(* heap and every set of layouts, in the profile whose arithmetic is       *)
(* checked; and the heapless Vec<T, N>, which implements the sequences of  *)
(* Collection for all capacities and contents, and never reads an element  *)
(* it has not written.                                                     *)
(***************************************************************************)
EXTENDS BumpAllocator, HeaplessVec, Collection, SequenceLemmas

\* Rounding up never goes down: a block starts at or after the free pointer.
LEMMA AlignUpAbove ==
    ASSUME OverflowChecks, NEW addr \in Nat, NEW align \in Nat \ {0}
    PROVE  AlignUp(addr, align) \in Nat /\ AlignUp(addr, align) >= addr
<1> DEFINE last == addr + (align - 1)
<1>1. last \in Nat
  OBVIOUS
<1>2. last % align \in 0..(align - 1)
  BY <1>1
<1>3. AlignUp(addr, align) = last - (last % align)
  BY DEF AlignUp, Plus
<1> HIDE DEF last
<1>4. last - (last % align) \in Int
  BY <1>1, <1>2
<1>5. last - (last % align) >= addr
  BY <1>1, <1>2 DEF last
<1> QED BY <1>3, <1>4, <1>5

\* A product is a multiple of its factors.
LEMMA MultipleOf ==
    ASSUME NEW q \in Nat, NEW n \in Nat \ {0}
    PROVE  (q * n) % n = 0
  OBVIOUS

LEMMA Division ==
    ASSUME NEW a \in Nat, NEW n \in Nat \ {0}
    PROVE  a \div n \in Nat /\ a = (a \div n) * n + (a % n)
  OBVIOUS

\* Rounding up gives a multiple of the alignment.
LEMMA AlignUpAligns ==
    ASSUME OverflowChecks, NEW addr \in Nat, NEW align \in Nat \ {0}
    PROVE  AlignUp(addr, align) % align = 0
<1> DEFINE last == addr + (align - 1)
<1>1. last \in Nat
  OBVIOUS
<1>2. AlignUp(addr, align) = last - (last % align)
  BY DEF AlignUp, Plus
<1> HIDE DEF last
<1>3. last \div align \in Nat /\ last - (last % align) = (last \div align) * align
  BY <1>1, Division
<1> QED BY <1>2, <1>3, MultipleOf

\* The inductive invariant: everything granted ends at or before the free
\* pointer, which stays in the heap.
HeapInv ==
    /\ heap_end # 0 => heap_start = HeapStart /\ heap_end = HeapEnd /\ HeapStart <= next
    /\ next <= heap_end
    /\ heap_end = 0 => granted = {}
    /\ \A b \in granted : HeapStart <= b.start /\ End(b) <= next
    /\ BlocksDisjoint

IInv == TypeOK /\ HeapInv

LEMMA AllocKeepsInv ==
    ASSUME OverflowChecks, IInv, NEW layout \in Layouts, Alloc(layout)
    PROVE  IInv'
<1> DEFINE start == Start(layout)
           new == [start |-> start, size |-> layout.size, align |-> layout.align]
<1>1. layout.size \in Nat \ {0} /\ layout.align \in Nat \ {0} /\ next \in Nat
  BY LayoutAssumption DEF IInv, TypeOK
<1>2. start \in Nat /\ start >= next
  BY <1>1, AlignUpAbove DEF Start
<1>3. /\ next' = start + layout.size /\ next' <= heap_end
      /\ granted' = granted \cup {new}
      /\ UNCHANGED <<heap_start, heap_end, freed, panicked>>
  BY DEF Alloc, Plus
<1> HIDE DEF start
<1>4. /\ new \in Blocks /\ new.start = start /\ End(new) = next'
      /\ next' \in Nat /\ next < next'
  BY <1>1, <1>2, <1>3 DEF Blocks, End
<1> HIDE DEF new
<1>5. heap_end \in Nat /\ heap_end # 0
  BY <1>1, <1>3, <1>4 DEF IInv, TypeOK
<1>6. \A b \in granted : b \in Blocks /\ End(b) \in Nat /\ End(b) <= next
  BY DEF IInv, TypeOK, HeapInv, Blocks, End
<1>7. TypeOK'
  BY <1>3, <1>4 DEF IInv, TypeOK
<1>8. \A b \in granted' : HeapStart <= b.start /\ End(b) <= next'
  <2> TAKE b \in granted'
  <2>1. CASE b = new
    BY <2>1, <1>2, <1>4, <1>5, HeapAssumption, <1>1 DEF IInv, HeapInv
  <2>2. CASE b \in granted
    BY <2>2, <1>1, <1>4, <1>6 DEF IInv, HeapInv
  <2> QED BY <2>1, <2>2, <1>3
<1>9. BlocksDisjoint'
  <2> SUFFICES ASSUME NEW a \in granted', NEW b \in granted', a # b
               PROVE  End(a) <= b.start \/ End(b) <= a.start
    BY DEF BlocksDisjoint, End
  <2>1. CASE a \in granted /\ b \in granted
    BY <2>1 DEF IInv, HeapInv, BlocksDisjoint
  <2>2. CASE a = new /\ b \in granted
    BY <2>2, <1>1, <1>2, <1>4, <1>6
  <2>3. CASE b = new /\ a \in granted
    BY <2>3, <1>1, <1>2, <1>4, <1>6
  <2> QED BY <2>1, <2>2, <2>3, <1>3
<1> QED
  <2>1. HeapStart <= next'
    BY <1>1, <1>4, <1>5, HeapAssumption DEF IInv, HeapInv
  <2> QED
    BY <1>3, <1>5, <1>7, <1>8, <1>9, <2>1 DEF IInv, HeapInv, End

LEMMA BootKeepsInv ==
    ASSUME IInv, Boot PROVE IInv'
<1>1. granted = {} /\ granted' = {} /\ freed' = freed
  BY DEF IInv, HeapInv, Boot
<1> QED
  BY <1>1, HeapAssumption DEF IInv, HeapInv, TypeOK, Boot, BlocksDisjoint, End

LEMMA HeapInvariant == ASSUME OverflowChecks PROVE Spec => []IInv
<1>1. Init => IInv
  <2> SUFFICES ASSUME Init PROVE IInv
    OBVIOUS
  <2>1. granted = {} /\ freed = {} /\ next = 0 /\ heap_end = 0 /\ heap_start = 0
    BY DEF Init
  <2>2. TypeOK
    <3>1. granted \subseteq Blocks /\ freed \subseteq granted
      BY <2>1
    <3>2. panicked \in BOOLEAN
      BY DEF Init
    <3>3. heap_start \in Nat /\ heap_end \in Nat /\ next \in Nat
      BY <2>1
    <3> QED BY <3>1, <3>2, <3>3 DEF TypeOK
  <2>3. HeapInv
    BY <2>1 DEF HeapInv, BlocksDisjoint
  <2> QED BY <2>2, <2>3 DEF IInv
<1>2. IInv /\ [Next]_vars => IInv'
  <2> SUFFICES ASSUME IInv, [Next]_vars PROVE IInv'
    OBVIOUS
  <2>1. CASE Boot
    BY <2>1, BootKeepsInv
  <2>2. ASSUME NEW layout \in Layouts, Alloc(layout) PROVE IInv'
    BY <2>2, AllocKeepsInv
  <2>3. ASSUME NEW layout \in Layouts, AllocNull(layout) PROVE IInv'
    BY <2>3 DEF AllocNull, vars, IInv, TypeOK, HeapInv, BlocksDisjoint, End
  <2>4. ASSUME NEW layout \in Layouts, AllocOverflows(layout) PROVE IInv'
    BY <2>4 DEF AllocOverflows, IInv, TypeOK, HeapInv, BlocksDisjoint, End
  <2>5. ASSUME NEW b \in granted, Dealloc(b) PROVE IInv'
    BY <2>5 DEF Dealloc, IInv, TypeOK, HeapInv, BlocksDisjoint, End
  <2>6. CASE UNCHANGED vars
    BY <2>6 DEF vars, IInv, TypeOK, HeapInv, BlocksDisjoint, End
  <2> QED
    BY <2>1, <2>2, <2>3, <2>4, <2>5, <2>6 DEF Next
<1> QED
  BY <1>1, <1>2, PTL DEF Spec

\* No byte of memory is ever granted twice.
THEOREM NeverGrantedTwice ==
    ASSUME OverflowChecks PROVE Spec => []BlocksDisjoint
<1>1. IInv => BlocksDisjoint
  BY DEF IInv, HeapInv
<1> QED
  BY <1>1, HeapInvariant, PTL

\* No block leaves the heap the linker reserved, whatever was asked for.
THEOREM GrantsStayInHeap ==
    ASSUME OverflowChecks PROVE Spec => []BlocksInHeap
<1>1. IInv => BlocksInHeap
  <2> SUFFICES ASSUME IInv, NEW b \in granted
               PROVE  HeapStart <= b.start /\ End(b) <= HeapEnd
    BY DEF BlocksInHeap
  <2>1. heap_end = HeapEnd /\ End(b) <= next /\ next <= heap_end
    BY DEF IInv, HeapInv
  <2>2. End(b) \in Nat /\ next \in Nat /\ heap_end \in Nat
    BY DEF IInv, TypeOK, Blocks, End
  <2> QED BY <2>1, <2>2 DEF IInv, HeapInv
<1> QED
  BY <1>1, HeapInvariant, PTL

\* With overflow checks the allocator's state keeps its type.
THEOREM TypeCorrect ==
    ASSUME OverflowChecks PROVE Spec => []TypeOK
<1>1. IInv => TypeOK
  BY DEF IInv
<1> QED
  BY <1>1, HeapInvariant, PTL

\* Every block ever granted has the alignment its layout asked for.
THEOREM GrantsAreAligned ==
    ASSUME OverflowChecks PROVE Spec => []BlocksAligned
<1>1. Init => BlocksAligned
  BY DEF Init, BlocksAligned
<1>2. IInv /\ BlocksAligned /\ [Next]_vars => BlocksAligned'
  <2> SUFFICES ASSUME IInv, BlocksAligned, [Next]_vars PROVE BlocksAligned'
    OBVIOUS
  <2>1. ASSUME NEW layout \in Layouts, Alloc(layout) PROVE BlocksAligned'
    <3> DEFINE new == [start |-> Start(layout), size |-> layout.size,
                       align |-> layout.align]
    <3>1. layout.align \in Nat \ {0} /\ next \in Nat
      BY LayoutAssumption DEF IInv, TypeOK
    <3>2. Start(layout) % layout.align = 0
      BY <3>1, AlignUpAligns DEF Start
    <3>3. new.start = Start(layout) /\ new.align = layout.align
      OBVIOUS
    <3>4. granted' = granted \cup {new}
      BY <2>1 DEF Alloc
    <3> HIDE DEF new
    <3>5. new.start % new.align = 0
      BY <3>2, <3>3
    <3> QED BY <3>4, <3>5 DEF BlocksAligned
  <2>2. CASE UNCHANGED granted
    BY <2>2 DEF BlocksAligned
  <2>3. Boot \/ (\E layout \in Layouts : AllocNull(layout) \/ AllocOverflows(layout))
          \/ (\E b \in granted : Dealloc(b)) \/ UNCHANGED vars => UNCHANGED granted
    BY DEF Boot, AllocNull, AllocOverflows, Dealloc, vars
  <2> QED BY <2>1, <2>2, <2>3 DEF Next
<1> QED
  BY <1>1, <1>2, HeapInvariant, PTL DEF Spec

-----------------------------------------------------------------------------
(* HeaplessVec *)

LEMMA SliceFacts ==
    ASSUME N \in Nat, NEW v \in Vec, Initialized(v)
    PROVE  /\ AsSlice(v) \in Seq(Elements)
           /\ Len(AsSlice(v)) = v.len
           /\ \A i \in 1..v.len : AsSlice(v)[i] = v.buf[i - 1]
  BY DEF Vec, Initialized, AsSlice, Slots

\* A buffer whose first n elements are those of a sequence represents it.
LEMMA Represents ==
    ASSUME N \in Nat, NEW s \in Seq(Elements), Len(s) <= N,
           NEW b \in [Slots -> Elements \cup {Uninit}],
           \A i \in 1..Len(s) : b[i - 1] = s[i]
    PROVE  /\ [len |-> Len(s), buf |-> b] \in Vec
           /\ Initialized([len |-> Len(s), buf |-> b])
           /\ AsSlice([len |-> Len(s), buf |-> b]) = s
<1> DEFINE w == [len |-> Len(s), buf |-> b]
<1>1. Len(s) \in Nat /\ \A i \in 1..Len(s) : s[i] \in Elements
  BY LenProperties, ElementOfSeq
<1>2. w \in Vec
  BY <1>1 DEF Vec
<1>3. Initialized(w)
  <2> SUFFICES ASSUME NEW i \in 0..(Len(s) - 1) PROVE b[i] \in Elements
    BY DEF Initialized
  <2>1. i + 1 \in 1..Len(s) /\ (i + 1) - 1 = i
    BY <1>1
  <2> QED BY <1>1, <2>1
<1>4. AsSlice(w) = s
  <2>1. /\ AsSlice(w) \in Seq(Elements) /\ Len(AsSlice(w)) = Len(s)
        /\ \A i \in 1..Len(s) : AsSlice(w)[i] = b[i - 1]
    <3>1. w.len = Len(s) /\ w.buf = b
      OBVIOUS
    <3> HIDE DEF w
    <3> QED BY <1>2, <1>3, <3>1, SliceFacts
  <2> HIDE DEF w
  <2> QED BY <2>1, SeqEqual
<1> QED BY <1>2, <1>3, <1>4

\* push() appends, or leaves a full collection as it is.
THEOREM PushAppends ==
    ASSUME N \in Nat, NEW v \in Vec, Initialized(v), NEW e \in Elements
    PROVE  /\ BufPush(v, e) \in Vec /\ Initialized(BufPush(v, e))
           /\ AsSlice(BufPush(v, e)) = VecPush(AsSlice(v), N, e)
<1>1. CASE v.len < N
  <2>1. BufPush(v, e) \in Vec /\ Initialized(BufPush(v, e))
    BY <1>1 DEF Vec, Initialized, BufPush, Slots
  <2>2. VecPush(AsSlice(v), N, e) = Append(AsSlice(v), e)
    BY <1>1, SliceFacts DEF VecPush
  <2>3. AsSlice(BufPush(v, e)) = Append(AsSlice(v), e)
    BY <1>1, <2>1, SliceFacts DEF AsSlice, BufPush, Vec, Slots, Initialized
  <2> QED BY <2>1, <2>2, <2>3
<1>2. CASE ~(v.len < N)
  BY <1>2, SliceFacts DEF BufPush, VecPush
<1> QED BY <1>1, <1>2

\* pop() drops the last element, which it reads and which was written.
THEOREM PopDropsLast ==
    ASSUME N \in Nat, NEW v \in Vec, Initialized(v)
    PROVE  /\ BufPop(v) \in Vec /\ Initialized(BufPop(v))
           /\ AsSlice(BufPop(v)) = VecPop(AsSlice(v))
           /\ v.len > 0 => BufPopReads(v) \in Elements
<1>1. BufPop(v) \in Vec /\ Initialized(BufPop(v)) /\ (v.len > 0 => BufPopReads(v) \in Elements)
  BY DEF BufPop, BufPopReads, Vec, Initialized, Slots
<1>2. CASE v.len > 0
  <2>1. VecPop(AsSlice(v)) = SubSeq(AsSlice(v), 1, v.len - 1)
    BY <1>2, SliceFacts DEF VecPop, Front
  <2>2. AsSlice(BufPop(v)) = SubSeq(AsSlice(v), 1, v.len - 1)
    BY <1>2, SliceFacts DEF AsSlice, BufPop, Vec, Initialized, Slots
  <2> QED BY <1>1, <2>1, <2>2
<1>3. CASE ~(v.len > 0)
  BY <1>1, <1>3, SliceFacts DEF BufPop, VecPop, Vec
<1> QED BY <1>2, <1>3

\* insert() puts the element at the index and moves the others up; it refuses an
\* index past the end and a full collection.  Its copy stays inside the buffer.
THEOREM InsertInserts ==
    ASSUME N \in Nat, NEW v \in Vec, Initialized(v), NEW e \in Elements,
           NEW index \in Nat
    PROVE  /\ BufInsert(v, index, e) \in Vec /\ Initialized(BufInsert(v, index, e))
           /\ AsSlice(BufInsert(v, index, e)) = VecInsert(AsSlice(v), N, index, e)
           /\ index <= v.len /\ v.len < N => CopyInBounds(index, v.len, index + 1)
<1>0. v.len \in 0..N /\ v.buf \in [Slots -> Elements \cup {Uninit}]
  BY DEF Vec
<1>1. CASE index <= v.len /\ v.len < N
  <2> DEFINE b == [CopyWithin(v.buf, index, v.len, index + 1) EXCEPT ![index] = e]
             s == AsSlice(v)
             t == VecInsert(s, N, index, e)
  <2>1. BufInsert(v, index, e) = [len |-> v.len + 1, buf |-> b]
    BY <1>0, <1>1 DEF BufInsert
  <2>2. \A i \in Slots :
          CopyWithin(v.buf, index, v.len, index + 1)[i] =
            IF index + 1 <= i /\ i < v.len + 1 THEN v.buf[i - 1] ELSE v.buf[i]
    <3> TAKE i \in Slots
    <3>1. index + 1 + (v.len - index) = v.len + 1 /\ index + (i - (index + 1)) = i - 1
      BY <1>0 DEF Slots
    <3> QED BY <3>1 DEF CopyWithin
  <2>3. \A i \in Slots : b[i] = IF i = index THEN e
                                ELSE IF index < i /\ i <= v.len THEN v.buf[i - 1]
                                ELSE v.buf[i]
    <3> TAKE i \in Slots
    <3>1. b[i] = IF i = index THEN e ELSE CopyWithin(v.buf, index, v.len, index + 1)[i]
      BY DEF CopyWithin
    <3>2. i \in Int /\ (index + 1 <= i /\ i < v.len + 1 <=> index < i /\ i <= v.len)
      BY <1>0 DEF Slots
    <3> HIDE DEF b
    <3> QED BY <2>2, <3>1, <3>2
  <2>4. b \in [Slots -> Elements \cup {Uninit}]
    <3>1. \A i \in Slots : v.buf[i] \in Elements \cup {Uninit}
                           /\ (index < i => v.buf[i - 1] \in Elements \cup {Uninit})
      BY <1>0 DEF Slots
    <3>2. \A i \in Slots : b[i] \in Elements \cup {Uninit}
      BY <2>3, <3>1
    <3>3. b = [i \in Slots |-> b[i]]
      BY DEF CopyWithin
    <3> HIDE DEF b
    <3> QED BY <3>2, <3>3
  <2>5. /\ t \in Seq(Elements) /\ Len(t) = v.len + 1
        /\ \A i \in 1..(v.len + 1) : t[i] = IF i < index + 1 THEN s[i]
                                            ELSE IF i = index + 1 THEN e ELSE s[i - 1]
    <3>1. t = InsertAt(s, index + 1, e)
      BY <1>0, <1>1, SliceFacts DEF VecInsert
    <3>2. s \in Seq(Elements) /\ Len(s) = v.len /\ index + 1 \in 1..(Len(s) + 1)
      BY <1>0, <1>1, SliceFacts
    <3>3. /\ InsertAt(s, index + 1, e) \in Seq(Elements)
          /\ Len(InsertAt(s, index + 1, e)) = Len(s) + 1
          /\ \A i \in 1..(Len(s) + 1) :
               InsertAt(s, index + 1, e)[i] =
                   IF i < index + 1 THEN s[i]
                   ELSE IF i = index + 1 THEN e ELSE s[i - 1]
      <4> DEFINE k == index + 1
      <4>1. k \in 1..(Len(s) + 1)
        BY <3>2
      <4> HIDE DEF s, k
      <4>2. /\ InsertAt(s, k, e) \in Seq(Elements)
            /\ Len(InsertAt(s, k, e)) = Len(s) + 1
            /\ \A i \in 1..(Len(s) + 1) :
                 InsertAt(s, k, e)[i] = IF i < k THEN s[i]
                                        ELSE IF i = k THEN e ELSE s[i - 1]
        BY <3>2, <4>1, InsertAtFacts
      <4> QED BY <4>2 DEF k
    <3> HIDE DEF s, t
    <3> QED BY <3>1, <3>2, <3>3
  <2>6. ASSUME NEW i \in 1..(v.len + 1) PROVE b[i - 1] = t[i]
    <3>1. i - 1 \in Slots /\ i \in Int
      BY <1>0, <1>1 DEF Slots
    <3>2. /\ i <= v.len => s[i] = v.buf[i - 1]
          /\ i > 1 => s[i - 1] = v.buf[(i - 1) - 1]
      <4>1. \A j \in 1..v.len : s[j] = v.buf[j - 1]
        BY SliceFacts
      <4>2. /\ i <= v.len => i \in 1..v.len
            /\ i > 1 => i - 1 \in 1..v.len
        BY <1>0
      <4> HIDE DEF s
      <4> QED BY <4>1, <4>2
    <3> HIDE DEF b, s, t
    <3>3. CASE i - 1 < index
      BY <1>0, <1>1, <2>3, <2>5, <3>1, <3>2, <3>3
    <3>4. CASE i - 1 = index
      BY <1>0, <1>1, <2>3, <2>5, <3>1, <3>4
    <3>5. CASE i - 1 > index
      BY <1>0, <1>1, <2>3, <2>5, <3>1, <3>2, <3>5
    <3> QED BY <1>0, <3>1, <3>3, <3>4, <3>5
  <2>7. CopyInBounds(index, v.len, index + 1)
    BY <1>0, <1>1 DEF CopyInBounds
  <2>8. /\ [len |-> v.len + 1, buf |-> b] \in Vec
        /\ Initialized([len |-> v.len + 1, buf |-> b])
        /\ AsSlice([len |-> v.len + 1, buf |-> b]) = t
    <3>1. v.len + 1 <= N
      BY <1>0, <1>1
    <3> HIDE DEF b, t
    <3> QED BY <2>4, <2>5, <2>6, <3>1, Represents
  <2> HIDE DEF b
  <2> QED BY <2>1, <2>7, <2>8
<1>2. CASE ~(index <= v.len /\ v.len < N)
  BY <1>0, <1>2, SliceFacts DEF BufInsert, VecInsert
<1> QED BY <1>1, <1>2

\* remove() takes out the element at the index, which was written, and moves the
\* others down; it refuses an index past the end.
THEOREM RemoveRemoves ==
    ASSUME N \in Nat, NEW v \in Vec, Initialized(v), NEW index \in Nat
    PROVE  /\ BufRemove(v, index) \in Vec /\ Initialized(BufRemove(v, index))
           /\ AsSlice(BufRemove(v, index)) = VecRemove(AsSlice(v), index)
           /\ index < v.len => /\ BufRemoveReads(v, index) \in Elements
                               /\ CopyInBounds(index + 1, v.len, index)
<1>0. v.len \in 0..N /\ v.buf \in [Slots -> Elements \cup {Uninit}]
  BY DEF Vec
<1>1. CASE index < v.len
  <2> DEFINE b == CopyWithin(v.buf, index + 1, v.len, index)
             s == AsSlice(v)
             t == VecRemove(s, index)
  <2>1. BufRemove(v, index) = [len |-> v.len - 1, buf |-> b]
    BY <1>0, <1>1 DEF BufRemove
  <2>3. \A i \in Slots : b[i] = IF index <= i /\ i < v.len - 1 THEN v.buf[i + 1]
                                ELSE v.buf[i]
    <3> TAKE i \in Slots
    <3>1. index + (v.len - (index + 1)) = v.len - 1 /\ index + 1 + (i - index) = i + 1
      BY <1>0 DEF Slots
    <3> QED BY <3>1 DEF CopyWithin
  <2>4. b \in [Slots -> Elements \cup {Uninit}]
    <3>1. \A i \in Slots : v.buf[i] \in Elements \cup {Uninit}
                       /\ (i < v.len - 1 => v.buf[i + 1] \in Elements \cup {Uninit})
      BY <1>0 DEF Slots
    <3>2. \A i \in Slots : b[i] \in Elements \cup {Uninit}
      BY <2>3, <3>1
    <3>3. b = [i \in Slots |-> b[i]]
      BY DEF CopyWithin
    <3> HIDE DEF b
    <3> QED BY <3>2, <3>3
  <2>5. /\ t \in Seq(Elements) /\ Len(t) = v.len - 1
        /\ \A i \in 1..(v.len - 1) : t[i] = s[IF i < index + 1 THEN i ELSE i + 1]
    <3>1. s \in Seq(Elements) /\ Len(s) = v.len /\ index + 1 \in 1..Len(s)
      BY <1>0, <1>1, SliceFacts
    <3>2. t = RemoveAt(s, index + 1)
      BY <1>0, <1>1, <3>1 DEF VecRemove
    <3>3. index + 1 \in DOMAIN s
      BY <3>1, LenProperties
    <3> HIDE DEF s, t
    <3> QED BY <3>1, <3>2, <3>3, RemoveAtFacts
  <2>6. ASSUME NEW i \in 1..(v.len - 1) PROVE b[i - 1] = t[i]
    <3>1. i - 1 \in Slots /\ i \in Int
      BY <1>0, <1>1 DEF Slots
    <3>2. s[i] = v.buf[i - 1] /\ s[i + 1] = v.buf[(i - 1) + 1]
      <4>1. i \in 1..v.len /\ i + 1 \in 1..v.len /\ (i + 1) - 1 = (i - 1) + 1
        BY <1>0
      <4> HIDE DEF s
      <4>2. \A j \in 1..v.len : s[j] = v.buf[j - 1]
        BY SliceFacts DEF s
      <4> QED BY <4>1, <4>2
    <3> HIDE DEF b, s, t
    <3>3. CASE i - 1 < index
      BY <1>0, <1>1, <2>3, <2>5, <3>1, <3>2, <3>3
    <3>4. CASE index <= i - 1
      <4>1. b[i - 1] = v.buf[(i - 1) + 1]
        <5>1. i - 1 < v.len - 1
          BY <1>0
        <5> QED BY <2>3, <3>1, <3>4, <5>1
      <4>2. t[i] = s[i + 1]
        BY <2>5, <3>1, <3>4
      <4> QED BY <3>2, <4>1, <4>2
    <3> QED BY <1>0, <3>1, <3>3, <3>4
  <2>7. BufRemoveReads(v, index) \in Elements /\ CopyInBounds(index + 1, v.len, index)
    BY <1>0, <1>1 DEF BufRemoveReads, CopyInBounds, Initialized
  <2>8. /\ [len |-> v.len - 1, buf |-> b] \in Vec
        /\ Initialized([len |-> v.len - 1, buf |-> b])
        /\ AsSlice([len |-> v.len - 1, buf |-> b]) = t
    <3>1. v.len - 1 <= N
      BY <1>0
    <3> HIDE DEF b, t
    <3> QED BY <2>4, <2>5, <2>6, <3>1, Represents
  <2> HIDE DEF b
  <2> QED BY <2>1, <2>7, <2>8
<1>2. CASE ~(index < v.len)
  BY <1>0, <1>2, SliceFacts DEF BufRemove, VecRemove
<1> QED BY <1>1, <1>2

\* A new or cleared collection is empty, and reads nothing.
THEOREM EmptyIsInitialized ==
    ASSUME N \in Nat, NEW v \in Vec
    PROVE  /\ BufNew \in Vec /\ Initialized(BufNew) /\ AsSlice(BufNew) = << >>
           /\ BufClear(v) \in Vec /\ Initialized(BufClear(v))
           /\ AsSlice(BufClear(v)) = << >>
  BY DEF BufNew, BufClear, Vec, Initialized, AsSlice, Slots

\* copy_from_str() writes every element it counts, and takes as many bytes of the
\* string as the buffer has room for.
THEOREM CopyTruncates ==
    ASSUME N \in Nat, NEW v \in Vec, NEW bytes \in Seq(Elements)
    PROVE  /\ CopyFromStr(v, bytes) \in Vec /\ Initialized(CopyFromStr(v, bytes))
           /\ AsSlice(CopyFromStr(v, bytes)) =
                SubSeq(bytes, 1, IF Len(bytes) < N THEN Len(bytes) ELSE N)
<1> DEFINE len == IF Len(bytes) < N THEN Len(bytes) ELSE N
           t   == SubSeq(bytes, 1, len)
           b   == [i \in Slots |-> IF i < len THEN bytes[i + 1] ELSE v.buf[i]]
<1>1. Len(bytes) \in Nat /\ \A i \in 1..Len(bytes) : bytes[i] \in Elements
  BY LenProperties, ElementOfSeq
<1>2. len \in 0..N /\ len <= Len(bytes)
  BY <1>1
<1>3. CopyFromStr(v, bytes) = [len |-> len, buf |-> b]
  BY DEF CopyFromStr
<1>4. b \in [Slots -> Elements \cup {Uninit}]
  <2> HIDE DEF len
  <2>1. v.buf \in [Slots -> Elements \cup {Uninit}]
    BY DEF Vec
  <2>2. \A i \in Slots : i < len => i + 1 \in 1..Len(bytes)
    BY <1>1, <1>2 DEF Slots
  <2> QED BY <1>1, <2>1, <2>2
<1>5. \A i \in 1..len : i - 1 \in Slots /\ b[i - 1] = bytes[i]
  <2> HIDE DEF len
  <2> TAKE i \in 1..len
  <2>1. i - 1 \in Slots /\ i - 1 < len /\ (i - 1) + 1 = i
    BY <1>2 DEF Slots
  <2> QED BY <2>1
<1> HIDE DEF len, b
<1>6. /\ t \in Seq(Elements) /\ Len(t) = len
      /\ \A i \in 1..len : t[i] = bytes[i]
  <2>1. 1 \in 1..(Len(bytes) + 1) /\ len \in 0..Len(bytes)
    BY <1>1, <1>2
  <2> QED BY <1>1, <1>2, <2>1, SubSeqProperties
<1> HIDE DEF t
<1>7. /\ [len |-> len, buf |-> b] \in Vec
      /\ Initialized([len |-> len, buf |-> b])
      /\ AsSlice([len |-> len, buf |-> b]) = t
  BY <1>2, <1>4, <1>5, <1>6, Represents
<1> QED BY <1>3, <1>7 DEF t, len
=============================================================================
