--------------------------- MODULE SequenceLemmas ---------------------------
(***************************************************************************)
(* Where the elements of a sequence are after InsertAt and RemoveAt, and    *)
(* induction over the natural numbers, by way of a set of them.            *)
(***************************************************************************)
EXTENDS Integers, Sequences, SequencesExt, SequenceTheorems,
        WellFoundedInduction, TLAPS

\* Taking an element out of a sequence keeps the others, in their order.
LEMMA RemoveAtFacts ==
    ASSUME NEW S, NEW s \in Seq(S), NEW i \in DOMAIN s
    PROVE  /\ RemoveAt(s, i) \in Seq(S)
           /\ Len(RemoveAt(s, i)) = Len(s) - 1
           /\ DOMAIN RemoveAt(s, i) = 1..(Len(s) - 1)
           /\ \A j \in 1..(Len(s) - 1) :
                RemoveAt(s, i)[j] = s[IF j < i THEN j ELSE j + 1]
<1>1. /\ Len(s) \in Nat /\ DOMAIN s = 1..Len(s) /\ i \in 1..Len(s)
      /\ \A k \in 1..Len(s) : s[k] \in S
  BY LenProperties, ElementOfSeq
<1> DEFINE front == SubSeq(s, 1, i - 1)
           back  == SubSeq(s, i + 1, Len(s))
<1>2. /\ front \in Seq(S) /\ Len(front) = i - 1
      /\ \A j \in 1..(i - 1) : front[j] = s[j]
  BY <1>1, SubSeqProperties
<1>3. /\ back \in Seq(S) /\ Len(back) = Len(s) - i
      /\ \A j \in 1..(Len(s) - i) : back[j] = s[i + j]
  BY <1>1, SubSeqProperties
<1>4. /\ front \o back \in Seq(S)
      /\ Len(front \o back) = Len(s) - 1
      /\ \A j \in 1..(Len(s) - 1) :
           (front \o back)[j] = IF j <= i - 1 THEN front[j] ELSE back[j - (i - 1)]
  <2> HIDE DEF front, back
  <2>1. /\ front \o back \in Seq(S)
        /\ Len(front \o back) = Len(front) + Len(back)
        /\ \A j \in 1..(Len(front) + Len(back)) :
             (front \o back)[j] =
               IF j <= Len(front) THEN front[j] ELSE back[j - Len(front)]
    BY <1>2, <1>3, ConcatProperties
  <2>2. Len(front) + Len(back) = Len(s) - 1
    BY <1>1, <1>2, <1>3
  <2> QED BY <2>1, <2>2, <1>2
<1>5. \A j \in 1..(Len(s) - 1) :
        (front \o back)[j] = s[IF j < i THEN j ELSE j + 1]
  <2> HIDE DEF front, back
  <2> TAKE j \in 1..(Len(s) - 1)
  <2>1. CASE j < i
    BY <2>1, <1>1, <1>2, <1>4
  <2>2. CASE ~(j < i)
    <3>1. j - (i - 1) \in 1..(Len(s) - i) /\ i + (j - (i - 1)) = j + 1
      BY <2>2, <1>1
    <3>2. (front \o back)[j] = back[j - (i - 1)]
      BY <2>2, <1>1, <1>4
    <3>3. back[j - (i - 1)] = s[i + (j - (i - 1))]
      BY <3>1, <1>3
    <3> QED BY <3>1, <3>2, <3>3, <2>2
  <2> QED BY <2>1, <2>2
<1>6. RemoveAt(s, i) = front \o back
  BY DEF RemoveAt
<1>7. DOMAIN (front \o back) = 1..(Len(s) - 1)
  <2> HIDE DEF front, back
  <2> QED BY <1>4, LenProperties
<1> HIDE DEF front, back
<1> QED BY <1>4, <1>5, <1>6, <1>7

\* Putting an element into a sequence keeps the others, in their order.
LEMMA InsertAtFacts ==
    ASSUME NEW S, NEW s \in Seq(S), NEW i \in 1..(Len(s) + 1), NEW e \in S
    PROVE  /\ InsertAt(s, i, e) \in Seq(S)
           /\ Len(InsertAt(s, i, e)) = Len(s) + 1
           /\ \A j \in 1..(Len(s) + 1) :
                InsertAt(s, i, e)[j] = IF j < i THEN s[j]
                                       ELSE IF j = i THEN e ELSE s[j - 1]
<1>1. /\ Len(s) \in Nat /\ DOMAIN s = 1..Len(s)
      /\ \A k \in 1..Len(s) : s[k] \in S
  BY LenProperties, ElementOfSeq
<1> DEFINE front == SubSeq(s, 1, i - 1)
           head  == Append(front, e)
           back  == SubSeq(s, i, Len(s))
<1>2. /\ front \in Seq(S) /\ Len(front) = i - 1
      /\ \A j \in 1..(i - 1) : front[j] = s[j]
  BY <1>1, SubSeqProperties
<1>3. /\ back \in Seq(S) /\ Len(back) = Len(s) - i + 1
      /\ \A j \in 1..(Len(s) - i + 1) : back[j] = s[i + j - 1]
  BY <1>1, SubSeqProperties
<1>4. InsertAt(s, i, e) = head \o back
  <2>1. head = front \o <<e>>
    <3> HIDE DEF front
    <3> QED BY <1>2, AppendIsConcat
  <2> QED BY <2>1 DEF InsertAt
<1> HIDE DEF front, back
<1>5. /\ head \in Seq(S) /\ Len(head) = i
      /\ \A j \in 1..(i - 1) : head[j] = s[j]
      /\ head[i] = e
  BY <1>2, AppendProperties
<1> HIDE DEF head
<1>6. /\ head \o back \in Seq(S)
      /\ Len(head \o back) = Len(s) + 1
      /\ \A j \in 1..(Len(s) + 1) :
           (head \o back)[j] = IF j <= i THEN head[j] ELSE back[j - i]
  <2>1. /\ head \o back \in Seq(S)
        /\ Len(head \o back) = Len(head) + Len(back)
        /\ \A j \in 1..(Len(head) + Len(back)) :
             (head \o back)[j] =
               IF j <= Len(head) THEN head[j] ELSE back[j - Len(head)]
    BY <1>3, <1>5, ConcatProperties
  <2>2. Len(head) + Len(back) = Len(s) + 1
    BY <1>1, <1>3, <1>5
  <2> QED BY <2>1, <2>2, <1>5
<1>7. ASSUME NEW j \in 1..(Len(s) + 1)
      PROVE  (head \o back)[j] = IF j < i THEN s[j]
                                 ELSE IF j = i THEN e ELSE s[j - 1]
  <2>1. CASE j <= i
    BY <2>1, <1>1, <1>5, <1>6
  <2>2. CASE ~(j <= i)
    <3>1. j - i \in 1..(Len(s) - i + 1) /\ i + (j - i) - 1 = j - 1
      BY <2>2, <1>1
    <3>2. (head \o back)[j] = back[j - i]
      BY <2>2, <1>6
    <3>3. back[j - i] = s[i + (j - i) - 1]
      BY <3>1, <1>3
    <3> QED BY <3>1, <3>2, <3>3, <2>2
  <2> QED BY <2>1, <2>2
<1> QED BY <1>4, <1>6, <1>7

-----------------------------------------------------------------------------
LEMMA LeastElement ==
    ASSUME NEW S \in SUBSET Nat, S # {}
    PROVE  \E n \in S : \A m \in S : n <= m
<1> DEFINE Less == OpToRel(<, Nat)
<1>1. IsWellFoundedOn(Less, Nat)
  BY NatLessThanWellFounded
<1>2. \A m, n \in Nat : m < n => <<m, n>> \in Less
  BY DEF OpToRel
<1> HIDE DEF Less
<1>3. PICK n \in S : \A m \in S : ~(<<m, n>> \in Less)
  BY <1>1, WFMin
<1>4. ASSUME NEW m \in S
      PROVE  n <= m
  <2>1. m \in Nat /\ n \in Nat
    OBVIOUS
  <2>2. ~(m < n)
    BY <1>2, <1>3, <2>1
  <2> QED BY <2>1, <2>2
<1> QED BY <1>4

\* A set of numbers that has 0 and the successor of each of its own has them all.
LEMMA Induction ==
    ASSUME NEW S \in SUBSET Nat, 0 \in S, \A n \in S : n + 1 \in S
    PROVE  S = Nat
<1> SUFFICES ASSUME Nat \ S # {}
             PROVE  FALSE
  OBVIOUS
<1>1. PICK n \in Nat \ S : \A m \in Nat \ S : n <= m
  <2>1. Nat \ S \in SUBSET Nat
    OBVIOUS
  <2> QED BY <2>1, LeastElement
<1>2. n # 0 /\ n - 1 \in Nat
  BY <1>1
<1>3. n - 1 \in S
  BY <1>1, <1>2
<1> QED BY <1>1, <1>2, <1>3

-----------------------------------------------------------------------------
(* A sequence cut in two after its first c elements, as a caret cuts a line. *)

LEMMA CutFacts ==
    ASSUME NEW S, NEW s \in Seq(S), NEW c \in 0..Len(s)
    PROVE  /\ SubSeq(s, 1, c) \in Seq(S) /\ Len(SubSeq(s, 1, c)) = c
           /\ \A j \in 1..c : SubSeq(s, 1, c)[j] = s[j]
           /\ SubSeq(s, c + 1, Len(s)) \in Seq(S)
           /\ Len(SubSeq(s, c + 1, Len(s))) = Len(s) - c
           /\ \A j \in 1..(Len(s) - c) : SubSeq(s, c + 1, Len(s))[j] = s[c + j]
           /\ SubSeq(s, 1, c) \o SubSeq(s, c + 1, Len(s)) = s
<1>1. Len(s) \in Nat /\ \A k \in 1..Len(s) : s[k] \in S
  BY LenProperties, ElementOfSeq
<1>2. /\ SubSeq(s, 1, c) \in Seq(S) /\ Len(SubSeq(s, 1, c)) = c
      /\ \A j \in 1..c : SubSeq(s, 1, c)[j] = s[j]
  BY <1>1, SubSeqProperties
<1>3. /\ SubSeq(s, c + 1, Len(s)) \in Seq(S)
      /\ Len(SubSeq(s, c + 1, Len(s))) = Len(s) - c
      /\ \A j \in 1..(Len(s) - c) : SubSeq(s, c + 1, Len(s))[j] = s[c + j]
  BY <1>1, SubSeqProperties
<1>4. SubSeq(s, 1, c) \o SubSeq(s, c + 1, Len(s)) = s
  <2>1. c \in (1 - 1)..Len(s) /\ Len(s) \in c..Len(s) /\ 1 \in 1..(Len(s) + 1)
    BY <1>1
  <2>2. SubSeq(s, 1, c) \o SubSeq(s, c + 1, Len(s)) = SubSeq(s, 1, Len(s))
    BY <2>1, ConcatAdjacentSubSeq
  <2> QED BY <2>2, SubSeqFull
<1> QED BY <1>2, <1>3, <1>4

\* The element before the cut, from either side of it.
LEMMA MoveCut ==
    ASSUME NEW S, NEW s \in Seq(S), NEW c \in 1..Len(s)
    PROVE  /\ SubSeq(s, 1, c) # << >>
           /\ Front(SubSeq(s, 1, c)) = SubSeq(s, 1, c - 1)
           /\ Last(SubSeq(s, 1, c)) = s[c]
           /\ Append(SubSeq(s, 1, c - 1), s[c]) = SubSeq(s, 1, c)
           /\ SubSeq(s, c, Len(s)) # << >>
           /\ Cons(s[c], SubSeq(s, c + 1, Len(s))) = SubSeq(s, c, Len(s))
           /\ Head(SubSeq(s, c, Len(s))) = s[c]
           /\ Tail(SubSeq(s, c, Len(s))) = SubSeq(s, c + 1, Len(s))
<1>0. Len(s) \in Nat /\ s[c] \in S
  BY LenProperties, ElementOfSeq
<1> DEFINE front == SubSeq(s, 1, c)
<1>1. front \in Seq(S) /\ Len(front) = c /\ \A j \in 1..c : front[j] = s[j]
  BY <1>0, CutFacts
<1>2. /\ SubSeq(s, 1, c - 1) \in Seq(S) /\ Len(SubSeq(s, 1, c - 1)) = c - 1
      /\ \A j \in 1..(c - 1) : SubSeq(s, 1, c - 1)[j] = s[j]
  <2>1. c - 1 \in 0..Len(s)
    BY <1>0
  <2> DEFINE b == c - 1
  <2> HIDE DEF b
  <2>2. /\ SubSeq(s, 1, b) \in Seq(S) /\ Len(SubSeq(s, 1, b)) = b
        /\ \A j \in 1..b : SubSeq(s, 1, b)[j] = s[j]
    BY <2>1, CutFacts DEF b
  <2> QED BY <2>2 DEF b
<1>3. front # << >> /\ Last(front) = s[c]
  <2> HIDE DEF front
  <2>1. front # << >>
    BY <1>1, EmptySeq
  <2> QED BY <2>1, <1>1 DEF Last
<1>4. Front(front) = SubSeq(s, 1, c - 1)
  <2> HIDE DEF front
  <2>1. c - 1 \in 0..Len(front)
    BY <1>1
  <2> DEFINE b == c - 1
  <2> HIDE DEF b
  <2>2. /\ SubSeq(front, 1, b) \in Seq(S) /\ Len(SubSeq(front, 1, b)) = b
        /\ \A j \in 1..b : SubSeq(front, 1, b)[j] = front[j]
    BY <1>1, <2>1, CutFacts DEF b
  <2>3. SubSeq(front, 1, b) = SubSeq(s, 1, b)
    BY <1>1, <1>2, <2>1, <2>2, SeqEqual DEF b
  <2> QED BY <1>1, <2>3 DEF b, Front
<1>5. Append(SubSeq(s, 1, c - 1), s[c]) = front
  <2>1. 1 \in 1..Len(s) /\ c \in 1..Len(s)
    BY <1>0
  <2>2. SubSeq(s, 1, c) = SubSeq(s, 1, c - 1) \o << s[c] >>
    BY <2>1, SubSeqRecursiveSecond
  <2>3. Append(SubSeq(s, 1, c - 1), s[c]) = SubSeq(s, 1, c - 1) \o << s[c] >>
    BY <1>0, <1>2, AppendIsConcat
  <2> QED BY <2>2, <2>3
<1>6. Len(s) \in c..Len(s)
  BY <1>0
<1>7. Cons(s[c], SubSeq(s, c + 1, Len(s))) = SubSeq(s, c, Len(s))
  BY <1>6, SubSeqRecursiveFirst DEF Cons
<1>8. /\ Head(SubSeq(s, c, Len(s))) = s[c]
      /\ Tail(SubSeq(s, c, Len(s))) = SubSeq(s, c + 1, Len(s))
  BY <1>6, HeadTailOfSubSeq
<1>9. SubSeq(s, c, Len(s)) # << >>
  <2>1. /\ SubSeq(s, c, Len(s)) \in Seq(S)
        /\ Len(SubSeq(s, c, Len(s))) = Len(s) - c + 1
    BY <1>0, SubSeqProperties, ElementOfSeq
  <2>2. Len(SubSeq(s, c, Len(s))) # 0
    BY <1>0, <2>1
  <2> QED BY <2>2, EmptySeq
<1> QED BY <1>3, <1>4, <1>5, <1>7, <1>8, <1>9

LEMMA InsertAtCut ==
    ASSUME NEW S, NEW s \in Seq(S), NEW c \in 0..Len(s), NEW e \in S
    PROVE  LET t == InsertAt(s, c + 1, e) IN
           /\ SubSeq(t, 1, c + 1) = Append(SubSeq(s, 1, c), e)
           /\ SubSeq(t, c + 2, Len(t)) = SubSeq(s, c + 1, Len(s))
<1> DEFINE k == c + 1
           t == InsertAt(s, k, e)
<1>0. Len(s) \in Nat /\ k \in 1..(Len(s) + 1)
  BY LenProperties
<1>1. /\ t \in Seq(S) /\ Len(t) = Len(s) + 1
      /\ \A j \in 1..(Len(s) + 1) :
           t[j] = IF j < k THEN s[j] ELSE IF j = k THEN e ELSE s[j - 1]
  <2> HIDE DEF k
  <2> QED BY <1>0, InsertAtFacts
<1> HIDE DEF t
<1>2. /\ SubSeq(s, 1, c) \in Seq(S) /\ Len(SubSeq(s, 1, c)) = c
      /\ \A j \in 1..c : SubSeq(s, 1, c)[j] = s[j]
      /\ SubSeq(s, k, Len(s)) \in Seq(S)
      /\ Len(SubSeq(s, k, Len(s))) = Len(s) - c
      /\ \A j \in 1..(Len(s) - c) : SubSeq(s, k, Len(s))[j] = s[c + j]
  BY CutFacts
<1>3. k \in 0..Len(t)
  BY <1>0, <1>1
<1>4. /\ SubSeq(t, 1, k) \in Seq(S) /\ Len(SubSeq(t, 1, k)) = k
      /\ \A j \in 1..k : SubSeq(t, 1, k)[j] = t[j]
      /\ SubSeq(t, k + 1, Len(t)) \in Seq(S)
      /\ Len(SubSeq(t, k + 1, Len(t))) = Len(t) - k
      /\ \A j \in 1..(Len(t) - k) : SubSeq(t, k + 1, Len(t))[j] = t[k + j]
  <2> HIDE DEF k
  <2> QED BY <1>1, <1>3, CutFacts
<1> DEFINE left == Append(SubSeq(s, 1, c), e)
<1>5. /\ left \in Seq(S) /\ Len(left) = k
      /\ \A j \in 1..c : left[j] = s[j]
      /\ left[k] = e
  BY <1>2, AppendProperties
<1> HIDE DEF left
<1>6. SubSeq(t, 1, k) = left
  <2>1. ASSUME NEW j \in 1..k
        PROVE  SubSeq(t, 1, k)[j] = left[j]
    <3>1. j \in 1..(Len(s) + 1)
      BY <1>0
    <3>2. CASE j < k
      <4>1. j \in 1..c
        BY <1>0, <3>2
      <4> QED BY <1>1, <1>4, <1>5, <3>1, <3>2, <4>1
    <3>3. CASE j = k
      BY <1>1, <1>4, <1>5, <3>1, <3>3
    <3> QED BY <3>2, <3>3
  <2> QED BY <2>1, <1>4, <1>5, SeqEqual
<1>7. SubSeq(t, k + 1, Len(t)) = SubSeq(s, k, Len(s))
  <2>1. Len(t) - k = Len(s) - c
    BY <1>0, <1>1
  <2>2. ASSUME NEW j \in 1..(Len(s) - c)
        PROVE  t[k + j] = s[c + j]
    <3>1. k + j \in 1..(Len(s) + 1) /\ ~(k + j < k) /\ k + j # k /\ (k + j) - 1 = c + j
      BY <1>0
    <3> QED BY <3>1, <1>1
  <2> DEFINE back == SubSeq(t, k + 1, Len(t))
             same == SubSeq(s, k, Len(s))
  <2>3. /\ back \in Seq(S) /\ same \in Seq(S) /\ Len(back) = Len(same)
        /\ \A j \in 1..Len(back) : back[j] = same[j]
    BY <2>1, <2>2, <1>2, <1>4
  <2> HIDE DEF back, same
  <2>4. back = same
    BY <2>3, SeqEqual
  <2> QED BY <2>4 DEF back, same
<1>8. k + 1 = c + 2
  OBVIOUS
<1> QED BY <1>6, <1>7, <1>8 DEF left, t

LEMMA RemoveAtCut ==
    ASSUME NEW S, NEW s \in Seq(S), NEW c \in 1..Len(s)
    PROVE  LET t == RemoveAt(s, c) IN
           /\ SubSeq(t, 1, c - 1) = SubSeq(s, 1, c - 1)
           /\ SubSeq(t, c, Len(t)) = SubSeq(s, c + 1, Len(s))
<1> DEFINE b == c - 1
           t == RemoveAt(s, c)
<1>0. Len(s) \in Nat /\ DOMAIN s = 1..Len(s) /\ b \in 0..Len(s) /\ b + 1 = c
      /\ c \in 0..Len(s)
  BY LenProperties
<1>1. /\ t \in Seq(S) /\ Len(t) = Len(s) - 1
      /\ \A j \in 1..(Len(s) - 1) : t[j] = s[IF j < c THEN j ELSE j + 1]
  BY <1>0, RemoveAtFacts
<1> HIDE DEF t, b
<1>2. b \in 0..Len(t)
  BY <1>0, <1>1
<1>3. /\ SubSeq(t, 1, b) \in Seq(S) /\ Len(SubSeq(t, 1, b)) = b
      /\ \A j \in 1..b : SubSeq(t, 1, b)[j] = t[j]
      /\ SubSeq(t, b + 1, Len(t)) \in Seq(S)
      /\ Len(SubSeq(t, b + 1, Len(t))) = Len(t) - b
      /\ \A j \in 1..(Len(t) - b) : SubSeq(t, b + 1, Len(t))[j] = t[b + j]
  BY <1>1, <1>2, CutFacts
<1>4. /\ SubSeq(s, 1, b) \in Seq(S) /\ Len(SubSeq(s, 1, b)) = b
      /\ \A j \in 1..b : SubSeq(s, 1, b)[j] = s[j]
  BY <1>0, CutFacts
<1>5. /\ SubSeq(s, c + 1, Len(s)) \in Seq(S)
      /\ Len(SubSeq(s, c + 1, Len(s))) = Len(s) - c
      /\ \A j \in 1..(Len(s) - c) : SubSeq(s, c + 1, Len(s))[j] = s[c + j]
  BY <1>0, CutFacts
<1>6. SubSeq(t, 1, b) = SubSeq(s, 1, b)
  <2>1. ASSUME NEW j \in 1..b
        PROVE  t[j] = s[j]
    BY <1>0, <1>1
  <2> QED BY <2>1, <1>3, <1>4, SeqEqual
<1>7. SubSeq(t, b + 1, Len(t)) = SubSeq(s, c + 1, Len(s))
  <2>1. Len(t) - b = Len(s) - c
    BY <1>0, <1>1 DEF b
  <2>2. ASSUME NEW j \in 1..(Len(s) - c)
        PROVE  t[b + j] = s[c + j]
    <3>1. b + j \in 1..(Len(s) - 1) /\ ~(b + j < c) /\ (b + j) + 1 = c + j
      BY <1>0
    <3> QED BY <3>1, <1>1
  <2> QED BY <2>1, <2>2, <1>3, <1>5, SeqEqual
<1> QED BY <1>0, <1>6, <1>7 DEF b, t
=============================================================================
