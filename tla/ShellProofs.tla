---------------------------- MODULE ShellProofs -----------------------------
(***************************************************************************)
(* Proofs about the shell's thread, for every alphabet, length of a line,  *)
(* size of the history, screen and prompt: the line editor, which          *)
(* implements the HistoryEditor; the screen that the shell draws with what *)
(* the editor tells it; and the keys it polls, for every window and FIFO.  *)
(***************************************************************************)
EXTENDS Shell, Keyboard, SequenceLemmas

-----------------------------------------------------------------------------
(* The line editor *)

LEMMA LinesAreSeqs ==
    ASSUME NEW s
    PROVE  s \in Lines <=> s \in Seq(Chars) /\ Len(s) <= LINE_LEN
<1>1. ASSUME s \in Lines PROVE s \in Seq(Chars) /\ Len(s) <= LINE_LEN
  <2>1. PICK n \in 0..LINE_LEN : s \in [1..n -> Chars]
    BY <1>1 DEF Lines
  <2>2. n \in Nat /\ n <= LINE_LEN
    BY CapacityAssumption
  <2>3. s \in Seq(Chars)
    BY <2>1, <2>2, SeqDef
  <2> QED BY <2>1, <2>2, <2>3
<1>2. ASSUME s \in Seq(Chars), Len(s) <= LINE_LEN PROVE s \in Lines
  <2>1. Len(s) \in 0..LINE_LEN /\ s \in [1..Len(s) -> Chars]
    BY <1>2, CapacityAssumption
  <2> QED BY <2>1 DEF Lines
<1> QED BY <1>1, <1>2

LEMMA EmptyLine == << >> \in Lines
<1>1. 0 \in 0..LINE_LEN
  BY CapacityAssumption
<1>2. << >> \in [1..0 -> Chars]
  OBVIOUS
<1> QED BY <1>1, <1>2 DEF Lines

LEMMA PushFits ==
    ASSUME NEW s \in Lines, NEW ch \in Chars, ~IsFull(s, LINE_LEN)
    PROVE  VecPush(s, LINE_LEN, ch) \in Lines /\ Len(VecPush(s, LINE_LEN, ch)) = Len(s) + 1
<1>1. s \in Seq(Chars) /\ Len(s) \in Nat /\ Len(s) <= LINE_LEN /\ LINE_LEN \in Nat
  BY LinesAreSeqs, CapacityAssumption
<1>2. Len(s) < LINE_LEN /\ VecPush(s, LINE_LEN, ch) = Append(s, ch)
  BY <1>1 DEF IsFull, VecPush
<1> DEFINE t == Append(s, ch)
<1>3. t \in Seq(Chars) /\ Len(t) = Len(s) + 1
  BY <1>1
<1> HIDE DEF t
<1>4. t \in Lines
  BY <1>1, <1>2, <1>3, LinesAreSeqs
<1> QED BY <1>2, <1>3, <1>4 DEF t

LEMMA InsertFits ==
    ASSUME NEW s \in Lines, NEW ch \in Chars, ~IsFull(s, LINE_LEN), NEW i \in 0..Len(s)
    PROVE  /\ VecInsert(s, LINE_LEN, i, ch) \in Lines
           /\ Len(VecInsert(s, LINE_LEN, i, ch)) = Len(s) + 1
<1>1. s \in Seq(Chars) /\ Len(s) \in Nat /\ Len(s) <= LINE_LEN /\ LINE_LEN \in Nat
  BY LinesAreSeqs, CapacityAssumption
<1>2. Len(s) < LINE_LEN /\ VecInsert(s, LINE_LEN, i, ch) = InsertAt(s, i + 1, ch)
  BY <1>1 DEF IsFull, VecInsert
<1> DEFINE k == i + 1
           t == InsertAt(s, k, ch)
<1>3. k \in 1..(Len(s) + 1)
  BY <1>1
<1>4. t \in Seq(Chars) /\ Len(t) = Len(s) + 1
  <2> HIDE DEF k
  <2> QED BY <1>1, <1>3, InsertAtFacts
<1> HIDE DEF t
<1>5. t \in Lines
  BY <1>1, <1>2, <1>4, LinesAreSeqs
<1> QED BY <1>2, <1>4, <1>5 DEF t

LEMMA RemoveFits ==
    ASSUME NEW s \in Lines, NEW i \in 0..(Len(s) - 1)
    PROVE  VecRemove(s, i) \in Lines /\ Len(VecRemove(s, i)) = Len(s) - 1
<1>1. s \in Seq(Chars) /\ Len(s) \in Nat /\ Len(s) <= LINE_LEN /\ LINE_LEN \in Nat
  BY LinesAreSeqs, CapacityAssumption
<1>2. i + 1 \in DOMAIN s /\ VecRemove(s, i) = RemoveAt(s, i + 1)
  BY <1>1 DEF VecRemove
<1>3. RemoveAt(s, i + 1) \in Seq(Chars) /\ Len(RemoveAt(s, i + 1)) = Len(s) - 1
  BY <1>1, <1>2, RemoveAtFacts
<1> QED BY <1>1, <1>2, <1>3, LinesAreSeqs

Histories == {h \in Seq(Lines) : Len(h) <= HISTORY_SIZE}

Submitted(h, s) ==
    VecInsert(IF IsFull(h, HISTORY_SIZE) THEN VecPop(h) ELSE h, HISTORY_SIZE, 0, s)

\* A submitted line is the newest entry of the history, also of a full one.
LEMMA SubmittedIsNewest ==
    ASSUME NEW h \in Histories, NEW s \in Lines
    PROVE  /\ Submitted(h, s) \in Histories
           /\ Len(Submitted(h, s)) > 0
           /\ At0(Submitted(h, s), 0) = s
<1> DEFINE old == IF IsFull(h, HISTORY_SIZE) THEN VecPop(h) ELSE h
<1>1. h \in Seq(Lines) /\ Len(h) \in Nat /\ Len(h) <= HISTORY_SIZE
      /\ HISTORY_SIZE \in Nat \ {0}
  BY CapacityAssumption DEF Histories
<1>2. old \in Seq(Lines) /\ Len(old) < HISTORY_SIZE
  <2>1. CASE IsFull(h, HISTORY_SIZE)
    <3>1. Len(h) > 0 /\ old = SubSeq(h, 1, Len(h) - 1)
      BY <1>1, <2>1 DEF IsFull, VecPop, Front
    <3> QED BY <1>1, <3>1
  <2>2. CASE ~IsFull(h, HISTORY_SIZE)
    BY <1>1, <2>2 DEF IsFull
  <2> QED BY <2>1, <2>2
<1> HIDE DEF old
<1>3. Len(old) \in Nat
  BY <1>2
<1>4. VecInsert(old, HISTORY_SIZE, 0, s) = InsertAt(old, 1, s)
  BY <1>2, <1>3 DEF VecInsert
<1>5. /\ InsertAt(old, 1, s) \in Seq(Lines)
      /\ Len(InsertAt(old, 1, s)) = Len(old) + 1
      /\ InsertAt(old, 1, s)[1] = s
  BY <1>2, <1>3, InsertAtFacts
<1>6. Submitted(h, s) = InsertAt(old, 1, s)
  BY <1>4 DEF Submitted, old
<1> QED BY <1>1, <1>2, <1>3, <1>5, <1>6 DEF Histories, At0

-----------------------------------------------------------------------------
\* The inductive invariant: types, with the indices inside what they index.
IInv ==
    /\ line \in Lines
    /\ saved_line \in Lines
    /\ cursor \in 0..Len(line)
    /\ history \in Histories
    /\ history_index \in {None} \cup 0..(Len(history) - 1)
    /\ result = << >> \/ \E s \in Lines : result = <<s>>
    /\ panicked \in BOOLEAN

\* Only with bytes that are no ASCII an expectation of UTF-8 fails.
AsciiOnly == Lead = {} /\ Continuation = {}

LEMMA AsciiIsUtf8 == ASSUME AsciiOnly, NEW s PROVE IsUtf8(s)
  BY DEF AsciiOnly, IsUtf8

LEMMA Lengths ==
    ASSUME IInv
    PROVE  Len(line) \in Nat /\ Len(line) <= LINE_LEN /\ Len(history) \in Nat
           /\ Len(history) <= HISTORY_SIZE
  BY LinesAreSeqs DEF IInv, Histories

LEMMA RefuseKeepsInv ==
    ASSUME IInv, Refuse PROVE IInv' /\ panicked' = panicked
  BY DEF IInv, Refuse, editorVars

LEMMA ByteAtEndKeepsInv ==
    ASSUME IInv, NEW ch \in Chars, ByteAtEnd(ch) PROVE IInv' /\ ~panicked'
<1>1. line' \in Lines /\ Len(line') = Len(line) + 1
  BY PushFits DEF IInv, ByteAtEnd
<1>2. cursor' \in 0..Len(line')
  BY <1>1, Lengths DEF IInv, ByteAtEnd
<1>3. /\ result' = << >> /\ ~panicked
      /\ UNCHANGED <<saved_line, history_index, history, panicked>>
  BY DEF ByteAtEnd
<1> QED BY <1>1, <1>2, <1>3 DEF IInv

LEMMA ByteInsideKeepsInv ==
    ASSUME IInv, NEW ch \in Chars, ByteInside(ch) PROVE IInv' /\ (AsciiOnly => ~panicked')
<1>1. line' \in Lines /\ Len(line') = Len(line) + 1
  BY InsertFits DEF IInv, ByteInside
<1>2. cursor' \in 0..Len(line') /\ SliceInBounds(line', cursor' - 1)
  BY <1>1, Lengths DEF IInv, ByteInside, SliceInBounds
<1>3. result' = << >> /\ UNCHANGED <<saved_line, history_index, history>>
  BY DEF ByteInside
<1>4. panicked' \in BOOLEAN /\ (AsciiOnly => ~panicked')
  BY <1>2, AsciiIsUtf8 DEF ByteInside
<1> QED BY <1>1, <1>2, <1>3, <1>4 DEF IInv

LEMMA EnterKeepsInv ==
    ASSUME IInv, Enter PROVE IInv' /\ (AsciiOnly => ~panicked')
<1>1. history' = Submitted(history, line)
  BY DEF Enter, Submitted
<1>2. history' \in Histories /\ Len(history') > 0 /\ At0(history', 0) = line
  BY <1>1, SubmittedIsNewest DEF IInv
<1>3. line' = << >> /\ saved_line' = << >> /\ cursor' = 0 /\ history_index' = None
      /\ result' = <<line>>
  BY <1>2 DEF Enter
<1>4. panicked' \in BOOLEAN /\ (AsciiOnly => ~panicked')
  BY AsciiIsUtf8 DEF Enter
<1>5. cursor' \in 0..Len(line')
  BY <1>3
<1>6. result' = << >> \/ \E s \in Lines : result' = <<s>>
  BY <1>3 DEF IInv
<1> QED BY <1>2, <1>3, <1>4, <1>5, <1>6, EmptyLine DEF IInv

LEMMA BackspaceKeepsInv ==
    ASSUME IInv, Backspace PROVE IInv' /\ (AsciiOnly => ~panicked')
<1>1. cursor - 1 \in 0..(Len(line) - 1)
  BY Lengths DEF IInv, Backspace
<1>2. line' \in Lines /\ Len(line') = Len(line) - 1
  BY <1>1, RemoveFits DEF IInv, Backspace
<1>3. cursor' \in 0..Len(line') /\ SliceInBounds(line', cursor')
  BY <1>1, <1>2, Lengths DEF IInv, Backspace, SliceInBounds
<1>4. result' = << >> /\ UNCHANGED <<saved_line, history_index, history>>
  BY DEF Backspace
<1>5. panicked' \in BOOLEAN /\ (AsciiOnly => ~panicked')
  BY <1>3, AsciiIsUtf8 DEF Backspace
<1> QED BY <1>2, <1>3, <1>4, <1>5 DEF IInv

LEMMA EscKeepsInv == ASSUME IInv, Esc PROVE IInv' /\ ~panicked'
<1>1. cursor' \in 0..Len(line')
  BY DEF Esc
<1> QED BY <1>1, EmptyLine DEF IInv, Esc

\* The cursor goes to the end of the line that is recalled.
LEMMA RecallKeepsLine ==
    ASSUME NEW entry \in Lines, NEW n, Recall(entry, n)
    PROVE  /\ line' \in Lines /\ cursor' \in 0..Len(line') /\ result' = << >>
           /\ panicked' \in BOOLEAN /\ (AsciiOnly => ~panicked')
<1>1. line' = entry /\ cursor' = Len(entry) /\ result' = << >>
  BY DEF Recall
<1>2. Len(entry) \in Nat
  BY LinesAreSeqs
<1>3. panicked' \in BOOLEAN /\ (AsciiOnly => ~panicked')
  BY AsciiIsUtf8 DEF Recall
<1> QED BY <1>1, <1>2, <1>3

LEMMA EntryIsLine ==
    ASSUME IInv, NEW i \in 0..(Len(history) - 1) PROVE At0(history, i) \in Lines
  BY Lengths DEF IInv, Histories, At0

LEMMA ArrowUpKeepsInv == ASSUME IInv, ArrowUp PROVE IInv' /\ (AsciiOnly => ~panicked')
<1>1. history # << >> /\ history_index # Len(history) - 1
  BY DEF ArrowUp, NoOlder
<1>2. Len(history) > 0
  BY <1>1, Lengths, EmptySeq DEF IInv, Histories
<1>3. history_index' \in 0..(Len(history) - 1)
  BY <1>1, <1>2, Lengths DEF IInv, ArrowUp, None
<1>4. At0(history, history_index') \in Lines
  BY <1>3, EntryIsLine
<1>5. PICK n : Recall(At0(history, history_index'), n)
  BY DEF ArrowUp
<1>6. /\ line' \in Lines /\ cursor' \in 0..Len(line') /\ result' = << >>
      /\ panicked' \in BOOLEAN /\ (AsciiOnly => ~panicked')
  BY <1>4, <1>5, RecallKeepsLine
<1>7. saved_line' \in Lines /\ history' = history
  BY DEF IInv, ArrowUp
<1> QED BY <1>3, <1>6, <1>7 DEF IInv

LEMMA ArrowDownKeepsInv ==
    ASSUME IInv, ArrowDown PROVE IInv' /\ (AsciiOnly => ~panicked')
<1>1. history_index \in 0..(Len(history) - 1) /\ UNCHANGED <<saved_line, history>>
  BY DEF IInv, ArrowDown
<1>2. history_index' \in {None} \cup 0..(Len(history) - 1)
  BY <1>1, Lengths DEF ArrowDown
<1>3. PICK entry \in Lines : Recall(entry, Len(line))
  <2>1. CASE history_index = 0
    BY <2>1 DEF IInv, ArrowDown
  <2>2. CASE history_index # 0
    <3>1. history_index - 1 \in 0..(Len(history) - 1)
      BY <1>1, <2>2, Lengths
    <3>2. At0(history, history_index - 1) \in Lines
      BY <3>1, EntryIsLine
    <3> QED BY <2>2, <3>2 DEF ArrowDown
  <2> QED BY <2>1, <2>2
<1>4. /\ line' \in Lines /\ cursor' \in 0..Len(line') /\ result' = << >>
      /\ panicked' \in BOOLEAN /\ (AsciiOnly => ~panicked')
  BY <1>3, RecallKeepsLine
<1> QED BY <1>1, <1>2, <1>4 DEF IInv

LEMMA ArrowRightKeepsInv == ASSUME IInv, ArrowRight PROVE IInv' /\ ~panicked'
<1>1. cursor' \in 0..Len(line) /\ InBounds(line, cursor' - 1)
  BY Lengths DEF IInv, ArrowRight, InBounds
<1>2. panicked' = ~InBounds(line, cursor' - 1)
  BY DEF ArrowRight
<1>3. ~panicked'
  BY <1>1, <1>2
<1>4. result' = << >> /\ UNCHANGED <<line, saved_line, history_index, history>>
  BY DEF ArrowRight
<1>5. panicked' \in BOOLEAN
  BY <1>2
<1> QED BY <1>1, <1>3, <1>4, <1>5 DEF IInv

LEMMA ArrowLeftKeepsInv == ASSUME IInv, ArrowLeft PROVE IInv' /\ ~panicked'
<1>1. cursor' \in 0..Len(line)
  BY Lengths DEF IInv, ArrowLeft
<1>2. result' = << >> /\ ~panicked
      /\ UNCHANGED <<line, saved_line, history_index, history, panicked>>
  BY DEF ArrowLeft
<1> QED BY <1>1, <1>2 DEF IInv

LEMMA Step ==
    ASSUME IInv, [Next]_vars
    PROVE  IInv' /\ (AsciiOnly /\ ~panicked => ~panicked')
<1>1. CASE \/ Tab \/ BackspaceAtStart \/ ArrowUpAtOldest \/ ArrowDownAtDraft
           \/ ArrowRightAtEnd \/ ArrowLeftAtStart \/ \E ch \in Chars : ByteWhenFull(ch)
  <2>1. Refuse
    BY <1>1 DEF Tab, BackspaceAtStart, ArrowUpAtOldest, ArrowDownAtDraft, ArrowRightAtEnd,
                ArrowLeftAtStart, ByteWhenFull
  <2> QED BY <2>1, RefuseKeepsInv
<1>2. CASE \E ch \in Chars : ByteAtEnd(ch) \/ ByteInside(ch)
  BY <1>2, ByteAtEndKeepsInv, ByteInsideKeepsInv
<1>3. CASE Enter \/ Backspace \/ Esc
  BY <1>3, EnterKeepsInv, BackspaceKeepsInv, EscKeepsInv
<1>4. CASE ArrowUp \/ ArrowDown \/ ArrowRight \/ ArrowLeft
  BY <1>4, ArrowUpKeepsInv, ArrowDownKeepsInv, ArrowRightKeepsInv, ArrowLeftKeepsInv
<1>5. CASE UNCHANGED vars
  BY <1>5 DEF vars, editorVars, IInv
<1> QED BY <1>1, <1>2, <1>3, <1>4, <1>5 DEF Next

LEMMA InitInv == Init => IInv /\ NeverPanics
<1> SUFFICES ASSUME Init PROVE IInv /\ NeverPanics
  OBVIOUS
<1>1. << >> \in Histories
  BY EmptySeq, CapacityAssumption DEF Histories
<1>2. cursor \in 0..Len(line)
  BY DEF Init
<1> QED BY <1>1, <1>2, EmptyLine DEF Init, IInv, NeverPanics

LEMMA Invariant == Spec => []IInv
<1>1. IInv /\ [Next]_vars => IInv'
  BY Step
<1> QED BY <1>1, InitInv, PTL DEF Spec

-----------------------------------------------------------------------------
\* The cursor never leaves the line, nor the history index the history, whatever
\* bytes and keys come in whatever order, for lines and histories of any size.
THEOREM IndicesStayValid == Spec => []IndicesValid
<1>1. IInv => IndicesValid
  <2> SUFFICES ASSUME IInv PROVE IndicesValid
    OBVIOUS
  <2>1. cursor <= Len(line) /\ history_index < Len(history)
    BY Lengths DEF IInv, None
  <2> QED BY <2>1 DEF IndicesValid
<1> QED BY <1>1, Invariant, PTL

\* With ASCII bytes process() never panics: neither an index, nor a slice, nor an
\* expectation of UTF-8 fails.
THEOREM AsciiNeverPanics == ASSUME AsciiOnly PROVE Spec => []NeverPanics
<1>1. IInv /\ NeverPanics /\ [Next]_vars => NeverPanics'
  BY Step DEF NeverPanics
<1> QED BY <1>1, InitInv, Invariant, PTL DEF Spec

\* Lines, draft, history and what Enter returned keep their types and capacities.
THEOREM TypeCorrect == Spec => []TypeOK
<1>1. IInv => TypeOK
  <2> SUFFICES ASSUME IInv PROVE TypeOK
    OBVIOUS
  <2>1. cursor \in 0..LINE_LEN /\ history_index \in {None} \cup 0..(HISTORY_SIZE - 1)
    BY Lengths, CapacityAssumption DEF IInv
  <2>2. \A i \in DOMAIN history : history[i] \in Lines
    BY DEF IInv, Histories
  <2>3. Len(result) <= 1 /\ \A i \in DOMAIN result : result[i] \in Lines
    <3>1. CASE result = << >>
      BY <3>1
    <3>2. CASE result # << >>
      <4>1. PICK s \in Lines : result = <<s>>
        BY <3>2 DEF IInv
      <4>2. Len(<<s>>) = 1 /\ DOMAIN <<s>> = 1..1 /\ <<s>>[1] = s
        OBVIOUS
      <4> QED BY <4>1, <4>2
    <3> QED BY <3>1, <3>2
  <2> QED BY <2>1, <2>2, <2>3, Lengths DEF IInv, TypeOK
<1> QED BY <1>1, Invariant, PTL

-----------------------------------------------------------------------------
(* The line editor implements the HistoryEditor, with any bytes. *)

LEMMA ConsFacts ==
    ASSUME NEW S, NEW s \in Seq(S), NEW e \in S
    PROVE  /\ Cons(e, s) \in Seq(S) /\ Len(Cons(e, s)) = Len(s) + 1
           /\ \A j \in 1..(Len(s) + 1) :
                Cons(e, s)[j] = IF j = 1 THEN e ELSE s[j - 1]
<1>1. <<e>> \in Seq(S) /\ Len(<<e>>) = 1 /\ <<e>>[1] = e
  OBVIOUS
<1>2. Len(s) \in Nat
  BY LenProperties
<1>3. /\ <<e>> \o s \in Seq(S) /\ Len(<<e>> \o s) = 1 + Len(s)
      /\ \A j \in 1..(1 + Len(s)) :
           (<<e>> \o s)[j] = IF j <= 1 THEN <<e>>[j] ELSE s[j - 1]
  BY <1>1, ConcatProperties
<1> DEFINE t == <<e>> \o s
<1> HIDE DEF t
<1>4. ASSUME NEW j \in 1..(Len(s) + 1)
      PROVE  t[j] = IF j = 1 THEN e ELSE s[j - 1]
  <2>1. CASE j = 1
    BY <2>1, <1>1, <1>2, <1>3 DEF t
  <2>2. CASE j # 1
    BY <2>2, <1>2, <1>3 DEF t
  <2> QED BY <2>1, <2>2
<1> QED BY <1>2, <1>3, <1>4 DEF t, Cons

LEMMA ConsUndone ==
    ASSUME NEW S, NEW s \in Seq(S), NEW e \in S
    PROVE  Cons(e, s) # << >> /\ Head(Cons(e, s)) = e /\ Tail(Cons(e, s)) = s
<1> DEFINE c == Cons(e, s)
<1>1. /\ c \in Seq(S) /\ Len(c) = Len(s) + 1 /\ Len(s) \in Nat
      /\ \A j \in 1..(Len(s) + 1) : c[j] = IF j = 1 THEN e ELSE s[j - 1]
  BY ConsFacts, LenProperties
<1> HIDE DEF c
<1>2. c # << >> /\ Head(c) = e
  BY <1>1, EmptySeq, HeadTailProperties
<1>3. Tail(c) \in Seq(S) /\ Len(Tail(c)) = Len(s)
      /\ \A j \in 1..Len(s) : Tail(c)[j] = c[j + 1]
  BY <1>1, <1>2, HeadTailProperties
<1>4. ASSUME NEW j \in 1..Len(s) PROVE Tail(c)[j] = s[j]
  <2>1. j + 1 \in 1..(Len(s) + 1) /\ j + 1 # 1 /\ (j + 1) - 1 = j
    BY <1>1
  <2> QED BY <1>1, <1>3, <2>1
<1>5. Tail(c) = s
  BY <1>3, <1>4, SeqEqual
<1> QED BY <1>2, <1>5 DEF c

\* Where the entries of the history go when a line is submitted.
LEMMA SubmittedFacts ==
    ASSUME NEW h \in Histories, NEW s \in Lines
    PROVE  LET n == IF Len(h) < HISTORY_SIZE THEN Len(h) + 1 ELSE HISTORY_SIZE
               t == Submitted(h, s)
           IN /\ t \in Seq(Lines) /\ Len(t) = n
              /\ \A j \in 1..n : t[j] = IF j = 1 THEN s ELSE h[j - 1]
<1> DEFINE old == IF IsFull(h, HISTORY_SIZE) THEN VecPop(h) ELSE h
           n == IF Len(h) < HISTORY_SIZE THEN Len(h) + 1 ELSE HISTORY_SIZE
<1>1. /\ h \in Seq(Lines) /\ Len(h) \in Nat /\ Len(h) <= HISTORY_SIZE
      /\ HISTORY_SIZE \in Nat \ {0}
  BY CapacityAssumption DEF Histories
<1>2. /\ old \in Seq(Lines) /\ Len(old) = n - 1
      /\ \A j \in 1..(n - 1) : old[j] = h[j]
  <2>1. CASE IsFull(h, HISTORY_SIZE)
    <3>1. /\ Len(h) > 0 /\ old = SubSeq(h, 1, Len(h) - 1) /\ n = HISTORY_SIZE
          /\ Len(h) = HISTORY_SIZE
      BY <1>1, <2>1 DEF IsFull, VecPop, Front
    <3>2. /\ SubSeq(h, 1, Len(h) - 1) \in Seq(Lines)
          /\ Len(SubSeq(h, 1, Len(h) - 1)) = Len(h) - 1
          /\ \A j \in 1..(Len(h) - 1) : SubSeq(h, 1, Len(h) - 1)[j] = h[j]
      <4> DEFINE m == Len(h) - 1
      <4>1. m \in 0..Len(h)
        BY <1>1, <3>1
      <4> HIDE DEF m
      <4>2. /\ SubSeq(h, 1, m) \in Seq(Lines) /\ Len(SubSeq(h, 1, m)) = m
            /\ \A j \in 1..m : SubSeq(h, 1, m)[j] = h[j]
        BY <1>1, <4>1, CutFacts
      <4> QED BY <4>2 DEF m
    <3> QED BY <3>1, <3>2
  <2>2. CASE ~IsFull(h, HISTORY_SIZE)
    <3>1. Len(h) < HISTORY_SIZE
      BY <1>1, <2>2 DEF IsFull
    <3> QED BY <1>1, <2>2, <3>1
  <2> QED BY <2>1, <2>2
<1>3. n \in Nat /\ n <= HISTORY_SIZE /\ n > 0
  BY <1>1
<1>4. Submitted(h, s) = VecInsert(old, HISTORY_SIZE, 0, s)
  BY DEF Submitted
<1> HIDE DEF old, n
<1>5. VecInsert(old, HISTORY_SIZE, 0, s) = InsertAt(old, 1, s)
  BY <1>1, <1>2, <1>3 DEF VecInsert
<1>6. /\ InsertAt(old, 1, s) \in Seq(Lines)
      /\ Len(InsertAt(old, 1, s)) = Len(old) + 1
      /\ \A j \in 1..(Len(old) + 1) :
           InsertAt(old, 1, s)[j] = IF j < 1 THEN old[j]
                                    ELSE IF j = 1 THEN s ELSE old[j - 1]
  <2> DEFINE i == 1
  <2>1. i \in 1..(Len(old) + 1)
    BY <1>2, <1>3
  <2> HIDE DEF i
  <2>2. /\ InsertAt(old, i, s) \in Seq(Lines)
        /\ Len(InsertAt(old, i, s)) = Len(old) + 1
        /\ \A j \in 1..(Len(old) + 1) :
             InsertAt(old, i, s)[j] = IF j < i THEN old[j]
                                      ELSE IF j = i THEN s ELSE old[j - 1]
    <3>1. old \in Seq(Lines) /\ s \in Lines
      BY <1>2
    <3> QED BY ONLY <2>1, <3>1, InsertAtFacts
  <2> QED BY <2>2 DEF i
<1> DEFINE t == Submitted(h, s)
<1>7. t = InsertAt(old, 1, s)
  BY <1>4, <1>5
<1> HIDE DEF t
<1>8. t \in Seq(Lines) /\ Len(t) = n
  BY <1>2, <1>3, <1>6, <1>7
<1>9. ASSUME NEW j \in 1..n
      PROVE  t[j] = IF j = 1 THEN s ELSE h[j - 1]
  <2>1. j \in 1..(Len(old) + 1)
    BY <1>2, <1>3
  <2>2. CASE j = 1
    BY <1>6, <1>7, <2>1, <2>2
  <2>3. CASE j # 1
    <3>1. j - 1 \in 1..(n - 1) /\ ~(j < 1)
      BY <1>3, <2>3
    <3> QED BY <1>2, <1>6, <1>7, <2>1, <2>3, <3>1
  <2> QED BY <2>2, <2>3
<1> QED BY <1>8, <1>9 DEF t, n

\* The full history loses its oldest entry, and only that.
LEMMA SubmittedIsBounded ==
    ASSUME NEW h \in Histories, NEW s \in Lines
    PROVE  Submitted(h, s) = User!Bounded(Cons(s, h), HISTORY_SIZE)
<1> DEFINE c == Cons(s, h)
           n == IF Len(h) < HISTORY_SIZE THEN Len(h) + 1 ELSE HISTORY_SIZE
           t == Submitted(h, s)
<1>1. /\ h \in Seq(Lines) /\ Len(h) \in Nat /\ Len(h) <= HISTORY_SIZE
      /\ HISTORY_SIZE \in Nat \ {0}
  BY CapacityAssumption DEF Histories
<1>2. /\ c \in Seq(Lines) /\ Len(c) = Len(h) + 1
      /\ \A j \in 1..(Len(h) + 1) : c[j] = IF j = 1 THEN s ELSE h[j - 1]
  <2>1. h \in Seq(Lines) /\ s \in Lines
    BY <1>1
  <2> QED BY ONLY <2>1, ConsFacts
<1> HIDE DEF c
<1>3. User!Bounded(c, HISTORY_SIZE) = SubSeq(c, 1, n)
  <2>1. (IF Len(c) < HISTORY_SIZE THEN Len(c) ELSE HISTORY_SIZE) = n
    BY <1>1, <1>2
  <2> QED BY <2>1 DEF User!Bounded
<1>4. /\ t \in Seq(Lines) /\ Len(t) = n
      /\ \A j \in 1..n : t[j] = IF j = 1 THEN s ELSE h[j - 1]
  BY SubmittedFacts
<1>5. n \in 0..Len(c) /\ n <= Len(h) + 1
  BY <1>1, <1>2
<1> HIDE DEF n, t
<1>6. /\ SubSeq(c, 1, n) \in Seq(Lines) /\ Len(SubSeq(c, 1, n)) = n
      /\ \A j \in 1..n : SubSeq(c, 1, n)[j] = c[j]
  BY <1>2, <1>5, CutFacts
<1>7. ASSUME NEW j \in 1..n
      PROVE  t[j] = SubSeq(c, 1, n)[j]
  <2>1. j \in 1..(Len(h) + 1)
    BY <1>1, <1>5
  <2> QED BY <1>2, <1>4, <1>6, <2>1
<1>8. t = SubSeq(c, 1, n)
  BY <1>4, <1>6, <1>7, SeqEqual
<1> QED BY <1>3, <1>8 DEF c, t

\* The caret cuts the line in two.
LEMMA CaretCuts ==
    ASSUME IInv
    PROVE  /\ Before \in Seq(Chars) /\ Len(Before) = cursor
           /\ After \in Seq(Chars) /\ Len(After) = Len(line) - cursor
           /\ User!text = line
           /\ line \in Seq(Chars) /\ cursor \in 0..Len(line)
<1>1. line \in Seq(Chars) /\ cursor \in 0..Len(line)
  BY LinesAreSeqs DEF IInv
<1> QED BY <1>1, CutFacts DEF Before, After, User!text

LEMMA EditOnly ==
    ASSUME UNCHANGED <<saved_line, history_index, history>>
    PROVE  User!Edit
BY DEF User!Edit, NewerEntries, OlderEntries, Position, Draft

LEMMA RefuseStutters ==
    ASSUME Refuse
    PROVE  UNCHANGED <<Before, After, NewerEntries, OlderEntries, history>>
BY DEF Refuse, editorVars, Before, After, NewerEntries, OlderEntries, Position, Draft

\* The byte goes in at the caret.
LEMMA InsertTypes ==
    ASSUME IInv, NEW ch \in Chars, ~IsFull(line, LINE_LEN),
           line' = InsertAt(line, cursor + 1, ch), cursor' = cursor + 1,
           UNCHANGED <<saved_line, history_index, history>>
    PROVE  User!Type
<1>1. Before' = Append(Before, ch) /\ After' = After
  <2>1. /\ SubSeq(line', 1, cursor + 1) = Append(SubSeq(line, 1, cursor), ch)
        /\ SubSeq(line', cursor + 2, Len(line')) = SubSeq(line, cursor + 1, Len(line))
    <3>1. line \in Seq(Chars) /\ cursor \in 0..Len(line)
      BY CaretCuts
    <3> DEFINE t == InsertAt(line, cursor + 1, ch)
    <3>2. /\ SubSeq(t, 1, cursor + 1) = Append(SubSeq(line, 1, cursor), ch)
          /\ SubSeq(t, cursor + 2, Len(t)) = SubSeq(line, cursor + 1, Len(line))
      BY <3>1, InsertAtCut
    <3>3. line' = t
      OBVIOUS
    <3> HIDE DEF t
    <3> QED BY <3>2, <3>3
  <2>2. (cursor + 1) + 1 = cursor + 2
    BY CaretCuts
  <2> QED BY <2>1, <2>2 DEF Before, After
<1>2. Len(User!text) < LINE_LEN
  BY CaretCuts, Lengths, CapacityAssumption DEF IsFull
<1>3. User!Edit
  BY EditOnly
<1> QED BY <1>1, <1>2, <1>3 DEF User!Type

LEMMA ByteTypes ==
    ASSUME IInv, NEW ch \in Chars, ByteAtEnd(ch) \/ ByteInside(ch)
    PROVE  User!Type
<1>0. Len(line) \in Nat /\ Len(line) <= LINE_LEN /\ LINE_LEN \in Nat
  BY Lengths, CapacityAssumption
<1>1. CASE ByteAtEnd(ch)
  <2>1. /\ ~IsFull(line, LINE_LEN) /\ cursor = Len(line)
        /\ cursor' = cursor + 1 /\ line' = VecPush(line, LINE_LEN, ch)
        /\ UNCHANGED <<saved_line, history_index, history>>
    BY <1>1 DEF ByteAtEnd
  <2>2. line' = Append(line, ch)
    BY <1>0, <2>1 DEF VecPush, IsFull
  <2>3. line \in Seq(Chars)
    BY CaretCuts
  <2>4. InsertAt(line, Len(line) + 1, ch) = Append(line, ch)
    <3>1. SubSeq(line, 1, (Len(line) + 1) - 1) = line
      <4>1. (Len(line) + 1) - 1 = Len(line)
        BY <1>0
      <4>2. SubSeq(line, 1, Len(line)) = line
        BY <2>3, SubSeqFull
      <4> QED BY <4>1, <4>2
    <3>2. SubSeq(line, Len(line) + 1, Len(line)) = << >>
      BY <1>0, SubSeqEmpty
    <3>3. line \o <<ch>> = Append(line, ch)
      BY <2>3, AppendIsConcat
    <3>4. Append(line, ch) \o << >> = Append(line, ch)
      <4>1. Append(line, ch) \in Seq(Chars)
        BY <2>3, AppendProperties
      <4> QED BY <4>1, ConcatEmptySeq
    <3> QED BY <3>1, <3>2, <3>3, <3>4 DEF InsertAt
  <2> QED BY <2>1, <2>2, <2>4, InsertTypes
<1>2. CASE ByteInside(ch)
  <2>1. /\ ~IsFull(line, LINE_LEN) /\ cursor' = cursor + 1
        /\ line' = VecInsert(line, LINE_LEN, cursor, ch)
        /\ UNCHANGED <<saved_line, history_index, history>>
    BY <1>2 DEF ByteInside
  <2>2. line' = InsertAt(line, cursor + 1, ch)
    BY <1>0, <2>1, CaretCuts DEF VecInsert, IsFull
  <2> QED BY <2>1, <2>2, InsertTypes
<1> QED BY <1>1, <1>2

LEMMA BackspaceErases ==
    ASSUME IInv, Backspace
    PROVE  User!Erase
<1>1. /\ cursor \in 1..Len(line) /\ line \in Seq(Chars) /\ Len(line) \in Nat
      /\ cursor' = cursor - 1 /\ line' = VecRemove(line, cursor - 1)
      /\ UNCHANGED <<saved_line, history_index, history>>
  BY CaretCuts, Lengths DEF Backspace
<1>2. line' = RemoveAt(line, cursor)
  BY <1>1 DEF VecRemove
<1>3. /\ SubSeq(line', 1, cursor - 1) = SubSeq(line, 1, cursor - 1)
      /\ SubSeq(line', cursor, Len(line')) = SubSeq(line, cursor + 1, Len(line))
  BY <1>1, <1>2, RemoveAtCut
<1>4. Before # << >> /\ Front(Before) = SubSeq(line, 1, cursor - 1)
  BY <1>1, MoveCut DEF Before
<1>5. Before' = Front(Before) /\ After' = After
  <2>1. (cursor - 1) + 1 = cursor
    BY <1>1
  <2> QED BY <1>1, <1>3, <1>4, <2>1 DEF Before, After
<1> QED BY <1>1, <1>4, <1>5, EditOnly DEF User!Erase, User!Front, Front

LEMMA ArrowLeftMoves ==
    ASSUME IInv, ArrowLeft
    PROVE  User!MoveLeft
<1>1. /\ cursor \in 1..Len(line) /\ line \in Seq(Chars) /\ cursor' = cursor - 1
      /\ UNCHANGED <<line, saved_line, history_index, history>>
  BY CaretCuts, Lengths DEF ArrowLeft
<1>2. /\ Before # << >> /\ Front(Before) = SubSeq(line, 1, cursor - 1)
      /\ Last(Before) = line[cursor]
      /\ Cons(line[cursor], After) = SubSeq(line, cursor, Len(line))
  BY <1>1, MoveCut DEF Before, After
<1>3. Before' = Front(Before) /\ After' = Cons(Last(Before), After)
  <2>1. (cursor - 1) + 1 = cursor
    BY <1>1
  <2> QED BY <1>1, <1>2, <2>1 DEF Before, After
<1> QED BY <1>1, <1>2, <1>3, EditOnly DEF User!MoveLeft, User!Front, Front,
                 User!Last, Last, User!Cons, Cons

LEMMA ArrowRightMoves ==
    ASSUME IInv, ArrowRight
    PROVE  User!MoveRight
<1> DEFINE c == cursor + 1
<1>1. /\ c \in 1..Len(line) /\ line \in Seq(Chars) /\ cursor' = c /\ c - 1 = cursor
      /\ UNCHANGED <<line, saved_line, history_index, history>>
  BY CaretCuts, Lengths DEF ArrowRight
<1>2. After = SubSeq(line, c, Len(line)) /\ Before = SubSeq(line, 1, c - 1)
  BY <1>1 DEF After, Before
<1>3. /\ Append(SubSeq(line, 1, c - 1), line[c]) = SubSeq(line, 1, c)
      /\ SubSeq(line, c, Len(line)) # << >>
      /\ Head(SubSeq(line, c, Len(line))) = line[c]
      /\ Tail(SubSeq(line, c, Len(line))) = SubSeq(line, c + 1, Len(line))
  <2> HIDE DEF c
  <2> QED BY <1>1, MoveCut
<1>4. Before' = SubSeq(line, 1, c) /\ After' = SubSeq(line, c + 1, Len(line))
  BY <1>1 DEF Before, After
<1> HIDE DEF c
<1> QED BY <1>1, <1>2, <1>3, <1>4, EditOnly DEF User!MoveRight

\* With the caret at the end there is nothing after it.
LEMMA AtEnd ==
    ASSUME IInv', cursor' = Len(line')
    PROVE  User!Show(line')
<1>1. line' \in Seq(Chars) /\ Len(line') \in Nat
  BY LinesAreSeqs DEF IInv
<1>2. SubSeq(line', 1, Len(line')) = line'
  BY <1>1, SubSeqFull
<1>3. SubSeq(line', Len(line') + 1, Len(line')) = << >>
  BY <1>1, SubSeqEmpty
<1> QED BY <1>2, <1>3 DEF User!Show, Before, After

\* While the draft is on display nothing is newer, and the whole history older.
LEMMA DraftOnDisplay ==
    ASSUME IInv', history_index' = None
    PROVE  NewerEntries' = << >> /\ OlderEntries' = history'
<1>1. Position' = 0
  BY DEF Position, None
<1>2. NewerEntries' = << >>
  BY <1>1 DEF NewerEntries
<1>3. history' \in Seq(Lines)
  BY DEF IInv, Histories
<1>4. OlderEntries' = SubSeq(history', 1, Len(history'))
  BY <1>1 DEF OlderEntries
<1> QED BY <1>2, <1>3, <1>4, SubSeqFull

LEMMA EscClears ==
    ASSUME IInv, IInv', Esc
    PROVE  User!Clear
<1>1. /\ line' = << >> /\ cursor' = 0 /\ history_index' = None /\ history' = history
  BY DEF Esc
<1>2. User!Show(<< >>)
  BY <1>1, AtEnd
<1>3. NewerEntries' = << >> /\ OlderEntries' = history'
  BY <1>1, DraftOnDisplay
<1> QED BY <1>1, <1>2, <1>3 DEF User!Clear

LEMMA EnterSubmits ==
    ASSUME IInv, IInv', Enter
    PROVE  User!Submit
<1>1. /\ line' = << >> /\ cursor' = 0 /\ history_index' = None
      /\ history' = Submitted(history, line)
  BY DEF Enter, Submitted
<1>2. User!Show(<< >>)
  BY <1>1, AtEnd
<1>3. NewerEntries' = << >> /\ OlderEntries' = history'
  BY <1>1, DraftOnDisplay
<1>4. Submitted(history, line) = User!Bounded(Cons(line, history), HISTORY_SIZE)
  BY SubmittedIsBounded DEF IInv
<1>5. User!text = line
  BY CaretCuts
<1>6. User!Cons(line, history) = Cons(line, history)
  BY DEF User!Cons, Cons
<1> QED BY <1>1, <1>2, <1>3, <1>4, <1>5, <1>6 DEF User!Submit

-----------------------------------------------------------------------------
(* Browsing: one step back puts what was on display on the newer entries. *)

NewerOf(h, p, d) == [i \in 1..p |-> IF i = p THEN d ELSE h[p - i]]

LEMMA NewerGrows ==
    ASSUME NEW h \in Seq(Lines), NEW p \in 0..(Len(h) - 1), NEW d \in Lines
    PROVE  /\ NewerOf(h, p, d) \in Seq(Lines) /\ Len(NewerOf(h, p, d)) = p
           /\ NewerOf(h, p + 1, d) = Cons(IF p = 0 THEN d ELSE h[p], NewerOf(h, p, d))
<1> DEFINE n == NewerOf(h, p, d)
           q == p + 1
           m == NewerOf(h, q, d)
           e == IF p = 0 THEN d ELSE h[p]
           c == Cons(e, n)
<1>0. Len(h) \in Nat /\ p \in Nat /\ \A k \in 1..Len(h) : h[k] \in Lines
  BY LenProperties, ElementOfSeq
<1>1. n \in Seq(Lines) /\ Len(n) = p /\ \A i \in 1..p : n[i] = IF i = p THEN d ELSE h[p - i]
  <2>1. ASSUME NEW i \in 1..p
        PROVE  (IF i = p THEN d ELSE h[p - i]) \in Lines
    BY <1>0
  <2>2. n \in [1..p -> Lines]
    BY <2>1 DEF NewerOf
  <2>3. n \in Seq(Lines) /\ Len(n) = p
    BY <1>0, <2>2
  <2> QED BY <2>3 DEF NewerOf
<1>2. m \in Seq(Lines) /\ Len(m) = q /\ \A i \in 1..q : m[i] = IF i = q THEN d ELSE h[q - i]
  <2>1. ASSUME NEW i \in 1..q
        PROVE  (IF i = q THEN d ELSE h[q - i]) \in Lines
    BY <1>0
  <2>2. m \in [1..q -> Lines]
    BY <2>1 DEF NewerOf
  <2>3. m \in Seq(Lines) /\ Len(m) = q
    BY <1>0, <2>2
  <2> QED BY <2>3 DEF NewerOf
<1>3. e \in Lines
  BY <1>0
<1> HIDE DEF n, m, e
<1>4. c \in Seq(Lines) /\ Len(c) = p + 1
      /\ \A j \in 1..(p + 1) : c[j] = IF j = 1 THEN e ELSE n[j - 1]
  <2>1. n \in Seq(Lines) /\ Len(n) = p
    BY <1>1
  <2>2. /\ Cons(e, n) \in Seq(Lines) /\ Len(Cons(e, n)) = Len(n) + 1
        /\ \A j \in 1..(Len(n) + 1) : Cons(e, n)[j] = IF j = 1 THEN e ELSE n[j - 1]
    BY ONLY <1>3, <2>1, ConsFacts
  <2> QED BY <2>1, <2>2
<1> HIDE DEF c
<1>5. ASSUME NEW i \in 1..q
      PROVE  m[i] = c[i]
  <2>1. CASE i = 1
    <3>1. c[i] = e /\ m[i] = IF p = 0 THEN d ELSE h[p]
      BY <1>0, <1>2, <1>4, <2>1
    <3> QED BY <3>1 DEF e
  <2>2. CASE i # 1
    <3>1. i - 1 \in 1..p /\ p - (i - 1) = q - i /\ (i - 1 = p <=> i = q)
      BY <1>0, <2>2
    <3>2. c[i] = n[i - 1]
      BY <1>4, <2>2
    <3>3. n[i - 1] = IF i - 1 = p THEN d ELSE h[p - (i - 1)]
      BY <1>1, <3>1
    <3> QED BY <1>2, <3>1, <3>2, <3>3
  <2> QED BY <2>1, <2>2
<1>6. m = c
  BY <1>2, <1>4, <1>5, SeqEqual
<1> QED BY <1>1, <1>6 DEF n, m, c, e

\* The entries the user sees, as the state has them.
LEMMA Browsing ==
    ASSUME IInv
    PROVE  /\ history \in Seq(Lines) /\ Len(history) \in Nat
           /\ Position \in 0..Len(history) /\ Draft \in Lines
           /\ NewerEntries = NewerOf(history, Position, Draft)
           /\ OlderEntries = SubSeq(history, Position + 1, Len(history))
<1>1. history \in Seq(Lines) /\ Len(history) \in Nat
  BY DEF IInv, Histories
<1>2. Position \in 0..Len(history)
  BY <1>1 DEF IInv, Position, None
<1>3. Draft \in Lines
  BY EmptyLine DEF IInv, Draft
<1> QED BY <1>1, <1>2, <1>3 DEF NewerEntries, NewerOf, OlderEntries

LEMMA ArrowUpOlder ==
    ASSUME IInv, IInv', ArrowUp
    PROVE  User!Older
<1> DEFINE p == Position
           q == p + 1
<1>1. /\ history # << >> /\ history_index # Len(history) - 1
      /\ history_index' = IF history_index = None THEN 0 ELSE history_index + 1
      /\ saved_line' = IF history_index = None THEN line ELSE saved_line
      /\ history' = history
      /\ line' = At0(history, history_index') /\ cursor' = Len(At0(history, history_index'))
  BY DEF ArrowUp, NoOlder, Recall
<1>2. /\ history \in Seq(Lines) /\ Len(history) \in Nat /\ p \in 0..Len(history)
      /\ Draft \in Lines /\ NewerEntries = NewerOf(history, p, Draft)
      /\ OlderEntries = SubSeq(history, q, Len(history))
  BY Browsing
<1>3. /\ q \in 1..Len(history) /\ p \in 0..(Len(history) - 1) /\ Position' = q
      /\ history_index' = p
  <2>1. Len(history) > 0
    BY <1>1, <1>2, EmptySeq
  <2> QED BY <1>1, <1>2, <2>1 DEF IInv, Position, None
<1>4. /\ NewerEntries' = NewerOf(history, q, Draft')
      /\ OlderEntries' = SubSeq(history, q + 1, Len(history))
  BY <1>1, <1>3 DEF NewerEntries, NewerOf, OlderEntries
<1>5. line' = history[q] /\ cursor' = Len(line')
  BY <1>1, <1>3 DEF At0
<1>6. p = 0 <=> history_index = None
  BY DEF IInv, Position, None
<1>7. Draft' = IF p = 0 THEN line ELSE Draft
  BY <1>1, <1>3, <1>6 DEF Draft, None
<1>8. User!Show(history[q])
  BY <1>5, AtEnd
<1>9. line \in Lines
  BY DEF IInv
<1> HIDE DEF p, q
<1>10. /\ OlderEntries # << >> /\ Head(OlderEntries) = history[q]
       /\ Tail(OlderEntries) = OlderEntries'
  BY <1>2, <1>3, <1>4, MoveCut
<1>11. NewerEntries' = Cons(IF p = 0 THEN line ELSE history[p], NewerEntries)
  <2>1. CASE p = 0
    <3>1. NewerOf(history, p + 1, line) = Cons(line, NewerOf(history, p, line))
      BY <1>2, <1>3, <1>9, <2>1, NewerGrows
    <3>2. NewerOf(history, p, line) = NewerOf(history, p, Draft)
      BY <2>1 DEF NewerOf
    <3> QED BY <1>2, <1>4, <1>7, <2>1, <3>1, <3>2 DEF q
  <2>2. CASE p # 0
    <3>1. NewerOf(history, p + 1, Draft) = Cons(history[p], NewerOf(history, p, Draft))
      BY <1>2, <1>3, <2>2, NewerGrows
    <3> QED BY <1>2, <1>4, <1>7, <2>2, <3>1 DEF q
  <2> QED BY <2>1, <2>2
<1>12. Len(NewerEntries) = p /\ (NewerEntries = << >> <=> p = 0)
  <2>1. NewerEntries \in Seq(Lines) /\ Len(NewerEntries) = p
    BY <1>2, <1>3, NewerGrows
  <2> QED BY <2>1, EmptySeq
<1>13. User!text = line
  BY CaretCuts
<1> QED BY <1>1, <1>8, <1>10, <1>11, <1>12, <1>13 DEF User!Older, User!Cons, Cons

LEMMA ArrowDownNewer ==
    ASSUME IInv, IInv', ArrowDown
    PROVE  User!Newer
<1> DEFINE p == Position
           o == p - 1
<1>1. /\ history_index # None
      /\ IF history_index = 0
         THEN history_index' = None /\ line' = saved_line
         ELSE history_index' = history_index - 1 /\ line' = At0(history, history_index - 1)
      /\ cursor' = Len(line') /\ UNCHANGED <<saved_line, history>>
  BY DEF ArrowDown, Recall
<1>2. /\ history \in Seq(Lines) /\ Len(history) \in Nat /\ p \in 0..Len(history)
      /\ Draft \in Lines /\ NewerEntries = NewerOf(history, p, Draft)
      /\ OlderEntries = SubSeq(history, p + 1, Len(history))
  BY Browsing
<1>3. p \in 1..Len(history) /\ Position' = o
  <2>1. history_index \in 0..(Len(history) - 1)
    BY <1>1 DEF IInv
  <2> QED BY <1>1, <1>2, <2>1 DEF Position, None
<1>4. o \in 0..(Len(history) - 1) /\ o + 1 = p
  BY <1>2, <1>3
<1> DEFINE e == IF o = 0 THEN Draft ELSE history[o]
<1>5. line' = e
  <2>1. Draft = saved_line
    BY <1>1 DEF Draft
  <2>2. (o = 0 <=> history_index = 0) /\ history_index - 1 + 1 = o
    BY <1>1, <1>2, <1>3 DEF Position, IInv
  <2> QED BY <1>1, <2>1, <2>2 DEF At0
<1>6. NewerEntries' = NewerOf(history, o, Draft)
  <2>1. NewerEntries' = NewerOf(history, o, Draft')
    BY <1>1, <1>3 DEF NewerEntries, NewerOf
  <2>2. CASE o = 0
    BY <2>1, <2>2 DEF NewerOf
  <2>3. CASE o # 0
    <3>1. history_index' # None
      BY <1>3, <2>3 DEF Position, None
    <3> QED BY <1>1, <2>1, <3>1 DEF Draft
  <2> QED BY <2>2, <2>3
<1>7. OlderEntries' = SubSeq(history, p, Len(history))
  BY <1>1, <1>3, <1>4 DEF OlderEntries
<1>8. User!Show(e)
  BY <1>1, <1>5, AtEnd
<1> HIDE DEF p, o
<1>9. /\ NewerOf(history, o, Draft) \in Seq(Lines) /\ Len(NewerOf(history, o, Draft)) = o
      /\ NewerOf(history, p, Draft) = Cons(e, NewerOf(history, o, Draft))
  BY <1>2, <1>4, NewerGrows
<1>10. e \in Lines
  <2>1. o # 0 => o \in 1..Len(history)
    BY <1>2, <1>4
  <2> QED BY <1>2, <2>1, ElementOfSeq
<1> DEFINE n == NewerOf(history, o, Draft)
<1> HIDE DEF e, n
<1>11. n \in Seq(Lines) /\ Len(n) = o /\ NewerEntries = Cons(e, n) /\ NewerEntries' = n
  BY <1>2, <1>6, <1>9 DEF n
<1>12. NewerEntries # << >> /\ Head(NewerEntries) = e /\ Tail(NewerEntries) = n
  BY <1>10, <1>11, ConsUndone
<1>13. Len(NewerEntries) = p
  BY <1>4, <1>10, <1>11, ConsFacts
<1>14. OlderEntries' = Cons(history[p], OlderEntries)
  BY <1>2, <1>3, <1>7, MoveCut
<1> QED BY <1>1, <1>8, <1>11, <1>12, <1>13, <1>14 DEF User!Newer, User!Cons, Cons

-----------------------------------------------------------------------------
LEMMA StartMaps == Init => User!Init
<1> SUFFICES ASSUME Init PROVE User!Init
  OBVIOUS
<1>1. /\ line = << >> /\ cursor = 0 /\ history_index = None /\ history = << >>
      /\ Position = 0
  BY DEF Init, Position, None
<1>2. Before = << >> /\ After = << >> /\ OlderEntries = << >>
  BY <1>1, SubSeqEmpty DEF Before, After, OlderEntries
<1>3. NewerEntries = << >>
  BY <1>1 DEF NewerEntries
<1> QED BY <1>1, <1>2, <1>3 DEF User!Init

\* Every key is one of the user's operations, or nothing the user sees.
LEMMA StepMaps ==
    IInv /\ IInv' /\ [Next]_vars =>
        [User!Next]_<<Before, After, NewerEntries, OlderEntries, history>>
<1> SUFFICES ASSUME IInv, IInv', [Next]_vars
             PROVE  [User!Next]_<<Before, After, NewerEntries, OlderEntries, history>>
  OBVIOUS
<1>1. CASE \/ Tab \/ \E ch \in Chars : ByteWhenFull(ch)
           \/ BackspaceAtStart \/ ArrowUpAtOldest \/ ArrowDownAtDraft
           \/ ArrowRightAtEnd \/ ArrowLeftAtStart
  BY <1>1, RefuseStutters DEF Tab, ByteWhenFull, BackspaceAtStart, ArrowUpAtOldest,
     ArrowDownAtDraft, ArrowRightAtEnd, ArrowLeftAtStart
<1>2. CASE \E ch \in Chars : ByteAtEnd(ch) \/ ByteInside(ch)
  BY <1>2, ByteTypes DEF User!Next
<1>3. CASE Enter
  BY <1>3, EnterSubmits DEF User!Next
<1>4. CASE Backspace
  BY <1>4, BackspaceErases DEF User!Next
<1>5. CASE Esc
  BY <1>5, EscClears DEF User!Next
<1>6. CASE ArrowUp
  BY <1>6, ArrowUpOlder DEF User!Next
<1>7. CASE ArrowDown
  BY <1>7, ArrowDownNewer DEF User!Next
<1>8. CASE ArrowRight
  BY <1>8, ArrowRightMoves DEF User!Next
<1>9. CASE ArrowLeft
  BY <1>9, ArrowLeftMoves DEF User!Next
<1>10. CASE UNCHANGED vars
  BY <1>10 DEF vars, Before, After, NewerEntries, OlderEntries, Position, Draft
<1> QED
  BY <1>1, <1>2, <1>3, <1>4, <1>5, <1>6, <1>7, <1>8, <1>9, <1>10 DEF Next

\* process() does what the user of a line editor with a history expects: editing
\* at the caret, browsing that gives the draft back, and a history that loses
\* only its oldest entry, whatever the bytes, the length and the capacity.
THEOREM EditorImplements == Spec => ImplementsHistoryEditor
<1>1. []IInv /\ [][Next]_vars =>
          [][User!Next]_<<Before, After, NewerEntries, OlderEntries, history>>
  BY StepMaps, PTL
<1> QED BY <1>1, Invariant, StartMaps, PTL DEF Spec, ImplementsHistoryEditor, User!Spec

-----------------------------------------------------------------------------
(* The console as the shell uses it *)

\* What the shell prints: anything but TAB, which the editor refuses.
Codes == {"BELL", "BS", "DEL", "CR", "FF", "LF"}
Symbols == (STRING \cup Chars \cup Codes \cup {Space, "o"}) \ {"TAB"}
Glyphic == Symbols \ Codes

\* The consoles of the shell have no framebuffer: what their text is does not
\* depend on it.
Consoles ==
    [buffer : [RowIndex -> [ColumnIndex -> Symbols]],
     x : ColumnIndex, y : RowIndex, visible : BOOLEAN,
     attached : {FALSE}, cells : {BlankCells}]

\* a console with this text and the cursor there
Shows(c, x, y, text) == c \in Consoles /\ c.x = x /\ c.y = y /\ c.buffer = text

LEMMA Geometry ==
    /\ ROWS \in Nat /\ COLUMNS \in Nat /\ 0 \in RowIndex /\ 0 \in ColumnIndex
    /\ ROWS - 1 \in RowIndex /\ RowIndex \subseteq Nat /\ ColumnIndex \subseteq Nat
    /\ Len(PROMPT) \in Nat /\ Len(PROMPT) < COLUMNS
<1>1. Len(PROMPT) \in Nat
  BY GeometryAssumption, LenProperties
<1> QED BY <1>1, GeometryAssumption DEF RowIndex, ColumnIndex

LEMMA SpaceIsGlyphic == Space \in Glyphic /\ Space \in Symbols /\ "o" \in Glyphic
BY DEF Glyphic, Symbols, Codes, Space

LEMMA BlankTexts ==
    BlankRow \in [ColumnIndex -> Symbols] /\ BlankBuffer \in [RowIndex -> [ColumnIndex -> Symbols]]
BY SpaceIsGlyphic DEF BlankRow, BlankBuffer

LEMMA NotDrawn ==
    ASSUME NEW c \in Consoles, NEW ch, NEW inverse PROVE DrawGlyph(c, ch, inverse) = c
<1>1. c.attached = FALSE
  BY DEF Consoles
<1> QED BY <1>1 DEF DrawGlyph, Drawable

\* The cursor is shown and hidden without a change to the text.
LEMMA CursorOnly ==
    ASSUME NEW c \in Consoles
    PROVE  /\ Shows(HideCursor(c), c.x, c.y, c.buffer)
           /\ Shows(ShowCursor(c), c.x, c.y, c.buffer)
           /\ Shows(PutBell(c), c.x, c.y, c.buffer)
<1>1. ASSUME NEW b \in BOOLEAN
      PROVE  Shows([c EXCEPT !.visible = b], c.x, c.y, c.buffer)
  BY DEF Consoles, Shows
<1>2. Shows(c, c.x, c.y, c.buffer)
  BY DEF Shows
<1>3. Shows(HideCursor(c), c.x, c.y, c.buffer)
  BY <1>1, <1>2, NotDrawn DEF HideCursor
<1>4. Shows(ShowCursor(c), c.x, c.y, c.buffer)
  BY <1>1, <1>2, NotDrawn DEF ShowCursor
<1>5. Shows(PutBell(c), c.x, c.y, c.buffer)
  BY <1>1, NotDrawn DEF PutBell
<1> QED BY <1>3, <1>4, <1>5

LEMMA MoveOnly ==
    ASSUME NEW c \in Consoles, NEW x \in ColumnIndex, NEW y \in RowIndex
    PROVE  /\ Shows([c EXCEPT !.x = x], x, c.y, c.buffer)
           /\ Shows([c EXCEPT !.x = x, !.y = y], x, y, c.buffer)
           /\ Shows([c EXCEPT !.y = y, !.x = x], x, y, c.buffer)
BY DEF Consoles, Shows

-----------------------------------------------------------------------------
(* put_char, arm by arm *)

LEMMA BackspacePut ==
    ASSUME NEW c \in Consoles
    PROVE  Shows(PutChar(c, "BS"), IF c.x > 0 THEN c.x - 1 ELSE 0, c.y, c.buffer)
<1>0. c.x \in ColumnIndex
  BY DEF Consoles
<1>1. PutChar(c, "BS") = PutBackspace(c)
  BY DEF PutChar
<1>2. CASE c.x > 0
  <2> DEFINE d == HideCursor(c)
  <2>1. d \in Consoles /\ d.x = c.x /\ d.y = c.y /\ d.buffer = c.buffer
    BY CursorOnly DEF Shows
  <2>2. c.x - 1 \in ColumnIndex
    BY <1>0, <1>2, Geometry DEF ColumnIndex
  <2>3. PutBackspace(c) = [d EXCEPT !.x = d.x - 1]
    BY <1>2 DEF PutBackspace
  <2> HIDE DEF d
  <2>4. Shows([d EXCEPT !.x = c.x - 1], c.x - 1, d.y, d.buffer)
    <3> DEFINE z == c.x - 1
    <3>1. z \in ColumnIndex /\ d.y \in RowIndex
      BY <2>1, <2>2 DEF Consoles
    <3> HIDE DEF z
    <3>2. Shows([d EXCEPT !.x = z], z, d.y, d.buffer)
      BY <2>1, <3>1, MoveOnly
    <3> QED BY <3>2 DEF z
  <2> QED BY <1>1, <1>2, <2>1, <2>3, <2>4
<1>3. CASE ~(c.x > 0)
  <2>1. c.x = 0
    BY <1>0, <1>3, Geometry DEF ColumnIndex
  <2>2. PutBackspace(c) = c
    BY <1>3 DEF PutBackspace
  <2> QED BY <1>1, <1>3, <2>1, <2>2 DEF Shows
<1> QED BY <1>2, <1>3

LEMMA ReturnPut ==
    ASSUME NEW c \in Consoles
    PROVE  Shows(PutChar(c, "CR"), 0, c.y, c.buffer)
<1>1. PutChar(c, "CR") = [HideCursor(c) EXCEPT !.x = 0]
  BY DEF PutChar, PutReturn
<1> DEFINE d == HideCursor(c)
<1>2. d \in Consoles /\ d.y = c.y /\ d.buffer = c.buffer
  BY CursorOnly DEF Shows
<1> HIDE DEF d
<1>3. Shows([d EXCEPT !.x = 0], 0, d.y, d.buffer)
  BY <1>2, MoveOnly, Geometry
<1> QED BY <1>1, <1>2, <1>3 DEF d

LEMMA FormFeedPut ==
    ASSUME NEW c \in Consoles
    PROVE  Shows(PutChar(c, "FF"), 0, 0, BlankBuffer)
<1>1. PutChar(c, "FF") = Clear(HideCursor(c))
  BY DEF PutChar, PutFormFeed
<1> DEFINE d == HideCursor(c)
<1>2. d \in Consoles
  BY CursorOnly DEF Shows
<1> HIDE DEF d
<1>3. Clear(d) = [d EXCEPT !.buffer = BlankBuffer, !.x = 0, !.y = 0, !.cells = d.cells]
  BY <1>2 DEF Clear, Consoles
<1>4. Shows(Clear(d), 0, 0, BlankBuffer)
  BY <1>2, <1>3, BlankTexts, Geometry DEF Shows, Consoles
<1> QED BY <1>1, <1>4 DEF d

\* the text and the row after the cursor went down one
NextRow(y) == IF y + 1 < ROWS THEN y + 1 ELSE y
TextBelow(y, text) == IF y + 1 < ROWS THEN text ELSE ScrollUp(text, BlankRow)

LEMMA ScrollText ==
    ASSUME NEW c \in Consoles, ~(c.y + 1 < ROWS)
    PROVE  Shows(Scroll(c), 0, c.y, ScrollUp(c.buffer, BlankRow))
<1>1. c.y = ROWS - 1 /\ c.buffer \in [RowIndex -> [ColumnIndex -> Symbols]]
  BY Geometry DEF Consoles, RowIndex
<1> DEFINE up == ScrollUp(c.buffer, BlankRow)
<1>2. up \in [RowIndex -> [ColumnIndex -> Symbols]]
  <2>1. ASSUME NEW y \in RowIndex
        PROVE  (IF y = ROWS - 1 THEN BlankRow ELSE c.buffer[y + 1])
                   \in [ColumnIndex -> Symbols]
    <3>1. y # ROWS - 1 => y + 1 \in RowIndex
      BY Geometry DEF RowIndex
    <3> QED BY <1>1, <3>1, BlankTexts
  <2> QED BY <2>1 DEF ScrollUp
<1>3. Scroll(c) = [c EXCEPT !.buffer = up, !.x = 0, !.y = ROWS - 1, !.cells = c.cells]
  BY DEF Scroll, Consoles
<1> HIDE DEF up
<1>4. Shows(Scroll(c), 0, ROWS - 1, up)
  BY <1>2, <1>3, Geometry DEF Shows, Consoles
<1> QED BY <1>1, <1>4 DEF up

LEMMA LineFeedPut ==
    ASSUME NEW c \in Consoles
    PROVE  Shows(PutChar(c, "LF"), 0, NextRow(c.y), TextBelow(c.y, c.buffer))
<1> DEFINE d == HideCursor(c)
<1>1. PutChar(c, "LF") = IF d.y < ROWS - 1 THEN [d EXCEPT !.y = d.y + 1, !.x = 0]
                                           ELSE Scroll(d)
  BY DEF PutChar, PutLineFeed
<1>2. d \in Consoles /\ d.y = c.y /\ d.buffer = c.buffer
  BY CursorOnly DEF Shows
<1> HIDE DEF d
<1>3. d.y \in RowIndex
  BY <1>2 DEF Consoles
<1>4. d.y < ROWS - 1 <=> d.y + 1 < ROWS
  BY <1>3, Geometry DEF RowIndex
<1>5. CASE d.y + 1 < ROWS
  <2>1. d.y + 1 \in RowIndex
    BY <1>3, <1>5, Geometry DEF RowIndex
  <2>2. Shows([d EXCEPT !.y = d.y + 1, !.x = 0], 0, d.y + 1, d.buffer)
    BY <1>2, <2>1, MoveOnly, Geometry
  <2> QED BY <1>1, <1>2, <1>4, <1>5, <2>2 DEF NextRow, TextBelow
<1>6. CASE ~(d.y + 1 < ROWS)
  <2>1. Shows(Scroll(d), 0, d.y, ScrollUp(d.buffer, BlankRow))
    BY <1>2, <1>6, ScrollText
  <2> QED BY <1>1, <1>2, <1>4, <1>6, <2>1 DEF NextRow, TextBelow
<1> QED BY <1>5, <1>6

\* A character goes where the cursor is, and the cursor to the right or down.
LEMMA PrintablePut ==
    ASSUME NEW c \in Consoles, NEW ch \in Glyphic
    PROVE  LET text == [c.buffer EXCEPT ![c.y][c.x] = ch] IN
           IF c.x + 1 < COLUMNS THEN Shows(PutChar(c, ch), c.x + 1, c.y, text)
           ELSE Shows(PutChar(c, ch), 0, NextRow(c.y), TextBelow(c.y, text))
<1> DEFINE text == [c.buffer EXCEPT ![c.y][c.x] = ch]
           d == [c EXCEPT !.buffer = text]
           e == [d EXCEPT !.visible = FALSE]
<1>0. ch \in Symbols /\ ch \notin Codes /\ ch # "TAB"
  BY DEF Glyphic, Symbols
<1>1. PutChar(c, ch) = PutPrintable(c, ch)
  BY <1>0 DEF PutChar, Codes
<1>2. c.x \in ColumnIndex /\ c.y \in RowIndex
  BY DEF Consoles
<1>3. text \in [RowIndex -> [ColumnIndex -> Symbols]]
  BY <1>0, <1>2 DEF Consoles
<1>4. [c EXCEPT !.buffer[c.y][c.x] = ch] = d
  OBVIOUS
<1> HIDE DEF text
<1>5. d \in Consoles
  BY <1>3 DEF Consoles
<1>6. PutPrintable(c, ch) = Advance([DrawGlyph(d, ch, FALSE) EXCEPT !.visible = FALSE])
  BY <1>4 DEF PutPrintable
<1>7. DrawGlyph(d, ch, FALSE) = d
  <2> HIDE DEF d
  <2> QED BY <1>5, NotDrawn
<1>8. PutChar(c, ch) = Advance(e)
  BY <1>1, <1>6, <1>7
<1>9. e \in Consoles /\ e.x = c.x /\ e.y = c.y /\ e.buffer = text
  BY <1>3 DEF Consoles
<1> HIDE DEF e, d
<1>10. CASE c.x + 1 < COLUMNS
  <2>1. Advance(e) = [e EXCEPT !.x = e.x + 1]
    BY <1>9, <1>10 DEF Advance
  <2>2. e.x + 1 \in ColumnIndex
    BY <1>2, <1>9, <1>10, Geometry DEF ColumnIndex
  <2>3. Shows([e EXCEPT !.x = e.x + 1], e.x + 1, e.y, e.buffer)
    <3> DEFINE z == e.x + 1
    <3>1. z \in ColumnIndex /\ e.y \in RowIndex
      BY <1>2, <1>9, <2>2
    <3> HIDE DEF z
    <3>2. Shows([e EXCEPT !.x = z], z, e.y, e.buffer)
      BY <1>9, <3>1, MoveOnly
    <3> QED BY <3>2 DEF z
  <2> QED BY <1>8, <1>9, <1>10, <2>1, <2>3 DEF text
<1>11. CASE ~(c.x + 1 < COLUMNS) /\ c.y + 1 < ROWS
  <2>1. Advance(e) = [e EXCEPT !.x = 0, !.y = e.y + 1]
    BY <1>9, <1>11 DEF Advance
  <2>2. e.y + 1 \in RowIndex
    BY <1>2, <1>9, <1>11, Geometry DEF RowIndex
  <2>3. Shows([e EXCEPT !.x = 0, !.y = e.y + 1], 0, e.y + 1, e.buffer)
    BY <1>9, <2>2, MoveOnly, Geometry
  <2> QED BY <1>8, <1>9, <1>11, <2>1, <2>3 DEF text, NextRow, TextBelow
<1>12. CASE ~(c.x + 1 < COLUMNS) /\ ~(c.y + 1 < ROWS)
  <2>1. Advance(e) = Scroll(e)
    BY <1>9, <1>12 DEF Advance
  <2>2. Shows(Scroll(e), 0, e.y, ScrollUp(e.buffer, BlankRow))
    BY <1>9, <1>12, ScrollText
  <2> QED BY <1>8, <1>9, <1>12, <2>1, <2>2 DEF text, NextRow, TextBelow
<1> QED BY <1>10, <1>11, <1>12

\* Whatever is printed, it is still such a console.
LEMMA AnyPut ==
    ASSUME NEW c \in Consoles, NEW ch \in Symbols
    PROVE  PutChar(c, ch) \in Consoles
<1>1. CASE ch = "BELL"
  BY <1>1, CursorOnly DEF PutChar, Shows
<1>2. CASE ch = "BS"
  BY <1>2, BackspacePut DEF Shows
<1>3. CASE ch = "DEL"
  <2>1. PutChar(c, "DEL") = PutChar(c, "BS")
    BY DEF PutChar
  <2> QED BY <1>3, <2>1, BackspacePut DEF Shows
<1>4. CASE ch = "CR"
  BY <1>4, ReturnPut DEF Shows
<1>5. CASE ch = "FF"
  BY <1>5, FormFeedPut DEF Shows
<1>6. CASE ch = "LF"
  BY <1>6, LineFeedPut DEF Shows
<1>7. CASE ch \notin Codes
  <2>1. ch \in Glyphic
    BY <1>7 DEF Glyphic
  <2> QED BY <2>1, PrintablePut DEF Shows
<1> QED BY <1>1, <1>2, <1>3, <1>4, <1>5, <1>6, <1>7 DEF Codes

-----------------------------------------------------------------------------
(* write_str *)

\* the consoles after each character of a string
IsPut(put, c, s, n) ==
    put = [i \in 0..n |-> IF i = 0 THEN c ELSE PutChar(put[i - 1], s[i])]

\* There are such consoles: one follows from the one before.
LEMMA PutExists ==
    ASSUME NEW c, NEW s, NEW n \in Nat
    PROVE  \E put : IsPut(put, c, s, n)
<1> DEFINE S == {m \in Nat : \E put : IsPut(put, c, s, m)}
<1>1. 0 \in S
  <2> DEFINE put == [i \in 0..0 |-> c]
  <2>1. put = [i \in 0..0 |-> IF i = 0 THEN c ELSE PutChar(put[i - 1], s[i])]
    OBVIOUS
  <2> QED BY <2>1 DEF IsPut
<1>2. ASSUME NEW m \in S
      PROVE  m + 1 \in S
  <2>1. PICK f : IsPut(f, c, s, m)
    OBVIOUS
  <2>2. \A i \in 0..m : f[i] = IF i = 0 THEN c ELSE PutChar(f[i - 1], s[i])
    BY <2>1 DEF IsPut
  <2> DEFINE g == [i \in 0..(m + 1) |->
                     IF i <= m THEN f[i] ELSE PutChar(f[m], s[i])]
  <2>3. ASSUME NEW i \in 0..(m + 1)
        PROVE  g[i] = IF i = 0 THEN c ELSE PutChar(g[i - 1], s[i])
    <3>1. CASE i = 0
      BY <3>1, <2>2
    <3>2. CASE i # 0 /\ i <= m
      <4>1. g[i] = f[i] /\ g[i - 1] = f[i - 1]
        BY <3>2
      <4>2. f[i] = PutChar(f[i - 1], s[i])
        BY <3>2, <2>2
      <4> QED BY <4>1, <4>2, <3>2
    <3>3. CASE ~(i <= m)
      <4>1. i = m + 1
        BY <3>3
      <4>2. g[i] = PutChar(f[m], s[i]) /\ g[i - 1] = f[m] /\ i # 0
        BY <3>3, <4>1
      <4> QED BY <4>2
    <3> QED BY <3>1, <3>2, <3>3
  <2>4. g = [i \in 0..(m + 1) |-> IF i = 0 THEN c ELSE PutChar(g[i - 1], s[i])]
    <3>1. g = [i \in 0..(m + 1) |-> g[i]]
      OBVIOUS
    <3> HIDE DEF g
    <3> QED BY <3>1, <2>3
  <2>5. IsPut(g, c, s, m + 1)
    BY <2>4 DEF IsPut
  <2> QED BY <2>5
<1> HIDE DEF S
<1>3. S = Nat
  <2>1. S \in SUBSET Nat
    BY DEF S
  <2> QED BY <1>1, <1>2, <2>1, Induction
<1> QED BY <1>3 DEF S

\* the console after a string, its cursor not shown yet
Put(c, s) == LET put == CHOOSE f : IsPut(f, c, s, Len(s)) IN put[Len(s)]

LEMMA WriteShowsPut ==
    ASSUME NEW c, NEW s PROVE WriteStr(c, s) = ShowCursor(Put(c, s))
BY DEF WriteStr, Put, IsPut

LEMMA PutIs ==
    ASSUME NEW c, NEW S, NEW s \in Seq(S)
    PROVE  \E f : IsPut(f, c, s, Len(s)) /\ Put(c, s) = f[Len(s)]
<1> DEFINE f == CHOOSE f : IsPut(f, c, s, Len(s))
<1>1. Len(s) \in Nat
  BY LenProperties
<1>2. IsPut(f, c, s, Len(s))
  BY <1>1, PutExists
<1>3. Put(c, s) = f[Len(s)]
  BY DEF Put
<1> HIDE DEF f
<1> QED BY <1>2, <1>3

\* i elements of s after the k-th are those of t after the l-th
Agree(s, k, t, l, i) == \A j \in 1..i : s[k + j] = t[l + j]

\* Two strings that agree take a console to the same ones.
LEMMA PutsAgree ==
    ASSUME NEW c, NEW d, NEW s, NEW t, NEW m \in Nat, NEW n \in Nat,
           NEW k \in Nat, NEW l \in Nat, NEW i \in Nat,
           NEW p \in 0..m, NEW q \in 0..n, p = k + i, q = l + i,
           NEW f, IsPut(f, c, s, m), NEW g, IsPut(g, d, t, n),
           f[k] = g[l], Agree(s, k, t, l, i)
    PROVE  f[p] = g[q]
<1>1. /\ \A j \in 0..m : f[j] = IF j = 0 THEN c ELSE PutChar(f[j - 1], s[j])
      /\ \A j \in 0..n : g[j] = IF j = 0 THEN d ELSE PutChar(g[j - 1], t[j])
  BY DEF IsPut
<1> DEFINE S == {j \in Nat : j <= i => f[k + j] = g[l + j]}
<1>2. 0 \in S
  OBVIOUS
<1>3. ASSUME NEW j \in S
      PROVE  j + 1 \in S
  <2> SUFFICES ASSUME j + 1 <= i
               PROVE  f[k + (j + 1)] = g[l + (j + 1)]
    OBVIOUS
  <2>1. f[k + j] = g[l + j]
    OBVIOUS
  <2> DEFINE a == k + (j + 1)
             b == l + (j + 1)
  <2>2. a \in 0..m /\ a # 0 /\ a - 1 = k + j /\ b \in 0..n /\ b # 0 /\ b - 1 = l + j
    OBVIOUS
  <2>3. s[a] = t[b]
    <3>1. j + 1 \in 1..i
      OBVIOUS
    <3> QED BY <3>1 DEF Agree
  <2> HIDE DEF a, b
  <2>4. f[a] = PutChar(f[k + j], s[a]) /\ g[b] = PutChar(g[l + j], t[b])
    BY <1>1, <2>2
  <2> QED BY <2>1, <2>3, <2>4 DEF a, b
<1>4. S \in SUBSET Nat
  OBVIOUS
<1> HIDE DEF S
<1>5. S = Nat
  BY <1>2, <1>3, <1>4, Induction
<1>6. i \in S
  BY <1>5
<1> QED BY <1>6 DEF S

\* A string is written by writing one part and then the other.
LEMMA PutConcat ==
    ASSUME NEW c, NEW S, NEW s \in Seq(S), NEW t \in Seq(S)
    PROVE  Put(c, s \o t) = Put(Put(c, s), t)
<1> DEFINE st == s \o t
           ls == Len(s)
           lt == Len(t)
           n == Len(st)
<1>1. ls \in Nat /\ lt \in Nat
  BY LenProperties
<1>2. /\ st \in Seq(S) /\ n = ls + lt
      /\ \A i \in 1..n : st[i] = IF i <= ls THEN s[i] ELSE t[i - ls]
  BY ConcatProperties
<1> HIDE DEF st
<1>3. PICK a : IsPut(a, c, s, ls) /\ Put(c, s) = a[ls]
  BY PutIs
<1>4. PICK b : IsPut(b, Put(c, s), t, lt) /\ Put(Put(c, s), t) = b[lt]
  BY PutIs
<1>5. PICK h : IsPut(h, c, st, n) /\ Put(c, st) = h[n]
  BY <1>2, PutIs
<1> HIDE DEF ls, lt, n
<1>6. a[0] = c /\ b[0] = Put(c, s) /\ h[0] = c
  BY <1>1, <1>2, <1>3, <1>4, <1>5 DEF IsPut
<1>7. h[ls] = a[ls]
  <2>1. Agree(st, 0, s, 0, ls)
    BY <1>1, <1>2 DEF Agree
  <2>2. n \in Nat /\ ls \in 0..n /\ ls \in 0..ls /\ ls = 0 + ls /\ h[0] = a[0]
    BY <1>1, <1>2, <1>6
  <2> QED BY <1>1, <1>3, <1>5, <2>1, <2>2, PutsAgree
<1>8. h[n] = b[lt]
  <2>1. Agree(st, ls, t, 0, lt)
    <3> SUFFICES ASSUME NEW j \in 1..lt PROVE st[ls + j] = t[0 + j]
      BY DEF Agree
    <3> DEFINE i == ls + j
    <3>1. i \in 1..n /\ ~(i <= ls) /\ i - ls = j /\ 0 + j = j
      BY <1>1, <1>2
    <3> HIDE DEF i
    <3>2. st[i] = t[j]
      BY <1>2, <3>1
    <3> QED BY <3>1, <3>2 DEF i
  <2>2. n \in Nat /\ n \in 0..n /\ lt \in 0..lt /\ lt = 0 + lt /\ n = ls + lt /\ h[ls] = b[0]
    BY <1>1, <1>2, <1>3, <1>6, <1>7
  <2> QED BY <1>1, <1>4, <1>5, <2>1, <2>2, PutsAgree
<1> QED BY <1>4, <1>5, <1>8 DEF st

LEMMA PutNothing == ASSUME NEW c PROVE Put(c, << >>) = c
<1> DEFINE f == CHOOSE f : IsPut(f, c, << >>, 0)
<1>1. IsPut(f, c, << >>, 0)
  BY PutExists
<1>2. Len(<< >>) = 0
  OBVIOUS
<1>3. Put(c, << >>) = f[0]
  BY <1>2 DEF Put
<1> HIDE DEF f
<1> QED BY <1>1, <1>3 DEF IsPut

LEMMA PutOne == ASSUME NEW c, NEW ch PROVE Put(c, <<ch>>) = PutChar(c, ch)
<1> DEFINE s == <<ch>>
           f == CHOOSE f : IsPut(f, c, s, 1)
<1>1. IsPut(f, c, s, 1)
  BY PutExists
<1>2. Len(s) = 1 /\ s[1] = ch
  OBVIOUS
<1>3. Put(c, s) = f[1]
  BY <1>2 DEF Put
<1> HIDE DEF f, s
<1>4. f[0] = c /\ f[1] = PutChar(f[0], s[1])
  <2>1. \A i \in 0..1 : f[i] = IF i = 0 THEN c ELSE PutChar(f[i - 1], s[i])
    BY <1>1 DEF IsPut
  <2> QED BY <2>1
<1> QED BY <1>2, <1>3, <1>4 DEF s

\* f is the console after each character of a string over S
Steps(f, c, s, S) ==
    /\ f[0] = c /\ f[Len(s)] = Put(c, s)
    /\ \A i \in Nat : i + 1 <= Len(s) =>
          s[i + 1] \in S /\ f[i + 1] = PutChar(f[i], s[i + 1])

LEMMA PutSteps ==
    ASSUME NEW c, NEW S, NEW s \in Seq(S)
    PROVE  \E f : Steps(f, c, s, S)
<1>1. Len(s) \in Nat /\ \A i \in 1..Len(s) : s[i] \in S
  BY LenProperties, ElementOfSeq
<1>2. PICK f : IsPut(f, c, s, Len(s)) /\ Put(c, s) = f[Len(s)]
  BY PutIs
<1>3. \A i \in 0..Len(s) : f[i] = IF i = 0 THEN c ELSE PutChar(f[i - 1], s[i])
  BY <1>2 DEF IsPut
<1>4. ASSUME NEW i \in Nat, i + 1 <= Len(s)
      PROVE  s[i + 1] \in S /\ f[i + 1] = PutChar(f[i], s[i + 1])
  <2>1. i + 1 \in 1..Len(s) /\ i + 1 \in 0..Len(s) /\ i + 1 # 0 /\ (i + 1) - 1 = i
    BY <1>1, <1>4
  <2> QED BY <1>1, <1>3, <2>1
<1>5. f[0] = c
  BY <1>1, <1>3
<1> QED BY <1>2, <1>4, <1>5 DEF Steps

LEMMA AnyText ==
    ASSUME NEW c \in Consoles, NEW s \in Seq(Symbols)
    PROVE  Put(c, s) \in Consoles
<1>0. PICK f : Steps(f, c, s, Symbols)
  BY PutSteps
<1>1. /\ f[0] = c /\ f[Len(s)] = Put(c, s)
      /\ \A i \in Nat : i + 1 <= Len(s) =>
            s[i + 1] \in Symbols /\ f[i + 1] = PutChar(f[i], s[i + 1])
  BY <1>0 DEF Steps
<1> DEFINE S == {i \in Nat : i <= Len(s) => f[i] \in Consoles}
<1>2. 0 \in S
  BY <1>1
<1>3. ASSUME NEW i \in S PROVE i + 1 \in S
  <2>1. Len(s) \in Nat
    BY LenProperties
  <2> QED BY <1>1, <2>1, AnyPut
<1>4. S \in SUBSET Nat
  OBVIOUS
<1> HIDE DEF S
<1>5. Len(s) \in S
  BY <1>2, <1>3, <1>4, Induction, LenProperties
<1> QED BY <1>1, <1>5, LenProperties DEF S

\* the text after i characters of s were put on row y from x on
Over(text, y, x, s, i) ==
    [r \in RowIndex |-> [col \in ColumnIndex |->
        IF r = y /\ x <= col /\ col < x + i THEN s[col - x + 1] ELSE text[r][col]]]

\* Characters that do not reach the end of the row go side by side.
LEMMA GlyphText ==
    ASSUME NEW c \in Consoles, NEW s \in Seq(Glyphic), c.x + Len(s) < COLUMNS
    PROVE  Shows(Put(c, s), c.x + Len(s), c.y, Over(c.buffer, c.y, c.x, s, Len(s)))
<1>0. PICK f : Steps(f, c, s, Glyphic)
  BY PutSteps
<1>1. /\ f[0] = c /\ f[Len(s)] = Put(c, s)
      /\ \A i \in Nat : i + 1 <= Len(s) =>
            s[i + 1] \in Glyphic /\ f[i + 1] = PutChar(f[i], s[i + 1])
  BY <1>0 DEF Steps
<1> DEFINE text(i) == Over(c.buffer, c.y, c.x, s, i)
           S == {i \in Nat : i <= Len(s) => Shows(f[i], c.x + i, c.y, text(i))}
<1>2. /\ Len(s) \in Nat /\ c.x \in Nat /\ COLUMNS \in Nat
      /\ c.y \in RowIndex /\ c.x \in ColumnIndex
      /\ c.buffer \in [RowIndex -> [ColumnIndex -> Symbols]]
  BY LenProperties, Geometry DEF Consoles
<1>3. 0 \in S
  <2>1. text(0) = c.buffer
    <3>1. ASSUME NEW r \in RowIndex
          PROVE  c.buffer[r] = [col \in ColumnIndex |->
                     IF r = c.y /\ c.x <= col /\ col < c.x + 0
                     THEN s[col - c.x + 1] ELSE c.buffer[r][col]]
      <4>1. \A col \in ColumnIndex : ~(c.x <= col /\ col < c.x + 0)
        BY <1>2, Geometry DEF ColumnIndex
      <4> QED BY <1>2, <4>1
    <3> QED BY <1>2, <3>1 DEF Over
  <2>2. c.x + 0 = c.x
    BY <1>2
  <2> HIDE DEF text
  <2> QED BY <1>1, <2>1, <2>2 DEF Shows
<1>4. ASSUME NEW i \in S
      PROVE  i + 1 \in S
  <2> SUFFICES ASSUME i + 1 <= Len(s)
               PROVE  Shows(f[i + 1], c.x + (i + 1), c.y, text(i + 1))
    OBVIOUS
  <2> DEFINE d == f[i]
             ch == s[i + 1]
  <2>1. Shows(d, c.x + i, c.y, text(i)) /\ i \in Nat
    BY <1>2
  <2>2. ch \in Glyphic /\ f[i + 1] = PutChar(d, ch)
    BY <1>1, <2>1
  <2> HIDE DEF text, d, ch
  <2>3. d \in Consoles /\ d.x = c.x + i /\ d.y = c.y /\ d.buffer = text(i)
    BY <2>1 DEF Shows
  <2>4. d.x + 1 < COLUMNS /\ d.x + 1 = c.x + (i + 1) /\ d.x \in ColumnIndex
    BY <1>2, <2>1, <2>3 DEF Consoles
  <2>5. Shows(PutChar(d, ch), d.x + 1, d.y, [d.buffer EXCEPT ![d.y][d.x] = ch])
    BY <2>2, <2>3, <2>4, PrintablePut
  <2>6. [d.buffer EXCEPT ![d.y][d.x] = ch] = text(i + 1)
    <3> DEFINE old == d.buffer
               x == d.x
               y == d.y
               new == [old EXCEPT ![y][x] = ch]
    <3>1. /\ old \in [RowIndex -> [ColumnIndex -> Symbols]]
          /\ y \in RowIndex /\ x \in ColumnIndex
          /\ x = c.x + i /\ y = c.y
      BY <2>3 DEF Consoles
    <3>2. \A r \in RowIndex, col \in ColumnIndex :
              old[r][col] = IF r = c.y /\ c.x <= col /\ col < c.x + i
                            THEN s[col - c.x + 1] ELSE c.buffer[r][col]
      BY <2>3 DEF text, Over
    <3> HIDE DEF old, x, y
    <3>3. new = [r \in RowIndex |-> [col \in ColumnIndex |->
                     IF r = y /\ col = x THEN ch ELSE old[r][col]]]
      BY <3>1
    <3>4. ASSUME NEW r \in RowIndex, NEW col \in ColumnIndex
          PROVE  (IF r = y /\ col = x THEN ch ELSE old[r][col]) =
                 (IF r = c.y /\ c.x <= col /\ col < c.x + (i + 1)
                  THEN s[col - c.x + 1] ELSE c.buffer[r][col])
      <4>1. col \in Nat
        BY Geometry
      <4>2. CASE r = y /\ col = x
        <5>1. col - c.x + 1 = i + 1 /\ c.x <= col /\ col < c.x + (i + 1)
          BY <1>2, <2>1, <3>1, <4>2
        <5>2. s[col - c.x + 1] = ch
          BY <5>1 DEF ch
        <5> QED BY <3>1, <4>2, <5>1, <5>2
      <4>3. CASE ~(r = y /\ col = x)
        <5>1. r = c.y => (col < c.x + (i + 1) <=> col < c.x + i)
          <6> SUFFICES ASSUME r = c.y PROVE col < c.x + (i + 1) <=> col < c.x + i
            OBVIOUS
          <6>1. col # c.x + i
            BY <3>1, <4>3
          <6>2. c.x \in Nat /\ i \in Nat
            BY <1>2, <2>1
          <6> DEFINE a == c.x
          <6> HIDE DEF a
          <6>3. a \in Nat /\ col # a + i
            BY <6>1, <6>2 DEF a
          <6>4. col < a + (i + 1) <=> col < a + i
            BY ONLY <4>1, <6>2, <6>3
          <6> QED BY <6>4 DEF a
        <5> QED BY <3>2, <4>3, <5>1
      <4> QED BY <4>2, <4>3
    <3> HIDE DEF new
    <3>5. new = text(i + 1)
      BY <3>3, <3>4 DEF text, Over
    <3> QED BY <3>5 DEF new, old, x, y
  <2> QED BY <2>2, <2>3, <2>4, <2>5, <2>6
<1>5. S \in SUBSET Nat
  OBVIOUS
<1> HIDE DEF S
<1>6. Len(s) \in S
  BY <1>2, <1>3, <1>4, <1>5, Induction
<1> QED BY <1>1, <1>2, <1>6 DEF S

\* Backspaces that do not reach the start of the row go back one by one.
LEMMA BackText ==
    ASSUME NEW c \in Consoles, NEW n \in Nat, n <= c.x
    PROVE  Shows(Put(c, Repeat("BS", n)), c.x - n, c.y, c.buffer)
<1> DEFINE s == Repeat("BS", n)
<1>1. s \in Seq({"BS"}) /\ Len(s) = n
  BY DEF Repeat
<1> HIDE DEF s
<1>0. PICK f : Steps(f, c, s, {"BS"})
  BY <1>1, PutSteps
<1>2. /\ f[0] = c /\ f[Len(s)] = Put(c, s)
      /\ \A i \in Nat : i + 1 <= Len(s) =>
            s[i + 1] \in {"BS"} /\ f[i + 1] = PutChar(f[i], s[i + 1])
  BY <1>0 DEF Steps
<1> DEFINE S == {i \in Nat : i <= n => Shows(f[i], c.x - i, c.y, c.buffer)}
<1>3. c.x \in Nat
  BY Geometry DEF Consoles
<1>4. 0 \in S
  <2>1. c.x - 0 = c.x
    BY <1>3
  <2> QED BY <1>2, <2>1 DEF Shows
<1>5. ASSUME NEW i \in S
      PROVE  i + 1 \in S
  <2> SUFFICES ASSUME i + 1 <= n
               PROVE  Shows(f[i + 1], c.x - (i + 1), c.y, c.buffer)
    OBVIOUS
  <2> DEFINE d == f[i]
  <2>1. Shows(d, c.x - i, c.y, c.buffer) /\ i \in Nat
    OBVIOUS
  <2>2. f[i + 1] = PutChar(d, "BS")
    BY <1>1, <1>2
  <2> HIDE DEF d
  <2>3. d \in Consoles /\ d.x = c.x - i /\ d.y = c.y /\ d.buffer = c.buffer
    BY <2>1 DEF Shows
  <2>4. d.x > 0 /\ d.x - 1 = c.x - (i + 1)
    BY <1>3, <2>1, <2>3
  <2>5. Shows(PutChar(d, "BS"), d.x - 1, d.y, d.buffer)
    BY <2>3, <2>4, BackspacePut
  <2> QED BY <2>2, <2>3, <2>4, <2>5
<1>6. S \in SUBSET Nat
  OBVIOUS
<1> HIDE DEF S
<1>7. n \in S
  BY <1>4, <1>5, <1>6, Induction
<1>8. Shows(f[n], c.x - n, c.y, c.buffer)
  BY <1>7 DEF S
<1> QED BY <1>1, <1>2, <1>8 DEF s

-----------------------------------------------------------------------------
\* the cursor's row from n on, and the rows below it
BlankFrom(c, n) ==
    /\ \A x \in n..(COLUMNS - 1) : c.buffer[c.y][x] = Space
    /\ \A y \in (c.y + 1)..(ROWS - 1) : c.buffer[y] = BlankRow

\* A row taken up under blank rows is blank, and so are those below.
LEMMA NextRowIsBlank ==
    ASSUME NEW y \in RowIndex, NEW text \in [RowIndex -> [ColumnIndex -> Symbols]],
           NEW d, Shows(d, 0, NextRow(y), TextBelow(y, text)),
           \A r \in (y + 1)..(ROWS - 1) : text[r] = BlankRow
    PROVE  BlankFrom(d, 0)
<1>1. d.y = NextRow(y) /\ d.buffer = TextBelow(y, text)
  BY DEF Shows
<1>2. y \in Nat /\ ROWS \in Nat /\ y <= ROWS - 1
  BY Geometry DEF RowIndex
<1>3. /\ d.buffer[d.y] = BlankRow
      /\ \A r \in (d.y + 1)..(ROWS - 1) : d.buffer[r] = BlankRow
  <2>1. CASE y + 1 < ROWS
    BY <1>1, <1>2, <2>1 DEF NextRow, TextBelow
  <2>2. CASE ~(y + 1 < ROWS)
    <3>1. y = ROWS - 1 /\ d.y = y
      BY <1>1, <1>2, <2>2 DEF NextRow
    <3>2. d.buffer = ScrollUp(text, BlankRow)
      BY <1>1, <2>2 DEF TextBelow
    <3>3. d.buffer[d.y] = BlankRow
      BY <3>1, <3>2 DEF ScrollUp
    <3>4. \A r \in (d.y + 1)..(ROWS - 1) : FALSE
      BY <1>2, <3>1
    <3> QED BY <3>3, <3>4
  <2> QED BY <2>1, <2>2
<1>4. \A x \in 0..(COLUMNS - 1) : BlankRow[x] = Space
  BY DEF BlankRow, ColumnIndex
<1> QED BY <1>3, <1>4 DEF BlankFrom

\* Text with no carriage return or backspace leaves nothing behind the cursor.
Forward == Glyphic \cup {"BELL", "LF", "FF"}

LEMMA ForwardPut ==
    ASSUME NEW c \in Consoles, NEW ch \in Forward, BlankFrom(c, c.x)
    PROVE  PutChar(c, ch) \in Consoles /\ BlankFrom(PutChar(c, ch), PutChar(c, ch).x)
<1> DEFINE d == PutChar(c, ch)
<1>0. /\ c.x \in ColumnIndex /\ c.y \in RowIndex
      /\ c.buffer \in [RowIndex -> [ColumnIndex -> Symbols]]
  BY DEF Consoles
<1>1. CASE ch = "BELL"
  <2>1. Shows(d, c.x, c.y, c.buffer)
    BY <1>1, CursorOnly DEF PutChar
  <2> HIDE DEF d
  <2> QED BY <2>1 DEF d, Shows, BlankFrom
<1>2. CASE ch = "LF"
  <2>1. Shows(d, 0, NextRow(c.y), TextBelow(c.y, c.buffer))
    BY <1>2, LineFeedPut
  <2>2. \A r \in (c.y + 1)..(ROWS - 1) : c.buffer[r] = BlankRow
    BY DEF BlankFrom
  <2> HIDE DEF d
  <2>3. BlankFrom(d, 0) /\ d.x = 0 /\ d \in Consoles
    BY <1>0, <2>1, <2>2, NextRowIsBlank DEF Shows
  <2> QED BY <2>3 DEF d
<1>3. CASE ch = "FF"
  <2>1. Shows(d, 0, 0, BlankBuffer)
    BY <1>3, FormFeedPut
  <2> HIDE DEF d
  <2>2. d.x = 0 /\ d.y = 0 /\ d.buffer = BlankBuffer /\ d \in Consoles
    BY <2>1 DEF Shows
  <2>3. BlankFrom(d, 0)
    BY <2>2, Geometry DEF BlankFrom, BlankBuffer, BlankRow, RowIndex, ColumnIndex
  <2> QED BY <2>2, <2>3 DEF d
<1>4. CASE ch \in Glyphic
  <2> DEFINE text == [c.buffer EXCEPT ![c.y][c.x] = ch]
  <2>0. ch \in Symbols
    BY <1>4 DEF Glyphic
  <2>1. /\ text \in [RowIndex -> [ColumnIndex -> Symbols]]
        /\ \A r \in RowIndex : r # c.y => text[r] = c.buffer[r]
        /\ \A x \in ColumnIndex : x # c.x => text[c.y][x] = c.buffer[c.y][x]
    BY <1>0, <2>0
  <2>2. \A r \in (c.y + 1)..(ROWS - 1) : text[r] = BlankRow
    <3> SUFFICES ASSUME NEW r \in (c.y + 1)..(ROWS - 1) PROVE text[r] = BlankRow
      OBVIOUS
    <3>1. r \in RowIndex /\ r # c.y
      BY <1>0, Geometry DEF RowIndex
    <3> HIDE DEF text
    <3> QED BY <2>1, <3>1 DEF BlankFrom
  <2>3. CASE c.x + 1 < COLUMNS
    <3>1. Shows(d, c.x + 1, c.y, text)
      BY <1>4, <2>3, PrintablePut
    <3> HIDE DEF d, text
    <3>2. d.x = c.x + 1 /\ d.y = c.y /\ d.buffer = text /\ d \in Consoles
      BY <3>1 DEF Shows
    <3>3. \A x \in (c.x + 1)..(COLUMNS - 1) :
              x \in ColumnIndex /\ x # c.x /\ x \in c.x..(COLUMNS - 1)
      BY <1>0, Geometry DEF ColumnIndex
    <3>4. \A x \in (c.x + 1)..(COLUMNS - 1) : text[c.y][x] = Space
      BY <2>1, <3>3 DEF BlankFrom
    <3>5. BlankFrom(d, d.x)
      BY <2>2, <3>2, <3>4 DEF BlankFrom
    <3> QED BY <3>2, <3>5 DEF d
  <2>4. CASE ~(c.x + 1 < COLUMNS)
    <3>1. Shows(d, 0, NextRow(c.y), TextBelow(c.y, text))
      BY <1>4, <2>4, PrintablePut
    <3> HIDE DEF d, text
    <3>2. BlankFrom(d, 0) /\ d.x = 0 /\ d \in Consoles
      BY <1>0, <2>1, <2>2, <3>1, NextRowIsBlank DEF Shows
    <3> QED BY <3>2 DEF d
  <2> QED BY <2>3, <2>4
<1> QED BY <1>1, <1>2, <1>3, <1>4 DEF Forward

LEMMA ForwardText ==
    ASSUME NEW c \in Consoles, NEW s \in Seq(Forward), BlankFrom(c, c.x)
    PROVE  Put(c, s) \in Consoles /\ BlankFrom(Put(c, s), Put(c, s).x)
<1>0. PICK f : Steps(f, c, s, Forward)
  BY PutSteps
<1>1. /\ f[0] = c /\ f[Len(s)] = Put(c, s)
      /\ \A i \in Nat : i + 1 <= Len(s) =>
            s[i + 1] \in Forward /\ f[i + 1] = PutChar(f[i], s[i + 1])
  BY <1>0 DEF Steps
<1> DEFINE S == {i \in Nat : i <= Len(s) => f[i] \in Consoles /\ BlankFrom(f[i], f[i].x)}
<1>2. 0 \in S
  BY <1>1
<1>3. ASSUME NEW i \in S PROVE i + 1 \in S
  <2>1. Len(s) \in Nat
    BY LenProperties
  <2> SUFFICES ASSUME i + 1 <= Len(s)
               PROVE  f[i + 1] \in Consoles /\ BlankFrom(f[i + 1], f[i + 1].x)
    OBVIOUS
  <2>2. f[i] \in Consoles /\ BlankFrom(f[i], f[i].x) /\ i \in Nat
    BY <2>1
  <2>3. s[i + 1] \in Forward /\ f[i + 1] = PutChar(f[i], s[i + 1])
    BY <1>1, <2>2
  <2> QED BY <2>2, <2>3, ForwardPut
<1>4. S \in SUBSET Nat
  OBVIOUS
<1> HIDE DEF S
<1>5. Len(s) \in S
  BY <1>2, <1>3, <1>4, Induction, LenProperties
<1> QED BY <1>1, <1>5, LenProperties DEF S

-----------------------------------------------------------------------------
(* What handle_display prints, on the row it prints it on *)

Margin == Len(PROMPT)

\* the row of the cursor reads prompt and line
RowReads(c, l) ==
    /\ \A i \in 1..Margin : c.buffer[c.y][i - 1] = PROMPT[i]
    /\ \A i \in 1..Len(l) : c.buffer[c.y][Margin + i - 1] = l[i]

LEMMA PromptIsGlyphic == PROMPT \in Seq(Glyphic)
<1>1. PROMPT \in Seq(STRING) /\ Len(PROMPT) \in Nat /\ DOMAIN PROMPT = 1..Len(PROMPT)
  BY GeometryAssumption, LenProperties
<1>2. ASSUME NEW i \in 1..Len(PROMPT) PROVE PROMPT[i] \in Glyphic
  <2>1. PROMPT[i] \in STRING
    BY <1>1, ElementOfSeq
  <2> QED BY <1>1, <2>1, PromptAssumption DEF Glyphic, Symbols, Codes
<1>3. PROMPT \in [1..Len(PROMPT) -> Glyphic]
  BY <1>1, <1>2
<1> QED BY <1>1, <1>3

LEMMA LineIsPrinted ==
    ASSUME NEW l \in Lines
    PROVE  /\ l \in Seq(Symbols) /\ Len(l) \in Nat
           /\ FitsRow(l) => l \in Seq(Glyphic) /\ Margin + Len(l) < COLUMNS
<1>1. l \in Seq(Chars) /\ Len(l) \in Nat
  BY LinesAreSeqs
<1>2. Chars \subseteq Symbols /\ Chars \ Control \subseteq Glyphic
  BY AsciiAssumption DEF Chars, Symbols, Glyphic, Codes, Control
<1>3. \A i \in 1..Len(l) : l[i] \in Chars
  BY <1>1, ElementOfSeq
<1>4. l \in Seq(Symbols)
  BY <1>1, <1>2
<1>5. ASSUME FitsRow(l)
      PROVE  l \in Seq(Glyphic) /\ Margin + Len(l) < COLUMNS
  <2>1. \A i \in 1..Len(l) : l[i] \in Glyphic
    BY <1>2, <1>3, <1>5 DEF FitsRow
  <2>2. l \in [1..Len(l) -> Glyphic]
    BY <1>1, <2>1
  <2> QED BY <1>1, <1>5, <2>2 DEF FitsRow, Margin
<1> QED BY <1>1, <1>4, <1>5

\* n characters of s, behind the k-th of line l, make line m of it, and leave
\* nothing of a longer l.
Rewrites(l, m, k, s, n) ==
    /\ \A i \in 1..Len(m) : IF k < i /\ i <= k + n THEN s[i - k] = m[i]
                             ELSE i <= Len(l) /\ l[i] = m[i]
    /\ \A i \in (Len(m) + 1)..(COLUMNS - Margin) :
          IF k < i /\ i <= k + n THEN s[i - k] = Space ELSE i > Len(l)

LEMMA Overwritten ==
    ASSUME NEW c \in Consoles, NEW l \in Lines, NEW m \in Lines,
           Margin + Len(l) < COLUMNS, Margin + Len(m) < COLUMNS,
           NEW k \in Nat, NEW n \in Nat, NEW s, NEW d,
           d.y = c.y, d.buffer = Over(c.buffer, c.y, Margin + k, s, n),
           Rewrites(l, m, k, s, n)
    PROVE  /\ RowReads(c, l) => RowReads(d, m)
           /\ BlankFrom(c, Margin + Len(l)) => BlankFrom(d, Margin + Len(m))
<1>0. /\ Margin \in Nat /\ COLUMNS \in Nat /\ Len(l) \in Nat /\ Len(m) \in Nat
      /\ c.y \in RowIndex
  BY Geometry, LineIsPrinted DEF Margin, Consoles
<1>9. /\ \A i \in 1..Len(m) : IF k < i /\ i <= k + n THEN s[i - k] = m[i]
                             ELSE i <= Len(l) /\ l[i] = m[i]
      /\ \A i \in (Len(m) + 1)..(COLUMNS - Margin) :
            IF k < i /\ i <= k + n THEN s[i - k] = Space ELSE i > Len(l)
  BY DEF Rewrites
<1>1. \A r \in RowIndex, col \in ColumnIndex :
          d.buffer[r][col] = IF r = c.y /\ Margin + k <= col /\ col < Margin + k + n
                             THEN s[col - (Margin + k) + 1] ELSE c.buffer[r][col]
  BY DEF Over
<1>2. ASSUME NEW i \in 1..(COLUMNS - Margin)
      PROVE  d.buffer[c.y][Margin + i - 1] =
                 IF k < i /\ i <= k + n THEN s[i - k] ELSE c.buffer[c.y][Margin + i - 1]
  <2> DEFINE col == Margin + i - 1
  <2>1. /\ col \in ColumnIndex /\ col - (Margin + k) + 1 = i - k
        /\ (Margin + k <= col <=> k < i)
        /\ (col < Margin + k + n <=> i <= k + n)
    <3>1. /\ Margin \in Nat /\ COLUMNS \in Nat /\ k \in Nat /\ n \in Nat
          /\ i \in 1..(COLUMNS - Margin)
      BY <1>0
    <3> QED BY ONLY <3>1 DEF ColumnIndex, col
  <2> HIDE DEF col
  <2> QED BY <1>0, <1>1, <2>1 DEF col
<1>3. ASSUME RowReads(c, l) PROVE RowReads(d, m)
  <2>1. ASSUME NEW i \in 1..Margin PROVE d.buffer[d.y][i - 1] = PROMPT[i]
    <3> DEFINE col == i - 1
    <3>1. col \in ColumnIndex /\ ~(Margin + k <= col)
      BY <1>0 DEF ColumnIndex
    <3> HIDE DEF col
    <3>2. d.buffer[c.y][col] = c.buffer[c.y][col]
      BY <1>0, <1>1, <3>1
    <3> QED BY <1>3, <3>2 DEF RowReads, col
  <2>2. ASSUME NEW i \in 1..Len(m) PROVE d.buffer[d.y][Margin + i - 1] = m[i]
    <3>1. i \in 1..(COLUMNS - Margin)
      BY <1>0
    <3>2. ~(k < i /\ i <= k + n) =>
              i \in 1..Len(l) /\ c.buffer[c.y][Margin + i - 1] = m[i]
      BY <1>0, <1>3, <1>9 DEF RowReads
    <3> QED BY <1>2, <1>9, <3>1, <3>2
  <2> QED BY <2>1, <2>2 DEF RowReads
<1>4. ASSUME BlankFrom(c, Margin + Len(l)) PROVE BlankFrom(d, Margin + Len(m))
  <2>1. ASSUME NEW x \in (Margin + Len(m))..(COLUMNS - 1)
        PROVE  d.buffer[d.y][x] = Space
    <3> DEFINE i == x + 1 - Margin
    <3>1. /\ i \in 1..(COLUMNS - Margin) /\ i \in (Len(m) + 1)..(COLUMNS - Margin)
          /\ Margin + i - 1 = x
          /\ i > Len(l) => x \in (Margin + Len(l))..(COLUMNS - 1)
      BY <1>0
    <3> HIDE DEF i
    <3>2. i > Len(l) => c.buffer[c.y][x] = Space
      BY <1>4, <3>1 DEF BlankFrom
    <3>3. d.buffer[c.y][x] =
              IF k < i /\ i <= k + n THEN s[i - k] ELSE c.buffer[c.y][x]
      BY <1>2, <3>1
    <3> QED BY <1>9, <3>1, <3>2, <3>3
  <2>2. ASSUME NEW y \in (d.y + 1)..(ROWS - 1)
        PROVE  d.buffer[y] = BlankRow
    <3>1. y \in RowIndex /\ y # c.y /\ y \in (c.y + 1)..(ROWS - 1)
      BY <1>0, Geometry DEF RowIndex
    <3>2. c.buffer[y] = BlankRow
      BY <1>4, <3>1 DEF BlankFrom
    <3>3. d.buffer[y] = [col \in ColumnIndex |-> c.buffer[y][col]]
      BY <3>1 DEF Over
    <3>4. c.buffer[y] \in [ColumnIndex -> Symbols]
      BY <3>1 DEF Consoles
    <3> QED BY <3>2, <3>3, <3>4
  <2> QED BY <2>1, <2>2 DEF BlankFrom
<1> QED BY <1>3, <1>4

LEMMA WriteOne ==
    ASSUME NEW c \in Consoles
    PROVE  /\ Shows(WriteStr(c, <<"BELL">>), c.x, c.y, c.buffer)
           /\ Shows(WriteStr(c, <<"BS">>), IF c.x > 0 THEN c.x - 1 ELSE 0, c.y, c.buffer)
           /\ WriteStr(c, << >>) \in Consoles
           /\ Shows(WriteStr(c, << >>), c.x, c.y, c.buffer)
<1>1. Shows(PutChar(c, "BELL"), c.x, c.y, c.buffer)
  BY CursorOnly DEF PutChar
<1>2. ASSUME NEW d, NEW x, Shows(d, x, c.y, c.buffer)
      PROVE  Shows(ShowCursor(d), x, c.y, c.buffer)
  BY <1>2, CursorOnly DEF Shows
<1>3. Shows(c, c.x, c.y, c.buffer)
  BY DEF Shows
<1> QED BY <1>1, <1>2, <1>3, BackspacePut, WriteShowsPut, PutOne, PutNothing DEF Shows

LEMMA WriteAny ==
    ASSUME NEW c \in Consoles, NEW s \in Seq(Symbols)
    PROVE  /\ WriteStr(c, s) \in Consoles
           /\ Shows(WriteStr(c, s), Put(c, s).x, Put(c, s).y, Put(c, s).buffer)
BY AnyText, WriteShowsPut, CursorOnly DEF Shows

\* Characters on the row of the cursor, as Echo and CursorRight print them.
LEMMA WriteGlyphs ==
    ASSUME NEW c \in Consoles, NEW s \in Seq(Glyphic), c.x + Len(s) < COLUMNS
    PROVE  Shows(WriteStr(c, s), c.x + Len(s), c.y, Over(c.buffer, c.y, c.x, s, Len(s)))
<1> DEFINE d == Put(c, s)
<1>1. Shows(d, c.x + Len(s), c.y, Over(c.buffer, c.y, c.x, s, Len(s)))
  BY GlyphText
<1>2. WriteStr(c, s) = ShowCursor(d)
  BY WriteShowsPut
<1> HIDE DEF d
<1>3. Shows(ShowCursor(d), d.x, d.y, d.buffer)
  BY <1>1, CursorOnly DEF Shows
<1> QED BY <1>1, <1>2, <1>3 DEF Shows

LEMMA ConsoleFacts ==
    ASSUME NEW c \in Consoles
    PROVE  /\ c.x \in Nat /\ c.y \in Nat /\ c.x \in ColumnIndex /\ c.y \in RowIndex
           /\ c.x < COLUMNS /\ c.buffer \in [RowIndex -> [ColumnIndex -> Symbols]]
<1>1. /\ c.x \in ColumnIndex /\ c.y \in RowIndex
      /\ c.buffer \in [RowIndex -> [ColumnIndex -> Symbols]]
  BY DEF Consoles
<1>2. \A x \in ColumnIndex : x < COLUMNS
  BY Geometry DEF ColumnIndex
<1> QED BY <1>1, <1>2, Geometry

\* Strings the shell may print, and writing two of them one after the other.
Strings == Seq(Symbols)

LEMMA StringFacts ==
    /\ Seq(Glyphic) \subseteq Strings /\ << >> \in Strings
    /\ \A ch \in Codes \cup {Space, "o"} : <<ch>> \in Strings
    /\ \A ch \in Codes \cup {Space, "o"} : \A n \in Nat : Repeat(ch, n) \in Strings
<1>1. Glyphic \subseteq Symbols
  BY DEF Glyphic
<1>2. \A ch \in Codes \cup {Space, "o"} : ch \in Symbols
  BY DEF Codes, Symbols, Space
<1> HIDE DEF Codes, Space
<1>3. \A ch \in Codes \cup {Space, "o"} : <<ch>> \in Seq(Symbols)
  BY <1>2
<1>4. \A ch \in Codes \cup {Space, "o"} : \A n \in Nat : Repeat(ch, n) \in Seq(Symbols)
  BY <1>2 DEF Repeat
<1>5. Seq(Glyphic) \subseteq Seq(Symbols)
  BY <1>1
<1> QED BY <1>3, <1>4, <1>5 DEF Strings

LEMMA Concat ==
    ASSUME NEW s \in Strings, NEW t \in Strings
    PROVE  s \o t \in Strings /\ \A c : Put(c, s \o t) = Put(Put(c, s), t)
BY PutConcat, ConcatProperties DEF Strings

LEMMA WriteIs ==
    ASSUME NEW c, NEW s, NEW x, NEW y, NEW text, Shows(Put(c, s), x, y, text)
    PROVE  Shows(WriteStr(c, s), x, y, text)
<1> DEFINE d == Put(c, s)
<1>1. WriteStr(c, s) = ShowCursor(d)
  BY WriteShowsPut
<1> HIDE DEF d
<1>2. Shows(d, x, y, text)
  BY DEF d
<1>3. Shows(ShowCursor(d), d.x, d.y, d.buffer)
  BY <1>2, CursorOnly DEF Shows
<1> QED BY <1>1, <1>2, <1>3 DEF Shows

LEMMA RepeatIs ==
    ASSUME NEW S, NEW ch \in S, NEW n \in Nat
    PROVE  /\ Repeat(ch, n) \in Seq(S) /\ Len(Repeat(ch, n)) = n
           /\ \A i \in 1..n : Repeat(ch, n)[i] = ch
BY DEF Repeat

\* Redraw: the rest of the line again, and back to behind its first character.
LEMMA RedrawShows ==
    ASSUME NEW c \in Consoles, NEW s \in Seq(Glyphic), Len(s) > 0, c.x + Len(s) < COLUMNS
    PROVE  Shows(WriteStr(c, RedrawText(s, 0)), c.x + 1, c.y,
                 Over(c.buffer, c.y, c.x, s, Len(s)))
<1> DEFINE d == Put(c, s)
           n == Len(s) - 1
           text == Over(c.buffer, c.y, c.x, s, Len(s))
<1>0. Len(s) \in Nat /\ c.x \in Nat /\ s \in Strings
  BY LenProperties, ConsoleFacts, StringFacts
<1>1. RedrawText(s, 0) = s \o Repeat("BS", n)
  <2>1. ~(0 > Len(s)) /\ Len(s) + 0 - 1 = n /\ n >= 0
    BY <1>0
  <2>2. Repeat(Space, 0) = << >>
    BY DEF Repeat
  <2>3. s \o << >> = s
    OBVIOUS
  <2>4. RedrawText(s, 0) = s \o Repeat(Space, 0) \o Repeat("BS", IF n > 0 THEN n ELSE 0)
    BY <2>1 DEF RedrawText
  <2>5. (IF n > 0 THEN n ELSE 0) = n
    BY <2>1, <1>0
  <2> QED BY <2>2, <2>3, <2>4, <2>5
<1>2. n \in Nat
  BY <1>0
<1>3. Shows(d, c.x + Len(s), c.y, text)
  BY GlyphText
<1>4. Put(c, s \o Repeat("BS", n)) = Put(d, Repeat("BS", n))
  <2>1. "BS" \in Codes
    BY DEF Codes
  <2> HIDE DEF n
  <2> QED BY <1>0, <1>2, <2>1, StringFacts, Concat
<1> HIDE DEF d, text
<1>5. d \in Consoles /\ d.x = c.x + Len(s) /\ d.y = c.y /\ d.buffer = text
  BY <1>3 DEF Shows
<1>6. n <= d.x /\ d.x - n = c.x + 1
  BY <1>0, <1>5
<1>7. Shows(Put(d, Repeat("BS", n)), d.x - n, d.y, d.buffer)
  <2> HIDE DEF n
  <2> QED BY <1>2, <1>5, <1>6, BackText
<1>8. Shows(Put(c, RedrawText(s, 0)), c.x + 1, c.y, text)
  BY <1>1, <1>4, <1>5, <1>6, <1>7
<1> QED BY <1>8, WriteIs DEF text

\* Backspace: back, the rest of the line and a blank, and back to where it starts.
LEMMA BackspaceShows ==
    ASSUME NEW c \in Consoles, NEW s \in Seq(Glyphic), c.x > 0, c.x + Len(s) < COLUMNS
    PROVE  Shows(WriteStr(c, BackspaceText(s)), c.x - 1, c.y,
                 Over(c.buffer, c.y, c.x - 1, Append(s, Space), Len(s) + 1))
<1> DEFINE t == Append(s, Space)
           n == Len(s)
           x == c.x - 1
           R == Repeat("BS", n)
           text == Over(c.buffer, c.y, x, t, n + 1)
           d == Put(c, <<"BS">>)
           e == Put(d, t)
           f == Put(e, <<"BS">>)
<1>0. n \in Nat /\ c.x \in Nat /\ x \in Nat /\ s \in Strings /\ Space \in Glyphic
  <2>1. n \in Nat
    BY LenProperties
  <2>2. c.x \in Nat /\ x \in Nat
    BY ConsoleFacts
  <2> QED BY <2>1, <2>2, SpaceIsGlyphic, StringFacts
<1>1. R \in Strings /\ <<"BS">> \in Strings
  <2>1. "BS" \in Codes
    BY DEF Codes
  <2> HIDE DEF n
  <2> QED BY <1>0, <2>1, StringFacts
<1>2. t \in Seq(Glyphic) /\ Len(t) = n + 1 /\ t = s \o <<Space>>
  BY <1>0, AppendProperties, AppendIsConcat
<1>3. Put(c, BackspaceText(s)) = Put(f, R)
  <2> DEFINE p == <<"BS">>
             q == <<Space>>
  <2>1. p \in Strings /\ q \in Strings
    BY <1>1, StringFacts
  <2>2. <<Space, "BS">> = q \o p
    OBVIOUS
  <2>3. BackspaceText(s) = ((p \o s) \o (q \o p)) \o R
    BY <2>2 DEF BackspaceText
  <2>4. t = s \o q
    BY <1>2
  <2> HIDE DEF p, q, R, n, t
  <2>5. p \o s \in Strings /\ q \o p \in Strings
    BY <1>0, <2>1, Concat
  <2>6. Put(c, BackspaceText(s)) = Put(Put(c, (p \o s) \o (q \o p)), R)
    BY <1>1, <2>3, <2>5, Concat
  <2>7. Put(c, (p \o s) \o (q \o p)) = Put(Put(c, p \o s), q \o p)
    BY <2>5, Concat
  <2>8. Put(c, p \o s) = Put(Put(c, p), s)
    BY <1>0, <2>1, Concat
  <2>9. Put(Put(Put(c, p), s), q \o p) = Put(Put(Put(Put(c, p), s), q), p)
    BY <2>1, Concat
  <2>10. Put(Put(Put(c, p), s), q) = Put(Put(c, p), t)
    BY <1>0, <2>1, <2>4, Concat
  <2> QED BY <2>6, <2>7, <2>8, <2>9, <2>10 DEF p
<1>4. Shows(d, x, c.y, c.buffer)
  BY BackspacePut, PutOne
<1> HIDE DEF d
<1>5. d \in Consoles /\ d.x = x /\ d.y = c.y /\ d.buffer = c.buffer
  BY <1>4 DEF Shows
<1>6. Shows(e, x + (n + 1), c.y, text)
  <2> HIDE DEF t
  <2>1. d.x + Len(t) < COLUMNS
    BY <1>0, <1>2, <1>5, Geometry
  <2>2. Shows(Put(d, t), d.x + Len(t), d.y, Over(d.buffer, d.y, d.x, t, Len(t)))
    BY <1>2, <1>5, <2>1, GlyphText
  <2> QED BY <1>2, <1>5, <2>2
<1> HIDE DEF e, text
<1>7. e \in Consoles /\ e.x = x + (n + 1) /\ e.y = c.y /\ e.buffer = text
  BY <1>6 DEF Shows
<1>8. Shows(f, x + n, c.y, text)
  <2>1. e.x > 0 /\ e.x - 1 = x + n
    BY <1>0, <1>7
  <2>2. Shows(PutChar(e, "BS"), e.x - 1, e.y, e.buffer)
    BY <1>7, <2>1, BackspacePut
  <2> QED BY <1>7, <2>1, <2>2, PutOne
<1> HIDE DEF f
<1>9. f \in Consoles /\ f.x = x + n /\ f.y = c.y /\ f.buffer = text
  BY <1>8 DEF Shows
<1>10. Shows(Put(f, R), x, c.y, text)
  <2>1. n <= f.x /\ f.x - n = x
    BY <1>0, <1>9
  <2> HIDE DEF n
  <2>2. Shows(Put(f, Repeat("BS", n)), f.x - n, f.y, f.buffer)
    BY <1>0, <1>9, <2>1, BackText
  <2> QED BY <1>9, <2>1, <2>2
<1>11. Shows(Put(c, BackspaceText(s)), x, c.y, text)
  BY <1>3, <1>10
<1> QED BY <1>11, WriteIs DEF text

\* The prompt and a line behind it, from the start of a row.
LEMMA PromptShows ==
    ASSUME NEW d \in Consoles, d.x = 0, NEW l \in Lines, FitsRow(l)
    PROVE  LET p == WriteStr(d, PROMPT \o l) IN
           /\ p \in Consoles /\ p.x = Margin + Len(l) /\ RowReads(p, l)
           /\ BlankFrom(d, 0) => BlankFrom(p, Margin + Len(l))
<1> DEFINE s == PROMPT \o l
           p == WriteStr(d, s)
           n == Len(s)
<1>1. /\ l \in Seq(Glyphic) /\ Len(l) \in Nat /\ Margin + Len(l) < COLUMNS
      /\ PROMPT \in Seq(Glyphic) /\ Margin \in Nat
  BY LineIsPrinted, PromptIsGlyphic, Geometry DEF Margin
<1>2. /\ s \in Seq(Glyphic) /\ n = Margin + Len(l)
      /\ \A i \in 1..n : s[i] = IF i <= Margin THEN PROMPT[i] ELSE l[i - Margin]
  BY <1>1, ConcatProperties DEF Margin
<1> HIDE DEF s
<1>3. Shows(p, n, d.y, Over(d.buffer, d.y, 0, s, n))
  <2>1. 0 + n = n /\ 0 + Len(s) < COLUMNS
    BY <1>1, <1>2
  <2> QED BY <1>2, <2>1, WriteGlyphs
<1> HIDE DEF p, n
<1>4. /\ p \in Consoles /\ p.x = n /\ p.y = d.y
      /\ p.buffer = Over(d.buffer, d.y, 0, s, n)
  BY <1>3 DEF Shows
<1>5. \A r \in RowIndex, col \in ColumnIndex :
          p.buffer[r][col] = IF r = d.y /\ col < n THEN s[col + 1] ELSE d.buffer[r][col]
  <2> TAKE r \in RowIndex, col \in ColumnIndex
  <2>1. col \in Nat /\ n \in Nat
    BY <1>1, <1>2, Geometry
  <2>2. 0 <= col /\ col - 0 + 1 = col + 1 /\ (col < 0 + n <=> col < n)
    BY <2>1
  <2> QED BY <1>4, <2>2 DEF Over
<1>6. RowReads(p, l)
  <2>1. ASSUME NEW i \in 1..n PROVE p.buffer[p.y][i - 1] = s[i]
    <3> DEFINE col == i - 1
    <3>1. col \in ColumnIndex /\ col < n /\ col + 1 = i
      BY <1>1, <1>2, Geometry DEF ColumnIndex
    <3> HIDE DEF col
    <3> QED BY <1>4, <1>5, <3>1, ConsoleFacts DEF col
  <2>2. ASSUME NEW i \in 1..Margin PROVE p.buffer[p.y][i - 1] = PROMPT[i]
    <3>1. i \in 1..n /\ i <= Margin
      BY <1>1, <1>2
    <3> QED BY <1>2, <2>1, <3>1
  <2>3. ASSUME NEW i \in 1..Len(l) PROVE p.buffer[p.y][Margin + i - 1] = l[i]
    <3> DEFINE k == Margin + i
    <3>1. k \in 1..n /\ ~(k <= Margin) /\ k - Margin = i
      BY <1>1, <1>2
    <3> HIDE DEF k
    <3>2. p.buffer[p.y][k - 1] = l[i]
      BY <1>2, <2>1, <3>1
    <3>3. k - 1 = Margin + i - 1
      BY <1>1 DEF k
    <3> QED BY ONLY <3>2, <3>3
  <2> QED BY <2>2, <2>3 DEF RowReads
<1>7. ASSUME BlankFrom(d, 0) PROVE BlankFrom(p, n)
  <2>1. ASSUME NEW x \in n..(COLUMNS - 1) PROVE p.buffer[p.y][x] = Space
    <3>1. x \in ColumnIndex /\ ~(x < n) /\ x \in 0..(COLUMNS - 1)
      BY <1>1, <1>2, Geometry DEF ColumnIndex
    <3>2. p.buffer[d.y][x] = d.buffer[d.y][x]
      BY <1>5, <3>1, ConsoleFacts
    <3> QED BY <1>4, <1>7, <3>1, <3>2 DEF BlankFrom
  <2>2. ASSUME NEW y \in (p.y + 1)..(ROWS - 1) PROVE p.buffer[y] = BlankRow
    <3>1. y \in RowIndex /\ y # d.y /\ y \in (d.y + 1)..(ROWS - 1)
      BY <1>4, ConsoleFacts, Geometry DEF RowIndex
    <3>2. p.buffer[y] = [col \in ColumnIndex |-> d.buffer[y][col]]
      BY <1>4, <3>1 DEF Over
    <3>3. d.buffer[y] \in [ColumnIndex -> Symbols]
      BY <3>1, ConsoleFacts
    <3> QED BY <1>7, <3>1, <3>2, <3>3 DEF BlankFrom
  <2> QED BY <2>1, <2>2 DEF BlankFrom
<1> QED BY <1>2, <1>4, <1>6, <1>7 DEF p, s

\* ClearLine and RedrawLine: the row is drawn over with blanks, then with prompt
\* and line.
LEMMA ClearLineShows ==
    ASSUME NEW c \in Consoles, NEW n \in Nat, NEW l \in Lines, FitsRow(l)
    PROVE  LET p == WriteStr(c, ClearLineText(n) \o l) IN
           /\ p \in Consoles /\ p.x = Margin + Len(l) /\ RowReads(p, l)
           /\ \A m \in Nat : m <= n /\ Margin + n < COLUMNS /\ BlankFrom(c, Margin + m) =>
                 BlankFrom(p, Margin + Len(l))
<1> DEFINE k == n + Len(PROMPT)
           B == Repeat(Space, k)
           R == <<"CR">>
           pre == (R \o B) \o R
           s == PROMPT \o l
           a == Put(c, R)
           b == Put(a, B)
           d == Put(b, R)
           p == WriteStr(c, ClearLineText(n) \o l)
<1>1. k \in Nat /\ Margin \in Nat /\ k = Margin + n
  BY Geometry DEF Margin
<1>2. B \in Strings /\ R \in Strings /\ PROMPT \in Strings /\ l \in Strings
  <2>1. "CR" \in Codes /\ Space \in {Space, "o"}
    BY DEF Codes
  <2> HIDE DEF k
  <2> QED BY <1>1, <2>1, StringFacts, PromptIsGlyphic, LineIsPrinted
<1>3. ClearLineText(n) \o l = (pre \o PROMPT) \o l
  BY DEF ClearLineText
<1>4. p = WriteStr(d, s)
  <2> HIDE DEF B, R
  <2>1. R \o B \in Strings /\ pre \in Strings /\ pre \o PROMPT \in Strings /\ s \in Strings
    BY <1>2, Concat
  <2>2. Put(c, pre) = d
    BY <1>2, <2>1, Concat
  <2> HIDE DEF pre, d
  <2>3. Put(c, (pre \o PROMPT) \o l) = Put(d, s)
    <3>1. Put(c, (pre \o PROMPT) \o l) = Put(Put(c, pre \o PROMPT), l)
      BY <1>2, <2>1, Concat
    <3>2. Put(c, pre \o PROMPT) = Put(d, PROMPT)
      BY <1>2, <2>1, <2>2, Concat
    <3>3. Put(d, s) = Put(Put(d, PROMPT), l)
      BY <1>2, Concat
    <3> QED BY <3>1, <3>2, <3>3
  <2> QED BY <1>3, <2>3, WriteShowsPut
<1>5. Shows(a, 0, c.y, c.buffer)
  BY ReturnPut, PutOne
<1> HIDE DEF a
<1>6. a \in Consoles /\ a.x = 0 /\ a.y = c.y /\ a.buffer = c.buffer
  BY <1>5 DEF Shows
<1>7. b \in Consoles
  <2> HIDE DEF B
  <2> QED BY <1>2, <1>6, AnyText DEF Strings
<1>8. Shows(d, 0, b.y, b.buffer)
  <2> HIDE DEF b
  <2> QED BY <1>7, ReturnPut, PutOne
<1>9. d \in Consoles /\ d.x = 0 /\ d.y = b.y /\ d.buffer = b.buffer
  <2> HIDE DEF d, b
  <2> QED BY <1>8 DEF Shows
<1>10. /\ p \in Consoles /\ p.x = Margin + Len(l) /\ RowReads(p, l)
       /\ BlankFrom(d, 0) => BlankFrom(p, Margin + Len(l))
  <2> HIDE DEF d, p
  <2> QED BY <1>4, <1>9, PromptShows
<1>11. ASSUME NEW m \in Nat, m <= n, Margin + n < COLUMNS, BlankFrom(c, Margin + m)
       PROVE  BlankFrom(d, 0)
  <2>1. B \in Seq(Glyphic) /\ Len(B) = k /\ \A i \in 1..k : B[i] = Space
    <3> HIDE DEF k
    <3> QED BY <1>1, SpaceIsGlyphic, RepeatIs
  <2>2. Shows(b, k, c.y, Over(c.buffer, c.y, 0, B, k))
    <3>1. a.x + Len(B) < COLUMNS /\ a.x + Len(B) = k
      BY <1>1, <1>6, <1>11, <2>1
    <3> HIDE DEF B
    <3>2. Shows(b, a.x + Len(B), a.y, Over(a.buffer, a.y, a.x, B, Len(B)))
      BY <1>6, <2>1, <3>1, GlyphText
    <3> QED BY <1>6, <2>1, <3>1, <3>2
  <2> HIDE DEF b, d, B, k
  <2>3. d.y = c.y /\ d.buffer = Over(c.buffer, c.y, 0, B, k)
    BY <1>9, <2>2 DEF Shows
  <2>4. ASSUME NEW x \in 0..(COLUMNS - 1) PROVE d.buffer[d.y][x] = Space
    <3>1. x \in ColumnIndex /\ x \in Nat /\ x - 0 + 1 = x + 1 /\ 0 <= x
      BY DEF ColumnIndex
    <3>2. d.buffer[c.y][x] = IF x < 0 + k THEN B[x - 0 + 1] ELSE c.buffer[c.y][x]
      BY <2>3, <3>1, ConsoleFacts DEF Over
    <3>3. x < 0 + k => x + 1 \in 1..k
      BY <1>1, <3>1
    <3>4. ~(x < 0 + k) => x \in (Margin + m)..(COLUMNS - 1)
      BY <1>1, <1>11, <3>1
    <3>5. ~(x < 0 + k) => c.buffer[c.y][x] = Space
      BY <1>11, <3>4 DEF BlankFrom
    <3> QED BY <2>1, <2>3, <3>1, <3>2, <3>3, <3>5
  <2>5. ASSUME NEW y \in (d.y + 1)..(ROWS - 1) PROVE d.buffer[y] = BlankRow
    <3>1. y \in RowIndex /\ y # c.y /\ y \in (c.y + 1)..(ROWS - 1)
      BY <2>3, ConsoleFacts, Geometry DEF RowIndex
    <3>2. d.buffer[y] = [col \in ColumnIndex |-> c.buffer[y][col]]
      BY <2>3, <3>1 DEF Over
    <3>3. c.buffer[y] \in [ColumnIndex -> Symbols]
      BY <3>1, ConsoleFacts
    <3> QED BY <1>11, <3>1, <3>2, <3>3 DEF BlankFrom
  <2> QED BY <2>4, <2>5 DEF BlankFrom
<1> HIDE DEF p, d
<1> QED BY <1>10, <1>11 DEF p

\* The output of a command and the prompt are at the start of rows.
LEMMA OutputEndsRow ==
    ASSUME NEW cmd \in Lines, NEW out \in Outputs(cmd)
    PROVE  \/ out = << >>
           \/ \E q \in Seq(Forward), end \in {"LF", "FF"} : out = q \o <<end>>
<1>1. Len(cmd) \in Nat /\ "o" \in Forward /\ "LF" \in Forward
  BY LineIsPrinted, SpaceIsGlyphic DEF Forward
<1>2. CASE out = <<"FF">> \/ out = <<"LF">>
  <2>1. << >> \in Seq(Forward) /\ out = << >> \o out
    BY <1>2
  <2> QED BY <1>2, <2>1
<1>3. CASE out = <<"o", "LF", "o", "LF">>
  <2>1. <<"o", "LF", "o">> \in Seq(Forward) /\ out = <<"o", "LF", "o">> \o <<"LF">>
    BY <1>1, <1>3
  <2> QED BY <2>1
<1>4. CASE out = <<"o">> \o Repeated(cmd) \o <<"LF">>
  <2>1. \A i \in 1..Len(cmd) :
            (IF cmd[i] \in Control THEN cmd[i] ELSE "o") \in Forward
    BY <1>1 DEF Control, Forward
  <2>2. Repeated(cmd) \in Seq(Forward)
    BY <1>1, <2>1 DEF Repeated
  <2>3. <<"o">> \in Seq(Forward)
    BY <1>1
  <2> DEFINE r == Repeated(cmd)
             o == <<"o">>
  <2> HIDE DEF r, o
  <2>4. o \o r \in Seq(Forward)
    BY <2>2, <2>3, ConcatProperties DEF r, o
  <2> QED BY <1>4, <2>4 DEF r, o
<1> QED BY <1>2, <1>3, <1>4 DEF Outputs, CommandTexts

LEMMA SubmitShows ==
    ASSUME NEW c \in Consoles, NEW cmd \in Lines, NEW out \in Outputs(cmd)
    PROVE  LET p == WriteStr(c, <<"LF">> \o out \o PROMPT) IN
           /\ p \in Consoles /\ p.x = Margin /\ RowReads(p, << >>)
           /\ \A m : BlankFrom(c, m) => BlankFrom(p, Margin)
<1> DEFINE lf == <<"LF">>
           a == Put(c, lf)
           d == Put(a, out)
           p == WriteStr(c, <<"LF">> \o out \o PROMPT)
<1>1. lf \in Strings /\ PROMPT \in Strings
  BY StringFacts, PromptIsGlyphic DEF Codes
<1>2. Forward \subseteq Symbols /\ \A end \in {"LF", "FF"} : end \in Forward
  BY DEF Forward, Symbols, Codes, Glyphic
<1>3. Shows(a, 0, NextRow(c.y), TextBelow(c.y, c.buffer))
  BY LineFeedPut, PutOne
<1>4. a \in Consoles /\ a.x = 0
  <2> HIDE DEF a
  <2> QED BY <1>3 DEF Shows
<1>5. ASSUME NEW m, BlankFrom(c, m) PROVE BlankFrom(a, 0)
  <2>1. \A r \in (c.y + 1)..(ROWS - 1) : c.buffer[r] = BlankRow
    BY <1>5 DEF BlankFrom
  <2> HIDE DEF a
  <2> QED BY <1>3, <2>1, NextRowIsBlank, ConsoleFacts
<1> HIDE DEF a
<1>6. /\ out \in Strings /\ d \in Consoles /\ d.x = 0
      /\ BlankFrom(a, 0) => BlankFrom(d, 0)
  <2>1. CASE out = << >>
    <3>1. d = a
      BY <2>1, PutNothing
    <3> HIDE DEF d
    <3> QED BY <1>4, <2>1, <3>1, StringFacts
  <2>2. ASSUME NEW q \in Seq(Forward), NEW end \in {"LF", "FF"}, out = q \o <<end>>
        PROVE  /\ out \in Strings /\ d \in Consoles /\ d.x = 0
               /\ BlankFrom(a, 0) => BlankFrom(d, 0)
    <3> DEFINE e == Put(a, q)
               f == PutChar(e, end)
    <3>1. q \in Strings /\ <<end>> \in Strings /\ end \in Forward
      BY <1>2 DEF Strings
    <3>2. out \in Strings /\ d = f
      BY <2>2, <3>1, Concat, PutOne
    <3>3. e \in Consoles
      BY <1>4, <3>1, AnyText DEF Strings
    <3>4. BlankFrom(a, 0) => BlankFrom(e, e.x)
      BY <1>4, ForwardText
    <3> HIDE DEF e
    <3>5. f \in Consoles /\ f.x = 0
      <4>1. CASE end = "LF"
        BY <3>3, <4>1, LineFeedPut DEF Shows
      <4>2. CASE end = "FF"
        BY <3>3, <4>2, FormFeedPut DEF Shows
      <4> QED BY <4>1, <4>2
    <3>6. BlankFrom(e, e.x) => BlankFrom(f, f.x)
      BY <3>1, <3>3, ForwardPut
    <3> HIDE DEF d, f
    <3> QED BY <3>2, <3>4, <3>5, <3>6
  <2> HIDE DEF d
  <2> QED BY <2>1, <2>2, OutputEndsRow
<1>7. p = WriteStr(d, PROMPT)
  <2> HIDE DEF lf
  <2>1. lf \o out \in Strings /\ Put(c, lf \o out) = d
    BY <1>1, <1>6, Concat DEF a
  <2> HIDE DEF d
  <2>2. Put(c, lf \o out \o PROMPT) = Put(d, PROMPT)
    BY <1>1, <2>1, Concat
  <2> QED BY <2>2, WriteShowsPut DEF lf
<1> HIDE DEF p, d
<1>8. /\ p \in Consoles /\ p.x = Margin /\ RowReads(p, << >>)
      /\ BlankFrom(d, 0) => BlankFrom(p, Margin)
  <2>1. FitsRow(<< >>) /\ Len(<< >>) = 0 /\ Margin + 0 = Margin
    BY Geometry DEF FitsRow, Margin
  <2>2. PROMPT \o << >> = PROMPT
    BY GeometryAssumption
  <2> DEFINE l == << >>
  <2>3. l \in Lines /\ FitsRow(l) /\ Margin + Len(l) = Margin /\ PROMPT \o l = PROMPT
    BY <2>1, <2>2, EmptyLine
  <2> HIDE DEF l
  <2>4. /\ p \in Consoles /\ p.x = Margin /\ RowReads(p, l)
        /\ BlankFrom(d, 0) => BlankFrom(p, Margin)
    BY <1>6, <1>7, <2>3, PromptShows
  <2> QED BY <2>4 DEF l
<1> QED BY <1>5, <1>6, <1>8 DEF p

-----------------------------------------------------------------------------
(* The keys that draw relative to the cursor: after each the row reads the new *)
(* line, with the cursor behind k of its characters.                          *)

Becomes(c, l, p, m, k) ==
    /\ p \in Consoles /\ p.x = Margin + k /\ RowReads(p, m)
    /\ BlankFrom(c, Margin + Len(l)) => BlankFrom(p, Margin + Len(m))

\* the row reads a line, with the cursor behind k of its characters
Draws(c, l, k) ==
    c \in Consoles /\ l \in Lines /\ FitsRow(l) /\ c.x = Margin + k /\ RowReads(c, l)

LEMMA RewriteDraws ==
    ASSUME NEW c, NEW l, NEW h, Draws(c, l, h), NEW m \in Lines, FitsRow(m),
           NEW k \in Nat, NEW n \in Nat, NEW s, Rewrites(l, m, k, s, n),
           NEW p, NEW j, Shows(p, Margin + j, c.y, Over(c.buffer, c.y, Margin + k, s, n))
    PROVE  Becomes(c, l, p, m, j)
<1>1. c \in Consoles /\ l \in Lines /\ RowReads(c, l)
  BY DEF Draws
<1>2. Margin + Len(l) < COLUMNS /\ Margin + Len(m) < COLUMNS
  BY LineIsPrinted DEF Draws
<1>3. /\ p \in Consoles /\ p.x = Margin + j /\ p.y = c.y
      /\ p.buffer = Over(c.buffer, c.y, Margin + k, s, n)
  BY DEF Shows
<1>4. /\ RowReads(c, l) => RowReads(p, m)
      /\ BlankFrom(c, Margin + Len(l)) => BlankFrom(p, Margin + Len(m))
  BY <1>1, <1>2, <1>3, Overwritten
<1> QED BY <1>1, <1>3, <1>4 DEF Becomes

LEMMA EchoDraws ==
    ASSUME NEW c, NEW l, Draws(c, l, Len(l)), NEW ch \in Chars, NEW m \in Lines, FitsRow(m),
           m = Append(l, ch)
    PROVE  Becomes(c, l, WriteStr(c, <<ch>>), m, Len(l) + 1)
<1>0. /\ c \in Consoles /\ l \in Lines /\ c.x = Margin + Len(l) /\ RowReads(c, l)
      /\ Margin \in Nat
  BY Geometry DEF Draws, Margin
<1>1. /\ l \in Seq(Chars) /\ Len(l) \in Nat /\ Len(m) = Len(l) + 1
      /\ \A i \in 1..Len(l) : m[i] = l[i]
      /\ m[Len(l) + 1] = ch
      /\ m \in Seq(Glyphic) /\ Margin + Len(m) < COLUMNS
  <2>1. l \in Seq(Chars) /\ Len(l) \in Nat
    BY <1>0, LinesAreSeqs
  <2>2. /\ Len(m) = Len(l) + 1 /\ m[Len(l) + 1] = ch
        /\ \A i \in 1..Len(l) : m[i] = l[i]
    BY <2>1, AppendProperties
  <2> QED BY <2>1, <2>2, LineIsPrinted
<1>2. ch \in Glyphic
  <2>1. Len(m) \in 1..Len(m)
    BY <1>1
  <2> QED BY <1>1, <2>1, ElementOfSeq
<1> DEFINE s == <<ch>>
           p == WriteStr(c, s)
           n == Len(l)
<1>3. s \in Seq(Glyphic) /\ Len(s) = 1 /\ s[1] = ch
  BY <1>2
<1> HIDE DEF s
<1>4. Shows(p, Margin + (n + 1), c.y, Over(c.buffer, c.y, Margin + n, s, 1))
  <2>1. c.x + Len(s) < COLUMNS /\ c.x + Len(s) = Margin + (n + 1)
    BY <1>0, <1>1, <1>3
  <2>2. Shows(p, c.x + Len(s), c.y, Over(c.buffer, c.y, c.x, s, Len(s)))
    BY <1>0, <1>3, <2>1, WriteGlyphs
  <2> QED BY <1>0, <1>3, <2>1, <2>2
<1> HIDE DEF p
<1>5. Rewrites(l, m, n, s, 1)
  <2>1. ASSUME NEW i \in 1..Len(m)
        PROVE  IF n < i /\ i <= n + 1 THEN s[i - n] = m[i] ELSE i <= Len(l) /\ l[i] = m[i]
    <3>1. CASE i = n + 1
      <4>1. i - n = 1
        BY <1>1, <3>1
      <4> QED BY <1>1, <1>3, <3>1, <4>1
    <3>2. CASE i # n + 1
      <4>1. i \in 1..n
        BY <1>1, <3>2
      <4> QED BY <1>1, <4>1
    <3> QED BY <3>1, <3>2
  <2>2. \A i \in (Len(m) + 1)..(COLUMNS - Margin) :
            IF n < i /\ i <= n + 1 THEN s[i - n] = Space ELSE i > Len(l)
    BY <1>0, <1>1, Geometry
  <2> HIDE DEF n
  <2> QED BY <2>1, <2>2 DEF Rewrites
<1>6. n \in Nat
  BY <1>1
<1> HIDE DEF n
<1>7. Becomes(c, l, p, m, n + 1)
  BY <1>4, <1>5, <1>6, RewriteDraws DEF n
<1> QED BY <1>7 DEF p, s, n

LEMMA InsertDraws ==
    ASSUME NEW c, NEW l, NEW k \in Nat, k < Len(l), Draws(c, l, k), NEW ch \in Chars,
           NEW m \in Lines, FitsRow(m), m = InsertAt(l, k + 1, ch)
    PROVE  Becomes(c, l, WriteStr(c, RedrawText(SubSeq(m, k + 1, Len(m)), 0)), m, k + 1)
<1> DEFINE s == SubSeq(m, k + 1, Len(m))
           p == WriteStr(c, RedrawText(s, 0))
           n == Len(s)
           pos == k + 1
<1>0. c \in Consoles /\ l \in Lines /\ c.x = Margin + k /\ Margin \in Nat
  BY Geometry DEF Draws, Margin
<1>1. l \in Seq(Chars) /\ Len(l) \in Nat
  BY <1>0, LinesAreSeqs
<1>2. /\ Len(m) = Len(l) + 1
      /\ \A i \in 1..(Len(l) + 1) :
            m[i] = IF i < pos THEN l[i] ELSE IF i = pos THEN ch ELSE l[i - 1]
  <2>1. pos \in 1..(Len(l) + 1)
    BY <1>1
  <2>2. m = InsertAt(l, pos, ch)
    OBVIOUS
  <2> HIDE DEF pos
  <2> QED BY <1>1, <2>1, <2>2, InsertAtFacts
<1>3. m \in Seq(Glyphic) /\ Margin + Len(m) < COLUMNS
  BY LineIsPrinted
<1>4. s \in Seq(Glyphic) /\ n = Len(m) - k /\ \A i \in 1..(Len(m) - k) : s[i] = m[k + i]
  <2>1. k \in 0..Len(m)
    BY <1>1, <1>2
  <2> QED BY <1>3, <2>1, CutFacts
<1> HIDE DEF s
<1>5. Shows(p, Margin + pos, c.y, Over(c.buffer, c.y, Margin + k, s, n))
  <2> DEFINE x == c.x
  <2>0. x = Margin + k /\ Margin \in Nat
    BY <1>0
  <2> HIDE DEF x
  <2>1. n > 0 /\ x + n < COLUMNS /\ x + 1 = Margin + pos
    <3> HIDE DEF n
    <3> QED BY <2>0, <1>1, <1>2, <1>3, <1>4, Geometry
  <2>2. Shows(p, c.x + 1, c.y, Over(c.buffer, c.y, c.x, s, n))
    BY <1>0, <1>4, <2>1, RedrawShows DEF x
  <2> QED BY <1>0, <2>1, <2>2 DEF x
<1> HIDE DEF p, n
<1>6. Rewrites(l, m, k, s, n)
  <2>1. ASSUME NEW i \in 1..Len(m)
        PROVE  IF k < i /\ i <= k + n THEN s[i - k] = m[i] ELSE i <= Len(l) /\ l[i] = m[i]
    <3>1. CASE k < i
      <4> DEFINE j == i - k
      <4>1. j \in 1..(Len(m) - k) /\ k + j = i /\ i <= k + n
        BY <1>1, <1>2, <1>4, <3>1
      <4> HIDE DEF j
      <4>2. s[j] = m[i]
        BY <1>4, <4>1
      <4> QED BY <3>1, <4>1, <4>2 DEF j
    <3>2. CASE ~(k < i)
      <4>1. i <= Len(l) /\ i \in 1..(Len(l) + 1) /\ i < pos
        BY <1>1, <1>2, <3>2
      <4> QED BY <1>2, <3>2, <4>1
    <3> QED BY <3>1, <3>2
  <2>2. \A i \in (Len(m) + 1)..(COLUMNS - Margin) :
            IF k < i /\ i <= k + n THEN s[i - k] = Space ELSE i > Len(l)
    BY <1>0, <1>1, <1>2, <1>4, Geometry
  <2> QED BY <2>1, <2>2 DEF Rewrites
<1>7. n \in Nat
  BY <1>1, <1>2, <1>4
<1>8. Becomes(c, l, p, m, pos)
  <2> HIDE DEF pos
  <2> QED BY <1>5, <1>6, <1>7, RewriteDraws
<1> QED BY <1>8 DEF p, s

LEMMA DeleteDraws ==
    ASSUME NEW c, NEW l, NEW k \in Nat, k < Len(l), Draws(c, l, k + 1),
           NEW m \in Lines, FitsRow(m), m = RemoveAt(l, k + 1)
    PROVE  Becomes(c, l, WriteStr(c, BackspaceText(SubSeq(m, k + 1, Len(m)))), m, k)
<1> DEFINE s == SubSeq(m, k + 1, Len(m))
           p == WriteStr(c, BackspaceText(s))
           t == Append(s, Space)
           n == Len(s) + 1
           pos == k + 1
<1>0. c \in Consoles /\ l \in Lines /\ c.x = Margin + pos /\ Margin \in Nat
  BY Geometry DEF Draws, Margin
<1>1. l \in Seq(Chars) /\ Len(l) \in Nat
  BY <1>0, LinesAreSeqs
<1>2. /\ Len(m) = Len(l) - 1
      /\ \A i \in 1..(Len(l) - 1) : m[i] = l[IF i < pos THEN i ELSE i + 1]
  <2>1. pos \in DOMAIN l
    BY <1>1, LenProperties
  <2>2. m = RemoveAt(l, pos)
    OBVIOUS
  <2> HIDE DEF pos
  <2> QED BY <1>1, <2>1, <2>2, RemoveAtFacts
<1>3. m \in Seq(Glyphic) /\ Margin + Len(m) < COLUMNS /\ Margin + Len(l) < COLUMNS
  BY LineIsPrinted DEF Draws
<1>4. /\ s \in Seq(Glyphic) /\ Len(s) = Len(m) - k
      /\ \A i \in 1..(Len(m) - k) : s[i] = m[k + i]
  <2>1. k \in 0..Len(m)
    BY <1>1, <1>2
  <2> QED BY <1>3, <2>1, CutFacts
<1> HIDE DEF s
<1>5. /\ \A i \in 1..Len(s) : t[i] = s[i]
      /\ t[n] = Space /\ n = Len(l) - k /\ n \in Nat
  <2>1. n = Len(l) - k /\ n \in Nat
    BY <1>1, <1>2, <1>4
  <2> QED BY <1>4, <2>1, AppendProperties, SpaceIsGlyphic
<1>6. Shows(p, Margin + k, c.y, Over(c.buffer, c.y, Margin + k, t, n))
  <2>1. c.x > 0 /\ c.x + Len(s) < COLUMNS /\ c.x - 1 = Margin + k
    BY <1>0, <1>1, <1>2, <1>3, <1>4
  <2>2. Shows(p, c.x - 1, c.y, Over(c.buffer, c.y, c.x - 1, t, n))
    BY <1>0, <1>4, <2>1, BackspaceShows
  <2> QED BY <2>1, <2>2
<1> HIDE DEF p, n, t
<1>7. Rewrites(l, m, k, t, n)
  <2>1. ASSUME NEW i \in 1..Len(m)
        PROVE  IF k < i /\ i <= k + n THEN t[i - k] = m[i] ELSE i <= Len(l) /\ l[i] = m[i]
    <3>1. CASE k < i
      <4> DEFINE j == i - k
      <4>1. j \in 1..(Len(m) - k) /\ k + j = i /\ i <= k + n
        BY <1>1, <1>2, <1>5, <3>1
      <4> HIDE DEF j
      <4>2. t[j] = m[i]
        BY <1>4, <1>5, <4>1
      <4> QED BY <3>1, <4>1, <4>2 DEF j
    <3>2. CASE ~(k < i)
      <4>1. i <= Len(l) /\ i \in 1..(Len(l) - 1) /\ i < pos
        BY <1>1, <1>2, <3>2
      <4> QED BY <1>2, <3>2, <4>1
    <3> QED BY <3>1, <3>2
  <2>2. ASSUME NEW i \in (Len(m) + 1)..(COLUMNS - Margin)
        PROVE  IF k < i /\ i <= k + n THEN t[i - k] = Space ELSE i > Len(l)
    <3>1. i \in Nat /\ (k < i /\ i <= k + n => i - k = n) /\ (~(i <= k + n) => i > Len(l))
          /\ k < i
      BY <1>0, <1>1, <1>2, <1>5, Geometry
    <3> QED BY <1>5, <3>1
  <2> QED BY <2>1, <2>2 DEF Rewrites
<1>8. Becomes(c, l, p, m, k)
  <2> HIDE DEF pos
  <2> QED BY <1>5, <1>6, <1>7, RewriteDraws DEF pos
<1> QED BY <1>8 DEF p, s

LEMMA RightDraws ==
    ASSUME NEW c, NEW l, NEW k \in Nat, k < Len(l), Draws(c, l, k)
    PROVE  Becomes(c, l, WriteStr(c, <<l[k + 1]>>), l, k + 1)
<1> DEFINE s == <<l[k + 1]>>
           p == WriteStr(c, s)
<1>0. c \in Consoles /\ l \in Lines /\ c.x = Margin + k /\ Margin \in Nat /\ FitsRow(l)
  BY Geometry DEF Draws, Margin
<1>1. l \in Seq(Glyphic) /\ Len(l) \in Nat /\ Margin + Len(l) < COLUMNS
  BY <1>0, LineIsPrinted
<1>2. s \in Seq(Glyphic) /\ Len(s) = 1 /\ s[1] = l[k + 1]
  <2>1. k + 1 \in 1..Len(l)
    BY <1>1
  <2>2. l[k + 1] \in Glyphic
    BY <1>1, <2>1, ElementOfSeq
  <2> QED BY <2>2
<1> HIDE DEF s
<1>3. Shows(p, Margin + (k + 1), c.y, Over(c.buffer, c.y, Margin + k, s, 1))
  <2> DEFINE x == c.x
  <2>0. x = Margin + k /\ Margin \in Nat
    BY <1>0
  <2> HIDE DEF x
  <2>1. x + Len(s) < COLUMNS /\ x + Len(s) = Margin + (k + 1)
    BY <2>0, <1>1, <1>2, Geometry
  <2>2. Shows(p, c.x + Len(s), c.y, Over(c.buffer, c.y, c.x, s, Len(s)))
    BY <1>0, <1>2, <2>1, WriteGlyphs DEF x
  <2> QED BY <1>0, <1>2, <2>1, <2>2 DEF x
<1> HIDE DEF p
<1>4. Rewrites(l, l, k, s, 1)
  <2>1. ASSUME NEW i \in 1..Len(l)
        PROVE  IF k < i /\ i <= k + 1 THEN s[i - k] = l[i] ELSE i <= Len(l) /\ l[i] = l[i]
    <3>1. k < i /\ i <= k + 1 => i = k + 1 /\ i - k = 1
      BY <1>1
    <3>2. i <= Len(l)
      BY <1>1
    <3> QED BY <1>2, <3>1, <3>2
  <2>2. \A i \in (Len(l) + 1)..(COLUMNS - Margin) :
            IF k < i /\ i <= k + 1 THEN s[i - k] = Space ELSE i > Len(l)
    BY <1>0, <1>1, Geometry
  <2> QED BY <2>1, <2>2 DEF Rewrites
<1>5. Becomes(c, l, p, l, k + 1)
  BY <1>0, <1>3, <1>4, RewriteDraws
<1> QED BY <1>5 DEF p, s

\* What leaves the text alone, and the cursor behind j characters.
LEMMA MoveDraws ==
    ASSUME NEW c, NEW l, NEW k, Draws(c, l, k), NEW p, NEW j,
           Shows(p, Margin + j, c.y, c.buffer)
    PROVE  Becomes(c, l, p, l, j)
BY DEF Draws, Shows, Becomes, RowReads, BlankFrom

-----------------------------------------------------------------------------
(* The shell's steps *)

LEMMA TextsAreStrings ==
    ASSUME NEW s \in Strings, NEW n \in Nat
    PROVE  /\ RedrawText(s, 0) \in Strings /\ BackspaceText(s) \in Strings
           /\ ClearLineText(n) \in Strings /\ ClearLineText(n) \o s \in Strings
<1>0. /\ Len(s) \in Nat /\ Space \in {Space, "o"} /\ "BS" \in Codes /\ "CR" \in Codes
      /\ Len(PROMPT) \in Nat /\ PROMPT \in Strings
  BY LenProperties, Geometry, PromptIsGlyphic, StringFacts DEF Codes, Strings
<1> DEFINE back == Len(s) + 0 - 1
           k == IF back > 0 THEN back ELSE 0
           j == n + Len(PROMPT)
           bs == <<"BS">>
           cr == <<"CR">>
           sp == <<Space, "BS">>
<1>1. k \in Nat /\ j \in Nat
  BY <1>0
<1>2. RedrawText(s, 0) = s \o Repeat(Space, 0) \o Repeat("BS", k)
  <2>1. ~(0 > Len(s))
    BY <1>0
  <2> QED BY <2>1 DEF RedrawText
<1>3. bs \in Strings /\ cr \in Strings
  BY <1>0, StringFacts
<1>4. sp \in Strings
  <2>1. sp = <<Space>> \o bs
    OBVIOUS
  <2>2. <<Space>> \in Strings
    BY StringFacts
  <2> HIDE DEF sp, bs
  <2> QED BY <1>3, <2>1, <2>2, Concat
<1> HIDE DEF k, j
<1>5. /\ \A i \in Nat : Repeat(Space, i) \in Strings
      /\ \A i \in Nat : Repeat("BS", i) \in Strings
  BY <1>0, StringFacts
<1>6. RedrawText(s, 0) \in Strings
  <2>1. s \o Repeat(Space, 0) \in Strings
    BY <1>5, Concat
  <2> QED BY <1>1, <1>2, <1>5, <2>1, Concat
<1>7. BackspaceText(s) \in Strings
  <2>1. BackspaceText(s) = ((bs \o s) \o sp) \o Repeat("BS", Len(s))
    BY DEF BackspaceText
  <2> HIDE DEF bs, sp
  <2>2. bs \o s \in Strings
    BY <1>3, Concat
  <2>3. (bs \o s) \o sp \in Strings
    BY <1>4, <2>2, Concat
  <2> QED BY <1>0, <1>5, <2>1, <2>3, Concat
<1>8. ClearLineText(n) \in Strings
  <2>1. ClearLineText(n) = ((cr \o Repeat(Space, j)) \o cr) \o PROMPT
    BY DEF ClearLineText, j
  <2> HIDE DEF cr
  <2>2. cr \o Repeat(Space, j) \in Strings
    BY <1>1, <1>3, <1>5, Concat
  <2>3. (cr \o Repeat(Space, j)) \o cr \in Strings
    BY <1>3, <2>2, Concat
  <2> QED BY <1>0, <2>1, <2>3, Concat
<1> QED BY <1>6, <1>7, <1>8, Concat

LEMMA Displayed ==
    ASSUME NEW s, NEW n
    PROVE  /\ DisplayText(Bell) = <<"BELL">>
           /\ DisplayText(Display("Echo", s, n)) = s
           /\ DisplayText(Display("Enter", s, n)) = <<"LF">>
           /\ DisplayText(Display("Backspace", s, n)) = BackspaceText(s)
           /\ DisplayText(Display("Redraw", s, n)) = RedrawText(s, n)
           /\ DisplayText(Display("RedrawLine", s, n)) = ClearLineText(n) \o s
           /\ DisplayText(Display("ClearLine", s, n)) = ClearLineText(n)
           /\ DisplayText(Display("CursorLeft", s, n)) = <<"BS">>
           /\ DisplayText(Display("CursorRight", s, n)) = s
BY DEF DisplayText, Display, Bell

\* What the screen is while the editor knows where the cursor is; the entry the
\* user came from fits as well, as what ArrowUp blanks is the entry's length.
ScreenInv ==
    /\ con \in Consoles /\ drifted \in BOOLEAN
    /\ ~drifted => Draws(con, line, cursor)
    /\ ~drifted /\ history_index # None => FitsRow(At0(history, history_index))

Clean == BlankFrom(con, Margin + Len(line))
StaysClean == ~drifted /\ ~drifted' /\ Clean => Clean'

LEMMA RelativeStep ==
    ASSUME ScreenInv, drifted' = Drifts, action'.kind \notin {"RedrawLine", "ClearLine"},
           UNCHANGED <<history, history_index>>, line' \in Lines, con' \in Consoles,
           Draws(con, line, cursor) /\ FitsRow(line') =>
               Becomes(con, line, con', line', cursor')
    PROVE  ScreenInv' /\ StaysClean
<1>1. drifted' \in BOOLEAN /\ (~drifted' => ~drifted /\ FitsRow(line'))
  BY DEF Drifts, ScreenInv
<1>2. ASSUME ~drifted'
      PROVE  /\ Draws(con', line', cursor') /\ (Clean => Clean')
             /\ history_index' # None => FitsRow(At0(history', history_index'))
  <2>1. Becomes(con, line, con', line', cursor') /\ FitsRow(line')
    BY <1>1, <1>2 DEF ScreenInv
  <2> QED BY <1>1, <1>2, <2>1 DEF Becomes, Draws, Clean, ScreenInv
<1> QED BY <1>1, <1>2 DEF ScreenInv, StaysClean

\* ClearLine and RedrawLine put things right again.
LEMMA AbsoluteStep ==
    ASSUME ScreenInv, drifted' = Drifts, NEW n \in Nat, line' \in Lines,
           con' = WriteStr(con, ClearLineText(n) \o line'), cursor' = Len(line'),
           action'.kind \in {"RedrawLine", "ClearLine"},
           FitsRow(line') /\ history_index' # None =>
               FitsRow(At0(history', history_index'))
    PROVE  /\ ScreenInv'
           /\ Margin + n < COLUMNS /\ Len(line) \in Nat /\ Len(line) <= n => StaysClean
<1>1. drifted' \in BOOLEAN /\ (~drifted' => FitsRow(line'))
  BY DEF Drifts, ScreenInv
<1>2. con \in Consoles
  BY DEF ScreenInv
<1>3. con' \in Consoles
  <2>1. line' \in Strings
    BY LineIsPrinted DEF Strings
  <2>2. ClearLineText(n) \o line' \in Strings
    BY <2>1, TextsAreStrings
  <2> QED BY <1>2, <2>2, WriteAny DEF Strings
<1>4. ASSUME ~drifted'
      PROVE  /\ Draws(con', line', cursor')
             /\ Margin + n < COLUMNS /\ Len(line) \in Nat /\ Len(line) <= n =>
                   (Clean => Clean')
             /\ history_index' # None => FitsRow(At0(history', history_index'))
  <2>1. /\ con'.x = Margin + Len(line') /\ RowReads(con', line')
        /\ \A m \in Nat : m <= n /\ Margin + n < COLUMNS /\ BlankFrom(con, Margin + m) =>
              BlankFrom(con', Margin + Len(line'))
    BY <1>1, <1>2, <1>4, ClearLineShows
  <2> QED BY <1>1, <1>3, <1>4, <2>1 DEF Draws, Clean
<1> QED BY <1>1, <1>3, <1>4 DEF ScreenInv, StaysClean

LEMMA CharsAreSymbols == \A ch \in Chars : <<ch>> \in Strings
<1>1. Chars \subseteq Symbols
  BY AsciiAssumption DEF Chars, Symbols
<1> HIDE DEF Chars, Symbols
<1> QED BY <1>1 DEF Strings

LEMMA SliceIsString ==
    ASSUME NEW l \in Lines, NEW k \in 0..Len(l)
    PROVE  SubSeq(l, k + 1, Len(l)) \in Strings
<1>1. l \in Seq(Symbols)
  BY LineIsPrinted
<1> QED BY <1>1, CutFacts DEF Strings

LEMMA BellStep ==
    ASSUME IInv, ScreenInv, Edit(Refuse) PROVE ScreenInv' /\ StaysClean
<1>1. /\ con' = WriteStr(con, DisplayText(Bell)) /\ drifted' = Drifts /\ action' = Bell
      /\ UNCHANGED <<line, cursor, history, history_index>>
  BY DEF Edit, Refuse, editorVars
<1>2. con \in Consoles /\ line \in Lines
  BY DEF ScreenInv, IInv
<1>3. Shows(con', con.x, con.y, con.buffer)
  BY <1>1, <1>2, Displayed, WriteOne
<1>4. action'.kind \notin {"RedrawLine", "ClearLine"}
  BY <1>1 DEF Bell, Display
<1>5. Draws(con, line, cursor) => Becomes(con, line, con', line, cursor)
  <2> SUFFICES ASSUME Draws(con, line, cursor)
               PROVE  Becomes(con, line, con', line, cursor)
    OBVIOUS
  <2>1. Shows(con', Margin + cursor, con.y, con.buffer)
    BY <1>3 DEF Draws
  <2> QED BY <2>1, MoveDraws
<1>6. con' \in Consoles
  BY <1>3 DEF Shows
<1> QED BY <1>1, <1>2, <1>4, <1>5, <1>6, RelativeStep

LEMMA ByteAtEndStep ==
    ASSUME IInv, IInv', ScreenInv, NEW ch \in Chars, Edit(ByteAtEnd(ch))
    PROVE  ScreenInv' /\ StaysClean
<1>1. /\ con' = WriteStr(con, <<ch>>) /\ drifted' = Drifts
      /\ action' = Display("Echo", <<ch>>, 0)
      /\ cursor = Len(line) /\ cursor' = cursor + 1
      /\ UNCHANGED <<history, history_index>>
  BY Displayed DEF Edit, ByteAtEnd
<1>2. line' = Append(line, ch)
  BY Lengths, CapacityAssumption DEF Edit, ByteAtEnd, VecPush, IsFull
<1>3. con \in Consoles /\ line' \in Lines
  BY DEF ScreenInv, IInv
<1>4. con' \in Consoles
  BY <1>1, <1>3, CharsAreSymbols, WriteAny DEF Strings
<1>5. action'.kind \notin {"RedrawLine", "ClearLine"}
  BY <1>1 DEF Display
<1>6. Draws(con, line, cursor) /\ FitsRow(line') => Becomes(con, line, con', line', cursor')
  BY <1>1, <1>2, <1>3, EchoDraws
<1> QED BY <1>1, <1>3, <1>4, <1>5, <1>6, RelativeStep

LEMMA ByteInsideStep ==
    ASSUME IInv, IInv', ScreenInv, NEW ch \in Chars, Edit(ByteInside(ch))
    PROVE  ScreenInv' /\ StaysClean
<1> DEFINE s == SubSeq(line', cursor + 1, Len(line'))
<1>1. /\ con' = WriteStr(con, RedrawText(s, 0)) /\ drifted' = Drifts
      /\ action' = Display("Redraw", s, 0)
      /\ cursor \in Nat /\ cursor < Len(line) /\ cursor' = cursor + 1
      /\ UNCHANGED <<history, history_index>>
  <2>1. cursor \in Nat /\ cursor < Len(line) /\ cursor' = cursor + 1
    BY Lengths DEF Edit, ByteInside, IInv
  <2>2. cursor' - 1 = cursor
    BY <2>1
  <2>3. action' = Display("Redraw", s, 0)
    BY <2>2 DEF Edit, ByteInside, SliceFrom
  <2> QED BY <2>1, <2>3, Displayed DEF Edit, ByteInside
<1>2. line' = InsertAt(line, cursor + 1, ch)
  BY <1>1, Lengths, CapacityAssumption DEF Edit, ByteInside, VecInsert, IsFull
<1>3. con \in Consoles /\ line' \in Lines
  BY DEF ScreenInv, IInv
<1>4. s \in Strings
  <2>1. cursor \in 0..Len(line')
    BY <1>1, LinesAreSeqs DEF IInv
  <2> QED BY <1>3, <2>1, SliceIsString
<1>5. con' \in Consoles
  <2> HIDE DEF s
  <2>1. RedrawText(s, 0) \in Strings
    BY <1>4, TextsAreStrings
  <2> QED BY <1>1, <1>3, <2>1, WriteAny DEF Strings
<1>6. action'.kind \notin {"RedrawLine", "ClearLine"}
  BY <1>1 DEF Display
<1>7. Draws(con, line, cursor) /\ FitsRow(line') => Becomes(con, line, con', line', cursor')
  BY <1>1, <1>2, <1>3, InsertDraws
<1> QED BY <1>1, <1>3, <1>5, <1>6, <1>7, RelativeStep

LEMMA BackspaceStep ==
    ASSUME IInv, IInv', ScreenInv, Edit(Backspace) PROVE ScreenInv' /\ StaysClean
<1> DEFINE k == cursor - 1
           s == SubSeq(line', cursor' + 1, Len(line'))
<1>1. /\ con' = WriteStr(con, BackspaceText(s)) /\ drifted' = Drifts
      /\ action' = Display("Backspace", s, 0)
      /\ UNCHANGED <<history, history_index>>
  BY Displayed DEF Edit, Backspace, SliceFrom
<1>2. /\ k \in Nat /\ k < Len(line) /\ cursor' = k /\ cursor = k + 1
      /\ k \in 0..(Len(line) - 1)
  BY Lengths DEF Edit, Backspace, IInv
<1>3. line' = RemoveAt(line, k + 1)
  BY <1>2 DEF Edit, Backspace, VecRemove
<1>4. con \in Consoles /\ line' \in Lines
  BY DEF ScreenInv, IInv
<1>5. s \in Strings
  <2>1. cursor' \in 0..Len(line')
    BY DEF IInv
  <2> QED BY <1>4, <2>1, SliceIsString
<1>6. con' \in Consoles
  <2> HIDE DEF s
  <2>1. BackspaceText(s) \in Strings
    BY <1>5, TextsAreStrings
  <2> QED BY <1>1, <1>4, <2>1, WriteAny DEF Strings
<1>7. action'.kind \notin {"RedrawLine", "ClearLine"}
  BY <1>1 DEF Display
<1>8. Draws(con, line, cursor) /\ FitsRow(line') => Becomes(con, line, con', line', cursor')
  <2> HIDE DEF k
  <2> QED BY <1>1, <1>2, <1>3, <1>4, DeleteDraws
<1> QED BY <1>1, <1>4, <1>6, <1>7, <1>8, RelativeStep

LEMMA ArrowRightStep ==
    ASSUME IInv, ScreenInv, Edit(ArrowRight) PROVE ScreenInv' /\ StaysClean
<1>1. /\ cursor' = cursor + 1 /\ cursor \in Nat /\ cursor < Len(line)
      /\ cursor + 1 \in 1..Len(line)
      /\ UNCHANGED <<line, history, history_index>> /\ drifted' = Drifts
  BY Lengths DEF Edit, ArrowRight, IInv
<1> DEFINE s == <<line[cursor + 1]>>
<1>2. con' = WriteStr(con, s) /\ action' = Display("CursorRight", s, 0)
  <2>1. cursor' - 1 = cursor
    BY <1>1
  <2>2. action' = Display("CursorRight", s, 0)
    BY <2>1 DEF Edit, ArrowRight, At0
  <2> QED BY <2>2, Displayed DEF Edit
<1>3. con \in Consoles /\ line \in Lines
  BY DEF ScreenInv, IInv
<1>4. s \in Strings
  BY <1>1, <1>3, LinesAreSeqs, ElementOfSeq, CharsAreSymbols
<1>5. con' \in Consoles
  BY <1>2, <1>3, <1>4, WriteAny DEF Strings
<1>6. action'.kind \notin {"RedrawLine", "ClearLine"}
  BY <1>2 DEF Display
<1>7. Draws(con, line, cursor) => Becomes(con, line, con', line, cursor')
  BY <1>1, <1>2, RightDraws
<1> QED BY <1>1, <1>3, <1>5, <1>6, <1>7, RelativeStep

LEMMA ArrowLeftStep ==
    ASSUME IInv, ScreenInv, Edit(ArrowLeft) PROVE ScreenInv' /\ StaysClean
<1>1. /\ cursor' = cursor - 1 /\ cursor \in Nat /\ cursor > 0
      /\ UNCHANGED <<line, history, history_index>> /\ drifted' = Drifts
      /\ con' = WriteStr(con, <<"BS">>) /\ action' = Display("CursorLeft", << >>, 0)
  BY Lengths, Displayed DEF Edit, ArrowLeft, IInv
<1>2. con \in Consoles /\ line \in Lines /\ con.x \in Nat
  BY ConsoleFacts DEF ScreenInv, IInv
<1>3. Shows(con', IF con.x > 0 THEN con.x - 1 ELSE 0, con.y, con.buffer)
  BY <1>1, <1>2, WriteOne
<1>4. con' \in Consoles
  BY <1>3 DEF Shows
<1>5. action'.kind \notin {"RedrawLine", "ClearLine"}
  BY <1>1 DEF Display
<1>6. Draws(con, line, cursor) => Becomes(con, line, con', line, cursor')
  <2> SUFFICES ASSUME Draws(con, line, cursor)
               PROVE  Becomes(con, line, con', line, cursor')
    OBVIOUS
  <2> DEFINE x == con.x
  <2>1. x = Margin + cursor /\ Margin \in Nat
    BY Geometry DEF Draws, Margin
  <2> HIDE DEF x
  <2>2. x > 0 /\ x - 1 = Margin + cursor'
    BY <1>1, <2>1
  <2>3. Shows(con', Margin + cursor', con.y, con.buffer)
    BY <1>3, <2>2 DEF x
  <2> QED BY <2>3, MoveDraws
<1> QED BY <1>1, <1>2, <1>4, <1>5, <1>6, RelativeStep

LEMMA EscStep ==
    ASSUME IInv, IInv', ScreenInv, Edit(Esc) PROVE ScreenInv' /\ StaysClean
<1> DEFINE n == Len(line)
<1>1. /\ action' = Display("ClearLine", << >>, n) /\ drifted' = Drifts
      /\ line' = << >> /\ cursor' = 0 /\ history_index' = None
      /\ con' = WriteStr(con, ClearLineText(n))
  BY Displayed DEF Edit, Esc
<1>2. n \in Nat /\ line' \in Lines
  BY Lengths DEF IInv
<1>3. ClearLineText(n) \o line' = ClearLineText(n)
  <2>1. ClearLineText(n) \in Seq(Symbols)
    <3>1. << >> \in Strings
      BY StringFacts
    <3> HIDE DEF n
    <3> QED BY <1>2, <3>1, TextsAreStrings DEF Strings
  <2> DEFINE t == ClearLineText(n)
  <2> HIDE DEF t
  <2>2. t \o << >> = t
    BY <2>1 DEF t
  <2> QED BY <1>1, <2>2 DEF t
<1>4. action'.kind \in {"RedrawLine", "ClearLine"}
  BY <1>1 DEF Display
<1>5. cursor' = Len(line')
  BY <1>1
<1> HIDE DEF n
<1>6. /\ ScreenInv'
      /\ Margin + n < COLUMNS /\ Len(line) \in Nat /\ Len(line) <= n => StaysClean
  BY <1>1, <1>2, <1>3, <1>4, <1>5, AbsoluteStep
<1>7. ~drifted => Margin + n < COLUMNS /\ Len(line) \in Nat /\ Len(line) <= n
  <2>1. ~drifted => Margin + Len(line) < COLUMNS
    BY LineIsPrinted DEF ScreenInv, Draws
  <2> QED BY <1>2, <2>1 DEF n
<1> QED BY <1>6, <1>7 DEF StaysClean

\* Recalling a line draws it over n blanks.
LEMMA RecallStep ==
    ASSUME ScreenInv, NEW entry \in Lines, NEW n \in Nat, Edit(Recall(entry, n)),
           FitsRow(entry) /\ history_index' # None =>
               FitsRow(At0(history', history_index'))
    PROVE  /\ ScreenInv'
           /\ Margin + n < COLUMNS /\ Len(line) \in Nat /\ Len(line) <= n => StaysClean
<1>1. /\ action' = Display("RedrawLine", entry, n) /\ drifted' = Drifts
      /\ line' = entry /\ cursor' = Len(entry)
      /\ con' = WriteStr(con, ClearLineText(n) \o entry)
  BY Displayed DEF Edit, Recall
<1>2. action'.kind \in {"RedrawLine", "ClearLine"}
  BY <1>1 DEF Display
<1>3. /\ line' \in Lines /\ con' = WriteStr(con, ClearLineText(n) \o line')
      /\ cursor' = Len(line')
      /\ FitsRow(line') /\ history_index' # None =>
            FitsRow(At0(history', history_index'))
  BY <1>1
<1> QED BY <1>1, <1>2, <1>3, AbsoluteStep

FromEditedEntry ==
    /\ history_index # None
    /\ history_index' = history_index + 1
    /\ Len(line) > Len(At0(history, history_index))

LEMMA ArrowUpStep ==
    ASSUME IInv, IInv', ScreenInv, Edit(ArrowUp)
    PROVE  ScreenInv' /\ (StaysClean \/ FromEditedEntry)
<1> DEFINE entry == At0(history, history_index')
           old == At0(history, history_index)
           n == IF history_index = None THEN Len(line) ELSE Len(old)
<1>1. /\ Edit(Recall(entry, n)) /\ history' = history
      /\ history_index' = IF history_index = None THEN 0 ELSE history_index + 1
      /\ line' = entry
  BY DEF Edit, ArrowUp, Recall
<1>2. entry \in Lines
  BY <1>1 DEF IInv
<1>3. Len(line) \in Nat
  BY Lengths
<1>4. history_index # None => Len(old) \in Nat /\ old \in Lines
  BY EntryIsLine, LinesAreSeqs DEF IInv
<1>5. n \in Nat
  BY <1>3, <1>4
<1>6. FitsRow(entry) /\ history_index' # None => FitsRow(At0(history', history_index'))
  BY <1>1
<1>7. /\ ScreenInv'
      /\ Margin + n < COLUMNS /\ Len(line) \in Nat /\ Len(line) <= n => StaysClean
  <2> HIDE DEF entry, n
  <2> QED BY <1>1, <1>2, <1>5, <1>6, RecallStep
<1>8. ~drifted => Margin + n < COLUMNS
  <2>1. ~drifted => Margin + Len(line) < COLUMNS
    BY LineIsPrinted DEF ScreenInv, Draws
  <2>2. ~drifted /\ history_index # None => Margin + Len(old) < COLUMNS
    BY <1>4, LineIsPrinted DEF ScreenInv
  <2> QED BY <2>1, <2>2
<1>9. CASE drifted
  BY <1>7, <1>9 DEF StaysClean
<1>10. CASE ~drifted /\ Len(line) <= n
  <2> HIDE DEF n
  <2> QED BY <1>3, <1>7, <1>8, <1>10
<1>11. CASE ~(Len(line) <= n)
  <2>1. history_index # None
    BY <1>3, <1>11
  <2>2. Len(line) > Len(old)
    BY <1>3, <1>4, <1>11, <2>1
  <2> QED BY <1>1, <1>7, <2>1, <2>2 DEF FromEditedEntry
<1> QED BY <1>9, <1>10, <1>11

LEMMA ArrowDownStep ==
    ASSUME IInv, IInv', ScreenInv, Edit(ArrowDown) PROVE ScreenInv' /\ StaysClean
<1> DEFINE n == Len(line)
           entry == line'
<1>1. Edit(Recall(entry, n)) /\ history' = history
  BY DEF Edit, ArrowDown, Recall
<1>2. entry \in Lines /\ n \in Nat
  BY Lengths DEF IInv
<1>3. FitsRow(entry) /\ history_index' # None => FitsRow(At0(history', history_index'))
  BY <1>1 DEF Edit, ArrowDown, Recall
<1>4. /\ ScreenInv'
      /\ Margin + n < COLUMNS /\ Len(line) \in Nat /\ Len(line) <= n => StaysClean
  <2> HIDE DEF n
  <2> QED BY <1>1, <1>2, <1>3, RecallStep
<1>5. ~drifted => Margin + n < COLUMNS /\ Len(line) \in Nat /\ Len(line) <= n
  <2>1. ~drifted => Margin + Len(line) < COLUMNS
    BY LineIsPrinted DEF ScreenInv, Draws
  <2> QED BY <1>2, <2>1
<1> QED BY <1>4, <1>5 DEF StaysClean

LEMMA SubmitStep ==
    ASSUME IInv, IInv', ScreenInv, Submit PROVE ScreenInv' /\ StaysClean
<1>1. history' = Submitted(history, line)
  BY DEF Submit, Enter, Submitted
<1>2. At0(history', 0) = line
  BY <1>1, SubmittedIsNewest DEF IInv
<1>3. /\ line' = << >> /\ cursor' = 0 /\ history_index' = None /\ result'[1] = line
      /\ DisplayText(action') = <<"LF">> /\ drifted' = FALSE
  BY <1>2, Displayed DEF Submit, Enter
<1>4. PICK out \in Outputs(line) : con' = WriteStr(con, <<"LF">> \o out \o PROMPT)
  BY <1>3 DEF Submit
<1>5. con \in Consoles /\ line \in Lines
  BY DEF ScreenInv, IInv
<1>6. /\ con' \in Consoles /\ con'.x = Margin /\ RowReads(con', << >>)
      /\ \A m : BlankFrom(con, m) => BlankFrom(con', Margin)
  BY <1>4, <1>5, SubmitShows
<1>7. Margin + 0 = Margin /\ FitsRow(<< >>) /\ Len(line') = 0
  BY <1>3, Geometry DEF FitsRow, Margin
<1>8. Draws(con', line', cursor')
  BY <1>3, <1>6, <1>7, EmptyLine DEF Draws
<1>9. ScreenInv'
  BY <1>3, <1>6, <1>8 DEF ScreenInv
<1>10. StaysClean
  BY <1>6, <1>7 DEF StaysClean, Clean
<1> QED BY <1>9, <1>10

LEMMA ShellKeeps ==
    ASSUME IInv, ScreenInv, [ShellNext]_shellVars
    PROVE  IInv' /\ ScreenInv' /\ (UNCHANGED shellVars \/ StaysClean \/ FromEditedEntry)
<1>1. [Next]_vars
  BY DEF ShellNext, Edit, Submit, Next, shellVars
<1>2. IInv'
  BY <1>1, Step
<1>3. CASE UNCHANGED shellVars
  BY <1>2, <1>3 DEF shellVars, vars, editorVars, ScreenInv
<1>4. CASE \/ Edit(Tab) \/ Edit(BackspaceAtStart) \/ Edit(ArrowUpAtOldest)
           \/ Edit(ArrowDownAtDraft) \/ Edit(ArrowRightAtEnd) \/ Edit(ArrowLeftAtStart)
           \/ \E ch \in Chars : Edit(ByteWhenFull(ch))
  <2>1. Edit(Refuse)
    BY <1>4 DEF Edit, Tab, BackspaceAtStart, ArrowUpAtOldest, ArrowDownAtDraft,
                ArrowRightAtEnd, ArrowLeftAtStart, ByteWhenFull
  <2> QED BY <1>2, <2>1, BellStep
<1>5. CASE \E ch \in Chars : Edit(ByteAtEnd(ch)) \/ Edit(ByteInside(ch))
  BY <1>2, <1>5, ByteAtEndStep, ByteInsideStep
<1>6. CASE Submit \/ Edit(Backspace) \/ Edit(Esc)
  BY <1>2, <1>6, SubmitStep, BackspaceStep, EscStep
<1>7. CASE Edit(ArrowUp) \/ Edit(ArrowDown) \/ Edit(ArrowRight) \/ Edit(ArrowLeft)
  BY <1>2, <1>7, ArrowUpStep, ArrowDownStep, ArrowRightStep, ArrowLeftStep
<1> QED BY <1>3, <1>4, <1>5, <1>6, <1>7 DEF ShellNext

LEMMA NewConsoleIsBlank ==
    NewConsole \in Consoles /\ NewConsole.x = 0 /\ BlankFrom(NewConsole, 0)
<1>1. NewConsole \in Consoles /\ NewConsole.x = 0
  BY BlankTexts, Geometry DEF NewConsole, Consoles
<1>2. BlankFrom(NewConsole, 0)
  BY Geometry DEF BlankFrom, NewConsole, BlankBuffer, BlankRow, RowIndex, ColumnIndex
<1> QED BY <1>1, <1>2

LEMMA ShellStart == ShellInit => IInv /\ ScreenInv
<1> SUFFICES ASSUME ShellInit PROVE IInv /\ ScreenInv
  OBVIOUS
<1>1. IInv
  BY InitInv DEF ShellInit
<1>2. /\ con = WriteStr(NewConsole, PROMPT) /\ drifted = FALSE
      /\ line = << >> /\ cursor = 0 /\ history_index = None
  BY DEF ShellInit, Init
<1> DEFINE l == << >>
<1>3. /\ l \in Lines /\ FitsRow(l) /\ Margin + Len(l) = Margin + 0 /\ PROMPT \o l = PROMPT
  <2>1. FitsRow(<< >>) /\ Len(<< >>) = 0
    BY Geometry DEF FitsRow, Margin
  <2>2. PROMPT \o << >> = PROMPT
    BY GeometryAssumption
  <2> QED BY <2>1, <2>2, EmptyLine
<1>4. line = l
  BY <1>2
<1> HIDE DEF l
<1>5. con \in Consoles /\ con.x = Margin + 0 /\ RowReads(con, l)
  BY <1>2, <1>3, NewConsoleIsBlank, PromptShows
<1>6. ScreenInv
  BY <1>2, <1>3, <1>4, <1>5 DEF ScreenInv, Draws
<1> QED BY <1>1, <1>6

LEMMA ShellInvariant == ShellSpec => [](IInv /\ ScreenInv)
<1>1. IInv /\ ScreenInv /\ [ShellNext]_shellVars => IInv' /\ ScreenInv'
  BY ShellKeeps
<1> QED BY <1>1, ShellStart, PTL DEF ShellSpec

\* Through every line of characters that fits, whatever keys edited, recalled,
\* cleared and submitted it, the row of the cursor reads prompt and line and the
\* console's cursor is where the editor's is: on a screen of any size, with any
\* prompt, line length and history.
THEOREM RowShowsLine == ShellSpec => []ScreenShowsLine
<1>1. IInv /\ ScreenInv => ScreenShowsLine
  <2> SUFFICES ASSUME IInv, ScreenInv, ~drifted
               PROVE  /\ con.x = Len(PROMPT) + cursor
                      /\ \A i \in DOMAIN Shown : Row[i - 1] = Shown[i]
    BY DEF ScreenShowsLine
  <2>1. con.x = Margin + cursor /\ RowReads(con, line)
    BY DEF ScreenInv, Draws
  <2>2. /\ Margin \in Nat /\ Len(line) \in Nat
        /\ PROMPT \in Seq(Symbols) /\ line \in Seq(Symbols)
    BY Geometry, PromptIsGlyphic, StringFacts, LineIsPrinted DEF Margin, IInv, Strings
  <2> DEFINE s == Shown
             n == Len(s)
  <2>3. /\ s \in Seq(Symbols) /\ n = Margin + Len(line)
        /\ \A i \in 1..n : s[i] = IF i <= Margin THEN PROMPT[i] ELSE line[i - Margin]
    BY <2>2, ConcatProperties DEF Shown, Margin
  <2>4. DOMAIN s = 1..n
    <3> HIDE DEF s
    <3> QED BY <2>3, LenProperties
  <2> HIDE DEF s, n
  <2>5. ASSUME NEW i \in 1..n PROVE Row[i - 1] = s[i]
    <3>1. CASE i <= Margin
      <4>1. i \in 1..Margin
        BY <2>2, <3>1
      <4> QED BY <2>1, <2>3, <3>1, <4>1 DEF RowReads, Row
    <3>2. CASE ~(i <= Margin)
      <4> DEFINE j == i - Margin
      <4>1. j \in 1..Len(line) /\ Margin + j - 1 = i - 1
        BY <2>2, <2>3, <3>2
      <4> HIDE DEF j
      <4>2. con.buffer[con.y][Margin + j - 1] = line[j]
        BY <2>1, <4>1 DEF RowReads
      <4> QED BY <2>3, <3>2, <4>1, <4>2 DEF Row, j
    <3> QED BY <3>1, <3>2
  <2> QED BY <2>1, <2>4, <2>5 DEF s, Margin
<1> QED BY <1>1, ShellInvariant, PTL

\* Only ArrowUp from a lengthened entry leaves characters behind a line: every
\* other key blanks all that it uncovers.
THEOREM OnlyEditedEntryIsLeft == ShellSpec => LeftoversOnlyFromEditedEntry
<1>1. IInv => (NoLeftovers <=> Clean)
  <2> SUFFICES ASSUME IInv PROVE NoLeftovers <=> Clean
    OBVIOUS
  <2>1. PROMPT \in Seq(Symbols) /\ line \in Seq(Symbols)
    BY PromptIsGlyphic, StringFacts, LineIsPrinted DEF IInv, Strings
  <2>2. Len(Shown) = Margin + Len(line)
    BY <2>1, ConcatProperties DEF Shown, Margin
  <2> QED BY <2>2 DEF NoLeftovers, Clean, BlankFrom, Row
<1>2. ASSUME IInv, ScreenInv, [ShellNext]_shellVars,
             NoLeftovers <=> Clean, (NoLeftovers <=> Clean)'
      PROVE  [NoLeftovers /\ ~NoLeftovers' /\ ~drifted /\ ~drifted' =>
                 FromEditedEntry]_shellVars
  <2>1. UNCHANGED shellVars \/ StaysClean \/ FromEditedEntry
    BY <1>2, ShellKeeps
  <2>2. CASE UNCHANGED shellVars
    BY <2>2
  <2>3. CASE StaysClean \/ FromEditedEntry
    BY <1>2, <2>3 DEF StaysClean
  <2> QED BY <2>1, <2>2, <2>3
<1> QED BY <1>1, <1>2, ShellInvariant, PTL
        DEF ShellSpec, LeftoversOnlyFromEditedEntry, FromEditedEntry

-----------------------------------------------------------------------------
(* The keys *)

\* The window that is left reaches no further than the deadline.  A deadline that
\* wrapped is a lap ahead of the count, until the count wraps too.
DeadlineInv ==
    \/ waited = WINDOW
    \/ ticks + (WINDOW - waited) <= deadline
    \/ /\ ~checked /\ NearWrap
       /\ ticks + (WINDOW - waited) <= deadline + WRAP

\* Where the parser is, and what it was fed, at each step of poll().
KeysInv ==
    /\ fifo \in Seq(Bytes) /\ Len(fifo) <= FIFO
    /\ pc \in {"poll", "asleep", "arm", "read", "check", "panicked"}
    /\ state \in {"Normal", "GotEscape", "GotBracket"}
    /\ ticks \in 0..(WRAP - 1) /\ deadline \in 0..(WRAP - 1)
    /\ checked \in BOOLEAN
    /\ waited \in 0..WINDOW
    /\ event \in {NoEvent} \cup Keys \cup Bytes
    /\ seen \in Seq(Bytes) /\ Len(seen) <= 3
    /\ pc \in {"poll", "asleep"} => state = "Normal" /\ event = Meaning(seen)
    /\ pc = "arm" => state = "GotEscape" /\ seen = <<"ESC">>
    /\ pc \in {"read", "check"} =>
         /\ \/ state = "GotEscape" /\ seen = <<"ESC">>
            \/ state = "GotBracket" /\ seen = <<"ESC", "[">>
         /\ DeadlineInv

LEMMA AppendTuples ==
    ASSUME NEW S, NEW x \in S, NEW y \in S, NEW z \in S
    PROVE  Append(<<x>>, y) = <<x, y>> /\ Append(<<x, y>>, z) = <<x, y, z>>
<1>1. ASSUME NEW s \in Seq(S), NEW t \in Seq(S), NEW e \in S,
             Len(t) = Len(s) + 1, t[Len(t)] = e, \A i \in 1..Len(s) : t[i] = s[i]
      PROVE  Append(s, e) = t
  <2> DEFINE u == Append(s, e)
  <2>1. /\ u \in Seq(S) /\ Len(u) = Len(s) + 1 /\ Len(s) \in Nat
        /\ \A i \in 1..Len(s) : u[i] = s[i]
        /\ u[Len(s) + 1] = e
    BY AppendProperties, LenProperties
  <2> HIDE DEF u
  <2>2. ASSUME NEW i \in 1..Len(u) PROVE u[i] = t[i]
    BY <1>1, <2>1
  <2>3. u = t
    BY <1>1, <2>1, <2>2, SeqEqual
  <2> QED BY <2>3 DEF u
<1> DEFINE one == <<x>>
           two == <<x, y>>
           three == <<x, y, z>>
<1>2. /\ one \in Seq(S) /\ Len(one) = 1 /\ one[1] = x
      /\ two \in Seq(S) /\ Len(two) = 2 /\ two[1] = x /\ two[2] = y
      /\ three \in Seq(S) /\ Len(three) = 3
      /\ three[1] = x /\ three[2] = y /\ three[3] = z
  OBVIOUS
<1> HIDE DEF one, two, three
<1>3. Append(one, y) = two
  <2>1. \A i \in 1..Len(one) : two[i] = one[i]
    BY <1>2
  <2>2. Len(two) = Len(one) + 1 /\ two[Len(two)] = y
    BY <1>2
  <2> QED BY <1>1, <1>2, <2>1, <2>2
<1>4. Append(two, z) = three
  <2>1. \A i \in 1..Len(two) : three[i] = two[i]
    <3> SUFFICES ASSUME NEW i \in 1..Len(two) PROVE three[i] = two[i]
      OBVIOUS
    <3>1. i = 1 \/ i = 2
      BY <1>2
    <3> QED BY <1>2, <3>1
  <2>2. Len(three) = Len(two) + 1 /\ three[Len(three)] = z
    BY <1>2
  <2> QED BY <1>1, <1>2, <2>1, <2>2
<1> QED BY <1>3, <1>4 DEF one, two, three

LEMMA SomeMeanings ==
    /\ Meaning(<< >>) = NoEvent
    /\ Meaning(<<"ESC">>) = "Esc"
    /\ Meaning(<<"ESC", "[">>) = "Esc"
BY DEF Meaning

LEMMA KeysInit == KeyInit => KeysInv
<1>1. << >> \in Seq(Bytes) /\ Len(<< >>) = 0
  OBVIOUS
<1> QED BY <1>1, SomeMeanings, WindowAssumption, WrapAssumption, FifoAssumption
        DEF KeyInit, KeysInv

\* The two outcomes of the parser's first byte.
LEMMA FirstByte ==
    ASSUME KeysInv, Poll
    PROVE  KeysInv'
<1> DEFINE b == Head(fifo)
<1>1. /\ pc = "poll" /\ fifo # << >> /\ state = "Normal"
      /\ seen' = <<b>> /\ waited' = 0 /\ UNCHANGED <<ticks, checked>>
      /\ deadline' \in 0..(WRAP - 1)
      /\ fifo' = Tail(fifo)
      /\ state' = ParsedState("Normal", b)
  BY WrapAssumption, WindowAssumption DEF KeysInv, Poll, ReadAndParse
<1>2. /\ b \in Bytes /\ fifo' \in Seq(Bytes) /\ Len(fifo') <= FIFO
      /\ WINDOW \in Int /\ 0 \in 0..WINDOW
  <2>1. fifo \in Seq(Bytes) /\ Len(fifo) <= FIFO /\ FIFO \in Nat /\ WINDOW \in Nat
    BY FifoAssumption, WindowAssumption DEF KeysInv
  <2> QED BY <1>1, <2>1, HeadTailProperties, LenProperties
<1>3. seen' \in Seq(Bytes) /\ Len(seen') = 1 /\ seen'[1] = b
  BY <1>1, <1>2
<1>4. CASE b = "ESC"
  <2>1. ParsedResult(state, b) = "Pending"
    BY <1>1, <1>4 DEF ParsedResult
  <2>2. pc' = "arm" /\ event' = event
    BY <2>1 DEF Poll, ReadAndParse
  <2>3. state' = "GotEscape"
    BY <1>1, <1>4 DEF ParsedState
  <2> QED BY <1>1, <1>2, <1>3, <1>4, <2>2, <2>3 DEF KeysInv
<1>5. CASE b # "ESC"
  <2>1. ParsedResult(state, b) = Meaning(seen')
    BY <1>1, <1>3, <1>5 DEF ParsedResult, Meaning
  <2>2. /\ ParsedResult(state, b) \notin {"Pending", "InvalidSequence"}
        /\ ParsedResult(state, b) \in Keys \cup Bytes
    BY <1>1, <1>2, <1>5 DEF ParsedResult, Bytes, Keys
  <2>3. pc' = "poll" /\ event' = Meaning(seen')
    BY <2>1, <2>2 DEF Poll, ReadAndParse
  <2>4. state' = "Normal"
    BY <1>1, <1>5 DEF ParsedState
  <2>5. event' \in {NoEvent} \cup Keys \cup Bytes
    BY <2>1, <2>2, <2>3
  <2> QED BY <1>1, <1>2, <1>3, <2>3, <2>4, <2>5 DEF KeysInv
<1> QED BY <1>4, <1>5

LEMMA NextByte ==
    ASSUME KeysInv, ReadByte
    PROVE  KeysInv'
<1> DEFINE b == Head(fifo)
<1>1. /\ pc = "read" /\ fifo # << >>
      /\ seen' = Append(seen, b) /\ UNCHANGED <<ticks, checked, waited>>
      /\ deadline' \in 0..(WRAP - 1)
      /\ fifo' = Tail(fifo)
      /\ state' = ParsedState(state, b)
      /\ DeadlineInv
  BY WrapAssumption, WindowAssumption DEF KeysInv, ReadByte, ReadAndParse
<1>2. b \in Bytes /\ fifo' \in Seq(Bytes) /\ Len(fifo') <= FIFO
  <2>1. fifo \in Seq(Bytes) /\ Len(fifo) <= FIFO /\ FIFO \in Nat
    BY FifoAssumption DEF KeysInv
  <2> QED BY <1>1, <2>1, HeadTailProperties, LenProperties
<1>3. CASE state = "GotEscape" /\ seen = <<"ESC">>
  <2>1. /\ seen' = <<"ESC", b>> /\ seen' \in Seq(Bytes) /\ Len(seen') = 2
        /\ seen'[1] = "ESC"
    <3>1. "ESC" \in Bytes
      BY DEF Bytes
    <3>2. seen' = <<"ESC", b>>
      BY <1>1, <1>2, <1>3, <3>1, AppendTuples
    <3> QED BY <1>2, <3>1, <3>2
  <2>2. CASE b = "["
    <3>1. ParsedResult(state, b) = "Pending" /\ state' = "GotBracket"
      BY <1>1, <1>3, <2>2 DEF ParsedResult, ParsedState
    <3>2. pc' = "read" /\ event' = event /\ deadline' = deadline
      BY <3>1 DEF ReadByte, ReadAndParse
    <3>3. seen' = <<"ESC", "[">> /\ event \in {NoEvent} \cup Keys \cup Bytes
      BY <2>1, <2>2 DEF KeysInv
    <3>4. /\ ticks' \in 0..(WRAP - 1) /\ checked' \in BOOLEAN /\ waited' \in 0..WINDOW
      BY <1>1 DEF KeysInv
    <3>5. seen' \in Seq(Bytes) /\ Len(seen') <= 3
      BY <2>1
    <3>6. DeadlineInv' /\ event' \in {NoEvent} \cup Keys \cup Bytes
      BY <1>1, <3>2, <3>3 DEF DeadlineInv, NearWrap
    <3> QED BY ONLY <1>1, <1>2, <3>1, <3>2, <3>3, <3>4, <3>5, <3>6 DEF KeysInv
  <2>3. CASE b # "["
    <3>1. ParsedResult(state, b) = "Esc" /\ state' = "Normal"
      BY <1>1, <1>3, <2>3 DEF ParsedResult, ParsedState
    <3>2. pc' = "poll" /\ event' = "Esc"
      BY <3>1 DEF ReadByte, ReadAndParse
    <3>3. Meaning(seen') = "Esc"
      BY <2>1 DEF Meaning
    <3> QED BY <1>1, <1>2, <2>1, <3>1, <3>2, <3>3 DEF KeysInv, Keys
  <2> QED BY <2>2, <2>3
<1>4. CASE state = "GotBracket" /\ seen = <<"ESC", "[">>
  <2>1. /\ seen' = <<"ESC", "[", b>> /\ seen' \in Seq(Bytes) /\ Len(seen') = 3
        /\ seen'[1] = "ESC" /\ seen'[2] = "[" /\ seen'[3] = b
    <3>1. "ESC" \in Bytes /\ "[" \in Bytes
      BY DEF Bytes
    <3>2. seen' = <<"ESC", "[", b>>
      BY <1>1, <1>2, <1>4, <3>1, AppendTuples
    <3> QED BY <1>2, <3>1, <3>2
  <2>2. state' = "Normal"
    BY <1>1, <1>4 DEF ParsedState
  <2>3. pc' \in {"poll", "asleep"} /\ event' = IF b = "A" THEN "Arrow" ELSE NoEvent
    BY <1>4 DEF ParsedResult, ReadByte, ReadAndParse
  <2>4. Meaning(seen') = IF b = "A" THEN "Arrow" ELSE NoEvent
    BY <2>1 DEF Meaning
  <2>5. seen' # << >>
    BY <2>1
  <2> QED BY <1>1, <1>2, <2>1, <2>2, <2>3, <2>4 DEF KeysInv, Keys
<1> QED BY <1>1, <1>3, <1>4 DEF KeysInv

\* A wait starts with its whole window ahead, whether or not the sum wraps.
LEMMA ArmStep == ASSUME KeysInv, Arm PROVE KeysInv'
<1>1. /\ WINDOW \in Nat /\ WRAP \in Nat /\ WINDOW < WRAP
      /\ ticks \in 0..(WRAP - 1) /\ waited \in 0..WINDOW
  BY WindowAssumption, WrapAssumption DEF KeysInv
<1>2. /\ deadline' = (ticks + WINDOW) % WRAP
      /\ checked => ticks + WINDOW < WRAP
      /\ pc = "arm" /\ pc' = "read"
      /\ UNCHANGED <<fifo, state, ticks, checked, event, seen, waited>>
  BY DEF Arm
<1>3. CASE ticks + WINDOW < WRAP
  <2>1. deadline' = ticks + WINDOW
    BY <1>1, <1>2, <1>3
  <2>2. DeadlineInv' /\ deadline' \in 0..(WRAP - 1)
    BY <1>1, <1>2, <1>3, <2>1 DEF DeadlineInv
  <2> QED BY <1>2, <2>2 DEF KeysInv
<1>4. CASE ~(ticks + WINDOW < WRAP)
  <2>1. deadline' = ticks + WINDOW - WRAP
    <3> DEFINE d == ticks + WINDOW - WRAP
    <3>1. d \in 0..(WRAP - 1) /\ ticks + WINDOW = d + WRAP
      BY <1>1, <1>4
    <3>2. (d + WRAP) % WRAP = d
      <4> HIDE DEF d
      <4> QED BY <1>1, <3>1
    <3> QED BY <1>2, <3>1, <3>2
  <2>2. DeadlineInv' /\ deadline' \in 0..(WRAP - 1)
    BY <1>1, <1>2, <1>4, <2>1 DEF DeadlineInv, NearWrap
  <2> QED BY <1>2, <2>2 DEF KeysInv
<1> QED BY <1>3, <1>4

\* A tick takes from the window what it adds to the count, also when that wraps.
LEMMA TickStep == ASSUME KeysInv, Tick PROVE KeysInv'
<1>1. /\ WINDOW \in Nat /\ WRAP \in Nat /\ WINDOW < WRAP
      /\ ticks \in 0..(WRAP - 1) /\ deadline \in 0..(WRAP - 1) /\ waited \in 0..WINDOW
  BY WindowAssumption, WrapAssumption DEF KeysInv
<1>2. /\ ticks' = (ticks + 1) % WRAP
      /\ waited' = IF waited < WINDOW THEN waited + 1 ELSE WINDOW
      /\ UNCHANGED <<fifo, state, deadline, checked, event, seen>>
  BY DEF Tick
<1>3. ticks' = (IF ticks + 1 = WRAP THEN 0 ELSE ticks + 1)
  BY <1>1, <1>2
<1>4. ticks' \in 0..(WRAP - 1) /\ waited' \in 0..WINDOW
  BY <1>1, <1>2, <1>3
<1>5. DeadlineInv => DeadlineInv'
  BY <1>1, <1>2, <1>3 DEF DeadlineInv, NearWrap
<1>6. /\ pc' \in {"poll", "asleep", "arm", "read", "check", "panicked"}
      /\ (pc' \in {"poll", "asleep"} <=> pc \in {"poll", "asleep"})
      /\ (pc' = "arm" <=> pc = "arm")
      /\ (pc' \in {"read", "check"} <=> pc \in {"read", "check"})
  BY DEF Tick, KeysInv
<1> QED BY <1>2, <1>4, <1>5, <1>6 DEF KeysInv

LEMMA KeysStep == KeysInv /\ [KeyNext]_keyVars => KeysInv'
<1> SUFFICES ASSUME KeysInv, [KeyNext]_keyVars PROVE KeysInv'
  OBVIOUS
<1>0. WINDOW \in Nat /\ WRAP \in Nat /\ WINDOW < WRAP
  BY WindowAssumption, WrapAssumption
<1>1. CASE PollEmpty
  <2>1. << >> \in Seq(Bytes) /\ Len(<< >>) = 0
    OBVIOUS
  <2>2. /\ seen' = << >> /\ event' = NoEvent /\ pc' = "asleep" /\ state = "Normal"
        /\ UNCHANGED <<fifo, state, ticks, deadline, checked, waited>>
    BY <1>1 DEF PollEmpty, KeysInv
  <2> QED BY <2>1, <2>2, SomeMeanings DEF KeysInv
<1>2. CASE Poll
  BY <1>2, FirstByte
<1>3. CASE Arm
  BY <1>3, ArmStep
<1>4. CASE ReadByte
  BY <1>4, NextByte
<1>5. CASE ReadNothing \/ StillTime
  BY <1>5 DEF ReadNothing, StillTime, KeysInv, DeadlineInv, NearWrap
<1>6. CASE TimeOut
  <2>1. CASE seen = <<"ESC">>
    BY <1>0, <1>6, <2>1, SomeMeanings DEF TimeOut, KeysInv, Keys
  <2>2. CASE seen = <<"ESC", "[">>
    BY <1>0, <1>6, <2>2, SomeMeanings DEF TimeOut, KeysInv, Keys
  <2> QED BY <1>6, <2>1, <2>2 DEF KeysInv, TimeOut
<1>7. CASE Arrive
  <2>1. Len(fifo) \in Nat /\ FIFO \in Nat /\ Len(fifo) < FIFO
    BY <1>7, FifoAssumption DEF KeysInv, Arrive
  <2>2. PICK b \in Bytes : fifo' = Append(fifo, b)
    BY <1>7 DEF Arrive
  <2>3. fifo' \in Seq(Bytes) /\ Len(fifo') <= FIFO
    BY <2>1, <2>2 DEF KeysInv
  <2> QED BY <1>7, <2>3 DEF Arrive, KeysInv, DeadlineInv, NearWrap
<1>8. CASE Tick
  BY <1>8, TickStep
<1>9. CASE UNCHANGED keyVars
  BY <1>9 DEF keyVars, KeysInv, DeadlineInv, NearWrap
<1>10. CASE ArmOverflows
  BY <1>10 DEF ArmOverflows, KeysInv
<1> QED BY <1>1, <1>2, <1>3, <1>4, <1>5, <1>6, <1>7, <1>8, <1>9, <1>10 DEF KeyNext

LEMMA KeysInvariant == KeySpec => []KeysInv
BY KeysInit, KeysStep, PTL DEF KeySpec

\* poll() and its parser stay within their states, and a call reads at most the
\* three bytes of a sequence.
THEOREM KeysTypeCorrect == KeySpec => []KeyTypeOK
<1>1. KeysInv => KeyTypeOK
  <2> SUFFICES ASSUME KeysInv PROVE KeyTypeOK
    OBVIOUS
  <2>1. state \in {"Normal", "GotEscape", "GotBracket"}
    BY DEF KeysInv
  <2> QED BY <2>1, ElementOfSeq, LenProperties DEF KeysInv, KeyTypeOK
<1> QED BY <1>1, KeysInvariant, PTL

\* However poll() returns, the next key starts with a parser in its first state.
THEOREM PollLeavesParserNormal == KeySpec => []ParserNormalBetweenPolls
<1>1. KeysInv => ParserNormalBetweenPolls
  BY DEF KeysInv, ParserNormalBetweenPolls, Returned
<1> QED BY <1>1, KeysInvariant, PTL

\* The event of a poll() is the meaning of the bytes it took, however the bytes
\* and the ticks came between its steps.
THEOREM EventsAreTheirBytes == KeySpec => []EventsMeanTheirBytes
<1>1. KeysInv => EventsMeanTheirBytes
  BY DEF KeysInv, EventsMeanTheirBytes, Returned
<1> QED BY <1>1, KeysInvariant, PTL

\* A wait for the rest of a sequence ends without it only after the window, for
\* every window and width of the count - and, in a build without overflow checks,
\* in the last window before the count wraps.
THEOREM CutsAfterWindow == KeySpec => CutOnlyAfterWindow
<1>1. KeysInv /\ [KeyNext]_keyVars =>
          [pc = "check" /\ pc' = "poll" =>
               \/ waited = WINDOW
               \/ ~checked /\ NearWrap]_keyVars
  <2> SUFFICES ASSUME KeysInv, KeyNext, pc = "check", pc' = "poll", waited # WINDOW
               PROVE  ~checked /\ NearWrap
    OBVIOUS
  <2>1. TimeOut
    BY DEF KeyNext, PollEmpty, Poll, Arm, ArmOverflows, ReadByte,
       ReadNothing, StillTime, Arrive, Tick
  <2>2. ticks >= deadline /\ DeadlineInv
    BY <2>1 DEF TimeOut, DeadlinePassed, KeysInv
  <2>3. /\ ticks \in 0..(WRAP - 1) /\ deadline \in 0..(WRAP - 1)
        /\ waited \in 0..WINDOW /\ WINDOW \in Nat /\ WRAP \in Nat
    BY WindowAssumption, WrapAssumption DEF KeysInv
  <2>4. ~(ticks + (WINDOW - waited) <= deadline)
    BY <2>2, <2>3
  <2> QED BY <2>2, <2>4 DEF DeadlineInv
<1> QED BY <1>1, KeysInvariant, PTL DEF KeySpec, CutOnlyAfterWindow
=============================================================================
