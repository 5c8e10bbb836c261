---------------------------- MODULE KernelProofs ----------------------------
(***************************************************************************)
(* Proofs about Kernel, for every number of nested traps, pieces of a      *)
(* text, interrupts, commands and failures.                                *)
(***************************************************************************)
EXTENDS Kernel, SequenceLemmas, SequenceTheorems, TLAPS

(***************************************************************************)
(* What code does with locks.  Takes(code, h, k) says that code begun with *)
(* the lock h held, or none, runs without taking a second one, writes the  *)
(* console only under CONSOLE, and comes to its end holding k.             *)
(***************************************************************************)
None == 0
Holdings == {None, HEAP, BLK, CONSOLE}

Texts == {"virtio", "ramfb", "hello", "time", "unknown", "panic"}
Unlocked == {"timer", "probe", "start_dma", "wait_dma", "shell", "tick", "halt"}

Instructions ==
    [do : Unlocked \cup {"drop"}] \cup [do : {"uart", "console"}, text : Texts]
        \cup [do : {"lock"}, lock : {HEAP, BLK, CONSOLE}]

Fits(i, h, k) ==
    \/ i.do = "lock" /\ h = None /\ k = i.lock
    \/ i.do = "drop" /\ h # None /\ k = None
    \/ i.do = "console" /\ h = CONSOLE /\ k = CONSOLE
    \/ i.do \in Unlocked \cup {"uart"} /\ h = None /\ k = None

Follows(code, held) == \A i \in 1..Len(code) : Fits(code[i], held[i], held[i + 1])

Takes(code, h, k) ==
    /\ code \in Seq(Instructions)
    /\ \E held \in [1..(Len(code) + 1) -> Holdings] :
           held[1] = h /\ held[Len(code) + 1] = k /\ Follows(code, held)

LEMMA Single ==
    ASSUME NEW i \in Instructions, NEW h \in Holdings, NEW k \in Holdings, Fits(i, h, k)
    PROVE  Takes(<<i>>, h, k)
<1> DEFINE held == [n \in 1..2 |-> IF n = 1 THEN h ELSE k]
<1>1. <<i>> \in Seq(Instructions) /\ Len(<<i>>) = 1 /\ <<i>>[1] = i
  OBVIOUS
<1>2. held \in [1..2 -> Holdings] /\ held[1] = h /\ held[2] = k
  OBVIOUS
<1>3. Follows(<<i>>, held)
  BY <1>1, <1>2 DEF Follows
<1> HIDE DEF held
<1>4. \E f \in [1..(Len(<<i>>) + 1) -> Holdings] :
        f[1] = h /\ f[Len(<<i>>) + 1] = k /\ Follows(<<i>>, f)
  <2>1. 1..(Len(<<i>>) + 1) = 1..2 /\ Len(<<i>>) + 1 = 2
    BY <1>1
  <2> QED BY <2>1, <1>2, <1>3
<1> QED BY <1>1, <1>4 DEF Takes

LEMMA Empty == ASSUME NEW h \in Holdings PROVE Takes(<< >>, h, h)
<1> DEFINE held == [n \in 1..1 |-> h]
<1>1. << >> \in Seq(Instructions)
  BY EmptySeq
<1>2. Len(<< >>) = 0 /\ 1..(0 + 1) = 1..1
  OBVIOUS
<1>3. held \in [1..1 -> Holdings] /\ held[1] = h
  OBVIOUS
<1>4. Follows(<< >>, held)
  BY <1>2 DEF Follows
<1> HIDE DEF held
<1>5. \E f \in [1..(Len(<< >>) + 1) -> Holdings] :
        f[1] = h /\ f[Len(<< >>) + 1] = h /\ Follows(<< >>, f)
  BY <1>2, <1>3, <1>4
<1> QED BY <1>1, <1>5 DEF Takes

\* Code after code.
LEMMA Chain ==
    ASSUME NEW a, NEW b, NEW h, NEW k, NEW l, Takes(a, h, k), Takes(b, k, l)
    PROVE  Takes(a \o b, h, l)
<1>1. a \in Seq(Instructions) /\ b \in Seq(Instructions)
  BY DEF Takes
<1>2. PICK f \in [1..(Len(a) + 1) -> Holdings] :
        f[1] = h /\ f[Len(a) + 1] = k /\ Follows(a, f)
  BY DEF Takes
<1>3. PICK g \in [1..(Len(b) + 1) -> Holdings] :
        g[1] = k /\ g[Len(b) + 1] = l /\ Follows(b, g)
  BY DEF Takes
<1> DEFINE m == Len(a)
           n == Len(b)
           held == [i \in 1..(m + n + 1) |-> IF i <= m THEN f[i] ELSE g[i - m]]
<1>4. m \in Nat /\ n \in Nat
  BY <1>1
<1>5. a \o b \in Seq(Instructions) /\ Len(a \o b) = m + n
      /\ \A i \in 1..(m + n) : (a \o b)[i] = IF i <= m THEN a[i] ELSE b[i - m]
  BY <1>1, ConcatProperties
<1> HIDE DEF m, n
<1>6. held \in [1..(m + n + 1) -> Holdings]
  <2> SUFFICES ASSUME NEW i \in 1..(m + n + 1)
               PROVE  (IF i <= m THEN f[i] ELSE g[i - m]) \in Holdings
    OBVIOUS
  <2>1. CASE i <= m
    BY <2>1, <1>2, <1>4 DEF m
  <2>2. CASE ~(i <= m)
    <3>1. i - m \in 1..(n + 1)
      BY <2>2, <1>4
    <3> QED BY <2>2, <3>1, <1>3 DEF n
  <2> QED BY <2>1, <2>2
<1>7. \A i \in 1..(m + 1) : held[i] = f[i]
  <2> TAKE i \in 1..(m + 1)
  <2>1. i \in 1..(m + n + 1)
    BY <1>4
  <2>2. CASE i <= m
    BY <2>1, <2>2
  <2>3. CASE ~(i <= m)
    <3>1. i = m + 1 /\ i - m = 1
      BY <2>3, <1>4
    <3> QED BY <2>1, <2>3, <3>1, <1>2, <1>3 DEF m
  <2> QED BY <2>2, <2>3
<1>8. \A i \in (m + 1)..(m + n + 1) : held[i] = g[i - m]
  BY <1>4
<1> HIDE DEF held
<1>9. held[1] = h /\ held[m + n + 1] = l
  <2> DEFINE last == m + n + 1
  <2>1. 1 \in 1..(m + 1) /\ last \in (m + 1)..last /\ last - m = n + 1
    BY <1>4
  <2>2. held[1] = f[1]
    BY <2>1, <1>7
  <2>3. \A i \in (m + 1)..last : held[i] = g[i - m]
    BY <1>8
  <2> HIDE DEF last
  <2>4. held[last] = g[last - m]
    BY <2>1, <2>3
  <2> QED BY <2>1, <2>2, <2>4, <1>2, <1>3 DEF n, last
<1>10. Follows(a \o b, held)
  <2> SUFFICES ASSUME NEW i \in 1..(m + n)
               PROVE  Fits((a \o b)[i], held[i], held[i + 1])
    BY <1>5 DEF Follows
  <2>1. CASE i <= m
    <3>1. i \in 1..m /\ i \in 1..(m + 1) /\ i + 1 \in 1..(m + 1)
      BY <2>1, <1>4
    <3>2. Fits(a[i], f[i], f[i + 1])
      BY <3>1, <1>2 DEF Follows, m
    <3> QED BY <2>1, <3>1, <3>2, <1>5, <1>7
  <2>2. CASE ~(i <= m)
    <3>1. /\ i \in (m + 1)..(m + n + 1) /\ i + 1 \in (m + 1)..(m + n + 1)
          /\ i - m \in 1..n /\ (i + 1) - m = (i - m) + 1
      BY <2>2, <1>4
    <3>2. Fits(b[i - m], g[i - m], g[(i - m) + 1])
      BY <3>1, <1>3 DEF Follows, n
    <3>3. held[i] = g[i - m] /\ held[i + 1] = g[(i - m) + 1]
      BY <3>1, <1>8
    <3> QED BY <2>2, <3>2, <3>3, <1>5
  <2> QED BY <2>1, <2>2
<1>11. 1..(Len(a \o b) + 1) = 1..(m + n + 1) /\ Len(a \o b) + 1 = m + n + 1
  BY <1>5
<1> QED BY <1>5, <1>6, <1>9, <1>10, <1>11 DEF Takes

\* The first instruction, and the rest.
LEMMA Uncons ==
    ASSUME NEW code, NEW h, NEW k, Takes(code, h, k), code # << >>
    PROVE  /\ Head(code) \in Instructions /\ Tail(code) \in Seq(Instructions)
           /\ \E m \in Holdings : Fits(Head(code), h, m) /\ Takes(Tail(code), m, k)
<1>1. code \in Seq(Instructions) /\ Len(code) \in Nat /\ Len(code) > 0
  BY EmptySeq DEF Takes
<1>2. PICK held \in [1..(Len(code) + 1) -> Holdings] :
        held[1] = h /\ held[Len(code) + 1] = k /\ Follows(code, held)
  BY DEF Takes
<1> DEFINE n == Len(code) - 1
           t == Tail(code)
           rest == [i \in 1..(n + 1) |-> held[i + 1]]
<1>3. /\ Head(code) \in Instructions /\ t \in Seq(Instructions) /\ Len(t) = n
      /\ Head(code) = code[1]
      /\ \A i \in 1..n : t[i] = code[i + 1]
  BY <1>1, HeadTailProperties
<1>4. n \in Nat /\ Len(code) = n + 1
  BY <1>1
<1> HIDE DEF n, t
<1>5. rest \in [1..(n + 1) -> Holdings]
  BY <1>2, <1>4
<1>6. rest[1] = held[2] /\ rest[n + 1] = k
  BY <1>2, <1>4
<1>7. Follows(t, rest)
  <2> SUFFICES ASSUME NEW i \in 1..n PROVE Fits(t[i], rest[i], rest[i + 1])
    BY <1>3 DEF Follows
  <2>1. i + 1 \in 1..Len(code) /\ i \in 1..(n + 1) /\ i + 1 \in 1..(n + 1)
    BY <1>4
  <2>2. rest[i] = held[i + 1] /\ rest[i + 1] = held[(i + 1) + 1]
    BY <2>1
  <2> QED BY <2>1, <2>2, <1>2, <1>3 DEF Follows
<1>8. Fits(Head(code), h, held[2]) /\ held[2] \in Holdings
  <2>1. 1 \in 1..Len(code) /\ 2 \in 1..(Len(code) + 1)
    BY <1>1
  <2> QED BY <2>1, <1>2, <1>3 DEF Follows
<1> HIDE DEF rest
<1>9. Takes(t, held[2], k)
  BY <1>3, <1>5, <1>6, <1>7 DEF Takes
<1> QED BY <1>3, <1>8, <1>9 DEF t

LEMMA EmptyHolds == ASSUME NEW h, NEW k, Takes(<< >>, h, k) PROVE h = k
  BY DEF Takes

-----------------------------------------------------------------------------
(* The code of the kernel takes one lock at a time and leaves none held. *)

Runs(code) == Takes(code, None, None)

LEMMA Holding ==
    /\ None \in Holdings /\ HEAP \in Holdings /\ BLK \in Holdings /\ CONSOLE \in Holdings
    /\ None \notin {HEAP, BLK, CONSOLE} /\ BLK # CONSOLE /\ HEAP # CONSOLE
  BY DEF Holdings, None, HEAP, BLK, CONSOLE

LEMMA DoRuns == ASSUME NEW what \in Unlocked PROVE Runs(Do(what))
<1> DEFINE i == [do |-> what]
<1>1. i \in Instructions /\ Fits(i, None, None)
  BY DEF Instructions, Fits
<1> QED BY <1>1, Single, Holding DEF Do, Runs

LEMMA LockedRuns ==
    ASSUME NEW l \in {HEAP, BLK, CONSOLE}, NEW code, Takes(code, l, l)
    PROVE  Runs(Locked(l, code))
<1> DEFINE lock == [do |-> "lock", lock |-> l]
           drop == [do |-> "drop"]
<1>1. lock \in Instructions /\ drop \in Instructions
  BY DEF Instructions
<1>2. Fits(lock, None, l) /\ Fits(drop, l, None)
  BY Holding DEF Fits
<1>3. l \in Holdings
  BY DEF Holdings
<1> HIDE DEF lock, drop
<1>4. Takes(<<lock>>, None, l) /\ Takes(<<drop>>, l, None)
  BY <1>1, <1>2, <1>3, Single, Holding
<1>5. Takes(<<lock>> \o code, None, l)
  BY <1>4, Chain
<1>6. Takes((<<lock>> \o code) \o <<drop>>, None, None)
  BY <1>4, <1>5, Chain
<1> QED BY <1>6 DEF Runs, Locked, Do, lock, drop

LEMMA BothRun == ASSUME NEW a, NEW b, Runs(a), Runs(b) PROVE Runs(a \o b)
  BY Chain DEF Runs

LEMMA JustLockedRuns == ASSUME NEW l \in {HEAP, BLK, CONSOLE} PROVE Runs(Locked(l, << >>))
  BY LockedRuns, Empty DEF Holdings

LEMMA PrintsRuns == ASSUME NEW m \in Texts PROVE Runs(Prints(m))
<1> DEFINE sent == [do |-> "uart", text |-> m]
           drawn == [do |-> "console", text |-> m]
<1>1. sent \in Instructions /\ drawn \in Instructions
  BY DEF Instructions
<1>2. Fits(sent, None, None) /\ Fits(drawn, CONSOLE, CONSOLE)
  BY DEF Fits
<1> HIDE DEF sent, drawn
<1>3. Runs(<<sent>>) /\ Takes(<<drawn>>, CONSOLE, CONSOLE)
  BY <1>1, <1>2, Single, Holding DEF Runs
<1>4. Runs(Locked(CONSOLE, <<drawn>>))
  BY <1>3, LockedRuns
<1> QED BY <1>3, <1>4, BothRun DEF Prints, UartText, ConsoleText, sent, drawn

LEMMA PanicHandlerRuns == Runs(PanicHandler)
<1>1. Runs(Prints("panic")) /\ Runs(Do("halt"))
  BY PrintsRuns, DoRuns DEF Texts, Unlocked
<1> QED BY <1>1, BothRun DEF PanicHandler

LEMMA MainRuns == Runs(Main)
<1>1. Runs(Locked(HEAP, << >>)) /\ Runs(Locked(BLK, << >>)) /\ Runs(Locked(CONSOLE, << >>))
  BY JustLockedRuns
<1>2. /\ Runs(Do("timer")) /\ Runs(Do("probe")) /\ Runs(Do("start_dma"))
      /\ Runs(Do("wait_dma")) /\ Runs(Do("shell"))
  BY DoRuns DEF Unlocked
<1>3. Runs(Prints("virtio")) /\ Runs(Prints("ramfb")) /\ Runs(Prints("hello"))
  BY PrintsRuns DEF Texts
<1>4. Runs(VirtioBlkInit)
  BY <1>1, <1>2, <1>3, BothRun DEF VirtioBlkInit
<1>5. Runs(FrameBufferInit)
  BY <1>2, <1>3, BothRun DEF FrameBufferInit
<1>6. Runs(KernelInit)
  <2>1. Runs(Locked(HEAP, << >>) \o Do("timer"))
    BY <1>1, <1>2, BothRun
  <2>2. Runs(Locked(HEAP, << >>) \o Do("timer") \o VirtioBlkInit)
    BY <2>1, <1>4, BothRun
  <2>3. Runs(Locked(HEAP, << >>) \o Do("timer") \o VirtioBlkInit \o FrameBufferInit)
    BY <2>2, <1>5, BothRun
  <2> QED BY <2>3, <1>1, BothRun DEF KernelInit
<1> QED BY <1>2, <1>3, <1>6, BothRun DEF Main

-----------------------------------------------------------------------------
(***************************************************************************)
(* The inductive invariant, part 1, of each context for itself: what it    *)
(* has left to do fits the lock it holds, or is about to take; it holds at *)
(* most one; what has returned, or never started, has nothing left to do   *)
(* and holds nothing; and it is inside a text only at the text.            *)
(***************************************************************************)
Contexts == Sync!Contexts

InLock(c) == pc[c] \in {"spin", "mask", "cas"} \/ (pc[c] = "unmask" /\ cont[c] = "spin")

Held(c) == IF guards[c] = << >> THEN None ELSE guards[c][1].lock

CodeFits(c) == Takes(todo[c], IF InLock(c) THEN want[c] ELSE Held(c), None)

GuardsFit(c) ==
    /\ Len(guards[c]) <= 1
    /\ InLock(c) \/ pc[c] = "unmask" => guards[c] = << >>
    /\ pc[c] \in {"spin", "mask", "cas"} => cont[c] = "spin"

IdleAboveDepth(c) ==
    c[2] > depth[hart] => todo[c] = << >> /\ pc[c] = "run" /\ guards[c] = << >>

PieceFits(c) ==
    piece[c] # 0 => /\ pc[c] = "run" /\ todo[c] # << >>
                    /\ Head(todo[c]).do \in {"uart", "console"}

Fit(c) == CodeFits(c) /\ GuardsFit(c) /\ IdleAboveDepth(c) /\ PieceFits(c)

ContextInv ==
    /\ Sync!TypeOK
    /\ piece \in [Contexts -> 0..(Pieces - 1)]
    /\ todo \in [Contexts -> Seq(Instructions)]
    /\ \A c \in Contexts : Fit(c)

LEMMA ContextFacts ==
    /\ main \in Contexts
    /\ \A c \in Contexts : c[1] = hart /\ Sync!Hart(c) = hart /\ c[2] \in 0..MaxDepth
                           /\ c = <<hart, c[2]>>
    /\ \A k \in 0..MaxDepth : <<hart, k>> \in Contexts /\ <<hart, k>>[2] = k
    /\ \A c, d \in Contexts : c[2] = d[2] => c = d
  BY MaxDepthAssumption DEF Contexts, Sync!Contexts, Sync!Hart, main

LEMMA SyncTypes ==
    ASSUME Sync!TypeOK
    PROVE  /\ locked \in [{HEAP, BLK, CONSOLE} -> BOOLEAN]
           /\ mie \in [{hart} -> BOOLEAN]
           /\ depth \in [{hart} -> 0..MaxDepth]
           /\ pc \in [Contexts -> {"run", "spin", "mask", "cas", "unmask"}]
           /\ want \in [Contexts -> {HEAP, BLK, CONSOLE}]
           /\ prev \in [Contexts -> BOOLEAN]
           /\ cont \in [Contexts -> {"run", "spin"}]
           /\ guards \in [Contexts -> Seq(Sync!Guard)]
  BY DEF Sync!TypeOK, Contexts

\* A context holds the lock of its one guard.
LEMMA OneGuard ==
    ASSUME ContextInv, NEW c \in Contexts, guards[c] # << >>
    PROVE  /\ Len(guards[c]) = 1 /\ guards[c][1] \in Sync!Guard
           /\ Held(c) = guards[c][1].lock /\ Held(c) \in {HEAP, BLK, CONSOLE}
<1>1. guards[c] \in Seq(Sync!Guard) /\ Len(guards[c]) <= 1
  BY SyncTypes DEF ContextInv, Fit, GuardsFit
<1>2. Len(guards[c]) = 1
  <2> DEFINE n == Len(guards[c])
  <2>1. n \in Nat \ {0} /\ n <= 1
    BY <1>1, EmptySeq
  <2> HIDE DEF n
  <2>2. n = 1
    BY <2>1
  <2> QED BY <2>2 DEF n
<1>3. guards[c][1] \in Sync!Guard
  BY <1>1, <1>2, ElementOfSeq
<1> QED BY <1>2, <1>3 DEF Held, Sync!Guard

LEMMA HeldIsHolding == ASSUME ContextInv, NEW c \in Contexts PROVE Held(c) \in Holdings
  BY OneGuard DEF Held, Holdings

\* A context that runs is not inside lock() and does what its code says.
LEMMA DoingFacts ==
    ASSUME ContextInv, NEW c \in Contexts, NEW what, Doing(c, what)
    PROVE  /\ pc[c] = "run" /\ ~InLock(c) /\ depth[hart] = c[2]
           /\ todo[c] # << >> /\ Head(todo[c]).do = what
           /\ Head(todo[c]) \in Instructions
           /\ \E k \in Holdings : Fits(Head(todo[c]), Held(c), k) /\ Takes(Tail(todo[c]), k, None)
<1>1. pc[c] = "run" /\ depth[hart] = c[2] /\ todo[c] # << >> /\ Head(todo[c]).do = what
  BY ContextFacts DEF Doing, Sync!At, Sync!Active
<1>2. ~InLock(c)
  BY <1>1 DEF InLock
<1>3. Takes(todo[c], Held(c), None)
  BY <1>2 DEF ContextInv, Fit, CodeFits
<1> QED BY <1>1, <1>2, <1>3, Uncons

\* A step of one context, at the same depth of traps.
LEMMA StepOfOne ==
    ASSUME ContextInv, NEW c \in Contexts, depth' = depth,
           \A d \in Contexts \ {c} :
               /\ pc'[d] = pc[d] /\ cont'[d] = cont[d] /\ want'[d] = want[d]
               /\ guards'[d] = guards[d] /\ todo'[d] = todo[d] /\ piece'[d] = piece[d],
           Sync!TypeOK', piece' \in [Contexts -> 0..(Pieces - 1)],
           todo' \in [Contexts -> Seq(Instructions)], Fit(c)'
    PROVE  ContextInv'
<1>1. ASSUME NEW d \in Contexts, d # c PROVE Fit(d)'
  <2>1. Fit(d)
    BY DEF ContextInv
  <2> QED BY <1>1, <2>1
          DEF Fit, CodeFits, GuardsFit, IdleAboveDepth, PieceFits, InLock, Held
<1>2. \A d \in Contexts : Fit(d)'
  BY <1>1
<1> QED BY <1>2 DEF ContextInv, Contexts, Sync!Contexts


LEMMA GoesOn ==
    ASSUME ContextInv, NEW c \in Contexts, todo[c] # << >>, Goes(c)
    PROVE  /\ todo' \in [Contexts -> Seq(Instructions)]
           /\ todo'[c] = Tail(todo[c])
           /\ \A d \in Contexts \ {c} : todo'[d] = todo[d]
<1>1. Tail(todo[c]) \in Seq(Instructions)
  BY HeadTailProperties DEF ContextInv
<1> QED BY <1>1 DEF ContextInv, Goes

\* An instruction that neither locks nor drops, done to its end.
LEMMA PlainStep ==
    ASSUME ContextInv, NEW c \in Contexts, NEW what \in Unlocked \cup {"uart", "console"},
           Doing(c, what), Goes(c), UNCHANGED syncVars,
           piece' \in [Contexts -> 0..(Pieces - 1)], piece'[c] = 0,
           \A d \in Contexts \ {c} : piece'[d] = piece[d]
    PROVE  ContextInv'
<1>1. /\ pc[c] = "run" /\ ~InLock(c) /\ depth[hart] = c[2]
      /\ \E k \in Holdings : Fits(Head(todo[c]), Held(c), k) /\ Takes(Tail(todo[c]), k, None)
      /\ Head(todo[c]).do = what /\ todo[c] # << >>
  BY DoingFacts
<1>2. Takes(Tail(todo[c]), Held(c), None)
  BY <1>1 DEF Fits, Unlocked
<1>3. /\ todo' \in [Contexts -> Seq(Instructions)] /\ todo'[c] = Tail(todo[c])
      /\ \A d \in Contexts \ {c} : todo'[d] = todo[d]
  BY <1>1, GoesOn
<1>4. Sync!TypeOK' /\ depth' = depth
  BY DEF ContextInv, syncVars, Sync!TypeOK
<1>5. CodeFits(c)'
  BY <1>1, <1>2, <1>3 DEF CodeFits, InLock, Held, syncVars
<1>6. GuardsFit(c)' /\ PieceFits(c)'
  BY DEF ContextInv, Fit, GuardsFit, PieceFits, InLock, syncVars
<1>7. IdleAboveDepth(c)'
  BY <1>1, <1>4, ContextFacts DEF IdleAboveDepth
<1> QED BY <1>3, <1>4, <1>5, <1>6, <1>7, StepOfOne DEF Fit, syncVars

\* An instruction that is no text finds the context between texts.
LEMMA BetweenTexts ==
    ASSUME ContextInv, NEW c \in Contexts, NEW what, Doing(c, what),
           what \notin {"uart", "console"}
    PROVE  piece[c] = 0
  BY DoingFacts DEF ContextInv, Fit, PieceFits

LEMMA UnlockedStep ==
    ASSUME ContextInv, NEW c \in Contexts, NEW what \in Unlocked,
           Doing(c, what), Goes(c), UNCHANGED <<syncVars, piece>>
    PROVE  ContextInv'
<1>1. what \notin {"uart", "console"}
  BY DEF Unlocked
<1>2. piece[c] = 0 /\ piece \in [Contexts -> 0..(Pieces - 1)]
  BY <1>1, BetweenTexts DEF ContextInv
<1> QED BY <1>2, PlainStep

LEMMA WriteStep ==
    ASSUME ContextInv, NEW c \in Contexts, NEW what \in {"uart", "console"},
           Doing(c, what), NextPiece(c), UNCHANGED syncVars
    PROVE  ContextInv'
<1>1. /\ pc[c] = "run" /\ depth[hart] = c[2] /\ todo[c] # << >>
      /\ Head(todo[c]).do = what
  BY DoingFacts
<1>2. /\ piece \in [Contexts -> 0..(Pieces - 1)] /\ piece[c] \in Nat
      /\ todo \in [Contexts -> Seq(Instructions)]
  BY PiecesAssumption DEF ContextInv
<1>3. CASE piece[c] + 1 < Pieces
  <2>1. piece' = [piece EXCEPT ![c] = @ + 1] /\ todo' = todo
    BY <1>3 DEF NextPiece
  <2>2. piece[c] + 1 \in 0..(Pieces - 1)
    BY <1>2, <1>3, PiecesAssumption
  <2>3. piece' \in [Contexts -> 0..(Pieces - 1)]
        /\ \A d \in Contexts \ {c} : piece'[d] = piece[d]
    BY <1>2, <2>1, <2>2
  <2>4. Sync!TypeOK' /\ depth' = depth
    BY DEF ContextInv, syncVars, Sync!TypeOK
  <2>5. Fit(c)'
    BY <1>1, <2>1
    DEF ContextInv, Fit, CodeFits, GuardsFit, IdleAboveDepth, PieceFits, InLock, Held, syncVars
  <2> QED BY <1>2, <2>1, <2>3, <2>4, <2>5, StepOfOne DEF syncVars
<1>4. CASE ~(piece[c] + 1 < Pieces)
  <2>1. piece' = [piece EXCEPT ![c] = 0] /\ Goes(c)
    BY <1>4 DEF NextPiece
  <2>2. 0 \in 0..(Pieces - 1)
    BY PiecesAssumption
  <2>3. piece' \in [Contexts -> 0..(Pieces - 1)] /\ piece'[c] = 0
        /\ \A d \in Contexts \ {c} : piece'[d] = piece[d]
    BY <1>2, <2>1, <2>2
  <2> QED BY <2>1, <2>3, PlainStep
<1> QED BY <1>3, <1>4

-----------------------------------------------------------------------------
(* Locking and dropping *)

LEMMA CallLockStep ==
    ASSUME ContextInv, NEW c \in Contexts, CallLock(c) PROVE ContextInv'
<1>1. /\ pc[c] = "run" /\ ~InLock(c) /\ depth[hart] = c[2] /\ todo[c] # << >>
      /\ Head(todo[c]) \in Instructions /\ Head(todo[c]).do = "lock"
      /\ \E k \in Holdings : Fits(Head(todo[c]), Held(c), k) /\ Takes(Tail(todo[c]), k, None)
  BY DoingFacts DEF CallLock
<1> DEFINE l == Head(todo[c]).lock
<1>2. /\ Held(c) = None /\ Takes(Tail(todo[c]), l, None)
  BY <1>1 DEF Fits, Unlocked
<1>3. l \in {HEAP, BLK, CONSOLE}
  BY <1>1 DEF Instructions, Unlocked
<1>4. guards[c] = << >>
  BY <1>2, OneGuard, Holding
<1>5. /\ todo' \in [Contexts -> Seq(Instructions)] /\ todo'[c] = Tail(todo[c])
      /\ \A d \in Contexts \ {c} : todo'[d] = todo[d]
  BY <1>1, GoesOn DEF CallLock
<1>6. piece[c] = 0 /\ piece' = piece /\ piece \in [Contexts -> 0..(Pieces - 1)]
  BY BetweenTexts DEF CallLock, ContextInv
<1>7. Sync!TypeOK
  BY DEF ContextInv
<1> HIDE DEF l
<1>8. /\ want' = [want EXCEPT ![c] = l] /\ cont' = [cont EXCEPT ![c] = "spin"]
      /\ pc' = [pc EXCEPT ![c] = "spin"]
      /\ UNCHANGED <<locked, mie, depth, prev, guards>>
  BY DEF CallLock, Sync!Goto, l
<1>9. Sync!TypeOK'
  BY <1>3, <1>7, <1>8 DEF Sync!TypeOK
<1>10. pc'[c] = "spin" /\ cont'[c] = "spin" /\ want'[c] = l
       /\ \A d \in Contexts \ {c} : pc'[d] = pc[d] /\ cont'[d] = cont[d] /\ want'[d] = want[d]
  BY <1>7, <1>8, SyncTypes
<1>11. CodeFits(c)'
  BY <1>2, <1>5, <1>10 DEF CodeFits, InLock, l
<1>12. GuardsFit(c)' /\ PieceFits(c)'
  BY <1>4, <1>6, <1>8, <1>10 DEF GuardsFit, PieceFits, ContextInv, Fit
<1>13. IdleAboveDepth(c)'
  BY <1>1, <1>8, ContextFacts DEF IdleAboveDepth
<1> QED BY <1>5, <1>6, <1>8, <1>9, <1>10, <1>11, <1>12, <1>13, StepOfOne DEF Fit

\* What the steps inside lock(), and the restore after a drop, leave alone.
LEMMA InsideLockTypes ==
    ASSUME ContextInv, NEW c \in Contexts, InsideLock(c)
    PROVE  /\ Sync!TypeOK' /\ UNCHANGED <<depth, want, cont, todo, piece>>
           /\ \A d \in Contexts \ {c} : pc'[d] = pc[d] /\ guards'[d] = guards[d]
<1> USE DEF Sync!Goto, Sync!At
<1>1. Sync!TypeOK /\ Sync!Hart(c) = hart
  BY ContextFacts DEF ContextInv
<1>2. UNCHANGED <<depth, want, cont, todo, piece>>
  BY DEF InsideLock, Sync!Spin, Sync!Mask, Sync!Acquire, Sync!CasFails, Sync!Unmask
<1>3. CASE Sync!Spin(c)
  BY <1>1, <1>2, <1>3 DEF Sync!TypeOK, Sync!Spin, Contexts
<1>4. CASE Sync!Mask(c)
  BY <1>1, <1>2, <1>4 DEF Sync!TypeOK, Sync!Mask, Sync!DisableInterrupts, Contexts
<1>5. CASE Sync!Acquire(c)
  <2>1. want[c] \in {HEAP, BLK, CONSOLE} /\ prev[c] \in BOOLEAN /\ guards[c] \in Seq(Sync!Guard)
    BY <1>1, SyncTypes
  <2>2. [lock |-> want[c], prev |-> prev[c]] \in Sync!Guard
    BY <2>1 DEF Sync!Guard
  <2> QED BY <1>1, <1>2, <1>5, <2>1, <2>2 DEF Sync!TypeOK, Sync!Acquire, Contexts
<1>6. CASE Sync!CasFails(c)
  BY <1>1, <1>2, <1>6 DEF Sync!TypeOK, Sync!CasFails, Contexts
<1>7. CASE Sync!Unmask(c)
  BY <1>1, <1>2, <1>7 DEF Sync!TypeOK, Sync!Unmask, Sync!RestoreInterrupts, Contexts
<1> QED BY <1>2, <1>3, <1>4, <1>5, <1>6, <1>7 DEF InsideLock

LEMMA InsideLockStep ==
    ASSUME ContextInv, NEW c \in Contexts, InsideLock(c) PROVE ContextInv'
<1> USE DEF Sync!Goto, Sync!At
<1>1. /\ Sync!TypeOK' /\ UNCHANGED <<depth, want, cont, todo, piece>>
      /\ \A d \in Contexts \ {c} : pc'[d] = pc[d] /\ guards'[d] = guards[d]
  BY InsideLockTypes
<1>2. /\ depth[hart] = c[2] /\ pc[c] # "run" /\ guards[c] = << >> /\ Held(c) = None
      /\ pc[c] \in {"spin", "mask", "cas"} => cont[c] = "spin"
  BY ContextFacts
  DEF ContextInv, Fit, GuardsFit, InLock, Held, InsideLock, Sync!Spin, Sync!Mask,
      Sync!Acquire, Sync!CasFails, Sync!Unmask, Sync!Active
<1>3. /\ pc \in [Contexts -> {"run", "spin", "mask", "cas", "unmask"}]
      /\ want \in [Contexts -> {HEAP, BLK, CONSOLE}] /\ cont \in [Contexts -> {"run", "spin"}]
      /\ guards \in [Contexts -> Seq(Sync!Guard)] /\ prev \in [Contexts -> BOOLEAN]
  BY SyncTypes DEF ContextInv
<1>4. CodeFits(c)
  BY DEF ContextInv, Fit
<1>5. IdleAboveDepth(c)' /\ piece[c] = 0
  BY <1>1, <1>2, ContextFacts DEF ContextInv, Fit, IdleAboveDepth, PieceFits
<1>6. CodeFits(c)' /\ GuardsFit(c)'
  <2>1. CASE Sync!Spin(c)
    <3>1. pc[c] = "spin" /\ pc'[c] = "mask" /\ guards' = guards
      BY <2>1, <1>3 DEF Sync!Spin
    <3> QED BY <3>1, <1>1, <1>2, <1>4 DEF CodeFits, GuardsFit, InLock
  <2>2. CASE Sync!Mask(c)
    <3>1. pc[c] = "mask" /\ pc'[c] = "cas" /\ guards' = guards
      BY <2>2, <1>3 DEF Sync!Mask
    <3> QED BY <3>1, <1>1, <1>2, <1>4 DEF CodeFits, GuardsFit, InLock
  <2>3. CASE Sync!Acquire(c)
    <3> DEFINE g == [lock |-> want[c], prev |-> prev[c]]
    <3>1. g \in Sync!Guard /\ g.lock = want[c]
      BY <1>3 DEF Sync!Guard
    <3>2. pc[c] = "cas" /\ pc'[c] = "run" /\ guards'[c] = Append(guards[c], g)
      BY <2>3, <1>3 DEF Sync!Acquire
    <3> HIDE DEF g
    <3>3. guards'[c] = <<g>>
      BY <3>2, <1>2
    <3>4. Len(<<g>>) = 1 /\ <<g>> # << >> /\ <<g>>[1] = g
      OBVIOUS
    <3>5. Held(c)' = want[c]
      BY <3>1, <3>3, <3>4 DEF Held
    <3> QED BY <3>2, <3>3, <3>4, <3>5, <1>1, <1>4 DEF CodeFits, GuardsFit, InLock
  <2>4. CASE Sync!CasFails(c)
    <3>1. pc[c] = "cas" /\ pc'[c] = "unmask" /\ guards' = guards
      BY <2>4, <1>3 DEF Sync!CasFails
    <3> QED BY <3>1, <1>1, <1>2, <1>4 DEF CodeFits, GuardsFit, InLock
  <2>5. CASE Sync!Unmask(c)
    <3>1. pc[c] = "unmask" /\ pc'[c] = cont[c] /\ guards' = guards
      BY <2>5, <1>3 DEF Sync!Unmask
    <3>2. Held(c)' = None /\ guards'[c] = << >> /\ Len(<< >>) <= 1
      BY <3>1, <1>2 DEF Held
    <3>3. CASE cont[c] = "spin"
      BY <3>1, <3>2, <3>3, <1>1, <1>2, <1>4 DEF CodeFits, GuardsFit, InLock
    <3>4. CASE cont[c] = "run"
      BY <3>1, <3>2, <3>4, <1>1, <1>2, <1>4 DEF CodeFits, GuardsFit, InLock
    <3> QED BY <3>3, <3>4, <1>3
  <2> QED BY <2>1, <2>2, <2>3, <2>4, <2>5 DEF InsideLock
<1>7. PieceFits(c)'
  BY <1>1, <1>5 DEF PieceFits
<1>8. piece' \in [Contexts -> 0..(Pieces - 1)] /\ todo' \in [Contexts -> Seq(Instructions)]
  BY <1>1 DEF ContextInv
<1> QED BY <1>1, <1>5, <1>6, <1>7, <1>8, StepOfOne DEF Fit

LEMMA DropGuardStep ==
    ASSUME ContextInv, NEW c \in Contexts, DropGuard(c) PROVE ContextInv'
<1>1. /\ pc[c] = "run" /\ ~InLock(c) /\ depth[hart] = c[2] /\ todo[c] # << >>
      /\ Head(todo[c]) \in Instructions /\ Head(todo[c]).do = "drop"
      /\ \E k \in Holdings : Fits(Head(todo[c]), Held(c), k) /\ Takes(Tail(todo[c]), k, None)
  BY DoingFacts DEF DropGuard
<1>2. Held(c) # None /\ Takes(Tail(todo[c]), None, None)
  BY <1>1 DEF Fits, Unlocked
<1>3. guards[c] # << >>
  BY <1>2 DEF Held
<1>4. Len(guards[c]) = 1 /\ guards[c][1] \in Sync!Guard
  BY <1>3, OneGuard
<1>5. /\ todo' \in [Contexts -> Seq(Instructions)] /\ todo'[c] = Tail(todo[c])
      /\ \A d \in Contexts \ {c} : todo'[d] = todo[d]
  BY <1>1, GoesOn DEF DropGuard
<1>6. piece[c] = 0 /\ piece' = piece /\ piece \in [Contexts -> 0..(Pieces - 1)]
  BY BetweenTexts DEF DropGuard, ContextInv
<1>7. /\ locked' = [locked EXCEPT ![guards[c][1].lock] = FALSE]
      /\ prev' = [prev EXCEPT ![c] = guards[c][1].prev]
      /\ cont' = [cont EXCEPT ![c] = "run"]
      /\ guards' = [guards EXCEPT ![c] = Sync!RemoveAt(@, 1)]
      /\ pc' = [pc EXCEPT ![c] = "unmask"]
      /\ UNCHANGED <<mie, depth, want>>
  BY <1>4 DEF DropGuard, Sync!Drop, Sync!Goto
<1>8. Sync!RemoveAt(guards[c], 1) = << >>
  <2>1. guards[c] \in Seq(Sync!Guard)
    BY SyncTypes DEF ContextInv
  <2> QED BY <2>1, <1>4 DEF Sync!RemoveAt
<1>9. << >> \in Seq(Sync!Guard)
  BY EmptySeq
<1>10. Sync!TypeOK'
  <2>1. Sync!TypeOK /\ guards[c][1].lock \in {HEAP, BLK, CONSOLE} /\ guards[c][1].prev \in BOOLEAN
    BY <1>4 DEF ContextInv, Sync!Guard
  <2> QED BY <2>1, <1>7, <1>8, <1>9 DEF Sync!TypeOK, Contexts
<1>11. /\ pc'[c] = "unmask" /\ cont'[c] = "run" /\ guards'[c] = << >>
       /\ \A d \in Contexts \ {c} :
              pc'[d] = pc[d] /\ cont'[d] = cont[d] /\ guards'[d] = guards[d]
  BY <1>7, <1>8, SyncTypes DEF ContextInv
<1>12. CodeFits(c)'
  BY <1>2, <1>5, <1>11 DEF CodeFits, InLock, Held
<1>13. GuardsFit(c)' /\ PieceFits(c)'
  <2>1. Len(<< >>) <= 1
    OBVIOUS
  <2> QED BY <2>1, <1>6, <1>11 DEF GuardsFit, PieceFits
<1>14. IdleAboveDepth(c)'
  BY <1>1, <1>7, ContextFacts DEF IdleAboveDepth
<1> QED BY <1>5, <1>6, <1>7, <1>10, <1>11, <1>12, <1>13, <1>14, StepOfOne DEF Fit

-----------------------------------------------------------------------------
(* New code for a context: a command, a panic, a trap *)

\* A context that holds no lock is given other code to run.
LEMMA NewCodeStep ==
    ASSUME ContextInv, NEW c \in Contexts, NEW code,
           pc[c] = "run", depth[hart] = c[2], Held(c) = None, piece[c] = 0,
           Takes(code, None, None), Becomes(c, code), UNCHANGED <<syncVars, piece>>
    PROVE  ContextInv'
<1>1. code \in Seq(Instructions) /\ todo \in [Contexts -> Seq(Instructions)]
  BY DEF Takes, ContextInv
<1>2. /\ todo' \in [Contexts -> Seq(Instructions)] /\ todo'[c] = code
      /\ \A d \in Contexts \ {c} : todo'[d] = todo[d]
  BY <1>1 DEF Becomes
<1>3. Sync!TypeOK' /\ depth' = depth /\ piece' \in [Contexts -> 0..(Pieces - 1)]
  BY DEF ContextInv, syncVars, Sync!TypeOK
<1>4. CodeFits(c)' /\ PieceFits(c)'
  BY <1>2 DEF CodeFits, InLock, Held, PieceFits, syncVars
<1>5. GuardsFit(c)'
  BY DEF ContextInv, Fit, GuardsFit, InLock, syncVars
<1>6. IdleAboveDepth(c)'
  BY <1>3, ContextFacts DEF IdleAboveDepth
<1> QED BY <1>2, <1>3, <1>4, <1>5, <1>6, StepOfOne DEF Fit, syncVars

LEMMA CommandStep ==
    ASSUME ContextInv, NEW c \in Contexts, Command(c) PROVE ContextInv'
<1>1. /\ pc[c] = "run" /\ ~InLock(c) /\ depth[hart] = c[2] /\ todo[c] # << >>
      /\ Head(todo[c]).do = "shell"
      /\ \E k \in Holdings : Fits(Head(todo[c]), Held(c), k) /\ Takes(Tail(todo[c]), k, None)
  BY DoingFacts DEF Command
<1>2. Held(c) = None
  BY <1>1 DEF Fits
<1>3. Takes(todo[c], None, None)
  BY <1>1, <1>2 DEF ContextInv, Fit, CodeFits
<1>4. Takes(Prints("time") \o todo[c], None, None)
  BY <1>3, PrintsRuns, BothRun DEF Runs, Texts
<1>5. piece[c] = 0
  BY BetweenTexts DEF Command
<1> QED BY <1>1, <1>2, <1>4, <1>5, NewCodeStep DEF Command

LEMMA PanicStep ==
    ASSUME ContextInv, NEW c \in Contexts, Panic(c) PROVE ContextInv'
<1>1. PICK what \in {"probe", "shell"} : Doing(c, what)
  BY DEF Panic
<1>2. /\ pc[c] = "run" /\ ~InLock(c) /\ depth[hart] = c[2] /\ todo[c] # << >>
      /\ Head(todo[c]).do = what
      /\ \E k \in Holdings : Fits(Head(todo[c]), Held(c), k) /\ Takes(Tail(todo[c]), k, None)
  BY <1>1, DoingFacts
<1>3. Held(c) = None
  BY <1>2 DEF Fits
<1>4. piece[c] = 0
  BY <1>1, BetweenTexts
<1> QED BY <1>2, <1>3, <1>4, NewCodeStep, PanicHandlerRuns DEF Panic, Runs

\* A trap, of either kind, gives its code to a context that was idle.
LEMMA TrapStep ==
    ASSUME ContextInv, NEW code, Takes(code, None, None),
           depth[hart] < MaxDepth, depth' = [depth EXCEPT ![hart] = @ + 1],
           mie' = [mie EXCEPT ![hart] = FALSE], Becomes(Handler, code),
           UNCHANGED <<locked, pc, want, prev, cont, guards, piece>>
    PROVE  ContextInv'
<1> DEFINE n == depth[hart]
<1>1. depth \in [{hart} -> 0..MaxDepth] /\ n \in 0..MaxDepth
  BY SyncTypes DEF ContextInv
<1>2. n + 1 \in 0..MaxDepth /\ depth' \in [{hart} -> 0..MaxDepth] /\ depth'[hart] = n + 1
  BY <1>1, MaxDepthAssumption
<1>3. PICK c \in Contexts : c = Handler /\ c[2] = n + 1
  BY <1>2, ContextFacts DEF Handler
<1> HIDE DEF n
<1>4. n + 1 > n
  BY <1>1
<1>5. todo[c] = << >> /\ pc[c] = "run" /\ guards[c] = << >>
  BY <1>3, <1>4 DEF ContextInv, Fit, IdleAboveDepth, n
<1>6. piece[c] = 0
  BY <1>3, <1>5 DEF ContextInv, Fit, PieceFits
<1>7. /\ todo' \in [Contexts -> Seq(Instructions)] /\ todo'[c] = code
      /\ \A d \in Contexts \ {c} : todo'[d] = todo[d]
  BY <1>3 DEF Becomes, Takes, ContextInv
<1>8. Sync!TypeOK'
  BY <1>2 DEF ContextInv, Sync!TypeOK
<1>9. Fit(c)'
  <2>1. CodeFits(c)' /\ PieceFits(c)'
    BY <1>5, <1>6, <1>7 DEF CodeFits, InLock, Held, PieceFits
  <2>2. GuardsFit(c)'
    BY <1>3 DEF ContextInv, Fit, GuardsFit, InLock
  <2>3. IdleAboveDepth(c)'
    BY <1>1, <1>2, <1>3 DEF IdleAboveDepth
  <2> QED BY <2>1, <2>2, <2>3 DEF Fit
<1>10. ASSUME NEW d \in Contexts, d # c PROVE Fit(d)'
  <2>1. Fit(d) /\ d[2] \in 0..MaxDepth
    BY ContextFacts DEF ContextInv
  <2>2. CodeFits(d)' /\ GuardsFit(d)' /\ PieceFits(d)'
    BY <1>7, <1>10, <2>1 DEF Fit, CodeFits, GuardsFit, PieceFits, InLock, Held
  <2>3. d[2] > n + 1 => d[2] > n
    BY <1>1, <2>1
  <2>4. IdleAboveDepth(d)'
    BY <1>2, <1>7, <1>10, <2>1, <2>3 DEF Fit, IdleAboveDepth, n
  <2> QED BY <2>2, <2>4 DEF Fit
<1>11. \A d \in Contexts : Fit(d)'
  BY <1>9, <1>10
<1> QED BY <1>7, <1>8, <1>11 DEF ContextInv, Contexts, Sync!Contexts

LEMMA InterruptStep ==
    ASSUME ContextInv, TimerInterrupt \/ UnknownInterrupt PROVE ContextInv'
<1>1. Takes(Do("tick"), None, None) /\ Takes(Prints("unknown"), None, None)
  BY DoRuns, PrintsRuns DEF Runs, Unlocked, Texts
<1>2. PICK code : Takes(code, None, None) /\ TakeInterrupt(code)
  BY <1>1 DEF TimerInterrupt, UnknownInterrupt
<1> QED BY <1>2, TrapStep DEF TakeInterrupt, Sync!Trap

LEMMA ExceptionStep == ASSUME ContextInv, Exception PROVE ContextInv'
  BY TrapStep, PanicHandlerRuns DEF Exception, Runs

LEMMA ReturnStep == ASSUME ContextInv, Return PROVE ContextInv'
<1>1. depth \in [{hart} -> 0..MaxDepth]
  BY SyncTypes DEF ContextInv
<1> PICK n \in 0..MaxDepth : n = depth[hart]
  BY <1>1
<1> DEFINE c == <<hart, n>>
<1>2. /\ n > 0 /\ pc[c] = "run" /\ guards[c] = << >> /\ todo[c] = << >>
      /\ depth' = [depth EXCEPT ![hart] = n - 1] /\ mie' = [mie EXCEPT ![hart] = TRUE]
      /\ UNCHANGED <<locked, pc, want, prev, cont, guards, todo, piece>>
  BY DEF Return, Sync!Mret
<1>3. n - 1 \in 0..MaxDepth /\ depth' \in [{hart} -> 0..MaxDepth] /\ depth'[hart] = n - 1
  <2>1. n - 1 \in 0..MaxDepth
    BY <1>2, MaxDepthAssumption
  <2> QED BY <2>1, <1>1, <1>2
<1>4. Sync!TypeOK'
  BY <1>2, <1>3 DEF ContextInv, Sync!TypeOK
<1>5. ASSUME NEW d \in Contexts PROVE Fit(d)'
  <2>1. Fit(d) /\ d[2] \in 0..MaxDepth
    BY ContextFacts DEF ContextInv
  <2>2. CodeFits(d)' /\ GuardsFit(d)' /\ PieceFits(d)'
    BY <1>2, <2>1 DEF Fit, CodeFits, GuardsFit, PieceFits, InLock, Held
  <2>3. IdleAboveDepth(d)'
    <3>1. d[2] > n - 1 => d[2] > n \/ d[2] = n
      BY <1>1, <2>1
    <3>2. d[2] = n => d = c
      BY <1>1, ContextFacts
    <3> HIDE DEF c
    <3>3. d[2] > n => todo[d] = << >> /\ pc[d] = "run" /\ guards[d] = << >>
      BY <2>1 DEF Fit, IdleAboveDepth
    <3> QED BY <1>2, <1>3, <3>1, <3>2, <3>3 DEF IdleAboveDepth
  <2> QED BY <2>2, <2>3 DEF Fit
<1> QED BY <1>2, <1>4, <1>5 DEF ContextInv, Contexts, Sync!Contexts

-----------------------------------------------------------------------------
LEMMA ContextInit == Init => ContextInv
<1> SUFFICES ASSUME Init PROVE ContextInv
  OBVIOUS
<1>1. Sync!Init /\ \A c \in Contexts : want[c] = HEAP
  BY DEF Init, Contexts
<1>2. depth[hart] = 0
  BY <1>1 DEF Sync!Init
<1>3. << >> \in Seq(Sync!Guard) /\ << >> \in Seq(Instructions)
  BY EmptySeq
<1>4. Sync!TypeOK
  <2>1. 0 \in 0..MaxDepth
    BY MaxDepthAssumption
  <2> QED BY <2>1, <1>1, <1>3 DEF Sync!Init, Sync!TypeOK, Contexts
<1>5. piece = [c \in Contexts |-> 0] /\ piece \in [Contexts -> 0..(Pieces - 1)]
  BY PiecesAssumption DEF Init, Contexts
<1>6. Takes(Main, None, None) /\ Takes(<< >>, None, None) /\ Main \in Seq(Instructions)
  BY MainRuns, Empty, Holding DEF Runs, Takes
<1>7. todo = [c \in Contexts |-> IF c = main THEN Main ELSE << >>]
      /\ todo \in [Contexts -> Seq(Instructions)]
  BY <1>3, <1>6 DEF Init, Contexts
<1>8. ASSUME NEW c \in Contexts PROVE Fit(c)
  <2>1. pc[c] = "run" /\ guards[c] = << >>
    BY <1>1 DEF Sync!Init, Contexts
  <2>2. CodeFits(c)
    BY <2>1, <1>6, <1>7 DEF CodeFits, InLock, Held
  <2>3. GuardsFit(c) /\ PieceFits(c)
    BY <2>1, <1>5 DEF GuardsFit, InLock, PieceFits
  <2>4. IdleAboveDepth(c)
    <3>1. main[2] = 0 /\ c[2] \in Nat
      BY ContextFacts DEF main
    <3> QED BY <3>1, <2>1, <1>2, <1>7 DEF IdleAboveDepth
  <2> QED BY <2>2, <2>3, <2>4 DEF Fit
<1> QED BY <1>4, <1>5, <1>7, <1>8 DEF ContextInv

LEMMA ContextStep == ContextInv /\ [Next]_vars => ContextInv'
<1> SUFFICES ASSUME ContextInv, [Next]_vars PROVE ContextInv'
  OBVIOUS
<1>1. ASSUME NEW c \in Contexts, CallLock(c) PROVE ContextInv'
  BY <1>1, CallLockStep
<1>2. ASSUME NEW c \in Contexts, InsideLock(c) PROVE ContextInv'
  BY <1>2, InsideLockStep
<1>3. ASSUME NEW c \in Contexts, DropGuard(c) PROVE ContextInv'
  BY <1>3, DropGuardStep
<1>4. ASSUME NEW c \in Contexts, WriteUart(c) \/ WriteConsole(c) PROVE ContextInv'
  <2>1. CASE WriteUart(c)
    BY <2>1, WriteStep DEF WriteUart
  <2>2. CASE WriteConsole(c)
    BY <2>2, WriteStep DEF WriteConsole
  <2> QED BY <1>4, <2>1, <2>2
<1>5. ASSUME NEW c \in Contexts,
             EnableTimer(c) \/ FindDevice(c) \/ StartDma(c) \/ WaitDma(c) \/ Tick(c)
      PROVE ContextInv'
  <2>1. PICK what \in Unlocked : Doing(c, what) /\ Goes(c) /\ UNCHANGED <<syncVars, piece>>
    BY <1>5 DEF Unlocked, EnableTimer, FindDevice, StartDma, WaitDma, Tick
  <2> QED BY <2>1, UnlockedStep
<1>6. CASE Return
  BY <1>6, ReturnStep
<1>7. CASE FinishDma \/ UNCHANGED vars
  BY <1>7 DEF FinishDma, vars, syncVars, ContextInv, Sync!TypeOK, Fit, CodeFits, GuardsFit,
              IdleAboveDepth, PieceFits, InLock, Held, Contexts, Sync!Contexts
<1>8. ASSUME NEW c \in Contexts, Command(c) PROVE ContextInv'
  BY <1>8, CommandStep
<1>9. CASE TimerInterrupt \/ UnknownInterrupt
  BY <1>9, InterruptStep
<1>10. CASE Exception
  BY <1>10, ExceptionStep
<1>11. ASSUME NEW c \in Contexts, Panic(c) PROVE ContextInv'
  BY <1>11, PanicStep
<1> QED BY <1>1, <1>2, <1>3, <1>4, <1>5, <1>6, <1>7, <1>8, <1>9, <1>10, <1>11
        DEF Next, HartStep, Contexts

LEMMA ContextsFit == Spec => []ContextInv
<1> QED BY ContextInit, ContextStep, PTL DEF Spec

\* No context ever holds two locks: every callee of boot, of print! and of a
\* handler takes its lock when its caller holds none, whatever was
\* interrupted, retried or panicked in between.
THEOREM HoldsOneLock == Spec => []OneLockAtATime
<1>1. ContextInv => OneLockAtATime
  BY DEF ContextInv, Fit, GuardsFit, OneLockAtATime, Contexts
<1> QED BY <1>1, ContextsFit, PTL

-----------------------------------------------------------------------------
(***************************************************************************)
(* The inductive invariant, part 2, of handlers: they run with interrupts  *)
(* off, and a handler over another one is a panic's, which never returns:  *)
(* what is left of its code ends in the loop of the panic handler.         *)
(***************************************************************************)
Halts(code) == code # << >> /\ code[Len(code)].do = "halt"

PrevOff(c) == c[2] > 0 => /\ prev[c] = FALSE
                          /\ guards[c] # << >> => guards[c][1].prev = FALSE

HaltsAboveTrap(c) == c[2] > 1 /\ c[2] <= depth[hart] => Halts(todo[c])

HandlerInv ==
    /\ depth[hart] > 0 => mie[hart] = FALSE
    /\ \A c \in Contexts : PrevOff(c)
    /\ \A c \in Contexts : HaltsAboveTrap(c)

LEMMA HaltsTail ==
    ASSUME NEW code \in Seq(Instructions), Halts(code), Head(code).do # "halt"
    PROVE  Halts(Tail(code))
<1> DEFINE n == Len(code) - 1
           t == Tail(code)
<1>1. Len(code) \in Nat /\ Len(code) > 0
  BY EmptySeq DEF Halts
<1>2. n \in Nat /\ Len(code) = n + 1
  BY <1>1
<1>3. Len(t) = n /\ Head(code) = code[1] /\ \A i \in 1..n : t[i] = code[i + 1]
  BY <1>1, HeadTailProperties
<1>4. code[n + 1].do = "halt"
  BY <1>2 DEF Halts
<1>5. t \in Seq(Instructions)
  BY <1>1, HeadTailProperties
<1> HIDE DEF n, t
<1>6. n # 0
  BY <1>3, <1>4
<1>7. n \in 1..n
  BY <1>2, <1>6
<1>8. t[n].do = "halt"
  BY <1>3, <1>4, <1>7
<1>9. t # << >>
  BY <1>3, <1>6
<1> QED BY <1>3, <1>8, <1>9 DEF Halts, t

LEMMA HaltsConcat ==
    ASSUME NEW a \in Seq(Instructions), NEW b \in Seq(Instructions), Halts(b)
    PROVE  Halts(a \o b)
<1> DEFINE m == Len(a)
           n == Len(b)
<1>1. m \in Nat /\ n \in Nat /\ n > 0
  BY EmptySeq DEF Halts
<1>2. a \o b \in Seq(Instructions) /\ Len(a \o b) = m + n
      /\ \A i \in 1..(m + n) : (a \o b)[i] = IF i <= m THEN a[i] ELSE b[i - m]
  BY ConcatProperties
<1>3. b[n].do = "halt"
  BY DEF Halts
<1> HIDE DEF m, n
<1>4. m + n \in 1..(m + n) /\ ~(m + n <= m) /\ (m + n) - m = n /\ m + n # 0
  BY <1>1
<1>5. (a \o b)[m + n].do = "halt"
  BY <1>2, <1>3, <1>4
<1>6. a \o b # << >>
  BY <1>2, <1>4
<1> QED BY <1>2, <1>5, <1>6 DEF Halts

LEMMA PanicHandlerHalts == Halts(PanicHandler)
<1>1. Prints("panic") \in Seq(Instructions) /\ Do("halt") \in Seq(Instructions)
  BY PrintsRuns, DoRuns DEF Runs, Takes, Texts, Unlocked
<1>2. Halts(Do("halt"))
  BY DEF Halts, Do
<1> QED BY <1>1, <1>2, HaltsConcat DEF PanicHandler

\* How a step changes the code that contexts have left, and the counters.
Proceeds(c) ==
    /\ \E what \in (Unlocked \cup {"uart", "console", "lock", "drop"}) \ {"halt", "tick"} :
           Doing(c, what)
    /\ Goes(c)
    /\ UNCHANGED <<depth, ticks, interrupts>>

LEMMA CodeMoves ==
    ASSUME [Next]_vars
    PROVE  \/ UNCHANGED <<todo, depth, ticks, interrupts>>
           \/ \E c \in Contexts : Proceeds(c) \/ Tick(c) \/ Command(c) \/ Panic(c)
           \/ TimerInterrupt \/ UnknownInterrupt \/ Exception
           \/ Return
<1>1. ASSUME NEW c \in Contexts, WriteUart(c) \/ WriteConsole(c)
      PROVE  Proceeds(c) \/ UNCHANGED <<todo, depth, ticks, interrupts>>
  BY <1>1 DEF WriteUart, WriteConsole, NextPiece, Proceeds, syncVars, bounds
<1>2. ASSUME NEW c \in Contexts,
             CallLock(c) \/ DropGuard(c) \/ EnableTimer(c) \/ FindDevice(c)
                \/ StartDma(c) \/ WaitDma(c)
      PROVE  Proceeds(c)
  BY <1>2
  DEF CallLock, DropGuard, EnableTimer, FindDevice, StartDma, WaitDma, Proceeds, Unlocked,
      Sync!Drop, syncVars, bounds
<1>3. ASSUME NEW c \in Contexts, InsideLock(c)
      PROVE  UNCHANGED <<todo, depth, ticks, interrupts>>
  BY <1>3
  DEF InsideLock, Sync!Spin, Sync!Mask, Sync!Acquire, Sync!CasFails, Sync!Unmask, bounds
<1>4. FinishDma \/ UNCHANGED vars => UNCHANGED <<todo, depth, ticks, interrupts>>
  BY DEF FinishDma, vars, syncVars, bounds
<1> QED BY <1>1, <1>2, <1>3, <1>4 DEF Next, HartStep, Contexts

LEMMA ProceedsFacts ==
    ASSUME ContextInv, NEW c \in Contexts, Proceeds(c)
    PROVE  /\ todo[c] # << >> /\ Head(todo[c]).do \notin {"halt", "tick"}
           /\ depth[hart] = c[2]
           /\ todo' = [todo EXCEPT ![c] = Tail(todo[c])]
  BY DoingFacts DEF Proceeds, Goes

LEMMA HaltsStep ==
    ASSUME ContextInv, HandlerInv, [Next]_vars, NEW d \in Contexts
    PROVE  HaltsAboveTrap(d)'
<1> USE DEF HaltsAboveTrap
<1>1. /\ todo \in [Contexts -> Seq(Instructions)] /\ HaltsAboveTrap(d)
      /\ depth \in [{hart} -> 0..MaxDepth] /\ depth[hart] \in 0..MaxDepth
      /\ d[2] \in 0..MaxDepth
  BY SyncTypes, ContextFacts DEF ContextInv, HandlerInv
<1>2. CASE UNCHANGED <<todo, depth, ticks, interrupts>>
  BY <1>1, <1>2
<1>3. ASSUME NEW c \in Contexts, Proceeds(c) \/ Tick(c) PROVE HaltsAboveTrap(d)'
  <2>1. /\ Head(todo[c]).do # "halt" /\ depth' = depth
        /\ todo' = [todo EXCEPT ![c] = Tail(todo[c])]
    BY <1>3, ProceedsFacts, DoingFacts DEF Proceeds, Tick, Goes, syncVars
  <2>2. CASE d = c
    BY <2>1, <2>2, <1>1, HaltsTail
  <2>3. CASE d # c
    BY <2>1, <2>3, <1>1
  <2> QED BY <2>2, <2>3
<1>4. ASSUME NEW c \in Contexts, Command(c) PROVE HaltsAboveTrap(d)'
  <2>1. /\ depth' = depth /\ todo' = [todo EXCEPT ![c] = Prints("time") \o todo[c]]
    BY <1>4 DEF Command, Becomes, syncVars
  <2>2. Prints("time") \in Seq(Instructions)
    BY PrintsRuns DEF Runs, Takes, Texts
  <2>3. CASE d = c
    BY <2>1, <2>2, <2>3, <1>1, HaltsConcat
  <2>4. CASE d # c
    BY <2>1, <2>4, <1>1
  <2> QED BY <2>3, <2>4
<1>5. ASSUME NEW c \in Contexts, Panic(c) PROVE HaltsAboveTrap(d)'
  <2>1. /\ depth' = depth /\ todo' = [todo EXCEPT ![c] = PanicHandler]
    BY <1>5 DEF Panic, Becomes, syncVars
  <2>2. CASE d = c
    BY <2>1, <2>2, <1>1, PanicHandlerHalts
  <2>3. CASE d # c
    BY <2>1, <2>3, <1>1
  <2> QED BY <2>2, <2>3
<1>6. ASSUME NEW code, Becomes(Handler, code), depth' = [depth EXCEPT ![hart] = @ + 1],
             depth[hart] < MaxDepth, depth[hart] = 0 \/ Halts(code)
      PROVE  HaltsAboveTrap(d)'
  <2>1. PICK n \in 0..MaxDepth : n = depth[hart]
    BY <1>1
  <2>2. depth'[hart] = n + 1 /\ todo' = [todo EXCEPT ![<<hart, n + 1>>] = code]
    BY <1>1, <1>6, <2>1 DEF Becomes, Handler
  <2>3. CASE d = <<hart, n + 1>>
    <3>1. d[2] > 1 => n # 0
      BY <2>3, <2>1
    <3>2. todo'[d] = code
      BY <2>2, <2>3, <1>1
    <3> QED BY <3>1, <3>2, <2>1, <1>6
  <2>4. CASE d # <<hart, n + 1>>
    <3>1. d[2] # n + 1
      BY <2>4, ContextFacts
    <3>2. d[2] <= n + 1 => d[2] <= n
      BY <3>1, <1>1, <2>1
    <3>3. todo'[d] = todo[d]
      BY <2>2, <2>4, <1>1
    <3> QED BY <3>2, <3>3, <2>1, <2>2, <1>1
  <2> QED BY <2>3, <2>4
<1>7. CASE TimerInterrupt \/ UnknownInterrupt
  <2>1. mie[hart] /\ depth[hart] < MaxDepth /\ depth' = [depth EXCEPT ![hart] = @ + 1]
        /\ \E code : Becomes(Handler, code)
    BY <1>7 DEF TimerInterrupt, UnknownInterrupt, TakeInterrupt, Sync!Trap
  <2>2. depth[hart] = 0
    BY <2>1, <1>1 DEF HandlerInv
  <2> QED BY <2>1, <2>2, <1>6
<1>8. CASE Exception
  BY <1>8, <1>6, PanicHandlerHalts DEF Exception
<1>9. CASE Return
  <2>1. todo' = todo /\ depth' = [depth EXCEPT ![hart] = depth[hart] - 1]
    BY <1>9 DEF Return, Sync!Mret
  <2>2. depth'[hart] = depth[hart] - 1
    BY <2>1, <1>1
  <2> QED BY <2>1, <2>2, <1>1
<1> QED BY <1>2, <1>3, <1>4, <1>5, <1>7, <1>8, <1>9, CodeMoves

LEMMA MaskedStep ==
    ASSUME ContextInv, HandlerInv, [Next]_vars
    PROVE  /\ depth'[hart] > 0 => mie'[hart] = FALSE
           /\ \A d \in Contexts : PrevOff(d)'
<1> USE DEF PrevOff
<1> DEFINE Goal == /\ depth'[hart] > 0 => mie'[hart] = FALSE
                   /\ \A d \in Contexts : PrevOff(d)'
<1>1. /\ depth \in [{hart} -> 0..MaxDepth] /\ depth[hart] \in 0..MaxDepth
      /\ mie \in [{hart} -> BOOLEAN] /\ prev \in [Contexts -> BOOLEAN]
      /\ guards \in [Contexts -> Seq(Sync!Guard)]
      /\ depth[hart] > 0 => mie[hart] = FALSE
      /\ \A d \in Contexts : PrevOff(d)
  BY SyncTypes DEF ContextInv, HandlerInv
<1>2. CASE UNCHANGED <<mie, prev, guards, depth>>
  BY <1>1, <1>2
<1>3. ASSUME NEW c \in Contexts, InsideLock(c) PROVE Goal
  <2>1. depth' = depth /\ Sync!Hart(c) = hart /\ depth[hart] = c[2]
    BY <1>3, ContextFacts
    DEF InsideLock, Sync!Spin, Sync!Mask, Sync!Acquire, Sync!CasFails, Sync!Unmask, Sync!At,
        Sync!Active
  <2>2. CASE Sync!Spin(c) \/ Sync!CasFails(c)
    BY <1>2, <2>2 DEF Sync!Spin, Sync!CasFails
  <2>3. CASE Sync!Mask(c)
    BY <2>3, <2>1, <1>1 DEF Sync!Mask, Sync!DisableInterrupts
  <2>4. CASE Sync!Acquire(c)
    <3> DEFINE g == [lock |-> want[c], prev |-> prev[c]]
    <3>1. guards[c] = << >>
      BY <2>4 DEF ContextInv, Fit, GuardsFit, InLock, Sync!Acquire, Sync!At
    <3>2. guards' = [guards EXCEPT ![c] = Append(<< >>, g)] /\ UNCHANGED <<mie, prev>>
      BY <2>4, <3>1, <1>1 DEF Sync!Acquire
    <3>3. Append(<< >>, g) = <<g>> /\ <<g>>[1].prev = prev[c]
      OBVIOUS
    <3>4. \A d \in Contexts \ {c} : guards'[d] = guards[d]
      BY <3>2
    <3>5. guards'[c][1].prev = prev[c]
      BY <3>2, <3>3, <1>1
    <3> QED BY <3>2, <3>4, <3>5, <2>1, <1>1
  <2>5. CASE Sync!Unmask(c)
    BY <2>5, <2>1, <1>1 DEF Sync!Unmask, Sync!RestoreInterrupts
  <2> QED BY <1>3, <2>2, <2>3, <2>4, <2>5 DEF InsideLock
<1>4. ASSUME NEW c \in Contexts, DropGuard(c) PROVE Goal
  <2>1. Held(c) # None
    BY <1>4, DoingFacts DEF DropGuard, Fits, Unlocked
  <2>2. guards[c] # << >>
    BY <2>1 DEF Held
  <2>3. Len(guards[c]) = 1
    BY <2>2, OneGuard
  <2>4. /\ prev' = [prev EXCEPT ![c] = guards[c][1].prev]
        /\ guards' = [guards EXCEPT ![c] = Sync!RemoveAt(@, 1)]
        /\ UNCHANGED <<mie, depth>>
    BY <1>4, <2>3 DEF DropGuard, Sync!Drop
  <2>5. Sync!RemoveAt(guards[c], 1) = << >>
    BY <1>1, <2>3 DEF Sync!RemoveAt
  <2>6. guards'[c] = << >> /\ \A d \in Contexts \ {c} : guards'[d] = guards[d]
    BY <2>4, <2>5, <1>1
  <2>7. prev'[c] = guards[c][1].prev /\ \A d \in Contexts \ {c} : prev'[d] = prev[d]
    BY <2>4, <1>1
  <2> QED BY <2>2, <2>4, <2>6, <2>7, <1>1
<1>5. CASE TimerInterrupt \/ UnknownInterrupt \/ Exception
  BY <1>1, <1>5
  DEF TimerInterrupt, UnknownInterrupt, TakeInterrupt, Sync!Trap, Exception
<1>6. CASE Return
  <2>1. PICK n \in 0..MaxDepth : n = depth[hart]
    BY <1>1
  <2>2. /\ n > 0 /\ todo[<<hart, n>>] = << >>
        /\ depth' = [depth EXCEPT ![hart] = n - 1] /\ UNCHANGED <<prev, guards>>
    BY <1>6, <2>1 DEF Return, Sync!Mret
  <2>3. ~(n > 1)
    BY <2>1, <2>2, ContextFacts DEF HandlerInv, HaltsAboveTrap, Halts
  <2>4. depth'[hart] = 0
    BY <2>2, <2>3, <1>1
  <2> QED BY <2>2, <2>4, <1>1
<1>7. UNCHANGED <<mie, prev, guards, depth>> \/ (\E c \in Contexts : InsideLock(c) \/ DropGuard(c))
        \/ TimerInterrupt \/ UnknownInterrupt \/ Exception \/ Return
  BY DEF Next, HartStep, Contexts, CallLock, WriteUart, WriteConsole, EnableTimer, FindDevice,
         StartDma, WaitDma, Tick, FinishDma, Command, Panic, vars, syncVars
<1> QED BY <1>2, <1>3, <1>4, <1>5, <1>6, <1>7

LEMMA HandlersMasked == Spec => [](ContextInv /\ HandlerInv)
<1>1. Init => HandlerInv
  <2> SUFFICES ASSUME Init PROVE HandlerInv
    OBVIOUS
  <2>1. Sync!Init
    BY DEF Init
  <2>2. depth[hart] = 0 /\ \A c \in Contexts : prev[c] = FALSE /\ guards[c] = << >>
    BY <2>1 DEF Sync!Init, Contexts
  <2>3. \A c \in Contexts : ~(c[2] > 1 /\ c[2] <= 0)
    BY ContextFacts
  <2> QED BY <2>2, <2>3 DEF HandlerInv, PrevOff, HaltsAboveTrap
<1>2. ContextInv /\ HandlerInv /\ [Next]_vars => HandlerInv'
  BY HaltsStep, MaskedStep DEF HandlerInv, Contexts, Sync!Contexts
<1> QED BY <1>1, <1>2, ContextInit, ContextStep, PTL DEF Spec

-----------------------------------------------------------------------------
(***************************************************************************)
(* The inductive invariant, part 3, of ticks: each is counted by an        *)
(* interrupt of its own.  Only the handler over main ever has a tick to    *)
(* count, and while it has, one interrupt is not yet counted.              *)
(***************************************************************************)
NoTick == {i \in Instructions : i.do # "tick"}

TickPending(c) == c = <<hart, 1>> /\ todo[c] = Do("tick") /\ ticks < interrupts

TickInv ==
    /\ interrupts \in 0..MaxInterrupts
    /\ ticks \in 0..interrupts
    /\ \A c \in Contexts : todo[c] \in Seq(NoTick) \/ TickPending(c)

LEMMA NoTickInstructions ==
    /\ \A what \in Unlocked \ {"tick"} : Do(what) \in Seq(NoTick)
    /\ \A m \in Texts : UartText(m) \in Seq(NoTick) /\ ConsoleText(m) \in Seq(NoTick)
    /\ << >> \in Seq(NoTick)
<1>1. \A i \in NoTick : <<i>> \in Seq(NoTick)
  OBVIOUS
<1>2. \A what \in Unlocked \ {"tick"} : [do |-> what] \in NoTick
  BY DEF NoTick, Instructions
<1>3. \A m \in Texts : [do |-> "uart", text |-> m] \in NoTick /\ [do |-> "console", text |-> m] \in NoTick
  BY DEF NoTick, Instructions
<1> QED BY <1>1, <1>2, <1>3, EmptySeq DEF Do, UartText, ConsoleText

LEMMA NoTickLocked ==
    ASSUME NEW l \in {HEAP, BLK, CONSOLE}, NEW code \in Seq(NoTick)
    PROVE  Locked(l, code) \in Seq(NoTick)
<1>1. [do |-> "lock", lock |-> l] \in NoTick /\ [do |-> "drop"] \in NoTick
  BY DEF NoTick, Instructions
<1>2. << [do |-> "lock", lock |-> l] >> \in Seq(NoTick) /\ Do("drop") \in Seq(NoTick)
  BY <1>1 DEF Do
<1> QED BY <1>2, ConcatProperties DEF Locked

LEMMA NoTickPrints == ASSUME NEW m \in Texts PROVE Prints(m) \in Seq(NoTick)
  BY NoTickInstructions, NoTickLocked, ConcatProperties DEF Prints

LEMMA NoTickPanic == PanicHandler \in Seq(NoTick)
<1>1. Prints("panic") \in Seq(NoTick) /\ Do("halt") \in Seq(NoTick)
  BY NoTickPrints, NoTickInstructions DEF Texts, Unlocked
<1> QED BY <1>1, ConcatProperties DEF PanicHandler

LEMMA NoTickMain == Main \in Seq(NoTick)
<1> USE ConcatProperties
<1>1. \A l \in {HEAP, BLK, CONSOLE} : Locked(l, << >>) \in Seq(NoTick)
  BY NoTickLocked, NoTickInstructions
<1>2. /\ Do("timer") \in Seq(NoTick) /\ Do("probe") \in Seq(NoTick)
      /\ Do("start_dma") \in Seq(NoTick) /\ Do("wait_dma") \in Seq(NoTick)
      /\ Do("shell") \in Seq(NoTick)
  BY NoTickInstructions DEF Unlocked
<1>3. /\ Prints("virtio") \in Seq(NoTick) /\ Prints("ramfb") \in Seq(NoTick)
      /\ Prints("hello") \in Seq(NoTick)
  BY NoTickPrints DEF Texts
<1>4. VirtioBlkInit \in Seq(NoTick)
  <2>1. Do("probe") \o Locked(HEAP, << >>) \in Seq(NoTick)
    BY <1>1, <1>2
  <2>2. Do("probe") \o Locked(HEAP, << >>) \o Prints("virtio") \in Seq(NoTick)
    BY <2>1, <1>3
  <2> QED BY <2>2, <1>1 DEF VirtioBlkInit
<1>5. FrameBufferInit \in Seq(NoTick)
  <2>1. Do("start_dma") \o Do("wait_dma") \in Seq(NoTick)
    BY <1>2
  <2> QED BY <2>1, <1>3 DEF FrameBufferInit
<1>6. KernelInit \in Seq(NoTick)
  <2>1. Locked(HEAP, << >>) \o Do("timer") \in Seq(NoTick)
    BY <1>1, <1>2
  <2>2. Locked(HEAP, << >>) \o Do("timer") \o VirtioBlkInit \in Seq(NoTick)
    BY <2>1, <1>4
  <2>3. Locked(HEAP, << >>) \o Do("timer") \o VirtioBlkInit \o FrameBufferInit \in Seq(NoTick)
    BY <2>2, <1>5
  <2> QED BY <2>3, <1>1 DEF KernelInit
<1>7. KernelInit \o Prints("hello") \in Seq(NoTick)
  BY <1>3, <1>6
<1> QED BY <1>7, <1>2 DEF Main

\* Code without a tick goes on without one, and does not begin with one.
LEMMA NoTickRest ==
    ASSUME NEW code \in Seq(NoTick), code # << >>
    PROVE  Head(code).do # "tick" /\ Tail(code) \in Seq(NoTick)
<1>1. Head(code) \in NoTick /\ Tail(code) \in Seq(NoTick)
  BY HeadTailProperties
<1> QED BY <1>1 DEF NoTick

LEMMA TickPendingFacts ==
    ASSUME NEW c \in Contexts, TickPending(c)
    PROVE  todo[c] # << >> /\ Head(todo[c]).do = "tick" /\ Tail(todo[c]) = << >>
<1>1. todo[c] = << [do |-> "tick"] >>
  BY DEF TickPending, Do
<1>2. << [do |-> "tick"] >> # << >> /\ Head(<< [do |-> "tick"] >>) = [do |-> "tick"]
      /\ Tail(<< [do |-> "tick"] >>) = << >>
  OBVIOUS
<1> QED BY <1>1, <1>2

LEMMA TickStep ==
    ASSUME ContextInv, HandlerInv, TickInv, [Next]_vars PROVE TickInv'
<1> USE DEF TickPending
<1>1. /\ interrupts \in Nat /\ ticks \in Nat /\ interrupts <= MaxInterrupts /\ ticks <= interrupts
      /\ todo \in [Contexts -> Seq(Instructions)]
      /\ \A c \in Contexts : todo[c] \in Seq(NoTick) \/ TickPending(c)
      /\ Contexts' = Contexts
  BY MaxInterruptsAssumption DEF TickInv, ContextInv, Contexts, Sync!Contexts
<1>2. CASE UNCHANGED <<todo, depth, ticks, interrupts>>
  BY <1>1, <1>2, MaxInterruptsAssumption DEF TickInv
<1>3. ASSUME NEW c \in Contexts, Proceeds(c) PROVE TickInv'
  <2>1. /\ todo[c] # << >> /\ Head(todo[c]).do # "tick"
        /\ todo' = [todo EXCEPT ![c] = Tail(todo[c])] /\ UNCHANGED <<ticks, interrupts>>
    BY <1>3, ProceedsFacts DEF Proceeds
  <2>2. todo[c] \in Seq(NoTick)
    BY <2>1, <1>1, TickPendingFacts
  <2>3. Tail(todo[c]) \in Seq(NoTick)
    BY <2>1, <2>2, NoTickRest
  <2> QED BY <1>1, <2>1, <2>3, MaxInterruptsAssumption DEF TickInv
<1>4. ASSUME NEW c \in Contexts, Tick(c) PROVE TickInv'
  <2>1. /\ todo[c] # << >> /\ Head(todo[c]).do = "tick" /\ ticks' = ticks + 1
        /\ interrupts' = interrupts /\ todo' = [todo EXCEPT ![c] = Tail(todo[c])]
    BY <1>4, DoingFacts DEF Tick, Goes, bounds
  <2>2. todo[c] \notin Seq(NoTick)
    BY <2>1, NoTickRest
  <2>3. TickPending(c)
    BY <1>1, <2>2
  <2>4. Tail(todo[c]) \in Seq(NoTick)
    BY <2>3, TickPendingFacts, NoTickInstructions
  <2>5. ticks + 1 \in 0..interrupts
    BY <2>3, <1>1
  <2>6. ASSUME NEW d \in Contexts, d # c PROVE todo'[d] \in Seq(NoTick)
    BY <2>1, <2>3, <2>6, <1>1
  <2>7. todo'[c] \in Seq(NoTick)
    BY <2>1, <2>4, <1>1
  <2> QED BY <1>1, <2>1, <2>5, <2>6, <2>7, MaxInterruptsAssumption DEF TickInv
<1>5. ASSUME NEW c \in Contexts, Command(c) PROVE TickInv'
  <2>1. /\ todo[c] # << >> /\ Head(todo[c]).do # "tick"
        /\ todo' = [todo EXCEPT ![c] = Prints("time") \o todo[c]] /\ UNCHANGED <<ticks, interrupts>>
    BY <1>5, DoingFacts DEF Command, Becomes
  <2>2. todo[c] \in Seq(NoTick)
    BY <2>1, <1>1, TickPendingFacts
  <2>3. Prints("time") \o todo[c] \in Seq(NoTick)
    BY <2>2, NoTickPrints, ConcatProperties DEF Texts
  <2> QED BY <1>1, <2>1, <2>3, MaxInterruptsAssumption DEF TickInv
<1>6. ASSUME NEW c \in Contexts, Panic(c) PROVE TickInv'
  <2>1. /\ todo' = [todo EXCEPT ![c] = PanicHandler] /\ UNCHANGED <<ticks, interrupts>>
    BY <1>6 DEF Panic, Becomes, bounds
  <2> QED BY <1>1, <2>1, NoTickPanic, MaxInterruptsAssumption DEF TickInv
<1>7. CASE TimerInterrupt \/ UnknownInterrupt
  <2>1. PICK code : /\ code = Do("tick") \/ code = Prints("unknown")
                    /\ TakeInterrupt(code)
    BY <1>7 DEF TimerInterrupt, UnknownInterrupt
  <2>2. /\ interrupts < MaxInterrupts /\ interrupts' = interrupts + 1 /\ ticks' = ticks
        /\ mie[hart] /\ todo' = [todo EXCEPT ![Handler] = code]
    BY <2>1 DEF TakeInterrupt, Sync!Trap, Becomes
  <2>3. depth[hart] = 0
    <3>1. depth[hart] \in 0..MaxDepth
      BY SyncTypes DEF ContextInv
    <3> QED BY <2>2, <3>1 DEF HandlerInv
  <2>4. Handler = <<hart, 1>>
    BY <2>3 DEF Handler
  <2>5. interrupts + 1 \in 0..MaxInterrupts /\ ticks \in 0..(interrupts + 1) /\ ticks < interrupts + 1
    BY <1>1, <2>2, MaxInterruptsAssumption
  <2>6. Prints("unknown") \in Seq(NoTick)
    BY NoTickPrints DEF Texts
  <2>7. ASSUME NEW d \in Contexts PROVE todo'[d] \in Seq(NoTick) \/ TickPending(d)'
    <3>1. CASE d = <<hart, 1>>
      BY <3>1, <2>1, <2>2, <2>4, <2>5, <2>6, <1>1
    <3>2. CASE d # <<hart, 1>>
      BY <3>2, <2>2, <2>4, <1>1
    <3> QED BY <3>1, <3>2
  <2> QED BY <1>1, <2>2, <2>5, <2>7 DEF TickInv
<1>8. CASE Exception
  <2>1. todo' = [todo EXCEPT ![Handler] = PanicHandler] /\ UNCHANGED <<ticks, interrupts>>
    BY <1>8 DEF Exception, Becomes, bounds
  <2>2. ASSUME NEW d \in Contexts PROVE todo'[d] \in Seq(NoTick) \/ TickPending(d)'
    BY <2>1, <1>1, NoTickPanic
  <2> QED BY <1>1, <2>1, <2>2, MaxInterruptsAssumption DEF TickInv
<1>9. CASE Return
  BY <1>1, <1>9, MaxInterruptsAssumption DEF Return, TickInv, bounds
<1> QED BY <1>2, <1>3, <1>4, <1>5, <1>6, <1>7, <1>8, <1>9, CodeMoves

\* The counter never runs ahead of the timer: a tick that is counted is an
\* interrupt that was taken, also when its handler fails before or after.
LEMMA TicksCounted == Spec => [](ContextInv /\ HandlerInv /\ TickInv)
<1>1. Init => TickInv
  <2> SUFFICES ASSUME Init PROVE TickInv
    OBVIOUS
  <2>1. \A c \in Contexts : todo[c] \in Seq(NoTick)
    BY NoTickMain, NoTickInstructions DEF Init, Contexts
  <2> QED BY <2>1, MaxInterruptsAssumption DEF Init, TickInv
<1> QED BY <1>1, TickStep, HandlersMasked, PTL DEF Spec

-----------------------------------------------------------------------------
(* The types, and with them the bounds on what is printed *)

OutputTypes ==
    /\ shown \in [Contexts -> 0..MaxInterrupts]
    /\ uart \in Seq(Output) /\ console \in Seq(Output)
    /\ mtie \in BOOLEAN
    /\ dma \in {"idle", "busy", "done"}
    /\ panicked \subseteq Contexts

\* What a context at a text writes, and how its own counters move on.
LEMMA WriteFacts ==
    ASSUME ContextInv, TickInv, OutputTypes, NEW c \in Contexts,
           NEW what \in {"uart", "console"}, Doing(c, what), NextPiece(c)
    PROVE  /\ Written(c) \in Output
           /\ Written(c).by = c /\ Written(c).text = Head(todo[c]).text
           /\ Written(c).piece = piece[c] + 1 /\ Written(c).shows = Formatted(c)
           /\ piece[c] \in 0..(Pieces - 1)
           /\ shown' = [shown EXCEPT ![c] = Formatted(c)]
           /\ Formatted(c) \in 0..MaxInterrupts
<1>1. Head(todo[c]) \in Instructions /\ Head(todo[c]).do = what
  BY DoingFacts
<1>2. Head(todo[c]).text \in Texts
  BY <1>1 DEF Instructions, Unlocked
<1>3. piece[c] \in 0..(Pieces - 1) /\ piece[c] + 1 \in 1..Pieces
  BY PiecesAssumption DEF ContextInv
<1>4. 0 \in 0..MaxInterrupts /\ ticks \in 0..MaxInterrupts /\ shown[c] \in 0..MaxInterrupts
  BY MaxInterruptsAssumption DEF TickInv, OutputTypes
<1>5. Formatted(c) \in 0..MaxInterrupts
  BY <1>4 DEF Formatted, Argument
<1>6. shown' = [shown EXCEPT ![c] = Formatted(c)]
  BY DEF NextPiece
<1> HIDE DEF Formatted
<1>7. Written(c) \in Output
  BY <1>2, <1>3, <1>5 DEF Written, Output, Texts, Contexts
<1> QED BY <1>3, <1>5, <1>6, <1>7 DEF Written

LEMMA OutputStep ==
    ASSUME ContextInv, TickInv, OutputTypes, [Next]_vars PROVE OutputTypes'
<1> USE DEF OutputTypes
<1>1. ASSUME NEW c \in Contexts, WriteUart(c) \/ WriteConsole(c) PROVE OutputTypes'
  <2>1. PICK what \in {"uart", "console"} : Doing(c, what) /\ NextPiece(c)
    BY <1>1 DEF WriteUart, WriteConsole
  <2>2. /\ Written(c) \in Output /\ shown' = [shown EXCEPT ![c] = Formatted(c)]
        /\ Formatted(c) \in 0..MaxInterrupts
    BY <2>1, WriteFacts
  <2>3. /\ uart' = Append(uart, Written(c)) \/ uart' = uart
        /\ console' = Append(console, Written(c)) \/ console' = console
        /\ UNCHANGED <<mtie, dma, panicked>>
    BY <1>1 DEF WriteUart, WriteConsole
  <2> PICK e \in Output : e = Written(c)
    BY <2>2
  <2>4. uart' \in Seq(Output) /\ console' \in Seq(Output)
    <3>1. Append(uart, e) \in Seq(Output) /\ Append(console, e) \in Seq(Output)
      BY AppendProperties
    <3> QED BY <2>3, <3>1
  <2>5. shown' \in [Contexts -> 0..MaxInterrupts]
    BY <2>2
  <2> QED BY <2>3, <2>4, <2>5 DEF Contexts, Sync!Contexts, Output
<1>2. CASE Exception
  <2>1. depth[hart] \in 0..MaxDepth
    BY SyncTypes DEF ContextInv
  <2>2. depth[hart] + 1 \in 0..MaxDepth
    BY <1>2, <2>1, MaxDepthAssumption DEF Exception
  <2>3. Handler \in Contexts
    BY <2>2, ContextFacts DEF Handler
  <2> QED BY <1>2, <2>3 DEF Exception, Contexts, Sync!Contexts, Output
<1>3. ASSUME NEW c \in Contexts, Panic(c) PROVE OutputTypes'
  BY <1>3 DEF Panic, Contexts, Sync!Contexts, Output
<1>4. ASSUME UNCHANGED <<shown, uart, console, panicked>>,
             mtie' \in {mtie, TRUE}, dma' \in {dma, "busy", "done"}
      PROVE OutputTypes'
  BY <1>4 DEF Contexts, Sync!Contexts, Output
<1>5. \/ /\ UNCHANGED <<shown, uart, console, panicked>>
          /\ mtie' \in {mtie, TRUE} /\ dma' \in {dma, "busy", "done"}
       \/ Exception
       \/ \E c \in Contexts : WriteUart(c) \/ WriteConsole(c) \/ Panic(c)
  BY DEF Next, HartStep, Contexts, CallLock, InsideLock, DropGuard, EnableTimer, FindDevice,
         StartDma, WaitDma, Tick, FinishDma, Command, TimerInterrupt, UnknownInterrupt,
         TakeInterrupt, Return, vars
<1> QED BY <1>1, <1>2, <1>3, <1>4, <1>5

TypeInv == ContextInv /\ HandlerInv /\ TickInv /\ OutputTypes

LEMMA TypesKept == Spec => []TypeInv
<1>1. Init => OutputTypes
  <2>1. 0 \in 0..MaxInterrupts /\ << >> \in Seq(Output)
    BY MaxInterruptsAssumption, EmptySeq
  <2> QED BY <2>1 DEF Init, OutputTypes, Contexts
<1>2. TypeInv /\ [Next]_vars => OutputTypes'
  BY OutputStep DEF TypeInv
<1> QED BY <1>1, <1>2, TicksCounted, PTL DEF TypeInv, Spec

\* Every variable keeps its type, in each state of a kernel that is
\* interrupted and fails wherever it may: in particular TICKS, and with it
\* whatever a print shows of it, stays within the interrupts that are taken.
THEOREM TypeCorrect == Spec => []TypeOK
<1>1. TypeInv => TypeOK
  <2> SUFFICES ASSUME TypeInv PROVE TypeOK
    OBVIOUS
  <2>1. ticks \in 0..MaxInterrupts
    BY MaxInterruptsAssumption DEF TypeInv, TickInv
  <2> QED BY <2>1 DEF TypeInv, ContextInv, OutputTypes, TypeOK, Contexts
<1> QED BY <1>1, TypesKept, PTL

\* Handlers run with interrupts off, so that the only trap over a handler is
\* an exception, and the panic over it never returns into it.
THEOREM HandlersRunMasked ==
    Spec => [](\A c \in Contexts :
                   /\ Sync!Active(c) /\ c[2] > 0 => mie[hart] = FALSE
                   /\ c[2] > 1 /\ c[2] <= depth[hart] => Halts(todo[c]))
<1>1. HandlerInv => \A c \in Contexts :
                        /\ Sync!Active(c) /\ c[2] > 0 => mie[hart] = FALSE
                        /\ c[2] > 1 /\ c[2] <= depth[hart] => Halts(todo[c])
  BY ContextFacts DEF HandlerInv, HaltsAboveTrap, Sync!Active
<1> QED BY <1>1, HandlersMasked, PTL

-----------------------------------------------------------------------------
(***************************************************************************)
(* The inductive invariant, part 4, of the locks: no two contexts hold the *)
(* same one, and what is held is marked locked.                            *)
(***************************************************************************)
LockInv ==
    /\ \A c \in Contexts : Held(c) # None => locked[Held(c)] = TRUE
    /\ \A c, d \in Contexts : Held(c) # None /\ Held(c) = Held(d) => c = d

LEMMA LockMoves ==
    ASSUME [Next]_vars
    PROVE  \/ UNCHANGED <<locked, guards>>
           \/ \E c \in Contexts : InsideLock(c) /\ Sync!Acquire(c)
           \/ \E c \in Contexts : DropGuard(c)
<1>1. ASSUME NEW c \in Contexts, InsideLock(c), ~Sync!Acquire(c)
      PROVE  UNCHANGED <<locked, guards>>
  BY <1>1 DEF InsideLock, Sync!Spin, Sync!Mask, Sync!CasFails, Sync!Unmask
<1>2. ASSUME NEW c \in Contexts,
             CallLock(c) \/ WriteUart(c) \/ WriteConsole(c) \/ EnableTimer(c) \/ FindDevice(c)
               \/ StartDma(c) \/ WaitDma(c) \/ Tick(c) \/ Command(c) \/ Panic(c)
      PROVE  UNCHANGED <<locked, guards>>
  BY <1>2 DEF CallLock, WriteUart, WriteConsole, EnableTimer, FindDevice, StartDma, WaitDma,
              Tick, Command, Panic, syncVars
<1>3. ASSUME \/ Return \/ FinishDma \/ TimerInterrupt \/ UnknownInterrupt \/ Exception
             \/ UNCHANGED vars
      PROVE  UNCHANGED <<locked, guards>>
  BY <1>3 DEF Return, FinishDma, TimerInterrupt, UnknownInterrupt, Exception, TakeInterrupt,
              Sync!Trap, Sync!Mret, vars, syncVars
<1> QED BY <1>1, <1>2, <1>3 DEF Next, HartStep, Contexts

LEMMA LockStep == ASSUME ContextInv, LockInv, [Next]_vars PROVE LockInv'
<1> USE DEF LockInv
<1>1. /\ locked \in [{HEAP, BLK, CONSOLE} -> BOOLEAN] /\ guards \in [Contexts -> Seq(Sync!Guard)]
      /\ Contexts' = Contexts
  BY SyncTypes DEF ContextInv, Contexts, Sync!Contexts
<1>2. CASE UNCHANGED <<locked, guards>>
  BY <1>1, <1>2 DEF Held
<1>3. ASSUME NEW c \in Contexts, InsideLock(c), Sync!Acquire(c) PROVE LockInv'
  <2> DEFINE l == want[c]
             g == [lock |-> l, prev |-> prev[c]]
  <2>1. guards[c] = << >> /\ l \in {HEAP, BLK, CONSOLE}
    BY <1>3, SyncTypes DEF ContextInv, Fit, GuardsFit, InLock, Sync!Acquire, Sync!At
  <2>2. /\ ~locked[l] /\ locked' = [locked EXCEPT ![l] = TRUE]
        /\ guards' = [guards EXCEPT ![c] = Append(<< >>, g)]
    BY <1>1, <1>3, <2>1 DEF Sync!Acquire
  <2>3. Append(<< >>, g) = <<g>> /\ <<g>> # << >> /\ <<g>>[1] = g /\ g.lock = l
    OBVIOUS
  <2> PICK m \in {HEAP, BLK, CONSOLE} : m = l
    BY <2>1
  <2> HIDE DEF g, l
  <2>4. Held(c)' = m
    BY <2>2, <2>3, <1>1 DEF Held
  <2>5. \A d \in Contexts \ {c} : Held(d)' = Held(d)
    BY <2>2 DEF Held
  <2>6. \A d \in Contexts : Held(d) # None => Held(d) \in {HEAP, BLK, CONSOLE} /\ locked[Held(d)] = TRUE
    BY OneGuard DEF Held
  <2>7. \A d \in Contexts : Held(d) # None => Held(d) # m
    BY <2>2, <2>6
  <2>8. locked'[m] = TRUE
        /\ \A k \in {HEAP, BLK, CONSOLE} : locked[k] = TRUE => locked'[k] = TRUE
    BY <2>2, <1>1
  <2>9. ASSUME NEW d \in Contexts PROVE Held(d)' # None => locked'[Held(d)'] = TRUE
    <3>1. CASE d = c
      BY <3>1, <2>4, <2>8
    <3>2. CASE d # c
      BY <3>2, <2>5, <2>6, <2>8
    <3> QED BY <3>1, <3>2
  <2>10. ASSUME NEW d \in Contexts, NEW e \in Contexts, Held(d)' # None, Held(d)' = Held(e)'
         PROVE d = e
    BY <2>4, <2>5, <2>7, <2>10
  <2> HIDE DEF Held
  <2> QED BY <2>9, <2>10, <1>1
<1>4. ASSUME NEW c \in Contexts, DropGuard(c) PROVE LockInv'
  <2>1. Held(c) # None
    BY <1>4, DoingFacts DEF DropGuard, Fits, Unlocked
  <2>2. guards[c] # << >>
    BY <2>1 DEF Held
  <2>3. Len(guards[c]) = 1 /\ Held(c) = guards[c][1].lock
    BY <2>2, OneGuard
  <2>4. /\ locked' = [locked EXCEPT ![guards[c][1].lock] = FALSE]
        /\ guards' = [guards EXCEPT ![c] = Sync!RemoveAt(@, 1)]
    BY <1>4, <2>3 DEF DropGuard, Sync!Drop
  <2>5. Sync!RemoveAt(guards[c], 1) = << >>
    BY <1>1, <2>3 DEF Sync!RemoveAt
  <2>6. Held(c)' = None
    BY <2>4, <2>5, <1>1 DEF Held
  <2>7. \A d \in Contexts \ {c} : Held(d)' = Held(d)
    BY <2>4 DEF Held
  <2>8. \A d \in Contexts : Held(d) # None => Held(d) \in {HEAP, BLK, CONSOLE}
    BY OneGuard DEF Held
  <2>9. \A k \in {HEAP, BLK, CONSOLE} : k # Held(c) => locked'[k] = locked[k]
    BY <2>3, <2>4, <1>1
  <2> HIDE DEF Held
  <2>10. ASSUME NEW d \in Contexts, d # c, Held(d) # None PROVE locked'[Held(d)] = TRUE
    <3>1. Held(d) # Held(c)
      BY <2>10
    <3> QED BY <3>1, <2>8, <2>9, <2>10
  <2>11. ASSUME NEW d \in Contexts PROVE Held(d)' # None => locked'[Held(d)'] = TRUE
    BY <2>6, <2>7, <2>10
  <2>12. ASSUME NEW d \in Contexts, NEW e \in Contexts, Held(d)' # None, Held(d)' = Held(e)'
         PROVE d = e
    BY <2>6, <2>7, <2>12
  <2> QED BY <2>11, <2>12, <1>1
<1> QED BY <1>2, <1>3, <1>4, LockMoves

-----------------------------------------------------------------------------
(***************************************************************************)
(* The inductive invariant, part 5, of the console: a text that is not yet *)
(* whole is the last one, and the one its writer is inside of, at the      *)
(* piece and with the argument the console shows; a context inside a text  *)
(* wrote the last piece.                                                   *)
(***************************************************************************)
InsideText(c) == piece[c] # 0 /\ Head(todo[c]).do = "console"

LastOf(c) == [by |-> c, text |-> Head(todo[c]).text, piece |-> piece[c], shows |-> shown[c]]

Cut == Len(console) > 0 /\ console[Len(console)].piece < Pieces

ConsoleInv ==
    /\ ConsoleTextWhole
    /\ \A c \in Contexts :
           InsideText(c) => Len(console) > 0 /\ console[Len(console)] = LastOf(c)
    /\ Cut => InsideText(console[Len(console)].by)

\* A step that writes no text leaves alone whoever is inside one.
LEMMA TextMoves ==
    ASSUME ContextInv, [Next]_vars
    PROVE  \/ \E c \in Contexts : WriteConsole(c) \/ WriteUart(c)
           \/ /\ UNCHANGED <<piece, shown, console>>
              /\ \A d \in Contexts : piece[d] # 0 => todo'[d] = todo[d]
<1> DEFINE Aside == /\ UNCHANGED <<piece, shown, console>>
                    /\ \A d \in Contexts : piece[d] # 0 => todo'[d] = todo[d]
<1>1. ASSUME NEW c \in Contexts,
             CallLock(c) \/ DropGuard(c) \/ EnableTimer(c) \/ FindDevice(c) \/ StartDma(c)
               \/ WaitDma(c) \/ Tick(c) \/ Command(c) \/ Panic(c)
      PROVE  Aside
  <2>1. /\ \E what : Doing(c, what) /\ what \notin {"uart", "console"}
        /\ UNCHANGED <<piece, shown, console>>
        /\ Goes(c) \/ \E code : Becomes(c, code)
    BY <1>1 DEF CallLock, DropGuard, EnableTimer, FindDevice, StartDma, WaitDma, Tick, Command,
                Panic
  <2>2. piece[c] = 0
    BY <2>1, BetweenTexts
  <2>3. todo \in [Contexts -> Seq(Instructions)]
    BY DEF ContextInv
  <2>4. \A d \in Contexts : d # c => todo'[d] = todo[d]
    BY <2>1, <2>3 DEF Goes, Becomes
  <2> QED BY <2>1, <2>2, <2>4
<1>2. ASSUME NEW c \in Contexts, InsideLock(c) PROVE Aside
  BY <1>2 DEF InsideLock
<1>3. CASE Return \/ FinishDma \/ UNCHANGED vars
  BY <1>3 DEF Return, FinishDma, vars
<1>4. CASE TimerInterrupt \/ UnknownInterrupt \/ Exception
  <2>1. /\ depth[hart] < MaxDepth /\ UNCHANGED <<piece, shown, console>>
        /\ \E code : Becomes(Handler, code)
    BY <1>4 DEF TimerInterrupt, UnknownInterrupt, TakeInterrupt, Exception, Sync!Trap
  <2>2. PICK n \in 0..MaxDepth : n = depth[hart]
    BY SyncTypes DEF ContextInv
  <2>3. n + 1 \in 0..MaxDepth /\ n + 1 > n
    BY <2>1, <2>2, MaxDepthAssumption
  <2>4. PICK c \in Contexts : c = Handler /\ c[2] = n + 1
    BY <2>2, <2>3, ContextFacts DEF Handler
  <2>5. todo[c] = << >> /\ piece[c] = 0
    BY <2>2, <2>3, <2>4 DEF ContextInv, Fit, IdleAboveDepth, PieceFits
  <2>6. todo \in [Contexts -> Seq(Instructions)]
    BY DEF ContextInv
  <2>7. \A d \in Contexts : d # c => todo'[d] = todo[d]
    BY <2>1, <2>4, <2>6 DEF Becomes
  <2> QED BY <2>1, <2>5, <2>7
<1> QED BY <1>1, <1>2, <1>3, <1>4 DEF Next, HartStep, Contexts

\* How a context moves on inside a text.
LEMMA NextPieceFacts ==
    ASSUME ContextInv, NEW c \in Contexts, NextPiece(c), todo[c] # << >>
    PROVE  /\ \A d \in Contexts \ {c} :
                  piece'[d] = piece[d] /\ shown'[d] = shown[d] /\ todo'[d] = todo[d]
           /\ piece[c] + 1 < Pieces => piece'[c] = piece[c] + 1 /\ todo'[c] = todo[c]
           /\ ~(piece[c] + 1 < Pieces) => piece'[c] = 0
<1>1. piece \in [Contexts -> 0..(Pieces - 1)] /\ todo \in [Contexts -> Seq(Instructions)]
  BY DEF ContextInv
<1>2. shown' = [shown EXCEPT ![c] = Formatted(c)]
  BY DEF NextPiece
<1>3. \A d \in Contexts \ {c} : shown'[d] = shown[d]
  BY <1>2
<1>4. CASE piece[c] + 1 < Pieces
  <2>1. piece' = [piece EXCEPT ![c] = @ + 1] /\ todo' = todo
    BY <1>4 DEF NextPiece
  <2> QED BY <2>1, <1>1, <1>3, <1>4
<1>5. CASE ~(piece[c] + 1 < Pieces)
  <2>1. piece' = [piece EXCEPT ![c] = 0] /\ todo' = [todo EXCEPT ![c] = Tail(@)]
    BY <1>5 DEF NextPiece, Goes
  <2> QED BY <2>1, <1>1, <1>3, <1>5
<1> QED BY <1>4, <1>5

\* Who is inside a text on the console holds its lock.
LEMMA InsideHolds ==
    ASSUME ContextInv, NEW c \in Contexts, todo[c] # << >>, pc[c] = "run",
           Head(todo[c]).do = "console"
    PROVE  Held(c) = CONSOLE
<1>1. Takes(todo[c], Held(c), None)
  BY DEF ContextInv, Fit, CodeFits, InLock
<1>2. \E m \in Holdings : Fits(Head(todo[c]), Held(c), m)
  BY <1>1, Uncons
<1> QED BY <1>2 DEF Fits, Unlocked

LEMMA ConsoleStep ==
    ASSUME TypeInv, LockInv, ConsoleInv, [Next]_vars PROVE ConsoleInv'
<1> DEFINE n == Len(console)
<1>1. /\ console \in Seq(Output) /\ n \in Nat /\ DOMAIN console = 1..n
      /\ \A i \in 1..n : console[i] \in Output /\ console[i].by \in Contexts
                         /\ console[i].piece \in 1..Pieces
      /\ ContextInv /\ Contexts' = Contexts
  <2>1. console \in Seq(Output) /\ ContextInv
    BY DEF TypeInv, OutputTypes
  <2>2. \A i \in 1..n : console[i] \in Output
    BY <2>1, ElementOfSeq
  <2> QED BY <2>1, <2>2 DEF Output, Contexts, Sync!Contexts
<1>2. CASE /\ UNCHANGED <<piece, shown, console>>
           /\ \A d \in Contexts : piece[d] # 0 => todo'[d] = todo[d]
  <2>1. ConsoleTextWhole' /\ (Cut' <=> Cut)
    BY <1>2 DEF ConsoleInv, ConsoleTextWhole, Cut
  <2>2. \A d \in Contexts : InsideText(d)' <=> InsideText(d)
    BY <1>2 DEF InsideText
  <2>3. \A d \in Contexts : InsideText(d) => LastOf(d)' = LastOf(d)
    BY <1>2 DEF InsideText, LastOf
  <2>4. Cut => console[Len(console)].by \in Contexts
    BY <1>1 DEF Cut
  <2> HIDE DEF InsideText, LastOf, Cut
  <2> QED BY <1>1, <1>2, <2>1, <2>2, <2>3, <2>4 DEF ConsoleInv
<1>3. ASSUME NEW c \in Contexts, WriteUart(c) PROVE ConsoleInv'
  <2>1. Doing(c, "uart") /\ NextPiece(c) /\ console' = console
    BY <1>3 DEF WriteUart
  <2>2. todo[c] # << >> /\ Head(todo[c]).do = "uart"
    BY <2>1, <1>1, DoingFacts
  <2>3. /\ \A d \in Contexts \ {c} :
              piece'[d] = piece[d] /\ shown'[d] = shown[d] /\ todo'[d] = todo[d]
        /\ piece'[c] = 0 \/ todo'[c] = todo[c]
    BY <2>1, <2>2, <1>1, NextPieceFacts
  <2>4. ~InsideText(c) /\ ~InsideText(c)'
    BY <2>2, <2>3 DEF InsideText
  <2>5. \A d \in Contexts \ {c} :
            (InsideText(d)' <=> InsideText(d)) /\ LastOf(d)' = LastOf(d)
    BY <2>3 DEF InsideText, LastOf
  <2>6. ConsoleTextWhole' /\ (Cut' <=> Cut)
    BY <2>1 DEF ConsoleInv, ConsoleTextWhole, Cut
  <2>7. Cut => console[Len(console)].by \in Contexts
    BY <1>1 DEF Cut
  <2> HIDE DEF InsideText, LastOf, Cut
  <2> QED BY <1>1, <2>1, <2>4, <2>5, <2>6, <2>7 DEF ConsoleInv
<1>4. ASSUME NEW c \in Contexts, WriteConsole(c) PROVE ConsoleInv'
  <2>1. Doing(c, "console") /\ NextPiece(c) /\ console' = Append(console, Written(c))
    BY <1>4 DEF WriteConsole
  <2>2. todo[c] # << >> /\ Head(todo[c]).do = "console" /\ pc[c] = "run"
    BY <2>1, <1>1, DoingFacts
  <2>3. /\ Written(c) \in Output
        /\ Written(c).by = c /\ Written(c).text = Head(todo[c]).text
        /\ Written(c).piece = piece[c] + 1 /\ Written(c).shows = Formatted(c)
        /\ piece[c] \in 0..(Pieces - 1)
        /\ shown' = [shown EXCEPT ![c] = Formatted(c)]
    BY <2>1, WriteFacts DEF TypeInv
  <2>4. PICK e \in Output : e = Written(c)
    BY <2>3
  <2>5. PICK p \in 0..(Pieces - 1) : p = piece[c]
    BY <2>3
  <2>6. /\ e.by = c /\ e.text = Head(todo[c]).text /\ e.piece = p + 1
        /\ e.shows = IF p = 0 THEN Argument(Head(todo[c]).text) ELSE shown[c]
        /\ e = [by |-> e.by, text |-> e.text, piece |-> e.piece, shows |-> e.shows]
    BY <2>3, <2>4, <2>5 DEF Formatted, Written
  <2>7. /\ console' = Append(console, e) /\ Len(console') = n + 1
        /\ DOMAIN console' = 1..(n + 1)
        /\ \A i \in 1..n : console'[i] = console[i]
        /\ console'[n + 1] = e
    BY <1>1, <2>1, <2>4, AppendProperties
  <2>8. /\ \A d \in Contexts \ {c} :
              piece'[d] = piece[d] /\ shown'[d] = shown[d] /\ todo'[d] = todo[d]
        /\ p + 1 < Pieces => piece'[c] = p + 1 /\ todo'[c] = todo[c]
        /\ ~(p + 1 < Pieces) => piece'[c] = 0
        /\ shown'[c] = e.shows
    <3>1. shown \in [Contexts -> 0..MaxInterrupts]
      BY DEF TypeInv, OutputTypes
    <3> QED BY <1>1, <2>1, <2>2, <2>3, <2>4, <2>5, <3>1, NextPieceFacts
  \* Nobody else is inside a text.
  <2>9. ASSUME NEW d \in Contexts, InsideText(d) PROVE d = c
    <3>1. Held(d) = CONSOLE /\ Held(c) = CONSOLE
      BY <2>2, <2>9, <1>1, InsideHolds DEF InsideText, ContextInv, Fit, PieceFits
    <3> QED BY <3>1, Holding DEF LockInv
  \* The last text is whole, or this is its next piece.
  <2>10. n > 0 => IF p = 0 THEN ~(console[n].piece < Pieces)
                  ELSE console[n] = [e EXCEPT !.piece = @ - 1]
    <3>1. CASE p = 0
      <4>1. ASSUME Cut PROVE FALSE
        <5>1. InsideText(console[n].by) /\ console[n].by \in Contexts
          BY <4>1, <1>1 DEF ConsoleInv, Cut
        <5>2. console[n].by = c
          BY <5>1, <2>9
        <5> QED BY <5>1, <5>2, <3>1, <2>5 DEF InsideText
      <4> QED BY <4>1, <3>1 DEF Cut
    <3>2. CASE p # 0
      <4>1. InsideText(c)
        BY <3>2, <2>2, <2>5 DEF InsideText
      <4>2. console[n] = [by |-> c, text |-> e.text, piece |-> p, shows |-> e.shows]
        BY <4>1, <3>2, <2>5, <2>6 DEF ConsoleInv, LastOf
      <4>3. [e EXCEPT !.piece = @ - 1]
               = [by |-> c, text |-> e.text, piece |-> (p + 1) - 1, shows |-> e.shows]
        BY <2>6
      <4> QED BY <3>2, <4>2, <4>3
    <3> QED BY <3>1, <3>2
  <2>11. p # 0 => n > 0
    BY <2>2, <2>5 DEF ConsoleInv, InsideText
  <2>12. ConsoleTextWhole'
    <3> DEFINE Whole(i) ==
          /\ console'[i].piece > 1 => i > 1 /\ console'[i - 1] = [console'[i] EXCEPT !.piece = @ - 1]
          /\ console'[i].piece < Pieces /\ i < n + 1
               => console'[i + 1] = [console'[i] EXCEPT !.piece = @ + 1]
    <3>1. ASSUME NEW i \in 1..n, i < n PROVE Whole(i)
      <4>1. i \in 1..n /\ i + 1 \in 1..n /\ (i > 1 => i - 1 \in 1..n)
        BY <3>1, <1>1
      <4>2. /\ console[i].piece > 1 => i > 1 /\ console[i - 1] = [console[i] EXCEPT !.piece = @ - 1]
            /\ console[i].piece < Pieces /\ i < n
                 => console[i + 1] = [console[i] EXCEPT !.piece = @ + 1]
        BY <1>1, <4>1 DEF ConsoleInv, ConsoleTextWhole
      <4>3. console'[i] = console[i] /\ console'[i + 1] = console[i + 1]
            /\ (i > 1 => console'[i - 1] = console[i - 1])
        BY <2>7, <4>1
      <4> QED BY <4>2, <4>3, <3>1
    <3>2. ASSUME n > 0 PROVE Whole(n)
      <4>1. n \in 1..n /\ (n > 1 => n - 1 \in 1..n)
        BY <3>2, <1>1
      <4>2. console[n].piece > 1 => n > 1 /\ console[n - 1] = [console[n] EXCEPT !.piece = @ - 1]
        BY <1>1, <4>1 DEF ConsoleInv, ConsoleTextWhole
      <4>3. console'[n] = console[n] /\ (n > 1 => console'[n - 1] = console[n - 1])
        BY <2>7, <4>1
      <4>4. console[n].piece < Pieces => e = [console[n] EXCEPT !.piece = @ + 1]
        <5>1. CASE p = 0
          BY <5>1, <3>2, <2>10
        <5>2. CASE p # 0
          <6>1. console[n] = [e EXCEPT !.piece = @ - 1]
            BY <5>2, <3>2, <2>10
          <6>2. [e EXCEPT !.piece = @ - 1]
                   = [by |-> e.by, text |-> e.text, piece |-> p, shows |-> e.shows]
            BY <2>6
          <6>3. [console[n] EXCEPT !.piece = @ + 1]
                   = [by |-> e.by, text |-> e.text, piece |-> p + 1, shows |-> e.shows]
            <7> DEFINE f == [by |-> e.by, text |-> e.text, piece |-> p, shows |-> e.shows]
            <7>1. [f EXCEPT !.piece = @ + 1]
                     = [by |-> e.by, text |-> e.text, piece |-> p + 1, shows |-> e.shows]
              OBVIOUS
            <7>2. console[n] = f
              BY <6>1, <6>2
            <7> HIDE DEF f
            <7> QED BY <7>1, <7>2
          <6> QED BY <6>3, <2>6
        <5> QED BY <5>1, <5>2
      <4> QED BY <4>2, <4>3, <4>4, <2>7
    <3>3. Whole(n + 1)
      <4>1. e.piece > 1 => n > 0 /\ p # 0
        BY <2>6, <2>11
      <4>2. e.piece > 1 => console'[n] = [e EXCEPT !.piece = @ - 1]
        <5> SUFFICES ASSUME e.piece > 1 PROVE console'[n] = [e EXCEPT !.piece = @ - 1]
          OBVIOUS
        <5>1. n > 0 /\ p # 0 /\ n \in 1..n
          BY <4>1, <1>1
        <5> QED BY <5>1, <2>7, <2>10
      <4>3. (n + 1) - 1 = n /\ (n > 0 => n + 1 > 1) /\ ~(n + 1 < n + 1)
        BY <1>1
      <4> QED BY <4>1, <4>2, <4>3, <2>7
    <3>4. ASSUME NEW i \in 1..(n + 1) PROVE Whole(i)
      <4>1. (i \in 1..n /\ i < n) \/ (i = n /\ n > 0) \/ i = n + 1
        <5>1. n \in Nat
          BY <1>1
        <5> HIDE DEF n
        <5> QED BY <5>1
      <4> QED BY <4>1, <3>1, <3>2, <3>3
    <3> QED BY <3>4, <2>7 DEF ConsoleTextWhole
  <2>13. ASSUME NEW d \in Contexts, InsideText(d)'
         PROVE  Len(console') > 0 /\ console'[Len(console')] = LastOf(d)'
    <3>1. d = c
      BY <2>8, <2>9, <2>13 DEF InsideText
    <3>2. p + 1 < Pieces /\ piece'[c] = p + 1 /\ todo'[c] = todo[c]
      BY <3>1, <2>8, <2>13 DEF InsideText
    <3>3. LastOf(d)' = [by |-> c, text |-> e.text, piece |-> p + 1, shows |-> e.shows]
      BY <3>1, <3>2, <2>6, <2>8 DEF LastOf
    <3>4. e = LastOf(d)'
      BY <3>3, <2>6
    <3>5. n + 1 > 0
      BY <1>1
    <3> QED BY <3>4, <3>5, <2>7
  <2>14. (Cut => InsideText(console[Len(console)].by))'
    <3>1. Cut' => p + 1 < Pieces
      BY <2>6, <2>7 DEF Cut
    <3>2. p + 1 < Pieces => piece'[c] # 0 /\ todo'[c] = todo[c]
      BY <2>8
    <3>3. console'[Len(console')].by = c
      BY <2>6, <2>7
    <3> QED BY <3>1, <3>2, <3>3, <2>2 DEF InsideText
  <2> HIDE DEF InsideText, LastOf, Cut
  <2> QED BY <1>1, <2>12, <2>13, <2>14 DEF ConsoleInv
<1> QED BY <1>1, <1>2, <1>3, <1>4, TextMoves

KernelInv == TypeInv /\ LockInv /\ ConsoleInv

LEMMA KernelInvKept == Spec => []KernelInv
<1>1. Init => LockInv /\ ConsoleInv
  <2> SUFFICES ASSUME Init PROVE LockInv /\ ConsoleInv
    OBVIOUS
  <2>1. \A c \in Contexts : guards[c] = << >> /\ piece[c] = 0
    BY DEF Init, Sync!Init, Contexts
  <2>2. console = << >> /\ Len(<< >>) = 0
    BY DEF Init
  <2>3. LockInv
    BY <2>1 DEF LockInv, Held
  <2>4. ConsoleTextWhole
    BY <2>2 DEF ConsoleTextWhole
  <2> QED BY <2>1, <2>2, <2>3, <2>4 DEF ConsoleInv, InsideText, Cut
<1>2. TypeInv /\ LockInv /\ ConsoleInv /\ [Next]_vars => LockInv' /\ ConsoleInv'
  BY LockStep, ConsoleStep DEF TypeInv
<1> QED BY <1>1, <1>2, TypesKept, PTL DEF KernelInv, Spec

\* On the console every text stands whole, whatever interrupts, retries, or
\* fails while print! writes it; only the last may be cut short, by a panic
\* or because it is being written.
THEOREM ConsoleTextsWhole == Spec => []ConsoleTextWhole
<1>1. KernelInv => ConsoleTextWhole
  BY DEF KernelInv, ConsoleInv
<1> QED BY <1>1, KernelInvKept, PTL

\* The kernel's callers keep what the lock promises, although a handler locks
\* without knowing what the code under it holds: no two contexts have guards
\* of one lock.
THEOREM KernelExcludes == Spec => []Sync!MutualExclusion
<1>1. KernelInv => Sync!MutualExclusion
  <2> SUFFICES ASSUME KernelInv, NEW c \in Contexts, NEW d \in Contexts,
                      NEW i \in DOMAIN guards[c], NEW j \in DOMAIN guards[d],
                      guards[c][i].lock = guards[d][j].lock
               PROVE  c = d /\ i = j
    BY DEF Sync!MutualExclusion, Contexts
  <2>1. ContextInv /\ guards \in [Contexts -> Seq(Sync!Guard)]
    BY SyncTypes DEF KernelInv, TypeInv, ContextInv
  <2>2. guards[c] # << >> /\ guards[d] # << >>
    BY <2>1
  <2>3. Len(guards[c]) = 1 /\ Len(guards[d]) = 1
    BY <2>1, <2>2, OneGuard
  <2>4. i = 1 /\ j = 1
    BY <2>1, <2>3
  <2>5. Held(c) = Held(d) /\ Held(c) # None
    BY <2>1, <2>2, <2>4, OneGuard, Holding
  <2> QED BY <2>4, <2>5 DEF KernelInv, LockInv
<1> QED BY <1>1, KernelInvKept, PTL

-----------------------------------------------------------------------------
(***************************************************************************)
(* The inductive invariant, part 7, of both devices.  print! sends a text  *)
(* to the UART and then takes CONSOLE for the same text: so whatever code  *)
(* a context has left, what it still owes the console is of one text.      *)
(***************************************************************************)
Drawing(m) == [do |-> "console", text |-> m]

Paired(code) ==
    \A i \in 1..Len(code) :
        /\ code[i].do = "uart" =>
               i + 2 <= Len(code) /\ code[i + 1].do = "lock" /\ code[i + 2] = Drawing(code[i].text)
        /\ code[i].do = "console" =>
               /\ i > 1 => code[i - 1].do = "lock"
               /\ i > 2 => code[i - 2].do = "uart"

Owes(code, m) ==
    \/ Len(code) > 0 /\ code[1] = Drawing(m)
    \/ Len(code) > 1 /\ code[1].do = "lock" /\ code[2] = Drawing(m)

Settled(code) == \A m \in Texts : ~Owes(code, m)

Balanced(code) == code \in Seq(Instructions) /\ Paired(code) /\ Settled(code)

\* An instruction that writes the console writes one of the texts.
LEMMA DrawsText ==
    ASSUME NEW i \in Instructions, i.do = "console"
    PROVE  i.text \in Texts /\ i = Drawing(i.text)
  BY DEF Instructions, Unlocked, Drawing

\* A settled code has no text for the console in its first two instructions.
LEMMA SettledStart ==
    ASSUME NEW code \in Seq(Instructions), Paired(code)
    PROVE  Settled(code) <=> /\ Len(code) > 0 => code[1].do # "console"
                             /\ Len(code) > 1 => code[2].do # "console"
<1>1. Len(code) \in Nat /\ \A i \in 1..Len(code) : code[i] \in Instructions
  BY LenProperties, ElementOfSeq
<1>2. ASSUME Settled(code), Len(code) > 0, code[1].do = "console" PROVE FALSE
  <2>1. code[1] \in Instructions
    BY <1>1, <1>2
  <2> QED BY <2>1, <1>2, DrawsText DEF Settled, Owes
<1>3. ASSUME Settled(code), Len(code) > 1, code[2].do = "console" PROVE FALSE
  <2>1. 2 \in 1..Len(code) /\ code[2] \in Instructions
    BY <1>1, <1>3
  <2>2. code[1].do = "lock"
    BY <2>1, <1>3 DEF Paired
  <2> QED BY <2>1, <2>2, <1>3, DrawsText DEF Settled, Owes
<1>4. ASSUME Len(code) > 0 => code[1].do # "console", Len(code) > 1 => code[2].do # "console"
      PROVE  Settled(code)
  BY <1>4 DEF Settled, Owes, Drawing
<1> QED BY <1>2, <1>3, <1>4

\* The rest of paired code, and what it owes after each instruction.
LEMMA PairedRest ==
    ASSUME NEW code \in Seq(Instructions), code # << >>, Paired(code)
    PROVE  /\ Tail(code) \in Seq(Instructions) /\ Paired(Tail(code))
           /\ Head(code).do = "uart" => Owes(Tail(code), Head(code).text)
           /\ Head(code).do = "lock" => \A m \in Texts : Owes(Tail(code), m) => Owes(code, m)
           /\ Head(code).do = "lock" => \A m \in Texts : Owes(code, m) => Owes(Tail(code), m)
           /\ Head(code).do \notin {"uart", "lock"} => Settled(Tail(code))
<1> DEFINE n == Len(code) - 1
           t == Tail(code)
<1>1. /\ t \in Seq(Instructions) /\ Len(t) = n /\ Head(code) = code[1] /\ n \in Nat
      /\ Len(code) = n + 1
      /\ \A i \in 1..n : t[i] = code[i + 1]
  BY HeadTailProperties, EmptySeq, LenProperties
<1> HIDE DEF n, t
<1>2. ASSUME NEW i \in 1..n
      PROVE  /\ t[i].do = "uart" =>
                   i + 2 <= n /\ t[i + 1].do = "lock" /\ t[i + 2] = Drawing(t[i].text)
             /\ t[i].do = "console" => /\ i > 1 => t[i - 1].do = "lock"
                                       /\ i > 2 => t[i - 2].do = "uart"
  <2>1. t[i] = code[i + 1] /\ i + 1 \in 1..Len(code)
    BY <1>1
  <2>2. ASSUME t[i].do = "uart"
        PROVE  i + 2 <= n /\ t[i + 1].do = "lock" /\ t[i + 2] = Drawing(t[i].text)
    <3>1. /\ (i + 1) + 2 <= n + 1 /\ code[(i + 1) + 1].do = "lock"
          /\ code[(i + 1) + 2] = Drawing(t[i].text)
      BY <2>1, <2>2, <1>1 DEF Paired
    <3>2. i + 2 <= n /\ i + 1 \in 1..n /\ i + 2 \in 1..n
      BY <3>1, <1>1
    <3>3. t[i + 1] = code[(i + 1) + 1] /\ t[i + 2] = code[(i + 2) + 1]
      BY <3>2, <1>1
    <3>4. (i + 2) + 1 = (i + 1) + 2
      OBVIOUS
    <3> QED BY <3>1, <3>2, <3>3, <3>4
  <2>3. ASSUME t[i].do = "console", i > 1 PROVE t[i - 1].do = "lock"
    <3>1. code[(i + 1) - 1].do = "lock"
      BY <2>1, <2>3 DEF Paired
    <3>2. i - 1 \in 1..n /\ (i - 1) + 1 = (i + 1) - 1
      BY <2>3, <1>1
    <3> QED BY <3>1, <3>2, <1>1
  <2>4. ASSUME t[i].do = "console", i > 2 PROVE t[i - 2].do = "uart"
    <3>1. code[(i + 1) - 2].do = "uart"
      BY <2>1, <2>4 DEF Paired
    <3>2. i - 2 \in 1..n /\ (i - 2) + 1 = (i + 1) - 2
      BY <2>4, <1>1
    <3> QED BY <3>1, <3>2, <1>1
  <2> QED BY <2>2, <2>3, <2>4
<1>3. Paired(t)
  BY <1>1, <1>2 DEF Paired
<1>4. 1 \in 1..Len(code)
  BY <1>1
\* What the rest starts with are the second and third instructions.
<1>5. n > 0 => t[1] = code[2] /\ 2 \in 1..Len(code)
  <2> SUFFICES ASSUME n > 0 PROVE t[1] = code[2] /\ 2 \in 1..Len(code)
    OBVIOUS
  <2>1. 1 \in 1..n /\ 1 + 1 = 2
    BY <1>1
  <2> QED BY <2>1, <1>1
<1>6. n > 1 => t[2] = code[3] /\ 3 \in 1..Len(code)
  <2> SUFFICES ASSUME n > 1 PROVE t[2] = code[3] /\ 3 \in 1..Len(code)
    OBVIOUS
  <2>1. 2 \in 1..n /\ 2 + 1 = 3
    BY <1>1
  <2> QED BY <2>1, <1>1
<1>7. n > 0 /\ t[1].do = "console" => code[1].do = "lock"
  <2> SUFFICES ASSUME n > 0, t[1].do = "console" PROVE code[1].do = "lock"
    OBVIOUS
  <2>1. code[2 - 1].do = "lock"
    BY <1>5 DEF Paired
  <2> QED BY <2>1
<1>8. n > 1 /\ t[2].do = "console" => code[1].do = "uart"
  <2> SUFFICES ASSUME n > 1, t[2].do = "console" PROVE code[1].do = "uart"
    OBVIOUS
  <2>1. code[3 - 2].do = "uart"
    BY <1>6 DEF Paired
  <2> QED BY <2>1
<1>9. code[1].do = "uart" => Owes(t, code[1].text)
  <2> SUFFICES ASSUME code[1].do = "uart" PROVE Owes(t, code[1].text)
    OBVIOUS
  <2>1. 1 + 2 <= n + 1 /\ code[1 + 1].do = "lock" /\ code[1 + 2] = Drawing(code[1].text)
    BY <1>1, <1>4 DEF Paired
  <2>2. n > 1 /\ n > 0
    BY <2>1, <1>1
  <2> QED BY <2>1, <2>2, <1>1, <1>5, <1>6 DEF Owes
<1>10. ASSUME code[1].do = "lock", NEW m \in Texts PROVE Owes(t, m) <=> Owes(code, m)
  <2>1. code[1] # Drawing(m)
    BY <1>10 DEF Drawing
  <2>2. ~(n > 1 /\ t[2] = Drawing(m))
    BY <1>8, <1>10 DEF Drawing
  <2>3. Len(code) > 1 <=> n > 0
    BY <1>1
  <2> QED BY <2>1, <2>2, <2>3, <1>1, <1>5, <1>10 DEF Owes
<1>11. code[1].do \notin {"uart", "lock"} => Settled(t)
  BY <1>1, <1>3, <1>7, <1>8, SettledStart
<1> QED BY <1>1, <1>3, <1>9, <1>10, <1>11 DEF t

LEMMA BalancedConcat ==
    ASSUME NEW a, NEW b, Balanced(a), Balanced(b) PROVE Balanced(a \o b)
<1> DEFINE m == Len(a)
           n == Len(b)
           s == a \o b
<1>1. a \in Seq(Instructions) /\ b \in Seq(Instructions) /\ Paired(a) /\ Paired(b)
  BY DEF Balanced
<1>2. m \in Nat /\ n \in Nat
  BY <1>1, LenProperties
<1>3. /\ s \in Seq(Instructions) /\ Len(s) = m + n
      /\ \A i \in 1..(m + n) : s[i] = IF i <= m THEN a[i] ELSE b[i - m]
  BY <1>1, ConcatProperties
<1>4. /\ m > 0 => a[1].do # "console"
      /\ m > 1 => a[2].do # "console"
      /\ n > 0 => b[1].do # "console"
      /\ n > 1 => b[2].do # "console"
  BY <1>1, SettledStart DEF Balanced
<1>5. /\ \A i \in 1..m : s[i] = a[i]
      /\ \A i \in 1..n : s[m + i] = b[i]
  <2>1. ASSUME NEW i \in 1..m PROVE s[i] = a[i]
    <3>1. i \in 1..(m + n) /\ i <= m
      BY <1>2
    <3> QED BY <3>1, <1>3
  <2>2. ASSUME NEW i \in 1..n PROVE s[m + i] = b[i]
    <3>1. m + i \in 1..(m + n) /\ ~(m + i <= m) /\ (m + i) - m = i
      BY <1>2
    <3> QED BY <3>1, <1>3
  <2> QED BY <2>1, <2>2
<1>6. /\ \A i \in 1..m :
            /\ a[i].do = "uart" =>
                   i + 2 <= m /\ a[i + 1].do = "lock" /\ a[i + 2] = Drawing(a[i].text)
            /\ a[i].do = "console" => /\ i > 1 => a[i - 1].do = "lock"
                                      /\ i > 2 => a[i - 2].do = "uart"
      /\ \A i \in 1..n :
            /\ b[i].do = "uart" =>
                   i + 2 <= n /\ b[i + 1].do = "lock" /\ b[i + 2] = Drawing(b[i].text)
            /\ b[i].do = "console" => /\ i > 1 => b[i - 1].do = "lock"
                                      /\ i > 2 => b[i - 2].do = "uart"
  BY <1>1 DEF Paired
<1> HIDE DEF m, n, s
<1>7. ASSUME NEW i \in 1..(m + n)
      PROVE  /\ s[i].do = "uart" =>
                   i + 2 <= m + n /\ s[i + 1].do = "lock" /\ s[i + 2] = Drawing(s[i].text)
             /\ s[i].do = "console" => /\ i > 1 => s[i - 1].do = "lock"
                                       /\ i > 2 => s[i - 2].do = "uart"
  <2>1. CASE i <= m
    <3>1. i \in 1..m /\ s[i] = a[i]
      BY <2>1, <1>2, <1>5
    <3>2. ASSUME s[i].do = "uart"
          PROVE  i + 2 <= m + n /\ s[i + 1].do = "lock" /\ s[i + 2] = Drawing(s[i].text)
      <4>1. i + 2 <= m /\ a[i + 1].do = "lock" /\ a[i + 2] = Drawing(a[i].text)
        BY <3>1, <3>2, <1>6
      <4>2. i + 1 \in 1..m /\ i + 2 \in 1..m /\ i + 2 <= m + n
        BY <4>1, <1>2
      <4> QED BY <3>1, <4>1, <4>2, <1>5
    <3>3. ASSUME s[i].do = "console"
          PROVE  /\ i > 1 => s[i - 1].do = "lock"
                 /\ i > 2 => s[i - 2].do = "uart"
      <4>1. /\ i > 1 => i - 1 \in 1..m
            /\ i > 2 => i - 2 \in 1..m
        BY <3>1, <1>2
      <4> QED BY <3>1, <3>3, <4>1, <1>5, <1>6
    <3> QED BY <3>2, <3>3
  <2>2. CASE ~(i <= m)
    <3> DEFINE k == i - m
    <3>1. k \in 1..n /\ i = m + k
      BY <2>2, <1>2
    <3> HIDE DEF k
    <3>2. s[i] = b[k]
      BY <3>1, <1>5
    <3>3. ASSUME s[i].do = "uart"
          PROVE  i + 2 <= m + n /\ s[i + 1].do = "lock" /\ s[i + 2] = Drawing(s[i].text)
      <4>1. k + 2 <= n /\ b[k + 1].do = "lock" /\ b[k + 2] = Drawing(b[k].text)
        BY <3>1, <3>2, <3>3, <1>6
      <4>2. /\ k + 1 \in 1..n /\ k + 2 \in 1..n /\ i + 2 <= m + n
            /\ m + (k + 1) = i + 1 /\ m + (k + 2) = i + 2
        BY <3>1, <4>1, <1>2
      <4>3. s[i + 1] = b[k + 1] /\ s[i + 2] = b[k + 2]
        BY <4>2, <1>5
      <4> QED BY <3>2, <4>1, <4>2, <4>3
    <3>4. ASSUME s[i].do = "console"
          PROVE  /\ i > 1 => s[i - 1].do = "lock"
                 /\ i > 2 => s[i - 2].do = "uart"
      <4>1. k # 1 /\ k # 2
        <5>1. k = 1 => n > 0
          BY <3>1, <1>2
        <5>2. k = 2 => n > 1
          BY <3>1, <1>2
        <5> QED BY <5>1, <5>2, <3>2, <3>4, <1>4
      <4>2. /\ k > 2 /\ k > 1 /\ k - 1 \in 1..n /\ k - 2 \in 1..n
            /\ m + (k - 1) = i - 1 /\ m + (k - 2) = i - 2
        BY <3>1, <4>1, <1>2
      <4>3. s[i - 1] = b[k - 1] /\ s[i - 2] = b[k - 2]
        BY <4>2, <1>5
      <4>4. b[k - 1].do = "lock" /\ b[k - 2].do = "uart"
        BY <3>1, <3>2, <3>4, <4>2, <1>6
      <4> QED BY <4>3, <4>4
    <3> QED BY <3>3, <3>4
  <2> QED BY <2>1, <2>2
<1>8. Paired(s)
  BY <1>3, <1>7 DEF Paired
<1>9. /\ Len(s) > 0 => s[1].do # "console"
      /\ Len(s) > 1 => s[2].do # "console"
  <2>1. CASE m = 0
    <3>1. \A i \in 1..n : s[i] = b[i]
      <4> TAKE i \in 1..n
      <4>1. m + i = i
        BY <2>1
      <4> QED BY <4>1, <1>5
    <3>2. /\ Len(s) > 0 => n > 0 /\ 1 \in 1..n
          /\ Len(s) > 1 => n > 1 /\ 2 \in 1..n
      BY <2>1, <1>2, <1>3
    <3> QED BY <3>1, <3>2, <1>4 DEF n
  <2>2. CASE m = 1
    <3>1. 1 \in 1..m /\ (Len(s) > 1 => n > 0 /\ 1 \in 1..n /\ m + 1 = 2)
      BY <2>2, <1>2, <1>3
    <3>2. s[1] = a[1] /\ (Len(s) > 1 => s[2] = b[1])
      BY <3>1, <1>5
    <3>3. m > 0
      BY <2>2
    <3> QED BY <3>1, <3>2, <3>3, <1>4 DEF m, n
  <2>3. CASE m > 1
    <3>1. 1 \in 1..m /\ 2 \in 1..m /\ m > 0
      BY <2>3, <1>2
    <3> QED BY <3>1, <2>3, <1>4, <1>5 DEF m
  <2>4. m = 0 \/ m = 1 \/ m > 1
    BY <1>2
  <2> QED BY <2>1, <2>2, <2>3, <2>4
<1>10. Settled(s)
  BY <1>3, <1>8, <1>9, SettledStart
<1> QED BY <1>3, <1>8, <1>10 DEF Balanced, s

LEMMA BalancedDo == ASSUME NEW what \in Unlocked PROVE Balanced(Do(what))
<1>1. Do(what) \in Seq(Instructions)
  BY DoRuns DEF Runs, Takes
<1>2. Len(Do(what)) = 1 /\ Do(what)[1].do = what
  BY DEF Do
<1>3. what \notin {"uart", "console"}
  BY DEF Unlocked
<1>4. Paired(Do(what))
  BY <1>2, <1>3 DEF Paired
<1>5. Settled(Do(what))
  BY <1>1, <1>2, <1>3, <1>4, SettledStart
<1> QED BY <1>1, <1>4, <1>5 DEF Balanced

\* What stands where in code that runs under a lock.
LEMMA LockedFacts ==
    ASSUME NEW l \in {HEAP, BLK, CONSOLE}, NEW code \in Seq(Instructions)
    PROVE  LET under == Locked(l, code)
           IN  /\ under \in Seq(Instructions) /\ Len(under) = Len(code) + 2
               /\ under[1].do = "lock" /\ under[Len(code) + 2].do = "drop"
               /\ \A i \in 1..Len(code) : under[i + 1] = code[i]
<1> DEFINE lock == [do |-> "lock", lock |-> l]
           drop == [do |-> "drop"]
           n == Len(code)
           first == <<lock>> \o code
           under == Locked(l, code)
<1>1. /\ <<lock>> \in Seq(Instructions) /\ Len(<<lock>>) = 1 /\ <<lock>>[1] = lock
      /\ <<drop>> \in Seq(Instructions) /\ Len(<<drop>>) = 1 /\ <<drop>>[1] = drop
      /\ lock.do = "lock" /\ drop.do = "drop"
  <2>1. lock \in Instructions /\ drop \in Instructions
    BY DEF Instructions
  <2> QED BY <2>1
<1>2. n \in Nat
  BY LenProperties
<1>3. under = first \o <<drop>>
  BY DEF Locked, Do
<1> HIDE DEF lock, drop, n, under
<1>4. /\ first \in Seq(Instructions) /\ Len(first) = n + 1
      /\ \A i \in 1..(n + 1) : first[i] = IF i <= 1 THEN <<lock>>[i] ELSE code[i - 1]
  <2>1. /\ first \in Seq(Instructions) /\ Len(first) = 1 + n
        /\ \A i \in 1..(1 + n) : first[i] = IF i <= 1 THEN <<lock>>[i] ELSE code[i - 1]
    BY <1>1, ConcatProperties DEF n
  <2> QED BY <2>1, <1>2
<1> HIDE DEF first
<1>5. /\ under \in Seq(Instructions) /\ Len(under) = n + 2
      /\ \A i \in 1..(n + 2) : under[i] = IF i <= n + 1 THEN first[i] ELSE <<drop>>[i - (n + 1)]
  <2>1. /\ under \in Seq(Instructions) /\ Len(under) = (n + 1) + 1
        /\ \A i \in 1..((n + 1) + 1) :
              under[i] = IF i <= n + 1 THEN first[i] ELSE <<drop>>[i - (n + 1)]
    BY <1>1, <1>3, <1>4, ConcatProperties
  <2>2. (n + 1) + 1 = n + 2
    BY <1>2
  <2> QED BY <2>1, <2>2
<1>6. under[1] = lock
  <2>1. 1 \in 1..(n + 2) /\ 1 \in 1..(n + 1) /\ 1 <= n + 1
    BY <1>2
  <2>2. under[1] = first[1]
    BY <2>1, <1>5
  <2>3. first[1] = <<lock>>[1]
    BY <2>1, <1>4
  <2> QED BY <2>2, <2>3, <1>1
<1>7. under[n + 2] = drop
  <2>1. n + 2 \in 1..(n + 2) /\ ~(n + 2 <= n + 1) /\ (n + 2) - (n + 1) = 1
    BY <1>2
  <2> QED BY <2>1, <1>1, <1>5
<1>8. ASSUME NEW i \in 1..n PROVE under[i + 1] = code[i]
  <2>1. /\ i + 1 \in 1..(n + 2) /\ i + 1 \in 1..(n + 1) /\ i + 1 <= n + 1 /\ ~(i + 1 <= 1)
        /\ (i + 1) - 1 = i
    BY <1>2
  <2> QED BY <2>1, <1>4, <1>5
<1> QED BY <1>1, <1>5, <1>6, <1>7, <1>8 DEF n, under

LEMMA BalancedLock == ASSUME NEW l \in {HEAP, BLK, CONSOLE} PROVE Balanced(Locked(l, << >>))
<1> DEFINE none == << >>
           code == Locked(l, none)
<1>1. code \in Seq(Instructions) /\ Len(code) = 2 /\ code[1].do = "lock" /\ code[2].do = "drop"
  <2>1. none \in Seq(Instructions) /\ Len(none) = 0 /\ Len(none) + 2 = 2
    BY EmptySeq
  <2> HIDE DEF none
  <2>2. /\ code \in Seq(Instructions) /\ Len(code) = Len(none) + 2
        /\ code[1].do = "lock" /\ code[Len(none) + 2].do = "drop"
    BY <2>1, LockedFacts
  <2> HIDE DEF code
  <2> QED BY <2>1, <2>2
<1> HIDE DEF code
<1>2. \A i \in 1..2 : code[i].do \notin {"uart", "console"}
  <2> TAKE i \in 1..2
  <2>1. i = 1 \/ i = 2
    OBVIOUS
  <2> QED BY <2>1, <1>1
<1>3. Paired(code)
  BY <1>1, <1>2 DEF Paired
<1>4. Settled(code)
  BY <1>1, <1>3, SettledStart
<1> QED BY <1>1, <1>3, <1>4 DEF Balanced, code

LEMMA BalancedPrints == ASSUME NEW m \in Texts PROVE Balanced(Prints(m))
<1> DEFINE send == [do |-> "uart", text |-> m]
           draws == ConsoleText(m)
           under == Locked(CONSOLE, draws)
           first == <<send>>
           code == Prints(m)
<1>1. /\ first \in Seq(Instructions) /\ Len(first) = 1 /\ first[1] = send
      /\ draws \in Seq(Instructions) /\ Len(draws) = 1 /\ draws[1] = Drawing(m)
  <2>1. send \in Instructions /\ [do |-> "console", text |-> m] \in Instructions
    BY DEF Instructions
  <2> QED BY <2>1 DEF ConsoleText, Drawing
<1>2. /\ under \in Seq(Instructions) /\ Len(under) = 3
      /\ under[1].do = "lock" /\ under[2] = Drawing(m) /\ under[3].do = "drop"
  <2> HIDE DEF draws
  <2>1. 1 \in 1..Len(draws) /\ 1 + 1 = 2 /\ Len(draws) + 2 = 3
    BY <1>1
  <2>2. /\ under \in Seq(Instructions) /\ Len(under) = Len(draws) + 2
        /\ under[1].do = "lock" /\ under[Len(draws) + 2].do = "drop"
        /\ \A i \in 1..Len(draws) : under[i + 1] = draws[i]
    BY <1>1, LockedFacts
  <2>3. under[1 + 1] = draws[1]
    BY <2>1, <2>2
  <2> HIDE DEF under
  <2> QED BY <2>1, <2>2, <2>3, <1>1
<1>3. code = first \o under
  BY DEF Prints, UartText
<1> HIDE DEF first, under, draws, code
<1>4. /\ code \in Seq(Instructions) /\ Len(code) = 1 + 3
      /\ \A i \in 1..(1 + 3) : code[i] = IF i <= 1 THEN first[i] ELSE under[i - 1]
  <2>1. /\ code \in Seq(Instructions) /\ Len(code) = Len(first) + Len(under)
        /\ \A i \in 1..(Len(first) + Len(under)) :
              code[i] = IF i <= Len(first) THEN first[i] ELSE under[i - Len(first)]
    BY <1>1, <1>2, <1>3, ConcatProperties
  <2> QED BY <2>1, <1>1, <1>2
<1>5. /\ Len(code) = 4 /\ code[1] = send /\ code[1].do = "uart" /\ code[1].text = m
      /\ code[2].do = "lock" /\ code[3] = Drawing(m) /\ code[3].do = "console"
      /\ code[4].do = "drop"
  <2>1. code[1] = first[1] /\ code[2] = under[1] /\ code[3] = under[2] /\ code[4] = under[3]
    BY <1>4
  <2> QED BY <2>1, <1>1, <1>2, <1>4 DEF Drawing
<1> HIDE DEF send
<1>6. Paired(code)
  <2> SUFFICES ASSUME NEW i \in 1..4
               PROVE  /\ code[i].do = "uart" =>
                            /\ i + 2 <= 4 /\ code[i + 1].do = "lock"
                            /\ code[i + 2] = Drawing(code[i].text)
                      /\ code[i].do = "console" => /\ i > 1 => code[i - 1].do = "lock"
                                                   /\ i > 2 => code[i - 2].do = "uart"
    BY <1>5 DEF Paired
  <2>1. CASE i = 1
    <3>1. i + 1 = 2 /\ i + 2 = 3
      BY <2>1
    <3> QED BY <2>1, <3>1, <1>5
  <2>2. CASE i = 3
    <3>1. i - 1 = 2 /\ i - 2 = 1
      BY <2>2
    <3> QED BY <2>2, <3>1, <1>5
  <2>3. i = 1 \/ i = 2 \/ i = 3 \/ i = 4
    OBVIOUS
  <2> QED BY <2>1, <2>2, <2>3, <1>5
<1>7. Settled(code)
  BY <1>4, <1>5, <1>6, SettledStart
<1> QED BY <1>4, <1>6, <1>7 DEF Balanced, code

LEMMA BalancedMain == Balanced(Main)
<1>1. /\ Balanced(Locked(HEAP, << >>)) /\ Balanced(Locked(BLK, << >>))
      /\ Balanced(Locked(CONSOLE, << >>))
  BY BalancedLock
<1>2. /\ Balanced(Do("timer")) /\ Balanced(Do("probe")) /\ Balanced(Do("start_dma"))
      /\ Balanced(Do("wait_dma")) /\ Balanced(Do("shell"))
  BY BalancedDo DEF Unlocked
<1>3. Balanced(Prints("virtio")) /\ Balanced(Prints("ramfb")) /\ Balanced(Prints("hello"))
  BY BalancedPrints DEF Texts
<1>4. Balanced(VirtioBlkInit)
  BY <1>1, <1>2, <1>3, BalancedConcat DEF VirtioBlkInit
<1>5. Balanced(FrameBufferInit)
  BY <1>2, <1>3, BalancedConcat DEF FrameBufferInit
<1>6. Balanced(KernelInit)
  <2>1. Balanced(Locked(HEAP, << >>) \o Do("timer"))
    BY <1>1, <1>2, BalancedConcat
  <2>2. Balanced(Locked(HEAP, << >>) \o Do("timer") \o VirtioBlkInit)
    BY <2>1, <1>4, BalancedConcat
  <2>3. Balanced(Locked(HEAP, << >>) \o Do("timer") \o VirtioBlkInit \o FrameBufferInit)
    BY <2>2, <1>5, BalancedConcat
  <2> QED BY <2>3, <1>1, BalancedConcat DEF KernelInit
<1> QED BY <1>2, <1>3, <1>6, BalancedConcat DEF Main

-----------------------------------------------------------------------------
(* What one context sent to a device. *)

IsBy(f, c, device, k) ==
    f = [n \in 0..k |->
            IF n = 0 THEN << >>
            ELSE IF device[n].by = c THEN Append(f[n - 1], device[n])
            ELSE f[n - 1]]

LEMMA ByExists == ASSUME NEW c, NEW device, NEW k \in Nat PROVE \E f : IsBy(f, c, device, k)
<1> DEFINE Next1(f, n) == IF device[n].by = c THEN Append(f[n - 1], device[n]) ELSE f[n - 1]
           S == {j \in Nat : \E f : IsBy(f, c, device, j)}
<1>1. 0 \in S
  <2> DEFINE f == [n \in 0..0 |-> << >>]
  <2>1. f = [n \in 0..0 |->
                IF n = 0 THEN << >>
                ELSE IF device[n].by = c THEN Append(f[n - 1], device[n])
                ELSE f[n - 1]]
    OBVIOUS
  <2> QED BY <2>1 DEF IsBy
<1>2. ASSUME NEW j \in S PROVE j + 1 \in S
  <2>1. PICK f : IsBy(f, c, device, j)
    OBVIOUS
  <2>2. \A n \in 0..j : f[n] = IF n = 0 THEN << >> ELSE Next1(f, n)
    BY <2>1 DEF IsBy
  <2> DEFINE g == [n \in 0..(j + 1) |-> IF n <= j THEN f[n] ELSE Next1(f, j + 1)]
  <2>3. ASSUME NEW n \in 0..(j + 1)
        PROVE  g[n] = IF n = 0 THEN << >> ELSE Next1(g, n)
    <3>1. CASE n = 0
      BY <3>1, <2>2
    <3>2. CASE n # 0 /\ n <= j
      <4>1. g[n] = f[n] /\ g[n - 1] = f[n - 1]
        BY <3>2
      <4>2. f[n] = Next1(f, n)
        BY <3>2, <2>2
      <4> QED BY <4>1, <4>2, <3>2
    <3>3. CASE ~(n <= j)
      <4>1. n = j + 1
        BY <3>3
      <4>2. g[n] = Next1(f, n) /\ g[n - 1] = f[n - 1] /\ n # 0
        BY <3>3, <4>1
      <4> QED BY <4>2
    <3> QED BY <3>1, <3>2, <3>3
  <2>4. g = [n \in 0..(j + 1) |-> IF n = 0 THEN << >> ELSE Next1(g, n)]
    <3>1. g = [n \in 0..(j + 1) |-> g[n]]
      OBVIOUS
    <3> HIDE DEF g
    <3> QED BY <3>1, <2>3
  <2>5. IsBy(g, c, device, j + 1)
    BY <2>4 DEF IsBy
  <2> QED BY <2>5
<1> HIDE DEF S
<1>3. S = Nat
  <2>1. S \in SUBSET Nat
    BY DEF S
  <2> QED BY <1>1, <1>2, <2>1, Induction
<1> QED BY <1>3 DEF S

LEMMA ByEmpty == ASSUME NEW c PROVE By(c, << >>) = << >>
<1> DEFINE f == CHOOSE g : IsBy(g, c, << >>, 0)
<1>1. IsBy(f, c, << >>, 0)
  BY ByExists
<1>2. By(c, << >>) = f[0]
  <2>1. Len(<< >>) = 0
    OBVIOUS
  <2> QED BY <2>1 DEF By, IsBy
<1> HIDE DEF f
<1> QED BY <1>1, <1>2 DEF IsBy

\* One more piece is one more of its own context's, and nothing to the others.
LEMMA ByAppend ==
    ASSUME NEW c, NEW device \in Seq(Output), NEW e \in Output
    PROVE  By(c, Append(device, e)) = IF e.by = c THEN Append(By(c, device), e) ELSE By(c, device)
<1> DEFINE k == Len(device)
           longer == Append(device, e)
           f == CHOOSE g : IsBy(g, c, device, k)
           h == CHOOSE g : IsBy(g, c, longer, k + 1)
<1>1. /\ k \in Nat /\ Len(longer) = k + 1 /\ longer[k + 1] = e
      /\ \A n \in 1..k : longer[n] = device[n]
  BY AppendProperties, LenProperties
<1>2. By(c, device) = f[k] /\ By(c, longer) = h[k + 1]
  BY <1>1 DEF By, IsBy
<1>3. IsBy(f, c, device, k) /\ IsBy(h, c, longer, k + 1)
  <2>1. k + 1 \in Nat
    BY <1>1
  <2>2. \E g : IsBy(g, c, device, k)
    BY <1>1, ByExists
  <2> HIDE DEF longer, k
  <2>3. \E g : IsBy(g, c, longer, k + 1)
    BY <2>1, ByExists
  <2> QED BY <2>2, <2>3
<1> HIDE DEF k, longer, f, h
<1>4. \A n \in 0..k : f[n] = IF n = 0 THEN << >>
                             ELSE IF device[n].by = c THEN Append(f[n - 1], device[n])
                             ELSE f[n - 1]
  BY <1>3 DEF IsBy
<1>5. \A n \in 0..(k + 1) : h[n] = IF n = 0 THEN << >>
                                   ELSE IF longer[n].by = c THEN Append(h[n - 1], longer[n])
                                   ELSE h[n - 1]
  BY <1>3 DEF IsBy
<1> DEFINE S == {n \in Nat : n <= k => h[n] = f[n]}
<1>6. 0 \in S
  BY <1>1, <1>4, <1>5
<1>7. ASSUME NEW n \in S PROVE n + 1 \in S
  <2> SUFFICES ASSUME n + 1 <= k PROVE h[n + 1] = f[n + 1]
    OBVIOUS
  <2>1. /\ n + 1 \in 0..k /\ n + 1 \in 0..(k + 1) /\ n + 1 # 0 /\ (n + 1) - 1 = n
        /\ n + 1 \in 1..k /\ h[n] = f[n]
    BY <1>1
  <2> QED BY <2>1, <1>1, <1>4, <1>5
<1>8. h[k] = f[k]
  <2>1. S \in SUBSET Nat
    OBVIOUS
  <2> HIDE DEF S
  <2>2. S = Nat
    BY <1>6, <1>7, <2>1, Induction
  <2> QED BY <1>1, <2>2 DEF S
<1>9. h[k + 1] = IF e.by = c THEN Append(h[k], e) ELSE h[k]
  <2>1. k + 1 \in 0..(k + 1) /\ k + 1 # 0 /\ (k + 1) - 1 = k
    BY <1>1
  <2> QED BY <2>1, <1>1, <1>5
<1> QED BY <1>2, <1>8, <1>9 DEF longer

-----------------------------------------------------------------------------
(***************************************************************************)
(* What a context has sent to the UART, s, against what it has written to  *)
(* the console, d: code is what it has left to do, p the pieces it has     *)
(* written of its current text, f the argument this was formatted with,    *)
(* and t the ticks.  Either it is sending a text, or it still owes one to  *)
(* the console, or the two are level.  The console has what the UART has,  *)
(* as far as it has come, with arguments at least as late.                 *)
(***************************************************************************)
ArgumentAt(m, t) == IF m = "time" THEN t ELSE 0

\* The pieces js of a text m, sent after the first n, show at most this.
Expected(s, n, js, c, m, most) ==
    \A j \in js :
        /\ s[n + j].by = c /\ s[n + j].text = m /\ s[n + j].piece = j
        /\ s[n + j].shows <= most

Alike(s, d) ==
    \A i \in 1..Len(d) :
        d[i] = [s[i] EXCEPT !.shows = d[i].shows] /\ s[i].shows <= d[i].shows

Sending(c, code, p, f, t, s, d) ==
    /\ p # 0 /\ code # << >> /\ Head(code).do = "uart"
    /\ Len(s) = Len(d) + p
    /\ Expected(s, Len(d), 1..p, c, Head(code).text, f)
    /\ f <= ArgumentAt(Head(code).text, t)

OwesText(c, code, p, f, t, s, d, m) ==
    /\ Owes(code, m)
    /\ Len(s) = (Len(d) - p) + Pieces
    /\ Expected(s, Len(d) - p, (p + 1)..Pieces, c, m, IF p = 0 THEN ArgumentAt(m, t) ELSE f)

Level(code, p, s, d) == p = 0 /\ Settled(code) /\ Len(s) = Len(d)

Agrees(c, code, p, f, t, s, d) ==
    /\ code \in Seq(Instructions) /\ Paired(code)
    /\ s \in Seq(Output) /\ d \in Seq(Output) /\ Len(d) <= Len(s) /\ Alike(s, d)
    /\ \/ Sending(c, code, p, f, t, s, d)
       \/ \E m \in Texts : OwesText(c, code, p, f, t, s, d, m)
       \/ Level(code, p, s, d)

LEMMA OutputFacts ==
    ASSUME NEW e \in Output
    PROVE  /\ e.shows \in Nat /\ e.piece \in 1..Pieces /\ e.text \in Texts
           /\ e = [by |-> e.by, text |-> e.text, piece |-> e.piece, shows |-> e.shows]
  BY MaxInterruptsAssumption DEF Output, Texts

\* Code that owes a text begins with a lock or at the text.
LEMMA OwesStart ==
    ASSUME NEW code \in Seq(Instructions), NEW m, Owes(code, m)
    PROVE  /\ code # << >>
           /\ Head(code).do = "lock" \/ Head(code) = Drawing(m)
<1>1. Len(code) \in Nat /\ (code = << >> => Len(code) = 0)
  BY LenProperties
<1>2. code # << >>
  BY <1>1 DEF Owes
<1>3. Head(code) = code[1]
  BY <1>2, HeadTailProperties
<1> QED BY <1>2, <1>3 DEF Owes

\* Code that begins with a text for the console owes it.
LEMMA OwesHead ==
    ASSUME NEW code \in Seq(Instructions), code # << >>, Head(code).do = "console"
    PROVE  /\ Head(code).text \in Texts /\ Head(code) = Drawing(Head(code).text)
           /\ Owes(code, Head(code).text)
<1>1. Head(code) = code[1] /\ Head(code) \in Instructions /\ Len(code) > 0
  BY HeadTailProperties, EmptySeq, LenProperties
<1> QED BY <1>1, DrawsText DEF Owes

\* Ticks only make what is owed later.
LEMMA AgreesLater ==
    ASSUME NEW c, NEW code, NEW p \in 0..(Pieces - 1), NEW f \in Nat, NEW t \in Nat,
           NEW u \in Nat, t <= u, NEW s, NEW d, Agrees(c, code, p, f, t, s, d)
    PROVE  Agrees(c, code, p, f, u, s, d)
<1>1. \A m : ArgumentAt(m, t) <= ArgumentAt(m, u) /\ ArgumentAt(m, t) \in Nat /\ ArgumentAt(m, u) \in Nat
  BY DEF ArgumentAt
<1>2. s \in Seq(Output) /\ Len(s) \in Nat /\ Len(d) \in Nat
  BY LenProperties DEF Agrees
<1>3. \A i \in 1..Len(s) : s[i].shows \in Nat
  BY <1>2, ElementOfSeq, OutputFacts
<1> HIDE DEF ArgumentAt
<1>4. ASSUME Sending(c, code, p, f, t, s, d) PROVE Sending(c, code, p, f, u, s, d)
  <2>1. ArgumentAt(Head(code).text, t) <= ArgumentAt(Head(code).text, u)
        /\ ArgumentAt(Head(code).text, t) \in Nat /\ ArgumentAt(Head(code).text, u) \in Nat
    BY <1>1
  <2> QED BY <1>4, <2>1 DEF Sending
<1>5. ASSUME NEW m \in Texts, OwesText(c, code, p, f, t, s, d, m)
      PROVE  OwesText(c, code, p, f, u, s, d, m)
  <2>1. CASE p # 0
    BY <2>1, <1>5 DEF OwesText
  <2>2. CASE p = 0
    <3>1. /\ Len(s) = Len(d) + Pieces
          /\ Expected(s, Len(d) - p, (p + 1)..Pieces, c, m, ArgumentAt(m, t))
      BY <2>2, <1>2, <1>5, PiecesAssumption DEF OwesText
    <3>2. ASSUME NEW j \in (p + 1)..Pieces
          PROVE  s[(Len(d) - p) + j].shows <= ArgumentAt(m, u)
      <4>1. (Len(d) - p) + j \in 1..Len(s)
        BY <2>2, <1>2, <3>1, PiecesAssumption
      <4>2. s[(Len(d) - p) + j].shows <= ArgumentAt(m, t)
        BY <3>1 DEF Expected
      <4> QED BY <4>1, <4>2, <1>1, <1>3
    <3>3. Expected(s, Len(d) - p, (p + 1)..Pieces, c, m, ArgumentAt(m, u))
      BY <3>1, <3>2 DEF Expected
    <3> QED BY <2>2, <3>3, <1>5 DEF OwesText
  <2> QED BY <2>1, <2>2
<1> QED BY <1>4, <1>5 DEF Agrees

\* One more piece to the UART.
LEMMA AgreesUart ==
    ASSUME NEW c, NEW code, NEW p \in 0..(Pieces - 1), NEW f \in Nat, NEW t \in Nat,
           NEW s, NEW d, NEW e \in Output,
           Agrees(c, code, p, f, t, s, d), code # << >>, Head(code).do = "uart",
           e.by = c, e.text = Head(code).text, e.piece = p + 1,
           e.shows = IF p = 0 THEN ArgumentAt(e.text, t) ELSE f
    PROVE  /\ p + 1 < Pieces => Agrees(c, code, p + 1, e.shows, t, Append(s, e), d)
           /\ ~(p + 1 < Pieces) => Agrees(c, Tail(code), 0, e.shows, t, Append(s, e), d)
<1> DEFINE m == e.text
           n == Len(d)
           r == Append(s, e)
           a == ArgumentAt(m, t)
<1>1. /\ code \in Seq(Instructions) /\ Paired(code) /\ s \in Seq(Output) /\ d \in Seq(Output)
      /\ n <= Len(s) /\ Alike(s, d) /\ n \in Nat /\ Len(s) \in Nat
  BY LenProperties DEF Agrees
<1>2. /\ r \in Seq(Output) /\ Len(r) = Len(s) + 1 /\ r[Len(s) + 1] = e
      /\ \A i \in 1..Len(s) : r[i] = s[i]
  BY <1>1, AppendProperties
<1>3. e.shows \in Nat /\ m \in Texts /\ a \in Nat
  BY OutputFacts DEF ArgumentAt
<1>4. ASSUME NEW k \in Texts, OwesText(c, code, p, f, t, s, d, k) PROVE FALSE
  BY <1>1, <1>4, OwesStart DEF OwesText, Drawing
<1>5. /\ Len(s) = n + p
      /\ p # 0 => f <= a /\ Expected(s, n, 1..p, c, m, f)
  BY <1>1, <1>4 DEF Agrees, Sending, Level
<1>6. e.shows <= a
  BY <1>3, <1>5
<1>7. Alike(r, d)
  <2>1. \A i \in 1..n : i \in 1..Len(s)
    BY <1>1
  <2> QED BY <2>1, <1>1, <1>2 DEF Alike
<1>8. n <= Len(r)
  BY <1>1, <1>2
<1> HIDE DEF m, n, r, a
<1>9. Expected(r, n, 1..(p + 1), c, m, e.shows)
  <2> SUFFICES ASSUME NEW j \in 1..(p + 1)
               PROVE  /\ r[n + j].by = c /\ r[n + j].text = m /\ r[n + j].piece = j
                      /\ r[n + j].shows <= e.shows
    BY DEF Expected
  <2>1. CASE j \in 1..p
    <3>1. p # 0 /\ n + j \in 1..Len(s)
      BY <2>1, <1>1, <1>5
    <3>2. r[n + j] = s[n + j] /\ e.shows = f
      BY <3>1, <1>2
    <3>3. /\ s[n + j].by = c /\ s[n + j].text = m /\ s[n + j].piece = j
          /\ s[n + j].shows <= f
      BY <2>1, <3>1, <1>5 DEF Expected
    <3> QED BY <3>2, <3>3
  <2>2. CASE j = p + 1
    <3>1. n + j = Len(s) + 1
      BY <2>2, <1>1, <1>5
    <3>2. r[n + j] = e
      BY <3>1, <1>2
    <3> QED BY <2>2, <3>2, <1>3 DEF m
  <2> QED BY <2>1, <2>2
<1>10. Len(r) = n + (p + 1)
  BY <1>1, <1>2, <1>5
<1>11. ASSUME p + 1 < Pieces PROVE Agrees(c, code, p + 1, e.shows, t, r, d)
  <2>1. Sending(c, code, p + 1, e.shows, t, r, d)
    BY <1>6, <1>9, <1>10 DEF Sending, m, n, a
  <2> QED BY <2>1, <1>1, <1>2, <1>7, <1>8 DEF Agrees, n
<1>12. ASSUME ~(p + 1 < Pieces) PROVE Agrees(c, Tail(code), 0, e.shows, t, r, d)
  <2>1. p + 1 = Pieces
    BY <1>12, PiecesAssumption
  <2>2. Tail(code) \in Seq(Instructions) /\ Paired(Tail(code)) /\ Owes(Tail(code), m)
    BY <1>1, PairedRest DEF m
  <2>3. Len(r) = (n - 0) + Pieces /\ n - 0 = n /\ 0 + 1 = 1
    BY <2>1, <1>1, <1>10
  <2>4. ASSUME NEW j \in 1..(p + 1) PROVE r[n + j].shows <= a
    <3>1. n + j \in 1..Len(r)
      BY <1>1, <1>10
    <3>2. r[n + j].shows \in Nat
      BY <3>1, <1>2, ElementOfSeq, OutputFacts
    <3>3. r[n + j].shows <= e.shows
      BY <1>9 DEF Expected
    <3> QED BY <3>2, <3>3, <1>3, <1>6
  <2>5. Expected(r, n, 1..Pieces, c, m, a)
    BY <2>1, <2>4, <1>9 DEF Expected
  <2>6. OwesText(c, Tail(code), 0, e.shows, t, r, d, m)
    BY <2>2, <2>3, <2>5 DEF OwesText, n, a
  <2> QED BY <2>2, <2>6, <1>1, <1>2, <1>3, <1>7, <1>8 DEF Agrees, n
<1> QED BY <1>11, <1>12 DEF r

\* One more piece to the console.
LEMMA AgreesConsole ==
    ASSUME NEW c, NEW code, NEW p \in 0..(Pieces - 1), NEW f \in Nat, NEW t \in Nat,
           NEW s, NEW d, NEW e \in Output,
           Agrees(c, code, p, f, t, s, d), code # << >>, Head(code).do = "console",
           e.by = c, e.text = Head(code).text, e.piece = p + 1,
           e.shows = IF p = 0 THEN ArgumentAt(e.text, t) ELSE f
    PROVE  /\ p + 1 < Pieces => Agrees(c, code, p + 1, e.shows, t, s, Append(d, e))
           /\ ~(p + 1 < Pieces) => Agrees(c, Tail(code), 0, e.shows, t, s, Append(d, e))
<1> DEFINE m == e.text
           n == Len(d)
           r == Append(d, e)
<1>1. /\ code \in Seq(Instructions) /\ Paired(code) /\ s \in Seq(Output) /\ d \in Seq(Output)
      /\ n <= Len(s) /\ Alike(s, d) /\ n \in Nat /\ Len(s) \in Nat
  BY LenProperties DEF Agrees
<1>2. /\ r \in Seq(Output) /\ Len(r) = n + 1 /\ r[n + 1] = e
      /\ \A i \in 1..n : r[i] = d[i]
  BY <1>1, AppendProperties
<1>3. e.shows \in Nat /\ m \in Texts
  BY OutputFacts
<1>4. Owes(code, m) /\ Head(code) = Drawing(m)
  BY <1>1, OwesHead
<1>5. OwesText(c, code, p, f, t, s, d, m)
  <2>1. ~Sending(c, code, p, f, t, s, d)
    BY DEF Sending
  <2>2. ~Level(code, p, s, d)
    BY <1>3, <1>4 DEF Level, Settled
  <2>3. ASSUME NEW k \in Texts, OwesText(c, code, p, f, t, s, d, k) PROVE k = m
    <3>1. Owes(code, k)
      BY <2>3 DEF OwesText
    <3>2. Head(code) = Drawing(k)
      BY <3>1, <1>1, OwesStart
    <3> QED BY <3>2 DEF Drawing
  <2> QED BY <2>1, <2>2, <2>3 DEF Agrees
<1>6. /\ Len(s) = (n - p) + Pieces
      /\ Expected(s, n - p, (p + 1)..Pieces, c, m, e.shows)
  BY <1>5 DEF OwesText
<1> HIDE DEF m, n, r
<1>7. n + 1 <= Len(s)
  BY <1>1, <1>6, PiecesAssumption
<1>8. Alike(s, r)
  <2> SUFFICES ASSUME NEW i \in 1..(n + 1)
               PROVE  r[i] = [s[i] EXCEPT !.shows = r[i].shows] /\ s[i].shows <= r[i].shows
    BY <1>2 DEF Alike
  <2>1. CASE i \in 1..n
    BY <2>1, <1>1, <1>2 DEF Alike, n
  <2>2. CASE i = n + 1
    <3>1. (n - p) + (p + 1) = i /\ p + 1 \in (p + 1)..Pieces /\ i \in 1..Len(s)
      BY <2>2, <1>1, <1>7, PiecesAssumption
    <3>2. s[i].by = c /\ s[i].text = m /\ s[i].piece = p + 1 /\ s[i].shows <= e.shows
      BY <3>1, <1>6 DEF Expected
    <3>3. s[i] = [by |-> s[i].by, text |-> s[i].text, piece |-> s[i].piece, shows |-> s[i].shows]
      BY <3>1, <1>1, ElementOfSeq, OutputFacts
    <3>4. e = [by |-> c, text |-> m, piece |-> p + 1, shows |-> e.shows]
      BY OutputFacts DEF m
    <3>5. r[i] = e
      BY <2>2, <1>2
    <3>6. s[i] = [by |-> c, text |-> m, piece |-> p + 1, shows |-> s[i].shows]
      BY <3>2, <3>3
    <3>7. [s[i] EXCEPT !.shows = e.shows] = [by |-> c, text |-> m, piece |-> p + 1, shows |-> e.shows]
      <4> DEFINE x == s[i].shows
                 y == [by |-> c, text |-> m, piece |-> p + 1, shows |-> x]
      <4>1. s[i] = y
        BY <3>6
      <4> HIDE DEF x
      <4>2. [y EXCEPT !.shows = e.shows] = [by |-> c, text |-> m, piece |-> p + 1, shows |-> e.shows]
        OBVIOUS
      <4> HIDE DEF y
      <4> QED BY <4>1, <4>2
    <3> QED BY <3>2, <3>4, <3>5, <3>7
  <2>3. i \in 1..n \/ i = n + 1
    BY <1>1
  <2> QED BY <2>1, <2>2, <2>3
<1>9. ASSUME p + 1 < Pieces PROVE Agrees(c, code, p + 1, e.shows, t, s, r)
  <2>1. Len(r) - (p + 1) = n - p /\ p + 1 # 0
    BY <1>1, <1>2
  <2>2. Expected(s, n - p, ((p + 1) + 1)..Pieces, c, m, e.shows)
    <3>1. \A j \in ((p + 1) + 1)..Pieces : j \in (p + 1)..Pieces
      OBVIOUS
    <3> QED BY <3>1, <1>6 DEF Expected
  <2>3. OwesText(c, code, p + 1, e.shows, t, s, r, m)
    BY <2>1, <2>2, <1>4, <1>6 DEF OwesText
  <2> QED BY <2>3, <1>1, <1>2, <1>3, <1>7, <1>8 DEF Agrees
<1>10. ASSUME ~(p + 1 < Pieces) PROVE Agrees(c, Tail(code), 0, e.shows, t, s, r)
  <2>1. p + 1 = Pieces
    BY <1>10, PiecesAssumption
  <2>2. Tail(code) \in Seq(Instructions) /\ Paired(Tail(code)) /\ Settled(Tail(code))
    BY <1>1, PairedRest
  <2>3. Len(s) = Len(r)
    BY <2>1, <1>1, <1>2, <1>6
  <2>4. Level(Tail(code), 0, s, r)
    BY <2>2, <2>3 DEF Level
  <2> QED BY <2>2, <2>4, <1>1, <1>2, <1>7, <1>8 DEF Agrees
<1> QED BY <1>9, <1>10 DEF r

\* An instruction that writes nothing.
LEMMA AgreesRest ==
    ASSUME NEW c, NEW code, NEW f, NEW t, NEW s, NEW d,
           Agrees(c, code, 0, f, t, s, d), code # << >>,
           Head(code).do \notin {"uart", "console"}
    PROVE  Agrees(c, Tail(code), 0, f, t, s, d)
<1>1. code \in Seq(Instructions) /\ Paired(code)
  BY DEF Agrees
<1>2. /\ Tail(code) \in Seq(Instructions) /\ Paired(Tail(code))
      /\ Head(code).do = "lock" => \A m \in Texts : Owes(Tail(code), m) => Owes(code, m)
      /\ Head(code).do = "lock" => \A m \in Texts : Owes(code, m) => Owes(Tail(code), m)
      /\ Head(code).do # "lock" => Settled(Tail(code))
  BY <1>1, PairedRest
<1>3. CASE Level(code, 0, s, d)
  <2>1. Settled(Tail(code))
    BY <1>2, <1>3 DEF Level, Settled
  <2> QED BY <2>1, <1>2, <1>3 DEF Agrees, Level
<1>4. ASSUME NEW m \in Texts, OwesText(c, code, 0, f, t, s, d, m)
      PROVE  Agrees(c, Tail(code), 0, f, t, s, d)
  <2>1. Head(code).do = "lock"
    <3>1. Owes(code, m)
      BY <1>4 DEF OwesText
    <3> QED BY <3>1, <1>1, OwesStart DEF Drawing
  <2>2. OwesText(c, Tail(code), 0, f, t, s, d, m)
    BY <2>1, <1>2, <1>4 DEF OwesText
  <2> QED BY <2>2, <1>2 DEF Agrees
<1>5. ~Sending(c, code, 0, f, t, s, d)
  BY DEF Sending
<1> QED BY <1>3, <1>4, <1>5 DEF Agrees

\* A context that owes nothing is given code.
LEMMA AgreesCode ==
    ASSUME NEW c, NEW code, NEW f, NEW t, NEW s, NEW d,
           Agrees(c, code, 0, f, t, s, d),
           code = << >> \/ Head(code).do \notin {"lock", "console"}
    PROVE  /\ Balanced(code) /\ Len(s) = Len(d)
           /\ \A new : Balanced(new) => Agrees(c, new, 0, f, t, s, d)
<1>1. code \in Seq(Instructions) /\ Paired(code)
  BY DEF Agrees
<1>2. \A m \in Texts : ~OwesText(c, code, 0, f, t, s, d, m)
  BY <1>1, OwesStart DEF OwesText, Drawing
<1>3. Level(code, 0, s, d)
  BY <1>2 DEF Agrees, Sending
<1> QED BY <1>1, <1>3 DEF Agrees, Level, Balanced

AgreesNow(c) == Agrees(c, todo[c], piece[c], shown[c], ticks, By(c, uart), By(c, console))

AgreeInv == panicked = {} => \A c \in Contexts : AgreesNow(c)

\* Of a context the step does not concern, the ticks may go on.
LEMMA AgreesAside ==
    ASSUME TypeInv, NEW c \in Contexts, AgreesNow(c),
           todo'[c] = todo[c], piece'[c] = piece[c], shown'[c] = shown[c],
           ticks' \in Nat, ticks <= ticks',
           By(c, uart)' = By(c, uart), By(c, console)' = By(c, console)
    PROVE  AgreesNow(c)'
<1>1. piece[c] \in 0..(Pieces - 1) /\ shown[c] \in Nat /\ ticks \in Nat
  BY MaxInterruptsAssumption DEF TypeInv, ContextInv, TickInv, OutputTypes
<1> HIDE DEF Agrees
<1>2. Agrees(c, todo[c], piece[c], shown[c], ticks', By(c, uart), By(c, console))
  BY <1>1, AgreesLater DEF AgreesNow
<1> QED BY <1>2 DEF AgreesNow

\* A step that writes nothing changes the code of one context at most.
LEMMA AgreesElsewhere ==
    ASSUME TypeInv, AgreeInv, panicked = {}, NEW c \in Contexts,
           UNCHANGED <<piece, shown, uart, console>>, ticks' \in Nat, ticks <= ticks',
           \A d \in Contexts \ {c} : todo'[d] = todo[d],
           Agrees(c, todo'[c], piece[c], shown[c], ticks', By(c, uart), By(c, console))
    PROVE  AgreeInv'
<1>1. AgreesNow(c)'
  BY DEF AgreesNow, By
<1>2. ASSUME NEW d \in Contexts, d # c PROVE AgreesNow(d)'
  <2>1. By(d, uart)' = By(d, uart) /\ By(d, console)' = By(d, console)
    BY DEF By
  <2> QED BY <1>2, <2>1, AgreesAside DEF AgreeInv
<1>3. Contexts' = Contexts
  BY DEF Contexts, Sync!Contexts
<1> QED BY <1>1, <1>2, <1>3 DEF AgreeInv

LEMMA AgreeWrites ==
    ASSUME TypeInv, AgreeInv, panicked = {}, NEW c \in Contexts, WriteUart(c) \/ WriteConsole(c)
    PROVE  AgreeInv'
<1>1. PICK what \in {"uart", "console"} :
        /\ Doing(c, what) /\ NextPiece(c) /\ ticks' = ticks
        /\ \/ what = "uart" /\ uart' = Append(uart, Written(c)) /\ console' = console
           \/ what = "console" /\ console' = Append(console, Written(c)) /\ uart' = uart
  BY DEF WriteUart, WriteConsole
<1>2. ContextInv /\ TickInv /\ OutputTypes
  BY DEF TypeInv
<1>3. /\ Written(c) \in Output
      /\ Written(c).by = c /\ Written(c).text = Head(todo[c]).text
      /\ Written(c).piece = piece[c] + 1 /\ Written(c).shows = Formatted(c)
      /\ piece[c] \in 0..(Pieces - 1)
      /\ shown' = [shown EXCEPT ![c] = Formatted(c)]
      /\ Formatted(c) \in 0..MaxInterrupts
  BY <1>1, <1>2, WriteFacts
<1>4. /\ todo[c] # << >> /\ Head(todo[c]).do = what
      /\ todo \in [Contexts -> Seq(Instructions)]
      /\ uart \in Seq(Output) /\ console \in Seq(Output)
      /\ shown \in [Contexts -> 0..MaxInterrupts] /\ piece \in [Contexts -> 0..(Pieces - 1)]
      /\ ticks \in Nat /\ shown[c] \in Nat
      /\ Contexts' = Contexts
  BY <1>1, <1>2, DoingFacts, MaxInterruptsAssumption
  DEF OutputTypes, ContextInv, TickInv, Contexts, Sync!Contexts
<1>5. PICK e \in Output : e = Written(c)
  BY <1>3
<1>6. /\ e.by = c /\ e.text = Head(todo[c]).text /\ e.piece = piece[c] + 1
      /\ e.shows = IF piece[c] = 0 THEN ArgumentAt(e.text, ticks) ELSE shown[c]
  BY <1>3, <1>5 DEF Formatted, Argument, ArgumentAt
<1>7. /\ \A d \in Contexts \ {c} :
            piece'[d] = piece[d] /\ shown'[d] = shown[d] /\ todo'[d] = todo[d]
      /\ piece[c] + 1 < Pieces => piece'[c] = piece[c] + 1 /\ todo'[c] = todo[c]
      /\ ~(piece[c] + 1 < Pieces) => piece'[c] = 0 /\ todo'[c] = Tail(todo[c])
      /\ shown'[c] = e.shows
  <2>1. shown'[c] = e.shows
    BY <1>3, <1>4, <1>5
  <2>2. ~(piece[c] + 1 < Pieces) => todo'[c] = Tail(todo[c])
    BY <1>1, <1>4 DEF NextPiece, Goes
  <2> QED BY <2>1, <2>2, <1>1, <1>2, <1>4, NextPieceFacts
<1> HIDE DEF Written, Formatted
<1>8. ASSUME NEW d \in Contexts, d # c PROVE AgreesNow(d)'
  <2>1. By(d, Append(uart, e)) = By(d, uart) /\ By(d, Append(console, e)) = By(d, console)
    BY <1>4, <1>6, <1>8, ByAppend
  <2>2. uart' \in {uart, Append(uart, e)} /\ console' \in {console, Append(console, e)}
    BY <1>1, <1>5
  <2>3. By(d, uart)' = By(d, uart') /\ By(d, console)' = By(d, console')
    BY DEF By
  <2>4. By(d, uart)' = By(d, uart) /\ By(d, console)' = By(d, console)
    BY <2>1, <2>2, <2>3
  <2>5. AgreesNow(d) /\ ticks' \in Nat /\ ticks <= ticks'
    BY <1>1, <1>4 DEF AgreeInv
  <2> QED BY <1>7, <1>8, <2>4, <2>5, AgreesAside
<1> DEFINE s == By(c, uart)
           z == By(c, console)
<1>9. Agrees(c, todo[c], piece[c], shown[c], ticks, s, z)
  BY DEF AgreeInv, AgreesNow
<1>10. By(c, Append(uart, e)) = Append(s, e) /\ By(c, Append(console, e)) = Append(z, e)
  BY <1>4, <1>6, ByAppend
<1>11. By(c, uart)' = By(c, uart') /\ By(c, console)' = By(c, console')
  BY DEF By
<1>12. CASE what = "uart"
  <2>1. uart' = Append(uart, e) /\ console' = console
    BY <1>1, <1>5, <1>12
  <2>2. By(c, uart)' = Append(s, e) /\ By(c, console)' = z
    BY <2>1, <1>10, <1>11
  <2> HIDE DEF s, z
  <2>3. /\ piece[c] + 1 < Pieces
              => Agrees(c, todo[c], piece[c] + 1, e.shows, ticks, Append(s, e), z)
        /\ ~(piece[c] + 1 < Pieces)
              => Agrees(c, Tail(todo[c]), 0, e.shows, ticks, Append(s, e), z)
    BY <1>3, <1>4, <1>6, <1>9, <1>12, AgreesUart
  <2>4. Agrees(c, todo'[c], piece'[c], shown'[c], ticks, Append(s, e), z)
    BY <2>3, <1>7
  <2>5. AgreesNow(c)'
    BY <2>2, <2>4, <1>1 DEF AgreesNow
  <2> QED BY <2>5, <1>4, <1>8 DEF AgreeInv
<1>13. CASE what = "console"
  <2>1. console' = Append(console, e) /\ uart' = uart
    BY <1>1, <1>5, <1>13
  <2>2. By(c, uart)' = s /\ By(c, console)' = Append(z, e)
    BY <2>1, <1>10, <1>11
  <2> HIDE DEF s, z
  <2>3. /\ piece[c] + 1 < Pieces
              => Agrees(c, todo[c], piece[c] + 1, e.shows, ticks, s, Append(z, e))
        /\ ~(piece[c] + 1 < Pieces)
              => Agrees(c, Tail(todo[c]), 0, e.shows, ticks, s, Append(z, e))
    BY <1>3, <1>4, <1>6, <1>9, <1>13, AgreesConsole
  <2>4. Agrees(c, todo'[c], piece'[c], shown'[c], ticks, s, Append(z, e))
    BY <2>3, <1>7
  <2>5. AgreesNow(c)'
    BY <2>2, <2>4, <1>1 DEF AgreesNow
  <2> QED BY <2>5, <1>4, <1>8 DEF AgreeInv
<1> QED BY <1>12, <1>13

\* An instruction that writes nothing, done to its end.
Passes(c) ==
    /\ \E what : Doing(c, what) /\ what \notin {"uart", "console"}
    /\ Goes(c)
    /\ ticks' \in {ticks, ticks + 1}

LEMMA OutputMoves ==
    ASSUME [Next]_vars
    PROVE  \/ \E c \in Contexts : WriteUart(c) \/ WriteConsole(c)
           \/ Exception
           \/ \E c \in Contexts : Panic(c)
           \/ /\ UNCHANGED <<piece, shown, uart, console, panicked>>
              /\ \/ UNCHANGED <<todo, ticks>>
                 \/ \E c \in Contexts : Passes(c) \/ Command(c)
                 \/ TimerInterrupt
                 \/ UnknownInterrupt
<1>1. ASSUME NEW c \in Contexts,
             CallLock(c) \/ DropGuard(c) \/ EnableTimer(c) \/ FindDevice(c)
                \/ StartDma(c) \/ WaitDma(c) \/ Tick(c)
      PROVE  Passes(c) /\ UNCHANGED <<piece, shown, uart, console, panicked>>
  BY <1>1
  DEF CallLock, DropGuard, EnableTimer, FindDevice, StartDma, WaitDma, Tick, Passes
<1>2. ASSUME NEW c \in Contexts, InsideLock(c)
      PROVE  UNCHANGED <<piece, shown, uart, console, panicked, todo, ticks>>
  BY <1>2 DEF InsideLock
<1>3. FinishDma \/ Return \/ UNCHANGED vars
          => UNCHANGED <<piece, shown, uart, console, panicked, todo, ticks>>
  BY DEF FinishDma, Return, vars
<1>4. ASSUME \/ TimerInterrupt \/ UnknownInterrupt
             \/ \E c \in Contexts : Command(c)
      PROVE UNCHANGED <<piece, shown, uart, console, panicked>>
  BY <1>4 DEF TimerInterrupt, UnknownInterrupt, TakeInterrupt, Command
<1> QED BY <1>1, <1>2, <1>3, <1>4 DEF Next, HartStep, Contexts

LEMMA AgreeStep ==
    ASSUME TypeInv, AgreeInv, [Next]_vars PROVE AgreeInv'
<1> SUFFICES ASSUME panicked' = {} PROVE AgreeInv'
  BY DEF AgreeInv
<1>1. /\ ContextInv /\ HandlerInv /\ TickInv /\ TickInv'
      /\ ticks \in Nat /\ todo \in [Contexts -> Seq(Instructions)] /\ Contexts' = Contexts
  BY TickStep, MaxInterruptsAssumption
  DEF TypeInv, TickInv, ContextInv, Contexts, Sync!Contexts
<1>2. panicked = {}
  <2>1. UNCHANGED panicked \/ (\E c : panicked' = panicked \cup {c})
    BY OutputMoves DEF Exception, Panic, WriteUart, WriteConsole
  <2> QED BY <2>1
<1>3. ~Exception /\ \A c \in Contexts : ~Panic(c)
  BY DEF Exception, Panic
<1>4. ASSUME NEW c \in Contexts, WriteUart(c) \/ WriteConsole(c) PROVE AgreeInv'
  BY <1>2, <1>4, AgreeWrites
<1>5. CASE UNCHANGED <<piece, shown, uart, console>>
  <2>1. \A c \in Contexts :
            Agrees(c, todo[c], piece[c], shown[c], ticks, By(c, uart), By(c, console))
    BY <1>2 DEF AgreeInv, AgreesNow
  <2>2. CASE UNCHANGED <<todo, ticks>>
    <3>1. main \in Contexts
      BY ContextFacts
    <3> QED BY <3>1, <2>1, <2>2, <1>1, <1>2, <1>5, AgreesElsewhere
  <2>3. ASSUME NEW c \in Contexts, Passes(c) PROVE AgreeInv'
    <3>1. /\ todo[c] # << >> /\ todo' = [todo EXCEPT ![c] = Tail(todo[c])]
          /\ Head(todo[c]).do \notin {"uart", "console"} /\ piece[c] = 0
          /\ ticks' \in {ticks, ticks + 1}
      <4>1. PICK what : Doing(c, what) /\ what \notin {"uart", "console"}
        BY <2>3 DEF Passes
      <4>2. todo[c] # << >> /\ Head(todo[c]).do = what /\ piece[c] = 0
        BY <4>1, <1>1, DoingFacts, BetweenTexts
      <4> QED BY <4>1, <4>2, <2>3 DEF Passes, Goes
    <3>2. Agrees(c, Tail(todo[c]), 0, shown[c], ticks, By(c, uart), By(c, console))
      BY <2>1, <3>1, AgreesRest
    <3>3. /\ ticks' \in Nat /\ ticks <= ticks' /\ 0 \in 0..(Pieces - 1) /\ shown[c] \in Nat
      BY <3>1, <1>1, PiecesAssumption, MaxInterruptsAssumption DEF TypeInv, OutputTypes
    <3>4. Agrees(c, Tail(todo[c]), 0, shown[c], ticks', By(c, uart), By(c, console))
      BY <3>2, <3>3, <1>1, AgreesLater
    <3>5. todo'[c] = Tail(todo[c]) /\ \A d \in Contexts \ {c} : todo'[d] = todo[d]
      BY <3>1, <1>1
    <3> QED BY <3>1, <3>3, <3>4, <3>5, <1>2, <1>5, AgreesElsewhere
  \* new code, for a context that owes nothing
  <2>4. ASSUME NEW c \in Contexts, NEW code, piece[c] = 0, ticks' = ticks,
               todo[c] = << >> \/ Head(todo[c]).do \notin {"lock", "console"},
               todo' = [todo EXCEPT ![c] = code],
               Balanced(todo[c]) => Balanced(code)
        PROVE  AgreeInv'
    <3>1. Balanced(code)
          /\ \A new : Balanced(new)
                => Agrees(c, new, 0, shown[c], ticks, By(c, uart), By(c, console))
      BY <2>1, <2>4, AgreesCode
    <3>2. Agrees(c, code, 0, shown[c], ticks, By(c, uart), By(c, console))
      BY <3>1
    <3>3. todo'[c] = code /\ \A d \in Contexts \ {c} : todo'[d] = todo[d]
      BY <2>4, <1>1
    <3> QED BY <3>2, <3>3, <2>4, <1>1, <1>2, <1>5, AgreesElsewhere
  <2>5. ASSUME NEW c \in Contexts, Command(c) PROVE AgreeInv'
    <3>1. /\ todo[c] # << >> /\ Head(todo[c]).do = "shell" /\ piece[c] = 0 /\ ticks' = ticks
          /\ todo' = [todo EXCEPT ![c] = Prints("time") \o todo[c]]
      BY <2>5, <1>1, DoingFacts, BetweenTexts DEF Command, Becomes
    <3>2. Balanced(todo[c]) => Balanced(Prints("time") \o todo[c])
      BY BalancedPrints, BalancedConcat DEF Texts
    <3> QED BY <2>4, <3>1, <3>2
  <2>6. CASE TimerInterrupt \/ UnknownInterrupt
    <3>1. PICK code : (code = Do("tick") \/ code = Prints("unknown")) /\ TakeInterrupt(code)
      BY <2>6 DEF TimerInterrupt, UnknownInterrupt
    <3>2. /\ depth[hart] < MaxDepth /\ ticks' = ticks /\ todo' = [todo EXCEPT ![Handler] = code]
      BY <3>1 DEF TakeInterrupt, Sync!Trap, Becomes
    <3>3. PICK n \in 0..MaxDepth : n = depth[hart]
      BY <1>1, SyncTypes DEF ContextInv
    <3>4. n + 1 \in 0..MaxDepth /\ n + 1 > n
      BY <3>2, <3>3, MaxDepthAssumption
    <3>5. PICK c \in Contexts : c = Handler /\ c[2] = n + 1
      BY <3>3, <3>4, ContextFacts DEF Handler
    <3>6. todo[c] = << >> /\ piece[c] = 0
      BY <3>3, <3>4, <3>5, <1>1 DEF ContextInv, Fit, IdleAboveDepth, PieceFits
    <3>7. Balanced(code)
      BY <3>1, BalancedDo, BalancedPrints DEF Unlocked, Texts
    <3> QED BY <2>4, <3>2, <3>5, <3>6, <3>7
  <2> QED BY <2>2, <2>3, <2>5, <2>6, <1>3, <1>4, OutputMoves
<1> QED BY <1>3, <1>4, <1>5, OutputMoves

LEMMA AgreeKept == Spec => [](KernelInv /\ AgreeInv)
<1>1. Init => AgreeInv
  <2> SUFFICES ASSUME Init, NEW c \in Contexts PROVE AgreesNow(c)
    BY DEF AgreeInv
  <2> DEFINE none == << >>
  <2>1. /\ uart = none /\ console = none /\ piece[c] = 0
        /\ todo[c] = Main \/ todo[c] = none
    BY DEF Init, Contexts
  <2>2. Balanced(none)
    <3>1. none \in Seq(Instructions) /\ Len(none) = 0
      BY EmptySeq
    <3> HIDE DEF none
    <3>2. Paired(none)
      BY <3>1 DEF Paired
    <3>3. Settled(none)
      BY <3>1 DEF Settled, Owes
    <3> QED BY <3>1, <3>2, <3>3 DEF Balanced
  <2>3. Balanced(todo[c])
    BY <2>1, <2>2, BalancedMain
  <2>4. By(c, none) = none /\ none \in Seq(Output) /\ Len(none) = 0
    BY ByEmpty, EmptySeq
  <2> HIDE DEF none
  <2>5. Alike(none, none)
    BY <2>4 DEF Alike
  <2>6. Agrees(c, todo[c], piece[c], shown[c], ticks, none, none)
    BY <2>1, <2>3, <2>4, <2>5 DEF Agrees, Level, Balanced
  <2> QED BY <2>1, <2>4, <2>6 DEF AgreesNow
<1>2. KernelInv /\ AgreeInv /\ [Next]_vars => AgreeInv'
  BY AgreeStep DEF KernelInv
<1> QED BY <1>1, <1>2, KernelInvKept, PTL DEF Spec

\* Once nobody is printing, the two devices have of every context the same
\* texts, whole and in its own order, whatever was interrupted in between and
\* in whichever order the contexts wrote: an argument that changes may only be
\* later on the console, which formats it anew.
THEOREM DevicesAgree == Spec => []QuietDevicesAgree
<1>1. KernelInv /\ AgreeInv => QuietDevicesAgree
  <2> SUFFICES ASSUME KernelInv, AgreeInv, Quiet, panicked = {}, NEW c \in Contexts
               PROVE  LET sent == By(c, uart)
                          drawn == By(c, console)
                      IN  /\ Len(sent) = Len(drawn)
                          /\ \A i \in DOMAIN sent :
                                 /\ drawn[i] = [sent[i] EXCEPT !.shows = drawn[i].shows]
                                 /\ sent[i].shows <= drawn[i].shows
    BY DEF QuietDevicesAgree, Contexts
  <2> DEFINE sent == By(c, uart)
             drawn == By(c, console)
  <2>1. Agrees(c, todo[c], piece[c], shown[c], ticks, sent, drawn)
    BY DEF AgreeInv, AgreesNow
  <2>2. todo[c] = << >> \/ Head(todo[c]).do \notin {"uart", "lock", "console", "drop"}
    BY DEF Quiet, Contexts
  <2>3. piece[c] = 0
    BY <2>2 DEF KernelInv, TypeInv, ContextInv, Fit, PieceFits
  <2> HIDE DEF sent, drawn
  <2>4. Len(sent) = Len(drawn)
    BY <2>1, <2>2, <2>3, AgreesCode
  <2>5. sent \in Seq(Output) /\ Alike(sent, drawn)
    BY <2>1 DEF Agrees
  <2>6. DOMAIN sent = 1..Len(drawn)
    BY <2>4, <2>5
  <2> QED BY <2>4, <2>5, <2>6 DEF Alike, sent, drawn
<1> QED BY <1>1, AgreeKept, PTL

=============================================================================
