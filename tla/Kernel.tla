------------------------------- MODULE Kernel -------------------------------
(***************************************************************************)
(* main.rs, io.rs and arch/trap.rs on one hart: the boot sequence, print!  *)
(* over the UART and the locked console, the handlers of interrupts and    *)
(* exceptions, and panics, which stop the context they happen in with all  *)
(* the guards it holds.  The locks are those of SpinLock, step by step.    *)
(*                                                                         *)
(* A context is named as in SpinLock: <<hart, 0>> is main, <<hart, d>> the *)
(* handler of the d-th nested trap.  What a context has still to do is a   *)
(* sequence of instructions; a trap gives the new context its own.         *)
(***************************************************************************)
EXTENDS Integers, SequencesExt

CONSTANTS
    hart,           \* the one hart that boots
    MaxDepth,       \* bound on nested traps
    Pieces,         \* the bytes of a text, each written by itself
    MaxInterrupts,  \* bound on the interrupts taken
    MaxCommands,    \* bound on the shell commands run
    MaxFailures     \* bound on exceptions and panics

ASSUME MaxDepthAssumption == MaxDepth \in Nat \ {0}
ASSUME PiecesAssumption == Pieces \in Nat \ {0}
ASSUME MaxInterruptsAssumption == MaxInterrupts \in Nat

VARIABLES
    locked, mie, depth, pc, want, prev, cont, guards,  \* of SpinLock
    todo,        \* the instructions each context has left
    piece,       \* pieces of the current text the context has written
    shown,       \* the argument its current write! has formatted
    uart,        \* what was sent to the UART
    console,     \* what was written to the console
    ticks,       \* TICKS
    mtie,        \* mie.MTIE, the timer interrupt enabled
    dma,         \* the control word of the framebuffer's DMA request
    interrupts,  \* interrupts taken
    commands,    \* commands run
    panicked     \* the contexts that have panicked

syncVars == <<locked, mie, depth, pc, want, prev, cont, guards>>
bounds == <<interrupts, commands>>
vars == <<syncVars, todo, piece, shown, uart, console, ticks, mtie, dma, bounds, panicked>>

HEAP == 1     \* BUMP_ALLOCATOR
BLK == 2
CONSOLE == 3

Sync == INSTANCE SpinLock
            WITH Harts <- {hart}, Locks <- {HEAP, BLK, CONSOLE}, ScopedDrops <- TRUE

main == <<hart, 0>>
Handlers == {hart} \X (1..MaxDepth)
Handler == <<hart, depth[hart] + 1>>  \* the context a trap starts
Over(c) == {d \in Handlers : d[2] > c[2]}

-----------------------------------------------------------------------------
(* The code, as sequences of instructions *)

Do(what) == << [do |-> what] >>
UartText(m) == << [do |-> "uart", text |-> m] >>
ConsoleText(m) == << [do |-> "console", text |-> m] >>
Locked(l, code) == << [do |-> "lock", lock |-> l] >> \o code \o Do("drop")

\* Faulty: the console is locked before the UART is written
PrintsUnderLock(m) == Locked(CONSOLE, UartText(m) \o ConsoleText(m))

\* Faulty: the console comes first
PrintsConsoleFirst(m) == Locked(CONSOLE, ConsoleText(m)) \o UartText(m)

\* Faulty: the console is written without its lock
PrintsUnlocked(m) == UartText(m) \o ConsoleText(m)

Prints(m) == UartText(m) \o Locked(CONSOLE, ConsoleText(m))

\* Faulty: the driver's state is made, and reported, under BLK
VirtioBlkInitUnderLock == Locked(BLK, Do("probe") \o Locked(HEAP, << >>) \o Prints("virtio"))

\* VirtioBlkState::new() runs before BLK is taken; Box::new allocates.
VirtioBlkInit ==
    Do("probe") \o Locked(HEAP, << >>) \o Prints("virtio") \o Locked(BLK, << >>)

\* Faulty: the kernel does not start the transfer it waits for
FrameBufferInitWithoutDma == Do("wait_dma") \o Prints("ramfb")

FrameBufferInit == Do("start_dma") \o Do("wait_dma") \o Prints("ramfb")

KernelInit ==
    Locked(HEAP, << >>) \o Do("timer") \o VirtioBlkInit
        \o FrameBufferInit \o Locked(CONSOLE, << >>)

Main == KernelInit \o Prints("hello") \o Do("shell")

\* Faulty: the message goes to the UART alone, as printd! would
PanicToUart == UartText("panic") \o Do("halt")

PanicHandler == Prints("panic") \o Do("halt")

-----------------------------------------------------------------------------
Init ==
    /\ Sync!Init
    /\ \A c \in Sync!Contexts : want[c] = HEAP
    /\ todo = [c \in Sync!Contexts |-> IF c = main THEN Main ELSE << >>]
    /\ piece = [c \in Sync!Contexts |-> 0]
    /\ shown = [c \in Sync!Contexts |-> 0]
    /\ uart = << >>
    /\ console = << >>
    /\ ticks = 0
    /\ mtie = FALSE
    /\ dma = "idle"
    /\ interrupts = 0
    /\ commands = 0
    /\ panicked = {}

Doing(c, what) ==
    /\ Sync!At(c, "run")
    /\ todo[c] # << >>
    /\ Head(todo[c]).do = what

Goes(c) == todo' = [todo EXCEPT ![c] = Tail(@)]
Becomes(c, code) == todo' = [todo EXCEPT ![c] = code]

-----------------------------------------------------------------------------
(* Locks *)

\* lock(), called even by a context that holds the lock already
CallLock(c) ==
    /\ Doing(c, "lock")
    /\ want' = [want EXCEPT ![c] = Head(todo[c]).lock]
    /\ cont' = [cont EXCEPT ![c] = "spin"]
    /\ Sync!Goto(c, "spin")
    /\ Goes(c)
    /\ UNCHANGED <<locked, mie, depth, prev, guards>>
    /\ UNCHANGED <<piece, shown, uart, console, ticks, mtie, dma, bounds, panicked>>

InsideLock(c) ==
    /\ Sync!Spin(c) \/ Sync!Mask(c) \/ Sync!Acquire(c) \/ Sync!CasFails(c) \/ Sync!Unmask(c)
    /\ UNCHANGED <<todo, piece, shown, uart, console, ticks, mtie, dma, bounds, panicked>>

\* the end of the guard's scope
DropGuard(c) ==
    /\ Doing(c, "drop")
    /\ Sync!Drop(c, Len(guards[c]))
    /\ Goes(c)
    /\ UNCHANGED <<piece, shown, uart, console, ticks, mtie, dma, bounds, panicked>>

-----------------------------------------------------------------------------
(* Output.  Each write! formats its own arguments, when it begins. *)

Argument(text) == IF text = "time" THEN ticks ELSE 0

Formatted(c) == IF piece[c] = 0 THEN Argument(Head(todo[c]).text) ELSE shown[c]

Written(c) ==
    [by |-> c, text |-> Head(todo[c]).text, piece |-> piece[c] + 1, shows |-> Formatted(c)]

\* Faulty: one byte too many
NextPieceLate(c) ==
    /\ shown' = [shown EXCEPT ![c] = Formatted(c)]
    /\ IF piece[c] < Pieces
         THEN piece' = [piece EXCEPT ![c] = @ + 1] /\ UNCHANGED todo
         ELSE piece' = [piece EXCEPT ![c] = 0] /\ Goes(c)

NextPiece(c) ==
    /\ shown' = [shown EXCEPT ![c] = Formatted(c)]
    /\ IF piece[c] + 1 < Pieces
         THEN piece' = [piece EXCEPT ![c] = @ + 1] /\ UNCHANGED todo
         ELSE piece' = [piece EXCEPT ![c] = 0] /\ Goes(c)

WriteUart(c) ==
    /\ Doing(c, "uart")
    /\ uart' = Append(uart, Written(c))
    /\ NextPiece(c)
    /\ UNCHANGED <<syncVars, console, ticks, mtie, dma, bounds, panicked>>

WriteConsole(c) ==
    /\ Doing(c, "console")
    /\ console' = Append(console, Written(c))
    /\ NextPiece(c)
    /\ UNCHANGED <<syncVars, uart, ticks, mtie, dma, bounds, panicked>>

-----------------------------------------------------------------------------
(* Boot and the shell *)

EnableTimer(c) ==
    /\ Doing(c, "timer")
    /\ mtie' = TRUE
    /\ Goes(c)
    /\ UNCHANGED <<syncVars, piece, shown, uart, console, ticks, dma, bounds, panicked>>

\* magic, version and device id are those of a block device
FindDevice(c) ==
    /\ Doing(c, "probe")
    /\ Goes(c)
    /\ UNCHANGED <<syncVars, piece, shown, uart, console, ticks, mtie, dma, bounds, panicked>>

StartDma(c) ==
    /\ Doing(c, "start_dma")
    /\ dma' = "busy"
    /\ Goes(c)
    /\ UNCHANGED <<syncVars, piece, shown, uart, console, ticks, mtie, bounds, panicked>>

\* QEMU clears the control word
FinishDma ==
    /\ dma = "busy"
    /\ dma' = "done"
    /\ UNCHANGED <<syncVars, todo, piece, shown, uart, console, ticks, mtie, bounds, panicked>>

WaitDma(c) ==
    /\ Doing(c, "wait_dma")
    /\ dma = "done"
    /\ Goes(c)
    /\ UNCHANGED <<syncVars, piece, shown, uart, console, ticks, mtie, dma, bounds, panicked>>

\* a line with the command `time`: the one print! with an argument that changes
Command(c) ==
    /\ Doing(c, "shell")
    /\ commands < MaxCommands
    /\ Becomes(c, Prints("time") \o todo[c])
    /\ commands' = commands + 1
    /\ UNCHANGED <<syncVars, piece, shown, uart, console, ticks, mtie, dma, interrupts, panicked>>

-----------------------------------------------------------------------------
(* Traps.  The handler has the registers of the code it interrupts saved. *)

TakeInterrupt(code) ==
    /\ interrupts < MaxInterrupts
    /\ Sync!Trap(hart)
    /\ Becomes(Handler, code)
    /\ interrupts' = interrupts + 1
    /\ UNCHANGED <<piece, shown, uart, console, ticks, mtie, dma, commands, panicked>>

TimerInterrupt == mtie /\ TakeInterrupt(Do("tick"))

\* No other source is ever enabled; the handler has an arm for them.
UnknownInterrupt == TakeInterrupt(Prints("unknown"))

Tick(c) ==
    /\ Doing(c, "tick")
    /\ ticks' = ticks + 1
    /\ Goes(c)
    /\ UNCHANGED <<syncVars, piece, shown, uart, console, mtie, dma, bounds, panicked>>

Return ==
    /\ todo[<<hart, depth[hart]>>] = << >>
    /\ Sync!Mret(hart)
    /\ UNCHANGED <<todo, piece, shown, uart, console, ticks, mtie, dma, bounds, panicked>>

\* An exception is taken at any instruction, with interrupts off as well, and
\* its handler panics.
Exception ==
    /\ Cardinality(panicked) < MaxFailures
    /\ depth[hart] < MaxDepth
    /\ ~Doing(<<hart, depth[hart]>>, "halt")
    /\ depth' = [depth EXCEPT ![hart] = @ + 1]
    /\ mie' = [mie EXCEPT ![hart] = FALSE]
    /\ Becomes(Handler, PanicHandler)
    /\ panicked' = panicked \cup {Handler}
    /\ UNCHANGED <<locked, pc, want, prev, cont, guards>>
    /\ UNCHANGED <<piece, shown, uart, console, ticks, mtie, dma, bounds>>

\* The device is none the driver knows, or the shell meets an overflow.
Panic(c) ==
    /\ Cardinality(panicked) < MaxFailures
    /\ Doing(c, "probe") \/ Doing(c, "shell")
    /\ Becomes(c, PanicHandler)
    /\ panicked' = panicked \cup {c}
    /\ UNCHANGED <<syncVars, piece, shown, uart, console, ticks, mtie, dma, bounds>>

-----------------------------------------------------------------------------
HartStep ==
    \/ \E c \in Sync!Contexts :
        \/ CallLock(c)
        \/ InsideLock(c)
        \/ DropGuard(c)
        \/ WriteUart(c)
        \/ WriteConsole(c)
        \/ EnableTimer(c)
        \/ FindDevice(c)
        \/ StartDma(c)
        \/ WaitDma(c)
        \/ Tick(c)
    \/ Return

Next ==
    \/ HartStep
    \/ FinishDma
    \/ \E c \in Sync!Contexts : Command(c)
    \/ TimerInterrupt
    \/ UnknownInterrupt
    \/ Exception
    \/ \E c \in Sync!Contexts : Panic(c)

Spec == Init /\ [][Next]_vars

(***************************************************************************)
(* Fairness.  The hart keeps executing, a weak exchange does not fail      *)
(* spuriously for ever, and QEMU carries out the transfer it was asked     *)
(* for.  No interrupt, command or failure is ever forced to happen.        *)
(***************************************************************************)
FairSpec ==
    /\ Spec
    /\ WF_vars(HartStep)
    /\ \A c \in Sync!Contexts : SF_vars(Sync!Acquire(c) /\ InsideLock(c))
    /\ WF_vars(FinishDma)

-----------------------------------------------------------------------------
Output ==
    [by : Sync!Contexts, text : {"virtio", "ramfb", "hello", "time", "unknown", "panic"},
     piece : 1..Pieces, shows : 0..MaxInterrupts]

TypeOK ==
    /\ Sync!TypeOK
    /\ piece \in [Sync!Contexts -> 0..(Pieces - 1)]
    /\ shown \in [Sync!Contexts -> 0..MaxInterrupts]
    /\ uart \in Seq(Output) /\ console \in Seq(Output)
    /\ ticks \in 0..MaxInterrupts
    /\ mtie \in BOOLEAN
    /\ dma \in {"idle", "busy", "done"}
    /\ panicked \subseteq Sync!Contexts

\* On the console no text is split: what one print! writes, with the argument it
\* was formatted with, stands together, whatever interrupts or fails while it is
\* written; only the last text may be cut short.
ConsoleTextWhole ==
    \A i \in DOMAIN console :
        LET e == console[i] IN
        /\ e.piece > 1 => i > 1 /\ console[i - 1] = [e EXCEPT !.piece = @ - 1]
        /\ e.piece < Pieces /\ i < Len(console) => console[i + 1] = [e EXCEPT !.piece = @ + 1]

Quiet == \A c \in Sync!Contexts :
            todo[c] # << >> => Head(todo[c]).do \notin {"uart", "lock", "console", "drop"}

\* What a context sent to a device.
By(c, device) ==
    LET by[n \in 0..Len(device)] ==
            IF n = 0 THEN << >>
            ELSE IF device[n].by = c THEN Append(by[n - 1], device[n])
            ELSE by[n - 1]
    IN  by[Len(device)]

\* The UART is written first and without a lock, so that a handler's text may
\* stand inside another there and the two devices may differ in order.  Once
\* nobody is printing, each has all texts of every context, in its order; an
\* argument that changes (the `time` command's) may be later on the console.
QuietDevicesAgree ==
    Quiet /\ panicked = {} =>
        \A c \in Sync!Contexts :
            LET sent == By(c, uart)
                drawn == By(c, console)
            IN  /\ Len(sent) = Len(drawn)
                /\ \A i \in DOMAIN sent :
                       /\ drawn[i] = [sent[i] EXCEPT !.shows = drawn[i].shows]
                       /\ sent[i].shows <= drawn[i].shows

\* No context holds two locks: there is no order of locks to get wrong, neither
\* between main and a handler nor on a second hart.
OneLockAtATime == \A c \in Sync!Contexts : Len(guards[c]) <= 1

-----------------------------------------------------------------------------
Booted == todo[main] = Do("shell")

\* Boot comes to the shell, unless something panics.
BootCompletes == <>(Booted \/ panicked # {})

\* Every handler returns to the code it interrupted, also one that prints:
\* CONSOLE is never held by the code under it, unless something has panicked.
TrapsReturn == depth[hart] > 0 ~> depth[hart] = 0 \/ panicked # {}

Reports(c, device) ==
    \E i \in DOMAIN device :
        device[i].by = c /\ device[i].text = "panic" /\ device[i].piece = Pieces

\* Whatever locks are held, by the context itself or under it, the message of a
\* panic comes out on the UART, or a later failure's does in its stead.
PanicReachesUart ==
    \A c \in Sync!Contexts :
        c \in panicked ~> Reports(c, uart) \/ panicked \cap Over(c) # {}

\* On the console it comes out if CONSOLE is free when the context panics.
\* (If the code under it holds the lock, the handler spins for ever.)
PanicReachesConsole ==
    \A c \in Sync!Contexts :
        c \in panicked /\ ~locked[CONSOLE] ~> Reports(c, console) \/ panicked \cap Over(c) # {}
=============================================================================
