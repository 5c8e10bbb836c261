# A verification project for EASE

EASE is a small operating system in Rust for a 32-bit RISC-V machine (QEMU
`virt`): one hart, no memory protection, a timer tick, a console on a
framebuffer, a serial line, a virtio disk and a shell. This directory holds
TLA+ modules translated from its source (`src/` below is the repository root,
so the kernel is `src/src/`), configurations with which TLC checks them, and
proofs checked by TLAPS.

To repeat a check: `tlc -config <file>.cfg <Module>`; to repeat a proof:
`tlapm <Module>.tla`. `PROJECT.json` maps every definition to the lines it
stands for.

## The system

Everything runs on one hart, in one thread and the handlers that interrupt it.
There is no scheduler. State is shared through three `SpinLock`s (`CONSOLE`,
`BLK`, and the allocator's), an atomic tick counter, and device registers.

| Component (src/src/) | State it keeps | Operations | Talks to |
|---|---|---|---|
| spin locks `kernel/sync.rs`, flag `arch/mod.rs` | an `AtomicBool` per lock, `mstatus.MIE`, the live guards | `lock`, `try_lock`, `Drop` | every user of a static |
| boot, traps `arch/boot.rs`, `arch/trap.rs` | stack, `mtvec`, MIE | `_start`, `_trap_vector`, `trap_handler` | timer; panics |
| timer `arch/timer.rs` | `TICKS`, `mtimecmp` | `init`, `handle_interrupt`, `get_mtime`, `set_mtimecmp`, `sleep_ms`, `busy_wait_ms` | CLINT registers, halves at a time; console's bell; keyboard's deadline |
| heap `kernel/alloc.rs` | `heap_start`, `heap_end`, `next` | `init`, `alloc`, `dealloc` | linker symbols; `Box` of the virtqueue |
| collections `kernel/collection.rs` | a buffer and a length | `push`, `pop`, `insert`, `remove`, indexing | line editor |
| line editor `shell/line_editor.rs` | line, saved line, cursor, history, index | `process(event)` | returns a display action and perhaps a line |
| shell `shell/mod.rs`, `commands.rs` | editor, keyboard, command words | `run`, `handle_display`, `execute` | keyboard, console, timer |
| keyboard `input/keyboard.rs`, `input/escape.rs` | parser state, a deadline | `poll`, `parse`, `reset` | UART, ticks |
| UART `drivers/uart.rs` | receive FIFO (hardware) | `read_byte`, `write_byte` | keyboard, `print!` |
| console `drivers/console.rs` | text buffer, cursor, perhaps a framebuffer | `put_char`, `write_str`, `attach_fb`, `release_fb` | framebuffer, font, timer |
| framebuffer, font `drivers/ramfb.rs`, `font.rs` | pixels | `set_pixels`, `scroll`, `fill`, `draw_char` | QEMU's ramfb by fw_cfg |
| virtio disk `drivers/virtio/` | request, virtqueue, indices | `virtio_blk_init`, `disk_op` | the device, by DMA |
| FAT16 `fs/fat16.rs` | none: parses a boot sector | `Bpb::parse`, geometry | not called by the kernel yet |
| `print!` `io.rs` | none | UART, then console under its lock | everything that prints |
| start and panic `main.rs` | none | `kernel_init`, `main`, `panic` | every part above, in the order of boot; both consoles |

The hard parts: a handler may run between any two instructions of the thread
and itself takes locks when it prints; an exception may come at any instruction,
masked or not, and its panic prints under whatever locks are held; `print!` drives
two devices, one locked and one not; the interrupt flag is saved and restored
by every lock, nested ones too; 64-bit clock registers are read and written by
halves while the clock runs; the disk device reads and writes memory while the
driver does, with 16-bit indices that wrap; escape sequences race a deadline;
the line editor keeps unchecked indices through any sequence of keys, and the
shell keeps the screen in step with it by relative cursor moves alone.

What makes each component correct, and which hazards of which lines that is up
against, is listed under `hazards` in `PROJECT.json`; the properties below are
aimed at them.

## The modules

### SpinLock (kernel/sync.rs, arch/mod.rs, the trap vector)

A *context* is a hart and a trap depth: `<<h, 0>>` is the code main runs,
`<<h, d>>` the handler of the d-th nested trap. Only the context at the hart's
depth executes. `pc` is the step inside `lock()`, `try_lock()` or a guard's drop:
`spin` (the relaxed load), `mask` (`disable_interrupts`), `cas`
(`compare_exchange_weak`, which may fail spuriously), `unmask`
(`restore_interrupts`). `Drop` is two steps in the code's order, the release store
and the restore. `Trap` may happen whenever MIE is set, between any two steps.
The kernel boots one hart; the lock claims more, and the model has any number.
Memory is sequentially consistent: acquire and release orderings are not
separated from it, and the data behind the lock is not modelled.

Callers nest locks in an order of ranks and never take one they hold (the lock is
not reentrant); a caller that broke this would deadlock, and none in the tree does.

### Kernel (main.rs, io.rs, arch/trap.rs, the boot side of the drivers)

The composition: it has an instance of `SpinLock`, whose steps are its own, and
gives each context a sequence of instructions in `todo` - lock, write a text to the
UART, write it to the console, drop, wait for a transfer, and so on. `Main` is the
code of `main()` and `kernel_init()`, `Prints` that of `print!`, `PanicHandler`
that of the panic handler. A trap starts a new context with its own code.

* A text is written in pieces, each a step, on the UART without a lock and on the
  console under `CONSOLE`. Every `write!` formats its own arguments, so the
  `time` command's count is taken twice (`io.rs:16` and `:19`).
* `virtio_blk_init()` takes `BLK` only for the store: the right side of
  `*BLK.lock() = Some(VirtioBlkState::new())` is evaluated first, with its
  allocation and its `println!`. `OneLockAtATime` is that no code of the kernel
  ever nests two locks, so that guards can have no order to get wrong.
* `Exception` is taken at any instruction, also with interrupts off and inside a
  handler; its handler panics. `Panic` is one of straight code: the probing of
  the disk, or anything the shell does.
* `TimerInterrupt` needs MTIE. `UnknownInterrupt` has no source that the code
  ever enables; its arm, the one that prints in a handler, is modelled because it
  is there.
* A context that panicked keeps its guards and everything under it for ever.

The shell's texts but that of `time`, the prompt among them, are left to `Shell`.

### BumpAllocator (kernel/alloc.rs)

One action per outcome: `Alloc`, `AllocNull`, `AllocOverflows`, `Dealloc`, `Boot`.
Each runs under the allocator's lock and is one step. `granted` and `freed` are
the history of what was returned and given back. Arithmetic is modulo `WORD`, or
panics with overflow checks, as the profile says. `Layouts` is any set of sizes
and alignments; that alignments are powers of two makes the source's mask
arithmetic the division that `AlignUp` uses.

### Collection, LineEditor, HistoryEditor (kernel/collection.rs, shell/line_editor.rs)

`LineEditor` has one action per key and outcome of `process()`, with the display
action and result it returns and the assertions it may fail (`panicked`). A byte
is one of three classes - ASCII, lead, continuation - which is all its
`from_utf8` expectations tell apart. `HistoryEditor` is the abstract
specification: a text around a caret, a zipper of submitted texts and a draft,
without indices. `LineEditor` gives the refinement mapping at its end: the line cut
at the cursor, the history cut at the entry on display.

### HeaplessVec (kernel/collection.rs)

`Collection` has `Vec<T, N>` as sequences. `HeaplessVec` has it as the code does,
a length and a buffer of `MaybeUninit` elements with its `copy_within`; what an
unwritten element holds is `Uninit`, no element. `MemoryProofs` shows that
each operation there does what its sequence operation does.
It has operators only, no behaviour, and no run of its own.

### FrameBuffer (drivers/ramfb.rs, font.rs)

The framebuffer as the code has it, one array of pixels, and the operations on
slices of it: `set_pixel`, `set_pixels`, `set_row`, `fill_rows`, `scroll`, `fill`,
`draw_char`, `draw_string`. Operators, no state; `ConsoleOps` has the same memory by
character cells. The theorems about them are in `DeviceProofs`.

### Fat16 (fs/fat16.rs)

The fields `parse()` reads of a boot sector, each a byte or two, and the sectors
computed from them in 32 bits. Operators, no state, with their theorems in
`DeviceProofs`.

### ConsoleOps, Console, Shell (drivers/console.rs, ramfb.rs, font.rs, shell/)

`ConsoleOps` has `put_char` and everything below it as operators on a console
record, with pixels kept by the character cell. `Console` is the state machine
around it: any strings, written under the lock and so in one step, with the
framebuffer attached after the first ones as `kernel_init` does, and handed over
and back. `Shell` composes `LineEditor` and `ConsoleOps`: a step is one key event
with `process()`, `handle_display()` and, for Enter, the command's output and the
next prompt, because `run()` does all of that before it polls again. A command is
the shape of what it prints: nothing, a form feed, or lines of text, in which
`Repeated` has the line that `echo` or the message for an unknown command prints
again, with its control bytes.

`Shell` assumes of its constants that a row has room for the prompt and the cursor
(the code's has 80 columns and the six characters of `ease> `; the runs take a prompt of two), that the prompt is printable, and
that bytes are ASCII: the console shows one character for a byte, and a byte above
0x7F panics the editor before it can be shown (`line_editor_utf8`).

`drifted` in `Shell` records when the editor's relative moves can be off: from the
key that makes the line wrap, or puts a control byte in it, to the next one that
draws the prompt anew (Esc, ArrowUp, ArrowDown, Enter). In between the code does
leave a wrong screen - backspace stops at column 0 - and `ScreenShowsLine` claims
nothing; it does claim that everything is right again from then on.

### Keyboard (input/keyboard.rs, input/escape.rs, the shell's wfi)

`poll()` by steps: the first byte, the deadline, each read of the wait loop, each
look at the clock. Bytes arrive and ticks happen between all of them. The count of
ticks wraps; `deadline` is the sum the code computes, which wraps in a build without
overflow checks and panics in one with them (`ArmOverflows`; `checked` is chosen at
the start), and is compared as the code does, without wrapping. The shell sleeps when `poll()` returned nothing and
any interrupt wakes it. The four arrow letters are one, and one byte `x` stands
for all that have no part in a sequence. Its `KeyInit`, `KeyNext` and `KeySpec` have
names of their own because its proofs stand beside those of the shell.

### VirtioBlk (drivers/virtio/)

`VirtioBlkState::new()` register by register: the probing and its panics, the reset,
the status bits, the queue's page, `DRIVER_OK`, and the store into `BLK` that makes
calls possible. (`DRIVER_OK` is written, not or-ed, at `mod.rs:60`: it takes away the
bits set before, where the comment says "set the bit". QEMU's legacy device does not
mind, and the model keeps the bits as the code leaves them.)

The driver's `disk_op()` - the stores of the request and of the avail index, the
fence and the notification, the wait for the used index, the loads of status and
data - and the device, which takes, moves, answers and marks as used, at any
time once the index is visible and with or without a notification, and which may
fail. `BLK` is held from end to end, so one call runs at a time, and it is not
modelled again here. Both profiles take part: with overflow checks the 16-bit
`+= 1` panics (`IndexOverflows`) where it would wrap without.

`InOrder` is an assumption on the machine and the compiler: the code has one
fence, before the notification, and none between the request and the index
nor between the used index and the status. With `InOrder = FALSE` the modelled
driver may read the last request's status and data, and the device may see the
index before the request; TLC then finds `AnswersTheCall` and
`OnlyTheWrittenBlock` violated. QEMU's `virt` machine shows no such reordering;
a weakly ordered one could.

### Timer (arch/timer.rs)

`get_mtime()` and `set_mtimecmp()` by halves, in the thread and in the handler,
each with its own registers, while `Pass` moves the clock between any two steps.
`Trap` comes when the comparator is due and the thread has not masked it.
Registers that the program will not read again are set to 0.

## What TLC checks

| Run | What it asks | Bounds, and why they are enough |
|---|---|---|
| spinlock_two_harts | mutual exclusion; interrupts off under a guard; no nested trap; the flag given back | 2 harts, 2 locks, trap depth 2: contention across harts, nesting, a handler over each, and room for the nested trap that must not happen |
| kernel_boot | no text of the console is split; both devices get the same texts; one lock at a time; boot completes, handlers return; a panic's message reaches the UART, and the console if it is free | one hart, texts of 2 pieces, one interrupt and one command, two failures, trap depth 2: an interrupt inside each text and each lock, a failure in main and in the handler, and one in the panic of another |
| line_editor_ascii | no panic, indices valid, refines `HistoryEditor` | lines of 3, history of 2, two characters: insert in the middle, a full line, a full history that drops an entry, browsing past both ends. Characters are only compared for equality, so they are symmetric |
| line_editor_utf8 | *violation*: `process()` panics on a two-byte character | one character of each class |
| shell_fits | the cursor's row reads prompt and line, and does again after a line that wrapped; only one key leaves characters behind | lines of 3, history of 2, prompt of 2, a console of 2 rows by 5: a full line wraps, shorter ones do not, the last row scrolls |
| shell_leftovers | *violation*: characters stay behind the line | lines of 2, 6 columns: nothing wraps |
| console_screen | screen and buffer agree but for the last column | 2 rows, 3 columns, tab stops of 2: tabs clipped at the edge, wrapping, scrolling, all control characters alone and after a character |
| console_last_column | *violation*: the last column is never painted | the same |
| keyboard_poll | events mean their bytes; no early cut but just before the count of ticks wraps, and with overflow checks none; `poll()` returns, unless that sum panics; a full FIFO is read | window of 2 ticks, a count modulo 5, both profiles, FIFO of 3 bytes: a whole arrow sequence fits, and is cut after each byte; waits that end before the wrap, start before it and end after it, and start where the deadline overflows |
| bump_allocator_checked | blocks disjoint, inside the heap, aligned | 11 bytes at an odd address of a 6-bit space, sizes from 2 to `isize::MAX`, two alignments: exhaustion, padding, overflow |
| virtio_laps | answers belong to their calls; the disk changes only as asked; quiet between calls; every call returns | 2 sectors, 2 contents, indices modulo 4: several laps, and the sector past the end |
| timer_ticks | the next tick within an interval; sleeps and busy waits long enough | words of 4, intervals of 3, 12 instants, ticks modulo 3: carries between the halves at every phase, ticks missed under a lock, a sleep over the counter's wrap |

Deadlock is checked except where the kernel may really stop: after a panic
(allocator, disk, kernel) and at the end of the modelled clock (timer).

`shell_fits` uses a symmetry and a view. The two characters are only compared for
equality. The view drops what `process()` last returned, which is drawn in the same
step, and of the console keeps the cursor and whether each property holds, so that
no state that breaks one passes for another. With both holding, the cursor's row and
those below are given by the line; the cursor moves by numbers of characters,
whichever they are. What a line that drifted left on other rows is forgotten: from
such a state on the run checks what the prompt and the line redraw, not what may stay
behind them, of which `LeftoversOnlyFromEditedEntry` says nothing either.

Control bytes are characters of the model (`Control` in `Shell`) and not of the
run's constants, which they would multiply: they only set `drifted`, as wrapping does.

### The violations

* `process()` accepts any byte, edits by the byte and then expects UTF-8. A lead
  byte and Enter panic the kernel (`line_editor.rs:96`).
* ArrowUp from a recalled entry blanks the length that entry had when it was
  submitted, not the length of the line on the screen: after lengthening it,
  characters stay behind (`line_editor.rs:134`). `LeftoversOnlyFromEditedEntry`
  says that no other key does so.
* `set_pixels` refuses a glyph that ends at the right edge (`ramfb.rs:121`): the
  last of the 80 columns is never painted, and the cursor vanishes there.

Limits of the code that a passing run's property names instead: in the last 10 ms
before the count of ticks wraps, after 49 days, `ticks_ms() + 10` (`keyboard.rs:38`)
panics in a dev build, and in a release build makes a deadline below the count, so that
an arrow key becomes Esc and two letters, although the comment above says "Wait for 10ms
for rest of escape key sequence". `CutOnlyAfterWindow` excepts exactly these ticks;
without the exception TLC finds the early cut. `sleep_ms` subtracts with wrapping and
has no such limit (`timer_ticks`). The two devices of `print!` may show a different
count for one `time` command, and texts of different contexts in different orders:
`QuietDevicesAgree` allows both.

### Fairness

* Kernel: weak fairness of the hart, which keeps executing whatever context is
  active; strong fairness of each exchange, because a weak one does not fail
  spuriously for ever, as the ISA promises for LR/SC; weak fairness of QEMU's
  transfer, without which boot spins at `ramfb.rs:92`. No interrupt, command or
  failure has to happen. That `lock()` returns on one hart is part of
  `BootCompletes` and `TrapsReturn`, over the lock's own steps. With two harts
  nothing keeps one from taking the lock each time the other looks, so nothing is
  claimed.
* Keyboard: weak fairness of the thread, and of the tick, which rearms itself and
  is not masked in `poll()`. Nobody has to type. `ticks_ms() >= deadline` is true from
  the deadline to the end of the count, which can be a single tick; a thread that
  looked at other ticks only would wait for another lap, and for ever. The loop goes
  round thousands of times in each tick of a millisecond, so strong fairness of its
  read and of its way out in those ticks asks for much less than the hart gives.
  Without either TLC finds that behaviour.
* VirtioBlk: weak fairness of the driver's steps and of a device that handles a
  notification and finishes what it took. Nobody has to call. The code has no
  timeout, so without the device's fairness the kernel hangs.
* Timer: none; its properties are about how early things may happen.

## What is proved

With TLAPS, for every value of the constants that meets the assumptions each module
states for them. The assumptions are what makes a constant one of this code's: a size
is not zero, an index has room for two, the prompt fits its row. One is not obvious:
`Timer` needs `MaxTime >= WORD - 1`, a clock that runs through its low word at least
once, for the type of what is read of it; the code's clock has 64 bits.

Every safety property that a passing run checks is stated by a theorem.

### SpinLockProofs

* `TypeCorrect`, and `GuardsExclude` in whatever order guards are dropped. The
  inductive invariant is `ExclusionInv`: mutual exclusion and `LockedWhileHeld`, that
  a lock with a guard has its flag set.
* Assuming `ScopedDrops`: `HeldLocksMaskInterrupts`, `HandlersRunToMret` and
  `FlagGivenBack`. The inductive invariant `MaskInv` says exactly what the flag is at
  every point: which contexts are suspended and where, what `mie` of a hart is by the
  place of its active context, and that the saved flag of the oldest guard is the one
  the context started with while that of every other is false. Without `ScopedDrops`
  the theorems are false: dropping the outer guard first enables interrupts under the
  inner one, as the comment at `arch/mod.rs:27` warns. Rust's scopes drop in reverse
  order and no caller moves a guard.

### KernelProofs

For texts of any number of pieces, any number of interrupts, and traps nested to any
depth. The invariant is built in parts, each inductive with those before it:

1. `ContextInv`: what is left of a context's code fits the lock it holds. `Takes(code,
   h, k)` says that a sequence of instructions, started with lock `h`, locks only with
   none held, drops only what is held, writes the console only under `CONSOLE`, and
   ends with `k`. The code of `main()`, of `print!`, of the handlers and of the panic
   all do, whatever is prepended to what; so `HoldsOneLock`. The property alone says
   nothing of the instructions still to come, on which the next lock depends.
2. `HandlerInv`: a handler runs with interrupts off, because the flag its guards saved
   was off, and a handler over a handler can only end in the loop of a panic
   (`HandlersRunMasked`).
3. `TickInv`: only the first handler counts a tick, and only one for each interrupt:
   without it `TICKS` has no bound and neither has what `time` prints.
4. `OutputTypes`: what the devices show is made of texts and pieces. Parts 1 to 4 give
   `TypeCorrect`.
5. `LockInv`: the flag of a held lock is set and it has one holder, although the
   kernel's steps come between the lock's own (`KernelExcludes`).
6. `ConsoleInv`: the last piece on the console is that of the context inside its text,
   and a text cut short belongs to such a context. That two contexts are not inside one
   at once is mutual exclusion; that whoever is inside is there for good unless it goes
   on is that it keeps `CONSOLE`. With it, `ConsoleTextsWhole`.
7. `AgreeInv`: of each context, what it has left to do tells how far its console is
   behind its UART: it is inside a text on the UART, or owes one to the console, or the
   two are level. So `DevicesAgree`, in any order in which contexts interrupt each
   other. `Paired` says of code that every text for the UART is followed by a lock and
   the same text for the console; all code of the kernel has it (`Balanced`), whatever
   is prepended to what. The arguments agree up to ticks because a text that is owed
   was formatted no later than now.

### TimerProofs

For words, intervals, wraps and clocks of any size.

* `Control`: only `init()`, then only the handler, writes the comparator. Two writers
  by halves would make any value.
* `ReadsFrom(c, b)`: where a context is in reading the clock by halves, what it has is
  of one instant not before `b`, or the second look at the high half will tell that it
  is not. This is the argument for `get_mtime()`, for which the arithmetic of the
  halves (`div` and `%` by any `WORD`) is in lemmas of its own.
* `ComparatorInv`: with it, an interval after such an instant is what is written, in
  the order low all-ones, high, low, so `TickIsNear`. It says so at every half: the
  property looks only where the handler rests.
* `WaitInv`: `BusyWaitIsLongEnough`, busy_wait_ms(n) waits n whole intervals at least.
* `SleepInv`: there are numbers of ticks counted and of wraps of the count since
  sleep_ms(n) was called that explain the count, and each tick was an interval after
  the one before. So `SleepIsLongEnough`, n - 1 intervals at least: the first tick may
  come at once. The wraps are needed where the count passes its 32 bits in the sleep,
  and the code's subtraction is then right modulo 2^32 for any n below it.

### ConsoleProofs

For a screen of any size, any tab stops, and any strings. `TypeCorrect` says that no
character makes `put_char` index out of text or screen, and `ScreenIsRight` that the
framebuffer shows text and cursor. The invariant `ScreenInv` is stronger than the
property: it has the cells match the text also while the framebuffer is away, unless
something was written meanwhile; the property is only about a screen the console owns
but must hold as soon as it gets it back. Each case of `put_char` is a lemma that an operation `Keeps`
what matches; a string is a fold of such operations, and its length is inducted on by
the set of lengths for which the lemma holds (`Induction` in `SequenceLemmas`, as the
library's theorem about operators is out of reach).

### ShellProofs

The shell's thread, in three parts.

The line editor, for any capacities:

* `IndicesStayValid` and `TypeCorrect` for any bytes, and `AsciiNeverPanics` if no
  byte is above 0x7F (`AsciiOnly`; else see the violations). The invariant `IInv` bounds
  the cursor by the length of the line and not by the capacity, and the entry on
  display by the length of the history: that is what `process()` indexes with and
  does not check. A full history drops its oldest entry before the new one goes in
  (`SubmittedIsNewest`).
* `EditorImplements`: the editor refines `HistoryEditor`, for any bytes. One lemma for
  each key says which of the user's operations it is; a key that is refused (a full
  line, the ends of line and history) is a stutter, and so is a panic. It rests on
  what cutting a line at the caret does to an insertion, a removal and a move
  (`InsertAtCut`, `RemoveAtCut`, `MoveCut`) and on `IInv`: with a cursor past the line
  there is no cut.

The screen, for any geometry, prompt and capacities:

* `RowShowsLine`: where the editor's relative moves can be trusted, the cursor's row
  reads prompt and line, with the cursor behind the editor's. The text of an action is
  written part by part: `PutConcat` has a string that is two strings, and there is a
  lemma for each shape `handle_display` prints - characters over characters, blanks
  over the rest, a number of BS, a carriage return with blanks and the prompt. Actions
  that print relative to the cursor (`RelativeStep`) need the screen to have been right
  before; those that draw the prompt anew (`AbsoluteStep`) do not, which is how a line
  that wrapped is recovered from. A command's texts and Enter's line feed
  leave a fresh row, wherever they scroll.
* The invariant `ScreenInv` adds to the property that the entry the user is browsing
  fits its row, without which what ArrowUp blanks would be wrong: it is the
  entry's length and not the line's. The property, which looks at the text and not at
  where things came from, does not say so.
* `OnlyEditedEntryIsLeft`: every step but ArrowUp from a lengthened entry keeps the
  row blank behind the line (`Clean`).

The keys, for any window and any FIFO: `KeysTypeCorrect`, `PollLeavesParserNormal`,
`EventsAreTheirBytes` and `CutsAfterWindow`, for any width of the count of ticks that
exceeds the window. `KeysInv` says what the parser has been fed at each step of
`poll()`; its `DeadlineInv`, that the part of the window not yet waited reaches no
further than the deadline - or than the deadline and a lap, for a deadline that wrapped,
as long as the count has not: that is where the code cuts early. A tick keeps it, also
the one at which the count wraps.

### MemoryProofs

* The allocator, assuming `OverflowChecks`: `NeverGrantedTwice` and
  `GrantsStayInHeap`, from `HeapInv`: all blocks end at or before `next`, which stays
  inside the heap. Without the checks `start + size` may wrap past the heap's end and
  TLC finds a block that is not memory. `TypeCorrect` goes with them.
  `GrantsAreAligned` needs what `AlignUp` is, a division rounded up
  (`AlignUpAligns`), and not where the heap starts.
* The collections: for every capacity and content, `push`, `pop`, `insert` and
  `remove` on the buffer are the sequence operations of `Collection`, on which
  `LineEditor` is built; `insert` and `remove` copy inside the buffer; nothing reads
  an element that was not written (`Initialized`, which every operation keeps and
  which is what the `SAFETY` comments of the code say); `copy_from_str` keeps the
  first N bytes.

### DeviceProofs

* The disk: `TypeCorrect` and `QuietWhenIdle`, whatever order stores are seen in.
  `QueueInv` says where the one request is - waiting, being served, or served - and so
  how far each index is ahead of the next; the property alone is not inductive, as it
  says nothing of what happens inside a call. Assuming `InOrder`, `OkMeansDone` and
  `WritesOnlyItsBlock` from `DataInv`: at each of these places the buffer, the status
  and the disk are what this request makes them. Without `InOrder` both are false, as
  said above.
* The framebuffer: for every size of the screen, no two pixels share an offset;
  `set_pixels` stays inside the buffer and changes the pixels of its row it is asked
  to, where it draws at all; a glyph that ends at the right edge it never draws;
  `scroll` moves rows and nothing sideways. The products of the offsets are compared
  in `RowsInOrder` and `SliceOfRow`, on which the rest is built. `DrawCharDrawsGlyph`:
  `draw_char` gives every pixel of its rectangle the colour of its bit and leaves all
  others alone, by induction over the rows (`DrawnRows` names the screen after each).
* Cells and pixels: `Paints` relates the cells `ConsoleOps` keeps to the pixels of
  `FrameBuffer`. For every screen that is a whole number of cells, and every font,
  drawing a glyph (`GlyphPaintsItsCell`; in the last column neither side draws), the
  console's `scroll` and `clear` keep the relation: these three are all it does to the
  framebuffer. So what `ScreenShowsBuffer` and `ScreenShowsLine` say of cells is about
  what is on the screen. `BlankSpace`, that the font's space is blank, is asked for
  where rows come free: the 16 bytes at 512 of `resources/VGA8.F16` are zero.
* FAT16: for every boot sector `parse()` accepts, the regions follow one another, the
  root directory has room for its entries and no sector to spare, clusters from 2
  upwards are disjoint, lie in the data region, and their sectors are computed without
  wrapping. `parse()` does not compare any of it with the size of the disk, and nothing
  is claimed for clusters 0 and 1, where the subtraction underflows.

### SequenceLemmas

`InsertAt`, `RemoveAt` and cuts of a sequence, the least element of a set of numbers,
and induction over a set of numbers, on which the modules above rest.

### Only model-checked

* Liveness: `BootCompletes`, `TrapsReturn`, `PanicReachesUart` and
  `PanicReachesConsole` of `Kernel`, `PollReturns` and `InputIsRead` of `Keyboard`, that
  disk calls return. The prover has no fairness.

`draw_string`, which nothing calls, is written down in `FrameBuffer` and neither run
nor proved about.

## Not modelled, and why

* The screen between a line that wraps, or holds a control byte, and the next
  prompt: modelled, wrong in the code, and nothing claimed (see `drifted`).
* Deadlock by a panic under `CONSOLE`: it is modelled, and it is why
  `PanicReachesConsole` asks for a free console and `TrapsReturn` excepts panics.
  The UART gets the message first, which `PanicReachesUart` relies on.
* The bitmaps of glyphs and the values of colours, the fields of the `RamfbConfig`,
  `block_count()`: constants and reads that change nothing.
* `hal`: traits; its one default method is a step of `Kernel`.
* `bench`, `qemu`, the test framework of `main.rs` and the capture buffer of `io.rs`
  (cut at 4096 bytes): test builds only, straight-line code around the parts above.
  Reading `cycleh` once, `bench.rs` can see a value off by a low word's wrap, as
  `get_mtime` guards against; its results are only compared with baselines.
* The scheduler, second core and file system of the documents: not in the code.

## Plan

Written, in this order: SpinLock, LineEditor with HistoryEditor, Shell with
ConsoleOps, BumpAllocator, Keyboard, VirtioBlk, Console, Timer, HeaplessVec, Fat16,
Kernel, FrameBuffer, and the wrapped line in Shell.

Then the proofs: SpinLock, BumpAllocator, HeaplessVec, FrameBuffer, Fat16, VirtioBlk,
LineEditor, Kernel, Timer, Console, the refinement of `HistoryEditor`, Keyboard, Shell.

Every part of the kernel's own code is modelled, and the module of proofs a component
has stands beside it. Next:

1. `Console`: from one glyph to all of `put_char`: that the blanks of a tab, drawn one
   by one, and the flashes of a bell leave the pixels `PutTab` and `PutBell` say.
