------------------------------ MODULE Keyboard ------------------------------
(***************************************************************************)
(* input/keyboard.rs and input/escape.rs between the UART's receive FIFO,  *)
(* the timer's ticks and the shell's loop, which sleeps in wfi when poll() *)
(* has nothing for it.  Bytes arrive and ticks happen between any two      *)
(* steps of poll().                                                        *)
(***************************************************************************)
EXTENDS Integers, Sequences

CONSTANTS
    WRAP,    \* 2^32: the count of ticks is modulo WRAP
    WINDOW,  \* ticks that poll() waits for the rest of an escape sequence
    FIFO     \* capacity of the UART's receive FIFO

ASSUME WindowAssumption == WINDOW \in Nat \ {0}
ASSUME WrapAssumption == WRAP \in Nat /\ WRAP > WINDOW
ASSUME FifoAssumption == FIFO \in Nat \ {0}

VARIABLES
    fifo,    \* bytes received and not yet read, the oldest first
    state,   \* EscapeParser.state
    pc,      \* what the shell's thread does next
    ticks,   \* TICKS, the timer's count
    deadline,\* poll()'s, 0 outside the wait loop
    checked, \* the build has overflow checks, as in the dev profile
    event,   \* the event of the last poll() that returned
    seen,    \* bytes read by the current poll() (or the last)
    waited   \* ticks since that poll() read its first byte, up to WINDOW

keyVars == <<fifo, state, pc, ticks, deadline, checked, event, seen, waited>>

\* A stands for the four letters that end an arrow key's sequence, x for every
\* byte with no part in any.
Bytes == {"ESC", "[", "A", "CR", "BS", "x"}
Keys == {"Esc", "Enter", "Backspace", "Arrow"}
NoEvent == "None"

KeyTypeOK ==
    /\ Len(fifo) <= FIFO /\ \A i \in DOMAIN fifo : fifo[i] \in Bytes
    /\ state \in {"Normal", "GotEscape", "GotBracket"}
    /\ pc \in {"poll", "asleep", "arm", "read", "check", "panicked"}
    /\ ticks \in 0..(WRAP - 1) /\ deadline \in 0..(WRAP - 1)
    /\ checked \in BOOLEAN
    /\ event \in {NoEvent} \cup Keys \cup Bytes
    /\ Len(seen) <= 3 /\ \A i \in DOMAIN seen : seen[i] \in Bytes
    /\ waited \in 0..WINDOW

KeyInit ==
    /\ fifo = << >>
    /\ state = "Normal"
    /\ pc = "poll"
    /\ ticks = 0
    /\ deadline = 0
    /\ checked \in BOOLEAN
    /\ event = NoEvent
    /\ seen = << >>
    /\ waited = 0

-----------------------------------------------------------------------------
(* EscapeParser::parse *)

ParsedState(s, b) ==
    CASE s = "Normal" /\ b = "ESC"  -> "GotEscape"
      [] s = "GotEscape" /\ b = "[" -> "GotBracket"
      [] OTHER                      -> "Normal"

\* Faulty: the byte after a lone ESC falls out as an ordinary one
ResultAfterEscIsByte(s, b) ==
    CASE s = "GotBracket" -> IF b = "A" THEN "Arrow" ELSE "InvalidSequence"
      [] s = "GotEscape"  -> IF b = "[" THEN "Pending" ELSE b
      [] s = "Normal"     -> CASE b = "ESC" -> "Pending"
                               [] b = "CR"  -> "Enter"
                               [] b = "BS"  -> "Backspace"
                               [] OTHER     -> b

\* the byte after a lone ESC goes with it
ParsedResult(s, b) ==
    CASE s = "GotBracket" -> IF b = "A" THEN "Arrow" ELSE "InvalidSequence"
      [] s = "GotEscape"  -> IF b = "[" THEN "Pending" ELSE "Esc"
      [] s = "Normal"     -> CASE b = "ESC" -> "Pending"
                               [] b = "CR"  -> "Enter"
                               [] b = "BS"  -> "Backspace"
                               [] OTHER     -> b

\* read_byte() has a byte and parse() takes it
ReadAndParse(pending) ==
    LET b == Head(fifo)
        result == ParsedResult(state, b)
    IN
    /\ fifo' = Tail(fifo)
    /\ state' = ParsedState(state, b)
    /\ IF result = "Pending" THEN /\ pc' = pending
                                  /\ UNCHANGED <<event, deadline>>
       ELSE IF result = "InvalidSequence" THEN /\ pc' = "asleep"
                                               /\ event' = NoEvent
                                               /\ deadline' = 0
       ELSE /\ pc' = "poll"
            /\ event' = result
            /\ deadline' = 0

-----------------------------------------------------------------------------
(* poll(), called by the shell's loop *)

\* no byte: poll() returns None and the shell waits for an interrupt
PollEmpty ==
    /\ pc = "poll"
    /\ fifo = << >>
    /\ pc' = "asleep"
    /\ event' = NoEvent
    /\ seen' = << >>
    /\ UNCHANGED <<fifo, state, ticks, deadline, checked, waited>>

Poll ==
    /\ pc = "poll"
    /\ fifo # << >>
    /\ ReadAndParse("arm")
    /\ seen' = <<Head(fifo)>>
    /\ waited' = 0
    /\ UNCHANGED <<ticks, checked>>

\* Faulty: one tick less than the window
ArmShort ==
    /\ pc = "arm"
    /\ checked => ticks + WINDOW < WRAP
    /\ deadline' = (ticks + WINDOW - 1) % WRAP
    /\ pc' = "read"
    /\ UNCHANGED <<fifo, state, ticks, checked, event, seen, waited>>

\* deadline = ticks_ms() + 10: the sum wraps without overflow checks
Arm ==
    /\ pc = "arm"
    /\ checked => ticks + WINDOW < WRAP
    /\ deadline' = (ticks + WINDOW) % WRAP
    /\ pc' = "read"
    /\ UNCHANGED <<fifo, state, ticks, checked, event, seen, waited>>

\* with them it panics, and nothing polls again
ArmOverflows ==
    /\ pc = "arm"
    /\ checked /\ ticks + WINDOW >= WRAP
    /\ pc' = "panicked"
    /\ UNCHANGED <<fifo, state, ticks, deadline, checked, event, seen, waited>>

\* the wait loop's read; a pending result goes straight to the next read
ReadByte ==
    /\ pc = "read"
    /\ fifo # << >>
    /\ ReadAndParse("read")
    /\ seen' = Append(seen, Head(fifo))
    /\ UNCHANGED <<ticks, checked, waited>>

ReadNothing ==
    /\ pc = "read"
    /\ fifo = << >>
    /\ pc' = "check"
    /\ UNCHANGED <<fifo, state, ticks, deadline, checked, event, seen, waited>>

\* Faulty: no count is above the last deadline
PastDeadline == ticks > deadline

\* ticks_ms() >= deadline, of two counts that wrap
DeadlinePassed == ticks >= deadline

StillTime ==
    /\ pc = "check"
    /\ ~DeadlinePassed
    /\ pc' = "read"
    /\ UNCHANGED <<fifo, state, ticks, deadline, checked, event, seen, waited>>

\* Faulty: no parser.reset()
TimeOutKeepsState ==
    /\ pc = "check"
    /\ DeadlinePassed
    /\ event' = "Esc"
    /\ pc' = "poll"
    /\ deadline' = 0
    /\ UNCHANGED <<fifo, state, ticks, checked, seen, waited>>

TimeOut ==
    /\ pc = "check"
    /\ DeadlinePassed
    /\ state' = "Normal"
    /\ event' = "Esc"
    /\ pc' = "poll"
    /\ deadline' = 0
    /\ UNCHANGED <<fifo, ticks, checked, seen, waited>>

-----------------------------------------------------------------------------
\* A byte comes in on the line.
Arrive ==
    /\ Len(fifo) < FIFO
    /\ \E b \in Bytes : fifo' = Append(fifo, b)
    /\ UNCHANGED <<state, pc, ticks, deadline, checked, event, seen, waited>>

\* Faulty: the interrupt does not end the wfi
TickWakesNobody ==
    /\ ticks' = (ticks + 1) % WRAP
    /\ waited' = IF waited < WINDOW THEN waited + 1 ELSE WINDOW
    /\ UNCHANGED <<fifo, state, pc, deadline, checked, event, seen>>

\* Faulty: the count does not wrap where its type ends
TickPastWrap ==
    /\ ticks' = IF ticks < WRAP THEN ticks + 1 ELSE 0
    /\ waited' = IF waited < WINDOW THEN waited + 1 ELSE WINDOW
    /\ pc' = IF pc = "asleep" THEN "poll" ELSE pc
    /\ UNCHANGED <<fifo, state, deadline, checked, event, seen>>

\* The timer's interrupt counts a tick and ends a wfi.
Tick ==
    /\ ticks' = (ticks + 1) % WRAP
    /\ waited' = IF waited < WINDOW THEN waited + 1 ELSE WINDOW
    /\ pc' = IF pc = "asleep" THEN "poll" ELSE pc
    /\ UNCHANGED <<fifo, state, deadline, checked, event, seen>>

Thread ==
    \/ PollEmpty \/ Poll \/ Arm \/ ArmOverflows
    \/ ReadByte \/ ReadNothing \/ StillTime \/ TimeOut

KeyNext ==
    \/ PollEmpty
    \/ Poll
    \/ Arm
    \/ ArmOverflows
    \/ ReadByte
    \/ ReadNothing
    \/ StillTime
    \/ TimeOut
    \/ Arrive
    \/ Tick

\* The hart executes the thread, and the timer fires again each time it was
\* handled: poll() runs with interrupts on.  Nobody has to type.  The wait loop
\* goes round many times in a tick, so that it does not for ever miss the ticks
\* from the deadline to the end of the count: it reads in one of them, and looks
\* at the count in one of them.
KeySpec ==
    /\ KeyInit /\ [][KeyNext]_keyVars
    /\ WF_keyVars(Thread) /\ WF_keyVars(Tick)
    /\ SF_keyVars(ReadNothing /\ DeadlinePassed) /\ SF_keyVars(TimeOut)

-----------------------------------------------------------------------------
Returned == pc \in {"poll", "asleep"}

\* No poll() leaves half a sequence in the parser, by whichever of its returns:
\* the next key is never decoded as the tail of the last.
ParserNormalBetweenPolls == Returned => state = "Normal"

\* What the bytes of one poll() mean.  A byte that follows a lone ESC in time is
\* consumed with it.
Meaning(s) ==
    IF s = << >> THEN NoEvent
    ELSE IF s[1] = "ESC"
    THEN IF Len(s) = 3 /\ s[2] = "[" THEN IF s[3] = "A" THEN "Arrow" ELSE NoEvent
                                      ELSE "Esc"
    ELSE CASE s[1] = "CR" -> "Enter"
           [] s[1] = "BS" -> "Backspace"
           [] OTHER       -> s[1]

\* Whatever ticks and arrivals came between its steps, the event of a poll() is
\* the meaning of exactly the bytes that poll() took from the FIFO: no byte is
\* decoded with another key's, skipped or taken twice.
EventsMeanTheirBytes == Returned => event = Meaning(seen)

\* The last ticks before the count wraps, in which the deadline of a wait that
\* starts overflows.
NearWrap == ticks + WINDOW >= WRAP

\* A sequence is cut short only when WINDOW ticks have passed since its ESC, so
\* that an arrow key whose bytes come in faster is not taken for Esc and letters -
\* but for a build without overflow checks just before the count of ticks wraps:
\* there the deadline wraps to a small number, the count is above it, and the code
\* cuts at once.  Once the count itself has wrapped, no wait is short.
CutOnlyAfterWindow ==
    [][pc = "check" /\ pc' = "poll" =>
           \/ waited = WINDOW
           \/ ~checked /\ NearWrap]_keyVars

\* poll() always returns, also when the line goes dead in the middle of a
\* sequence, unless the sum of its deadline panics.
PollReturns == []<>(Returned \/ pc = "panicked")

\* A full FIFO is read again, although poll() returns None, and the shell goes to
\* sleep, with bytes waiting behind an invalid sequence: no lost wakeup.
InputIsRead == Len(fifo) = FIFO ~> Len(fifo) < FIFO \/ pc = "panicked"
=============================================================================
