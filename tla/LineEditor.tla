----------------------------- MODULE LineEditor -----------------------------
(***************************************************************************)
(* shell/line_editor.rs: LineEditor::process, one action per key event.    *)
(* A byte is a member of one of three classes, which is all that the       *)
(* UTF-8 checks of process() tell apart.                                   *)
(***************************************************************************)
EXTENDS Integers, Sequences, Collection

CONSTANTS
    Ascii,        \* bytes below 0x80 that the escape parser passes on, TAB apart
    Lead,         \* first bytes of a two-byte UTF-8 character
    Continuation, \* bytes that are only valid after one of Lead
    LINE_LEN,     \* capacity of a line
    HISTORY_SIZE  \* capacity of the history

ASSUME CapacityAssumption == LINE_LEN \in Nat \ {0} /\ HISTORY_SIZE \in Nat \ {0}
ASSUME ClassesAssumption ==
    Ascii \cap Lead = {} /\ Ascii \cap Continuation = {} /\ Lead \cap Continuation = {}

VARIABLES
    line,           \* the line being edited
    saved_line,     \* the line to come back to when browsing ends
    cursor,         \* position in line, from 0
    history_index,  \* the history entry on display, or None
    history,        \* submitted lines, the most recent first
    action,         \* the LineDisplayAction returned by the last process()
    result,         \* <<line>> when the last process() returned Some(line), else << >>
    panicked        \* process() hit an assertion, an index or an expect()

editorVars == <<line, saved_line, cursor, history_index, history>>
vars == <<line, saved_line, cursor, history_index, history, action, result, panicked>>

None == -1
Chars == Ascii \cup Lead \cup Continuation
Lines == UNION {[1..n -> Chars] : n \in 0..LINE_LEN}

\* str::from_utf8(s).is_ok()
IsUtf8(s) ==
    \A i \in DOMAIN s :
        /\ s[i] \in Lead => i < Len(s) /\ s[i + 1] \in Continuation
        /\ s[i] \in Continuation => i > 1 /\ s[i - 1] \in Lead

Display(kind, s, n) == [kind |-> kind, s |-> s, n |-> n]
Bell == Display("Bell", << >>, 0)

TypeOK ==
    /\ line \in Lines
    /\ saved_line \in Lines
    /\ cursor \in 0..LINE_LEN
    /\ history_index \in {None} \cup 0..(HISTORY_SIZE - 1)
    /\ Len(history) <= HISTORY_SIZE /\ \A i \in DOMAIN history : history[i] \in Lines
    /\ Len(result) <= 1 /\ \A i \in DOMAIN result : result[i] \in Lines
    /\ panicked \in BOOLEAN

Init ==
    /\ line = << >>
    /\ saved_line = << >>
    /\ cursor = 0
    /\ history_index = None
    /\ history = << >>
    /\ action = Display("None", << >>, 0)
    /\ result = << >>
    /\ panicked = FALSE

-----------------------------------------------------------------------------
\* (None, Bell), and nothing changes
Refuse ==
    /\ action' = Bell
    /\ result' = << >>
    /\ UNCHANGED <<editorVars, panicked>>

Tab == ~panicked /\ Refuse

ByteWhenFull(ch) ==
    /\ ~panicked
    /\ IsFull(line, LINE_LEN)
    /\ Refuse

ByteAtEnd(ch) ==
    /\ ~panicked
    /\ ~IsFull(line, LINE_LEN)
    /\ cursor = Len(line)
    /\ line' = VecPush(line, LINE_LEN, ch)
    /\ cursor' = cursor + 1
    /\ action' = Display("Echo", <<ch>>, 0)
    /\ result' = << >>
    /\ UNCHANGED <<saved_line, history_index, history, panicked>>

ByteInside(ch) ==
    /\ ~panicked
    /\ ~IsFull(line, LINE_LEN)
    /\ cursor # Len(line)
    /\ line' = VecInsert(line, LINE_LEN, cursor, ch)
    /\ cursor' = cursor + 1
    /\ LET s == SliceFrom(line', cursor' - 1) IN
       /\ action' = Display("Redraw", s, 0)
       /\ panicked' = ~(SliceInBounds(line', cursor' - 1) /\ IsUtf8(s))
    /\ result' = << >>
    /\ UNCHANGED <<saved_line, history_index, history>>

Enter ==
    /\ ~panicked
    /\ history' = VecInsert(IF IsFull(history, HISTORY_SIZE) THEN VecPop(history)
                                                             ELSE history,
                            HISTORY_SIZE, 0, line)
    /\ line' = << >>
    /\ cursor' = 0
    /\ history_index' = None
    /\ saved_line' = << >>
    /\ action' = Display("Enter", << >>, 0)
    /\ result' = <<At0(history', 0)>>
    /\ panicked' = ~IsUtf8(At0(history', 0))

Backspace ==
    /\ ~panicked
    /\ cursor > 0
    /\ line' = VecRemove(line, cursor - 1)
    /\ cursor' = cursor - 1
    /\ LET s == SliceFrom(line', cursor') IN
       /\ action' = Display("Backspace", s, 0)
       /\ panicked' = ~(SliceInBounds(line', cursor') /\ IsUtf8(s))
    /\ result' = << >>
    /\ UNCHANGED <<saved_line, history_index, history>>

BackspaceAtStart == ~panicked /\ cursor = 0 /\ Refuse

\* Faulty: the cursor stays where it was
EscKeepsCursor ==
    /\ ~panicked
    /\ action' = Display("ClearLine", << >>, Len(line))
    /\ line' = << >>
    /\ history_index' = None
    /\ result' = << >>
    /\ UNCHANGED <<cursor, saved_line, history, panicked>>

\* saved_line keeps what it held
Esc ==
    /\ ~panicked
    /\ action' = Display("ClearLine", << >>, Len(line))
    /\ line' = << >>
    /\ cursor' = 0
    /\ history_index' = None
    /\ result' = << >>
    /\ UNCHANGED <<saved_line, history, panicked>>

\* line, cursor and the display after a move in the history, whose last act is
\* to redraw the line over n blanks
RecallPastEnd(entry, n) ==  \* Faulty: the cursor goes past the end
    /\ line' = entry
    /\ cursor' = Len(entry) + 1
    /\ action' = Display("RedrawLine", entry, n)
    /\ panicked' = ~IsUtf8(entry)
    /\ result' = << >>

Recall(entry, n) ==
    /\ line' = entry
    /\ cursor' = Len(entry)
    /\ action' = Display("RedrawLine", entry, n)
    /\ panicked' = ~IsUtf8(entry)
    /\ result' = << >>

NoOlder == history = << >> \/ history_index = Len(history) - 1

\* Faulty: an entry being browsed is saved over the draft
ArrowUpSavesAlways ==
    /\ ~panicked
    /\ ~NoOlder
    /\ saved_line' = line
    /\ history_index' = IF history_index = None THEN 0 ELSE history_index + 1
    /\ Recall(At0(history, history_index'),
              IF history_index = None THEN Len(line)
                                      ELSE Len(At0(history, history_index)))
    /\ UNCHANGED history

\* The blanks asked for are those of the entry on display as it was submitted.
ArrowUp ==
    /\ ~panicked
    /\ ~NoOlder
    /\ saved_line' = IF history_index = None THEN line ELSE saved_line
    /\ history_index' = IF history_index = None THEN 0 ELSE history_index + 1
    /\ Recall(At0(history, history_index'),
              IF history_index = None THEN Len(line)
                                      ELSE Len(At0(history, history_index)))
    /\ UNCHANGED history

ArrowUpAtOldest == ~panicked /\ NoOlder /\ Refuse

\* Faulty: the blanks are those of the entry as it was submitted, as in ArrowUp
ArrowDownBlanksEntry ==
    /\ ~panicked
    /\ history_index # None /\ history # << >>
    /\ LET n == Len(At0(history, history_index)) IN
       IF history_index = 0
       THEN /\ history_index' = None
            /\ Recall(saved_line, n)
       ELSE /\ history_index' = history_index - 1
            /\ Recall(At0(history, history_index - 1), n)
    /\ UNCHANGED <<saved_line, history>>

ArrowDown ==
    /\ ~panicked
    /\ history_index # None /\ history # << >>
    /\ IF history_index = 0
       THEN /\ history_index' = None
            /\ Recall(saved_line, Len(line))
       ELSE /\ history_index' = history_index - 1
            /\ Recall(At0(history, history_index - 1), Len(line))
    /\ UNCHANGED <<saved_line, history>>

ArrowDownAtDraft ==
    /\ ~panicked
    /\ history_index = None \/ history = << >>
    /\ Refuse

\* Faulty: the character right of the new cursor is echoed
ArrowRightLooksAhead ==
    /\ ~panicked
    /\ cursor < Len(line)
    /\ cursor' = cursor + 1
    /\ panicked' = ~InBounds(line, cursor')
    /\ action' = Display("CursorRight", SliceFrom(line, cursor'), 0)
    /\ result' = << >>
    /\ UNCHANGED <<line, saved_line, history_index, history>>

ArrowRight ==
    /\ ~panicked
    /\ cursor < Len(line)
    /\ cursor' = cursor + 1
    /\ panicked' = ~InBounds(line, cursor' - 1)
    /\ action' = Display("CursorRight", <<At0(line, cursor' - 1)>>, 0)
    /\ result' = << >>
    /\ UNCHANGED <<line, saved_line, history_index, history>>

ArrowRightAtEnd == ~panicked /\ ~(cursor < Len(line)) /\ Refuse

ArrowLeft ==
    /\ ~panicked
    /\ cursor > 0
    /\ cursor' = cursor - 1
    /\ action' = Display("CursorLeft", << >>, 0)
    /\ result' = << >>
    /\ UNCHANGED <<line, saved_line, history_index, history, panicked>>

ArrowLeftAtStart == ~panicked /\ cursor = 0 /\ Refuse

-----------------------------------------------------------------------------
Next ==
    \/ Tab
    \/ \E ch \in Chars : ByteWhenFull(ch)
    \/ \E ch \in Chars : ByteAtEnd(ch)
    \/ \E ch \in Chars : ByteInside(ch)
    \/ Enter
    \/ Backspace
    \/ BackspaceAtStart
    \/ Esc
    \/ ArrowUp
    \/ ArrowUpAtOldest
    \/ ArrowDown
    \/ ArrowDownAtDraft
    \/ ArrowRight
    \/ ArrowRightAtEnd
    \/ ArrowLeft
    \/ ArrowLeftAtStart

Spec == Init /\ [][Next]_vars

-----------------------------------------------------------------------------
\* The line a caller of Enter gets, and every entry of the history, is one the
\* user finished: no key, in any order, makes process() index out of bounds or
\* fail one of its UTF-8 expectations.
NeverPanics == ~panicked

\* The cursor stays in the line and the entry on display in the history, through
\* every mixture of editing, browsing, submitting and clearing: the indices that
\* process() does not check.
IndicesValid ==
    /\ cursor <= Len(line)
    /\ history_index < Len(history)

-----------------------------------------------------------------------------
(* What the user sees of it: a HistoryEditor. *)

Position == history_index + 1
Draft == IF history_index = None THEN << >> ELSE saved_line

Before == SubSeq(line, 1, cursor)
After == SubSeq(line, cursor + 1, Len(line))

\* the entries newer than the one on display, the draft last
NewerEntries ==
    [i \in 1..Position |-> IF i = Position THEN Draft ELSE history[Position - i]]
OlderEntries == SubSeq(history, Position + 1, Len(history))

User == INSTANCE HistoryEditor WITH
    MaxText    <- LINE_LEN,
    MaxEntries <- HISTORY_SIZE,
    left       <- Before,
    right      <- After,
    newer      <- NewerEntries,
    older      <- OlderEntries,
    submitted  <- history

\* Every key is one of the user's operations or nothing: the text changes only
\* at the caret, browsing walks the submitted texts one by one, nothing that is
\* submitted is lost but the oldest at the limit, and the draft comes back.
ImplementsHistoryEditor == User!Spec
=============================================================================
