-------------------------------- MODULE Shell --------------------------------
(***************************************************************************)
(* shell/mod.rs: the shell's loop around the line editor, and the console  *)
(* it draws on.  A step is one key event: process(), handle_display() with *)
(* the action it returned and, for Enter, execute() and the next prompt.   *)
(* The shell is the only thread, and nothing else prints while it waits.   *)
(***************************************************************************)
EXTENDS LineEditor, SequencesExt

CONSTANTS
    ROWS, COLUMNS, TAB_SIZE,  \* the console's geometry
    PROMPT                    \* the prompt, a sequence of printable characters

\* A row holds the prompt and the cursor behind it.
ASSUME GeometryAssumption ==
    /\ ROWS \in Nat \ {0} /\ COLUMNS \in Nat
    /\ PROMPT \in Seq(STRING) /\ Len(PROMPT) < COLUMNS

VARIABLES
    con,     \* the console behind CONSOLE
    drifted  \* the editor may not know where the console's cursor is

INSTANCE ConsoleOps

\* The console shows a byte as one character, which is so in ASCII.  The parser
\* makes keys of CR, BS and DEL, and the editor refuses TAB.
ASSUME AsciiAssumption ==
    Lead = {} /\ Continuation = {} /\ Ascii \cap {"CR", "BS", "DEL", "TAB"} = {}
ASSUME PromptAssumption ==
    \A i \in DOMAIN PROMPT :
        PROMPT[i] \notin {"BELL", "BS", "DEL", "TAB", "CR", "FF", "LF"}

shellVars == <<vars, con, drifted>>

Repeat(ch, n) == [i \in 1..n |-> ch]

-----------------------------------------------------------------------------
(* handle_display: what each action prints *)

ClearLineText(n) ==
    <<"CR">> \o Repeat(Space, n + Len(PROMPT)) \o <<"CR">> \o PROMPT

BackspaceText(s) == <<"BS">> \o s \o <<Space, "BS">> \o Repeat("BS", Len(s))

RedrawTextOneTooFar(s, n) ==  \* Faulty: back to where the new character starts
    LET spaces == IF n > Len(s) THEN n - Len(s) ELSE 0
    IN s \o Repeat(Space, spaces) \o Repeat("BS", Len(s) + spaces)

RedrawText(s, n) ==
    LET spaces == IF n > Len(s) THEN n - Len(s) ELSE 0
        back == Len(s) + spaces - 1
    IN s \o Repeat(Space, spaces) \o Repeat("BS", IF back > 0 THEN back ELSE 0)

DisplayText(act) ==
    CASE act.kind = "None"        -> << >>
      [] act.kind = "Echo"        -> act.s
      [] act.kind = "Enter"       -> <<"LF">>
      [] act.kind = "Bell"        -> <<"BELL">>
      [] act.kind = "Backspace"   -> BackspaceText(act.s)
      [] act.kind = "Redraw"      -> RedrawText(act.s, act.n)
      [] act.kind = "RedrawLine"  -> ClearLineText(act.n) \o act.s
      [] act.kind = "ClearLine"   -> ClearLineText(act.n)
      [] act.kind = "CursorLeft"  -> <<"BS">>
      [] act.kind = "CursorRight" -> act.s

-----------------------------------------------------------------------------
Control == {"LF", "FF", "BELL"}  \* bytes the console obeys and does not show
Repeated(s) == [i \in 1..Len(s) |-> IF s[i] \in Control THEN s[i] ELSE "o"]

\* clear prints a form feed; the others lines of text, with the line and its
\* control bytes in it when echo or an unknown command repeats them, or an empty
\* one when echo has nothing to repeat.
CommandTexts(cmd) ==
    {<<"FF">>, <<"LF">>, <<"o", "LF", "o", "LF">>, <<"o">> \o Repeated(cmd) \o <<"LF">>}

\* execute(): nothing happens for a line that trim() empties
Outputs(cmd) ==
    IF \A i \in DOMAIN cmd : cmd[i] \in {Space, "LF", "FF"} THEN {<< >>} ELSE CommandTexts(cmd)

\* The line stands on one row with the prompt, the cursor behind it included.
FitsRow(s) ==
    Len(PROMPT) + Len(s) < COLUMNS /\ \A i \in 1..Len(s) : s[i] \notin Control

\* A line that does not fit is drawn over several rows, or scrolls or clears the
\* console, and what the editor knows is off until the prompt is drawn again.
Drifts == ~FitsRow(line') \/ (drifted /\ action'.kind \notin {"RedrawLine", "ClearLine"})

ShellInit ==
    /\ Init
    /\ con = WriteStr(NewConsole, PROMPT)
    /\ drifted = FALSE

Edit(Key) ==
    /\ Key
    /\ con' = WriteStr(con, DisplayText(action'))
    /\ drifted' = Drifts

Submit ==
    /\ Enter
    /\ \E out \in Outputs(result'[1]) :
          con' = WriteStr(con, DisplayText(action') \o out \o PROMPT)
    /\ drifted' = FALSE

ShellNext ==
    \/ Edit(Tab)
    \/ \E ch \in Chars : Edit(ByteWhenFull(ch))
    \/ \E ch \in Chars : Edit(ByteAtEnd(ch))
    \/ \E ch \in Chars : Edit(ByteInside(ch))
    \/ Submit
    \/ Edit(Backspace)
    \/ Edit(BackspaceAtStart)
    \/ Edit(Esc)
    \/ Edit(ArrowUp)
    \/ Edit(ArrowUpAtOldest)
    \/ Edit(ArrowDown)
    \/ Edit(ArrowDownAtDraft)
    \/ Edit(ArrowRight)
    \/ Edit(ArrowRightAtEnd)
    \/ Edit(ArrowLeft)
    \/ Edit(ArrowLeftAtStart)

ShellSpec == ShellInit /\ [][ShellNext]_shellVars

-----------------------------------------------------------------------------
Shown == PROMPT \o line
Row == con.buffer[con.y]

\* Whatever was typed, moved, recalled and cleared, the row of the cursor reads
\* prompt and line, and the console's cursor is on the character the editor's
\* cursor is on: the display actions, relative moves all of them, never drift.
\* A line that wraps or holds control bytes does upset them, but every action
\* that draws the prompt, and the next command, puts them right again.
ScreenShowsLine ==
    ~drifted =>
        /\ con.x = Len(PROMPT) + cursor
        /\ \A i \in DOMAIN Shown : Row[i - 1] = Shown[i]

\* Nothing follows the line on its row or below.
NoLeftovers ==
    /\ \A x \in Len(Shown)..(COLUMNS - 1) : Row[x] = Space
    /\ \A y \in (con.y + 1)..(ROWS - 1) : con.buffer[y] = BlankRow

\* On one row, the only key that leaves characters behind is ArrowUp from an entry that was
\* lengthened after it was recalled: it blanks the entry's own length.
LeftoversOnlyFromEditedEntry ==
    [][NoLeftovers /\ ~NoLeftovers' /\ ~drifted /\ ~drifted' =>
         /\ history_index # None
         /\ history_index' = history_index + 1
         /\ Len(line) > Len(At0(history, history_index))]_shellVars
=============================================================================
