------------------------------- MODULE Console -------------------------------
(***************************************************************************)
(* drivers/console.rs as the kernel uses it: strings are written, each     *)
(* under the console's lock and so in one step, and the framebuffer is     *)
(* attached after the first of them, taken away and attached again.        *)
(***************************************************************************)
EXTENDS Integers, Sequences

CONSTANTS
    ROWS, COLUMNS, TAB_SIZE,
    Texts  \* the strings written

ASSUME SizeAssumption ==
    ROWS \in Nat \ {0} /\ COLUMNS \in Nat \ {0} /\ TAB_SIZE \in Nat \ {0}

ASSUME TextsAssumption == Texts \subseteq Seq(STRING)

VARIABLES
    con,     \* the console
    undrawn  \* the text changed while no framebuffer was attached

INSTANCE ConsoleOps

vars == <<con, undrawn>>

TypeOK ==
    /\ con.x \in ColumnIndex
    /\ con.y \in RowIndex
    /\ con.visible \in BOOLEAN /\ con.attached \in BOOLEAN /\ undrawn \in BOOLEAN
    /\ DOMAIN con.buffer = RowIndex /\ DOMAIN con.cells = RowIndex
    /\ \A y \in RowIndex :
        DOMAIN con.buffer[y] = ColumnIndex /\ DOMAIN con.cells[y] = ColumnIndex

Init ==
    /\ con = NewConsole
    /\ undrawn = FALSE

Drawn(s) == \E i \in DOMAIN s : s[i] = "FF"

Write(s) ==
    /\ con' = WriteStr(con, s)
    /\ undrawn' = (~con.attached \/ (undrawn /\ ~Drawn(s)))

\* attach_fb draws nothing
Attach ==
    /\ ~con.attached
    /\ con' = [con EXCEPT !.attached = TRUE]
    /\ UNCHANGED undrawn

Release ==
    /\ con.attached
    /\ con' = [con EXCEPT !.attached = FALSE]
    /\ UNCHANGED undrawn

Next ==
    \/ \E s \in Texts : Write(s)
    \/ Attach
    \/ Release

Spec == Init /\ [][Next]_vars

-----------------------------------------------------------------------------
CursorAt(x, y) == con.visible /\ con.x = x /\ con.y = y

Shows(x, y) == con.cells[y][x] = Glyph(con.buffer[y][x], CursorAt(x, y))

\* The framebuffer shows the text buffer, and one cursor where the next character
\* goes, through scrolling, wrapping, tabs and bells; text written while it was
\* away appears after the next clear.  Its last column aside.
ScreenShowsBuffer ==
    con.attached /\ ~undrawn =>
        \A x \in 0..(COLUMNS - 2), y \in RowIndex : Shows(x, y)

\* The last column as well.
WholeScreenShowsBuffer ==
    con.attached /\ ~undrawn => \A x \in ColumnIndex, y \in RowIndex : Shows(x, y)
=============================================================================
