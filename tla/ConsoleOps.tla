----------------------------- MODULE ConsoleOps -----------------------------
(***************************************************************************)
(* drivers/console.rs as functions on a console: put_char, write_str and   *)
(* what they call, down to the framebuffer, whose pixels are kept by the   *)
(* character cell.                                                         *)
(*                                                                         *)
(* A console is a record: the text buffer; the cursor (x, y, visible);     *)
(* attached, whether it owns the FrameBuffer; and cells, the framebuffer's *)
(* memory, which stays where it is when its owner changes.                 *)
(***************************************************************************)
LOCAL INSTANCE Integers
LOCAL INSTANCE Sequences

CONSTANTS ROWS, COLUMNS, TAB_SIZE

Space == " "
RowIndex == 0..(ROWS - 1)
ColumnIndex == 0..(COLUMNS - 1)

Glyph(ch, inverse) == [ch |-> ch, inverse |-> inverse]
BlankRow == [x \in ColumnIndex |-> Space]
BlankBuffer == [y \in RowIndex |-> BlankRow]
BlankCells == [y \in RowIndex |-> [x \in ColumnIndex |-> Glyph(Space, FALSE)]]

NewConsole ==
    [buffer |-> BlankBuffer, x |-> 0, y |-> 0, visible |-> FALSE,
     attached |-> FALSE, cells |-> BlankCells]

-----------------------------------------------------------------------------
\* Font::draw_char admits a glyph that ends at the right edge, set_pixels only
\* one that ends before it.
GlyphFits(x, y) == x + 1 <= COLUMNS /\ y + 1 <= ROWS
PixelsFit(x) == x + 1 < COLUMNS
Drawable(con, x) == con.attached /\ GlyphFits(x, con.y) /\ PixelsFit(x)

DrawGlyph(con, ch, inverse) ==
    IF Drawable(con, con.x)
    THEN [con EXCEPT !.cells[con.y][con.x] = Glyph(ch, inverse)]
    ELSE con

Under(con) == con.buffer[con.y][con.x]

HideCursor(con) ==
    IF con.visible
    THEN [DrawGlyph(con, Under(con), FALSE) EXCEPT !.visible = FALSE]
    ELSE con

ShowCursor(con) ==
    IF con.visible THEN con
    ELSE [DrawGlyph(con, Under(con), TRUE) EXCEPT !.visible = TRUE]

-----------------------------------------------------------------------------
ScrollUp(rows, blank) ==
    [y \in RowIndex |-> IF y = ROWS - 1 THEN blank ELSE rows[y + 1]]

Scroll(con) ==
    [con EXCEPT !.buffer = ScrollUp(@, BlankRow),
                !.x = 0,
                !.y = ROWS - 1,
                !.cells = IF con.attached THEN ScrollUp(@, BlankCells[0]) ELSE @]

Clear(con) ==
    [con EXCEPT !.buffer = BlankBuffer,
                !.x = 0,
                !.y = 0,
                !.cells = IF con.attached THEN BlankCells ELSE @]

-----------------------------------------------------------------------------
(* the arms of put_char *)

\* the flashes end on the character under the cursor
PutBell(con) == [DrawGlyph(con, Under(con), FALSE) EXCEPT !.visible = FALSE]

PutBackspace(con) ==
    IF con.x > 0 THEN [HideCursor(con) EXCEPT !.x = @ - 1] ELSE con

NextTab(con) == ((con.x \div TAB_SIZE) + 1) * TAB_SIZE

\* blanks over what is there, in the text and on the screen, from the cursor to stop
BlankTo(con, stop) ==
    LET Blanked(x) == con.x <= x /\ x < stop
        text  == con.buffer[con.y]
        shown == con.cells[con.y]
    IN [con EXCEPT
          !.buffer[con.y] = [x \in ColumnIndex |-> IF Blanked(x) THEN Space ELSE text[x]],
          !.cells[con.y] = [x \in ColumnIndex |->
              IF Blanked(x) /\ Drawable(con, x) THEN Glyph(Space, FALSE) ELSE shown[x]],
          !.x = stop]

PutTabToStop(con) ==  \* Faulty: the stop may lie beyond the row
    BlankTo(HideCursor(con), NextTab(con))

PutTab(con) ==
    BlankTo(HideCursor(con),
            IF NextTab(con) < COLUMNS THEN NextTab(con) ELSE COLUMNS - 1)

PutReturn(con) == [HideCursor(con) EXCEPT !.x = 0]

PutFormFeedUnderCursor(con) == Clear(con)  \* Faulty: the cursor counts as shown

PutFormFeed(con) == Clear(HideCursor(con))

PutLineFeed(con) ==
    LET c == HideCursor(con) IN
    IF c.y < ROWS - 1 THEN [c EXCEPT !.y = @ + 1, !.x = 0] ELSE Scroll(c)

\* to the next cell, to the next row at the end of one, scrolling at the last
Advance(con) ==
    IF con.x + 1 < COLUMNS THEN [con EXCEPT !.x = @ + 1]
    ELSE IF con.y + 1 < ROWS THEN [con EXCEPT !.x = 0, !.y = @ + 1]
    ELSE Scroll(con)

PutPrintable(con, ch) ==
    LET c == [con EXCEPT !.buffer[con.y][con.x] = ch] IN
    Advance([DrawGlyph(c, ch, FALSE) EXCEPT !.visible = FALSE])

PutChar(con, ch) ==
    CASE ch = "BELL"         -> PutBell(con)
      [] ch \in {"BS", "DEL"} -> PutBackspace(con)
      [] ch = "TAB"          -> PutTab(con)
      [] ch = "CR"           -> PutReturn(con)
      [] ch = "FF"           -> PutFormFeed(con)
      [] ch = "LF"           -> PutLineFeed(con)
      [] OTHER               -> PutPrintable(con, ch)

\* put[i] is the console after i bytes
WriteStr(con, s) ==
    LET put[i \in 0..Len(s)] == IF i = 0 THEN con ELSE PutChar(put[i - 1], s[i])
    IN ShowCursor(put[Len(s)])
=============================================================================
