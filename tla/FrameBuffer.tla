----------------------------- MODULE FrameBuffer -----------------------------
(***************************************************************************)
(* drivers/ramfb.rs and the drawing of drivers/font.rs, pixel by pixel:    *)
(* the framebuffer is WIDTH * HEIGHT pixels, row after row, and every      *)
(* operation writes slices of it.  ConsoleOps keeps the same memory by     *)
(* character cells.                                                        *)
(***************************************************************************)
EXTENDS Integers, Sequences

CONSTANTS WIDTH, HEIGHT,            \* of the screen, in pixels
          FONT_WIDTH, FONT_HEIGHT   \* of a glyph

SIZE == HEIGHT * WIDTH
Buffers(Colours) == [{i \in Nat : i < SIZE} -> Colours]

\* the slice [start..end], which panics unless start <= end <= SIZE
SliceInBounds(start, end) == start <= end /\ end <= SIZE
InSlice(i, start, end) == start <= i /\ i < end

Offset(x, y) == y * WIDTH + x

FillSlice(buf, start, end, colour) ==
    [i \in DOMAIN buf |-> IF InSlice(i, start, end) THEN colour ELSE buf[i]]

CopySlice(buf, start, colours) ==
    [i \in DOMAIN buf |->
        IF InSlice(i, start, start + Len(colours)) THEN colours[i - start + 1] ELSE buf[i]]

-----------------------------------------------------------------------------
SetPixel(buf, x, y, colour) ==
    IF x < WIDTH /\ y < HEIGHT
    THEN [buf EXCEPT ![Offset(x, y)] = colour]
    ELSE buf

SetPixels(buf, x, y, colours) ==
    IF x + Len(colours) < WIDTH /\ y < HEIGHT
    THEN CopySlice(buf, Offset(x, y), colours)
    ELSE buf

SetRow(buf, y, colour) ==
    IF y < HEIGHT
    THEN FillSlice(buf, y * WIDTH, (y + 1) * WIDTH, colour)
    ELSE buf

FillRows(buf, start_y, height, colour) ==
    IF start_y + height <= HEIGHT
    THEN FillSlice(buf, start_y * WIDTH, (start_y + height) * WIDTH, colour)
    ELSE buf

\* copy_within(by.., 0)
MoveDown(buf, by) ==
    [i \in DOMAIN buf |-> IF i + by < SIZE THEN buf[i + by] ELSE buf[i]]

Scroll(buf, scroll_height, bg) ==
    FillRows(MoveDown(buf, scroll_height * WIDTH), HEIGHT - scroll_height, scroll_height, bg)

Fill(buf, colour) == [i \in DOMAIN buf |-> colour]

\* glyph: the rows of the font's bitmap, each a sequence of bits
GlyphRow(bits, fg, bg) == [c \in 1..FONT_WIDTH |-> IF bits[c] THEN fg ELSE bg]

DrawChar(buf, x, y, glyph, fg, bg) ==
    IF x + FONT_WIDTH <= WIDTH /\ y <= HEIGHT - FONT_HEIGHT
    THEN LET rows[r \in 0..FONT_HEIGHT] ==
                 IF r = 0 THEN buf
                 ELSE SetPixels(rows[r - 1], x, y + r - 1, GlyphRow(glyph[r], fg, bg))
         IN rows[FONT_HEIGHT]
    ELSE buf

DrawString(buf, x, y, glyphs, fg, bg) ==
    LET drawn[i \in 0..Len(glyphs)] ==
            IF i = 0 THEN buf
            ELSE DrawChar(drawn[i - 1], x + (i - 1) * FONT_WIDTH, y, glyphs[i], fg, bg)
    IN drawn[Len(glyphs)]
=============================================================================
