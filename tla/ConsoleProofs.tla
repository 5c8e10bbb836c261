---------------------------- MODULE ConsoleProofs ----------------------------
(***************************************************************************)
(* What the console keeps, for a screen of any size and every set of       *)
(* texts: its cursor stays on the screen, and the screen shows the text.   *)
(***************************************************************************)
EXTENDS Console, SequenceLemmas

\* what the text holds: the characters written, and the blanks of the console's own
Characters == STRING \cup {Space}

Glyphs == [ch : Characters, inverse : BOOLEAN]

Consoles ==
    [buffer : [RowIndex -> [ColumnIndex -> Characters]],
     x : ColumnIndex, y : RowIndex, visible : BOOLEAN, attached : BOOLEAN,
     cells : [RowIndex -> [ColumnIndex -> Glyphs]]]

\* The cell at (x, y) is the character there, inverse where the cursor is shown.
CellMatches(c, x, y) ==
    /\ c.cells[y][x].ch = c.buffer[y][x]
    /\ c.cells[y][x].inverse <=> (c.visible /\ c.x = x /\ c.y = y)

CellsMatch(c) == \A x \in 0..(COLUMNS - 2), y \in RowIndex : CellMatches(c, x, y)

\* An operation that turns c into d: a console still, and as well shown as before.
Keeps(c, d) ==
    /\ d \in Consoles
    /\ d.attached = c.attached
    /\ c.attached /\ CellsMatch(c) => CellsMatch(d)

-----------------------------------------------------------------------------
LEMMA Indices ==
    /\ 0 \in RowIndex /\ 0 \in ColumnIndex
    /\ ROWS - 1 \in RowIndex /\ COLUMNS - 1 \in ColumnIndex
    /\ 0..(COLUMNS - 2) \subseteq ColumnIndex
BY SizeAssumption DEF RowIndex, ColumnIndex

\* What a glyph at the cursor changes: one cell, when the font draws there.
LEMMA DrawFacts ==
    ASSUME NEW c \in Consoles, NEW ch \in Characters, NEW inv \in BOOLEAN
    PROVE  LET d == DrawGlyph(c, ch, inv) IN
           /\ d \in Consoles
           /\ d.buffer = c.buffer /\ d.x = c.x /\ d.y = c.y
           /\ d.visible = c.visible /\ d.attached = c.attached
           /\ \A y \in RowIndex, x \in 0..(COLUMNS - 2) :
                d.cells[y][x] = IF c.attached /\ y = c.y /\ x = c.x
                                THEN Glyph(ch, inv) ELSE c.cells[y][x]
<1> DEFINE d == DrawGlyph(c, ch, inv)
<1>0. Glyph(ch, inv) \in Glyphs
  BY DEF Glyph, Glyphs
<1>1. c.x \in ColumnIndex /\ c.y \in RowIndex
  BY DEF Consoles
<1>2. CASE Drawable(c, c.x)
  <2> DEFINE row  == [c.cells[c.y] EXCEPT ![c.x] = Glyph(ch, inv)]
             rows == [c.cells EXCEPT ![c.y] = row]
  <2>1. row \in [ColumnIndex -> Glyphs]
    BY <1>0, <1>1 DEF Consoles
  <2>2. /\ \A x \in ColumnIndex :
             row[x] = IF x = c.x THEN Glyph(ch, inv) ELSE c.cells[c.y][x]
    BY <1>1 DEF Consoles
  <2>3. d = [c EXCEPT !.cells = rows]
    BY <1>2 DEF DrawGlyph
  <2> HIDE DEF row
  <2>4. rows \in [RowIndex -> [ColumnIndex -> Glyphs]]
    BY <2>1 DEF Consoles
  <2>5. \A y \in RowIndex : rows[y] = IF y = c.y THEN row ELSE c.cells[y]
    BY DEF Consoles
  <2> HIDE DEF rows, d
  <2>6. /\ d \in Consoles
        /\ d.buffer = c.buffer /\ d.x = c.x /\ d.y = c.y
        /\ d.visible = c.visible /\ d.attached = c.attached
        /\ d.cells = rows
    BY <2>3, <2>4 DEF Consoles
  <2>7. c.attached
    BY <1>2 DEF Drawable
  <2>8. ASSUME NEW y \in RowIndex, NEW x \in 0..(COLUMNS - 2)
        PROVE  d.cells[y][x] = IF c.attached /\ y = c.y /\ x = c.x
                               THEN Glyph(ch, inv) ELSE c.cells[y][x]
    BY <2>2, <2>5, <2>6, <2>7, Indices
  <2> QED BY <2>6, <2>8 DEF d
<1>3. CASE ~Drawable(c, c.x)
  <2>1. d = c
    BY <1>3 DEF DrawGlyph
  <2>2. c.attached => c.x = COLUMNS - 1
    BY <1>1, <1>3, SizeAssumption
    DEF Drawable, GlyphFits, PixelsFit, RowIndex, ColumnIndex
  <2>3. \A x \in 0..(COLUMNS - 2) : x # COLUMNS - 1
    BY SizeAssumption
  <2> HIDE DEF d
  <2> QED BY <2>1, <2>2, <2>3 DEF d
<1> QED BY <1>2, <1>3

\* The character under the cursor is one.
LEMMA UnderIsCharacter ==
    ASSUME NEW c \in Consoles
    PROVE  Under(c) \in Characters
BY DEF Under, Consoles

\* A console with its cursor shown or not.
LEMMA WithVisible ==
    ASSUME NEW c \in Consoles, NEW b \in BOOLEAN
    PROVE  LET d == [c EXCEPT !.visible = b] IN
           /\ d \in Consoles
           /\ d.buffer = c.buffer /\ d.x = c.x /\ d.y = c.y
           /\ d.visible = b /\ d.attached = c.attached /\ d.cells = c.cells
BY DEF Consoles

\* Drawing the character under the cursor, and noting how: the screen is right.
LEMMA RedrawKeeps ==
    ASSUME NEW c \in Consoles, NEW b \in BOOLEAN
    PROVE  LET d == [DrawGlyph(c, Under(c), b) EXCEPT !.visible = b] IN
           /\ Keeps(c, d)
           /\ d.buffer = c.buffer /\ d.x = c.x /\ d.y = c.y /\ d.visible = b
<1> DEFINE e == DrawGlyph(c, Under(c), b)
           d == [e EXCEPT !.visible = b]
<1>1. /\ e \in Consoles
      /\ e.buffer = c.buffer /\ e.x = c.x /\ e.y = c.y /\ e.attached = c.attached
      /\ \A y \in RowIndex, x \in 0..(COLUMNS - 2) :
           e.cells[y][x] = IF c.attached /\ y = c.y /\ x = c.x
                           THEN Glyph(Under(c), b) ELSE c.cells[y][x]
  BY DrawFacts, UnderIsCharacter
<1> HIDE DEF e
<1>2. /\ d \in Consoles
      /\ d.buffer = c.buffer /\ d.x = c.x /\ d.y = c.y /\ d.visible = b
      /\ d.attached = c.attached /\ d.cells = e.cells
  BY <1>1, WithVisible
<1> HIDE DEF d
<1>3. ASSUME c.attached, CellsMatch(c),
             NEW x \in 0..(COLUMNS - 2), NEW y \in RowIndex
      PROVE  CellMatches(d, x, y)
  <2>1. CellMatches(c, x, y)
    BY <1>3 DEF CellsMatch
  <2>2. CASE y = c.y /\ x = c.x
    <3>1. d.cells[y][x] = Glyph(Under(c), b)
      BY <1>1, <1>2, <1>3, <2>2
    <3>2. d.cells[y][x].ch = c.buffer[y][x] /\ d.cells[y][x].inverse = b
      BY <3>1, <2>2 DEF Glyph, Under
    <3> QED BY <3>2, <1>2, <2>2 DEF CellMatches
  <2>3. CASE ~(y = c.y /\ x = c.x)
    <3>1. d.cells[y][x] = c.cells[y][x]
      BY <1>1, <1>2, <2>3
    <3> QED BY <3>1, <1>2, <2>1, <2>3 DEF CellMatches
  <2> QED BY <2>2, <2>3
<1> QED BY <1>2, <1>3 DEF d, e, Keeps, CellsMatch

LEMMA KeepsItself ==
    ASSUME NEW c \in Consoles
    PROVE  Keeps(c, c)
BY DEF Keeps

LEMMA KeepsOn ==
    ASSUME NEW c \in Consoles, NEW d, NEW e, Keeps(c, d), Keeps(d, e)
    PROVE  Keeps(c, e)
BY DEF Keeps

\* The cursor hidden: where it was, and the screen as right as it was.
LEMMA HideKeeps ==
    ASSUME NEW c \in Consoles
    PROVE  LET d == HideCursor(c) IN
           /\ Keeps(c, d)
           /\ d.buffer = c.buffer /\ d.x = c.x /\ d.y = c.y /\ d.visible = FALSE
<1>1. CASE c.visible
  BY <1>1, RedrawKeeps DEF HideCursor
<1>2. CASE ~c.visible
  <2>1. HideCursor(c) = c /\ c.visible = FALSE
    BY <1>2 DEF HideCursor, Consoles
  <2> QED BY <2>1, KeepsItself
<1> QED BY <1>1, <1>2

LEMMA ShowKeeps ==
    ASSUME NEW c \in Consoles
    PROVE  Keeps(c, ShowCursor(c))
<1>1. CASE c.visible
  BY <1>1, KeepsItself DEF ShowCursor
<1>2. CASE ~c.visible
  BY <1>2, RedrawKeeps DEF ShowCursor
<1> QED BY <1>1, <1>2

\* A hidden cursor may go anywhere on the screen.
LEMMA MoveKeeps ==
    ASSUME NEW c \in Consoles, ~c.visible,
           NEW x \in ColumnIndex, NEW y \in RowIndex
    PROVE  /\ Keeps(c, [c EXCEPT !.x = x])
           /\ Keeps(c, [c EXCEPT !.x = x, !.y = y])
           /\ Keeps(c, [c EXCEPT !.y = y, !.x = x])
<1>1. ASSUME NEW d \in Consoles, d.buffer = c.buffer, d.cells = c.cells,
             d.visible = c.visible, d.attached = c.attached
      PROVE  Keeps(c, d)
  BY <1>1 DEF Keeps, CellsMatch, CellMatches
<1>2. Keeps(c, [c EXCEPT !.x = x])
  <2> DEFINE d == [c EXCEPT !.x = x]
  <2>1. /\ d \in Consoles /\ d.buffer = c.buffer /\ d.cells = c.cells
        /\ d.visible = c.visible /\ d.attached = c.attached
    BY DEF Consoles
  <2> HIDE DEF d
  <2> QED BY <2>1, <1>1 DEF d
<1>3. Keeps(c, [c EXCEPT !.x = x, !.y = y])
  <2> DEFINE d == [c EXCEPT !.x = x, !.y = y]
  <2>1. /\ d \in Consoles /\ d.buffer = c.buffer /\ d.cells = c.cells
        /\ d.visible = c.visible /\ d.attached = c.attached
    BY DEF Consoles
  <2> HIDE DEF d
  <2> QED BY <2>1, <1>1 DEF d
<1>4. Keeps(c, [c EXCEPT !.y = y, !.x = x])
  <2> DEFINE d == [c EXCEPT !.y = y, !.x = x]
  <2>1. /\ d \in Consoles /\ d.buffer = c.buffer /\ d.cells = c.cells
        /\ d.visible = c.visible /\ d.attached = c.attached
    BY DEF Consoles
  <2> HIDE DEF d
  <2> QED BY <2>1, <1>1 DEF d
<1> QED BY <1>2, <1>3, <1>4

-----------------------------------------------------------------------------
LEMMA Blanks ==
    /\ BlankRow \in [ColumnIndex -> Characters]
    /\ \A x \in ColumnIndex : BlankRow[x] = Space
    /\ BlankBuffer \in [RowIndex -> [ColumnIndex -> Characters]]
    /\ \A y \in RowIndex : BlankBuffer[y] = BlankRow
    /\ BlankCells \in [RowIndex -> [ColumnIndex -> Glyphs]]
    /\ \A y \in RowIndex, x \in ColumnIndex :
         BlankCells[y][x].ch = Space /\ BlankCells[y][x].inverse = FALSE
<1>0. Space \in Characters
  BY DEF Characters
<1>1. Glyph(Space, FALSE) \in Glyphs
  BY <1>0 DEF Glyph, Glyphs
<1>2. Glyph(Space, FALSE).ch = Space /\ Glyph(Space, FALSE).inverse = FALSE
  BY DEF Glyph
<1>3. /\ BlankRow \in [ColumnIndex -> Characters]
      /\ \A x \in ColumnIndex : BlankRow[x] = Space
  BY <1>0 DEF BlankRow
<1>4. /\ BlankBuffer \in [RowIndex -> [ColumnIndex -> Characters]]
      /\ \A y \in RowIndex : BlankBuffer[y] = BlankRow
  BY <1>3 DEF BlankBuffer
<1>5. /\ BlankCells \in [RowIndex -> [ColumnIndex -> Glyphs]]
      /\ \A y \in RowIndex, x \in ColumnIndex :
           BlankCells[y][x] = Glyph(Space, FALSE)
  BY <1>1 DEF BlankCells
<1> QED BY <1>2, <1>3, <1>4, <1>5

\* The text and the screen scroll together.
LEMMA ScrollKeeps ==
    ASSUME NEW c \in Consoles, ~c.visible
    PROVE  Keeps(c, Scroll(c))
<1> DEFINE text  == ScrollUp(c.buffer, BlankRow)
           cells == IF c.attached THEN ScrollUp(c.cells, BlankCells[0]) ELSE c.cells
           d     == Scroll(c)
<1>1. /\ c.buffer \in [RowIndex -> [ColumnIndex -> Characters]]
      /\ c.cells \in [RowIndex -> [ColumnIndex -> Glyphs]]
      /\ \A y \in RowIndex : y # ROWS - 1 => y + 1 \in RowIndex
  BY SizeAssumption DEF Consoles, RowIndex
<1>2. /\ text \in [RowIndex -> [ColumnIndex -> Characters]]
      /\ \A y \in RowIndex : text[y] = IF y = ROWS - 1 THEN BlankRow ELSE c.buffer[y + 1]
  <2>1. BlankRow \in [ColumnIndex -> Characters]
    BY Blanks
  <2> DEFINE Rows == [ColumnIndex -> Characters]
  <2>2. c.buffer \in [RowIndex -> Rows] /\ BlankRow \in Rows
    BY <1>1, <2>1
  <2> HIDE DEF Rows
  <2>3. /\ ScrollUp(c.buffer, BlankRow) \in [RowIndex -> Rows]
        /\ \A y \in RowIndex :
             ScrollUp(c.buffer, BlankRow)[y] =
                IF y = ROWS - 1 THEN BlankRow ELSE c.buffer[y + 1]
    BY <2>2, <1>1 DEF ScrollUp
  <2> QED BY <2>3 DEF Rows
<1>3. BlankCells[0] \in [ColumnIndex -> Glyphs]
  BY Blanks, Indices
<1>4. /\ cells \in [RowIndex -> [ColumnIndex -> Glyphs]]
      /\ c.attached => \A y \in RowIndex :
           cells[y] = IF y = ROWS - 1 THEN BlankCells[0] ELSE c.cells[y + 1]
  <2> DEFINE Rows == [ColumnIndex -> Glyphs]
  <2>2. c.cells \in [RowIndex -> Rows] /\ BlankCells[0] \in Rows
    BY <1>1, <1>3
  <2> HIDE DEF Rows
  <2>3. /\ ScrollUp(c.cells, BlankCells[0]) \in [RowIndex -> Rows]
        /\ \A y \in RowIndex :
             ScrollUp(c.cells, BlankCells[0])[y] =
                IF y = ROWS - 1 THEN BlankCells[0] ELSE c.cells[y + 1]
    BY <2>2, <1>1 DEF ScrollUp
  <2> QED BY <2>2, <2>3 DEF Rows
<1>5. d = [c EXCEPT !.buffer = text, !.x = 0, !.y = ROWS - 1, !.cells = cells]
  BY DEF Scroll
<1> HIDE DEF text, cells, d
<1>6. /\ d \in Consoles
      /\ d.buffer = text /\ d.cells = cells
      /\ d.visible = c.visible /\ d.attached = c.attached
  BY <1>2, <1>4, <1>5, Indices DEF Consoles
<1>7. ASSUME c.attached, CellsMatch(c),
             NEW x \in 0..(COLUMNS - 2), NEW y \in RowIndex
      PROVE  CellMatches(d, x, y)
  <2>1. x \in ColumnIndex
    BY Indices
  <2>2. CASE y = ROWS - 1
    <3>1. d.buffer[y][x] = Space /\ d.cells[y][x] = BlankCells[0][x]
      BY <1>2, <1>4, <1>6, <1>7, <2>1, <2>2, Blanks
    <3>2. d.cells[y][x].ch = Space /\ d.cells[y][x].inverse = FALSE
      BY <3>1, <2>1, Blanks, Indices
    <3> QED BY <3>1, <3>2, <1>6 DEF CellMatches
  <2>3. CASE y # ROWS - 1
    <3>1. y + 1 \in RowIndex
      BY <2>3, SizeAssumption DEF RowIndex
    <3>2. CellMatches(c, x, y + 1)
      BY <1>7, <3>1 DEF CellsMatch
    <3>3. d.buffer[y][x] = c.buffer[y + 1][x] /\ d.cells[y][x] = c.cells[y + 1][x]
      BY <1>2, <1>4, <1>6, <1>7, <2>3
    <3> QED BY <3>2, <3>3, <1>6 DEF CellMatches
  <2> QED BY <2>2, <2>3
<1> QED BY <1>6, <1>7 DEF d, Keeps, CellsMatch

\* Once cleared, the screen shows the text, whatever it showed before.
LEMMA ClearShows ==
    ASSUME NEW c \in Consoles, ~c.visible
    PROVE  /\ Clear(c) \in Consoles
           /\ Clear(c).attached = c.attached
           /\ c.attached => CellsMatch(Clear(c))
<1> DEFINE cells == IF c.attached THEN BlankCells ELSE c.cells
           d     == Clear(c)
<1>1. /\ cells \in [RowIndex -> [ColumnIndex -> Glyphs]]
      /\ c.attached => cells = BlankCells
  BY Blanks DEF Consoles
<1>2. d = [c EXCEPT !.buffer = BlankBuffer, !.x = 0, !.y = 0, !.cells = cells]
  BY DEF Clear
<1> HIDE DEF cells, d
<1>3. /\ d \in Consoles
      /\ d.buffer = BlankBuffer /\ d.cells = cells
      /\ d.visible = c.visible /\ d.attached = c.attached
  BY <1>1, <1>2, Blanks, Indices DEF Consoles
<1>4. ASSUME c.attached, NEW x \in 0..(COLUMNS - 2), NEW y \in RowIndex
      PROVE  CellMatches(d, x, y)
  <2>1. x \in ColumnIndex
    BY Indices
  <2>2. d.buffer[y][x] = Space
    BY <1>3, <2>1, Blanks
  <2>3. d.cells[y][x].ch = Space /\ d.cells[y][x].inverse = FALSE
    BY <1>1, <1>3, <1>4, <2>1, Blanks
  <2> QED BY <2>2, <2>3, <1>3 DEF CellMatches
<1> QED BY <1>3, <1>4 DEF d, CellsMatch

-----------------------------------------------------------------------------
(* the arms of put_char *)

LEMMA BellKeeps ==
    ASSUME NEW c \in Consoles
    PROVE  Keeps(c, PutBell(c))
BY RedrawKeeps DEF PutBell

LEMMA BackspaceKeeps ==
    ASSUME NEW c \in Consoles
    PROVE  Keeps(c, PutBackspace(c))
<1> DEFINE h == HideCursor(c)
<1>1. Keeps(c, h) /\ h.x = c.x /\ h.visible = FALSE /\ h \in Consoles
  BY HideKeeps DEF Keeps
<1> HIDE DEF h
<1>2. CASE c.x > 0
  <2>1. h.x - 1 \in ColumnIndex
    BY <1>1, <1>2, SizeAssumption DEF Consoles, ColumnIndex
  <2>2. Keeps(h, [h EXCEPT !.x = h.x - 1])
    BY <1>1, <2>1, MoveKeeps, Indices
  <2>3. Keeps(c, [h EXCEPT !.x = h.x - 1])
    BY <1>1, <2>2, KeepsOn
  <2> QED BY <1>2, <2>3 DEF PutBackspace, h
<1>3. CASE ~(c.x > 0)
  BY <1>3, KeepsItself DEF PutBackspace
<1> QED BY <1>2, <1>3

LEMMA ReturnKeeps ==
    ASSUME NEW c \in Consoles
    PROVE  Keeps(c, PutReturn(c))
<1> DEFINE h == HideCursor(c)
<1>1. Keeps(c, h) /\ h.visible = FALSE /\ h \in Consoles
  BY HideKeeps DEF Keeps
<1> HIDE DEF h
<1>2. Keeps(h, [h EXCEPT !.x = 0])
  BY <1>1, Indices, MoveKeeps
<1>3. Keeps(c, [h EXCEPT !.x = 0])
  BY <1>1, <1>2, KeepsOn
<1> QED BY <1>3 DEF PutReturn, h

LEMMA FormFeedShows ==
    ASSUME NEW c \in Consoles
    PROVE  /\ Keeps(c, PutFormFeed(c))
           /\ c.attached => CellsMatch(PutFormFeed(c))
<1> DEFINE h == HideCursor(c)
<1>1. Keeps(c, h) /\ h.visible = FALSE /\ h \in Consoles /\ h.attached = c.attached
  BY HideKeeps DEF Keeps
<1> HIDE DEF h
<1>2. /\ Clear(h) \in Consoles /\ Clear(h).attached = c.attached
      /\ c.attached => CellsMatch(Clear(h))
  BY <1>1, ClearShows
<1>3. PutFormFeed(c) = Clear(h)
  BY DEF PutFormFeed, h
<1> QED BY <1>2, <1>3 DEF Keeps

LEMMA LineFeedKeeps ==
    ASSUME NEW c \in Consoles
    PROVE  Keeps(c, PutLineFeed(c))
<1> DEFINE h == HideCursor(c)
<1>1. Keeps(c, h) /\ h.visible = FALSE /\ h \in Consoles
  BY HideKeeps DEF Keeps
<1> HIDE DEF h
<1>2. CASE h.y < ROWS - 1
  <2>1. h.y + 1 \in RowIndex
    BY <1>1, <1>2, SizeAssumption DEF Consoles, RowIndex
  <2>2. Keeps(h, [h EXCEPT !.y = h.y + 1, !.x = 0])
    BY <1>1, <2>1, Indices, MoveKeeps
  <2>3. PutLineFeed(c) = [h EXCEPT !.y = h.y + 1, !.x = 0]
    BY <1>2 DEF PutLineFeed, h
  <2> QED BY <1>1, <2>2, <2>3, KeepsOn
<1>3. CASE ~(h.y < ROWS - 1)
  <2>1. PutLineFeed(c) = Scroll(h)
    BY <1>3 DEF PutLineFeed, h
  <2>2. Keeps(h, Scroll(h))
    BY <1>1, ScrollKeeps
  <2> QED BY <1>1, <2>1, <2>2, KeepsOn
<1> QED BY <1>2, <1>3

LEMMA AdvanceKeeps ==
    ASSUME NEW c \in Consoles, ~c.visible
    PROVE  Keeps(c, Advance(c))
<1>1. c.x \in ColumnIndex /\ c.y \in RowIndex
  BY DEF Consoles
<1>2. CASE c.x + 1 < COLUMNS
  <2>1. c.x + 1 \in ColumnIndex
    BY <1>1, <1>2, SizeAssumption DEF ColumnIndex
  <2> QED BY <1>2, <2>1, MoveKeeps, Indices DEF Advance
<1>3. CASE ~(c.x + 1 < COLUMNS) /\ c.y + 1 < ROWS
  <2>1. c.y + 1 \in RowIndex
    BY <1>1, <1>3, SizeAssumption DEF RowIndex
  <2>2. Advance(c) = [c EXCEPT !.x = 0, !.y = c.y + 1]
    BY <1>3 DEF Advance
  <2> QED BY <2>1, <2>2, MoveKeeps, Indices
<1>4. CASE ~(c.x + 1 < COLUMNS) /\ ~(c.y + 1 < ROWS)
  BY <1>4, ScrollKeeps DEF Advance
<1> QED BY <1>2, <1>3, <1>4

\* The character goes into the text and onto the screen.
LEMMA PrintableKeeps ==
    ASSUME NEW c \in Consoles, NEW ch \in Characters
    PROVE  Keeps(c, PutPrintable(c, ch))
<1> DEFINE row  == [c.buffer[c.y] EXCEPT ![c.x] = ch]
           text == [c.buffer EXCEPT ![c.y] = row]
           w    == [c EXCEPT !.buffer[c.y][c.x] = ch]
           e    == DrawGlyph(w, ch, FALSE)
           d    == [e EXCEPT !.visible = FALSE]
<1>1. c.x \in ColumnIndex /\ c.y \in RowIndex
  BY DEF Consoles
<1>2. /\ row \in [ColumnIndex -> Characters]
      /\ \A x \in ColumnIndex : row[x] = IF x = c.x THEN ch ELSE c.buffer[c.y][x]
  BY <1>1 DEF Consoles
<1>3. w = [c EXCEPT !.buffer = text]
  OBVIOUS
<1> HIDE DEF row
<1>4. /\ text \in [RowIndex -> [ColumnIndex -> Characters]]
      /\ \A y \in RowIndex : text[y] = IF y = c.y THEN row ELSE c.buffer[y]
  BY <1>2 DEF Consoles
<1> HIDE DEF text, w
<1>5. /\ w \in Consoles /\ w.buffer = text /\ w.cells = c.cells
      /\ w.x = c.x /\ w.y = c.y /\ w.attached = c.attached
  BY <1>3, <1>4 DEF Consoles
<1>6. /\ e \in Consoles
      /\ e.buffer = w.buffer /\ e.x = w.x /\ e.y = w.y /\ e.attached = w.attached
      /\ \A y \in RowIndex, x \in 0..(COLUMNS - 2) :
           e.cells[y][x] = IF w.attached /\ y = w.y /\ x = w.x
                           THEN Glyph(ch, FALSE) ELSE w.cells[y][x]
  BY <1>5, DrawFacts
<1> HIDE DEF e
<1>7. /\ d \in Consoles /\ d.buffer = text /\ d.cells = e.cells
      /\ d.visible = FALSE /\ d.attached = c.attached
  BY <1>5, <1>6, WithVisible
<1> HIDE DEF d
<1>8. ASSUME c.attached, CellsMatch(c),
             NEW x \in 0..(COLUMNS - 2), NEW y \in RowIndex
      PROVE  CellMatches(d, x, y)
  <2>1. CellMatches(c, x, y)
    BY <1>8 DEF CellsMatch
  <2>2. x \in ColumnIndex
    BY Indices
  <2>3. CASE y = c.y /\ x = c.x
    <3>0. d.buffer[y][x] = ch
      BY <1>2, <1>4, <1>7, <2>2, <2>3
    <3>1. d.cells[y][x] = Glyph(ch, FALSE)
      BY <1>5, <1>6, <1>7, <1>8, <2>3
    <3>2. d.cells[y][x].ch = ch /\ d.cells[y][x].inverse = FALSE
      BY <3>1 DEF Glyph
    <3> QED BY <3>0, <3>2, <1>7 DEF CellMatches
  <2>4. CASE ~(y = c.y /\ x = c.x)
    <3>1. d.cells[y][x] = c.cells[y][x]
      BY <1>5, <1>6, <1>7, <2>4
    <3>2. d.buffer[y][x] = c.buffer[y][x]
      BY <1>2, <1>4, <1>7, <2>2, <2>4
    <3>3. ~(c.x = x /\ c.y = y)
      BY <2>4
    <3> QED BY <3>1, <3>2, <3>3, <1>7, <2>1 DEF CellMatches
  <2> QED BY <2>3, <2>4
<1>9. Keeps(c, d)
  BY <1>7, <1>8 DEF Keeps, CellsMatch
<1>10. Keeps(d, Advance(d))
  BY <1>7, AdvanceKeeps
<1>11. PutPrintable(c, ch) = Advance(d)
  BY DEF PutPrintable, d, e, w
<1> QED BY <1>9, <1>10, <1>11, KeepsOn

LEMMA NextTabInNat ==
    ASSUME NEW c \in Consoles
    PROVE  NextTab(c) \in Nat
<1>1. c.x \in Nat
  BY SizeAssumption DEF Consoles, ColumnIndex
<1>2. (c.x \div TAB_SIZE) \in Nat
  BY <1>1, SizeAssumption
<1> DEFINE tabs == c.x \div TAB_SIZE
<1> HIDE DEF tabs
<1>3. (tabs + 1) * TAB_SIZE \in Nat
  BY <1>2, SizeAssumption DEF tabs
<1> QED BY <1>3 DEF NextTab, tabs

\* Blanks in the text where there are blanks on the screen.
LEMMA BlankKeeps ==
    ASSUME NEW c \in Consoles, ~c.visible, NEW stop \in ColumnIndex
    PROVE  Keeps(c, BlankTo(c, stop))
<1> DEFINE Blanked(x) == c.x <= x /\ x < stop
           row   == [x \in ColumnIndex |->
                       IF Blanked(x) THEN Space ELSE c.buffer[c.y][x]]
           shown == [x \in ColumnIndex |->
                       IF Blanked(x) /\ Drawable(c, x)
                       THEN Glyph(Space, FALSE) ELSE c.cells[c.y][x]]
           text  == [c.buffer EXCEPT ![c.y] = row]
           cells == [c.cells EXCEPT ![c.y] = shown]
           d     == BlankTo(c, stop)
<1>1. c.y \in RowIndex
  BY DEF Consoles
<1>2. /\ row \in [ColumnIndex -> Characters]
      /\ \A x \in ColumnIndex :
           row[x] = IF Blanked(x) THEN Space ELSE c.buffer[c.y][x]
  BY <1>1 DEF Consoles, Characters
<1>3. Glyph(Space, FALSE) \in Glyphs
  BY DEF Glyph, Glyphs, Characters
<1>4. /\ shown \in [ColumnIndex -> Glyphs]
      /\ \A x \in ColumnIndex :
           shown[x] = IF Blanked(x) /\ Drawable(c, x)
                      THEN Glyph(Space, FALSE) ELSE c.cells[c.y][x]
  BY <1>1, <1>3 DEF Consoles
<1>5. d = [c EXCEPT !.buffer = text, !.cells = cells, !.x = stop]
  BY DEF BlankTo
<1> HIDE DEF row, shown
<1>6. /\ text \in [RowIndex -> [ColumnIndex -> Characters]]
      /\ \A y \in RowIndex : text[y] = IF y = c.y THEN row ELSE c.buffer[y]
  BY <1>2 DEF Consoles
<1>7. /\ cells \in [RowIndex -> [ColumnIndex -> Glyphs]]
      /\ \A y \in RowIndex : cells[y] = IF y = c.y THEN shown ELSE c.cells[y]
  BY <1>4 DEF Consoles
<1> HIDE DEF text, cells, d
<1>8. /\ d \in Consoles /\ d.buffer = text /\ d.cells = cells
      /\ d.visible = c.visible /\ d.attached = c.attached
  BY <1>5, <1>6, <1>7 DEF Consoles
<1>9. ASSUME c.attached, NEW x \in 0..(COLUMNS - 2)
      PROVE  Drawable(c, x)
  BY <1>1, <1>9, SizeAssumption DEF Drawable, GlyphFits, PixelsFit, RowIndex
<1>10. ASSUME c.attached, CellsMatch(c),
              NEW x \in 0..(COLUMNS - 2), NEW y \in RowIndex
       PROVE  CellMatches(d, x, y)
  <2>1. CellMatches(c, x, y)
    BY <1>10 DEF CellsMatch
  <2>2. x \in ColumnIndex
    BY Indices
  <2>3. CASE y = c.y /\ Blanked(x)
    <3>1. d.buffer[y][x] = Space
      BY <1>2, <1>6, <1>8, <2>2, <2>3
    <3>2. d.cells[y][x] = Glyph(Space, FALSE)
      BY <1>4, <1>7, <1>8, <1>9, <1>10, <2>2, <2>3
    <3>3. d.cells[y][x].ch = Space /\ d.cells[y][x].inverse = FALSE
      BY <3>2 DEF Glyph
    <3> QED BY <3>1, <3>3, <1>8 DEF CellMatches
  <2>4. CASE ~(y = c.y /\ Blanked(x))
    <3> HIDE DEF Blanked
    <3>1. d.buffer[y][x] = c.buffer[y][x]
      BY <1>2, <1>6, <1>8, <2>2, <2>4
    <3>2. d.cells[y][x] = c.cells[y][x]
      BY <1>4, <1>7, <1>8, <2>2, <2>4
    <3> QED BY <3>1, <3>2, <1>8, <2>1 DEF CellMatches
  <2> QED BY <2>3, <2>4
<1> QED BY <1>8, <1>10 DEF d, Keeps, CellsMatch

LEMMA TabKeeps ==
    ASSUME NEW c \in Consoles
    PROVE  Keeps(c, PutTab(c))
<1> DEFINE h == HideCursor(c)
           stop == IF NextTab(c) < COLUMNS THEN NextTab(c) ELSE COLUMNS - 1
<1>1. Keeps(c, h) /\ h.visible = FALSE /\ h \in Consoles
  BY HideKeeps DEF Keeps
<1>2. stop \in ColumnIndex
  BY NextTabInNat, SizeAssumption DEF ColumnIndex
<1>3. PutTab(c) = BlankTo(h, stop)
  BY DEF PutTab
<1> HIDE DEF h, stop
<1>4. Keeps(h, BlankTo(h, stop))
  BY <1>1, <1>2, BlankKeeps
<1> QED BY <1>1, <1>3, <1>4, KeepsOn

-----------------------------------------------------------------------------
LEMMA PutCharKeeps ==
    ASSUME NEW c \in Consoles, NEW ch \in STRING
    PROVE  /\ Keeps(c, PutChar(c, ch))
           /\ c.attached /\ ch = "FF" => CellsMatch(PutChar(c, ch))
<1>1. CASE ch = "BELL"
  BY <1>1, BellKeeps DEF PutChar
<1>2. CASE ch \in {"BS", "DEL"}
  BY <1>2, BackspaceKeeps DEF PutChar
<1>3. CASE ch = "TAB"
  BY <1>3, TabKeeps DEF PutChar
<1>4. CASE ch = "CR"
  BY <1>4, ReturnKeeps DEF PutChar
<1>5. CASE ch = "FF"
  BY <1>5, FormFeedShows DEF PutChar
<1>6. CASE ch = "LF"
  BY <1>6, LineFeedKeeps DEF PutChar
<1>7. CASE ~(ch \in {"BELL", "BS", "DEL", "TAB", "CR", "FF", "LF"})
  <2>1. PutChar(c, ch) = PutPrintable(c, ch)
    BY <1>7 DEF PutChar
  <2>2. ch \in Characters
    BY DEF Characters
  <2> QED BY <1>7, <2>1, <2>2, PrintableKeeps
<1> QED BY <1>1, <1>2, <1>3, <1>4, <1>5, <1>6, <1>7

\* The consoles after each character of a string.
IsPut(put, c, s, n) ==
    put = [i \in 0..n |-> IF i = 0 THEN c ELSE PutChar(put[i - 1], s[i])]

\* There are such consoles: one follows from the one before.
LEMMA PutExists ==
    ASSUME NEW c, NEW s, NEW n \in Nat
    PROVE  \E put : IsPut(put, c, s, n)
<1> DEFINE S == {m \in Nat : \E put : IsPut(put, c, s, m)}
<1>1. 0 \in S
  <2> DEFINE put == [i \in 0..0 |-> c]
  <2>1. put = [i \in 0..0 |-> IF i = 0 THEN c ELSE PutChar(put[i - 1], s[i])]
    OBVIOUS
  <2> QED BY <2>1 DEF IsPut
<1>2. ASSUME NEW m \in S
      PROVE  m + 1 \in S
  <2>1. PICK f : IsPut(f, c, s, m)
    OBVIOUS
  <2>2. \A i \in 0..m : f[i] = IF i = 0 THEN c ELSE PutChar(f[i - 1], s[i])
    BY <2>1 DEF IsPut
  <2> DEFINE g == [i \in 0..(m + 1) |->
                     IF i <= m THEN f[i] ELSE PutChar(f[m], s[i])]
  <2>3. ASSUME NEW i \in 0..(m + 1)
        PROVE  g[i] = IF i = 0 THEN c ELSE PutChar(g[i - 1], s[i])
    <3>1. CASE i = 0
      BY <3>1, <2>2
    <3>2. CASE i # 0 /\ i <= m
      <4>1. g[i] = f[i] /\ g[i - 1] = f[i - 1]
        BY <3>2
      <4>2. f[i] = PutChar(f[i - 1], s[i])
        BY <3>2, <2>2
      <4> QED BY <4>1, <4>2, <3>2
    <3>3. CASE ~(i <= m)
      <4>1. i = m + 1
        BY <3>3
      <4>2. g[i] = PutChar(f[m], s[i]) /\ g[i - 1] = f[m] /\ i # 0
        BY <3>3, <4>1
      <4> QED BY <4>2
    <3> QED BY <3>1, <3>2, <3>3
  <2>4. g = [i \in 0..(m + 1) |-> IF i = 0 THEN c ELSE PutChar(g[i - 1], s[i])]
    <3>1. g = [i \in 0..(m + 1) |-> g[i]]
      OBVIOUS
    <3> HIDE DEF g
    <3> QED BY <3>1, <2>3
  <2>5. IsPut(g, c, s, m + 1)
    BY <2>4 DEF IsPut
  <2> QED BY <2>5
<1> HIDE DEF S
<1>3. S = Nat
  <2>1. S \in SUBSET Nat
    BY DEF S
  <2> QED BY <1>1, <1>2, <2>1, Induction
<1> QED BY <1>3 DEF S

\* A string keeps the screen as right as it was, and a form feed in it makes it so.
LEMMA WriteStrKeeps ==
    ASSUME NEW c \in Consoles, NEW s \in Seq(STRING)
    PROVE  /\ Keeps(c, WriteStr(c, s))
           /\ c.attached /\ Drawn(s) => CellsMatch(WriteStr(c, s))
<1>0. Len(s) \in Nat /\ DOMAIN s = 1..Len(s) /\ \A i \in 1..Len(s) : s[i] \in STRING
  BY LenProperties, ElementOfSeq
<1> DEFINE put == CHOOSE f : IsPut(f, c, s, Len(s))
<1>1. IsPut(put, c, s, Len(s))
  BY <1>0, PutExists
<1>2. WriteStr(c, s) = ShowCursor(put[Len(s)])
  BY DEF WriteStr, IsPut
<1> HIDE DEF put
<1>3. \A i \in 0..Len(s) : put[i] = IF i = 0 THEN c ELSE PutChar(put[i - 1], s[i])
  BY <1>1 DEF IsPut
<1> DEFINE Right(i) == /\ Keeps(c, put[i])
                       /\ c.attached /\ (\E j \in 1..i : s[j] = "FF")
                            => CellsMatch(put[i])
           S == {i \in Nat : i <= Len(s) => Right(i)}
<1>4. 0 \in S
  BY <1>0, <1>3, KeepsItself
<1>5. ASSUME NEW i \in S
      PROVE  i + 1 \in S
  <2> SUFFICES ASSUME i + 1 <= Len(s)
               PROVE  Right(i + 1)
    OBVIOUS
  <2>1. Right(i)
    BY <1>0
  <2>2. put[i] \in Consoles /\ put[i].attached = c.attached
    BY <2>1 DEF Keeps
  <2>3. s[i + 1] \in STRING
    BY <1>0
  <2>4. put[i + 1] = PutChar(put[i], s[i + 1])
    <3>1. i + 1 \in 0..Len(s) /\ i + 1 # 0 /\ (i + 1) - 1 = i
      BY <1>0
    <3> QED BY <1>3, <3>1
  <2>5. /\ Keeps(put[i], put[i + 1])
        /\ c.attached /\ s[i + 1] = "FF" => CellsMatch(put[i + 1])
    BY <2>2, <2>3, <2>4, PutCharKeeps
  <2>6. Keeps(c, put[i + 1])
    BY <2>1, <2>2, <2>5, KeepsOn
  <2>7. ASSUME c.attached, NEW j \in 1..(i + 1), s[j] = "FF"
        PROVE  CellsMatch(put[i + 1])
    <3>1. CASE j = i + 1
      BY <2>5, <2>7, <3>1
    <3>2. CASE j # i + 1
      <4>1. j \in 1..i
        BY <3>2
      <4>2. CellsMatch(put[i])
        BY <2>1, <2>7, <4>1
      <4> QED BY <2>2, <2>5, <2>7, <4>2 DEF Keeps
    <3> QED BY <3>1, <3>2
  <2> QED BY <2>6, <2>7
<1>6. Right(Len(s))
  <2>1. S \in SUBSET Nat
    OBVIOUS
  <2> HIDE DEF S
  <2>2. S = Nat
    BY <1>4, <1>5, <2>1, Induction
  <2> QED BY <1>0, <2>2 DEF S
<1> DEFINE last == put[Len(s)]
<1> HIDE DEF last
<1>7. /\ Keeps(c, last) /\ last \in Consoles /\ last.attached = c.attached
      /\ c.attached /\ Drawn(s) => CellsMatch(last)
  BY <1>0, <1>6 DEF last, Keeps, Drawn
<1>8. Keeps(last, ShowCursor(last))
  BY <1>7, ShowKeeps
<1> QED BY <1>2, <1>7, <1>8, KeepsOn DEF last, Keeps

-----------------------------------------------------------------------------
\* Unless text was written while the framebuffer was away, its cells match the
\* text, whether or not the console owns it now.
ScreenInv ==
    /\ con \in Consoles
    /\ undrawn \in BOOLEAN
    /\ ~undrawn => CellsMatch(con)

LEMMA InitScreen == Init => ScreenInv
<1> SUFFICES ASSUME Init
             PROVE  ScreenInv
  OBVIOUS
<1>1. /\ con \in Consoles /\ con.buffer = BlankBuffer /\ con.cells = BlankCells
      /\ con.visible = FALSE
  BY Indices, Blanks DEF Init, NewConsole, Consoles
<1>2. ASSUME NEW x \in 0..(COLUMNS - 2), NEW y \in RowIndex
      PROVE  CellMatches(con, x, y)
  <2>1. x \in ColumnIndex
    BY Indices
  <2>2. con.buffer[y][x] = Space
    BY <1>1, <2>1, Blanks
  <2>3. con.cells[y][x].ch = Space /\ con.cells[y][x].inverse = FALSE
    BY <1>1, <2>1, Blanks
  <2> QED BY <1>1, <2>2, <2>3 DEF CellMatches
<1> QED BY <1>1, <1>2 DEF Init, ScreenInv, CellsMatch

LEMMA StepScreen == ScreenInv /\ [Next]_vars => ScreenInv'
<1> SUFFICES ASSUME ScreenInv, [Next]_vars
             PROVE  ScreenInv'
  OBVIOUS
<1> USE DEF ScreenInv
<1>1. ASSUME NEW s \in Texts, Write(s)
      PROVE  ScreenInv'
  <2>1. s \in Seq(STRING)
    BY TextsAssumption
  <2>2. /\ Keeps(con, con')
        /\ con.attached /\ Drawn(s) => CellsMatch(con')
    BY <1>1, <2>1, WriteStrKeeps DEF Write
  <2>3. con' \in Consoles /\ undrawn' \in BOOLEAN
    BY <1>1, <2>2 DEF Keeps, Write
  <2>4. ASSUME ~undrawn'
        PROVE  CellsMatch(con')
    <3>1. con.attached /\ (~undrawn \/ Drawn(s))
      BY <1>1, <2>4 DEF Write
    <3> QED BY <2>2, <3>1 DEF Keeps
  <2>5. CellsMatch(con') => CellsMatch(con)'
    BY DEF CellsMatch, CellMatches, RowIndex
  <2> QED BY <2>3, <2>4, <2>5
<1>2. ASSUME NEW b \in BOOLEAN, con' = [con EXCEPT !.attached = b], undrawn' = undrawn
      PROVE  ScreenInv'
  <2>1. /\ con' \in Consoles
        /\ con'.buffer = con.buffer /\ con'.cells = con.cells
        /\ con'.x = con.x /\ con'.y = con.y /\ con'.visible = con.visible
    BY <1>2 DEF Consoles
  <2>2. CellsMatch(con) => CellsMatch(con)'
    BY <2>1 DEF CellsMatch, CellMatches, RowIndex
  <2> QED BY <1>2, <2>1, <2>2
<1>3. ASSUME Attach
      PROVE  ScreenInv'
  BY <1>2, <1>3 DEF Attach
<1>4. ASSUME Release
      PROVE  ScreenInv'
  BY <1>2, <1>4 DEF Release
<1>5. ASSUME UNCHANGED vars
      PROVE  ScreenInv'
  BY <1>5 DEF vars, CellsMatch, CellMatches, RowIndex, ColumnIndex, Consoles, Glyphs
<1> QED BY <1>1, <1>3, <1>4, <1>5 DEF Next

LEMMA AlwaysScreen == Spec => []ScreenInv
BY InitScreen, StepScreen, PTL DEF Spec

-----------------------------------------------------------------------------
\* The cursor stays on the screen, and the text and the screen keep their size:
\* no character, control character or scroll makes put_char index out of them.
THEOREM TypeCorrect == Spec => []TypeOK
<1>1. ScreenInv => TypeOK
  BY DEF ScreenInv, Consoles, TypeOK
<1> QED BY <1>1, AlwaysScreen, PTL

\* The framebuffer shows the text and one cursor, its last column aside, unless
\* text was written while it was away and nothing has cleared the screen since.
THEOREM ScreenIsRight == Spec => []ScreenShowsBuffer
<1>1. ScreenInv => ScreenShowsBuffer
  <2> SUFFICES ASSUME ScreenInv, ~undrawn,
                      NEW x \in 0..(COLUMNS - 2), NEW y \in RowIndex
               PROVE  Shows(x, y)
    BY DEF ScreenShowsBuffer
  <2>1. x \in ColumnIndex
    BY Indices
  <2>2. con.cells[y][x] \in Glyphs
    BY <2>1 DEF ScreenInv, Consoles
  <2>3. CellMatches(con, x, y)
    BY DEF ScreenInv, CellsMatch
  <2>4. CASE CursorAt(x, y)
    <3>1. con.cells[y][x].inverse = TRUE
      BY <2>2, <2>3, <2>4 DEF CellMatches, CursorAt, Glyphs
    <3>2. con.cells[y][x] = Glyph(con.buffer[y][x], TRUE)
      BY <2>2, <2>3, <3>1 DEF CellMatches, Glyphs, Glyph
    <3>3. CursorAt(x, y) = TRUE
      BY <2>4 DEF CursorAt
    <3> QED BY <3>2, <3>3 DEF Shows
  <2>5. CASE ~CursorAt(x, y)
    <3>1. con.cells[y][x].inverse = FALSE
      BY <2>2, <2>3, <2>5 DEF CellMatches, CursorAt, Glyphs
    <3>2. con.cells[y][x] = Glyph(con.buffer[y][x], FALSE)
      BY <2>2, <2>3, <3>1 DEF CellMatches, Glyphs, Glyph
    <3>3. CursorAt(x, y) = FALSE
      BY <2>5 DEF CursorAt
    <3> QED BY <3>2, <3>3 DEF Shows
  <2> QED BY <2>4, <2>5
<1> QED BY <1>1, AlwaysScreen, PTL
=============================================================================
