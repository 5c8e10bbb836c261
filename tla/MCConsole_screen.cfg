(* two rows of three columns, a tab stop before the last *)
SPECIFICATION Spec
CONSTANTS
    ROWS = 2
    COLUMNS = 3
    TAB_SIZE = 2
    Texts <- MCTexts
INVARIANTS TypeOK ScreenShowsBuffer
