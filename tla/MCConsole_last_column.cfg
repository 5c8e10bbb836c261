(* the same screen, with its last column *)
SPECIFICATION Spec
CONSTANTS
    ROWS = 2
    COLUMNS = 3
    TAB_SIZE = 2
    Texts <- MCTexts
INVARIANTS WholeScreenShowsBuffer
