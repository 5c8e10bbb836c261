(* a full line does not fit beside the prompt: it wraps *)
SPECIFICATION ShellSpec
CONSTANTS
    a = a
    b = b
    Ascii = {a, b}
    Lead = {}
    Continuation = {}
    LINE_LEN = 3
    HISTORY_SIZE = 2
    ROWS = 2
    COLUMNS = 5
    TAB_SIZE = 4
    PROMPT <- MCPrompt
SYMMETRY Shapes
VIEW EditorAndConsole
INVARIANTS ScreenShowsLine
PROPERTIES LeftoversOnlyFromEditedEntry
