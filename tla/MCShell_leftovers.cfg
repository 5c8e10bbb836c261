(* the same small shell; lengthening a recalled entry leaves characters behind *)
SPECIFICATION ShellSpec
CONSTANTS
    a = a
    b = b
    Ascii = {a, b}
    Lead = {}
    Continuation = {}
    LINE_LEN = 2
    HISTORY_SIZE = 2
    ROWS = 2
    COLUMNS = 6
    TAB_SIZE = 4
    PROMPT <- MCPrompt
INVARIANTS NoLeftovers
