(* typing a two-byte character beside ASCII *)
SPECIFICATION Spec
CONSTANTS
    Ascii = {a}
    Lead = {u}
    Continuation = {v}
    LINE_LEN = 3
    HISTORY_SIZE = 2
INVARIANTS NeverPanics
