(* typing ASCII: lines of three characters, a history of two lines *)
SPECIFICATION Spec
CONSTANTS
    Ascii = {a, b}
    Lead = {}
    Continuation = {}
    LINE_LEN = 3
    HISTORY_SIZE = 2
SYMMETRY ByteSymmetry
INVARIANTS TypeOK NeverPanics IndicesValid
PROPERTIES ImplementsHistoryEditor
