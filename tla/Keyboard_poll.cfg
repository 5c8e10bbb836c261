(* arrivals and ticks between all steps of poll(), also over the wrap of the count *)
SPECIFICATION KeySpec
CONSTANTS
    WRAP = 5
    WINDOW = 2
    FIFO = 3
INVARIANTS KeyTypeOK ParserNormalBetweenPolls EventsMeanTheirBytes
PROPERTIES CutOnlyAfterWindow PollReturns InputIsRead
