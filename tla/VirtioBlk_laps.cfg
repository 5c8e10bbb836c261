(* both profiles, a disk of two blocks, indices that wrap at four;
   in the dev profile the kernel stops when they would *)
SPECIFICATION FairSpec
CONSTANTS
    Capacity = 2
    Data = {zero, one}
    Blank = zero
    INDEX = 4
    InOrder = TRUE
INVARIANTS TypeOK AnswersTheCall QuietBetweenCalls
PROPERTIES OnlyTheWrittenBlock CallReturns
CHECK_DEADLOCK FALSE
