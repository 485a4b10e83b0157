CONSTANTS
    Programs <- MCPrograms
SPECIFICATION Spec
CHECK_DEADLOCK FALSE
INVARIANTS
    SolvedExactly
    ThumbDumpIsZeros
