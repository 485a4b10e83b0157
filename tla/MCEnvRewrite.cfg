CONSTANTS
    Blocks <- MCBlocks
    Helpers <- MCHelpers
    HelperCode <- MCHelperCode
    Registers <- MCRegisters
SPECIFICATION Spec
CHECK_DEADLOCK FALSE
INVARIANTS
    ErasedUnused
    LeftIsNeeded
    ReadsKept
PROPERTIES
    InliningEnds
