CONSTANTS
    PageEnd = 4
    MaxInsts = 3
    MaxBlocks = 3
    Memories <- MCMemories
    Orders <- MCOrders
SPECIFICATION Spec
CHECK_DEADLOCK FALSE
INVARIANTS
    SplitKeepsEffects
    NoInstructionTwice
    AbortsIffMisaligned
    StartLostIffEmpty
    RewrittenOnce
