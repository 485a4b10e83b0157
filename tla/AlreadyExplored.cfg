CONSTANTS
    PCs <- MCPCs
    ValidCode <- MCValidCode
    Programs <- MCPrograms
    JumpTables <- MCJumpTables
    IntervalLists <- MCIntervalLists
    ThumbIns <- MCThumbIns
    Entries = {0, 1}
    SizeMod = 16
    Forms = {"return", "jump4", "loop0", "branch4_8", "branch8_12", "call8_4",
             "thumb4", "callt8_4", "arm4_12", "mixed", "two_lrs"}
SPECIFICATION Spec
CHECK_DEADLOCK FALSE
INVARIANT
    SkipsAlreadyExplored
