CONSTANTS
    Targets = {2, 4, 6, 8}
    SwitchDefaults = {4, 8}
    Order <- MCOrder
    PcEnd <- MCPcEnd
    Modules <- MCModules
SPECIFICATION Spec
CHECK_DEADLOCK FALSE
INVARIANTS
    OneMark
    FunctionIsClosure
    WellFormed
    ControlFlowKept
    CalledIsBuilt
