CONSTANTS
    DeadBeef = 99999
    PageSize = 4
    ElfFiles <- MCElfFiles
    PoolLists <- MCPoolLists
    TableLists <- MCTableLists
    Functions <- MCFunctions
SPECIFICATION ElfSpec
CHECK_DEADLOCK FALSE
INVARIANTS
    LoadsReplaced
    TablesAnnotated
    ImageIsRead
