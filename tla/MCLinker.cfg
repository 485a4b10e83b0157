CONSTANTS
    Addresses = {1, 2}
    Variables = {1, 2}
    Flags = {2}
    Calls <- MCCalls
    FileLists <- MCFileLists
SPECIFICATION PostSpec
CHECK_DEADLOCK FALSE
INVARIANTS
    FirstFunctionWins
    CallsAreLinked
    StoresForwarded
