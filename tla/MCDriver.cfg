CONSTANTS
    Addrs = {a1, a2}
    EntryLists <- MCEntryLists
    TargetLists <- MCTargetLists
    ThumbSets <- MCThumbSets
    ThumbAddr = a1
    OddEntries = {a1}
    MaxQueue = 3
    NoModule = NoModule
SPECIFICATION Spec
CHECK_DEADLOCK FALSE
INVARIANTS
    NothingForgotten
    SolvedFirst
    BuiltIsLinked
PROPERTIES
    RetriedOnlyAfterFailure
    QueueDrains
