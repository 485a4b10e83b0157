CONSTANTS
    PCs = {0, 2, 4, 8, 12}
    MaxLines = 3
    MaxLogs = 2
    Logs <- MCLogs
SPECIFICATION Spec
CHECK_DEADLOCK FALSE
INVARIANTS
    IntervalsSorted
    LoggedIsVisited
    VisitedIsLogged
