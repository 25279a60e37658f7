CONSTANTS
    Tasks <- MCTasks
    Sites <- OneSite
    Depth = 0
    Waits <- InMain
    Ends = TRUE
    TailCalls = TRUE
    Measured = {}
    MaxReturns = 2
SPECIFICATION Spec
INVARIANT FindsItsLocals
