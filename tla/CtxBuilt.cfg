CONSTANTS
    Tasks <- MCTasks
    Sites <- OneSite
    Depth = 1
    Waits <- InMain
    Ends = TRUE
    TailCalls = TRUE
    Measured <- OneTask
    MaxReturns = 2
SPECIFICATION Spec
INVARIANTS
    TypeOK
    BuffersIntact
    SoftBalanced
PROPERTY OnlyReturnsGoAstray
