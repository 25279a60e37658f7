CONSTANTS
    N = 3
    Half = 4
    Fns <- WorkersAndIdle
    KeepsIdle = TRUE
    Calls <- SleepCalls
    Deltas <- MCDeltas
SPECIFICATION FairSpec
INVARIANTS
    TypeOK
    BoundedWait
    EnteredOnce
    NeverLost
    IdleInv
PROPERTIES
    EarlyOnlyAtTickZero
    DueStaysDue
    NoStarvation
