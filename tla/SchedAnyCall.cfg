CONSTANTS
    N = 3
    Half = 2
    Fns <- WorkersAndIdle
    KeepsIdle = FALSE
    Calls <- AllCalls
    Deltas <- MCDeltas
    CounterMod = 500
    MaxElapsed = 6
SPECIFICATION UsageSpec
INVARIANTS
    IndInv
    SleepMatches
    PercentIsRight
