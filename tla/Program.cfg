CONSTANTS
    N = 15
    Half = 32768
    Fns <- WorkersAndIdle
    KeepsIdle = TRUE
    Calls <- MainCalls
    Deltas <- MainPauses
    CounterMod = 2147483647
    MaxElapsed = 14500
    Configs <- Builds
    Capacity = 63
    MonitorPause = 50
    ProducePause = 10
    RetryPause = 50
    PoolPause = 100
    WaitPause = 200
    CheckPause = 50
    LeavePause = 100
    PollPause = 100
    HaltPause = 500
    ClocksPerSec = 100
    WordMod = 65536
SPECIFICATION ProgramSpec
INVARIANTS
    ProgramTypeOK
    BacklogBounded
    TimesAreRight
    CleanExit
    ClockTrusted
PROPERTIES
    ImplementsWorkQueue
