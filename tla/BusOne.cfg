CONSTANTS
    Names <- ShortNames
    Stored <- AsIs
    MaxTopics = 2
    MaxSubs = 1
    QueueSize = 3
    Procs <- OneProc
    Calls <- OneCalls
    Adapters <- Both
    MaxAccepted = 3
SPECIFICATION FairSpec
INVARIANTS
    TypeOK
    InOrder
PROPERTIES
    EventuallyTaken
