CONSTANTS
    Names <- LongNames
    Stored <- Cut
    MaxTopics = 2
    MaxSubs = 2
    QueueSize = 3
    Procs = {p, q}
    Calls <- TwoCalls
    Adapters = {}
    MaxAccepted = 3
SPECIFICATION Spec
SYMMETRY Symmetry
INVARIANTS
    NoLoss
    NoDuplicate
    SlotsCounted
PROPERTIES
    IsQueues
