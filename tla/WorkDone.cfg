CONSTANTS
    Configs <- SmallBuilds
    Capacity = 1
    CreateMayFail = TRUE
    InsertMayFail = TRUE
SPECIFICATION FairSpec
INVARIANTS
    TypeOK
    Conservation
    CountersMatch
    HonestVerdict
PROPERTIES
    Halts
