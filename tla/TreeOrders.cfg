CONSTANTS
    Builds <- Sound
    Null = Null
    v = v
    w = w
SPECIFICATION Spec
INVARIANTS
    NoLeak
    Balanced
    Sorted
    StaysInside
PROPERTIES
    IsMap
