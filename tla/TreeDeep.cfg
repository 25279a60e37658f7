CONSTANTS
    Builds <- Deep
    Null = Null
    v = v
    w = w
SPECIFICATION Spec
INVARIANT Sorted
