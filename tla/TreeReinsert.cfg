CONSTANTS
    Builds <- Reinserting
    Null = Null
    v = v
    w = w
SPECIFICATION Spec
PROPERTY IsMap
