CONSTANTS
    Events = {e1, e2}
    Workers = {w1, w2}
    Sizes <- MCSizes
    Chunk = 2
    MaxEmits = 3
    MaxReserved = 2
    Capacity = 3
    SizeModulus = 256

SPECIFICATION Spec

INVARIANTS
    MergedComplete
    OutputsBounded
