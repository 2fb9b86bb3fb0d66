\* Every wire of the list form, repeated entries included.
CONSTANTS
    Rows = 2
    Cols = 2
    ListLimit = 3
    Maps = {m1, m2}
    Wires <- AnyWires
SPECIFICATION Spec
INVARIANTS
    DecodeInBounds
    CountDrift
