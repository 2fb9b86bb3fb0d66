\* Wires without a repeated entry, as a conforming node sends them.
CONSTANTS
    Rows = 2
    Cols = 3
    ListLimit = 3
    Maps = {m1, m2}
    Wires <- DistinctWires
SPECIFICATION Spec
INVARIANTS
    TypeOK
    CountExact
    RoundTrip
PROPERTY ReportsChange
