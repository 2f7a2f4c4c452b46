SPECIFICATION Spec
CONSTANTS
    a1 = a1
    b1 = b1
    m2 = m2
    a3 = a3
    a5 = a5
    Rows <- SmallRows
    BlockOf <- SmallBlockOf
    Markers = {m2}
    Malformed = {a3}
    Word = 16
    MaxCalls = 2
    MaxCrashes = 2
    Faults = {"items", "count", "row", "stream", "insert", "state", "remove"}
    MaxFaults = 1
INVARIANT SerialsCovered
INVARIANT DriftBounded
PROPERTY SerialsStable
