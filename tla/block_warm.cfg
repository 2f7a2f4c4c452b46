SPECIFICATION Spec
CONSTANTS
    MaxHeight = 3
    Indexed0 = {0, 1}
    Malformed = {}
    Jobs = {j1, j2}
    MaxPending = 1
    MaxCrashes = 1
    Faults = {}
    MaxFaults = 0
SYMMETRY JobSymmetry
INVARIANT TypeOK
INVARIANT Contiguous
INVARIANT NoBlockLost
PROPERTY LogSpec
