SPECIFICATION FairSpec
CONSTANTS
    a1 = a1
    b1 = b1
    m2 = m2
    a3 = a3
    a5 = a5
    Rows <- GapRows
    BlockOf <- GapBlockOf
    Markers = {m2}
    Malformed = {}
    Word = 16
    MaxCalls = 2
    MaxCrashes = 0
    Faults = {"remove", "items"}
    MaxFaults = 1
INVARIANT TypeOK
INVARIANT SerialsDense
INVARIANT NoTxLost
PROPERTY LogSpec
PROPERTY EventuallyStreamed
