SPECIFICATION FairSpec
CONSTANTS
    MaxHeight = 3
    Indexed0 = {}
    Malformed = {3}
    Jobs = {j1}
    MaxPending = 1
    MaxCrashes = 0
    Faults = {"prev_bid", "items"}
    MaxFaults = 1
INVARIANT NoBlockLost
PROPERTY EventuallyIndexed
