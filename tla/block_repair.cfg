SPECIFICATION FairSpec
CONSTANTS
    MaxHeight = 3
    Indexed0 = {0, 1}
    Malformed = {}
    Jobs = {j1}
    MaxPending = 1
    MaxCrashes = 1
    Faults = {"last_block_id", "add_block", "insert", "remove"}
    MaxFaults = 1
INVARIANT Contiguous
PROPERTY RestartRepairs
