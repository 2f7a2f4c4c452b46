SPECIFICATION Spec
CONSTANTS
    Blocks <- ChainBlocks
    Genesis = 0
    Updates <- ChainUpdates
    Known <- None
    Unknown <- None
    Workers = {w1, w2}
    Utility = utility
    StateThreads = {}
    NoAddr = NoAddr
    MaxCalls = 1
    MaxCrashes = 0
    MaxFaults = 0
INVARIANT HistoryRecorded
CHECK_DEADLOCK FALSE
