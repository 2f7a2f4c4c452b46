SPECIFICATION FairSpec
CONSTANTS
    Blocks <- StateBlocks
    Genesis = 0
    Updates <- StateUpdates
    Known <- StateKnown
    Unknown <- StateUnknown
    Workers = {w1}
    Utility = utility
    StateThreads = {s1, s2}
    NoAddr = NoAddr
    MaxCalls = 1
    MaxCrashes = 1
    MaxFaults = 1
INVARIANT TypeOK
INVARIANT BlocksCoverTransactions
INVARIANT KnownHistoryRecorded
PROPERTY HistoryNeverShrinks
PROPERTY StateEventually
CHECK_DEADLOCK FALSE
