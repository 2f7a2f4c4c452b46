SPECIFICATION FairSpec
CONSTANTS
    MaxHeight = 2
    Indexed0 = {}
    Malformed = {}
    Jobs = {j1}
    MaxPending = 1
    MaxCrashes = 1
    Faults = {}
    MaxFaults = 0
PROPERTY HistoryComplete
