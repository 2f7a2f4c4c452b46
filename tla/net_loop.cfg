SPECIFICATION FairSpec
CONSTANTS
    Servers = {s1, s2}
    Nodes = {"n1", "n2", "n3"}
    Roster <- SomeRoster
    MinHeight = 1
    MaxHeight = 4
    MaxCrashes = 1
    MaxFaults = 1
INVARIANT TypeOK
INVARIANT WalletsHaveStates
PROPERTY NodesNeverGoBack
PROPERTY EventuallySeen
