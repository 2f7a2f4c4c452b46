SPECIFICATION Spec
CONSTANTS
    Servers = {s1}
    Nodes = {"n1", "n2", "n3"}
    Roster <- SomeRoster
    MinHeight = 8
    MaxHeight = 11
    MaxCrashes = 0
    MaxFaults = 0
INVARIANT CurrentIsNewest
