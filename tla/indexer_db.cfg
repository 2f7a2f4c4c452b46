SPECIFICATION FairSpec
CONSTANTS
    Names <- MCNames
    Indices <- MCIndices
    Versions = {127, 128}
    LegacyVersions = {122, 123}
    MaxCrashes = 1
    MaxFaults = 1
    Chain <- MCChain
    Assets = {0}
    Day = 2
    Days = 2
    Wallets = {w1, w2}
    Amounts = {1, 2}
    TopSize = 2
    MaxWrites = 3
INVARIANTS
    TypeOK
    SchemaComplete
    IntervalsPartition
    TopDistinct
PROPERTIES
    VersionNeverGoesBack
    StatisticsCurrent
CHECK_DEADLOCK FALSE
