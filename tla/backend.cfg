SPECIFICATION FairSpec
CONSTANTS
    Clients = {c1, c2}
    Requests <- MCRequests
    Probes <- MCProbes
    PageSize = 2
    Key <- MCKey
    Word = 16
    Short = 8
    Last256 = 31
    MaxLimit = 2
    MaxAsks = 2
    MaxBlocks = 3
    MaxSerials = 2
    MaxTxs = 2
    WalletTxs <- MCWalletTxs
    MaxGrowth = 2
    MaxFaults = 1
INVARIANTS
    TypeOK
    SuccessIsGenuine
    NeverSilent
    PageBounded
    PagesJoin
    PagesComplete
    CountedRowsExist
PROPERTY EveryRequestAnswered
CHECK_DEADLOCK FALSE
