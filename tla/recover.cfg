CONSTANTS
    NumKeys = 2
    Count = 2
    Reserve = 2
    MinSweepWei = 0
    Balances <- MCBalances
    Costs = {1}
    MaxFaults = 2
    MaxDrops = 1
SPECIFICATION FairSpec
INVARIANTS
    TypeOK
    ScanComplete
    ConfirmedIsSwept
PROPERTIES
    EventuallyReclaimed
    ImplementsSweep
