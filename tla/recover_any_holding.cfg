CONSTANTS
    NumKeys = 3
    Count = 2
    Reserve = 2
    MinSweepWei = 0
    Balances <- MCBalances
    Costs = {}
    MaxFaults = 0
    MaxDrops = 0
SPECIFICATION Spec
INVARIANT SweepsAnyHolding
