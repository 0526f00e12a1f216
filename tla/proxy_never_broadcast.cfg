CONSTANTS
    r1 = r1
    r2 = r2
    r3 = r3
    t1 = t1
    t2 = t2
    Txs <- MCTxs
    Reqs <- MCReqs2
    Body <- MCBody2
    MaxOutstanding = 1
SPECIFICATION Spec
CHECK_DEADLOCK FALSE
INVARIANT CapturedWasBroadcast
