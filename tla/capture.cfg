CONSTANTS
    r1 = r1
    r2 = r2
    t1 = t1
    t2 = t2
    t3 = t3
    Txs <- MCTxs
    Reqs <- MCReqs
    Flows <- MCFlows
    Body <- MCBody
    MaxOutstanding = 2
SPECIFICATION CaptureFairSpec
CHECK_DEADLOCK FALSE
INVARIANTS
    CaptureTypeOK
    ExitZeroIsWhole
PROPERTIES
    CommandEnds
    EveryPostEnds
    ImplementsLog
