CONSTANTS
    r1 = r1
    r2 = r2
    r3 = r3
    t1 = t1
    t2 = t2
    Txs <- MCTxs
    Reqs <- MCReqs
    Body <- MCBody
    MaxOutstanding = 2
SPECIFICATION Spec
CHECK_DEADLOCK FALSE
INVARIANTS
    TypeOK
    RecordedWasAnswered
    RecordedInBodyOrder
    SnapshotFinal
    SubmissionOrder
PROPERTY SnapshotCoversServed
