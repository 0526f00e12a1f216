CONSTANT Batches <- MCBatches
CONSTANT BlocksOf <- MCBlocksOf
SPECIFICATION RunSpec
INVARIANTS
    ExitZeroIsClean
    StopsAtFirst
    AbortedIsReported
    ReportIsEarned
    ExitZeroIsEarned
PROPERTY ImplementsBatch
