CONSTANTS
    a = a
    b = b
    c = c
    f1 = f1
    f2 = f2
    NoFile = NoFile
    NoRun = NoRun
    Runs <- TwoRuns
    Files <- MCFiles
    MetaOut <- NoFiles
    Csv <- NoFiles
    Cleanup <- MCCleanup
    Floor = 2
    SeedFunds = 4
    Funding = 2
SPECIFICATION Spec
CHECK_DEADLOCK FALSE
INVARIANT FundsRecoverable
