CONSTANTS
    a = a
    b = b
    c = c
    f1 = f1
    f2 = f2
    NoFile = NoFile
    NoRun = NoRun
    Runs <- MCRuns
    Files <- MCFiles
    MetaOut <- MCMetaOut
    Csv <- MCCsv
    Cleanup <- MCCleanup
    Floor = 3
    SeedFunds = 4
    Funding = 2
SYMMETRY MCSymmetry
SPECIFICATION Spec
CHECK_DEADLOCK FALSE
INVARIANTS
    TypeOK
    FundsRecoverable
    FloorOnlyOvertaken
