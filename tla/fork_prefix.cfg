CONSTANTS
    s1 = s1
    s2 = s2
    d1 = d1
    p1 = p1
    p2 = p2
    p3 = p3
    testA = testA
    testB = testB
    NoGenesis = NoGenesis
    NoPort = NoPort
    NoDir = NoDir
    Nobody = Nobody
    Forks <- MCForks
    TIMESTAMP_FORKS <- MCTimestampForks
    BalFork = "Amsterdam"
    BlobForks <- MCBlobForks
    AtGenesis <- MCAtGenesis
    CappedForks <- MCCappedForks
    TxGasCap <- MCTxGasCap
    Tests = {testA, testB}
    Sessions <- MCSessions
    Dirs <- MCDirs
    Ports <- MCPorts
    Existing <- MCExisting
    Scenarios <- MCTargets
SPECIFICATION Spec
CHECK_DEADLOCK FALSE
INVARIANT OnlyTargetPrefix
