CONSTANTS
    t1 = t1
    t2 = t2
    t3 = t3
    t4 = t4
    Txs <- MCTxs
    Fixture <- MCFixture
    Routes <- MCRoutes
SPECIFICATION Spec
INVARIANTS
    TypeOK
    PassedIsEarned
    NoFalseAlarm
PROPERTY ImplementsVerdict
