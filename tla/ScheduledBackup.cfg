SPECIFICATION FairSpec
CONSTANTS
    Workers = {w1, w2}
    Interval = 2
    Lease = 1
    Retry = 1
    MaxTime = 3
    MaxFaults = 1
INVARIANTS TypeOK ReceiptsAreRestorable OneLiveLease
PROPERTIES ImplementsBackupVault OnlyLatestAttemptEnds OccurrencesAreBackedUp
CHECK_DEADLOCK FALSE
