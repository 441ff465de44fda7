SPECIFICATION FairSpec
CONSTANTS
    Events = {e1, e2}
    Publishers = {p1, p2}
    RetryDelay = 1
    StaleAfter = 1
    BatchSize = 2
    MaxAttempts = 2
    MaxCrashes = 1
INVARIANTS TypeOK ExclusiveUnlessRecovered
PROPERTIES ImplementsDelivery OnlyLatestClaimantWrites 
CHECK_DEADLOCK FALSE
