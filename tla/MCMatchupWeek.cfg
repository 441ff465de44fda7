SPECIFICATION FairSpec
CONSTANTS
    Workers = {w1, w2}
    t1 = t1
    t2 = t2
    t3 = t3
    t4 = t4
    Matchups <- MCMatchups
    Doubtful = {t1}
    Nobody = Nobody
    Leaving = {w2}
    MaxCycles = 1
    Starts = 0
    Baseline = 1
    Locks = 1
    Ends = 3
    Slots = {4}
    GamesOver <- MCGamesOver
    Fresh = 0
    Lease = 1
    Retry = 1
    MaxTime = 4
INVARIANTS
    TypeOK
    SucceededRunsTookEffect
PROPERTIES
    ImplementsSealedWeek
    LockedWeeksBecomeFinal
