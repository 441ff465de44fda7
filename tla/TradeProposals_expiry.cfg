SPECIFICATION FairSpec
CONSTANTS
    Teams = {t1, t2}
    Contracts = {c1}
    Proposals = {1}
    Nobody = Nobody
    Lifetime = 2
    Deadlines = {1, 2}
    Amounts = {}
    RetentionCeiling = 0
    RetentionSlots = 0
    PromisesAllowed = TRUE
    Workers = {w1, w2}
    LeaseDuration = 1
    MaxClauses = 2
    MaxTime = 3
    MaxInterventions = 2
    MaxCrashes = 1
INVARIANTS LapsedOffersNeverComplete SucceededRunsAreClosed
PROPERTIES LapsedOffersAreClosed
CHECK_DEADLOCK FALSE
