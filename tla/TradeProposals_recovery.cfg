SPECIFICATION Spec
CONSTANTS
    Teams = {t1, t2}
    Contracts = {c1, c2}
    Proposals = {1, 2}
    Nobody = Nobody
    Lifetime = 2
    Deadlines = {3}
    Amounts = {}
    RetentionCeiling = 0
    RetentionSlots = 0
    PromisesAllowed = TRUE
    Workers = {}
    LeaseDuration = 1
    MaxClauses = 3
    MaxTime = 1
    MaxInterventions = 0
    MaxCrashes = 0
INVARIANTS RecoverableTradesReverse
CHECK_DEADLOCK FALSE
