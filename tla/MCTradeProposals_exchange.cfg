SPECIFICATION Spec
CONSTANTS
    Teams = {t1, t2, t3}
    Contracts = {c1, c2}
    Proposals = {1, 2}
    Nobody = Nobody
    Lifetime = 2
    Deadlines = {3}
    Amounts = {1}
    RetentionCeiling = 1
    RetentionSlots = 1
    PromisesAllowed = TRUE
    Workers = {}
    LeaseDuration = 1
    MaxClauses = 3
    MaxTime = 0
    MaxInterventions = 1
    MaxCrashes = 0
SYMMETRY Symmetry
CONSTRAINT Bounded
INVARIANTS TypeOK HoldersFollowTrades OpenOffersAreBacked RetentionWithinLimits
PROPERTIES ImplementsAssetExchange
CHECK_DEADLOCK FALSE
