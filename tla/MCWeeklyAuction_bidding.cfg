SPECIFICATION Spec
CONSTANTS
    Teams = {t1, t2}
    BidIds = {1, 2}
    Offers <- MixedTerms
    Runners = {r1}
    NewAuctionCutoff = 1
    WeeklyClose = 3
    PlayoffsStart = 9
    SeasonEnd = 9
    Cooldown = 1
    LeaseDuration = 1
    NoTeam = NoTeam
    MaxTime = 3
    MaxInterventions = 1
    MaxFaults = 0
SYMMETRY Symmetry
INVARIANTS TypeOK AwardIsLowestWinningOffer
PROPERTIES ImplementsSealedAuction RaiseKeepsPrice
CHECK_DEADLOCK FALSE
