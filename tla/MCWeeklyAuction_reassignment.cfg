SPECIFICATION Spec
CONSTANTS
    Teams = {t1, t2}
    BidIds = {1, 2}
    Offers <- OneYear
    Runners = {r1}
    NewAuctionCutoff = 1
    WeeklyClose = 1
    PlayoffsStart = 9
    SeasonEnd = 9
    Cooldown = 1
    LeaseDuration = 1
    NoTeam = NoTeam
    MaxTime = 2
    MaxInterventions = 1
    MaxFaults = 0
INVARIANTS HistoricalAuthorityDecides
CHECK_DEADLOCK FALSE
