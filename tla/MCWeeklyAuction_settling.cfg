SPECIFICATION FairSpec
CONSTANTS
    Teams = {t1}
    BidIds = {1}
    Offers <- OneOffer
    Runners = {r1, r2}
    NewAuctionCutoff = 1
    WeeklyClose = 1
    PlayoffsStart = 3
    SeasonEnd = 9
    Cooldown = 1
    LeaseDuration = 2
    NoTeam = NoTeam
    MaxTime = 5
    MaxInterventions = 2
    MaxFaults = 1
INVARIANTS SucceededRunsSettled
PROPERTIES PausedLeagueIsNotSettled OnlyLatestLeaseSettles 
CHECK_DEADLOCK FALSE
