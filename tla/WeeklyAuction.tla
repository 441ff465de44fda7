--------------------------- MODULE WeeklyAuction ---------------------------
(***************************************************************************)
(* One ordinary weekly auction for a free agent, from its start to its     *)
(* settlement: the managers' bids, the commissioner's interventions, and   *)
(* the scheduled job that settles it.                                      *)
(*                                                                         *)
(* Every HTTP command is one synchronous database transaction and so one   *)
(* action; commands that the code refuses change nothing and are left out. *)
(* The job is not one step: it lists due auctions, leases a job run per    *)
(* auction, settles, waits for roster locks and closes the run, and any    *)
(* command, another runner or a crash may come between.                    *)
(***************************************************************************)
EXTENDS AuctionOffers, FiniteSets

CONSTANTS
    Teams,            \* teams of the league; also their managers
    BidIds,           \* identifiers a new bid may get
    Offers,           \* offers a manager may name
    Runners,          \* processes that run the resolution job
    NewAuctionCutoff, \* auctions start before this time
    WeeklyClose,      \* close of the weekly window
    PlayoffsStart,    \* fantasy_playoffs_start_at_ms
    SeasonEnd,        \* regular_season_ends_at_ms
    Cooldown,         \* COOLDOWN_MS
    LeaseDuration,    \* leaseDurationMs of the job
    NoTeam,           \* a user who manages no team
    MaxTime,          \* bound: the clock stops here
    MaxInterventions, \* bound: acts of commissioners and administrators
    MaxFaults         \* bound: crashes and database errors of the job

ASSUME AuctionAssumption ==
    /\ BidIds \subseteq Nat
    /\ Offers \subseteq Offer
    /\ \A o \in Offers : ValidOffer(o)
    /\ \E top \in Offers : \A o \in Offers : o.aav <= top.aav
    /\ NoTeam \notin Teams
    /\ NewAuctionCutoff \in Nat /\ NewAuctionCutoff <= WeeklyClose
    /\ WeeklyClose \in Nat /\ PlayoffsStart \in Nat /\ SeasonEnd \in Nat
    /\ Cooldown \in Nat \ {0} /\ LeaseDuration \in Nat \ {0}
    /\ MaxTime \in Nat /\ MaxInterventions \in Nat /\ MaxFaults \in Nat

VARIABLES
    now,           \* the clock
    league,        \* leagues.status
    commissioner,  \* the user with the commissioner permission
    available,     \* free agent, active and in a drafted position
    status,        \* auctions.status ("none" before the start)
    version,       \* auctions.version
    openedAt,      \* auctions.opened_at_ms
    resolvesAt,    \* auctions.resolves_at_ms
    bids,          \* auction_bids by identifier
    history,       \* accepted offers: auction_events of this auction
    award,         \* contract and ownership the auction created
    resolution,    \* auction_resolutions row
    jobs,          \* job_runs by due time (the occurrence key)
    run,           \* what a runner of the job has in its hands
    interventions, \* commissioner and administrator acts so far (bound)
    faults         \* faults so far (bound)

world == <<league, commissioner, available>>
auction == <<status, version, openedAt, resolvesAt>>
outcome == <<award, resolution>>
job == <<jobs, run>>
bounds == <<interventions, faults>>
vars == <<now, world, auction, bids, history, outcome, job, bounds>>

Times == 0..MaxTime
Authorities == {"manager", "commissioner", "platform_administrator_as_commissioner"}
BidStatuses == {"active", "withdrawn", "won", "lost", "invalid", "cancelled"}
Outcomes == {"winner", "no_winner", "season_closed", "player_unavailable", "cancelled"}

NoBid == [status |-> "none"]
NoAward == [team |-> NoTeam]
NoResolution == [outcome |-> "none"]
NoJob == [status |-> "none"]
Idle == [pc |-> "idle"]

Init ==
    /\ now = 0
    /\ league = "active"
    /\ commissioner \in Teams \cup {NoTeam}
    /\ available = TRUE
    /\ status = "none"
    /\ version = 0
    /\ openedAt = 0
    /\ resolvesAt = 0
    /\ bids = [b \in BidIds |-> NoBid]
    /\ history = {}
    /\ award = NoAward
    /\ resolution = NoResolution
    /\ jobs = [d \in Times |-> NoJob]
    /\ run = [r \in Runners |-> Idle]
    /\ interventions = 0
    /\ faults = 0

----------------------------------------------------------------------------
\* Users and the clock.

\* league_memberships.permission_category of the user managing team u.
PermissionOf(u) ==
    IF u = commissioner THEN "commissioner" ELSE IF u \in Teams THEN "manager" ELSE "member"

Tick ==
    /\ now < MaxTime
    /\ now' = now + 1
    /\ UNCHANGED <<world, auction, bids, history, outcome, job, bounds>>

\* Bound: the clock still has room for a lease to expire.
BeforeLastLease == now + LeaseDuration <= MaxTime

Intervene ==
    /\ BeforeLastLease
    /\ interventions < MaxInterventions
    /\ interventions' = interventions + 1
    /\ UNCHANGED faults

\* Another commissioner accepts the office; the former one is a manager
\* again, or a plain member without a team.
ReassignCommissioner(u) ==
    /\ u # commissioner
    /\ Intervene
    /\ commissioner' = u
    /\ UNCHANGED <<now, league, available, auction, bids, history, outcome, job>>

\* League competition is paused, unless a run of a job is leased, or
\* resumed; deadlines keep running.
PauseLeague ==
    /\ league = "active"
    /\ \A d \in Times : jobs[d].status # "leased"
    /\ Intervene
    /\ league' = "frozen"
    /\ UNCHANGED <<now, commissioner, available, auction, bids, history, outcome, job>>

ResumeLeague ==
    /\ league = "frozen"
    /\ league' = "active"
    /\ UNCHANGED <<now, commissioner, available, auction, bids, history, outcome, job, bounds>>

\* A correction elsewhere gives the player an owner, or the catalogue
\* refresh retires the player or moves it out of F and D.
PlayerLeavesPool ==
    /\ status = "open"
    /\ available
    /\ Intervene
    /\ available' = FALSE
    /\ UNCHANGED <<now, league, commissioner, auction, bids, history, outcome, job>>

----------------------------------------------------------------------------
\* Start and bids.

SeasonOpen == now < PlayoffsStart /\ now < SeasonEnd

MayStart(t, authority) ==
    CASE authority = "manager" -> league = "active" /\ PermissionOf(t) = "manager"
      [] authority = "commissioner" -> league \in {"active", "frozen"}
      [] OTHER -> league \in {"active", "frozen"}

ActorOf(t, authority) ==
    CASE authority = "manager" -> t
      [] authority = "commissioner" -> commissioner
      [] OTHER -> NoTeam

NewBid(t, o, authority, actor, starting) ==
    [team |-> t, status |-> "active", offer |-> o, firstAt |-> now, lastEdit |-> now,
     edits |-> 0, authority |-> authority, actor |-> actor, starting |-> starting]

Accepted(b, t, o, kind) == [bid |-> b, team |-> t, offer |-> o, at |-> now, kind |-> kind]

\* startTransaction: the auction and its opening bid.
Start(t, o, b, authority) ==
    /\ status = "none"
    /\ MayStart(t, authority)
    /\ SeasonOpen
    /\ now < NewAuctionCutoff
    /\ available
    /\ Total(o) >= MinimumTotal(o.term, TRUE)
    /\ status' = "open"
    /\ version' = 1
    /\ openedAt' = now
    /\ resolvesAt' = WeeklyClose
    /\ bids' = [bids EXCEPT ![b] = NewBid(t, o, authority, ActorOf(t, authority), TRUE)]
    /\ history' = {Accepted(b, t, o, "submitted")}
    /\ UNCHANGED <<now, world, outcome, job, bounds>>

WindowOpen == status = "open" /\ openedAt <= now /\ now < resolvesAt

ManagerMayBid(t) == league = "active" /\ PermissionOf(t) = "manager"

ActiveBid(b) == bids[b].status = "active"

\* putTransaction without a current bid of the team.
SubmitBid(t, o, b) ==
    /\ ManagerMayBid(t)
    /\ WindowOpen
    /\ bids[b] = NoBid
    /\ \A c \in BidIds : ActiveBid(c) => bids[c].team # t
    /\ Total(o) >= JoiningMinimum(o.term)
    /\ bids' = [bids EXCEPT ![b] = NewBid(t, o, "manager", t, FALSE)]
    /\ history' = history \cup {Accepted(b, t, o, "submitted")}
    /\ UNCHANGED <<now, world, auction, outcome, job, bounds>>

\* An ordinary auction knows its starter by the time of the first submission.
EditLimit(b) == IF bids[b].firstAt = openedAt THEN 2 ELSE 1

CooledDown(b) == now >= bids[b].lastEdit + Cooldown

Edited(b, o) == [bids[b] EXCEPT !.offer = o, !.lastEdit = now, !.edits = @ + 1]

\* putTransaction on the team's current bid; only the annual minimum applies.
EditBid(b, o) ==
    /\ ActiveBid(b)
    /\ ManagerMayBid(bids[b].team)
    /\ WindowOpen
    /\ Total(o) >= o.term * 100
    /\ bids[b].edits < EditLimit(b)
    /\ CooledDown(b)
    /\ bids' = [bids EXCEPT ![b] = Edited(b, o)]
    /\ history' = history \cup {Accepted(b, bids[b].team, o, "edited")}
    /\ UNCHANGED <<now, world, auction, outcome, job, bounds>>

----------------------------------------------------------------------------
\* The commissioner's administration, open in a paused league too.

\* executeEdit: no allowance, no cooldown, and the allowance is not used up.
CommissionerEdits(b, o) ==
    /\ Intervene
    /\ WindowOpen
    /\ ActiveBid(b)
    /\ bids' = [bids EXCEPT ![b].offer = o, ![b].lastEdit = now]
    /\ history' = history \cup {Accepted(b, bids[b].team, o, "administered")}
    /\ UNCHANGED <<now, world, auction, outcome, job>>

\* executeRemove: the team may submit a new bid afterwards.
CommissionerRemoves(b) ==
    /\ Intervene
    /\ WindowOpen
    /\ ActiveBid(b)
    /\ bids' = [bids EXCEPT ![b].status = "withdrawn", ![b].lastEdit = now]
    /\ UNCHANGED <<now, world, auction, history, outcome, job>>

WithStatus(bid, s) == [bid EXCEPT !.status = s]

\* Mutant of CancelledBids: a status the bids do not have.
CancelledBidsMisspelt ==
    [b \in BidIds |-> IF ActiveBid(b) THEN WithStatus(bids[b], "canceled") ELSE bids[b]]

CancelledBids ==
    [b \in BidIds |-> IF ActiveBid(b) THEN WithStatus(bids[b], "cancelled") ELSE bids[b]]

Cancellable == status = "open" /\ resolution = NoResolution

\* executeOrdinaryCancel, before or after the close.
CommissionerCancels ==
    /\ Intervene
    /\ Cancellable
    /\ bids' = CancelledBids
    /\ status' = "cancelled"
    /\ version' = version + 1
    /\ resolution' = [outcome |-> "cancelled", due |-> resolvesAt]
    /\ UNCHANGED <<now, world, openedAt, resolvesAt, history, award, job>>

NewClose(c) ==
    /\ c > now /\ c > openedAt
    /\ c < PlayoffsStart /\ c < SeasonEnd
    /\ c # resolvesAt

\* A timing change: refused once the close has passed or a job run exists.
ChangeTiming(c) ==
    /\ Intervene
    /\ status = "open"
    /\ now < resolvesAt
    /\ SeasonOpen
    /\ \A d \in Times : jobs[d] = NoJob
    /\ resolution = NoResolution
    /\ NewClose(c)
    /\ resolvesAt' = c
    /\ version' = version + 1
    /\ UNCHANGED <<now, world, status, openedAt, bids, history, outcome, job>>

\* executeResolutionRequest: a due auction gets a pending job run, or its
\* failed run becomes pending; a settled or leased run stays as it is.
RequestResolution ==
    /\ Intervene
    /\ status = "open"
    /\ now >= resolvesAt
    /\ \/ /\ jobs[resolvesAt] = NoJob
          /\ jobs' = [jobs EXCEPT ![resolvesAt] = [status |-> "pending", version |-> 1]]
       \/ /\ jobs[resolvesAt].status = "failed"
          /\ jobs' = [jobs EXCEPT ![resolvesAt] =
                         [status |-> "pending", version |-> jobs[resolvesAt].version + 1]]
    /\ UNCHANGED <<now, world, auction, bids, history, outcome, run>>

----------------------------------------------------------------------------
\* The decision, from the rows as the settling transaction reads them.

\* historicalAuthority: the authority recorded with the submission has to be
\* the permission the actor has now.
AuthorityValid(b) ==
    /\ bids[b].authority \in {"manager", "commissioner"}
    /\ PermissionOf(bids[b].actor) = bids[b].authority

MeetsMinimum(b) ==
    Total(bids[b].offer) >= MinimumTotal(bids[b].offer.term, bids[b].starting)

EligibleBids == {b \in BidIds : ActiveBid(b) /\ AuthorityValid(b) /\ MeetsMinimum(b)}

EntryOf(b) == [offer |-> bids[b].offer, firstAt |-> bids[b].firstAt, id |-> b]
EligibleEntries == {EntryOf(b) : b \in EligibleBids}

WinningBid == Leader(EligibleEntries).id

OffersOf(b) == {h.offer : h \in {g \in history : g.bid = b /\ g.at <= resolvesAt}}
                  \cup {bids[b].offer}

Decision ==
    CASE ~SeasonOpen -> "season_closed"
      [] SeasonOpen /\ ~available -> "player_unavailable"
      [] SeasonOpen /\ available /\ EligibleBids = {} -> "no_winner"
      [] OTHER -> "winner"

\* The resolution is due at the close, or at the playoffs if they come first.
DueAt == IF now >= PlayoffsStart THEN PlayoffsStart ELSE resolvesAt
IsDue == now >= PlayoffsStart \/ now >= resolvesAt

----------------------------------------------------------------------------
\* The job resolveTargetAuctions.

\* listDue reads the auction with its version, at the cycle's clock reading.
ListDue(r) ==
    /\ run[r] = Idle
    /\ league = "active"
    /\ status = "open"
    /\ IsDue
    /\ run' = [run EXCEPT ![r] = [pc |-> "listed", due |-> DueAt,
                                  auctionVersion |-> version, at |-> now]]
    /\ UNCHANGED <<now, world, auction, bids, history, outcome, jobs, bounds>>

\* Mutant of Leasable: an expired lease is not taken over.
LeasableUnlessLeased(d, at) == jobs[d].status \in {"none", "pending", "failed"}

\* claimTransaction: a new run, or one that is neither done nor leased at
\* the cycle's clock reading.
Leasable(d, at) ==
    \/ jobs[d].status \in {"none", "pending", "failed"}
    \/ jobs[d].status = "leased" /\ jobs[d].expires <= at

ClaimRun(r) ==
    /\ run[r].pc = "listed"
    /\ Leasable(run[r].due, run[r].at)
    /\ LET d == run[r].due
           v == IF jobs[d] = NoJob THEN 1 ELSE jobs[d].version + 1
       IN /\ jobs' = [jobs EXCEPT ![d] = [status |-> "leased", version |-> v, owner |-> r,
                                          expires |-> run[r].at + LeaseDuration]]
          /\ run' = [run EXCEPT ![r] = [pc |-> "claimed", due |-> d, runVersion |-> v,
                                        auctionVersion |-> run[r].auctionVersion]]
    /\ UNCHANGED <<now, world, auction, bids, history, outcome, bounds>>

SkipRun(r) ==
    /\ run[r].pc = "listed"
    /\ ~Leasable(run[r].due, run[r].at)
    /\ run' = [run EXCEPT ![r] = Idle]
    /\ UNCHANGED <<now, world, auction, bids, history, outcome, jobs, bounds>>

\* Mutant of HoldsLease: the run's status is the only thing looked at.
HoldsSomeLease(r) == jobs[run[r].due].status = "leased"

\* The run in the job table is still the one this runner leased.
HoldsLease(r) ==
    /\ jobs[run[r].due].status = "leased"
    /\ jobs[run[r].due].owner = r
    /\ jobs[run[r].due].version = run[r].runVersion

\* Mutant of Fenced: a pause since the listing goes unnoticed.
FencedIgnoringPause(r) == HoldsLease(r) /\ jobs[run[r].due].expires > now

\* completeTransaction's fence: lease held and not expired, auction visible.
Fenced(r) ==
    /\ league = "active"
    /\ HoldsLease(r)
    /\ jobs[run[r].due].expires > now

Step(r, pc) == [run EXCEPT ![r].pc = pc]

\* Version conflict: the lease, the resolution or the auction is not the one
\* this runner expects.  The job passes on and leaves the run leased.
CompletionConflicts(r) ==
    /\ run[r].pc = "claimed"
    /\ \/ ~Fenced(r)
       \/ resolution # NoResolution /\ resolution.due # run[r].due
       \/ resolution = NoResolution /\ version # run[r].auctionVersion
    /\ run' = [run EXCEPT ![r] = Idle]
    /\ UNCHANGED <<now, world, auction, bids, history, outcome, jobs, bounds>>

\* The auction was settled under the same occurrence: nothing to do.
CompletionReplays(r) ==
    /\ run[r].pc = "claimed"
    /\ Fenced(r)
    /\ resolution # NoResolution
    /\ resolution.due = run[r].due
    /\ run' = Step(r, "completed")
    /\ UNCHANGED <<now, world, auction, bids, history, outcome, jobs, bounds>>

ReadyToSettle(r) ==
    /\ run[r].pc = "claimed"
    /\ Fenced(r)
    /\ resolution = NoResolution
    /\ version = run[r].auctionVersion

SettlesOccurrence(r) == status = "open" /\ IsDue /\ DueAt = run[r].due

\* Mutant of CompletionIncomplete: the result is not looked at.
CompletionUnchecked(r) ==
    /\ ReadyToSettle(r)
    /\ ~SettlesOccurrence(r)
    /\ run' = Step(r, "completed")
    /\ UNCHANGED <<now, world, auction, bids, history, outcome, jobs, bounds>>

\* Not due, or the playoffs began since the listing and the occurrence is
\* no longer the one to settle: the run fails and a later cycle settles.
CompletionIncomplete(r) ==
    /\ ReadyToSettle(r)
    /\ ~SettlesOccurrence(r)
    /\ run' = Step(r, "failing")
    /\ UNCHANGED <<now, world, auction, bids, history, outcome, jobs, bounds>>

\* updateBids: the final status of a bid that is active now.
SettledStatus(b) ==
    CASE Decision = "winner" /\ b = WinningBid -> "won"
      [] Decision = "winner" /\ b \in EligibleBids \ {WinningBid} -> "lost"
      [] Decision = "winner" /\ b \notin EligibleBids -> "invalid"
      [] Decision = "no_winner" -> "invalid"
      [] OTHER -> "cancelled"

SettledBids ==
    [b \in BidIds |-> IF ActiveBid(b) THEN WithStatus(bids[b], SettledStatus(b)) ELSE bids[b]]

\* Mutant of AuctionStatusAfter: a winner is recorded on an open auction.
AuctionStatusLeft(decision) == IF decision = "winner" THEN status ELSE "cancelled"

AuctionStatusAfter(decision) ==
    CASE decision = "winner" -> "resolved"
      [] decision = "no_winner" -> "no_winner"
      [] OTHER -> "cancelled"

\* persistWinner and persistWithoutWinner: one transaction.
Settle(r) ==
    /\ ReadyToSettle(r)
    /\ SettlesOccurrence(r)
    /\ status' = AuctionStatusAfter(Decision)
    /\ version' = version + 1
    /\ bids' = SettledBids
    /\ resolution' = [outcome |-> Decision, due |-> run[r].due]
    /\ award' = IF Decision = "winner"
                THEN [team |-> bids[WinningBid].team,
                      offer |-> PricedOffer(EligibleEntries, OffersOf(WinningBid)),
                      bid |-> WinningBid]
                ELSE award
    /\ available' = (available /\ Decision # "winner")
    /\ run' = Step(r, "completed")
    /\ UNCHANGED <<now, league, commissioner, openedAt, resolvesAt, history, jobs, bounds>>

\* After the roster locks were awaited the run is closed, or the lease was
\* taken over in the meantime and the runner passes on.
SucceedRun(r) ==
    /\ run[r].pc = "completed"
    /\ jobs' = IF HoldsLease(r)
               THEN [jobs EXCEPT ![run[r].due] =
                       [status |-> "succeeded", version |-> run[r].runVersion + 1]]
               ELSE jobs
    /\ run' = [run EXCEPT ![r] = Idle]
    /\ UNCHANGED <<now, world, auction, bids, history, outcome, bounds>>

FailRun(r) ==
    /\ run[r].pc = "failing"
    /\ jobs' = IF HoldsLease(r)
               THEN [jobs EXCEPT ![run[r].due] =
                       [status |-> "failed", version |-> run[r].runVersion + 1]]
               ELSE jobs
    /\ run' = [run EXCEPT ![r] = Idle]
    /\ UNCHANGED <<now, world, auction, bids, history, outcome, bounds>>

Fault == BeforeLastLease /\ faults < MaxFaults /\ faults' = faults + 1 /\ UNCHANGED interventions

\* The settling transaction is rolled back by an error of the database, or
\* after it the roster locks or succeedRun throw: the run of an auction that
\* is settled is then recorded as failed.
CompletionErrs(r) ==
    /\ Fault
    /\ run[r].pc \in {"claimed", "completed"}
    /\ run' = Step(r, "failing")
    /\ UNCHANGED <<now, world, auction, bids, history, outcome, jobs>>

\* The process dies; the database keeps what was committed.
Crash(r) ==
    /\ Fault
    /\ run[r] # Idle
    /\ run' = [run EXCEPT ![r] = Idle]
    /\ UNCHANGED <<now, world, auction, bids, history, outcome, jobs>>

----------------------------------------------------------------------------
JobStep(r) ==
    \/ ClaimRun(r) \/ SkipRun(r)
    \/ CompletionConflicts(r) \/ CompletionReplays(r) \/ CompletionIncomplete(r) \/ Settle(r)
    \/ SucceedRun(r) \/ FailRun(r)

Manage ==
    \/ \E t \in Teams, o \in Offers, b \in BidIds :
          (\E a \in Authorities : Start(t, o, b, a)) \/ SubmitBid(t, o, b)
    \/ \E b \in BidIds, o \in Offers : EditBid(b, o) \/ CommissionerEdits(b, o)
    \/ \E b \in BidIds : CommissionerRemoves(b)
    \/ CommissionerCancels
    \/ \E c \in Times : ChangeTiming(c)
    \/ RequestResolution
    \/ \E u \in Teams \cup {NoTeam} : ReassignCommissioner(u)
    \/ PauseLeague \/ ResumeLeague \/ PlayerLeavesPool

Next ==
    \/ Tick
    \/ Manage
    \/ \E r \in Runners : ListDue(r) \/ JobStep(r) \/ CompletionErrs(r) \/ Crash(r)

Spec == Init /\ [][Next]_vars

\* The scheduler starts a cycle on every interval, a started cycle goes on,
\* the clock advances and a paused league is resumed in the end.
FairSpec ==
    /\ Spec
    /\ WF_vars(Tick)
    /\ WF_vars(ResumeLeague)
    /\ \A r \in Runners : WF_vars(ListDue(r)) /\ WF_vars(JobStep(r))

----------------------------------------------------------------------------
Bid == [team : Teams, status : BidStatuses, offer : Offers, firstAt : Nat, lastEdit : Nat,
        edits : Nat, authority : Authorities, actor : Teams \cup {NoTeam}, starting : BOOLEAN]
Event == [bid : BidIds, team : Teams, offer : Offers, at : Nat,
          kind : {"submitted", "edited", "administered"}]
Job == [status : {"pending", "succeeded", "failed"}, version : Nat]
          \cup [status : {"leased"}, version : Nat, owner : Runners, expires : Nat]
Run == [pc : {"listed"}, due : Times, auctionVersion : Nat, at : Nat]
          \cup [pc : {"claimed", "completed", "failing"}, due : Times, auctionVersion : Nat,
               runVersion : Nat]

\* Types of the rows and of the runners' locals.
TypeOK ==
    /\ now \in Times
    /\ league \in {"active", "frozen"}
    /\ commissioner \in Teams \cup {NoTeam}
    /\ available \in BOOLEAN
    /\ status \in {"none", "open", "resolved", "no_winner", "cancelled"}
    /\ version \in Nat /\ openedAt \in Nat /\ resolvesAt \in Nat
    /\ bids \in [BidIds -> Bid \cup {NoBid}]
    /\ history \in SUBSET Event
    /\ award \in [team : Teams, offer : Offers, bid : BidIds] \cup {NoAward}
    /\ resolution \in [outcome : Outcomes, due : Nat] \cup {NoResolution}
    /\ jobs \in [Times -> Job \cup {NoJob}]
    /\ run \in [Runners -> Run \cup {Idle}]
    /\ interventions \in Nat /\ faults \in Nat

\* The award: the winner pays an offer it really made, that offer beats
\* every losing bid as it stood at the end, and no cheaper one would have.
AwardIsLowestWinningOffer ==
    award # NoAward =>
        LET losers == {EntryOf(b) : b \in {c \in BidIds : bids[c].status = "lost"}}
            Wins(o) == \A l \in losers : RanksAhead(Reoffered(EntryOf(award.bid), o), l)
            made == {h.offer : h \in {g \in history : g.bid = award.bid}}
        IN /\ bids[award.bid].status = "won"
           /\ bids[award.bid].team = award.team
           /\ award.offer \in made
           /\ Wins(award.offer)
           /\ \A o \in made :
                 Wins(o) /\ o.aav <= bids[award.bid].offer.aav
                    => CheaperOrEqual(award.offer, o)

\* Raising a bid that is winning already never changes what it would pay,
\* whatever it had offered before, as long as it meets the minimum of its
\* new term: an edit is accepted below it, and then the bid counts no more.
PresentPrice == PricedOffer(EligibleEntries, OffersOf(WinningBid))

RaiseKeepsPrice ==
    [][\A b \in BidIds :
          /\ EligibleBids # {} /\ b = WinningBid
          /\ bids' # bids /\ bids'[b].status = "active" /\ bids'[b].team = bids[b].team
          /\ bids'[b].offer.aav >= bids[b].offer.aav /\ bids'[b].offer.term >= bids[b].offer.term
          /\ UNCHANGED [c \in BidIds \ {b} |-> bids[c]]
          /\ MeetsMinimum(b)'
          => PresentPrice' = PresentPrice]_vars

\* The job settles nothing in a paused league, although it may have listed
\* and leased the auction before the pause.
PausedLeagueIsNotSettled ==
    [][league = "frozen" =>
          \/ resolution' = resolution
          \/ resolution'.outcome = "cancelled"]_vars

\* Only the runner with the most recent lease on an occurrence settles it.
OnlyLatestLeaseSettles ==
    [][\A r, q \in Runners :
          /\ resolution' # resolution /\ run'[r] # run[r]
          /\ q # r /\ run[q].pc \in {"claimed", "failing"}
          /\ run[q].due = run[r].due
          => run[q].runVersion < run[r].runVersion]_vars

\* A job run recorded as succeeded has the settlement to show for it.
SucceededRunsSettled ==
    \A d \in Times : jobs[d].status = "succeeded" =>
        resolution # NoResolution /\ resolution.due = d

\* A due auction is settled in the end, whatever crashed, failed or was
\* paused on the way.
DueAuctionsAreSettled == (status = "open" /\ IsDue) ~> resolution # NoResolution

Sealed == INSTANCE SealedAuction WITH
    open    <- status \in {"none", "open"},
    offered <- {[team |-> h.team, offer |-> h.offer] : h \in history},
    award   <- IF award = NoAward THEN NoAward
               ELSE [team |-> award.team, offer |-> award.offer]

\* The auction keeps the promise of SealedAuction.
ImplementsSealedAuction == Sealed!Spec

----------------------------------------------------------------------------
\* auctionResolutionFoundation.test.js: "uses historical submission authority
\* after later manager departure".  A manager's bid that meets its minimum is
\* not invalidated by what became of the manager's permission afterwards.
HistoricalAuthorityDecides ==
    \A b \in BidIds :
        bids[b].status = "invalid" /\ bids[b].authority = "manager" => ~MeetsMinimum(b)

\* auctionCreationFoundation.test.js: "allows an active member platform
\* administrator to act as commissioner".  The opening bid such a start
\* records counts like a commissioner's.
AdministratorActsAsCommissioner ==
    \A b \in BidIds :
        bids[b].status = "invalid"
           /\ bids[b].authority = "platform_administrator_as_commissioner"
        => ~MeetsMinimum(b)
=============================================================================
