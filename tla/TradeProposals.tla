--------------------------- MODULE TradeProposals ---------------------------
(***************************************************************************)
(* Trades between two or three teams of one league: proposals and counter- *)
(* proposals, each team's answer, commissioner approval of trades with     *)
(* future considerations, the exchange itself with the cancellation of     *)
(* every offer it overtakes, reversal or correction by the commissioner,   *)
(* changes of the league's trade deadline, and the job that expires offers.*)
(*                                                                         *)
(* An HTTP command reads and writes without an await, in one transaction,  *)
(* and is one action; a command the code refuses changes nothing and is    *)
(* left out.  The job claims, expires and completes in three transactions, *)
(* and a crash or another process may come between.                        *)
(***************************************************************************)
EXTENDS Integers, Sequences, FiniteSets, FiniteSetsExt

CONSTANTS
    Teams,
    Contracts,         \* contracts with the ownership of their player
    Proposals,         \* trades.id, handed out in this order
    Nobody,            \* owner of what is bought out, settled or not there
    Lifetime,          \* TRADE_PROPOSAL_LIFETIME_MS
    Deadlines,         \* trade deadlines a commissioner may set
    Amounts,           \* retained amounts an offer may request
    RetentionCeiling,  \* half of a contract's AAV
    RetentionSlots,    \* active retentions a team may carry
    PromisesAllowed,   \* offers may create future considerations
    Workers,           \* processes that run the expiry job
    LeaseDuration,     \* leaseDurationMs of the job
    MaxClauses,        \* bound: items, retentions and promises in an offer
    MaxTime,           \* bound: the clock stops here
    MaxInterventions,  \* bound: acts from outside the trades
    MaxCrashes         \* bound: crashes of the job

ASSUME TradeAssumption ==
    /\ Proposals \subseteq Nat
    /\ IsFiniteSet(Contracts) /\ Contracts \cap Proposals = {}
    /\ Nobody \notin Teams
    /\ Lifetime \in Nat \ {0} /\ LeaseDuration \in Nat \ {0}
    /\ Deadlines \subseteq Nat /\ Deadlines # {}
    /\ Amounts \subseteq Nat \ {0}
    /\ RetentionCeiling \in Nat /\ RetentionSlots \in Nat
    /\ PromisesAllowed \in BOOLEAN
    /\ MaxClauses \in Nat
    /\ MaxTime \in Nat /\ MaxInterventions \in Nat /\ MaxCrashes \in Nat

VARIABLES
    now,           \* the clock
    league,        \* leagues.status: "active" or "frozen" (paused)
    tradeDeadline, \* league_settings.trade_deadline_at_ms
    owner,         \* team that holds an item
    touched,       \* version of an item: grows with every change of it
    trade,         \* trades with trade_assets and trade_participants
    retention,     \* retention_obligations by the trade that created them
    executed,      \* the trades in the order of their exchange
    lapsed,        \* offers that were open when their deadline passed
    jobs,          \* job_runs by trade and deadline (the occurrence key)
    work,          \* what a worker has in its hands
    interventions, \* acts from outside so far (bound)
    crashes        \* crashes so far (bound)

rosters == <<owner, touched, retention>>
record == <<executed, lapsed>>
job == <<jobs, work>>
bounds == <<interventions, crashes>>
vars == <<now, league, tradeDeadline, rosters, trade, record, job, bounds>>

\* What a trade moves: contracts, and the future considerations row an
\* earlier trade created.
Items == Contracts \cup Proposals
Times == 0..MaxTime

NoTrade == [status |-> "none"]
NoJob == [status |-> "none"]
Idle == [pc |-> "idle"]

Init ==
    /\ now = 0
    /\ league = "active"
    /\ tradeDeadline \in Deadlines
    /\ \E holders \in [Contracts -> Teams] :
          owner = [i \in Items |-> IF i \in Contracts THEN holders[i] ELSE Nobody]
    /\ touched = [i \in Items |-> 0]
    /\ trade = [p \in Proposals |-> NoTrade]
    /\ retention = [p \in Proposals |-> {}]
    /\ executed = <<>>
    /\ lapsed = {}
    /\ jobs = [o \in Proposals \X Times |-> NoJob]
    /\ work = [w \in Workers |-> Idle]
    /\ interventions = 0
    /\ crashes = 0

----------------------------------------------------------------------------
\* The state of trades and assets.

Open(p) == trade[p].status \in {"proposed", "awaiting"}
Moved(p) == DOMAIN trade[p].moves
Fresh == {p \in Proposals : /\ trade[p].status = "none"
                            /\ \A q \in Proposals : q < p => trade[q].status # "none"}

\* Terms that name a future consideration, new or existing.
NamesFuture(terms) == terms.promise # {} \/ DOMAIN terms.moves \cap Proposals # {}

\* Active retentions: trade, contract and the team that pays.
Retained == {r \in Proposals \X Contracts : r[2] \in retention[r[1]]}
PayerOf(r) == trade[r[1]].moves[r[2]].from
AmountOf(r) == trade[r[1]].retained[r[2]]

\* Mutant of RetentionAllowed: only the offer itself is looked at.
RetentionAllowedAlone(terms) ==
    /\ \A c \in DOMAIN terms.retained : terms.retained[c] <= RetentionCeiling
    /\ \A t \in Teams :
          Cardinality({c \in DOMAIN terms.retained : terms.moves[c].from = t}) <= RetentionSlots

RetentionAllowed(terms) ==
    LET asked == DOMAIN terms.retained
    IN /\ \A c \in asked :
             /\ \A r \in Retained : r[2] = c => PayerOf(r) # terms.moves[c].from
             /\ terms.retained[c]
                  + MapThenSumSet(AmountOf, {r \in Retained : r[2] = c}) <= RetentionCeiling
       /\ \A t \in {terms.moves[c].from : c \in asked} :
             Cardinality({c \in asked : terms.moves[c].from = t})
               + Cardinality({r \in Retained : PayerOf(r) = t}) <= RetentionSlots

\* Mutant of Eligible: the holders are not looked at again.
EligibleByRetention(terms) == RetentionAllowed(terms)

\* snapshotAssets, at the proposal and again at every answer.
Eligible(terms) ==
    /\ \A i \in DOMAIN terms.moves : owner[i] = terms.moves[i].from
    /\ RetentionAllowed(terms)

----------------------------------------------------------------------------
\* Proposals.

\* Every team contributes something other than a retention, and retention
\* is asked for on contracts of the offer only.
Promises(teams) ==
    {{}} \cup (IF PromisesAllowed
                 THEN {{<<x, y>>} : x \in teams, y \in teams} \ {{<<x, x>>} : x \in teams}
                 ELSE {})

Contributes(t, terms) ==
    \/ \E i \in DOMAIN terms.moves : terms.moves[i].from = t
    \/ \E promise \in terms.promise : promise[1] = t

Written(teams) ==
    UNION {{[moves |-> [i \in items |-> [from |-> owner[i], to |-> dest[i], version |-> touched[i]]],
             retained |-> kept,
             promise |-> promise] :
               dest \in {d \in [items -> teams] : \A i \in items : d[i] # owner[i]},
               kept \in UNION {[some -> Amounts] : some \in SUBSET (items \cap Contracts)},
               promise \in Promises(teams)} :
           items \in SUBSET {i \in Items : owner[i] \in teams}}

Clauses(terms) ==
    Cardinality(DOMAIN terms.moves) + Cardinality(DOMAIN terms.retained) + Cardinality(terms.promise)

Offers(teams) == {terms \in Written(teams) : Clauses(terms) <= MaxClauses}

\* Mutant of Lapses: an offer may outlive its lifetime.
LapsesAtDeadline(created) == tradeDeadline

Lapses(created) == Min({created + Lifetime, tradeDeadline})

Submitted(proposer, teams, terms) ==
    [status |-> "proposed", version |-> 1, proposer |-> proposer, teams |-> teams,
     moves |-> terms.moves, retained |-> terms.retained, promise |-> terms.promise,
     consents |-> {proposer}, expires |-> now + Lifetime, effective |-> Lapses(now)]

MayPropose(proposer, teams, terms) ==
    /\ league = "active"
    /\ now < tradeDeadline
    /\ proposer \in teams /\ Cardinality(teams) \in {2, 3}
    /\ \A t \in teams : Contributes(t, terms)
    /\ Eligible(terms)

Propose(p, proposer, teams, terms) ==
    /\ p \in Fresh
    /\ MayPropose(proposer, teams, terms)
    /\ trade' = [trade EXCEPT ![p] = Submitted(proposer, teams, terms)]
    /\ UNCHANGED <<now, league, tradeDeadline, rosters, record, job, bounds>>

\* Answers are given before the deadline, while the league is active.
MayAnswer(p) == Open(p) /\ league = "active" /\ now < trade[p].effective

Closed(p, status) ==
    [trade EXCEPT ![p].status = status, ![p].version = @ + 1]

Reject(p, t) ==
    /\ MayAnswer(p)
    /\ t \in trade[p].teams \ {trade[p].proposer}
    /\ trade' = [Closed(p, "declined") EXCEPT ![p].consents = @ \ {t}]
    /\ UNCHANGED <<now, league, tradeDeadline, rosters, record, job, bounds>>

Cancel(p) ==
    /\ MayAnswer(p)
    /\ trade' = Closed(p, "cancelled")
    /\ UNCHANGED <<now, league, tradeDeadline, rosters, record, job, bounds>>

\* A counter-offer p takes the place of the open offer q and declines it.
\* Three teams may also counter an offer that one of them has declined.
MayCounter(q, proposer, teams) ==
    /\ trade[q].status \in {"proposed", "declined"}
    /\ teams = trade[q].teams
    /\ trade[q].status = "proposed" => proposer # trade[q].proposer /\ now < trade[q].effective
    /\ trade[q].status = "declined" => Cardinality(teams) = 3

Counter(p, q, proposer, teams, terms) ==
    /\ p \in Fresh
    /\ MayCounter(q, proposer, teams)
    /\ MayPropose(proposer, teams, terms)
    /\ LET answered == IF trade[q].status = "declined" THEN trade
                       ELSE [Closed(q, "declined") EXCEPT ![q].consents = @ \ {proposer}]
       IN trade' = [answered EXCEPT ![p] = Submitted(proposer, teams, terms)]
    /\ UNCHANGED <<now, league, tradeDeadline, rosters, record, job, bounds>>

----------------------------------------------------------------------------
\* Acceptance, approval and the exchange.

\* A future consideration is settled when it comes back to the team owing it.
OwedBy(i) == (CHOOSE promise \in trade[i].promise : TRUE)[1]
Settles(p, i) == i \in Proposals /\ trade[p].moves[i].to = OwedBy(i)
HolderAfter(p, i) == IF Settles(p, i) THEN Nobody ELSE trade[p].moves[i].to
Entitled(p) == (CHOOSE promise \in trade[p].promise : TRUE)[2]

\* Mutant of Overtaken: offers that await approval are forgotten.
OvertakenUnlessAwaiting(p, q) ==
    q # p /\ trade[q].status = "proposed" /\ Moved(p) \cap Moved(q) # {}

\* Another open offer names an item this one moved.
Overtaken(p, q) == q # p /\ Open(q) /\ Moved(p) \cap Moved(q) # {}

Exchange(p) ==
    /\ owner' = [i \in Items |->
          IF i \in Moved(p) THEN HolderAfter(p, i)
          ELSE IF i = p /\ trade[p].promise # {} THEN Entitled(p)
          ELSE owner[i]]
    /\ touched' = [i \in Items |->
          IF i \in Moved(p) \/ (i = p /\ trade[p].promise # {}) THEN touched[i] + 1 ELSE touched[i]]
    /\ retention' = [retention EXCEPT ![p] = DOMAIN trade[p].retained]
    /\ trade' = [q \in Proposals |->
          IF q = p THEN [trade[p] EXCEPT !.status = "completed", !.version = @ + 1,
                                         !.consents = trade[p].teams]
          ELSE IF Overtaken(p, q)
            THEN [trade[q] EXCEPT !.status = "cancelled", !.version = @ + 1]
          ELSE trade[q]]
    /\ executed' = Append(executed, p)

\* Team t of the offer accepts; every asset is checked again.
MayAccept(p, t) ==
    /\ trade[p].status = "proposed"
    /\ MayAnswer(p)
    /\ t \in trade[p].teams \ trade[p].consents
    /\ Eligible(trade[p])

LastToAccept(p, t) == trade[p].teams \ trade[p].consents = {t}

AcceptInPart(p, t) ==
    /\ MayAccept(p, t)
    /\ ~LastToAccept(p, t)
    /\ trade' = [trade EXCEPT ![p].consents = @ \cup {t}, ![p].version = @ + 1]
    /\ UNCHANGED <<now, league, tradeDeadline, rosters, record, job, bounds>>

AcceptForApproval(p, t) ==
    /\ MayAccept(p, t)
    /\ LastToAccept(p, t)
    /\ NamesFuture(trade[p])
    /\ trade' = [Closed(p, "awaiting") EXCEPT ![p].consents = @ \cup {t}]
    /\ UNCHANGED <<now, league, tradeDeadline, rosters, record, job, bounds>>

AcceptAndExchange(p, t) ==
    /\ MayAccept(p, t)
    /\ LastToAccept(p, t)
    /\ ~NamesFuture(trade[p])
    /\ Exchange(p)
    /\ UNCHANGED <<now, league, tradeDeadline, lapsed, job, bounds>>

\* The commissioner may approve in a paused league too.
Approve(p) ==
    /\ trade[p].status = "awaiting"
    /\ now < trade[p].effective
    /\ trade[p].consents = trade[p].teams
    /\ Eligible(trade[p])
    /\ Exchange(p)
    /\ UNCHANGED <<now, league, tradeDeadline, lapsed, job, bounds>>

----------------------------------------------------------------------------
\* Recovery of a completed trade by the commissioner.

\* Everything the trade moved or created is as the trade left it, and it
\* had not changed between the proposal and the exchange.
Unchanged(p, i) ==
    /\ owner[i] = HolderAfter(p, i)
    /\ touched[i] = trade[p].moves[i].version + 1

\* Mutant of Recoverable: one item that is still in place will do.
RecoverableInPart(p) == \E i \in Moved(p) : Unchanged(p, i)

Recoverable(p) ==
    /\ \A i \in Moved(p) : Unchanged(p, i)
    /\ retention[p] = DOMAIN trade[p].retained
    /\ trade[p].promise # {} => owner[p] = Entitled(p) /\ touched[p] = 1

\* trade_assets.future_consideration_id refers to the row to be deleted.
Referenced(p) == \E q \in Proposals : trade[q].status # "none" /\ p \in Moved(q)

Reverse(p) ==
    /\ trade[p].status = "completed"
    /\ Recoverable(p)
    /\ trade[p].promise # {} => ~Referenced(p)
    /\ owner' = [i \in Items |->
          IF i \in Moved(p) THEN trade[p].moves[i].from
          ELSE IF i = p THEN Nobody
          ELSE owner[i]]
    /\ touched' = [i \in Items |-> IF i \in Moved(p) THEN touched[i] + 1 ELSE touched[i]]
    /\ retention' = [retention EXCEPT ![p] = {}]
    /\ trade' = Closed(p, "reversed")
    /\ UNCHANGED <<now, league, tradeDeadline, record, job, bounds>>

\* A trade that cannot be reversed is marked for correction by hand; a
\* roster slot taken since by another player also makes it so.
MarkForCorrection(p, slotTaken) ==
    /\ trade[p].status = "completed"
    /\ Recoverable(p) => slotTaken
    /\ slotTaken => Moved(p) \cap Contracts # {}
    /\ trade' = Closed(p, "correction_required")
    /\ UNCHANGED <<now, league, tradeDeadline, rosters, record, job, bounds>>

----------------------------------------------------------------------------
\* The rest of the league.

Intervene ==
    /\ interventions < MaxInterventions
    /\ interventions' = interventions + 1
    /\ UNCHANGED crashes

\* A team buys a contract out: the pending offers of it are cancelled.
Offering(c) == {q \in Proposals : Open(q) /\ c \in Moved(q)}

BuyOut(c) ==
    /\ league = "active"
    /\ owner[c] # Nobody
    /\ Intervene
    /\ owner' = [owner EXCEPT ![c] = Nobody]
    /\ touched' = [touched EXCEPT ![c] = @ + 1]
    /\ trade' = [q \in Proposals |->
          IF q \in Offering(c) THEN [trade[q] EXCEPT !.status = "cancelled", !.version = @ + 1]
          ELSE trade[q]]
    /\ UNCHANGED <<now, league, tradeDeadline, retention, record, job>>

\* A roster move gives the ownership a new version.
MoveOnRoster(c) ==
    /\ league = "active"
    /\ owner[c] # Nobody
    /\ Intervene
    /\ touched' = [touched EXCEPT ![c] = @ + 1]
    /\ UNCHANGED <<now, league, tradeDeadline, owner, retention, trade, record, job>>

\* No pause begins while a run of a job is leased.
PauseLeague ==
    /\ league = "active"
    /\ \A o \in DOMAIN jobs : jobs[o].status # "leased"
    /\ Intervene
    /\ league' = "frozen"
    /\ UNCHANGED <<now, tradeDeadline, rosters, trade, record, job>>

ResumeLeague ==
    /\ league = "frozen"
    /\ league' = "active"
    /\ UNCHANGED <<now, tradeDeadline, rosters, trade, record, job, bounds>>

\* Mutant of LapsedBefore: the lifetime is the only thing looked at.
LapsedByLifetime(p) == trade[p].expires <= now

\* A new trade deadline moves the deadline of the offers that have not
\* lapsed, within their lifetime; "never revive" an offer that has.
LapsedBefore(p) ==
    trade[p].effective <= now \/ trade[p].expires <= now \/ tradeDeadline <= now

Rescheduled(p, deadline) == Min({trade[p].expires, deadline})

ChangeDeadline(deadline) ==
    /\ league = "active"
    /\ \A p \in Proposals : Open(p) => trade[p].effective <= tradeDeadline
    /\ deadline > now /\ deadline # tradeDeadline
    /\ Intervene
    /\ tradeDeadline' = deadline
    /\ trade' = [p \in Proposals |->
          IF Open(p) /\ ~LapsedBefore(p) /\ Rescheduled(p, deadline) # trade[p].effective
            THEN [trade[p] EXCEPT !.effective = Rescheduled(p, deadline), !.version = @ + 1]
            ELSE trade[p]]
    /\ UNCHANGED <<now, league, rosters, record, job>>

Tick ==
    /\ now < MaxTime
    /\ now' = now + 1
    /\ lapsed' = lapsed \cup {p \in Proposals : Open(p) /\ trade[p].effective <= now + 1}
    /\ UNCHANGED <<league, tradeDeadline, rosters, trade, executed, job, bounds>>

----------------------------------------------------------------------------
\* The job trades:expire:target.

\* listDue: one batch for the whole cycle.
Due == {[trade |-> p, deadline |-> trade[p].effective, version |-> trade[p].version] :
           p \in {q \in Proposals : Open(q) /\ trade[q].effective <= now}}

List(w) ==
    /\ work[w] = Idle
    /\ league # "frozen"
    /\ Due # {}
    /\ work' = [work EXCEPT ![w] = [pc |-> "batch", at |-> now, due |-> Due]]
    /\ UNCHANGED <<now, league, tradeDeadline, rosters, trade, record, jobs, bounds>>

Occurrence(d) == <<d.trade, d.deadline>>

\* Mutant of Claimable: a lease that ran out is not taken over.
ClaimableUnlessLeased(row, at) == row.status \in {"none", "failed"}

Claimable(row, at) ==
    \/ row.status \in {"none", "failed"}
    \/ row.status = "leased" /\ row.until <= at

RunVersion(row) == IF row.status = "none" THEN 0 ELSE row.version

\* Next offer of the batch, whether or not its run can be leased.
Claim(w, d) ==
    /\ work[w].pc = "batch"
    /\ d \in work[w].due
    /\ LET row == jobs[Occurrence(d)]
           rest == work[w].due \ {d}
       IN IF Claimable(row, work[w].at)
            THEN /\ jobs' = [jobs EXCEPT ![Occurrence(d)] =
                       [status |-> "leased", worker |-> w, until |-> work[w].at + LeaseDuration,
                        version |-> RunVersion(row) + 1]]
                 /\ work' = [work EXCEPT ![w] =
                       [pc |-> "claimed", at |-> work[w].at, due |-> rest,
                        offer |-> d, version |-> RunVersion(row) + 1]]
            ELSE /\ work' = [work EXCEPT ![w].due = rest]
                 /\ UNCHANGED jobs
    /\ UNCHANGED <<now, league, tradeDeadline, rosters, trade, record, bounds>>

\* The run is still the one this worker leased.
HoldsRun(w) ==
    LET row == jobs[Occurrence(work[w].offer)]
    IN row.status = "leased" /\ row.worker = w /\ row.version = work[w].version

HoldsLease(w) == HoldsRun(w) /\ jobs[Occurrence(work[w].offer)].until > now

NextOffer(w) == [work EXCEPT ![w] = [pc |-> "batch", at |-> work[w].at, due |-> work[w].due]]

\* expireProposal: a stale lease skips the offer, a paused league or a
\* changed offer fails the run, a closed offer completes it.
Current(d) ==
    /\ league # "frozen"
    /\ Open(d.trade) => trade[d.trade].effective = d.deadline /\ trade[d.trade].version = d.version

\* Mutant of Outcome: the result of the transaction is not looked at.
OutcomeUnchecked(w) == IF HoldsLease(w) THEN "done" ELSE "skipped"

Outcome(w) ==
    CASE ~HoldsLease(w) -> "skipped"
      [] HoldsLease(w) /\ ~Current(work[w].offer) -> "failed"
      [] OTHER -> "done"

Expire(w) ==
    /\ work[w].pc = "claimed"
    /\ LET p == work[w].offer.trade
       IN trade' = IF HoldsLease(w) /\ Current(work[w].offer) /\ Open(p)
                     THEN Closed(p, "expired") ELSE trade
    /\ work' = IF Outcome(w) = "skipped" THEN NextOffer(w) ELSE [work EXCEPT ![w].pc = Outcome(w)]
    /\ UNCHANGED <<now, league, tradeDeadline, rosters, record, jobs, bounds>>

EndedRun(w, status) ==
    [jobs EXCEPT ![Occurrence(work[w].offer)] = [status |-> status, version |-> work[w].version + 1]]

\* succeedRun; a version conflict skips the offer.
Succeed(w) ==
    /\ work[w].pc = "done"
    /\ jobs' = IF HoldsRun(w) THEN EndedRun(w, "succeeded") ELSE jobs
    /\ work' = NextOffer(w)
    /\ UNCHANGED <<now, league, tradeDeadline, rosters, trade, record, bounds>>

\* failRun; a version conflict there ends the whole cycle.
Fail(w) ==
    /\ work[w].pc = "failed"
    /\ jobs' = IF HoldsRun(w) THEN EndedRun(w, "failed") ELSE jobs
    /\ work' = IF HoldsRun(w) THEN NextOffer(w) ELSE [work EXCEPT ![w] = Idle]
    /\ UNCHANGED <<now, league, tradeDeadline, rosters, trade, record, bounds>>

EndCycle(w) ==
    /\ work[w].pc = "batch" /\ work[w].due = {}
    /\ work' = [work EXCEPT ![w] = Idle]
    /\ UNCHANGED <<now, league, tradeDeadline, rosters, trade, record, jobs, bounds>>

\* Bound: the clock still has room for a lease to expire.
BeforeLastLease == now + LeaseDuration <= MaxTime

\* The process ends between two transactions of the job.
Crash(w) ==
    /\ work[w] # Idle
    /\ BeforeLastLease
    /\ crashes < MaxCrashes
    /\ crashes' = crashes + 1
    /\ work' = [work EXCEPT ![w] = Idle]
    /\ UNCHANGED <<now, league, tradeDeadline, rosters, trade, record, jobs, interventions>>

----------------------------------------------------------------------------
Submissions ==
    \E p \in Fresh, teams \in SUBSET Teams : \E proposer \in teams, terms \in Offers(teams) :
        \/ Propose(p, proposer, teams, terms)
        \/ \E q \in Proposals : Counter(p, q, proposer, teams, terms)

Answers ==
    \E p \in Proposals :
        \/ Cancel(p)
        \/ \E t \in Teams : Reject(p, t) \/ AcceptInPart(p, t)
                               \/ AcceptForApproval(p, t) \/ AcceptAndExchange(p, t)

Commissions ==
    \/ \E p \in Proposals :
          Approve(p) \/ Reverse(p) \/ \E slotTaken \in BOOLEAN : MarkForCorrection(p, slotTaken)
    \/ \E d \in Deadlines : ChangeDeadline(d)
    \/ PauseLeague \/ ResumeLeague

Step(w) ==
    List(w) \/ (\E d \in Due \cup (IF work[w] = Idle THEN {} ELSE work[w].due) : Claim(w, d))
        \/ Expire(w) \/ Succeed(w) \/ Fail(w) \/ EndCycle(w)

Next ==
    \/ Submissions \/ Answers \/ Commissions
    \/ \E c \in Contracts : BuyOut(c) \/ MoveOnRoster(c)
    \/ Tick
    \/ \E w \in Workers : Step(w) \/ Crash(w)

Spec == Init /\ [][Next]_vars

\* The clock runs, and the scheduler starts the job's next cycle after one
\* has ended; transactions in a cycle are not delayed for ever.
FairSpec == Spec /\ WF_vars(Tick) /\ \A w \in Workers : WF_vars(Step(w))

----------------------------------------------------------------------------
\* Properties.

Statuses == {"proposed", "awaiting", "completed", "declined", "cancelled", "expired",
             "reversed", "correction_required"}

Terms(p) ==
    /\ trade[p].teams \subseteq Teams /\ trade[p].proposer \in trade[p].teams
    /\ trade[p].consents \subseteq trade[p].teams
    /\ Moved(p) \subseteq Items /\ DOMAIN trade[p].retained \subseteq Moved(p) \cap Contracts
    /\ \A i \in Moved(p) : /\ trade[p].moves[i].from \in trade[p].teams
                           /\ trade[p].moves[i].to \in trade[p].teams
                           /\ trade[p].moves[i].version \in Nat
    /\ \A c \in DOMAIN trade[p].retained : trade[p].retained[c] \in Amounts
    /\ trade[p].promise \subseteq trade[p].teams \X trade[p].teams

\* The state has the types of the tables.
TypeOK ==
    /\ now \in Times
    /\ league \in {"active", "frozen"}
    /\ tradeDeadline \in Deadlines
    /\ owner \in [Items -> Teams \cup {Nobody}]
    /\ touched \in [Items -> Nat]
    /\ \A p \in Proposals : trade[p] # NoTrade =>
          /\ trade[p].status \in Statuses
          /\ trade[p].version \in Nat \ {0}
          /\ trade[p].effective <= trade[p].expires
          /\ Terms(p)
    /\ \A p \in Proposals : retention[p] = {} \/ retention[p] = DOMAIN trade[p].retained
    /\ executed \in Seq(Proposals)
    /\ lapsed \subseteq Proposals
    /\ \A o \in Proposals \X Times : jobs[o].status \in {"none", "leased", "succeeded", "failed"}
    /\ \A w \in Workers : work[w].pc \in {"idle", "batch", "claimed", "done", "failed"}
    /\ interventions \in 0..MaxInterventions
    /\ crashes \in 0..MaxCrashes

\* Whatever was offered, countered, accepted and reversed in whatever order,
\* a contract is with the team that the latest exchange not reversed gave it
\* to, or with its first holder when all were reversed.
ExchangesOf(c) == {k \in DOMAIN executed : c \in Moved(executed[k])}
StandingExchangesOf(c) == {k \in ExchangesOf(c) : trade[executed[k]].status # "reversed"}

HolderFollowsTrades(c) ==
    LET all == ExchangesOf(c)
        standing == StandingExchangesOf(c)
    IN IF standing # {} THEN owner[c] = trade[executed[Max(standing)]].moves[c].to
       ELSE all # {} => owner[c] = trade[executed[Min(all)]].moves[c].from

HoldersFollowTrades ==
    \A c \in Contracts : owner[c] # Nobody => HolderFollowsTrades(c)

\* An open offer names items that their sources still hold: exchanges and
\* buyouts close the offers they overtake.  Only a reversal leaves offers
\* behind, those made by the team that has to give the item back.
ReturnedFrom(i, t) ==
    \E q \in Proposals : trade[q].status = "reversed" /\ i \in Moved(q)
                            /\ trade[q].moves[i].to = t

OpenOffersAreBacked ==
    \A p \in Proposals : Open(p) =>
        \A i \in Moved(p) : owner[i] = trade[p].moves[i].from
                              \/ ReturnedFrom(i, trade[p].moves[i].from)

\* Offers that are legal one by one never add up to more retention than a
\* team may carry or a contract allows, in whatever order they are accepted.
RetentionWithinLimits ==
    /\ \A t \in Teams : Cardinality({r \in Retained : PayerOf(r) = t}) <= RetentionSlots
    /\ \A c \in Contracts :
          MapThenSumSet(AmountOf, {r \in Retained : r[2] = c}) <= RetentionCeiling
    /\ \A r, s \in Retained : r[2] = s[2] /\ PayerOf(r) = PayerOf(s) => r = s

\* An offer that was open when its deadline passed is never exchanged, even
\* when the job is late or the commissioner reopens the deadline.
LapsedOffersNeverComplete ==
    \A p \in lapsed : trade[p].status \notin {"completed", "reversed", "correction_required"}

\* The run of an occurrence succeeds only when its offer is closed, so that
\* no offer of a paused league or of another deadline is forgotten.
SucceededRunsAreClosed ==
    \A o \in Proposals \X Times : jobs[o].status = "succeeded" => ~Open(o[1])

\* In an active league a lapsed offer is closed at last, although a worker
\* crashed with its lease or a pause came between.
LapsedOffersAreClosed ==
    \A p \in Proposals :
        (league = "active" /\ Open(p) /\ trade[p].effective <= now)
            ~> (league # "active" \/ ~Open(p))

\* A completed trade that the evaluation finds recoverable can be reversed:
\* it is refused a correction, so nothing else is left for it.
RecoverableTradesReverse ==
    \A p \in Proposals :
        trade[p].status = "completed" /\ Recoverable(p) => (trade[p].promise # {} => ~Referenced(p))

----------------------------------------------------------------------------
\* The trades implement the exchange of items they promise: the row of a
\* future consideration is an item that the exchange itself gives.
GivesOf(p) ==
    [i \in Moved(p) \cup {x \in {p} : trade[p].promise # {}} |->
        IF i = p THEN [from |-> Nobody, to |-> Entitled(p)]
        ELSE [from |-> trade[p].moves[i].from, to |-> HolderAfter(p, i)]]

DealOf(p) ==
    CASE trade[p].status = "none" -> [state |-> "none"]
      [] Open(p) -> [state |-> "open", parties |-> trade[p].teams,
                     gives |-> GivesOf(p), agreed |-> trade[p].consents]
      [] trade[p].status \in {"declined", "cancelled", "expired"} -> [state |-> "closed"]
      [] trade[p].status \in {"completed", "correction_required"} ->
            [state |-> "done", gives |-> GivesOf(p)]
      [] trade[p].status = "reversed" -> [state |-> "undone"]

Promised == INSTANCE AssetExchange WITH
    Deals <- Proposals, holder <- owner, deal <- [p \in Proposals |-> DealOf(p)]

ImplementsAssetExchange == Promised!Spec
=============================================================================
