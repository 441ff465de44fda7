---------------------------- MODULE MatchupWeek ----------------------------
(***************************************************************************)
(* One matchup week and the six job occurrences that take it from          *)
(* "scheduled" to "final": a statistics refresh at its start and its end,  *)
(* the baseline, the roster locks, the results and the rollover.           *)
(*                                                                         *)
(* Workers are server processes that share the database.  A cycle reads    *)
(* the clock once, lists what is due and visits it: claim, handler and     *)
(* completion are transactions of their own, with the other process, the   *)
(* clock and a crash in between; a refresh is awaited besides.  A handler  *)
(* is one immediate transaction that rolls back as a whole.                *)
(*                                                                         *)
(* A worker has at most one claim, so its name stands for the lease owner, *)
(* token and row version of the claim; all are fresh after a restart.  The *)
(* status of a matchup follows the week's, and is final with its result.   *)
(* A paused league lists and claims nothing, and no job may be running when *)
(* it is paused: that only delays an occurrence and is left out.           *)
(***************************************************************************)
EXTENDS Integers, FiniteSets

CONSTANTS
    Workers,          \* server processes with an occurrence job
    Leaving,          \* those of a deployment that is being replaced
    Matchups,         \* pairs of teams
    Doubtful,         \* teams whose roster may be illegal at the lock
    Nobody,           \* the holder of a run that nobody holds
    Starts, Baseline, Locks, Ends, \* the instants of the week
    Slots,            \* the instants of the completed-game job
    GamesOver,        \* the instant from which no game of a team's players is pending
    Fresh,            \* the freshness windows, which are equal in the code
    Lease, Retry,     \* leaseDurationMs and retryDelayMs, in ticks
    MaxTime,          \* bound: last tick; a retry is due then at the latest
    MaxCycles         \* bound: cycles of leaving processes

ASSUME WeekAssumption ==
    /\ Matchups # {}
    /\ Doubtful \subseteq UNION Matchups
    /\ Leaving \subseteq Workers
    /\ Nobody \notin Workers
    /\ {Starts, Baseline, Locks, Ends, MaxTime} \subseteq Nat
    /\ Starts <= Baseline /\ Baseline <= Locks /\ Locks < Ends /\ Ends <= MaxTime
    /\ GamesOver \in [UNION Matchups -> 0..MaxTime] /\ MaxTime \in Slots
    /\ {Fresh, Lease, Retry, MaxCycles} \subseteq Nat

VARIABLES
    now,           \* the clock
    week,          \* matchup_weeks.status
    operations,    \* matchup_operations: the occurrences whose transition is recorded
    lock,          \* matchup_roster_locks of each team
    result,        \* matchup_results of each matchup
    late,          \* teams whose late lock is being prepared
    latest,        \* completed_at_ms of the latest successful stat_refreshes row
    baselineFresh, \* the latest refresh by the baseline is within the window
    run,           \* job_runs of the six occurrences
    worker,        \* where execute() stands in each process
    cycles         \* of leaving processes so far (bound)

effects == <<week, operations, lock, result>>
refreshes == <<latest, baselineFresh>>
vars == <<now, effects, late, refreshes, run, worker, cycles>>

Time == 0..MaxTime
Teams == UNION Matchups
Scheduled == [refresh_start |-> Starts, baseline |-> Baseline, lock |-> Locks,
              refresh_end |-> Ends, finalize |-> Ends, rollover |-> Ends]
Occurrences == DOMAIN Scheduled
Refreshing == {"refresh_start", "refresh_end"}

Boundary == [scheduled      |-> [at |-> Baseline, to |-> "baseline_ready"],
             baseline_ready |-> [at |-> Locks, to |-> "live"],
             live           |-> [at |-> Ends, to |-> "awaiting_data"]]

WeekStatus == {"scheduled", "baseline_ready", "live", "awaiting_data", "final"}
LockKinds == {"none", "illegal", "normal", "late"}
NoRefresh == -1
Result == [refresh : Time, lock : [Teams -> LockKinds]]
NoResult == [refresh |-> NoRefresh]
Idle == [pc |-> "idle"]

Init ==
    /\ now = 0
    /\ week = "scheduled"
    /\ operations = {}
    /\ lock = [t \in Teams |-> "none"]
    /\ result = [m \in Matchups |-> NoResult]
    /\ late = {}
    /\ latest = NoRefresh
    /\ baselineFresh = FALSE
    /\ run = [o \in Occurrences |-> [status |-> "pending", holder |-> Nobody,
                                     expires |-> 0, due |-> Scheduled[o]]]
    /\ worker = [w \in Workers |-> Idle]
    /\ cycles = 0

Tick ==
    /\ now < MaxTime
    /\ now' = now + 1
    /\ UNCHANGED <<effects, late, refreshes, run, worker, cycles>>

----------------------------------------------------------------------------
\* The runner: runMatchupOccurrences and SqliteMatchupJobRepository.

\* Mutant of Claimable: an expired lease is not taken over.
ClaimableUnlessRunning(o, t) == run[o].status \in {"pending", "failed"} /\ run[o].due <= t

\* Due for a first or another attempt, or left behind with its lease.
Claimable(o, t) ==
    \/ run[o].status \in {"pending", "failed"} /\ run[o].due <= t
    \/ run[o].status = "running" /\ run[o].expires <= t

\* clock.nowMs() and listDue: what the cycle is going to visit, with the
\* instant by which it is sorted.
ListDue(w) ==
    LET due == {o \in Occurrences : Claimable(o, now)}
    IN /\ worker[w] = Idle
       /\ due # {}
       /\ worker' = [worker EXCEPT ![w] = [pc |-> "cycle", listed |-> now,
                                           batch |-> [o \in due |-> run[o].due]]]
       /\ IF w \in Leaving THEN cycles < MaxCycles /\ cycles' = cycles + 1 ELSE UNCHANGED cycles
       /\ UNCHANGED <<now, effects, late, refreshes, run>>

\* The next of the batch, by instant and schedule; ties go by random ids.
Following(batch) == {o \in DOMAIN batch : \A p \in DOMAIN batch :
    \/ batch[o] < batch[p]
    \/ batch[o] = batch[p] /\ Scheduled[o] <= Scheduled[p]}

\* Where a worker stands once occurrence o of its batch is behind it.
Behind(w, o) ==
    LET rest == DOMAIN worker[w].batch \ {o}
    IN IF rest = {} THEN Idle
       ELSE [pc |-> "cycle", listed |-> worker[w].listed,
             batch |-> [p \in rest |-> worker[w].batch[p]]]

At(w, pc, o) == [pc |-> pc, listed |-> worker[w].listed, batch |-> worker[w].batch, of |-> o]

\* claimTransaction: by the time of the listing, as is the lease.
ClaimRun(w) == \E o \in Following(worker[w].batch) :
    /\ Claimable(o, worker[w].listed)
    /\ run' = [run EXCEPT ![o] = [status |-> "running", holder |-> w,
                                  expires |-> worker[w].listed + Lease, due |-> Scheduled[o]]]
    /\ worker' = [worker EXCEPT ![w] = At(w, "claimed", o)]

\* The listed occurrence is no longer due.
ClaimRefused(w) == \E o \in Following(worker[w].batch) :
    /\ ~Claimable(o, worker[w].listed)
    /\ worker' = [worker EXCEPT ![w] = Behind(w, o)]
    /\ UNCHANGED run

Visit(w) ==
    /\ worker[w].pc = "cycle"
    /\ ClaimRun(w) \/ ClaimRefused(w)
    /\ UNCHANGED <<now, effects, late, refreshes, cycles>>

\* assertCurrent: the row still carries the claim of the execution.
Current(w) == run[worker[w].of].status = "running" /\ run[worker[w].of].holder = w

Done(w, ok) == [worker EXCEPT ![w] = [pc |-> IF ok THEN "succeeding" ELSE "failing",
                                      listed |-> worker[w].listed, batch |-> worker[w].batch,
                                      of |-> worker[w].of]]

\* Each transaction of an execution begins with the guard.
Executes(w, o) == worker[w].pc = "claimed" /\ worker[w].of = o /\ Current(w)

\* The guard reports a lost lease: the occurrence is left to its new holder.
LosesLease(w) ==
    /\ worker[w].pc \in {"claimed", "refreshing"}
    /\ ~Current(w)
    /\ worker' = [worker EXCEPT ![w] = Behind(w, worker[w].of)]
    /\ UNCHANGED <<now, effects, late, refreshes, run, cycles>>

Ended(o, status, due) ==
    [run EXCEPT ![o] = [status |-> status, holder |-> Nobody, expires |-> 0, due |-> due]]

\* succeed: fenced by the claim; a conflict is skipped.
Succeed(w) ==
    /\ worker[w].pc = "succeeding"
    /\ run' = IF Current(w) THEN Ended(worker[w].of, "succeeded", Scheduled[worker[w].of]) ELSE run
    /\ worker' = [worker EXCEPT ![w] = Behind(w, worker[w].of)]
    /\ UNCHANGED <<now, effects, late, refreshes, cycles>>

\* Mutant of RetryAt: the bound is forgotten, as in an unsafe sum of instants.
RetryAtUnbounded == now + Retry

RetryAt == IF now + Retry > MaxTime THEN MaxTime ELSE now + Retry

\* fail: a conflict escapes from execute() and ends the cycle.
Fail(w) ==
    /\ worker[w].pc = "failing"
    /\ run' = IF Current(w) THEN Ended(worker[w].of, "failed", RetryAt) ELSE run
    /\ worker' = [worker EXCEPT ![w] = IF Current(w) THEN Behind(w, worker[w].of) ELSE Idle]
    /\ UNCHANGED <<now, effects, late, refreshes, cycles>>

----------------------------------------------------------------------------
\* The handlers: createMatchupOccurrenceHandlers.

\* advance: the status of the week after the transition of occurrence o.
Advance(o, t) ==
    IF o \in operations THEN week
    ELSE IF week \in DOMAIN Boundary /\ Boundary[week].at <= t THEN Boundary[week].to
    ELSE "refused"

RunBaseline(w) ==
    LET to == Advance("baseline", worker[w].listed)
    IN /\ Executes(w, "baseline")
       /\ IF to = "refused" THEN UNCHANGED <<week, operations>>
          ELSE week' = to /\ operations' = operations \cup {"baseline"}
       /\ worker' = Done(w, to # "refused")
       /\ UNCHANGED <<lock, result>>

\* lockAtBoundary of every team: a lock that exists is replayed, an illegal
\* roster is recorded as such, a legal one needs the baseline statistics.
Lockable(illegal) == \A t \in Teams :
    lock[t] = "none" => t \in illegal \/ baselineFresh

LockedWith(illegal) == [t \in Teams |->
    IF lock[t] # "none" THEN lock[t] ELSE IF t \in illegal THEN "illegal" ELSE "normal"]

\* Transition and locks in one transaction.
RunLock(w) == \E illegal \in SUBSET Doubtful :
    LET t == worker[w].listed
        ok == Advance("lock", t) = "live" /\ Locks <= t /\ t < Ends /\ Lockable(illegal)
    IN /\ Executes(w, "lock")
       /\ IF ok THEN /\ week' = "live"
                     /\ operations' = operations \cup {"lock"}
                     /\ lock' = LockedWith(illegal)
          ELSE UNCHANGED <<week, operations, lock>>
       /\ worker' = Done(w, ok)
       /\ UNCHANGED result

\* readLive answers: the locks and a refresh that is not in the future.
Readable(t) ==
    /\ Ends <= t
    /\ \A team \in Teams : lock[team] # "none"
    /\ latest # NoRefresh /\ latest <= t

\* The refresh still expects a game of a player locked for the matchup.
Pending(m) == \E t \in m : lock[t] # "illegal" /\ latest < GamesOver[t]

\* No game is pending and evaluateFinalSource is ready, for every matchup.
Ready(t) ==
    /\ \A m \in Matchups : ~Pending(m)
    /\ Ends <= latest /\ t - latest <= Fresh

\* finalizeOutstanding: every result, and with the last one the week.
Seal ==
    /\ result' = [m \in Matchups |-> [refresh |-> latest, lock |-> lock]]
    /\ week' = "final"

\* Mutant of Finalized: waiting for statistics counts as finalized.
FinalizedOrWaiting(status, t) ==
    status = "final" \/ (status = "awaiting_data" /\ Readable(t))

\* Every matchup of a week in that status has its result now.
Finalized(status, t) ==
    status = "final" \/ (status = "awaiting_data" /\ Readable(t) /\ Ready(t))

\* While the statistics are not ready every partial result is rolled back and
\* only the transition is kept; any other error rolls back the transition too.
RunFinalize(w) ==
    LET t == worker[w].listed
        to == Advance("finalize", t)
    IN /\ Executes(w, "finalize")
       /\ IF to = "awaiting_data" /\ Readable(t)
          THEN /\ operations' = operations \cup {"finalize"}
               /\ IF Ready(t) THEN Seal ELSE week' = to /\ UNCHANGED result
          ELSE UNCHANGED <<week, operations, result>>
       /\ worker' = Done(w, Finalized(to, t))
       /\ UNCHANGED lock

\* The same results without a transition, unless they are there.
RunRollover(w) ==
    LET t == worker[w].listed
    IN /\ Executes(w, "rollover")
       /\ IF week = "awaiting_data" /\ Readable(t) /\ Ready(t) THEN Seal ELSE UNCHANGED <<week, result>>
       /\ worker' = Done(w, Finalized(week, t))
       /\ UNCHANGED <<operations, lock>>

Handle(w) ==
    /\ RunBaseline(w) \/ RunLock(w) \/ RunFinalize(w) \/ RunRollover(w)
    /\ UNCHANGED <<now, late, refreshes, run, cycles>>

----------------------------------------------------------------------------
\* Statistics refreshes.

\* The provider is asked; nothing is held while it answers.
StartRefresh(w) == \E o \in Refreshing :
    /\ Executes(w, o)
    /\ worker' = [worker EXCEPT ![w] = At(w, "refreshing", o)]
    /\ UNCHANGED <<now, effects, late, refreshes, run, cycles>>

\* A refresh completed at that instant becomes visible.
Refreshed(at) ==
    /\ latest' = IF at > latest THEN at ELSE latest
    /\ baselineFresh' = (baselineFresh \/ (at <= Baseline /\ Baseline - at <= Fresh))

\* completeLiveTransaction, at an instant between the cycle's start and now.
CommitRefresh(w) ==
    /\ worker[w].pc = "refreshing" /\ Current(w)
    /\ \E at \in Time : worker[w].listed <= at /\ at <= now /\ Refreshed(at)
    /\ worker' = Done(w, TRUE)
    /\ UNCHANGED <<now, effects, late, run, cycles>>

\* The provider fails or its answer is refused; it answers at the last tick.
RefreshFails(w) ==
    /\ now < MaxTime
    /\ worker[w].pc = "refreshing"
    /\ worker' = Done(w, FALSE)
    /\ UNCHANGED <<now, effects, late, refreshes, run, cycles>>

\* runCompletedGameStatistics, which knows no league.
BackgroundRefresh ==
    /\ now \in Slots
    /\ Refreshed(now)
    /\ UNCHANGED <<now, effects, late, run, worker, cycles>>

----------------------------------------------------------------------------
\* The late lock of a team that is legal at last.

\* lockLate up to the question to the game-state provider.
PrepareLate(t) ==
    /\ week = "live" /\ Locks < now /\ now < Ends
    /\ lock[t] = "illegal"
    /\ latest # NoRefresh /\ now - latest <= Fresh
    /\ late' = late \cup {t}
    /\ UNCHANGED <<now, effects, refreshes, run, worker, cycles>>

\* Mutant of LateSourcesMatch: what was read before the answer is trusted.
LateSourcesTrusted(t) == lock[t] = "illegal"

\* sourcesMatch and the versions: the status stands for the week's version.
LateSourcesMatch(t) == week = "live" /\ lock[t] = "illegal"

\* lateEvidenceTransaction; sources that changed or an answer that is refused
\* leave the lock as it is.
FinishLate(t) ==
    /\ t \in late
    /\ late' = late \ {t}
    /\ \/ LateSourcesMatch(t) /\ lock' = [lock EXCEPT ![t] = "late"]
       \/ UNCHANGED lock
    /\ UNCHANGED <<now, week, operations, result, refreshes, run, worker, cycles>>

\* The process ends wherever it is; its lease runs out before the last tick.
Crash(w) ==
    /\ now + Lease <= MaxTime
    /\ worker[w] # Idle
    /\ worker' = [worker EXCEPT ![w] = Idle]
    /\ UNCHANGED <<now, effects, late, refreshes, run, cycles>>

WorkerStep(w) ==
    \/ ListDue(w) \/ Visit(w) \/ LosesLease(w) \/ Handle(w)
    \/ StartRefresh(w) \/ CommitRefresh(w) \/ RefreshFails(w)
    \/ Succeed(w) \/ Fail(w)

Next ==
    \/ Tick
    \/ \E w \in Workers : WorkerStep(w)
    \/ \E w \in Leaving : Crash(w)
    \/ BackgroundRefresh
    \/ \E t \in Doubtful : PrepareLate(t) \/ FinishLate(t)

\* Time passes, the scheduler calls the job again, the completed-game slots
\* come round.
Fairness ==
    /\ WF_vars(Tick)
    /\ \A w \in Workers : WF_vars(WorkerStep(w))
    /\ WF_vars(BackgroundRefresh)

Spec == Init /\ [][Next]_vars

FairSpec == Spec /\ Fairness

----------------------------------------------------------------------------
Batches == UNION {[due -> Time] : due \in SUBSET Occurrences}

WorkerState ==
    {Idle}
    \cup [pc : {"cycle"}, listed : Time, batch : Batches]
    \cup [pc : {"claimed", "refreshing", "succeeding", "failing"}, listed : Time,
          batch : Batches, of : Occurrences]

\* Every variable keeps its type; a run's next attempt lies within the bound,
\* and what a worker works on is of its batch.
TypeOK ==
    /\ now \in Time
    /\ week \in WeekStatus
    /\ operations \subseteq Occurrences
    /\ lock \in [Teams -> LockKinds]
    /\ result \in [Matchups -> Result \cup {NoResult}]
    /\ late \subseteq Doubtful
    /\ latest \in Time \cup {NoRefresh}
    /\ baselineFresh \in BOOLEAN
    /\ run \in [Occurrences -> [status : {"pending", "running", "failed", "succeeded"},
                                holder : Workers \cup {Nobody},
                                expires : 0..MaxTime + Lease, due : Time]]
    /\ worker \in [Workers -> WorkerState]
    /\ cycles \in 0..MaxCycles

\* The results of a week exist exactly when it is final, all of them; each was
\* taken from statistics completed after the week's end with no game of a
\* locked player pending, over locks of both teams that have not changed since.
\* (finalizeOutstanding in one transaction; lateEvidenceTransaction.)
ResultsAreComplete == \A m \in Matchups :
    IF week # "final" THEN result[m] = NoResult
    ELSE /\ result[m] # NoResult
         /\ result[m].refresh >= Ends
         /\ \A t \in m :
               /\ lock[t] # "none" /\ result[m].lock[t] = lock[t]
               /\ lock[t] # "illegal" => result[m].refresh >= GamesOver[t]

\* What the handler of an occurrence is there for.
Effect(o) ==
    /\ o \in Refreshing => latest >= Scheduled[o]
    /\ o = "baseline" => week # "scheduled"
    /\ o = "lock" => \A t \in Teams : lock[t] # "none"
    /\ o \in {"finalize", "rollover"} => week = "final"

\* A run that is recorded as succeeded has had its effect, whichever attempt
\* of whichever process had it, and the effect lasts.
\* (runMatchupOccurrences: a handler commits before, and apart from, succeed.)
SucceededRunsTookEffect == \A o \in Occurrences : run[o].status = "succeeded" => Effect(o)

\* A week whose rosters were locked becomes final, through retries, lost
\* leases, crashes and late games.
\* (the finalize and rollover occurrences with their retry delay.)
LockedWeeksBecomeFinal == week = "live" ~> week = "final"
----------------------------------------------------------------------------
\* How far the week has come for its teams; the baseline does not concern them.
StageOf(status) ==
    CASE status \in {"scheduled", "baseline_ready"} -> "open"
      [] status = "live" -> "locked"
      [] status = "awaiting_data" -> "closed"
      [] status = "final" -> "final"

Sealed == INSTANCE SealedWeek WITH Times <- Time, stage <- StageOf(week)

\* The week implements SealedWeek, whatever its workers, leases, retries and
\* late locks do: its rosters are locked together, each illegal one at most
\* once more, and the results come together, over the locks as they stand.
\* (the transactions of SqliteMatchupLockRepository and finalizeOutstanding.)
ImplementsSealedWeek == Sealed!Spec
============================================================================
