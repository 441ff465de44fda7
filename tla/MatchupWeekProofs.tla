------------------------- MODULE MatchupWeekProofs -------------------------
(***************************************************************************)
(* Proofs about MatchupWeek for any processes, matchups, instants and      *)
(* leases: its types, the completeness of the results, that a success is   *)
(* recorded only of an occurrence that had its effect, and the refinement  *)
(* of SealedWeek.                                                          *)
(***************************************************************************)
EXTENDS MatchupWeek, TLAPS

\* The six occurrences and their instants.
LEMMA OccurrenceFacts ==
    /\ Occurrences = {"refresh_start", "baseline", "lock", "refresh_end", "finalize", "rollover"}
    /\ Refreshing \subseteq Occurrences
    /\ Scheduled["refresh_start"] = Starts /\ Scheduled["refresh_end"] = Ends
    /\ \A o \in Occurrences : Scheduled[o] \in Time
<1>1. Occurrences = {"refresh_start", "baseline", "lock", "refresh_end", "finalize", "rollover"}
  BY DEF Occurrences, Scheduled
<1>2. QED
  BY <1>1, WeekAssumption DEF Refreshing, Scheduled, Time

\* The boundaries that time takes a week across.
LEMMA BoundaryFacts ==
    /\ DOMAIN Boundary = {"scheduled", "baseline_ready", "live"}
    /\ Boundary["scheduled"].to = "baseline_ready"
    /\ Boundary["baseline_ready"].to = "live"
    /\ Boundary["live"].to = "awaiting_data"
BY DEF Boundary

\* What the phase of a worker says of the other fields.
LEMMA Standing ==
    ASSUME TypeOK, NEW w \in Workers
    PROVE  /\ worker[w] = Idle \/ worker[w].pc # "idle"
           /\ worker[w] # Idle => /\ worker[w].listed \in Time
                                  /\ worker[w].batch \in Batches
           /\ worker[w].pc \in {"claimed", "refreshing", "succeeding", "failing"} =>
                /\ worker[w] # Idle
                /\ worker[w].of \in Occurrences
           /\ worker[w].pc = "cycle" => worker[w] # Idle
<1>1. worker[w] \in WorkerState
  BY DEF TypeOK
<1>2. QED
  BY <1>1 DEF WorkerState, Idle

\* A batch is a function from some of the occurrences to instants.
LEMMA BatchFacts ==
    ASSUME NEW b \in Batches
    PROVE  /\ DOMAIN b \subseteq Occurrences
           /\ \A o \in DOMAIN b : b[o] \in Time
BY DEF Batches

\* A listed batch is a state of a worker.
LEMMA CycleTyped ==
    ASSUME NEW t \in Time, NEW b \in Batches
    PROVE  [pc |-> "cycle", listed |-> t, batch |-> b] \in WorkerState
BY DEF WorkerState

\* A worker that goes on with its batch keeps its type.
LEMMA BehindTyped ==
    ASSUME NEW w \in Workers, worker[w].listed \in Time, worker[w].batch \in Batches, NEW o
    PROVE  Behind(w, o) \in WorkerState
<1> DEFINE rest == DOMAIN worker[w].batch \ {o}
           left == [p \in rest |-> worker[w].batch[p]]
<1>1. rest \subseteq Occurrences /\ \A p \in rest : worker[w].batch[p] \in Time
  BY BatchFacts
<1>2. left \in [rest -> Time]
  BY <1>1
<1>3. left \in Batches
  BY <1>1, <1>2 DEF Batches
<1>4. QED
  BY <1>3 DEF Behind, WorkerState, Idle

\* A worker that takes up, or is done with, an occurrence keeps its type.
LEMMA AtTyped ==
    ASSUME NEW w \in Workers, worker[w].listed \in Time, worker[w].batch \in Batches,
           NEW o \in Occurrences,
           NEW pc \in {"claimed", "refreshing", "succeeding", "failing"}
    PROVE  At(w, pc, o) \in WorkerState
BY DEF At, WorkerState

LEMMA DoneTyped ==
    ASSUME TypeOK, NEW w \in Workers, NEW ok \in BOOLEAN,
           worker[w].pc \in {"claimed", "refreshing", "succeeding", "failing"}
    PROVE  Done(w, ok) \in [Workers -> WorkerState]
<1>1. /\ worker[w].listed \in Time /\ worker[w].batch \in Batches
      /\ worker[w].of \in Occurrences
  BY Standing
<1> DEFINE pc == IF ok THEN "succeeding" ELSE "failing"
<1>2. Done(w, ok) = [worker EXCEPT ![w] = At(w, pc, worker[w].of)]
  BY DEF Done, At
<1>3. At(w, pc, worker[w].of) \in WorkerState
  <2>1. pc \in {"claimed", "refreshing", "succeeding", "failing"}
    OBVIOUS
  <2>2. QED
    BY <1>1, <2>1, AtTyped
<1>4. QED
  BY <1>2, <1>3 DEF TypeOK
\* Every action writes columns and locals of the declared shapes, and every
\* new attempt is due within the bound.
LEMMA TypeInductive == TypeOK /\ [Next]_vars => TypeOK'
<1> SUFFICES ASSUME TypeOK, [Next]_vars PROVE TypeOK'
  OBVIOUS
<1> USE WeekAssumption DEF Time
<1>1. CASE Tick
  BY <1>1 DEF Tick, TypeOK, effects, refreshes
<1>2. ASSUME NEW w \in Workers, ListDue(w) PROVE TypeOK'
  <2> DEFINE due == {o \in Occurrences : Claimable(o, now)}
             batch == [o \in due |-> run[o].due]
             listing == [pc |-> "cycle", listed |-> now, batch |-> batch]
  <2>1. batch \in Batches
    <3>1. due \in SUBSET Occurrences /\ \A o \in due : run[o].due \in Time
      BY DEF TypeOK
    <3> HIDE DEF due
    <3>2. batch \in [due -> Time]
      BY <3>1
    <3>3. QED
      BY <3>1, <3>2 DEF Batches
  <2>2. worker' = [worker EXCEPT ![w] = listing]
    BY <1>2 DEF ListDue
  <2>3. worker' \in [Workers -> WorkerState]
    <3> HIDE DEF batch
    <3>1. listing \in WorkerState
      BY <2>1, CycleTyped DEF TypeOK
    <3>2. QED
      BY <2>2, <3>1 DEF TypeOK
  <2>4. QED
    BY <1>2, <2>3 DEF ListDue, TypeOK, effects, refreshes
<1>3. ASSUME NEW w \in Workers, Visit(w) PROVE TypeOK'
  <2>1. worker[w].listed \in Time /\ worker[w].batch \in Batches
    BY <1>3, Standing DEF Visit
  <2>2. CASE ClaimRun(w)
    <3>1. PICK o \in Following(worker[w].batch) :
             /\ run' = [run EXCEPT ![o] = [status |-> "running", holder |-> w,
                                           expires |-> worker[w].listed + Lease,
                                           due |-> Scheduled[o]]]
             /\ worker' = [worker EXCEPT ![w] = At(w, "claimed", o)]
      BY <2>2 DEF ClaimRun
    <3>2. o \in Occurrences /\ Scheduled[o] \in Time
      BY <2>1, BatchFacts, OccurrenceFacts DEF Following
    <3>3. At(w, "claimed", o) \in WorkerState
      BY <2>1, <3>2, AtTyped
    <3>4. worker' \in [Workers -> WorkerState]
      BY <3>1, <3>3 DEF TypeOK
    <3>5. worker[w].listed + Lease \in 0..MaxTime + Lease
      BY <2>1
    <3>6. QED
      BY <1>3, <3>1, <3>2, <3>4, <3>5 DEF Visit, TypeOK, effects, refreshes
  <2>3. CASE ClaimRefused(w)
    <3>1. PICK o : worker' = [worker EXCEPT ![w] = Behind(w, o)]
      BY <2>3 DEF ClaimRefused
    <3>2. worker' \in [Workers -> WorkerState]
      BY <2>1, <3>1, BehindTyped DEF TypeOK
    <3>3. QED
      BY <1>3, <2>3, <3>2 DEF Visit, ClaimRefused, TypeOK, effects, refreshes
  <2>4. QED
    BY <1>3, <2>2, <2>3 DEF Visit
<1>4. ASSUME NEW w \in Workers, LosesLease(w) PROVE TypeOK'
  <2>1. worker[w].listed \in Time /\ worker[w].batch \in Batches
    BY <1>4, Standing DEF LosesLease
  <2>2. worker' \in [Workers -> WorkerState]
    BY <1>4, <2>1, BehindTyped DEF LosesLease, TypeOK
  <2>3. QED
    BY <1>4, <2>2 DEF LosesLease, TypeOK, effects, refreshes
<1>5. ASSUME NEW w \in Workers, Handle(w) PROVE TypeOK'
  <2>1. ASSUME RunBaseline(w) PROVE TypeOK'
    <3>1. worker' \in [Workers -> WorkerState]
      BY <2>1, DoneTyped DEF RunBaseline, Executes
    <3>2. /\ week' \in WeekStatus /\ operations' \subseteq Occurrences
          /\ lock' = lock /\ result' = result
      BY <2>1, OccurrenceFacts, BoundaryFacts DEF RunBaseline, Advance, WeekStatus, TypeOK
    <3>3. QED
      BY <1>5, <3>1, <3>2 DEF Handle, TypeOK, refreshes
  <2>2. ASSUME RunLock(w) PROVE TypeOK'
    <3>1. PICK illegal \in SUBSET Doubtful, ok \in BOOLEAN :
             /\ IF ok THEN week' = "live" /\ operations' = operations \cup {"lock"}
                           /\ lock' = LockedWith(illegal)
                ELSE UNCHANGED <<week, operations, lock>>
             /\ worker' = Done(w, ok) /\ result' = result
             /\ Executes(w, "lock")
      BY <2>2 DEF RunLock
    <3>2. worker' \in [Workers -> WorkerState]
      BY <3>1, DoneTyped DEF Executes
    <3>3. LockedWith(illegal) \in [Teams -> LockKinds]
      BY DEF LockedWith, LockKinds, TypeOK
    <3>4. /\ week' \in WeekStatus /\ operations' \subseteq Occurrences
          /\ lock' \in [Teams -> LockKinds]
      BY <3>1, <3>3, OccurrenceFacts DEF WeekStatus, TypeOK
    <3>5. QED
      BY <1>5, <3>1, <3>2, <3>4 DEF Handle, TypeOK, refreshes
  <2>3. ASSUME RunFinalize(w) PROVE TypeOK'
    <3>1. worker' \in [Workers -> WorkerState]
      BY <2>3, DoneTyped DEF RunFinalize, Executes, Finalized
    <3>2. week' \in WeekStatus /\ operations' \subseteq Occurrences /\ lock' = lock
      BY <2>3, OccurrenceFacts DEF RunFinalize, Seal, WeekStatus, TypeOK
    <3>3. result' \in [Matchups -> Result \cup {NoResult}]
      BY <2>3 DEF RunFinalize, Readable, Seal, Result, TypeOK
    <3>4. QED
      BY <1>5, <3>1, <3>2, <3>3 DEF Handle, TypeOK, refreshes
  <2>4. ASSUME RunRollover(w) PROVE TypeOK'
    <3>1. worker' \in [Workers -> WorkerState]
      BY <2>4, DoneTyped DEF RunRollover, Executes, Finalized
    <3>2. /\ week' \in WeekStatus /\ operations' = operations /\ lock' = lock
          /\ result' \in [Matchups -> Result \cup {NoResult}]
      BY <2>4 DEF RunRollover, Readable, Seal, Result, WeekStatus, TypeOK
    <3>3. QED
      BY <1>5, <3>1, <3>2 DEF Handle, TypeOK, refreshes
  <2>5. QED
    BY <1>5, <2>1, <2>2, <2>3, <2>4 DEF Handle
<1>6. ASSUME NEW w \in Workers, StartRefresh(w) PROVE TypeOK'
  <2>1. PICK o \in Refreshing : /\ Executes(w, o)
                                /\ worker' = [worker EXCEPT ![w] = At(w, "refreshing", o)]
    BY <1>6 DEF StartRefresh
  <2>2. worker[w].listed \in Time /\ worker[w].batch \in Batches
    BY <2>1, Standing DEF Executes
  <2>3. At(w, "refreshing", o) \in WorkerState
    BY <2>2, AtTyped, OccurrenceFacts
  <2>4. worker' \in [Workers -> WorkerState]
    BY <2>1, <2>3 DEF TypeOK
  <2>5. QED
    BY <1>6, <2>4 DEF StartRefresh, TypeOK, effects, refreshes
<1>7. ASSUME NEW w \in Workers, CommitRefresh(w) PROVE TypeOK'
  <2>1. worker' \in [Workers -> WorkerState]
    BY <1>7, DoneTyped DEF CommitRefresh
  <2>2. latest' \in Time \cup {NoRefresh} /\ baselineFresh' \in BOOLEAN
    BY <1>7 DEF CommitRefresh, Refreshed, TypeOK
  <2>3. QED
    BY <1>7, <2>1, <2>2 DEF CommitRefresh, TypeOK, effects
<1>8. ASSUME NEW w \in Workers, RefreshFails(w) PROVE TypeOK'
  <2>1. worker' \in [Workers -> WorkerState]
    BY <1>8, DoneTyped DEF RefreshFails
  <2>2. QED
    BY <1>8, <2>1 DEF RefreshFails, TypeOK, effects, refreshes
<1>9. ASSUME NEW w \in Workers, Succeed(w) \/ Fail(w) PROVE TypeOK'
  <2>1. /\ worker[w].listed \in Time /\ worker[w].batch \in Batches
        /\ worker[w].of \in Occurrences
    BY <1>9, Standing DEF Succeed, Fail
  <2>2. Idle \in WorkerState /\ Behind(w, worker[w].of) \in WorkerState
    BY <2>1, BehindTyped DEF WorkerState
  <2>3. worker' \in [Workers -> WorkerState]
    BY <1>9, <2>2 DEF Succeed, Fail, TypeOK
  <2>4. RetryAt \in Time /\ Scheduled[worker[w].of] \in Time
    BY <2>1, OccurrenceFacts DEF RetryAt, TypeOK
  <2>5. run' \in [Occurrences -> [status : {"pending", "running", "failed", "succeeded"},
                                  holder : Workers \cup {Nobody},
                                  expires : 0..MaxTime + Lease, due : Time]]
    BY <1>9, <2>1, <2>4 DEF Succeed, Fail, Ended, TypeOK
  <2>6. QED
    BY <1>9, <2>3, <2>5 DEF Succeed, Fail, TypeOK, effects, refreshes
<1>10. CASE BackgroundRefresh
  BY <1>10 DEF BackgroundRefresh, Refreshed, TypeOK, effects
<1>11. ASSUME NEW t \in Doubtful, PrepareLate(t) \/ FinishLate(t) PROVE TypeOK'
  <2>1. t \in Teams
    BY DEF Teams
  <2>2. late' \subseteq Doubtful /\ lock' \in [Teams -> LockKinds]
    BY <1>11, <2>1 DEF PrepareLate, FinishLate, effects, TypeOK, LockKinds
  <2>3. QED
    BY <1>11, <2>2 DEF PrepareLate, FinishLate, TypeOK, effects, refreshes
<1>12. ASSUME NEW w \in Leaving, Crash(w) PROVE TypeOK'
  <2>1. worker' \in [Workers -> WorkerState]
    BY <1>12 DEF Crash, TypeOK, WorkerState
  <2>2. QED
    BY <1>12, <2>1 DEF Crash, TypeOK, effects, refreshes
<1>13. CASE UNCHANGED vars
  BY <1>13 DEF vars, TypeOK, effects, refreshes
<1>14. QED
  BY <1>1, <1>2, <1>3, <1>4, <1>5, <1>6, <1>7, <1>8, <1>9, <1>10, <1>11,
     <1>12, <1>13 DEF Next, WorkerStep

\* The week's rows and the processes' locals keep their types.
THEOREM TypeCorrect == Spec => []TypeOK
<1>1. Init => TypeOK
  <2> SUFFICES ASSUME Init PROVE TypeOK
    OBVIOUS
  <2>1. worker \in [Workers -> WorkerState]
    BY DEF Init, WorkerState
  <2>2. run \in [Occurrences -> [status : {"pending", "running", "failed", "succeeded"},
                                 holder : Workers \cup {Nobody},
                                 expires : 0..MaxTime + Lease, due : Time]]
    BY WeekAssumption, OccurrenceFacts DEF Init, Time
  <2>3. /\ now \in Time /\ cycles \in 0..MaxCycles
    BY WeekAssumption DEF Init, Time
  <2>4. /\ week \in WeekStatus /\ operations \subseteq Occurrences /\ late \subseteq Doubtful
        /\ lock \in [Teams -> LockKinds]
        /\ result \in [Matchups -> Result \cup {NoResult}]
        /\ latest \in Time \cup {NoRefresh} /\ baselineFresh \in BOOLEAN
    BY DEF Init, WeekStatus, LockKinds
  <2>5. QED
    BY <2>1, <2>2, <2>3, <2>4 DEF TypeOK
<1>2. QED
  BY <1>1, TypeInductive, PTL DEF Spec

----------------------------------------------------------------------------
\* A week that has left "scheduled" has the transition of its baseline on
\* record, so a retried baseline replays instead of moving the week past the
\* lock; hence every week that is live or later has all its locks.
WeekInv ==
    /\ week = "scheduled" <=> "baseline" \notin operations
    /\ week \notin {"scheduled", "baseline_ready"} => \A t \in Teams : lock[t] # "none"
    /\ ResultsAreComplete

\* The handlers keep the week, its locks and its results together.
LEMMA HandlersKeepWeek ==
    ASSUME TypeOK, WeekInv, NEW w \in Workers, Handle(w)
    PROVE  WeekInv'
<1>1. ASSUME RunBaseline(w) PROVE WeekInv'
  BY <1>1, BoundaryFacts DEF RunBaseline, Advance, WeekInv, ResultsAreComplete
<1>2. ASSUME RunLock(w) PROVE WeekInv'
  <2>1. PICK illegal \in SUBSET Doubtful, ok \in BOOLEAN :
           /\ ok => Advance("lock", worker[w].listed) = "live"
           /\ IF ok THEN week' = "live" /\ operations' = operations \cup {"lock"}
                         /\ lock' = LockedWith(illegal)
              ELSE UNCHANGED <<week, operations, lock>>
           /\ result' = result
    BY <1>2 DEF RunLock
  <2>2. CASE ok
    <3>1. week \in {"baseline_ready", "live"}
      BY <2>1, <2>2, BoundaryFacts DEF Advance
    <3>2. \A t \in Teams : lock'[t] # "none"
      BY <2>1, <2>2 DEF LockedWith
    <3>3. \A m \in Matchups : result'[m] = NoResult
      BY <2>1, <3>1 DEF WeekInv, ResultsAreComplete
    <3>4. QED
      BY <2>1, <2>2, <3>1, <3>2, <3>3 DEF WeekInv, ResultsAreComplete
  <2>3. CASE ~ok
    BY <2>1, <2>3 DEF WeekInv, ResultsAreComplete
  <2>4. QED
    BY <2>2, <2>3
<1>3. ASSUME NEW t, Readable(t), Ready(t), Seal, UNCHANGED lock
      PROVE  ResultsAreComplete'
  <2> SUFFICES ASSUME NEW m \in Matchups
               PROVE  /\ result'[m] # NoResult
                      /\ result'[m].refresh >= Ends
                      /\ \A x \in m : /\ lock'[x] # "none" /\ result'[m].lock[x] = lock'[x]
                                      /\ lock'[x] # "illegal" => result'[m].refresh >= GamesOver[x]
    BY <1>3 DEF ResultsAreComplete, Seal
  <2>1. result'[m] = [refresh |-> latest, lock |-> lock]
    BY <1>3 DEF Seal
  <2>2. latest >= Ends /\ ~Pending(m) /\ latest \in Int
    BY <1>3, WeekAssumption DEF Ready, TypeOK, Time, NoRefresh
  <2>3. result'[m] # NoResult
    BY <2>1, <2>2, WeekAssumption DEF NoResult, NoRefresh
  <2>4. \A x \in m : x \in Teams /\ GamesOver[x] \in Int
    BY WeekAssumption DEF Teams
  <2>5. \A x \in m : lock[x] # "none"
    BY <1>3, <2>4 DEF Readable
  <2>6. \A x \in m : lock[x] # "illegal" => latest >= GamesOver[x]
    BY <2>2, <2>4 DEF Pending
  <2>7. QED
    BY <1>3, <2>1, <2>2, <2>3, <2>5, <2>6
<1>4. ASSUME RunFinalize(w) PROVE WeekInv'
  <2> DEFINE t == worker[w].listed
             to == Advance("finalize", t)
  <2>1. CASE to = "awaiting_data" /\ Readable(t)
    <3>1. week \in {"live", "awaiting_data"}
      BY <2>1, BoundaryFacts DEF Advance
    <3>2. /\ operations' = operations \cup {"finalize"} /\ lock' = lock
          /\ IF Ready(t) THEN Seal ELSE week' = "awaiting_data" /\ result' = result
      BY <1>4, <2>1 DEF RunFinalize
    <3>3. ResultsAreComplete'
      <4>1. CASE Ready(t)
        BY <1>3, <2>1, <3>2, <4>1
      <4>2. CASE ~Ready(t)
        BY <3>1, <3>2, <4>2 DEF WeekInv, ResultsAreComplete
      <4>3. QED
        BY <4>1, <4>2
    <3>4. week' \in {"awaiting_data", "final"}
      BY <3>2 DEF Seal
    <3>5. QED
      BY <3>1, <3>2, <3>3, <3>4 DEF WeekInv
  <2>2. CASE ~(to = "awaiting_data" /\ Readable(t))
    BY <1>4, <2>2 DEF RunFinalize, WeekInv, ResultsAreComplete
  <2>3. QED
    BY <2>1, <2>2
<1>5. ASSUME RunRollover(w) PROVE WeekInv'
  <2> DEFINE t == worker[w].listed
  <2>1. CASE week = "awaiting_data" /\ Readable(t) /\ Ready(t)
    <3>1. Seal /\ lock' = lock /\ operations' = operations
      BY <1>5, <2>1 DEF RunRollover
    <3>2. ResultsAreComplete' /\ week' = "final"
      BY <1>3, <2>1, <3>1 DEF Seal
    <3>3. QED
      BY <2>1, <3>1, <3>2 DEF WeekInv
  <2>2. CASE ~(week = "awaiting_data" /\ Readable(t) /\ Ready(t))
    BY <1>5, <2>2 DEF RunRollover, WeekInv, ResultsAreComplete
  <2>3. QED
    BY <2>1, <2>2
<1>6. QED
  BY <1>1, <1>2, <1>4, <1>5 DEF Handle

\* A late lock is written only while the week is live and has no results.
LEMMA LateLocksKeepWeek ==
    ASSUME TypeOK, WeekInv, NEW t \in Doubtful, FinishLate(t)
    PROVE  WeekInv'
<1>1. CASE UNCHANGED lock
  BY <1>1 DEF FinishLate, WeekInv, ResultsAreComplete
<1>2. CASE LateSourcesMatch(t) /\ lock' = [lock EXCEPT ![t] = "late"]
  <2>1. week = "live" /\ week' = week /\ operations' = operations /\ result' = result
    BY <1>2 DEF FinishLate, LateSourcesMatch
  <2>2. \A x \in Teams : lock'[x] # "none"
    BY <1>2, <2>1 DEF WeekInv, TypeOK
  <2>3. QED
    BY <2>1, <2>2 DEF WeekInv, ResultsAreComplete
<1>3. QED
  BY <1>1, <1>2 DEF FinishLate

\* The handlers and the late locks are all that writes the week.
LEMMA EffectSteps ==
    ASSUME [Next]_vars
    PROVE  \/ \E w \in Workers : Handle(w)
           \/ \E t \in Doubtful : FinishLate(t)
           \/ UNCHANGED effects
<1>1. ASSUME NEW w \in Workers, WorkerStep(w) PROVE Handle(w) \/ UNCHANGED effects
  BY <1>1 DEF WorkerStep, ListDue, Visit, LosesLease, StartRefresh, CommitRefresh,
              RefreshFails, Succeed, Fail
<1>2. ASSUME NEW t \in Doubtful, PrepareLate(t) PROVE UNCHANGED effects
  BY <1>2 DEF PrepareLate
<1>3. ASSUME Tick \/ BackgroundRefresh \/ (\E w \in Leaving : Crash(w)) \/ UNCHANGED vars
      PROVE  UNCHANGED effects
  BY <1>3 DEF Tick, BackgroundRefresh, Crash, vars
<1>4. QED
  BY <1>1, <1>2, <1>3 DEF Next

\* Nothing else touches the week, its locks or its results.
LEMMA WeekInductive == TypeOK /\ WeekInv /\ [Next]_vars => WeekInv'
<1> SUFFICES ASSUME TypeOK, WeekInv, [Next]_vars PROVE WeekInv'
  OBVIOUS
<1>1. ASSUME UNCHANGED effects PROVE WeekInv'
  BY <1>1 DEF effects, WeekInv, ResultsAreComplete
<1>2. QED
  BY <1>1, EffectSteps, HandlersKeepWeek, LateLocksKeepWeek

\* The results of a week exist exactly when it is final, all of them, from
\* statistics completed after its end with no locked player's game pending,
\* over locks that have not changed since.
THEOREM ResultsComplete == Spec => []ResultsAreComplete
<1>1. Init => WeekInv
  BY DEF Init, WeekInv, ResultsAreComplete
<1>2. WeekInv => ResultsAreComplete
  BY DEF WeekInv
<1>3. QED
  BY <1>1, <1>2, TypeCorrect, WeekInductive, PTL DEF Spec

----------------------------------------------------------------------------
\* A worker's cycle is not ahead of the clock and visits nothing before its
\* instant, and what it works on is of its batch.
Punctual(s, t) ==
    s # Idle =>
      /\ s.listed <= t
      /\ \A o \in DOMAIN s.batch : Scheduled[o] <= s.listed
      /\ s.pc # "cycle" => s.of \in DOMAIN s.batch

\* No attempt, and no takeover, before the occurrence's instant.
PunctualRun(o) ==
    /\ run[o].status \in {"pending", "failed"} => Scheduled[o] <= run[o].due
    /\ run[o].status = "running" => Scheduled[o] <= run[o].expires

PunctualInv ==
    /\ \A o \in Occurrences : PunctualRun(o)
    /\ \A w \in Workers : Punctual(worker[w], now)

LEMMA BehindPunctual ==
    ASSUME NEW w \in Workers, worker[w] # Idle, Punctual(worker[w], now), NEW o
    PROVE  Punctual(Behind(w, o), now)
<1> DEFINE rest == DOMAIN worker[w].batch \ {o}
           left == [p \in rest |-> worker[w].batch[p]]
<1>1. CASE rest = {}
  BY <1>1 DEF Behind, Punctual
<1>2. CASE rest # {}
  <2>1. Behind(w, o) = [pc |-> "cycle", listed |-> worker[w].listed, batch |-> left]
    BY <1>2 DEF Behind
  <2>2. DOMAIN left = rest
    OBVIOUS
  <2>3. QED
    BY <2>1, <2>2 DEF Punctual
<1>3. QED
  BY <1>1, <1>2

LEMMA DonePunctual ==
    ASSUME TypeOK, NEW w \in Workers, NEW ok \in BOOLEAN, worker' = Done(w, ok),
           worker[w].pc \in {"claimed", "refreshing", "succeeding", "failing"},
           \A v \in Workers : Punctual(worker[v], now)
    PROVE  \A v \in Workers : Punctual(worker'[v], now)
<1>1. worker[w] # Idle
  BY Standing
<1>2. worker' = [worker EXCEPT ![w] = [pc |-> IF ok THEN "succeeding" ELSE "failing",
                                       listed |-> worker[w].listed,
                                       batch |-> worker[w].batch, of |-> worker[w].of]]
  BY DEF Done
<1>3. worker[w].pc # "cycle"
  OBVIOUS
<1>4. QED
  BY <1>1, <1>2, <1>3 DEF Punctual, TypeOK

LEMMA PunctualInductive == TypeOK /\ PunctualInv /\ [Next]_vars => PunctualInv'
<1> SUFFICES ASSUME TypeOK, PunctualInv, [Next]_vars PROVE PunctualInv'
  OBVIOUS
<1> USE WeekAssumption, OccurrenceFacts DEF Time
<1>1. ASSUME UNCHANGED <<now, run>>, \A w \in Workers : Punctual(worker'[w], now)
      PROVE  PunctualInv'
  BY <1>1 DEF PunctualInv, PunctualRun
<1>2. CASE Tick
  <2>1. \A w \in Workers : Punctual(worker[w], now + 1)
    <3> SUFFICES ASSUME NEW w \in Workers, worker[w] # Idle
                 PROVE  worker[w].listed <= now + 1
      BY DEF PunctualInv, Punctual
    <3>1. worker[w].listed \in Nat /\ now \in Nat
      BY Standing DEF TypeOK
    <3>2. QED
      BY <3>1 DEF PunctualInv, Punctual
  <2>2. QED
    BY <1>2, <2>1 DEF Tick, PunctualInv, PunctualRun
<1>3. ASSUME NEW w \in Workers, ListDue(w) PROVE PunctualInv'
  <2> DEFINE due == {o \in Occurrences : Claimable(o, now)}
             batch == [o \in due |-> run[o].due]
  <2>1. \A o \in due : Scheduled[o] <= now
    BY DEF Claimable, PunctualInv, PunctualRun, TypeOK
  <2>2. worker' = [worker EXCEPT ![w] = [pc |-> "cycle", listed |-> now, batch |-> batch]]
    BY <1>3 DEF ListDue
  <2>3. Punctual([pc |-> "cycle", listed |-> now, batch |-> batch], now)
    BY <2>1 DEF Punctual, TypeOK
  <2>4. \A v \in Workers : Punctual(worker'[v], now)
    BY <2>2, <2>3 DEF PunctualInv, TypeOK
  <2>5. QED
    BY <1>1, <1>3, <2>4 DEF ListDue
<1>4. ASSUME NEW w \in Workers, Visit(w) PROVE PunctualInv'
  <2>1. /\ worker[w] # Idle /\ worker[w].listed \in Time /\ worker[w].batch \in Batches
        /\ now' = now
    BY <1>4, Standing DEF Visit
  <2>2. CASE ClaimRun(w)
    <3>1. PICK o \in DOMAIN worker[w].batch :
             /\ run' = [run EXCEPT ![o] = [status |-> "running", holder |-> w,
                                           expires |-> worker[w].listed + Lease,
                                           due |-> Scheduled[o]]]
             /\ worker' = [worker EXCEPT ![w] = At(w, "claimed", o)]
      BY <2>2 DEF ClaimRun, Following
    <3>2. o \in Occurrences /\ Scheduled[o] <= worker[w].listed
      BY <2>1, <3>1, BatchFacts DEF PunctualInv, Punctual
    <3>3. Punctual(At(w, "claimed", o), now)
      BY <2>1, <3>1 DEF At, PunctualInv, Punctual
    <3>4. \A v \in Workers : Punctual(worker'[v], now)
      BY <3>1, <3>3 DEF PunctualInv, TypeOK
    <3>5. Scheduled[o] <= worker[w].listed + Lease
      BY <2>1, <3>2
    <3>6. \A p \in Occurrences : PunctualRun(p)'
      BY <3>1, <3>5 DEF PunctualInv, PunctualRun, TypeOK
    <3>7. QED
      BY <2>1, <3>4, <3>6 DEF PunctualInv
  <2>3. CASE ClaimRefused(w)
    <3>1. PICK o : worker' = [worker EXCEPT ![w] = Behind(w, o)]
      BY <2>3 DEF ClaimRefused
    <3>2. \A v \in Workers : Punctual(worker'[v], now)
      BY <2>1, <3>1, BehindPunctual DEF PunctualInv, TypeOK
    <3>3. QED
      BY <1>1, <1>4, <2>3, <3>2 DEF Visit, ClaimRefused
  <2>4. QED
    BY <1>4, <2>2, <2>3 DEF Visit
<1>5. ASSUME NEW w \in Workers, LosesLease(w) PROVE PunctualInv'
  <2>1. worker[w] # Idle
    BY <1>5, Standing DEF LosesLease
  <2>2. \A v \in Workers : Punctual(worker'[v], now)
    BY <1>5, <2>1, BehindPunctual DEF LosesLease, PunctualInv, TypeOK
  <2>3. QED
    BY <1>1, <1>5, <2>2 DEF LosesLease
<1>6. ASSUME NEW w \in Workers, Handle(w) \/ CommitRefresh(w) \/ RefreshFails(w)
      PROVE  PunctualInv'
  <2>1. /\ \E ok \in BOOLEAN : worker' = Done(w, ok)
        /\ worker[w].pc \in {"claimed", "refreshing"}
        /\ UNCHANGED <<now, run>>
    BY <1>6 DEF Handle, RunBaseline, RunLock, RunFinalize, RunRollover, Executes,
                Finalized, CommitRefresh, RefreshFails
  <2>2. QED
    BY <1>1, <2>1, DonePunctual DEF PunctualInv
<1>7. ASSUME NEW w \in Workers, StartRefresh(w) PROVE PunctualInv'
  <2>1. /\ worker[w].pc = "claimed" /\ UNCHANGED <<now, run>>
        /\ worker' = [worker EXCEPT ![w] = At(w, "refreshing", worker[w].of)]
    BY <1>7 DEF StartRefresh, Executes
  <2>2. worker[w] # Idle
    BY <2>1, Standing
  <2>3. Punctual(At(w, "refreshing", worker[w].of), now)
    BY <2>1, <2>2 DEF At, PunctualInv, Punctual
  <2>4. QED
    BY <1>1, <2>1, <2>3 DEF PunctualInv, TypeOK
<1>8. ASSUME NEW w \in Workers, Succeed(w) \/ Fail(w) PROVE PunctualInv'
  <2>1. /\ worker[w] # Idle /\ worker[w].listed \in Time /\ worker[w].of \in Occurrences
        /\ worker[w].pc # "cycle" /\ now' = now
    BY <1>8, Standing DEF Succeed, Fail
  <2>2. Punctual(Behind(w, worker[w].of), now) /\ Punctual(Idle, now)
    BY <2>1, BehindPunctual DEF PunctualInv, Punctual
  <2>3. \A v \in Workers : Punctual(worker'[v], now)
    BY <1>8, <2>2 DEF Succeed, Fail, PunctualInv, TypeOK
  <2>4. Scheduled[worker[w].of] <= worker[w].listed /\ worker[w].listed <= now
    BY <2>1 DEF PunctualInv, Punctual
  <2>5. Scheduled[worker[w].of] <= RetryAt
    BY <2>1, <2>4 DEF RetryAt, TypeOK
  <2>6. \A o \in Occurrences : PunctualRun(o)'
    BY <1>8, <2>1, <2>5 DEF Succeed, Fail, Ended, PunctualInv, PunctualRun, TypeOK
  <2>7. QED
    BY <2>1, <2>3, <2>6 DEF PunctualInv
<1>9. ASSUME NEW w \in Leaving, Crash(w) PROVE PunctualInv'
  <2>1. w \in Workers
    OBVIOUS
  <2>2. QED
    BY <1>1, <1>9, <2>1 DEF Crash, PunctualInv, Punctual, TypeOK
<1>10. CASE BackgroundRefresh \/ (\E t \in Doubtful : PrepareLate(t) \/ FinishLate(t))
            \/ UNCHANGED vars
  <2>1. UNCHANGED <<now, run, worker>>
    BY <1>10 DEF BackgroundRefresh, PrepareLate, FinishLate, vars
  <2>2. QED
    BY <1>1, <2>1 DEF PunctualInv
<1>11. QED
  BY <1>2, <1>3, <1>4, <1>5, <1>6, <1>7, <1>8, <1>9, <1>10 DEF Next, WorkerStep

----------------------------------------------------------------------------
\* A handler that returned has had its effect, and effects last.
EffectInv ==
    /\ \A w \in Workers, o \in Occurrences : worker[w].of = o =>
          /\ worker[w].pc = "refreshing" => o \in Refreshing
          /\ worker[w].pc = "succeeding" => Effect(o)
    /\ SucceededRunsTookEffect

\* Statistics only become newer, a week never goes back to "scheduled" nor
\* leaves "final", and a lock is never removed.
LEMMA EffectsLast ==
    ASSUME TypeOK, WeekInv, [Next]_vars, NEW o \in Occurrences, Effect(o)
    PROVE  Effect(o)'
<1> USE WeekAssumption DEF Time
<1> DEFINE Kept == /\ latest' >= latest
                   /\ week # "scheduled" => week' # "scheduled"
                   /\ week = "final" => week' = "final"
                   /\ \A t \in Teams : lock[t] # "none" => lock'[t] # "none"
<1>1. ASSUME Kept PROVE Effect(o)'
  <2>1. Scheduled[o] \in Int /\ latest \in Int /\ (o \in Refreshing => latest' >= latest)
    BY <1>1, OccurrenceFacts DEF TypeOK, NoRefresh
  <2>2. latest' \in Int
    <3>1. TypeOK'
      BY TypeInductive
    <3>2. QED
      BY <3>1 DEF TypeOK, NoRefresh
  <2>3. QED
    BY <1>1, <2>1, <2>2 DEF Effect
<1>2. latest >= latest
  BY DEF TypeOK, NoRefresh
<1>3. ASSUME UNCHANGED <<effects, refreshes>> PROVE Kept
  BY <1>2, <1>3 DEF effects, refreshes
<1>4. ASSUME NEW at, at \in Time, Refreshed(at), UNCHANGED effects PROVE Kept
  BY <1>4 DEF Refreshed, effects, TypeOK, NoRefresh
<1>5. ASSUME NEW w \in Workers, Handle(w) PROVE Kept
  <2>1. latest' = latest
    BY <1>5 DEF Handle, refreshes
  <2>2. ASSUME RunBaseline(w) PROVE Kept
    BY <1>2, <2>1, <2>2, BoundaryFacts DEF RunBaseline, Advance
  <2>3. ASSUME RunLock(w) PROVE Kept
    <3>1. \/ UNCHANGED <<week, lock>>
          \/ /\ week \in {"baseline_ready", "live"} /\ week' = "live"
             /\ \E illegal \in SUBSET Doubtful : lock' = LockedWith(illegal)
      BY <2>3, BoundaryFacts DEF RunLock, Advance
    <3>2. \A illegal \in SUBSET Doubtful, t \in Teams : LockedWith(illegal)[t] # "none"
      BY DEF LockedWith
    <3>3. QED
      BY <1>2, <2>1, <3>1, <3>2
  <2>4. ASSUME RunFinalize(w) PROVE Kept
    <3>1. lock' = lock /\ (week' = week \/ (week # "final" /\ week' \in {"awaiting_data", "final"}))
      BY <2>4, BoundaryFacts DEF RunFinalize, Advance, Seal
    <3>2. QED
      BY <1>2, <2>1, <3>1
  <2>5. ASSUME RunRollover(w) PROVE Kept
    BY <1>2, <2>1, <2>5 DEF RunRollover, Seal
  <2>6. QED
    BY <1>5, <2>2, <2>3, <2>4, <2>5 DEF Handle
<1>6. ASSUME NEW t \in Doubtful, FinishLate(t) PROVE Kept
  BY <1>2, <1>6 DEF FinishLate, refreshes, TypeOK
<1>7. ASSUME NEW w \in Workers, WorkerStep(w) PROVE Kept
  <2>1. Handle(w) \/ CommitRefresh(w) \/ UNCHANGED <<effects, refreshes>>
    BY <1>7 DEF WorkerStep, ListDue, Visit, LosesLease, StartRefresh, RefreshFails, Succeed, Fail
  <2>2. QED
    BY <1>3, <1>4, <1>5, <2>1 DEF CommitRefresh
<1>8. ASSUME \/ Tick \/ (\E w \in Leaving : Crash(w)) \/ UNCHANGED vars
             \/ \E t \in Doubtful : PrepareLate(t)
      PROVE  UNCHANGED <<effects, refreshes>>
  BY <1>8 DEF Tick, Crash, PrepareLate, vars
<1>9. ASSUME BackgroundRefresh PROVE Kept
  BY <1>4, <1>9 DEF BackgroundRefresh, TypeOK
<1>10. QED
  BY <1>1, <1>3, <1>6, <1>7, <1>8, <1>9 DEF Next

\* A handler that returns without an error has its effect in that step.
LEMMA HandlersTakeEffect ==
    ASSUME TypeOK, WeekInv, PunctualInv, EffectInv, NEW w \in Workers,
           Handle(w) \/ CommitRefresh(w), NEW o \in Occurrences, worker[w].of = o
    PROVE  \E ok \in BOOLEAN : worker' = Done(w, ok) /\ (ok => Effect(o)')
<1> USE WeekAssumption, OccurrenceFacts DEF Refreshing, Effect
<1>1. ASSUME RunBaseline(w) PROVE \E ok \in BOOLEAN : worker' = Done(w, ok) /\ (ok => Effect("baseline")')
  BY <1>1, BoundaryFacts DEF RunBaseline, Advance, WeekInv
<1>2. ASSUME RunLock(w) PROVE \E ok \in BOOLEAN : worker' = Done(w, ok) /\ (ok => Effect("lock")')
  <2>1. PICK illegal \in SUBSET Doubtful, ok \in BOOLEAN :
           (ok => lock' = LockedWith(illegal)) /\ worker' = Done(w, ok)
    BY <1>2 DEF RunLock
  <2>2. ok => \A t \in Teams : lock'[t] # "none"
    BY <2>1 DEF LockedWith
  <2>3. ok => Effect("lock")'
    BY <2>2
  <2>4. QED
    BY <2>1, <2>3
<1>3. ASSUME RunFinalize(w) PROVE \E ok \in BOOLEAN : worker' = Done(w, ok) /\ (ok => Effect("finalize")')
  <2> DEFINE t == worker[w].listed
             to == Advance("finalize", t)
  <2>1. worker' = Done(w, Finalized(to, t)) /\ Finalized(to, t) \in BOOLEAN
    BY <1>3 DEF RunFinalize, Finalized
  <2>2. to = "final" => week = "final"
    BY BoundaryFacts DEF Advance
  <2>3. Finalized(to, t) => week' = "final"
    BY <1>3, <2>2 DEF RunFinalize, Finalized, Seal
  <2>4. QED
    BY <2>1, <2>3
<1>4. ASSUME RunRollover(w) PROVE \E ok \in BOOLEAN : worker' = Done(w, ok) /\ (ok => Effect("rollover")')
  <2> DEFINE t == worker[w].listed
  <2>1. worker' = Done(w, Finalized(week, t)) /\ Finalized(week, t) \in BOOLEAN
    BY <1>4 DEF RunRollover, Finalized
  <2>2. Finalized(week, t) => week' = "final"
    BY <1>4 DEF RunRollover, Finalized, Seal
  <2>3. QED
    BY <2>1, <2>2
<1>5. ASSUME CommitRefresh(w) PROVE worker' = Done(w, TRUE) /\ Effect(o)'
  <2>1. PICK at \in Time : worker[w].listed <= at /\ Refreshed(at)
    BY <1>5 DEF CommitRefresh
  <2>2. /\ worker[w] # Idle /\ o \in Refreshing /\ worker[w].listed \in Time
        /\ worker' = Done(w, TRUE) /\ worker[w].pc # "cycle"
    BY <1>5, Standing DEF CommitRefresh, EffectInv
  <2>3. Scheduled[o] <= worker[w].listed
    BY <2>2 DEF PunctualInv, Punctual
  <2>4. latest' >= at /\ latest' \in Int
    BY <2>1 DEF Refreshed, TypeOK, Time, NoRefresh
  <2>5. latest' >= Scheduled[o]
    BY <2>1, <2>2, <2>3, <2>4 DEF Time
  <2>6. o \notin {"baseline", "lock", "finalize", "rollover"}
    BY <2>2
  <2>7. QED
    BY <2>2, <2>5, <2>6
<1>6. CASE CommitRefresh(w)
  BY <1>5, <1>6
<1>7. CASE Handle(w)
  BY <1>1, <1>2, <1>3, <1>4, <1>7
     DEF Handle, RunBaseline, RunLock, RunFinalize, RunRollover, Executes
<1>8. QED
  BY <1>6, <1>7

LEMMA EffectInductive ==
    TypeOK /\ WeekInv /\ PunctualInv /\ EffectInv /\ [Next]_vars => EffectInv'
<1> SUFFICES ASSUME TypeOK, WeekInv, PunctualInv, EffectInv, [Next]_vars PROVE EffectInv'
  OBVIOUS
<1> DEFINE Honest(v) ==
             \A o \in Occurrences : worker'[v].of = o =>
                /\ worker'[v].pc = "refreshing" => o \in Refreshing
                /\ worker'[v].pc = "succeeding" => Effect(o)'
<1>1. \A o \in Occurrences : Effect(o) => Effect(o)'
  BY EffectsLast
<1>2. \A v \in Workers : worker'[v] = worker[v] => Honest(v)
  BY <1>1 DEF EffectInv
<1>3. ASSUME \A v \in Workers : Honest(v),
             \A o \in Occurrences : run'[o].status = "succeeded" =>
                run[o].status = "succeeded" \/ Effect(o)
      PROVE  EffectInv'
  BY <1>1, <1>3 DEF EffectInv, SucceededRunsTookEffect
<1>4. ASSUME NEW w \in Workers,
             \A v \in Workers \ {w} : worker'[v] = worker[v],
             worker'[w].pc \notin {"refreshing", "succeeding"}
      PROVE  \A v \in Workers : Honest(v)
  BY <1>2, <1>4
<1>5. ASSUME NEW w \in Workers, Handle(w) \/ CommitRefresh(w) PROVE EffectInv'
  <2>1. PICK o \in Occurrences : worker[w].of = o
    BY <1>5, Standing DEF Handle, RunBaseline, RunLock, RunFinalize, RunRollover, Executes,
                          CommitRefresh
  <2>2. PICK ok \in BOOLEAN : worker' = Done(w, ok) /\ (ok => Effect(o)')
    BY <1>5, <2>1, HandlersTakeEffect
  <2>3. /\ \A v \in Workers \ {w} : worker'[v] = worker[v]
        /\ worker'[w].pc = IF ok THEN "succeeding" ELSE "failing"
        /\ worker'[w].of = o
    BY <2>1, <2>2 DEF Done, TypeOK
  <2>4. \A v \in Workers : Honest(v)
    BY <1>2, <2>2, <2>3
  <2>5. run' = run
    BY <1>5 DEF Handle, CommitRefresh
  <2>6. QED
    BY <1>3, <2>4, <2>5
<1>6. ASSUME NEW w \in Workers, StartRefresh(w) PROVE EffectInv'
  <2>1. PICK o \in Refreshing : worker' = [worker EXCEPT ![w] = At(w, "refreshing", o)]
    BY <1>6 DEF StartRefresh
  <2>2. /\ \A v \in Workers \ {w} : worker'[v] = worker[v]
        /\ worker'[w].pc = "refreshing" /\ worker'[w].of = o
    BY <2>1 DEF At, TypeOK
  <2>3. \A v \in Workers : Honest(v)
    BY <1>2, <2>2
  <2>4. QED
    BY <1>3, <1>6, <2>3 DEF StartRefresh
<1>7. ASSUME NEW w \in Workers, Succeed(w) PROVE EffectInv'
  <2>1. worker[w].of \in Occurrences /\ Effect(worker[w].of)
    BY <1>7, Standing DEF Succeed, EffectInv
  <2>2. \A o \in Occurrences : run'[o].status = "succeeded" =>
           run[o].status = "succeeded" \/ Effect(o)
    BY <1>7, <2>1 DEF Succeed, Ended, TypeOK
  <2>3. /\ \A v \in Workers \ {w} : worker'[v] = worker[v]
        /\ worker'[w].pc \notin {"refreshing", "succeeding"}
    BY <1>7 DEF Succeed, Behind, Idle, TypeOK
  <2>4. QED
    BY <1>3, <1>4, <2>2, <2>3
<1>8. ASSUME NEW w \in Workers,
             ListDue(w) \/ Visit(w) \/ LosesLease(w) \/ RefreshFails(w) \/ Fail(w) \/ Crash(w)
      PROVE  EffectInv'
  <2> DEFINE Quiet == /\ \A v \in Workers \ {w} : worker'[v] = worker[v]
                      /\ worker'[w].pc \notin {"refreshing", "succeeding"}
                      /\ \A o \in Occurrences :
                            run'[o].status = "succeeded" => run[o].status = "succeeded"
  <2>1. \A o : Behind(w, o).pc \notin {"refreshing", "succeeding"}
    BY DEF Behind, Idle
  <2>2. ASSUME ListDue(w) PROVE Quiet
    BY <2>2 DEF ListDue, TypeOK
  <2>3. ASSUME ClaimRun(w) PROVE Quiet
    BY <2>3 DEF ClaimRun, At, TypeOK
  <2>4. ASSUME ClaimRefused(w) PROVE Quiet
    BY <2>1, <2>4 DEF ClaimRefused, TypeOK
  <2>5. ASSUME LosesLease(w) PROVE Quiet
    BY <2>1, <2>5 DEF LosesLease, TypeOK
  <2>6. ASSUME RefreshFails(w) PROVE Quiet
    BY <2>6 DEF RefreshFails, Done, TypeOK
  <2>7. ASSUME Fail(w) PROVE Quiet
    <3>1. \A o \in Occurrences :
             run'[o].status = "succeeded" => run[o].status = "succeeded"
      BY <2>7 DEF Fail, Ended, TypeOK
    <3>2. /\ \A v \in Workers \ {w} : worker'[v] = worker[v]
          /\ worker'[w].pc \notin {"refreshing", "succeeding"}
      BY <2>1, <2>7 DEF Fail, Idle, TypeOK
    <3>3. QED
      BY <3>1, <3>2
  <2>8. ASSUME Crash(w) PROVE Quiet
    BY <2>8 DEF Crash, Idle, TypeOK
  <2>9. Quiet
    BY <1>8, <2>2, <2>3, <2>4, <2>5, <2>6, <2>7, <2>8 DEF Visit
  <2>10. QED
    BY <1>3, <1>4, <2>9
<1>9. ASSUME UNCHANGED <<run, worker>> PROVE EffectInv'
  BY <1>2, <1>3, <1>9
<1>10. ASSUME \/ Tick \/ BackgroundRefresh \/ UNCHANGED vars
              \/ \E t \in Doubtful : PrepareLate(t) \/ FinishLate(t)
       PROVE  UNCHANGED <<run, worker>>
  BY <1>10 DEF Tick, BackgroundRefresh, PrepareLate, FinishLate, vars
<1>11. Leaving \subseteq Workers
  BY WeekAssumption
<1>12. QED
  BY <1>5, <1>6, <1>7, <1>8, <1>9, <1>10, <1>11 DEF Next, WorkerStep

\* A run that is recorded as succeeded has had its effect, whichever attempt
\* of whichever process had it, and the effect lasts.
THEOREM SuccessMeansEffect == Spec => []SucceededRunsTookEffect
<1>1. Init => WeekInv
  BY DEF Init, WeekInv, ResultsAreComplete
<1>2. Init => PunctualInv
  BY WeekAssumption, OccurrenceFacts DEF Init, PunctualInv, PunctualRun, Punctual, Time
<1>3. Init => EffectInv
  BY DEF Init, EffectInv, SucceededRunsTookEffect, Idle
<1>4. EffectInv => SucceededRunsTookEffect
  BY DEF EffectInv
<1>5. QED
  BY <1>1, <1>2, <1>3, <1>4, TypeCorrect, WeekInductive, PunctualInductive,
     EffectInductive, PTL DEF Spec

----------------------------------------------------------------------------
\* No roster is locked before the week is live: it is the transition itself
\* that locks them, all at once.
UnlockedInv ==
    week \in {"scheduled", "baseline_ready"} => \A t \in Teams : lock[t] = "none"

LEMMA UnlockedInductive == TypeOK /\ WeekInv /\ UnlockedInv /\ [Next]_vars => UnlockedInv'
<1> SUFFICES ASSUME TypeOK, WeekInv, UnlockedInv, [Next]_vars PROVE UnlockedInv'
  OBVIOUS
<1>1. ASSUME UNCHANGED effects PROVE UnlockedInv'
  BY <1>1 DEF effects, UnlockedInv
<1>2. ASSUME NEW w \in Workers, Handle(w) PROVE UnlockedInv'
  <2>1. ASSUME RunBaseline(w) PROVE UnlockedInv'
    BY <2>1, BoundaryFacts DEF RunBaseline, Advance, WeekInv, UnlockedInv
  <2>2. ASSUME RunLock(w) PROVE UnlockedInv'
    BY <2>2 DEF RunLock, UnlockedInv
  <2>3. ASSUME RunFinalize(w) PROVE UnlockedInv'
    BY <2>3 DEF RunFinalize, Seal, UnlockedInv
  <2>4. ASSUME RunRollover(w) PROVE UnlockedInv'
    BY <2>4 DEF RunRollover, Seal, UnlockedInv
  <2>5. QED
    BY <1>2, <2>1, <2>2, <2>3, <2>4 DEF Handle
<1>3. ASSUME NEW t \in Doubtful, FinishLate(t) PROVE UnlockedInv'
  BY <1>3 DEF FinishLate, LateSourcesMatch, UnlockedInv
<1>4. QED
  BY <1>1, <1>2, <1>3, EffectSteps


----------------------------------------------------------------------------
\* The stage of each status.
LEMMA Stages ==
    /\ StageOf("scheduled") = "open" /\ StageOf("baseline_ready") = "open"
    /\ StageOf("live") = "locked"
    /\ StageOf("awaiting_data") = "closed"
    /\ StageOf("final") = "final"
BY DEF StageOf

\* Results from ready statistics are those of the abstract settlement.
LEMMA SealSettles ==
    ASSUME TypeOK, NEW t, Ready(t), Seal, UNCHANGED lock,
           week \in {"live", "awaiting_data"}
    PROVE  \E at \in Time : Sealed!Settle(at)
<1> USE WeekAssumption
<1>1. week' = "final" /\ result' = [m \in Matchups |-> [refresh |-> latest, lock |-> lock]]
  BY DEF Seal
<1>2. latest \in Time /\ Ends <= latest
  BY DEF Ready, TypeOK, Time, NoRefresh
<1>3. ASSUME NEW team \in Teams, lock[team] # "illegal" PROVE GamesOver[team] <= latest
  <2>1. PICK m \in Matchups : team \in m
    BY DEF Teams
  <2>2. ~(latest < GamesOver[team])
    BY <1>3, <2>1 DEF Ready, Pending
  <2>3. latest \in Int /\ GamesOver[team] \in Int
    BY <1>2 DEF Teams, Time
  <2>4. QED
    BY <2>2, <2>3
<1>4. StageOf(week) \in {"locked", "closed"} /\ StageOf(week') = "final"
  BY <1>1, Stages
<1>5. Sealed!Settle(latest)
  BY <1>1, <1>2, <1>3, <1>4 DEF Sealed!Settle, Sealed!Complete, Sealed!Teams, Teams
<1>6. QED
  BY <1>2, <1>5

\* Each handler is one step of the sealed week, or none.
LEMMA HandlersAreSealed ==
    ASSUME TypeOK, WeekInv, UnlockedInv, NEW w \in Workers, Handle(w)
    PROVE  Sealed!Next \/ UNCHANGED Sealed!vars
<1>1. ASSUME UNCHANGED <<StageOf(week), lock, result>> PROVE UNCHANGED Sealed!vars
  BY <1>1 DEF Sealed!vars
<1>2. ASSUME RunBaseline(w) PROVE UNCHANGED Sealed!vars
  <2>1. week' = week \/ (week = "scheduled" /\ week' = "baseline_ready")
    BY <1>2, BoundaryFacts DEF RunBaseline, Advance, WeekInv
  <2>2. UNCHANGED <<lock, result>>
    BY <1>2 DEF RunBaseline
  <2>3. StageOf(week') = StageOf(week)
    BY <2>1, Stages
  <2>4. QED
    BY <1>1, <2>2, <2>3
<1>3. ASSUME RunLock(w) PROVE Sealed!Next \/ UNCHANGED Sealed!vars
  <2>1. PICK illegal \in SUBSET Doubtful, ok \in BOOLEAN :
           /\ ok => Advance("lock", worker[w].listed) = "live"
           /\ IF ok THEN week' = "live" /\ operations' = operations \cup {"lock"}
                         /\ lock' = LockedWith(illegal)
              ELSE UNCHANGED <<week, operations, lock>>
           /\ result' = result
    BY <1>3 DEF RunLock
  <2>2. ok => week \in {"baseline_ready", "live"}
    BY <2>1, BoundaryFacts DEF Advance
  <2>3. CASE ok /\ week = "live"
    <3>1. \A t \in Teams : lock[t] # "none"
      BY <2>3 DEF WeekInv
    <3>2. lock' = lock
      BY <2>1, <2>3, <3>1 DEF LockedWith, TypeOK
    <3>3. week' = week
      BY <2>1, <2>3
    <3>4. StageOf(week') = StageOf(week)
      BY <3>3
    <3>5. QED
      BY <1>1, <2>1, <3>2, <3>4
  <2>4. CASE ok /\ week = "baseline_ready"
    <3>1. LockedWith(illegal) \in [Teams -> {"normal", "illegal"}]
      <4>1. \A t \in Teams : lock[t] = "none"
        BY <2>4 DEF UnlockedInv
      <4>2. QED
        BY <4>1 DEF LockedWith
    <3>2. Sealed!LockRosters
      BY <2>1, <2>4, <3>1, Stages DEF Sealed!LockRosters, Sealed!Teams, Teams
    <3>3. QED
      BY <3>2 DEF Sealed!Next
  <2>5. CASE ~ok
    BY <1>1, <2>1, <2>5
  <2>6. QED
    BY <2>2, <2>3, <2>4, <2>5
<1>4. ASSUME RunFinalize(w) PROVE Sealed!Next \/ UNCHANGED Sealed!vars
  <2> DEFINE t == worker[w].listed
             to == Advance("finalize", t)
  <2>1. lock' = lock
    BY <1>4 DEF RunFinalize
  <2>2. CASE to = "awaiting_data" /\ Readable(t) /\ Ready(t)
    <3>1. week \in {"live", "awaiting_data"}
      BY <2>2, BoundaryFacts DEF Advance
    <3>2. Seal
      BY <1>4, <2>2 DEF RunFinalize
    <3>3. QED
      BY <2>1, <2>2, <3>1, <3>2, SealSettles DEF Sealed!Next
  <2>3. CASE to = "awaiting_data" /\ Readable(t) /\ ~Ready(t)
    <3>1. week \in {"live", "awaiting_data"}
      BY <2>3, BoundaryFacts DEF Advance
    <3>2. week' = "awaiting_data" /\ result' = result
      BY <1>4, <2>3 DEF RunFinalize
    <3>3. CASE week = "live"
      BY <2>1, <3>2, <3>3, Stages DEF Sealed!Close, Sealed!Next
    <3>4. CASE week = "awaiting_data"
      BY <1>1, <2>1, <3>2, <3>4
    <3>5. QED
      BY <3>1, <3>3, <3>4
  <2>4. CASE ~(to = "awaiting_data" /\ Readable(t))
    BY <1>1, <1>4, <2>1, <2>4 DEF RunFinalize
  <2>5. QED
    BY <2>2, <2>3, <2>4
<1>5. ASSUME RunRollover(w) PROVE Sealed!Next \/ UNCHANGED Sealed!vars
  <2> DEFINE t == worker[w].listed
  <2>1. lock' = lock
    BY <1>5 DEF RunRollover
  <2>2. CASE week = "awaiting_data" /\ Readable(t) /\ Ready(t)
    <3>1. Seal
      BY <1>5, <2>2 DEF RunRollover
    <3>2. QED
      BY <2>1, <2>2, <3>1, SealSettles DEF Sealed!Next
  <2>3. CASE ~(week = "awaiting_data" /\ Readable(t) /\ Ready(t))
    BY <1>1, <1>5, <2>1, <2>3 DEF RunRollover
  <2>4. QED
    BY <2>2, <2>3
<1>6. QED
  BY <1>2, <1>3, <1>4, <1>5 DEF Handle

\* A late lock is the only other step of the sealed week.
LEMMA LateLocksAreSealed ==
    ASSUME TypeOK, NEW t \in Doubtful, FinishLate(t)
    PROVE  Sealed!Next \/ UNCHANGED Sealed!vars
<1>1. week' = week /\ result' = result
  BY DEF FinishLate
<1>2. StageOf(week') = StageOf(week)
  BY <1>1
<1>3. CASE UNCHANGED lock
  BY <1>1, <1>2, <1>3 DEF Sealed!vars
<1>4. CASE LateSourcesMatch(t) /\ lock' = [lock EXCEPT ![t] = "late"]
  <2>1. Sealed!LockLate(t)
    BY <1>1, <1>2, <1>4, Stages DEF LateSourcesMatch, Sealed!LockLate
  <2>2. t \in Sealed!Teams
    BY WeekAssumption DEF Sealed!Teams
  <2>3. QED
    BY <2>1, <2>2 DEF Sealed!Next
<1>5. QED
  BY <1>3, <1>4 DEF FinishLate

\* The week implements SealedWeek: whatever workers, leases, retries and late
\* locks do, its rosters are locked together and its results come together,
\* once, over the locks as they stand.
THEOREM WeekIsSealed == Spec => ImplementsSealedWeek
<1>1. Init => Sealed!Init
  <2> SUFFICES ASSUME Init PROVE Sealed!Init
    OBVIOUS
  <2>1. StageOf(week) = "open"
    BY Stages DEF Init
  <2>2. QED
    BY <2>1 DEF Init, Sealed!Init, Sealed!Teams, Teams, Sealed!Missing, NoResult, NoRefresh
<1>2. TypeOK /\ WeekInv /\ UnlockedInv /\ [Next]_vars => [Sealed!Next]_(Sealed!vars)
  <2> SUFFICES ASSUME TypeOK, WeekInv, UnlockedInv, [Next]_vars
               PROVE  Sealed!Next \/ UNCHANGED Sealed!vars
    OBVIOUS
  <2>1. ASSUME UNCHANGED effects PROVE UNCHANGED Sealed!vars
    BY <2>1 DEF effects, Sealed!vars
  <2>2. QED
    BY <2>1, EffectSteps, HandlersAreSealed, LateLocksAreSealed
<1>3. Init => WeekInv /\ UnlockedInv
  BY DEF Init, WeekInv, ResultsAreComplete, UnlockedInv
<1>4. QED
  BY <1>1, <1>2, <1>3, TypeCorrect, WeekInductive, UnlockedInductive, PTL
     DEF Spec, ImplementsSealedWeek, Sealed!Spec
=============================================================================
