----------------------- MODULE ScheduledBackupProofs -----------------------
(***************************************************************************)
(* Proofs about scheduled backups: types, the single live lease, the order *)
(* in which a backup's objects reach the store, and the agreement of the   *)
(* catalogue with the receipts, and the refinement of BackupVault.         *)
(***************************************************************************)
EXTENDS ScheduledBackup, TLAPS

USE BackupAssumption

LEMMA OccurrenceNow == TypeOK => now \div Interval \in Occurrences
<1> SUFFICES ASSUME TypeOK PROVE now \div Interval \in Occurrences
  OBVIOUS
<1>1. now \in Nat /\ now <= MaxTime /\ Interval \in Nat \ {0}
  BY DEF TypeOK, Times
<1>2. now \div Interval \in Nat /\ MaxTime \div Interval \in Nat
  BY <1>1
<1>3. now \div Interval <= MaxTime \div Interval
  BY <1>1
<1>4. QED
  BY <1>2, <1>3 DEF Occurrences

Working == {"loading", "artifact", "manifest", "receipt", "confirming", "failing"}

\* What TypeOK says of a worker that carries out an attempt.
LEMMA WorkerFacts ==
    ASSUME TypeOK, NEW w \in Workers, worker[w] # Idle
    PROVE  /\ worker[w].pc \in Working \cup {"verified"}
           /\ worker[w].run \in Occurrences /\ worker[w].attempt \in Nat
           /\ worker[w].pc = "verified" => worker[w].evidence \in Backups
           /\ Attempt(w) \in Backups
BY DEF TypeOK, Working, Attempt, Backups

----------------------------------------------------------------------------
RunType == [status : {"none", "pending", "leased", "failed", "succeeded"},
            attempts : Nat, expires : Nat, due : Nat]
WorkerType ==
    {Idle}
    \cup [pc : {"loading", "artifact", "manifest", "receipt", "confirming", "failing"},
          run : Occurrences, attempt : Nat]
    \cup [pc : {"verified", "failing"}, run : Occurrences, attempt : Nat, evidence : Backups]

LEMMA GoesTyped ==
    ASSUME TypeOK, NEW w \in Workers, worker[w] # Idle, NEW pc \in Working,
           worker[w].pc \in {"verified", "failing"} => pc = "failing"
    PROVE  Goes(w, pc) \in [Workers -> WorkerType]
<1>1. worker[w] \in WorkerType
  BY DEF TypeOK, WorkerType
<1>2. [worker[w] EXCEPT !.pc = pc] \in WorkerType
  <2>1. CASE worker[w] \in [pc : {"loading", "artifact", "manifest", "receipt", "confirming", "failing"},
                            run : Occurrences, attempt : Nat]
    BY <2>1 DEF WorkerType, Working
  <2>2. CASE worker[w] \in [pc : {"verified", "failing"}, run : Occurrences, attempt : Nat,
                            evidence : Backups]
    BY <2>2 DEF WorkerType
  <2>3. QED
    BY <1>1, <2>1, <2>2 DEF WorkerType
<1>3. worker \in [Workers -> WorkerType]
  BY DEF TypeOK, WorkerType
<1>4. QED
  BY <1>2, <1>3 DEF Goes

\* The types of TypeOK by their names.
Typed ==
    /\ now \in Times
    /\ run \in [Occurrences -> RunType]
    /\ worker \in [Workers -> WorkerType]
    /\ wire \in SUBSET [kind : {"artifact", "manifest", "receipt"}, backup : Backups]
    /\ artifacts \in SUBSET Backups /\ manifests \in SUBSET Backups
    /\ receipts \in [Occurrences -> Backups \cup {NoReceipt}]
    /\ catalog \in SUBSET [run : Occurrences, backup : Backups]
    /\ faults \in Nat

LEMMA RenewedTyped ==
    ASSUME TypeOK, NEW w \in Workers, worker[w] # Idle
    PROVE  Renewed(w) \in [Occurrences -> RunType]
<1>1. now + Lease \in Nat
  BY DEF TypeOK, Times
<1>2. QED
  BY <1>1, WorkerFacts DEF TypeOK, Renewed, RunType

LEMMA RequestTyped ==
    ASSUME TypeOK, NEW w \in Workers, worker[w] # Idle,
           NEW kind \in {"artifact", "manifest", "receipt"}
    PROVE  Request(w, kind) \in [kind : {"artifact", "manifest", "receipt"}, backup : Backups]
BY WorkerFacts DEF Request

LEMMA TypeInductive == TypeOK /\ [Next]_vars => TypeOK'
<1> SUFFICES ASSUME TypeOK, [Next]_vars PROVE TypeOK'
  OBVIOUS
<1>t. Typed' => TypeOK'
  BY DEF TypeOK, Typed, RunType, WorkerType
<1>0. /\ Typed
      /\ now \in Nat /\ now + Lease \in Nat /\ now + Retry \in Nat
      /\ worker \in [Workers -> WorkerType] /\ run \in [Occurrences -> RunType]
  BY DEF TypeOK, Times, Typed, RunType, WorkerType
<1>1. ASSUME Tick PROVE TypeOK'
  BY <1>1 DEF Tick, TypeOK, Times, store
<1>2. ASSUME NEW w \in Workers, Claim(w) PROVE TypeOK'
  <2>1. WithCurrentOccurrence \in [Occurrences -> RunType]
    <3>1. (now \div Interval) * Interval \in Nat
      BY <1>0, OccurrenceNow DEF Occurrences
    <3>2. QED
      BY <1>0, <3>1, OccurrenceNow DEF WithCurrentOccurrence, RunType
  <2>2. PICK o \in Occurrences :
           /\ run' = [WithCurrentOccurrence EXCEPT ![o].status = "leased", ![o].attempts = @ + 1,
                                                   ![o].expires = now + Lease]
           /\ worker' = [worker EXCEPT ![w] =
                 [pc |-> "loading", run |-> o, attempt |-> WithCurrentOccurrence[o].attempts + 1]]
    BY <1>2 DEF Claim
  <2>3. run' \in [Occurrences -> RunType]
    BY <1>0, <2>1, <2>2 DEF RunType
  <2>4. worker' \in [Workers -> WorkerType]
    <3>1. WithCurrentOccurrence[o].attempts + 1 \in Nat
      BY <2>1 DEF RunType
    <3>2. QED
      BY <1>0, <2>2, <3>1 DEF WorkerType
  <2>5. QED
    BY <1>2, <2>3, <2>4, <1>t, <1>0 DEF Typed, Claim, store
<1>3. ASSUME NEW w \in Workers, Heartbeat(w) PROVE TypeOK'
  <2>1. worker[w] # Idle
    BY <1>3 DEF Heartbeat, Idle
  <2>2. QED
    BY <1>3, <2>1, RenewedTyped, <1>t, <1>0 DEF Typed, Heartbeat, store
<1>4. ASSUME NEW w \in Workers, LosesLease(w) PROVE TypeOK'
  <2>1. worker[w] # Idle
    BY <1>4 DEF LosesLease, Idle
  <2>2. QED
    BY <1>4, <2>1, GoesTyped, <1>t, <1>0 DEF Typed, LosesLease, Working, store
<1>5. ASSUME NEW w \in Workers, LoadsNoReceipt(w) PROVE TypeOK'
  <2>1. worker[w] # Idle
    BY <1>5 DEF LoadsNoReceipt, Idle
  <2>2. worker' \in [Workers -> WorkerType]
    BY <1>5, <2>1, GoesTyped DEF LoadsNoReceipt, Working
  <2>3. wire' \in SUBSET [kind : {"artifact", "manifest", "receipt"}, backup : Backups]
    BY <1>5, <2>1, RequestTyped DEF LoadsNoReceipt, TypeOK
  <2>4. QED
    BY <1>5, <2>1, <2>2, <2>3, RenewedTyped, <1>t, <1>0 DEF Typed, LoadsNoReceipt, store
<1>6. ASSUME NEW w \in Workers, LoadsReceipt(w) PROVE TypeOK'
  <2>1. worker[w] # Idle
    BY <1>6 DEF LoadsReceipt, Idle
  <2>2. receipts[worker[w].run] \in Backups
    BY <1>6, <2>1, WorkerFacts DEF LoadsReceipt, TypeOK
  <2>3. worker' \in [Workers -> WorkerType]
    BY <1>0, <1>6, <2>1, <2>2, WorkerFacts DEF LoadsReceipt, WorkerType
  <2>4. QED
    BY <1>6, <2>1, <2>3, RenewedTyped, <1>t, <1>0 DEF Typed, LoadsReceipt, store
<1>7. ASSUME NEW w \in Workers, PutReturns(w) PROVE TypeOK'
  <2>1. worker[w] # Idle
    BY <1>7 DEF PutReturns, NextPut, Idle
  <2>2. /\ NextPut[worker[w].pc] \in Working
        /\ NextPut[worker[w].pc] # "confirming" => NextPut[worker[w].pc] \in {"manifest", "receipt"}
        /\ worker[w].pc \notin {"verified", "failing"}
    BY <1>7 DEF PutReturns, NextPut, Working
  <2>3. worker' \in [Workers -> WorkerType]
    BY <1>7, <2>1, <2>2, GoesTyped DEF PutReturns
  <2>4. wire' \in SUBSET [kind : {"artifact", "manifest", "receipt"}, backup : Backups]
    BY <1>7, <2>1, <2>2, RequestTyped DEF PutReturns, TypeOK
  <2>5. QED
    BY <1>7, <2>1, <2>3, <2>4, RenewedTyped, <1>t, <1>0 DEF Typed, PutReturns, store
<1>8. ASSUME NEW w \in Workers, Complete(w) PROVE TypeOK'
  <2>1. worker[w] # Idle
    BY <1>8 DEF Complete, Idle
  <2>2. catalog' \in SUBSET [run : Occurrences, backup : Backups]
    BY <1>8, <2>1, WorkerFacts DEF Complete, Entry, TypeOK
  <2>3. run' \in [Occurrences -> RunType]
    BY <1>0, <1>8, <2>1, WorkerFacts DEF Complete, RunType
  <2>4. worker' \in [Workers -> WorkerType]
    BY <1>0, <1>8 DEF Complete, WorkerType
  <2>5. QED
    BY <1>8, <2>2, <2>3, <2>4, <1>t, <1>0 DEF Typed, Complete, store
<1>9. ASSUME NEW w \in Workers, CompleteIsStale(w) PROVE TypeOK'
  <2>1. worker[w] # Idle
    BY <1>9 DEF CompleteIsStale, Idle
  <2>2. [worker EXCEPT ![w] = Idle] \in [Workers -> WorkerType]
    BY <1>0 DEF WorkerType
  <2>3. QED
    BY <1>9, <2>1, <2>2, GoesTyped, <1>t, <1>0 DEF Typed, CompleteIsStale, Working, store
<1>10. ASSUME NEW w \in Workers, Fails(w) PROVE TypeOK'
  <2>1. worker[w] # Idle
    BY <1>10 DEF Fails, Idle
  <2>2. run' \in [Occurrences -> RunType]
    BY <1>0, <1>10, <2>1, WorkerFacts DEF Fails, FailedRun, RunType
  <2>3. worker' \in [Workers -> WorkerType]
    BY <1>0, <1>10 DEF Fails, WorkerType
  <2>4. QED
    BY <1>10, <2>2, <2>3, <1>t, <1>0 DEF Typed, Fails, store
<1>11. ASSUME NEW w \in Workers, Errs(w) PROVE TypeOK'
  <2>1. worker[w] # Idle
    BY <1>11 DEF Errs, Idle
  <2>2. faults' \in Nat
    BY <1>11 DEF Errs, Fault, TypeOK
  <2>3. QED
    BY <1>11, <2>1, <2>2, GoesTyped, <1>t, <1>0 DEF Typed, Errs, Working, store
<1>12. ASSUME NEW w \in Workers, Crash(w) PROVE TypeOK'
  <2>1. worker' \in [Workers -> WorkerType] /\ faults' \in Nat
    BY <1>0, <1>12 DEF Crash, Fault, WorkerType, TypeOK
  <2>2. QED
    BY <1>12, <2>1, <1>t, <1>0 DEF Typed, Crash, store
<1>13. ASSUME NEW q \in wire, Lands(q) PROVE TypeOK'
  <2>1. q.backup \in Backups /\ q.backup.run \in Occurrences
    BY DEF TypeOK, Backups
  <2>2. receipts' \in [Occurrences -> Backups \cup {NoReceipt}]
    BY <1>13, <2>1 DEF Lands, ReceiptAfter, TypeOK
  <2>3. artifacts' \in SUBSET Backups /\ manifests' \in SUBSET Backups /\ wire' \subseteq wire
    BY <1>13, <2>1 DEF Lands, TypeOK
  <2>4. QED
    BY <1>13, <2>2, <2>3, <1>t, <1>0 DEF Typed, Lands
<1>14. ASSUME NEW q \in wire, Lost(q) PROVE TypeOK'
  BY <1>14, <1>t, <1>0 DEF Typed, Lost, store
<1>15. ASSUME UNCHANGED vars PROVE TypeOK'
  BY <1>15, <1>t, <1>0 DEF Typed, vars, store
<1>16. QED
  BY <1>1, <1>2, <1>3, <1>4, <1>5, <1>6, <1>7, <1>8, <1>9, <1>10, <1>11, <1>12, <1>13, <1>14, <1>15
     DEF Next, Proceeds

\* The rows, the attempts and the store keep their types, for any number of
\* processes, any interval, lease and retry delay.
THEOREM TypeCorrect == Spec => []TypeOK
<1>1. Init => TypeOK
  BY DEF Init, TypeOK, Times, NoRun, NoReceipt, Idle
<1>2. QED
  BY <1>1, TypeInductive, PTL DEF Spec

----------------------------------------------------------------------------
\* What a step may do to the rows: begin the oldest one due when nothing is
\* running, renew or end the row of the current attempt, or nothing.
Begins(o) ==
    /\ NothingRunning
    /\ Claimable(WithCurrentOccurrence[o])
    /\ run' = [WithCurrentOccurrence EXCEPT ![o].status = "leased", ![o].attempts = @ + 1,
                                            ![o].expires = now + Lease]
    /\ now' = now

Ends(w) ==
    /\ worker[w] # Idle /\ Current(w)
    /\ \A p \in Occurrences \ {worker[w].run} : run'[p] = run[p]
    /\ run'[worker[w].run].status \in {"succeeded", "failed"}
    /\ run'[worker[w].run].attempts = run[worker[w].run].attempts

Renews(w) == worker[w] # Idle /\ Current(w) /\ run' = Renewed(w) /\ now' = now

LEMMA RowsChange ==
    ASSUME TypeOK, [Next]_vars
    PROVE  \/ \E o \in Occurrences : Begins(o)
           \/ \E w \in Workers : Renews(w) \/ Ends(w)
           \/ run' = run
<1>1. ASSUME NEW w \in Workers, Claim(w) PROVE \E o \in Occurrences : Begins(o)
  BY <1>1 DEF Claim, Begins
<1>2. ASSUME NEW w \in Workers,
             Heartbeat(w) \/ LoadsNoReceipt(w) \/ LoadsReceipt(w) \/ PutReturns(w)
      PROVE  Renews(w)
  BY <1>2 DEF Heartbeat, LoadsNoReceipt, LoadsReceipt, PutReturns, NextPut, Renews, Idle
<1>3. ASSUME NEW w \in Workers, Complete(w) \/ Fails(w) PROVE Ends(w) \/ run' = run
  <2>1. worker[w] # Idle
    BY <1>3 DEF Complete, Fails, Idle
  <2>2. now + Retry \in Nat /\ worker[w].run \in Occurrences /\ run[worker[w].run] \in RunType
    BY <2>1, WorkerFacts DEF TypeOK, Times, RunType
  <2>3. CASE Complete(w)
    BY <2>1, <2>2, <2>3 DEF Complete, Ends, RunType, TypeOK
  <2>4. CASE Fails(w) /\ Current(w)
    BY <2>1, <2>2, <2>4 DEF Fails, FailedRun, Ends, RunType, TypeOK
  <2>5. CASE Fails(w) /\ ~Current(w)
    BY <2>5 DEF Fails, FailedRun
  <2>6. QED
    BY <1>3, <2>3, <2>4, <2>5
<1>4. ASSUME NEW w \in Workers, LosesLease(w) \/ CompleteIsStale(w) \/ Errs(w) \/ Crash(w)
      PROVE  run' = run
  BY <1>4 DEF LosesLease, CompleteIsStale, Errs, Crash
<1>5. ASSUME Tick \/ (\E q \in wire : Lands(q) \/ Lost(q)) \/ UNCHANGED vars PROVE run' = run
  BY <1>5 DEF Tick, Lands, Lost, vars
<1>6. QED
  BY <1>1, <1>2, <1>3, <1>4, <1>5 DEF Next, Proceeds

LEMMA TimeGrows == TypeOK /\ [Next]_vars => now' >= now /\ now' \in Nat /\ now \in Nat
<1> SUFFICES ASSUME TypeOK, [Next]_vars PROVE now' >= now /\ now' \in Nat /\ now \in Nat
  OBVIOUS
<1>1. now \in Nat
  BY DEF TypeOK, Times
<1>2. CASE Tick
  BY <1>1, <1>2 DEF Tick
<1>3. ASSUME NEW w \in Workers, Proceeds(w) PROVE now' = now
  BY <1>3 DEF Proceeds, LosesLease, LoadsNoReceipt, LoadsReceipt, PutReturns, Complete,
              CompleteIsStale, Fails
<1>4. ASSUME NEW w \in Workers, Claim(w) \/ Heartbeat(w) \/ Errs(w) \/ Crash(w) PROVE now' = now
  BY <1>4 DEF Claim, Heartbeat, Errs, Crash
<1>5. ASSUME (\E q \in wire : Lands(q) \/ Lost(q)) \/ UNCHANGED vars PROVE now' = now
  BY <1>5 DEF Lands, Lost, vars
<1>6. QED
  BY <1>1, <1>2, <1>3, <1>4, <1>5 DEF Next

\* The rows that a claim does not take keep everything but "none".
LEMMA OtherRows ==
    ASSUME TypeOK, NEW o \in Occurrences, Begins(o), NEW p \in Occurrences
    PROVE  /\ p # o => run'[p] = run[p] \/ run'[p].status = "pending"
           /\ p = o => run'[o].status = "leased" /\ run[o].status # "succeeded"
           /\ run'[p].attempts = IF p = o THEN run[p].attempts + 1 ELSE run[p].attempts
<1>1. /\ WithCurrentOccurrence[p] = run[p] \/ WithCurrentOccurrence[p].status = "pending"
      /\ WithCurrentOccurrence[p].attempts = run[p].attempts
      /\ WithCurrentOccurrence \in [Occurrences -> RunType]
      /\ run[p].status = "succeeded" => WithCurrentOccurrence[p] = run[p]
  <2>1. (now \div Interval) * Interval \in Nat
    BY OccurrenceNow DEF Occurrences
  <2>2. QED
    BY <2>1, OccurrenceNow DEF WithCurrentOccurrence, TypeOK, RunType, NoRun
<1>2. QED
  BY <1>1 DEF Begins, Claimable, RunType

LEMMA OneLeaseInductive == TypeOK /\ OneLiveLease /\ [Next]_vars => OneLiveLease'
<1> SUFFICES ASSUME TypeOK, OneLiveLease, [Next]_vars PROVE OneLiveLease'
  OBVIOUS
<1>1. ASSUME \A o \in Occurrences : LiveLease(o)' => LiveLease(o) PROVE OneLiveLease'
  BY <1>1 DEF OneLiveLease
<1>2. ASSUME NEW o \in Occurrences, Begins(o) PROVE OneLiveLease'
  <2>1. \A p \in Occurrences : LiveLease(p)' => p = o
    BY <1>2, OtherRows DEF LiveLease, Begins, NothingRunning
  <2>2. QED
    BY <2>1 DEF OneLiveLease
<1>3. ASSUME NEW w \in Workers, Renews(w) PROVE OneLiveLease'
  <2>1. \A p \in Occurrences : LiveLease(p)' => LiveLease(p)
    BY <1>3, WorkerFacts DEF Renews, Renewed, Current, LiveLease, TypeOK
  <2>2. QED
    BY <1>1, <2>1
<1>4. ASSUME NEW w \in Workers, Ends(w) PROVE OneLiveLease'
  <2>1. \A p \in Occurrences : LiveLease(p)' => LiveLease(p)
    <3> SUFFICES ASSUME NEW p \in Occurrences, LiveLease(p)' PROVE LiveLease(p)
      OBVIOUS
    <3>1. p # worker[w].run
      BY <1>4 DEF Ends, LiveLease, TypeOK
    <3>2. run'[p] = run[p] /\ run[p].expires \in Nat
      BY <1>4, <3>1 DEF Ends, TypeOK
    <3>3. QED
      BY <3>2, TimeGrows DEF LiveLease
  <2>2. QED
    BY <1>1, <2>1
<1>5. ASSUME run' = run PROVE OneLiveLease'
  <2>1. \A p \in Occurrences : run[p].expires \in Nat
    BY DEF TypeOK
  <2>2. QED
    BY <1>1, <1>5, <2>1, TimeGrows DEF LiveLease
<1>6. QED
  BY <1>2, <1>3, <1>4, <1>5, RowsChange

\* At most one attempt at a time may touch the store, over all occurrences,
\* for any number of processes.
THEOREM OneLease == Spec => []OneLiveLease
<1>1. Init => OneLiveLease
  BY DEF Init, OneLiveLease, LiveLease, NoRun
<1>2. QED
  BY <1>1, TypeCorrect, OneLeaseInductive, PTL DEF Spec

----------------------------------------------------------------------------
\* What a step may do to a worker.
Stays(w) == \A x \in Workers \ {w} : worker'[x] = worker[x]

Quiet == {"idle", "loading", "confirming", "failing"}

LEMMA WorkersChange ==
    ASSUME TypeOK, NEW w \in Workers
    PROVE  /\ Claim(w) => Stays(w) /\ worker'[w].pc = "loading"
           /\ LosesLease(w) \/ Errs(w) => Stays(w) /\ worker'[w].pc = "failing"
           /\ Complete(w) \/ Fails(w) \/ Crash(w) => Stays(w) /\ worker'[w].pc = "idle"
           /\ CompleteIsStale(w) => Stays(w) /\ worker'[w].pc \in {"idle", "failing"}
           /\ LoadsReceipt(w) => Stays(w) /\ worker'[w].pc = "verified"
<1> USE DEF TypeOK, Stays, Idle
<1>1. worker[w].pc # "idle" => \A pc : Goes(w, pc)[w].pc = pc
  BY DEF Goes
<1>2. \A pc : \A x \in Workers \ {w} : Goes(w, pc)[x] = worker[x]
  BY DEF Goes
<1>3. Claim(w) => Stays(w) /\ worker'[w].pc = "loading"
  BY DEF Claim
<1>4. LosesLease(w) \/ Errs(w) => Stays(w) /\ worker'[w].pc = "failing"
  BY <1>1, <1>2 DEF LosesLease, Errs
<1>5. Complete(w) \/ Fails(w) \/ Crash(w) => Stays(w) /\ worker'[w].pc = "idle"
  BY DEF Complete, Fails, Crash
<1>6. CompleteIsStale(w) => Stays(w) /\ worker'[w].pc \in {"idle", "failing"}
  BY <1>1, <1>2 DEF CompleteIsStale
<1>7. LoadsReceipt(w) => Stays(w) /\ worker'[w].pc = "verified"
  BY DEF LoadsReceipt
<1>8. QED
  BY <1>3, <1>4, <1>5, <1>6, <1>7

\* A put that returns, or the first one that is sent, keeps the attempt.
LEMMA PutsChange ==
    ASSUME TypeOK, NEW w \in Workers, LoadsNoReceipt(w) \/ PutReturns(w)
    PROVE  /\ Stays(w) /\ worker[w] # Idle
           /\ LoadsNoReceipt(w) => worker'[w].pc = "artifact"
           /\ PutReturns(w) => worker'[w].pc = NextPut[worker[w].pc]
           /\ worker'[w].run = worker[w].run /\ worker'[w].attempt = worker[w].attempt
<1>1. worker[w].pc \in {"loading", "artifact", "manifest", "receipt"}
  BY DEF LoadsNoReceipt, PutReturns, NextPut
<1>2. worker[w] # Idle
  BY <1>1 DEF Idle
<1>3. \A pc : /\ Goes(w, pc)[w].pc = pc
              /\ Goes(w, pc)[w].run = worker[w].run
              /\ Goes(w, pc)[w].attempt = worker[w].attempt
              /\ \A x \in Workers \ {w} : Goes(w, pc)[x] = worker[x]
  BY <1>1, <1>2 DEF Goes, TypeOK
<1>4. QED
  BY <1>2, <1>3 DEF LoadsNoReceipt, PutReturns, Stays

----------------------------------------------------------------------------
\* How far the objects of an attempt have come when it asks for the next.
Placed(w) ==
    /\ worker[w].pc = "artifact" => Request(w, "artifact") \in wire \/ Attempt(w) \in artifacts
    /\ worker[w].pc = "manifest" =>
          Attempt(w) \in artifacts /\ (Request(w, "manifest") \in wire \/ Attempt(w) \in manifests)
    /\ worker[w].pc = "receipt" => Restorable(Attempt(w))

\* A receipt on its way to the store, and one that is there, is of a complete
\* backup, because each put is answered before the next is sent.
StoreInv ==
    /\ \A w \in Workers : Placed(w)
    /\ \A q \in wire : q.kind = "receipt" => Restorable(q.backup)
    /\ ReceiptsAreRestorable

LEMMA StoreInductive == TypeOK /\ StoreInv /\ [Next]_vars => StoreInv'
<1> SUFFICES ASSUME TypeOK, StoreInv, [Next]_vars PROVE StoreInv'
  OBVIOUS
<1>1. ASSUME UNCHANGED <<wire, store>>,
             \A x \in Workers : worker'[x] = worker[x] \/ worker'[x].pc \in Quiet \cup {"verified"}
      PROVE  StoreInv'
  <2>1. ReceiptsAreRestorable'
    BY <1>1 DEF StoreInv, ReceiptsAreRestorable, Restorable, store
  <2>2. \A x \in Workers : Placed(x)'
    BY <1>1 DEF StoreInv, Placed, Request, Attempt, Restorable, store, Quiet
  <2>3. QED
    BY <1>1, <2>1, <2>2 DEF StoreInv, Restorable, store
<1>2. ASSUME NEW w \in Workers,
             \/ Claim(w) \/ LosesLease(w) \/ Errs(w) \/ Complete(w) \/ Fails(w) \/ Crash(w)
             \/ CompleteIsStale(w) \/ LoadsReceipt(w)
      PROVE  StoreInv'
  <2>1. UNCHANGED <<wire, store>>
    BY <1>2 DEF Claim, LosesLease, Errs, Complete, Fails, Crash, CompleteIsStale, LoadsReceipt
  <2>2. QED
    BY <1>1, <1>2, <2>1, WorkersChange DEF Stays, Quiet
<1>3. ASSUME (\E w \in Workers : Heartbeat(w)) \/ Tick \/ UNCHANGED vars PROVE StoreInv'
  BY <1>1, <1>3 DEF Heartbeat, Tick, vars
<1>4. ASSUME NEW w \in Workers, LoadsNoReceipt(w) PROVE StoreInv'
  <2>1. /\ UNCHANGED store /\ wire' = wire \cup {Request(w, "artifact")}
        /\ Stays(w) /\ worker'[w].pc = "artifact"
        /\ worker'[w].run = worker[w].run /\ worker'[w].attempt = worker[w].attempt
    BY <1>4, PutsChange DEF LoadsNoReceipt
  <2>2. Placed(w)'
    BY <2>1 DEF Placed, Request, Attempt
  <2>3. \A x \in Workers \ {w} : Placed(x)'
    BY <2>1 DEF StoreInv, Placed, Request, Attempt, Restorable, Stays, store
  <2>4. \A q \in wire' : q.kind = "receipt" => Restorable(q.backup)'
    BY <2>1 DEF StoreInv, Request, Restorable, store
  <2>5. ReceiptsAreRestorable'
    BY <2>1 DEF StoreInv, ReceiptsAreRestorable, Restorable, store
  <2>6. QED
    BY <2>2, <2>3, <2>4, <2>5 DEF StoreInv
<1>5. ASSUME NEW w \in Workers, PutReturns(w) PROVE StoreInv'
  <2> DEFINE next == NextPut[worker[w].pc]
  <2>1. /\ UNCHANGED store /\ Stays(w) /\ worker'[w].pc = next
        /\ wire' = IF next = "confirming" THEN wire ELSE wire \cup {Request(w, next)}
        /\ worker'[w].run = worker[w].run /\ worker'[w].attempt = worker[w].attempt
        /\ worker[w].pc \in {"artifact", "manifest", "receipt"}
        /\ Request(w, worker[w].pc) \notin wire
    BY <1>5, PutsChange DEF PutReturns, NextPut, Answered
  <2>2. /\ worker[w].pc = "artifact" => next = "manifest" /\ Attempt(w) \in artifacts
        /\ worker[w].pc = "manifest" => next = "receipt" /\ Restorable(Attempt(w))
        /\ worker[w].pc = "receipt" => next = "confirming"
    BY <2>1 DEF StoreInv, Placed, NextPut, Restorable
  <2>3. Placed(w)'
    BY <2>1, <2>2 DEF Placed, Request, Attempt, Restorable, store
  <2>4. \A x \in Workers \ {w} : Placed(x)'
    BY <2>1 DEF StoreInv, Placed, Request, Attempt, Restorable, Stays, store
  <2>5. \A q \in wire' : q.kind = "receipt" => Restorable(q.backup)'
    BY <2>1, <2>2 DEF StoreInv, Request, Restorable, store
  <2>6. ReceiptsAreRestorable'
    BY <2>1 DEF StoreInv, ReceiptsAreRestorable, Restorable, store
  <2>7. QED
    BY <2>3, <2>4, <2>5, <2>6 DEF StoreInv
<1>6. ASSUME NEW q \in wire, Lands(q) PROVE StoreInv'
  <2>1. /\ worker' = worker /\ wire' = wire \ {q}
        /\ artifacts \subseteq artifacts' /\ manifests \subseteq manifests'
        /\ q.kind = "artifact" => q.backup \in artifacts'
        /\ q.kind = "manifest" => q.backup \in manifests'
    BY <1>6 DEF Lands
  <2>2. \A b : Restorable(b) => Restorable(b)'
    BY <2>1 DEF Restorable
  <2>3. \A w \in Workers : Placed(w)'
    BY <2>1, <2>2 DEF StoreInv, Placed, Request, Attempt, Restorable
  <2>4. \A o \in Occurrences : receipts'[o] = receipts[o] \/ Restorable(receipts'[o])
    BY <1>6 DEF Lands, ReceiptAfter, StoreInv, TypeOK
  <2>5. ReceiptsAreRestorable'
    BY <2>2, <2>4 DEF StoreInv, ReceiptsAreRestorable
  <2>6. QED
    BY <2>1, <2>2, <2>3, <2>5 DEF StoreInv
<1>7. ASSUME NEW q \in wire, Lost(q) PROVE StoreInv'
  <2>1. /\ worker' = worker /\ wire' = wire \ {q} /\ UNCHANGED store
        /\ \A w \in Workers : worker[w].pc = q.kind => Request(w, worker[w].pc) # q
    BY <1>7 DEF Lost
  <2>2. \A w \in Workers : Request(w, worker[w].pc).kind = worker[w].pc
    BY DEF Request
  <2>3. \A w \in Workers : Placed(w)'
    BY <2>1, <2>2 DEF StoreInv, Placed, Request, Attempt, Restorable, store
  <2>4. ReceiptsAreRestorable'
    BY <2>1 DEF StoreInv, ReceiptsAreRestorable, Restorable, store
  <2>5. QED
    BY <2>1, <2>3, <2>4 DEF StoreInv, Restorable, store
<1>8. QED
  BY <1>2, <1>3, <1>4, <1>5, <1>6, <1>7 DEF Next, Proceeds

\* A receipt is only ever published for a backup that is complete in the
\* store, even if it arrives there long after its sender lost the lease.
THEOREM ReceiptsComplete == Spec => []ReceiptsAreRestorable
<1>1. Init => StoreInv
  BY DEF Init, StoreInv, Placed, ReceiptsAreRestorable, Idle
<1>2. StoreInv => ReceiptsAreRestorable
  BY DEF StoreInv
<1>3. QED
  BY <1>1, <1>2, TypeCorrect, StoreInductive, PTL DEF Spec

----------------------------------------------------------------------------
\* What an attempt verified, and what the catalogue names, is the receipt of
\* its occurrence.
CatalogInv ==
    /\ \A w \in Workers : worker[w].pc = "verified" =>
          worker[w].evidence = receipts[worker[w].run] /\ worker[w].evidence \in Backups
    /\ CatalogMatchesReceipt

LEMMA NoReceiptIsNoBackup == NoReceipt \notin Backups
BY DEF NoReceipt, Backups

\* The first receipt of an occurrence stays.
LEMMA ReceiptsLast ==
    ASSUME TypeOK, [Next]_vars, NEW o \in Occurrences, receipts[o] # NoReceipt
    PROVE  receipts'[o] = receipts[o]
<1>1. ASSUME NEW q \in wire, Lands(q) PROVE receipts'[o] = receipts[o]
  BY <1>1 DEF Lands, ReceiptAfter, TypeOK
<1>2. ASSUME NEW w \in Workers, Claim(w) \/ Heartbeat(w) \/ Proceeds(w) \/ Errs(w) \/ Crash(w)
      PROVE  receipts' = receipts
  BY <1>2 DEF Claim, Heartbeat, Proceeds, LosesLease, LoadsNoReceipt, LoadsReceipt, PutReturns,
              Complete, CompleteIsStale, Fails, Errs, Crash, store
<1>3. ASSUME Tick \/ (\E q \in wire : Lost(q)) \/ UNCHANGED vars PROVE receipts' = receipts
  BY <1>3 DEF Tick, Lost, vars, store
<1>4. QED
  BY <1>1, <1>2, <1>3 DEF Next

\* Only a completion touches the catalogue or makes a run succeed.
LEMMA OnlyCompletionAdopts ==
    ASSUME TypeOK, [Next]_vars, \A w \in Workers : ~Complete(w)
    PROVE  /\ catalog' = catalog
           /\ \A o \in Occurrences : run'[o].status = "succeeded" => run[o].status = "succeeded"
<1>1. catalog' = catalog
  <2>1. ASSUME NEW w \in Workers, Claim(w) \/ Heartbeat(w) \/ Proceeds(w) \/ Errs(w) \/ Crash(w)
        PROVE  catalog' = catalog
    BY <2>1 DEF Claim, Heartbeat, Proceeds, LosesLease, LoadsNoReceipt, LoadsReceipt,
                      PutReturns, CompleteIsStale, Fails, Errs, Crash
  <2>2. ASSUME Tick \/ (\E q \in wire : Lands(q) \/ Lost(q)) \/ UNCHANGED vars
        PROVE  catalog' = catalog
    BY <2>2 DEF Tick, Lands, Lost, vars
  <2>3. QED
    BY <2>1, <2>2 DEF Next
<1>2. ASSUME NEW o \in Occurrences, Begins(o)
      PROVE  \A p \in Occurrences : run'[p].status = "succeeded" => run[p].status = "succeeded"
  BY <1>2, OtherRows
<1>3. ASSUME NEW w \in Workers, Renews(w)
      PROVE  \A p \in Occurrences : run'[p].status = "succeeded" => run[p].status = "succeeded"
  BY <1>3, WorkerFacts DEF Renews, Renewed, TypeOK
<1>4. ASSUME NEW w \in Workers, Fails(w)
      PROVE  \A p \in Occurrences : run'[p].status = "succeeded" => run[p].status = "succeeded"
  <2>1. worker[w].run \in Occurrences
    BY <1>4, WorkerFacts DEF Fails, Idle
  <2>2. QED
    BY <1>4, <2>1 DEF Fails, FailedRun, TypeOK
<1>5. ASSUME \A w \in Workers : ~Fails(w)
      PROVE  (\E o \in Occurrences : Begins(o)) \/ (\E w \in Workers : Renews(w)) \/ run' = run
  <2>1. ASSUME NEW w \in Workers, Claim(w) PROVE \E o \in Occurrences : Begins(o)
    BY <2>1 DEF Claim, Begins
  <2>2. ASSUME NEW w \in Workers,
               Heartbeat(w) \/ LoadsNoReceipt(w) \/ LoadsReceipt(w) \/ PutReturns(w)
        PROVE  Renews(w)
    BY <2>2 DEF Heartbeat, LoadsNoReceipt, LoadsReceipt, PutReturns, NextPut, Renews, Idle
  <2>3. ASSUME NEW w \in Workers, LosesLease(w) \/ CompleteIsStale(w) \/ Errs(w) \/ Crash(w)
        PROVE  run' = run
    BY <2>3 DEF LosesLease, CompleteIsStale, Errs, Crash
  <2>4. ASSUME Tick \/ (\E q \in wire : Lands(q) \/ Lost(q)) \/ UNCHANGED vars PROVE run' = run
    BY <2>4 DEF Tick, Lands, Lost, vars
  <2>5. QED
    BY <1>5, <2>1, <2>2, <2>3, <2>4 DEF Next, Proceeds
<1>6. QED
  BY <1>1, <1>2, <1>3, <1>4, <1>5

LEMMA CatalogInductive == TypeOK /\ CatalogInv /\ [Next]_vars => CatalogInv'
<1> SUFFICES ASSUME TypeOK, CatalogInv, [Next]_vars PROVE CatalogInv'
  OBVIOUS
<1>1. \A o \in Occurrences : receipts[o] \in Backups => receipts'[o] = receipts[o]
  BY ReceiptsLast, NoReceiptIsNoBackup
<1>2. \A c \in catalog : c.run \in Occurrences /\ c.backup \in Backups /\ c.backup = receipts'[c.run]
  BY <1>1 DEF CatalogInv, CatalogMatchesReceipt, TypeOK
<1>3. \A x \in Workers : worker[x].pc = "verified" =>
         /\ worker[x].run \in Occurrences
         /\ worker[x].evidence = receipts'[worker[x].run] /\ worker[x].evidence \in Backups
  BY <1>1, WorkerFacts DEF CatalogInv, Idle
<1>4. \A o \in Occurrences : run[o].status = "succeeded" => [run |-> o, backup |-> receipts'[o]] \in catalog
  <2>1. ASSUME NEW o \in Occurrences, run[o].status = "succeeded"
        PROVE  [run |-> o, backup |-> receipts'[o]] \in catalog
    <3>1. [run |-> o, backup |-> receipts[o]] \in catalog
      BY <2>1 DEF CatalogInv, CatalogMatchesReceipt
    <3>2. receipts[o] \in Backups
      BY <3>1 DEF TypeOK
    <3>3. QED
      BY <1>1, <3>1, <3>2
  <2>2. QED
    BY <2>1
<1>5. ASSUME catalog' = catalog,
             \A o \in Occurrences : run'[o].status = "succeeded" => run[o].status = "succeeded",
             \A x \in Workers : worker'[x].pc = "verified" =>
                worker'[x].evidence = receipts'[worker'[x].run] /\ worker'[x].evidence \in Backups
      PROVE  CatalogInv'
  BY <1>2, <1>4, <1>5 DEF CatalogInv, CatalogMatchesReceipt
<1>6. ASSUME \A w \in Workers : ~Complete(w)
      PROVE  /\ catalog' = catalog
             /\ \A o \in Occurrences : run'[o].status = "succeeded" => run[o].status = "succeeded"
  BY <1>6, OnlyCompletionAdopts
<1>7. ASSUME NEW w \in Workers, Complete(w) PROVE CatalogInv'
  <2>0. worker[w].pc = "verified" /\ receipts' = receipts
    BY <1>7 DEF Complete, store
  <2>1. Stays(w) /\ worker'[w].pc = "idle" /\ worker[w] # Idle
    <3>1. worker[w] # Idle
      BY <2>0 DEF Idle
    <3>2. QED
      BY <1>7, <3>1, WorkersChange
  <2>2. /\ worker[w].run \in Occurrences
        /\ worker[w].evidence = receipts[worker[w].run] /\ worker[w].evidence \in Backups
    BY <2>0, <2>1, WorkerFacts DEF CatalogInv
  <2>3. catalog' = catalog \cup {[run |-> worker[w].run, backup |-> receipts'[worker[w].run]]}
    BY <1>7, <2>0, <2>2 DEF Complete, Entry
  <2>4. \A o \in Occurrences : run'[o].status = "succeeded" =>
           run[o].status = "succeeded" \/ o = worker[w].run
    BY <1>7, <2>2 DEF Complete, TypeOK
  <2>5. CatalogMatchesReceipt'
    BY <1>2, <1>4, <2>3, <2>4 DEF CatalogMatchesReceipt
  <2>6. QED
    BY <1>3, <2>1, <2>5 DEF CatalogInv, Stays
<1>8. ASSUME NEW w \in Workers, LoadsReceipt(w) PROVE CatalogInv'
  <2>0. Stays(w) /\ worker[w] # Idle /\ worker'[w].pc = "verified"
    <3>1. worker[w] # Idle
      BY <1>8 DEF LoadsReceipt, Idle
    <3>2. QED
      BY <1>8, <3>1, WorkersChange
  <2>1. ASSUME NEW x \in Workers, Complete(x) PROVE FALSE
    <3>1. worker'[x].pc = "idle" /\ worker[x].pc = "verified"
      BY <2>1, WorkersChange DEF Complete
    <3>2. QED
      BY <2>0, <3>1 DEF Stays
  <2>2. /\ worker'[w].run = worker[w].run /\ worker'[w].evidence = receipts'[worker[w].run]
        /\ worker'[w].evidence \in Backups
    BY <1>8, <2>0, WorkerFacts, NoReceiptIsNoBackup DEF LoadsReceipt, TypeOK, store
  <2>3. QED
    BY <1>3, <1>5, <1>6, <2>0, <2>1, <2>2 DEF Stays
<1>9. ASSUME NEW w \in Workers, LoadsNoReceipt(w) \/ PutReturns(w), \A x \in Workers : ~Complete(x)
      PROVE  CatalogInv'
  <2>1. Stays(w) /\ worker'[w].pc # "verified"
    BY <1>9, PutsChange DEF NextPut, PutReturns
  <2>2. QED
    BY <1>3, <1>5, <1>6, <1>9, <2>1 DEF Stays
<1>10. ASSUME NEW w \in Workers, \A x \in Workers : ~Complete(x),
              \/ Claim(w) \/ LosesLease(w) \/ Errs(w) \/ Fails(w) \/ Crash(w) \/ CompleteIsStale(w)
       PROVE  CatalogInv'
  <2>1. Stays(w) /\ worker'[w].pc # "verified"
    BY <1>10, WorkersChange
  <2>2. QED
    BY <1>3, <1>5, <1>6, <1>10, <2>1 DEF Stays
<1>11. ASSUME \A x \in Workers : ~Complete(x),
              \/ Tick \/ (\E q \in wire : Lands(q) \/ Lost(q)) \/ UNCHANGED vars
              \/ \E w \in Workers : Heartbeat(w)
       PROVE  CatalogInv'
  <2>1. worker' = worker
    BY <1>11 DEF Tick, Lands, Lost, vars, Heartbeat
  <2>2. QED
    BY <1>3, <1>5, <1>6, <1>11, <2>1
<1>12. QED
  BY <1>7, <1>8, <1>9, <1>10, <1>11 DEF Next, Proceeds

\* However many attempts crossed each other, the database and the store name
\* the same backup for an occurrence.
THEOREM CatalogAgrees == Spec => []CatalogMatchesReceipt
<1>1. Init => CatalogInv
  BY DEF Init, CatalogInv, CatalogMatchesReceipt, Idle, NoRun
<1>2. CatalogInv => CatalogMatchesReceipt
  BY DEF CatalogInv
<1>3. QED
  BY <1>1, <1>2, TypeCorrect, CatalogInductive, PTL DEF Spec

----------------------------------------------------------------------------
\* No attempt is newer than the row it was claimed with.
AttemptsKnown ==
    \A w \in Workers : worker[w] # Idle => worker[w].attempt <= run[worker[w].run].attempts

LEMMA AttemptsInductive == TypeOK /\ AttemptsKnown /\ [Next]_vars => AttemptsKnown'
<1> SUFFICES ASSUME TypeOK, AttemptsKnown, [Next]_vars PROVE AttemptsKnown'
  OBVIOUS
<1>1. \A o \in Occurrences : /\ run[o].attempts \in Nat /\ run'[o].attempts \in Nat
                             /\ run[o].attempts <= run'[o].attempts
  <2>0. \A o \in Occurrences : run[o].attempts \in Nat
    BY DEF TypeOK
  <2>1. ASSUME NEW o \in Occurrences, Begins(o)
        PROVE  \A p \in Occurrences : run'[p].attempts \in {run[p].attempts, run[p].attempts + 1}
    BY <2>1, OtherRows
  <2>2. ASSUME NEW w \in Workers, Renews(w) \/ Ends(w)
        PROVE  \A p \in Occurrences : run'[p].attempts = run[p].attempts
    BY <2>2, WorkerFacts DEF Renews, Renewed, Ends, TypeOK
  <2>3. QED
    BY <2>0, <2>1, <2>2, RowsChange
<1>2. ASSUME \A x \in Workers : worker'[x] = Idle \/ (worker[x] # Idle
                /\ worker'[x].run = worker[x].run /\ worker'[x].attempt = worker[x].attempt)
      PROVE  AttemptsKnown'
  BY <1>1, <1>2, WorkerFacts DEF AttemptsKnown
<1>3. \A x \in Workers : worker'[x] = worker[x] => worker'[x] = Idle \/ (worker[x] # Idle
         /\ worker'[x].run = worker[x].run /\ worker'[x].attempt = worker[x].attempt)
  OBVIOUS
<1>4. ASSUME NEW w \in Workers, Claim(w) PROVE AttemptsKnown'
  <2>1. PICK o \in Occurrences :
           /\ Begins(o)
           /\ worker' = [worker EXCEPT ![w] =
                 [pc |-> "loading", run |-> o, attempt |-> WithCurrentOccurrence[o].attempts + 1]]
    BY <1>4 DEF Claim, Begins
  <2>2. WithCurrentOccurrence[o].attempts = run[o].attempts
    BY DEF WithCurrentOccurrence, TypeOK
  <2>3. run'[o].attempts = run[o].attempts + 1
    BY <2>1, OtherRows
  <2>4. QED
    BY <1>1, <2>1, <2>2, <2>3, WorkerFacts DEF AttemptsKnown, TypeOK
<1>5. ASSUME NEW w \in Workers, LosesLease(w) \/ Errs(w) \/ CompleteIsStale(w) PROVE AttemptsKnown'
  <2>1. worker[w] # Idle
    BY <1>5 DEF LosesLease, Errs, CompleteIsStale, Idle
  <2>2. worker' = Goes(w, "failing") \/ worker' = [worker EXCEPT ![w] = Idle]
    BY <1>5 DEF LosesLease, Errs, CompleteIsStale
  <2>3. /\ Goes(w, "failing")[w].run = worker[w].run
        /\ Goes(w, "failing")[w].attempt = worker[w].attempt
    BY <2>1 DEF Goes, TypeOK
  <2>4. \A x \in Workers \ {w} : worker'[x] = worker[x]
    BY <2>2 DEF Goes, TypeOK
  <2>5. worker'[w] = Idle \/ (worker'[w].run = worker[w].run /\ worker'[w].attempt = worker[w].attempt)
    BY <2>2, <2>3 DEF TypeOK
  <2>6. QED
    BY <1>2, <1>3, <2>1, <2>4, <2>5
<1>6. ASSUME NEW w \in Workers, LoadsNoReceipt(w) \/ PutReturns(w) PROVE AttemptsKnown'
  BY <1>2, <1>3, <1>6, PutsChange DEF Stays
<1>7. ASSUME NEW w \in Workers, LoadsReceipt(w) PROVE AttemptsKnown'
  BY <1>2, <1>3, <1>7 DEF LoadsReceipt, Idle, TypeOK
<1>8. ASSUME NEW w \in Workers, Complete(w) \/ Fails(w) \/ Crash(w) PROVE AttemptsKnown'
  BY <1>2, <1>3, <1>8 DEF Complete, Fails, Crash, TypeOK
<1>9. ASSUME \/ Tick \/ (\E q \in wire : Lands(q) \/ Lost(q)) \/ UNCHANGED vars
             \/ \E w \in Workers : Heartbeat(w)
      PROVE  AttemptsKnown'
  <2>1. worker' = worker
    BY <1>9 DEF Tick, Lands, Lost, vars, Heartbeat
  <2>2. QED
    BY <1>2, <1>3, <2>1
<1>10. QED
  BY <1>4, <1>5, <1>6, <1>7, <1>8, <1>9 DEF Next, Proceeds

\* An attempt that was overtaken writes nothing: a job run changes its
\* outcome by the hand of its latest attempt only.
THEOREM LatestAttemptEnds == Spec => OnlyLatestAttemptEnds
<1>1. Init => AttemptsKnown
  BY DEF Init, AttemptsKnown
<1>2. ASSUME TypeOK, AttemptsKnown, [Next]_vars, NEW w \in Workers, NEW x \in Workers,
             worker[w] # Idle, worker'[w] = Idle, run'[worker[w].run] # run[worker[w].run],
             worker[x] # Idle, worker[x].run = worker[w].run
      PROVE  worker[x].attempt <= worker[w].attempt
  <2>1. Current(w)
    <3>1. ASSUME NEW v \in Workers, Claim(v) PROVE FALSE
      BY <1>2, <3>1 DEF Claim, Idle, TypeOK
    <3>2. ASSUME NEW v \in Workers, Complete(v) \/ Fails(v) PROVE v = w
      BY <1>2, <3>2, WorkersChange DEF Stays
    <3>3. ASSUME NEW v \in Workers, LoadsNoReceipt(v) \/ LoadsReceipt(v) \/ PutReturns(v) PROVE FALSE
      <4>1. CASE LoadsReceipt(v)
        BY <1>2, <4>1, WorkersChange DEF Stays, Idle
      <4>2. CASE LoadsNoReceipt(v)
        BY <1>2, <4>2, PutsChange DEF Stays, Idle
      <4>3. CASE PutReturns(v)
        <5>1. NextPut[worker[v].pc] # "idle"
          BY <4>3 DEF PutReturns, NextPut
        <5>2. QED
          BY <1>2, <4>3, <5>1, PutsChange DEF Stays, Idle
      <4>4. QED
        BY <3>3, <4>1, <4>2, <4>3
    <3>4. ASSUME NEW v \in Workers,
                 Heartbeat(v) \/ LosesLease(v) \/ CompleteIsStale(v) \/ Errs(v) \/ Crash(v)
          PROVE  FALSE
      BY <1>2, <3>4 DEF Heartbeat, LosesLease, CompleteIsStale, Errs, Crash
    <3>5. ASSUME Tick \/ (\E q \in wire : Lands(q) \/ Lost(q)) \/ UNCHANGED vars PROVE FALSE
      BY <1>2, <3>5 DEF Tick, Lands, Lost, vars
    <3>6. Complete(w) \/ Fails(w)
      BY <1>2, <3>1, <3>2, <3>3, <3>4, <3>5 DEF Next, Proceeds
    <3>7. QED
      BY <1>2, <3>6 DEF Complete, Fails, FailedRun
  <2>2. worker[x].attempt <= run[worker[x].run].attempts
    BY <1>2 DEF AttemptsKnown
  <2>3. QED
    BY <1>2, <2>1, <2>2 DEF Current
<1>3. TypeOK /\ AttemptsKnown /\ [Next]_vars =>
         [\A w, x \in Workers :
             /\ worker[w] # Idle /\ worker'[w] = Idle
             /\ run'[worker[w].run] # run[worker[w].run]
             /\ worker[x] # Idle /\ worker[x].run = worker[w].run
             => worker[x].attempt <= worker[w].attempt]_vars
  BY <1>2
<1>4. QED
  BY <1>1, <1>3, TypeCorrect, AttemptsInductive, PTL DEF Spec, OnlyLatestAttemptEnds

----------------------------------------------------------------------------
\* A run that succeeded is never begun, renewed or ended again.
LEMMA SuccessLasts ==
    ASSUME TypeOK, [Next]_vars, NEW o \in Occurrences, run[o].status = "succeeded"
    PROVE  run'[o].status = "succeeded"
<1>1. ASSUME NEW p \in Occurrences, Begins(p) PROVE run'[o] = run[o]
  <2>1. /\ WithCurrentOccurrence \in [Occurrences -> RunType]
        /\ WithCurrentOccurrence[o] = run[o]
    <3>1. (now \div Interval) * Interval \in Nat
      BY OccurrenceNow DEF Occurrences
    <3>2. QED
      BY <3>1, OccurrenceNow DEF WithCurrentOccurrence, NoRun, TypeOK, RunType
  <2>2. p # o
    BY <1>1, <2>1 DEF Begins, Claimable
  <2>3. QED
    BY <1>1, <2>1, <2>2 DEF Begins
<1>2. ASSUME NEW w \in Workers, Renews(w) \/ Ends(w) PROVE run'[o] = run[o]
  <2>1. worker[w].run # o /\ worker[w].run \in Occurrences
    BY <1>2, WorkerFacts DEF Renews, Ends, Current, LiveLease
  <2>2. QED
    BY <1>2, <2>1 DEF Renews, Renewed, Ends, TypeOK
<1>3. QED
  BY <1>1, <1>2, RowsChange

\* Without a completion nothing is adopted and nothing adopted is lost.
LEMMA AdoptedStay ==
    ASSUME TypeOK, [Next]_vars, \A w \in Workers : ~Complete(w)
    PROVE  UNCHANGED <<BackedUp, catalog>>
BY OnlyCompletionAdopts, SuccessLasts DEF BackedUp

\* Only a request that lands changes the store.
LEMMA StoreSteps ==
    ASSUME [Next]_vars
    PROVE  (\E q \in wire : Lands(q)) \/ UNCHANGED store
<1>1. ASSUME NEW w \in Workers, Claim(w) \/ Heartbeat(w) \/ Proceeds(w) \/ Errs(w) \/ Crash(w)
      PROVE  UNCHANGED store
  BY <1>1 DEF Claim, Heartbeat, Proceeds, LosesLease, LoadsNoReceipt, LoadsReceipt, PutReturns,
              Complete, CompleteIsStale, Fails, Errs, Crash
<1>2. ASSUME Tick \/ (\E q \in wire : Lost(q)) \/ UNCHANGED vars PROVE UNCHANGED store
  BY <1>2 DEF Tick, Lost, vars
<1>3. QED
  BY <1>1, <1>2 DEF Next

\* A completion is the adoption of its occurrence.
LEMMA CompletionAdopts ==
    ASSUME TypeOK, CatalogInv, [Next]_vars, NEW w \in Workers, Complete(w)
    PROVE  \E o \in Occurrences : Vault!Adopt(o)
<1> DEFINE o == worker[w].run
<1>1. worker[w].pc = "verified" /\ worker[w] # Idle /\ Current(w) /\ UNCHANGED store
  BY DEF Complete, Idle
<1>2. o \in Occurrences /\ worker[w].evidence = receipts[o] /\ receipts[o] \in Backups
  BY <1>1, WorkerFacts DEF CatalogInv
<1>3. receipts[o] # NoReceipt /\ o \notin BackedUp
  BY <1>1, <1>2, NoReceiptIsNoBackup DEF BackedUp, Current, LiveLease
<1>4. catalog' = catalog \cup {[run |-> o, backup |-> receipts[o]]}
  BY <1>2 DEF Complete, Entry
<1>5. BackedUp' = BackedUp \cup {o}
  <2>1. run'[o].status = "succeeded" /\ \A p \in Occurrences \ {o} : run'[p] = run[p]
    BY <1>2 DEF Complete, TypeOK
  <2>2. QED
    BY <1>2, <2>1 DEF BackedUp
<1>6. Vault!Adopt(o)
  BY <1>1, <1>3, <1>4, <1>5 DEF Vault!Adopt, store
<1>7. QED
  BY <1>2, <1>6

\* A request that lands finishes a backup, publishes a receipt or shows nothing.
LEMMA LandingShows ==
    ASSUME TypeOK, StoreInv, NEW q \in wire, Lands(q), UNCHANGED <<BackedUp, catalog>>
    PROVE  Vault!Next \/ UNCHANGED Vault!vars
<1> DEFINE whole == artifacts \cap manifests
<1>1. q.kind \in {"artifact", "manifest", "receipt"} /\ q.backup \in Backups
  BY DEF TypeOK
<1>2. CASE q.kind \in {"artifact", "manifest"}
  <2>1. receipts' = receipts
    BY <1>2 DEF Lands
  <2>2. artifacts' \cap manifests' \in {whole, whole \cup {q.backup}}
    BY <1>2 DEF Lands
  <2>3. CASE artifacts' \cap manifests' = whole
    BY <2>1, <2>3 DEF Vault!vars
  <2>4. CASE artifacts' \cap manifests' = whole \cup {q.backup}
    BY <2>1, <2>4 DEF Vault!Finish, Vault!Next
  <2>5. QED
    BY <2>2, <2>3, <2>4
<1>3. CASE q.kind = "receipt"
  <2>1. /\ artifacts' = artifacts /\ manifests' = manifests
        /\ receipts' = ReceiptAfter(q.backup)
    BY <1>3 DEF Lands
  <2>2. q.backup \in whole
    BY <1>3 DEF StoreInv, Restorable
  <2>3. CASE receipts[q.backup.run] = NoReceipt
    <3>1. Vault!Publish(q.backup)
      BY <2>1, <2>2, <2>3 DEF ReceiptAfter, Vault!Publish
    <3>2. QED
      BY <2>2, <3>1 DEF Vault!Next
  <2>4. CASE receipts[q.backup.run] # NoReceipt
    BY <2>1, <2>4 DEF ReceiptAfter, Vault!vars
  <2>5. QED
    BY <2>3, <2>4
<1>4. QED
  BY <1>1, <1>2, <1>3

\* Database and store implement BackupVault: one receipt per occurrence, for a
\* complete backup and never replaced, and one entry per occurrence, of that
\* very backup, for good.
THEOREM BackupsAreKept == Spec => ImplementsBackupVault
<1>1. Init => Vault!Init
  <2> SUFFICES ASSUME Init PROVE Vault!Init
    OBVIOUS
  <2>1. BackedUp = {}
    BY DEF Init, BackedUp, NoRun
  <2>2. QED
    BY <2>1 DEF Init, Vault!Init
<1>2. TypeOK /\ StoreInv /\ CatalogInv /\ [Next]_vars => [Vault!Next]_(Vault!vars)
  <2> SUFFICES ASSUME TypeOK, StoreInv, CatalogInv, [Next]_vars
               PROVE  Vault!Next \/ UNCHANGED Vault!vars
    OBVIOUS
  <2>1. CASE \E w \in Workers : Complete(w)
    BY <2>1, CompletionAdopts DEF Vault!Next
  <2>2. CASE \A w \in Workers : ~Complete(w)
    <3>1. UNCHANGED <<BackedUp, catalog>>
      BY <2>2, AdoptedStay
    <3>2. ASSUME UNCHANGED store PROVE UNCHANGED Vault!vars
      BY <3>1, <3>2 DEF store, Vault!vars
    <3>3. QED
      BY <3>1, <3>2, StoreSteps, LandingShows
  <2>3. QED
    BY <2>1, <2>2
<1>3. Init => StoreInv /\ CatalogInv
  BY DEF Init, StoreInv, Placed, ReceiptsAreRestorable, Idle, CatalogInv, CatalogMatchesReceipt, NoRun
<1>4. QED
  BY <1>1, <1>2, <1>3, TypeCorrect, StoreInductive, CatalogInductive, PTL
     DEF Spec, ImplementsBackupVault, Vault!Spec
=============================================================================
