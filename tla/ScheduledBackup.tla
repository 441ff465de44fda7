-------------------------- MODULE ScheduledBackup --------------------------
(***************************************************************************)
(* Scheduled off-site backups: one job run per interval (occurrence), a    *)
(* lease with a heartbeat, and an object store in which the attempts of an *)
(* occurrence race for one immutable completion receipt.                   *)
(*                                                                         *)
(* Workers are server processes that share the database and the store.     *)
(* Each call of the store is guarded by renew() before and after; a put    *)
(* is a request on the wire that takes effect on its own, possibly after   *)
(* its sender gave up, crashed or lost the lease.  Every attempt has its   *)
(* own backup id and lease token: the attempt number stands for both, and  *)
(* for the row version, which only the holder's own renewals move besides. *)
(***************************************************************************)
EXTENDS Integers, FiniteSets

CONSTANTS
    Workers,   \* server processes with a backup job
    Interval,  \* INTERVALS[cadence], in ticks
    Lease,     \* LEASE_MS, in ticks
    Retry,     \* RETRY_MS, in ticks
    MaxTime,   \* bound: last tick
    MaxFaults  \* bound: crashes, refused calls and lost answers

ASSUME BackupAssumption ==
    /\ Interval \in Nat \ {0} /\ Lease \in Nat \ {0} /\ Retry \in Nat \ {0}
    /\ MaxTime \in Nat /\ MaxFaults \in Nat

VARIABLES
    now,       \* the clock
    run,       \* job_runs of the backup job, by occurrence
    worker,    \* where execute() stands in each process
    wire,      \* put requests the store has not handled yet
    artifacts, \* encrypted artifacts in the store
    manifests, \* manifests in the store
    receipts,  \* the completion receipt of each occurrence
    catalog,   \* backup_catalog
    faults     \* faults so far (bound)

store == <<artifacts, manifests, receipts>>
vars == <<now, run, worker, wire, store, catalog, faults>>

Times == 0..MaxTime
Occurrences == 0..(MaxTime \div Interval)
Backups == [run : Occurrences, attempt : Nat]
NoReceipt == [attempt |-> -1]
NoRun == [status |-> "none", attempts |-> 0, expires |-> 0, due |-> 0]
Idle == [pc |-> "idle"]

Init ==
    /\ now = 0
    /\ run = [o \in Occurrences |-> NoRun]
    /\ worker = [w \in Workers |-> Idle]
    /\ wire = {}
    /\ artifacts = {} /\ manifests = {}
    /\ receipts = [o \in Occurrences |-> NoReceipt]
    /\ catalog = {}
    /\ faults = 0

Tick ==
    /\ now < MaxTime
    /\ now' = now + 1
    /\ UNCHANGED <<run, worker, wire, store, catalog, faults>>

----------------------------------------------------------------------------
\* The attempt a worker carries out; its backup id.
Attempt(w) == [run |-> worker[w].run, attempt |-> worker[w].attempt]

LiveLease(o) == run[o].status = "leased" /\ run[o].expires > now

\* Mutant of Current: the lease token is not compared.
CurrentForAnyToken(w) == LiveLease(worker[w].run)

\* currentClaim: the row is leased, by this attempt, and not yet expired.
Current(w) == LiveLease(worker[w].run) /\ run[worker[w].run].attempts = worker[w].attempt

\* renewTransaction.
Renewed(w) == [run EXCEPT ![worker[w].run].expires = now + Lease]

Goes(w, pc) == [worker EXCEPT ![w].pc = pc]

\* The current occurrence gets its row at the first claim of its interval.
WithCurrentOccurrence ==
    LET o == now \div Interval
    IN IF run[o] = NoRun
       THEN [run EXCEPT ![o].status = "pending", ![o].due = o * Interval]
       ELSE run

\* Mutant of Claimable: an expired lease is not taken over.
ClaimableUnlessLeased(r) == r.status \in {"pending", "failed"} /\ r.due <= now

\* Due for a first or another attempt, or left behind with its lease.
Claimable(r) ==
    \/ r.status \in {"pending", "failed"} /\ r.due <= now
    \/ r.status = "leased" /\ r.expires <= now

\* Mutant of NothingRunning: only the current occurrence is looked at.
NothingRunningNow == ~LiveLease(now \div Interval)

\* 'already-running': one live lease at a time, over all occurrences.
NothingRunning == \A o \in Occurrences : ~LiveLease(o)

\* claimTransaction: the oldest row that is due or whose lease ran out.
Claim(w) ==
    /\ worker[w] = Idle
    /\ NothingRunning
    /\ LET rows == WithCurrentOccurrence
           due == {o \in Occurrences : Claimable(rows[o])}
       IN \E o \in due :
            /\ \A other \in due : o <= other
            /\ run' = [rows EXCEPT ![o].status = "leased", ![o].attempts = @ + 1,
                                   ![o].expires = now + Lease]
            /\ worker' = [worker EXCEPT ![w] =
                            [pc |-> "loading", run |-> o, attempt |-> rows[o].attempts + 1]]
    /\ UNCHANGED <<now, wire, store, catalog, faults>>

\* The interval timer renews the lease while a call is awaited.
Heartbeat(w) ==
    /\ worker[w].pc \notin {"idle", "failing"}
    /\ Current(w)
    /\ run' = Renewed(w)
    /\ UNCHANGED <<now, worker, wire, store, catalog, faults>>

----------------------------------------------------------------------------
Request(w, kind) == [kind |-> kind, backup |-> Attempt(w)]

\* The manifest and the artifact a receipt speaks of are in the store.
Restorable(b) == b \in artifacts /\ b \in manifests

\* renew() found another owner, or none: leave for the catch block.
LosesLease(w) ==
    /\ worker[w].pc \in {"loading", "artifact", "manifest", "receipt", "confirming"}
    /\ ~Current(w)
    /\ worker' = Goes(w, "failing")
    /\ UNCHANGED <<now, run, wire, store, catalog, faults>>

\* loadOccurrenceReceipt finds nothing: the attempt makes its own backup.
LoadsNoReceipt(w) ==
    /\ worker[w].pc = "loading"
    /\ receipts[worker[w].run] = NoReceipt
    /\ Current(w)
    /\ run' = Renewed(w)
    /\ worker' = Goes(w, "artifact")
    /\ wire' = wire \cup {Request(w, "artifact")}
    /\ UNCHANGED <<now, store, catalog, faults>>

\* loadOccurrenceReceipt verifies the receipt of this or an earlier attempt.
\* That a receipt is there after a put, and complete, is ReceiptsAreRestorable
\* and ifAbsent; invalid() is left to damage of the store and to new keys.
LoadsReceipt(w) ==
    /\ worker[w].pc \in {"loading", "confirming"}
    /\ LET b == receipts[worker[w].run]
       IN /\ b # NoReceipt
          /\ Restorable(b)
          /\ worker' = [worker EXCEPT ![w] =
                          [pc |-> "verified", run |-> @.run, attempt |-> @.attempt,
                           evidence |-> b]]
    /\ Current(w)
    /\ run' = Renewed(w)
    /\ UNCHANGED <<now, wire, store, catalog, faults>>

\* What follows the answer to each put.
NextPut == [artifact |-> "manifest", manifest |-> "receipt", receipt |-> "confirming"]

\* Mutant of Answered: the answer is not awaited.
AnsweredAtOnce(w) == TRUE

\* The store has handled the worker's request.
Answered(w) == Request(w, worker[w].pc) \notin wire

\* A put was stored (or refused with 412 because the receipt exists).
PutReturns(w) ==
    /\ worker[w].pc \in DOMAIN NextPut
    /\ Answered(w)
    /\ Current(w)
    /\ run' = Renewed(w)
    /\ LET next == NextPut[worker[w].pc]
       IN /\ worker' = Goes(w, next)
          /\ wire' = IF next = "confirming" THEN wire ELSE wire \cup {Request(w, next)}
    /\ UNCHANGED <<now, store, catalog, faults>>

\* Mutant of ReceiptAfter: the put overwrites.
ReceiptAfterAnyPut(b) == [receipts EXCEPT ![b.run] = b]

\* ifAbsent: the first receipt of an occurrence stays.
ReceiptAfter(b) == IF receipts[b.run] = NoReceipt THEN [receipts EXCEPT ![b.run] = b] ELSE receipts

\* The store handles a put, whatever has become of the sender.
Lands(q) ==
    /\ wire' = wire \ {q}
    /\ artifacts' = IF q.kind = "artifact" THEN artifacts \cup {q.backup} ELSE artifacts
    /\ manifests' = IF q.kind = "manifest" THEN manifests \cup {q.backup} ELSE manifests
    /\ receipts' = IF q.kind = "receipt" THEN ReceiptAfter(q.backup) ELSE receipts
    /\ UNCHANGED <<now, run, worker, catalog, faults>>

----------------------------------------------------------------------------
Entry(w) == [run |-> worker[w].run, backup |-> worker[w].evidence]

\* completeTransaction by the lease's owner: catalogue and job run together.
Complete(w) ==
    /\ worker[w].pc = "verified"
    /\ Current(w)
    /\ catalog' = catalog \cup {Entry(w)}
    /\ run' = [run EXCEPT ![worker[w].run].status = "succeeded", ![worker[w].run].expires = 0]
    /\ worker' = [worker EXCEPT ![w] = Idle]
    /\ UNCHANGED <<now, wire, store, faults>>

\* The run succeeded with the same receipt already ('replayed'), or the
\* lease is gone.
CompleteIsStale(w) ==
    /\ worker[w].pc = "verified"
    /\ ~Current(w)
    /\ worker' = IF run[worker[w].run].status = "succeeded" /\ Entry(w) \in catalog
                 THEN [worker EXCEPT ![w] = Idle]
                 ELSE Goes(w, "failing")
    /\ UNCHANGED <<now, run, wire, store, catalog, faults>>

\* Mutant of FailedRun: the retry is placed before the failure.
FailedRunInThePast(w) ==
    IF Current(w)
    THEN [run EXCEPT ![worker[w].run].status = "failed", ![worker[w].run].expires = 0,
                     ![worker[w].run].due = now - Retry]
    ELSE run

\* failTransaction; an expired owner cannot change the replacement attempt.
FailedRun(w) ==
    IF Current(w)
    THEN [run EXCEPT ![worker[w].run].status = "failed", ![worker[w].run].expires = 0,
                     ![worker[w].run].due = now + Retry]
    ELSE run

Fails(w) ==
    /\ worker[w].pc = "failing"
    /\ run' = FailedRun(w)
    /\ worker' = [worker EXCEPT ![w] = Idle]
    /\ UNCHANGED <<now, wire, store, catalog, faults>>

\* Faults leave time for another attempt within the bound.
Fault == faults < MaxFaults /\ now + Lease + Retry <= MaxTime /\ faults' = faults + 1

\* A call is refused, times out or its answer is lost; no space on the disk.
Errs(w) ==
    /\ Fault
    /\ worker[w].pc \notin {"idle", "failing"}
    /\ worker' = Goes(w, "failing")
    /\ UNCHANGED <<now, run, wire, store, catalog>>

\* The process ends; its last request may still be handled.
Crash(w) ==
    /\ Fault
    /\ worker[w] # Idle
    /\ worker' = [worker EXCEPT ![w] = Idle]
    /\ UNCHANGED <<now, run, wire, store, catalog>>

\* A request whose sender no longer waits for it gets lost.
Lost(q) ==
    /\ \A w \in Workers : worker[w].pc = q.kind => Request(w, q.kind) # q
    /\ wire' = wire \ {q}
    /\ UNCHANGED <<now, run, worker, store, catalog, faults>>

----------------------------------------------------------------------------
Proceeds(w) ==
    \/ LosesLease(w)
    \/ LoadsNoReceipt(w) \/ LoadsReceipt(w)
    \/ PutReturns(w)
    \/ Complete(w) \/ CompleteIsStale(w)
    \/ Fails(w)

Next ==
    \/ Tick
    \/ \E w \in Workers : Claim(w) \/ Heartbeat(w) \/ Proceeds(w) \/ Errs(w) \/ Crash(w)
    \/ \E q \in wire : Lands(q) \/ Lost(q)

Spec == Init /\ [][Next]_vars

\* The minute timer keeps trying to claim, a started attempt goes on, the
\* store handles what is sent to it, the clock advances.
FairSpec ==
    /\ Spec
    /\ WF_vars(Tick)
    /\ \A w \in Workers : WF_vars(Claim(w)) /\ WF_vars(Proceeds(w))
    /\ WF_vars(\E q \in wire : Lands(q))

----------------------------------------------------------------------------
\* Types of the rows, of the attempts and of the store.
TypeOK ==
    /\ now \in Times
    /\ run \in [Occurrences -> [status : {"none", "pending", "leased", "failed", "succeeded"},
                                attempts : Nat, expires : Nat, due : Nat]]
    /\ worker \in [Workers ->
          {Idle}
          \cup [pc : {"loading", "artifact", "manifest", "receipt", "confirming", "failing"},
                run : Occurrences, attempt : Nat]
          \cup [pc : {"verified", "failing"}, run : Occurrences, attempt : Nat,
                evidence : Backups]]
    /\ wire \in SUBSET [kind : {"artifact", "manifest", "receipt"}, backup : Backups]
    /\ artifacts \in SUBSET Backups /\ manifests \in SUBSET Backups
    /\ receipts \in [Occurrences -> Backups \cup {NoReceipt}]
    /\ catalog \in SUBSET [run : Occurrences, backup : Backups]
    /\ faults \in Nat

\* However many attempts crossed each other, the database and the store name
\* the same backup for an occurrence: the run that succeeded has exactly the
\* catalogue entry its immutable receipt speaks of.
CatalogMatchesReceipt ==
    /\ \A o \in Occurrences : run[o].status = "succeeded" =>
          [run |-> o, backup |-> receipts[o]] \in catalog
    /\ \A c \in catalog : c.backup = receipts[c.run]

\* A receipt is only ever published for a backup that is complete in the
\* store, even if it arrives there long after its sender lost the lease.
ReceiptsAreRestorable ==
    \A o \in Occurrences : receipts[o] # NoReceipt => Restorable(receipts[o])

\* At most one attempt at a time may touch the store, over all occurrences.
OneLiveLease ==
    \A o, p \in Occurrences : LiveLease(o) /\ LiveLease(p) => o = p

\* An attempt that was overtaken writes nothing: a job run changes its
\* outcome by the hand of its latest attempt only.
OnlyLatestAttemptEnds ==
    [][\A w, x \in Workers :
          /\ worker[w] # Idle /\ worker'[w] = Idle
          /\ run'[worker[w].run] # run[worker[w].run]
          /\ worker[x] # Idle /\ worker[x].run = worker[w].run
          => worker[x].attempt <= worker[w].attempt]_vars

\* Every occurrence that was started gets its verified backup in the end,
\* although attempts crash, lose their lease or never hear an answer.
OccurrencesAreBackedUp ==
    \A o \in Occurrences : run[o].status # "none" ~> run[o].status = "succeeded"

----------------------------------------------------------------------------
\* The occurrences whose run succeeded.
BackedUp == {o \in Occurrences : run[o].status = "succeeded"}

Vault == INSTANCE BackupVault WITH
    None <- NoReceipt, complete <- artifacts \cap manifests, receipt <- receipts,
    adopted <- BackedUp

\* Whatever leases, heartbeats, late puts and crashes do, database and store
\* implement BackupVault: one receipt per occurrence, for a complete backup and
\* never replaced, and one entry per occurrence, of that very backup, for good.
\* (scheduledBackupReceipt's ifAbsent, completeTransaction.)
ImplementsBackupVault == Vault!Spec
=============================================================================
