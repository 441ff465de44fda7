---------------------------- MODULE LeagueOutbox ----------------------------
(***************************************************************************)
(* The league outbox: rows of outbox_events that feature transactions      *)
(* write, and the publication service that claims a due row, hands it to   *)
(* the Socket.IO publisher and marks the row published or failed.          *)
(*                                                                         *)
(* A row's version is its fence.  Every status change is an UPDATE guarded *)
(* by the version the publisher holds and increments it, so a publisher    *)
(* that was interrupted and overtaken cannot write any more.               *)
(*                                                                         *)
(* Time is relative: wait[e] is how long until available_at_ms and age[e]  *)
(* how long since updated_at_ms, both saturating where the code's          *)
(* comparisons stop telling values apart.                                  *)
(***************************************************************************)
EXTENDS Integers, FiniteSets

CONSTANTS
    Events,            \* identities of outbox rows
    Publishers,        \* processes that run the publication service
    RetryDelay,        \* DEFAULT_RETRY_DELAY_MS, in ticks
    StaleAfter,        \* nowMs - staleBeforeMs of a recovery call, in ticks
    BatchSize,         \* rows listed per publishDue
    MaxAttempts,       \* bound: claims per row
    MaxCrashes         \* bound: process crashes

ASSUME OutboxAssumption ==
    /\ IsFiniteSet(Publishers)
    /\ RetryDelay \in Nat \ {0}
    /\ StaleAfter \in Nat
    /\ BatchSize \in Nat \ {0}
    /\ MaxAttempts \in Nat \ {0}
    /\ MaxCrashes \in Nat

VARIABLES
    status,       \* outbox_events.status ("absent" until written)
    version,      \* outbox_events.version
    attempts,     \* outbox_events.attempt_count
    wait,         \* max(0, available_at_ms - now)
    age,          \* min(StaleAfter, now - updated_at_ms)
    batch,        \* candidates a running publishDue has not visited yet
    claim,        \* the row a publisher is working on, with its version
    publications, \* history: times publisher.publish resolved for the row
    crashes,      \* crashes so far (bound)
    recovered     \* history: rows that recoverInterrupted took from a claimant

row == <<status, version, attempts, wait, age>>
vars == <<status, version, attempts, wait, age, batch, claim, publications, crashes, recovered>>

Statuses == {"absent", "pending", "publishing", "published", "failed"}

\* A candidate is the row as listDue read it.
Candidates == [event : Events, version : Nat]

\* phase: waiting for publish(), publish() resolved, or an error was caught.
Claims == [event : Events, version : Nat, phase : {"publishing", "resolved", "error"}]

NoClaim == [phase |-> "none"]

Init ==
    /\ status = [e \in Events |-> "absent"]
    /\ version = [e \in Events |-> 0]
    /\ attempts = [e \in Events |-> 0]
    /\ wait = [e \in Events |-> 0]
    /\ age = [e \in Events |-> 0]
    /\ batch = [p \in Publishers |-> {}]
    /\ claim = [p \in Publishers |-> NoClaim]
    /\ publications = [e \in Events |-> 0]
    /\ crashes = 0
    /\ recovered = {}

----------------------------------------------------------------------------
\* A feature transaction inserts its event: pending, version 1, due at once.
Write(e) ==
    /\ status[e] = "absent"
    /\ status' = [status EXCEPT ![e] = "pending"]
    /\ version' = [version EXCEPT ![e] = 1]
    /\ age' = [age EXCEPT ![e] = 0]
    /\ UNCHANGED <<attempts, wait, batch, claim, publications, crashes, recovered>>

\* The clock moves on.
Tick ==
    /\ \E e \in Events : wait[e] > 0 \/ (status[e] # "absent" /\ age[e] < StaleAfter)
    /\ wait' = [e \in Events |-> IF wait[e] > 0 THEN wait[e] - 1 ELSE 0]
    /\ age' = [e \in Events |->
                 IF status[e] # "absent" /\ age[e] < StaleAfter THEN age[e] + 1 ELSE age[e]]
    /\ UNCHANGED <<status, version, attempts, batch, claim, publications, crashes, recovered>>

\* Mutant of Due: failed rows are not listed again.
DueOnlyPending(e) == status[e] = "pending" /\ wait[e] = 0

\* listDue's condition: not published, not in a publisher's hands, available.
Due(e) == status[e] \in {"pending", "failed"} /\ wait[e] = 0

Candidate(e) == [event |-> e, version |-> version[e]]

Idle(p) == batch[p] = {} /\ claim[p] = NoClaim

\* publishDue lists at most BatchSize due rows; a later cycle lists the rest.
PublishDue(p) ==
    /\ Idle(p)
    /\ \E listed \in SUBSET {e \in Events : Due(e)} :
          /\ listed # {}
          /\ \/ Cardinality(listed) = BatchSize
             \/ Cardinality(listed) < BatchSize /\ listed = {e \in Events : Due(e)}
          /\ batch' = [batch EXCEPT ![p] = {Candidate(e) : e \in listed}]
    /\ UNCHANGED <<row, claim, publications, crashes, recovered>>

\* Mutant of Claimable: the status is not looked at.
ClaimableInAnyStatus(e, expectedVersion) ==
    /\ status[e] # "absent"
    /\ wait[e] = 0
    /\ version[e] = expectedVersion

\* The claim transaction's guard: status, availability and version.
Claimable(e, expectedVersion) ==
    /\ status[e] \in {"pending", "failed"}
    /\ wait[e] = 0
    /\ version[e] = expectedVersion

\* Mutant of TakeClaim: attempt_count is only counted when the mark fails.
TakeClaimUncounted(p, e) ==
    /\ attempts[e] < MaxAttempts
    /\ status' = [status EXCEPT ![e] = "publishing"]
    /\ version' = [version EXCEPT ![e] = @ + 1]
    /\ age' = [age EXCEPT ![e] = 0]
    /\ claim' = [claim EXCEPT ![p] =
                   [event |-> e, version |-> version[e] + 1, phase |-> "publishing"]]
    /\ UNCHANGED <<attempts, wait>>

\* UPDATE ... SET status = 'publishing': one more attempt, one more version.
TakeClaim(p, e) ==
    /\ attempts[e] < MaxAttempts
    /\ status' = [status EXCEPT ![e] = "publishing"]
    /\ version' = [version EXCEPT ![e] = @ + 1]
    /\ attempts' = [attempts EXCEPT ![e] = @ + 1]
    /\ age' = [age EXCEPT ![e] = 0]
    /\ claim' = [claim EXCEPT ![p] =
                   [event |-> e, version |-> version[e] + 1, phase |-> "publishing"]]
    /\ UNCHANGED wait

\* publishCandidate for the next listed row: claim it, or pass over it
\* because it changed since it was listed.
ClaimCandidate(p) ==
    /\ claim[p] = NoClaim
    /\ \E c \in batch[p] :
          /\ batch' = [batch EXCEPT ![p] = @ \ {c}]
          /\ \/ Claimable(c.event, c.version) /\ TakeClaim(p, c.event)
             \/ ~Claimable(c.event, c.version) /\ UNCHANGED <<row, claim>>
    /\ UNCHANGED <<publications, crashes, recovered>>

\* publishExact: the operator's command claims one row of a known version.
PublishExact(p, e) ==
    /\ Idle(p)
    /\ Claimable(e, version[e])
    /\ TakeClaim(p, e)
    /\ UNCHANGED <<batch, publications, crashes, recovered>>

\* publisher.publish resolves: emitted, or no authorised audience was left.
PublishResolves(p) ==
    /\ claim[p].phase = "publishing"
    /\ publications' = [publications EXCEPT ![claim[p].event] = @ + 1]
    /\ claim' = [claim EXCEPT ![p].phase = "resolved"]
    /\ UNCHANGED <<row, batch, crashes, recovered>>

\* Audiences or payload are invalid, or publish rejects before it emits.
\* The last attempt the bound allows does not fail.
PublishRejects(p) ==
    /\ claim[p].phase = "publishing"
    /\ attempts[claim[p].event] < MaxAttempts
    /\ claim' = [claim EXCEPT ![p].phase = "error"]
    /\ UNCHANGED <<row, batch, publications, crashes, recovered>>

\* Mutant of HoldsRow: the marks look at the status and not at the version.
HoldsAnyVersion(p) == status[claim[p].event] = "publishing"

\* The publisher's version still fences the row it claimed.
HoldsRow(p) ==
    /\ status[claim[p].event] = "publishing"
    /\ version[claim[p].event] = claim[p].version

\* markPublished succeeds and publishDue goes on with its next candidate.
MarkPublished(p) ==
    /\ claim[p].phase = "resolved"
    /\ HoldsRow(p)
    /\ status' = [status EXCEPT ![claim[p].event] = "published"]
    /\ version' = [version EXCEPT ![claim[p].event] = @ + 1]
    /\ age' = [age EXCEPT ![claim[p].event] = 0]
    /\ claim' = [claim EXCEPT ![p] = NoClaim]
    /\ UNCHANGED <<attempts, wait, batch, publications, crashes, recovered>>

\* markPublished throws although publish resolved: the catch block follows.
MarkPublishedThrows(p) ==
    /\ claim[p].phase = "resolved"
    /\ attempts[claim[p].event] < MaxAttempts
    /\ claim' = [claim EXCEPT ![p].phase = "error"]
    /\ UNCHANGED <<row, batch, publications, crashes, recovered>>

\* Mutant of MarkFailed: the retry is placed before the failure.
MarkFailedInThePast(p) ==
    /\ claim[p].phase = "error"
    /\ HoldsRow(p)
    /\ status' = [status EXCEPT ![claim[p].event] = "failed"]
    /\ version' = [version EXCEPT ![claim[p].event] = @ + 1]
    /\ wait' = [wait EXCEPT ![claim[p].event] = 0 - RetryDelay]
    /\ age' = [age EXCEPT ![claim[p].event] = 0]
    /\ claim' = [claim EXCEPT ![p] = NoClaim]
    /\ UNCHANGED <<attempts, batch, publications, crashes, recovered>>

\* markFailed: the row becomes due again after the retry delay.
MarkFailed(p) ==
    /\ claim[p].phase = "error"
    /\ HoldsRow(p)
    /\ status' = [status EXCEPT ![claim[p].event] = "failed"]
    /\ version' = [version EXCEPT ![claim[p].event] = @ + 1]
    /\ wait' = [wait EXCEPT ![claim[p].event] = RetryDelay]
    /\ age' = [age EXCEPT ![claim[p].event] = 0]
    /\ claim' = [claim EXCEPT ![p] = NoClaim]
    /\ UNCHANGED <<attempts, batch, publications, crashes, recovered>>

\* Both marks are stale: the error leaves publishDue, whose remaining
\* candidates are dropped until the next cycle.
AbandonStaleClaim(p) ==
    /\ claim[p].phase \in {"resolved", "error"}
    /\ ~HoldsRow(p)
    /\ claim' = [claim EXCEPT ![p] = NoClaim]
    /\ batch' = [batch EXCEPT ![p] = {}]
    /\ UNCHANGED <<row, publications, crashes, recovered>>

\* The process dies, or the database refuses the last mark and the error
\* leaves publishDue: the row keeps whatever the last commit wrote.  Like
\* the other failures it spares the last attempt the bound allows.
Crash(p) ==
    /\ crashes < MaxCrashes
    /\ ~Idle(p)
    /\ claim[p] # NoClaim => attempts[claim[p].event] < MaxAttempts
    /\ crashes' = crashes + 1
    /\ claim' = [claim EXCEPT ![p] = NoClaim]
    /\ batch' = [batch EXCEPT ![p] = {}]
    /\ UNCHANGED <<row, publications, recovered>>

\* recoverInterrupted for one row whose claim is older than the cutoff.
RecoverInterrupted(e) ==
    /\ status[e] = "publishing"
    /\ age[e] >= StaleAfter
    /\ attempts[e] < MaxAttempts
    /\ status' = [status EXCEPT ![e] = "failed"]
    /\ version' = [version EXCEPT ![e] = @ + 1]
    /\ wait' = [wait EXCEPT ![e] = 0]
    /\ age' = [age EXCEPT ![e] = 0]
    /\ recovered' = recovered \cup {e}
    /\ UNCHANGED <<attempts, batch, claim, publications, crashes>>

Next ==
    \/ Tick
    \/ \E e \in Events : Write(e) \/ RecoverInterrupted(e)
    \/ \E p \in Publishers :
          \/ PublishDue(p)
          \/ ClaimCandidate(p)
          \/ \E e \in Events : PublishExact(p, e)
          \/ PublishResolves(p)
          \/ PublishRejects(p)
          \/ MarkPublished(p)
          \/ MarkPublishedThrows(p)
          \/ MarkFailed(p)
          \/ AbandonStaleClaim(p)
          \/ Crash(p)

Spec == Init /\ [][Next]_vars

\* The scheduler's interval keeps starting publishDue, a started cycle runs
\* on, publish() settles, and the clock advances.
FairSpec ==
    /\ Spec
    /\ WF_vars(Tick)
    /\ \A e \in Events : WF_vars(RecoverInterrupted(e))
    /\ \A p \in Publishers :
          /\ WF_vars(PublishDue(p))
          /\ WF_vars(ClaimCandidate(p))
          /\ WF_vars(PublishResolves(p) \/ PublishRejects(p))
          /\ WF_vars(MarkPublished(p) \/ MarkPublishedThrows(p))
          /\ WF_vars(MarkFailed(p))
          /\ WF_vars(AbandonStaleClaim(p))

----------------------------------------------------------------------------
\* Types of the columns and of the publishers' local state.
TypeOK ==
    /\ status \in [Events -> Statuses]
    /\ version \in [Events -> Nat]
    /\ attempts \in [Events -> Nat]
    /\ wait \in [Events -> Nat]
    /\ age \in [Events -> Nat]
    /\ batch \in [Publishers -> SUBSET Candidates]
    /\ claim \in [Publishers -> Claims \cup {NoClaim}]
    /\ publications \in [Events -> Nat]
    /\ crashes \in Nat
    /\ recovered \in SUBSET Events

\* A row marked published really went through publisher.publish.
PublishedWasPublished ==
    \A e \in Events : status[e] = "published" => publications[e] > 0

\* Every publication is accounted for by an attempt recorded beforehand: the
\* row can never have been emitted more often than attempt_count says.
PublicationsWithinAttempts ==
    \A e \in Events : publications[e] <= attempts[e]

\* The version fence: a publisher whose claim was recovered and taken over
\* never writes the row; whoever marks a row is its most recent claimant.
OnlyLatestClaimantWrites ==
    [][\A p \in Publishers :
          /\ claim[p] # NoClaim
          /\ claim'[p] = NoClaim
          /\ version'[claim[p].event] # version[claim[p].event]
          => \A q \in Publishers \ {p} :
                claim[q] # NoClaim /\ claim[q].event = claim[p].event
                   => claim[q].version < claim[p].version]_vars

\* A row is in the hands of at most one process, whatever the publishers
\* listed before: two work on it together only after recoverInterrupted gave
\* away a claim whose holder was slow and not dead.
ExclusiveUnlessRecovered ==
    \A p, q \in Publishers :
        /\ claim[p] # NoClaim
        /\ claim[q] # NoClaim
        /\ claim[p].event = claim[q].event
        /\ claim[p].event \notin recovered
        => p = q

\* A published row is final: no later claim, failure or recovery reopens it.
PublishedIsFinal ==
    [][\A e \in Events : status[e] = "published" =>
          /\ status'[e] = "published"
          /\ version'[e] = version[e]
          /\ attempts'[e] = attempts[e]]_vars

\* Every event written is published in the end, as long as publish rejects
\* only finitely often and interrupted claims, if any, are recovered.
EventuallyPublished ==
    \A e \in Events : status[e] = "pending" ~> status[e] = "published"

----------------------------------------------------------------------------
\* What a row's status says to whoever only wants the event delivered.
StageOf(e) ==
    CASE status[e] = "absent" -> "absent"
      [] status[e] \in {"pending", "publishing", "failed"} -> "waiting"
      [] status[e] = "published" -> "delivered"

Delivery == INSTANCE AtLeastOnceDelivery WITH
    Messages <- Events, stage <- [e \in Events |-> StageOf(e)],
    tries <- attempts, copies <- publications

\* The outbox implements delivery at least once: each claim is a try, each
\* call of publish that resolved a copy, a row is marked published only with a
\* copy out, and no row is given up or settled twice.
ImplementsDelivery == Delivery!Spec
=============================================================================
