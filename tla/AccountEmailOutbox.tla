------------------------- MODULE AccountEmailOutbox -------------------------
(***************************************************************************)
(* The account e-mail outbox: rows that carry an action link of one        *)
(* account (verification, password reset, reactivation, set-up) or a       *)
(* security notification, the delivery job that claims a due row and hands *)
(* it to the e-mail provider, and the account services that replace or     *)
(* consume a link's token while the provider is being awaited.             *)
(*                                                                         *)
(* One server process runs the job.  Between two awaits its code is one    *)
(* step, so a claim, the checks of deliverClaimed and the call of the      *)
(* provider are one action, and so is whatever follows the provider's      *)
(* answer.  Time is relative and saturates where comparisons stop telling  *)
(* values apart: wait until available_at_ms, age since updated_at_ms, life *)
(* until the token expires.                                                *)
(***************************************************************************)
EXTENDS Integers, FiniteSets

CONSTANTS
    Links,           \* identities of rows with an action link, one token each
    Notices,         \* identities of rows with a security notification
    NoMail,          \* the account has no active token
    MaximumAttempts, \* maximumAttempts
    RetryDelay,      \* RETRY_DELAYS_MS, in ticks; the same for every attempt
    Grace,           \* INTERRUPTED_CLAIM_GRACE_MS, in ticks
    TokenLife,       \* lifetime of a token, in ticks
    BatchLimit,      \* rows listed per cycle
    MaxDisruptions   \* bound: crashes, errors of the database, orderly restarts

Mails == Links \cup Notices

ASSUME EmailAssumption ==
    /\ Links \cap Notices = {}
    /\ NoMail \notin Mails
    /\ MaximumAttempts \in Nat \ {0}
    /\ RetryDelay \in Nat \ {0}
    /\ Grace \in Nat \ {0}
    /\ TokenLife \in Nat \ {0}
    /\ BatchLimit \in Nat \ {0}
    /\ MaxDisruptions \in Nat

VARIABLES
    status,   \* outbox_events.status ("absent" until inserted)
    version,  \* outbox_events.version
    attempts, \* outbox_events.attempt_count
    wait,     \* max(0, available_at_ms - now)
    age,      \* min(Grace, now - updated_at_ms)
    life,     \* max(0, expiresAtMs - now)
    active,   \* the mail whose token is the account's active token
    eligible, \* the account is in the state the link is for
    process,  \* "up", "closing" or "down"
    batch,    \* rows the running cycle has not visited yet
    claim,    \* the row whose delivery is being awaited
    sends,    \* history: calls of the provider per mail
    accepts,  \* history: mails the provider accepted
    faults,   \* faults so far (bound)
    restarts  \* orderly restarts so far (bound)

row == <<status, version, attempts, wait, age, life>>
account == <<active, eligible>>
history == <<sends, accepts>>
vars == <<row, account, process, batch, claim, history, faults, restarts>>

NoClaim == [mail |-> NoMail]
Settled == {"published", "discarded"}
Waiting == {"pending", "failed"}

Init ==
    /\ status = [m \in Mails |-> "absent"]
    /\ version = [m \in Mails |-> 0]
    /\ attempts = [m \in Mails |-> 0]
    /\ wait = [m \in Mails |-> 0]
    /\ age = [m \in Mails |-> 0]
    /\ life = [m \in Mails |-> 0]
    /\ active = NoMail
    /\ eligible = TRUE
    /\ process = "down"
    /\ batch = {}
    /\ claim = NoClaim
    /\ sends = [m \in Mails |-> 0]
    /\ accepts = [m \in Mails |-> 0]
    /\ faults = 0
    /\ restarts = 0

----------------------------------------------------------------------------
\* The clock moves on.
Tick ==
    /\ \E m \in Mails : status[m] # "absent" /\ (wait[m] > 0 \/ age[m] < Grace \/ life[m] > 0)
    /\ wait' = [m \in Mails |-> IF wait[m] > 0 THEN wait[m] - 1 ELSE 0]
    /\ age' = [m \in Mails |->
                 IF status[m] # "absent" /\ age[m] < Grace THEN age[m] + 1 ELSE age[m]]
    /\ life' = [m \in Mails |-> IF life[m] > 0 THEN life[m] - 1 ELSE 0]
    /\ UNCHANGED <<status, version, attempts, account, process, batch, claim, history,
                   faults, restarts>>

\* Mutant of DiscardedBy: a row whose delivery is being awaited is spared.
DiscardedByWaiting(m) == status[m] \in Waiting

\* discardByTokenId: every row of the token that is not settled.
DiscardedBy(m) == status[m] \in {"pending", "failed", "publishing"}

Discard(s, m) == [s EXCEPT ![m] = "discarded"]

\* A new link: the previous token is replaced and its mail discarded.
RequestLink(m) ==
    /\ process # "down"
    /\ eligible
    /\ status[m] = "absent"
    /\ LET replaced == active # NoMail /\ DiscardedBy(active)
       IN /\ status' = [(IF replaced THEN Discard(status, active) ELSE status)
                          EXCEPT ![m] = "pending"]
          /\ version' = [k \in Mails |-> CASE k = m -> 1
                                           [] k = active /\ replaced -> version[k] + 1
                                           [] OTHER -> version[k]]
          /\ age' = [k \in Mails |-> IF k = m \/ (k = active /\ replaced) THEN 0 ELSE age[k]]
    /\ life' = [life EXCEPT ![m] = TokenLife]
    /\ active' = m
    /\ UNCHANGED <<attempts, wait, eligible, process, batch, claim, history, faults, restarts>>

\* A security event of the account is announced to its owner.
Notify(m) ==
    /\ process # "down"
    /\ status[m] = "absent"
    /\ status' = [status EXCEPT ![m] = "pending"]
    /\ version' = [version EXCEPT ![m] = 1]
    /\ age' = [age EXCEPT ![m] = 0]
    /\ UNCHANGED <<attempts, wait, life, account, process, batch, claim, history, faults, restarts>>

\* The account's owner follows the link of a mail that was sent.  The token
\* is used up and its mail discarded; the account moves on, except after a
\* password reset.
ConsumeToken ==
    /\ process # "down"
    /\ active # NoMail
    /\ eligible
    /\ sends[active] > 0
    /\ life[active] > 0
    /\ IF DiscardedBy(active)
       THEN /\ status' = Discard(status, active)
            /\ version' = [version EXCEPT ![active] = @ + 1]
            /\ age' = [age EXCEPT ![active] = 0]
       ELSE UNCHANGED <<status, version, age>>
    /\ active' = NoMail
    /\ eligible' \in BOOLEAN
    /\ UNCHANGED <<attempts, wait, life, process, batch, claim, history, faults, restarts>>

\* Something else moves the account to another state, for example its
\* deactivation, without touching the outbox.
AccountMovesOn ==
    /\ process # "down"
    /\ eligible
    /\ eligible' = FALSE
    /\ UNCHANGED <<row, active, process, batch, claim, history, faults, restarts>>

----------------------------------------------------------------------------
\* The delivery job.

\* Rows left in "publishing" by an earlier process, not younger than Grace.
Interrupted(m) == status[m] = "publishing" /\ age[m] >= Grace

\* start: interrupted rows are recovered once, then cycles begin.
StartJob ==
    /\ process = "down"
    /\ process' = "up"
    /\ status' = [m \in Mails |-> IF Interrupted(m) THEN "failed" ELSE status[m]]
    /\ version' = [m \in Mails |-> IF Interrupted(m) THEN version[m] + 1 ELSE version[m]]
    /\ wait' = [m \in Mails |-> IF Interrupted(m) THEN 0 ELSE wait[m]]
    /\ age' = [m \in Mails |-> IF Interrupted(m) THEN 0 ELSE age[m]]
    /\ UNCHANGED <<attempts, life, account, batch, claim, history, faults, restarts>>

Idle == batch = {} /\ claim = NoClaim

\* Mutant of Due: rows of an earlier attempt are not listed.
DueOnlyPending(m) == status[m] = "pending" /\ wait[m] = 0

Due(m) == status[m] \in Waiting /\ wait[m] = 0

\* runCycle, deliverDue: list the rows that are due.
RunCycle ==
    /\ process = "up"
    /\ Idle
    /\ \E listed \in SUBSET {m \in Mails : Due(m)} :
          /\ listed # {}
          /\ \/ Cardinality(listed) = BatchLimit
             \/ Cardinality(listed) < BatchLimit /\ listed = {m \in Mails : Due(m)}
          /\ batch' = {[mail |-> m, version |-> version[m]] : m \in listed}
    /\ UNCHANGED <<row, account, process, claim, history, faults, restarts>>

\* claimForDelivery's conditions.
Claimable(c) ==
    /\ status[c.mail] \in Waiting
    /\ wait[c.mail] = 0
    /\ version[c.mail] = c.version

\* A row that changed since it was listed is passed over.
PassOver ==
    /\ claim = NoClaim
    /\ \E c \in batch : ~Claimable(c) /\ batch' = batch \ {c}
    /\ UNCHANGED <<row, account, process, claim, history, faults, restarts>>

\* Only a link expires and asks for an account state of its own.
Expired(m) == m \in Links /\ life[m] = 0

Deliverable(m) == m \in Links => ~Expired(m) /\ eligible

\* Claimed, found deliverable and handed to the provider.
ClaimAndSend ==
    /\ claim = NoClaim
    /\ \E c \in batch :
          /\ Claimable(c)
          /\ Deliverable(c.mail)
          /\ batch' = batch \ {c}
          /\ status' = [status EXCEPT ![c.mail] = "publishing"]
          /\ version' = [version EXCEPT ![c.mail] = @ + 1]
          /\ attempts' = [attempts EXCEPT ![c.mail] = @ + 1]
          /\ age' = [age EXCEPT ![c.mail] = 0]
          /\ claim' = [mail |-> c.mail, version |-> version[c.mail] + 1]
          /\ sends' = [sends EXCEPT ![c.mail] = @ + 1]
    /\ UNCHANGED <<wait, life, account, process, accepts, faults, restarts>>

\* Claimed and discarded: the token expired or the recipient is unavailable.
ClaimAndDiscard ==
    /\ claim = NoClaim
    /\ \E c \in batch :
          /\ Claimable(c)
          /\ ~Deliverable(c.mail)
          /\ batch' = batch \ {c}
          /\ status' = Discard(status, c.mail)
          /\ version' = [version EXCEPT ![c.mail] = @ + 2]
          /\ attempts' = [attempts EXCEPT ![c.mail] = @ + 1]
          /\ age' = [age EXCEPT ![c.mail] = 0]
    /\ UNCHANGED <<wait, life, account, process, claim, history, faults, restarts>>

\* The claimed row is still the one this cycle wrote.
HoldsRow ==
    /\ claim # NoClaim
    /\ status[claim.mail] = "publishing"
    /\ version[claim.mail] = claim.version

\* transition on the claimed row; the cycle goes on with its next row.
Marks(newStatus, delay) ==
    /\ status' = [status EXCEPT ![claim.mail] = newStatus]
    /\ version' = [version EXCEPT ![claim.mail] = @ + 1]
    /\ wait' = [wait EXCEPT ![claim.mail] = delay]
    /\ age' = [age EXCEPT ![claim.mail] = 0]
    /\ claim' = NoClaim
    /\ UNCHANGED <<attempts, life, account, process, batch, sends, faults, restarts>>

CountAccept == accepts' = [accepts EXCEPT ![claim.mail] = @ + 1]

\* Mutant of SendAccepted: the acceptance is taken for a failure.
SendAcceptedRetried ==
    /\ HoldsRow
    /\ Marks("failed", wait[claim.mail])
    /\ CountAccept

SendAccepted ==
    /\ HoldsRow
    /\ Marks("published", wait[claim.mail])
    /\ CountAccept

AttemptsLeft(m) == attempts[m] < MaximumAttempts

\* Mutant of RetryIn: the delay is taken from the wrong end.
RetryInBeforeExpiry(m) == life[m] - RetryDelay

\* After the delay, but not later than the token's expiry.
RetryIn(m) == IF m \in Links /\ life[m] < RetryDelay THEN life[m] ELSE RetryDelay

\* The provider failed, refused or gave no acceptance: try again later.
SendFailsRetryably ==
    /\ HoldsRow
    /\ AttemptsLeft(claim.mail)
    /\ ~Expired(claim.mail)
    /\ Marks("failed", RetryIn(claim.mail))
    /\ UNCHANGED accepts

\* Out of attempts, past the expiry, or an error marked not retryable.
SendFailsTerminally ==
    /\ HoldsRow
    /\ Marks("discarded", wait[claim.mail])
    /\ UNCHANGED accepts

\* The error leaves deliverDue: the rest of the cycle's rows has to wait.
LeaveCycle ==
    /\ claim' = NoClaim
    /\ batch' = {}

\* The token was replaced or consumed during the await: whatever the
\* provider answered, the transition finds the row settled and throws.
MarkIsStale ==
    /\ claim # NoClaim
    /\ ~HoldsRow
    /\ CountAccept \/ UNCHANGED accepts
    /\ LeaveCycle
    /\ UNCHANGED <<row, account, process, sends, faults, restarts>>

Fault == faults + restarts < MaxDisruptions /\ faults' = faults + 1 /\ UNCHANGED restarts

\* The database refuses the transition after the provider's answer.
MarkThrows ==
    /\ Fault
    /\ HoldsRow
    /\ CountAccept \/ UNCHANGED accepts
    /\ LeaveCycle
    /\ UNCHANGED <<row, account, process, sends>>

\* The process dies; a mail in flight may or may not have been accepted.
Crash ==
    /\ Fault
    /\ process # "down"
    /\ process' = "down"
    /\ (claim # NoClaim /\ CountAccept) \/ UNCHANGED accepts
    /\ LeaveCycle
    /\ UNCHANGED <<row, account, sends>>

\* close: no new cycle, but the one under way visits the rest of its rows.
CloseJob ==
    /\ process = "up"
    /\ faults + restarts < MaxDisruptions
    /\ restarts' = restarts + 1
    /\ process' = "closing"
    /\ UNCHANGED <<row, account, batch, claim, history, faults>>

CloseCompletes ==
    /\ process = "closing"
    /\ Idle
    /\ process' = "down"
    /\ UNCHANGED <<row, account, batch, claim, history, faults, restarts>>

----------------------------------------------------------------------------
Answer == SendAccepted \/ SendFailsRetryably \/ SendFailsTerminally \/ MarkIsStale

Next ==
    \/ Tick
    \/ \E m \in Links : RequestLink(m)
    \/ \E m \in Notices : Notify(m)
    \/ ConsumeToken \/ AccountMovesOn
    \/ StartJob \/ CloseJob \/ CloseCompletes
    \/ RunCycle \/ PassOver \/ ClaimAndSend \/ ClaimAndDiscard
    \/ Answer
    \/ MarkThrows \/ Crash

Spec == Init /\ [][Next]_vars

\* The interval keeps starting cycles, a cycle runs on, the provider's call
\* settles (it has a timeout), the platform restarts the process, the clock
\* advances.
FairSpec ==
    /\ Spec
    /\ WF_vars(Tick)
    /\ WF_vars(StartJob) /\ WF_vars(CloseCompletes)
    /\ WF_vars(RunCycle)
    /\ WF_vars(PassOver \/ ClaimAndSend \/ ClaimAndDiscard)
    /\ WF_vars(Answer)

----------------------------------------------------------------------------
Candidate == [mail : Mails, version : Nat]

\* Types of the rows and of the cycle's locals.
TypeOK ==
    /\ status \in [Mails -> {"absent", "pending", "publishing", "failed"} \cup Settled]
    /\ version \in [Mails -> Nat]
    /\ attempts \in [Mails -> Nat]
    /\ wait \in [Mails -> Nat]
    /\ age \in [Mails -> Nat]
    /\ life \in [Mails -> Nat]
    /\ active \in Links \cup {NoMail}
    /\ eligible \in BOOLEAN
    /\ process \in {"up", "closing", "down"}
    /\ batch \in SUBSET Candidate
    /\ claim \in Candidate \cup {NoClaim}
    /\ sends \in [Mails -> Nat]
    /\ accepts \in [Mails -> Nat]
    /\ faults \in Nat /\ restarts \in Nat

\* A link that was replaced or used is never sent again, although its mail
\* may be listed, claimed or awaiting a retry at that moment.
OnlyActiveLinkIsSent ==
    [][\A m \in Links : sends'[m] # sends[m] => active = m]_vars

\* The owner gets a second copy only if a delivery was interrupted.
DuplicatesNeedInterruption ==
    \A m \in Mails : accepts[m] <= 1 + faults

\* A row in status publishing that no delivery works on any more.
Orphaned(m) == status[m] = "publishing" /\ claim.mail # m

\* A mail that waits for its first or next attempt is sent or given up in
\* the end, orderly restarts and stale marks of other mails included; only
\* an interruption in the middle of its own delivery can leave it claimed.
MailsAreSettled ==
    \A m \in Mails : status[m] \in Waiting ~> status[m] \in Settled \/ Orphaned(m)

----------------------------------------------------------------------------
\* What a row's status says to whoever only wants the mail delivered.
StageOf(m) ==
    CASE status[m] = "absent" -> "absent"
      [] status[m] \in {"pending", "publishing", "failed"} -> "waiting"
      [] status[m] = "published" -> "delivered"
      [] status[m] = "discarded" -> "dropped"

Delivery == INSTANCE AtLeastOnceDelivery WITH
    Messages <- Mails, stage <- [m \in Mails |-> StageOf(m)],
    tries <- sends, copies <- accepts

\* The outbox implements delivery at least once, to the provider: each call of
\* the provider is a try, each acceptance a copy; a mail that is discarded is
\* dropped for good, although a copy of it may have been accepted.
ImplementsDelivery == Delivery!Spec
=============================================================================
