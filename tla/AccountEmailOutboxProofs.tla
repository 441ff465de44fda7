---------------------- MODULE AccountEmailOutboxProofs ----------------------
(***************************************************************************)
(* Proofs about the account e-mail outbox: types, the mail of a replaced   *)
(* link, settled rows and duplicates.                                      *)
(***************************************************************************)
EXTENDS AccountEmailOutbox, TLAPS

USE EmailAssumption DEF Mails

Statuses == {"absent", "pending", "publishing", "failed", "published", "discarded"}

\* NoClaim names no mail.
LEMMA NoClaimIsNoMail == NoClaim \notin Candidate
BY DEF NoClaim, Candidate

LEMMA RetryIsLater == ASSUME TypeOK, NEW m \in Mails PROVE RetryIn(m) \in Nat
BY DEF TypeOK, RetryIn

----------------------------------------------------------------------------
LEMMA TypeInductive == TypeOK /\ [Next]_vars => TypeOK'
<1> SUFFICES ASSUME TypeOK, [Next]_vars PROVE TypeOK'
  OBVIOUS
<1> USE DEF TypeOK, Settled
<1>1. ASSUME Tick PROVE TypeOK'
  <2>1. /\ wait' \in [Mails -> Nat] /\ age' \in [Mails -> Nat] /\ life' \in [Mails -> Nat]
    BY <1>1 DEF Tick
  <2>2. QED
    BY <1>1, <2>1 DEF Tick, account, history
<1>2. ASSUME NEW m \in Links, RequestLink(m) PROVE TypeOK'
  <2>1. status' \in [Mails -> Statuses] /\ version' \in [Mails -> Nat] /\ age' \in [Mails -> Nat]
    BY <1>2 DEF RequestLink, Discard, Statuses
  <2>2. life' \in [Mails -> Nat] /\ active' \in Links
    BY <1>2 DEF RequestLink
  <2>3. QED
    BY <1>2, <2>1, <2>2 DEF RequestLink, Statuses, history
<1>3. ASSUME NEW m \in Notices, Notify(m) PROVE TypeOK'
  BY <1>3 DEF Notify, account, history
<1>4. ASSUME ConsumeToken PROVE TypeOK'
  BY <1>4 DEF ConsumeToken, Discard, history
<1>5. ASSUME AccountMovesOn PROVE TypeOK'
  BY <1>5 DEF AccountMovesOn, row, history
<1>6. ASSUME StartJob PROVE TypeOK'
  BY <1>6 DEF StartJob, account, history
<1>7. ASSUME RunCycle PROVE TypeOK'
  <2>1. batch' \in SUBSET Candidate
    BY <1>7 DEF RunCycle, Candidate
  <2>2. QED
    BY <1>7, <2>1 DEF RunCycle, row, account, history
<1>8. ASSUME PassOver PROVE TypeOK'
  BY <1>8 DEF PassOver, row, account, history
<1>9. ASSUME ClaimAndSend PROVE TypeOK'
  <2>1. PICK c \in batch :
           /\ batch' = batch \ {c}
           /\ status' = [status EXCEPT ![c.mail] = "publishing"]
           /\ version' = [version EXCEPT ![c.mail] = @ + 1]
           /\ attempts' = [attempts EXCEPT ![c.mail] = @ + 1]
           /\ age' = [age EXCEPT ![c.mail] = 0]
           /\ claim' = [mail |-> c.mail, version |-> version[c.mail] + 1]
           /\ sends' = [sends EXCEPT ![c.mail] = @ + 1]
    BY <1>9 DEF ClaimAndSend
  <2>2. c.mail \in Mails
    BY DEF Candidate
  <2>3. claim' \in Candidate
    BY <2>1, <2>2 DEF Candidate
  <2>4. QED
    BY <1>9, <2>1, <2>2, <2>3 DEF ClaimAndSend, account
<1>10. ASSUME ClaimAndDiscard PROVE TypeOK'
  <2>1. PICK c \in batch :
           /\ batch' = batch \ {c}
           /\ status' = Discard(status, c.mail)
           /\ version' = [version EXCEPT ![c.mail] = @ + 2]
           /\ attempts' = [attempts EXCEPT ![c.mail] = @ + 1]
           /\ age' = [age EXCEPT ![c.mail] = 0]
    BY <1>10 DEF ClaimAndDiscard
  <2>2. c.mail \in Mails
    BY DEF Candidate
  <2>3. QED
    BY <1>10, <2>1, <2>2 DEF ClaimAndDiscard, Discard, account, history
<1>11. claim # NoClaim => claim.mail \in Mails
  BY DEF Candidate
<1>12. ASSUME NEW s \in {"failed", "published", "discarded"}, NEW delay \in Nat,
              claim # NoClaim, Marks(s, delay), accepts' \in [Mails -> Nat]
       PROVE  TypeOK'
  BY <1>11, <1>12 DEF Marks, account
<1>13. claim # NoClaim /\ (CountAccept \/ UNCHANGED accepts) => accepts' \in [Mails -> Nat]
  BY <1>11 DEF CountAccept
<1>14. ASSUME SendAccepted \/ SendFailsRetryably \/ SendFailsTerminally PROVE TypeOK'
  BY <1>11, <1>12, <1>13, <1>14, RetryIsLater
     DEF SendAccepted, SendFailsRetryably, SendFailsTerminally, HoldsRow
<1>15. ASSUME MarkIsStale \/ MarkThrows \/ Crash PROVE TypeOK'
  BY <1>13, <1>15 DEF MarkIsStale, MarkThrows, Crash, Fault, HoldsRow, LeaveCycle, row, account
<1>16. ASSUME CloseJob \/ CloseCompletes \/ UNCHANGED vars PROVE TypeOK'
  BY <1>16 DEF CloseJob, CloseCompletes, vars, row, account, history
<1>17. QED
  BY <1>1, <1>2, <1>3, <1>4, <1>5, <1>6, <1>7, <1>8, <1>9, <1>10, <1>14, <1>15, <1>16
     DEF Next, Answer

\* Every state of the outbox and its job is well typed, for any number of
\* mails, attempts, delays and disruptions.
THEOREM TypeCorrect == Spec => []TypeOK
<1>1. Init => TypeOK
  BY DEF Init, TypeOK, NoClaim
<1>2. QED
  BY <1>1, TypeInductive, PTL DEF Spec
----------------------------------------------------------------------------
\* A settled row is never written again, by whatever answer arrives late.
LEMMA SettledStays ==
    ASSUME TypeOK, [Next]_vars, NEW m \in Mails, status[m] \in Settled
    PROVE  status'[m] = status[m]
<1> USE DEF TypeOK, Settled
<1>1. ASSUME NEW k \in Links, RequestLink(k) PROVE status'[m] = status[m]
  BY <1>1 DEF RequestLink, Discard, DiscardedBy
<1>2. ASSUME NEW k \in Notices, Notify(k) PROVE status'[m] = status[m]
  BY <1>2 DEF Notify
<1>3. ASSUME ConsumeToken PROVE status'[m] = status[m]
  BY <1>3 DEF ConsumeToken, Discard, DiscardedBy
<1>4. ASSUME StartJob PROVE status'[m] = status[m]
  BY <1>4 DEF StartJob, Interrupted
<1>5. ASSUME ClaimAndSend \/ ClaimAndDiscard PROVE status'[m] = status[m]
  BY <1>5 DEF ClaimAndSend, ClaimAndDiscard, Claimable, Discard, Waiting, Candidate
<1>6. ASSUME SendAccepted \/ SendFailsRetryably \/ SendFailsTerminally PROVE status'[m] = status[m]
  BY <1>6 DEF SendAccepted, SendFailsRetryably, SendFailsTerminally, HoldsRow, Marks, Candidate
<1>7. ASSUME \/ Tick \/ AccountMovesOn \/ CloseJob \/ CloseCompletes \/ RunCycle
             \/ PassOver \/ MarkIsStale \/ MarkThrows \/ Crash \/ UNCHANGED vars
      PROVE  status'[m] = status[m]
  BY <1>7 DEF Tick, AccountMovesOn, CloseJob, CloseCompletes, RunCycle, PassOver, MarkIsStale,
              MarkThrows, Crash, vars, row
<1>8. QED
  BY <1>1, <1>2, <1>3, <1>4, <1>5, <1>6, <1>7 DEF Next, Answer

\* What every property of the claim rests on: a process that is down has no
\* cycle, and the claimed row is as the cycle wrote it or was settled by the
\* account services meanwhile.
CycleInv ==
    /\ process = "down" => batch = {} /\ claim = NoClaim
    /\ claim # NoClaim => HoldsRow \/ status[claim.mail] \in Settled

LEMMA CycleInductive == TypeOK /\ CycleInv /\ [Next]_vars => CycleInv'
<1> SUFFICES ASSUME TypeOK, CycleInv, [Next]_vars PROVE CycleInv'
  OBVIOUS
<1> USE DEF CycleInv
<1>1. claim # NoClaim => claim.mail \in Mails
  BY DEF TypeOK, Candidate
<1>2. ASSUME claim' = claim, claim # NoClaim,
             \/ /\ status'[claim.mail] = status[claim.mail]
                /\ version'[claim.mail] = version[claim.mail]
             \/ status'[claim.mail] \in Settled
      PROVE  HoldsRow' \/ status'[claim'.mail] \in Settled
  <2>1. status[claim.mail] \in Settled => status'[claim.mail] \in Settled
    BY <1>1, <1>2, SettledStays
  <2>2. QED
    BY <1>2, <2>1 DEF HoldsRow
<1>3. ASSUME NEW k \in Links, RequestLink(k) PROVE CycleInv'
  <2>1. ASSUME claim # NoClaim
        PROVE  \/ /\ status'[claim.mail] = status[claim.mail]
                  /\ version'[claim.mail] = version[claim.mail]
               \/ status'[claim.mail] \in Settled
    <3>1. claim.mail # k
      BY <1>1, <1>3, <2>1 DEF RequestLink, HoldsRow, Settled
    <3>2. QED
      BY <1>1, <1>3, <2>1, <3>1 DEF RequestLink, Discard, TypeOK, Settled
  <2>2. QED
    BY <1>2, <1>3, <2>1 DEF RequestLink
<1>4. ASSUME NEW k \in Notices, Notify(k) PROVE CycleInv'
  <2>1. ASSUME claim # NoClaim PROVE claim.mail # k
    BY <1>1, <1>4, <2>1 DEF Notify, HoldsRow, Settled
  <2>2. QED
    BY <1>1, <1>2, <1>4, <2>1 DEF Notify, TypeOK
<1>5. ASSUME ConsumeToken PROVE CycleInv'
  <2>1. ASSUME claim # NoClaim
        PROVE  \/ /\ status'[claim.mail] = status[claim.mail]
                  /\ version'[claim.mail] = version[claim.mail]
               \/ status'[claim.mail] \in Settled
    BY <1>1, <1>5, <2>1 DEF ConsumeToken, Discard, TypeOK, Settled
  <2>2. QED
    BY <1>2, <1>5, <2>1 DEF ConsumeToken
<1>6. ASSUME StartJob PROVE CycleInv'
  BY <1>6 DEF StartJob
<1>7. ASSUME ClaimAndSend PROVE CycleInv'
  <2>1. PICK c \in batch :
           /\ status' = [status EXCEPT ![c.mail] = "publishing"]
           /\ version' = [version EXCEPT ![c.mail] = @ + 1]
           /\ claim' = [mail |-> c.mail, version |-> version[c.mail] + 1]
    BY <1>7 DEF ClaimAndSend
  <2>2. c.mail \in Mails
    BY DEF TypeOK, Candidate
  <2>3. HoldsRow'
    BY <2>1, <2>2, NoClaimIsNoMail DEF HoldsRow, TypeOK, Candidate
  <2>4. process' # "down"
    BY <1>7, <2>1 DEF ClaimAndSend
  <2>5. QED
    BY <2>3, <2>4
<1>8. ASSUME ClaimAndDiscard \/ PassOver PROVE CycleInv'
  BY <1>8 DEF ClaimAndDiscard, PassOver, account, history
<1>9. ASSUME SendAccepted \/ SendFailsRetryably \/ SendFailsTerminally PROVE CycleInv'
  BY <1>9 DEF SendAccepted, SendFailsRetryably, SendFailsTerminally, Marks, HoldsRow
<1>10. ASSUME MarkIsStale \/ MarkThrows \/ Crash PROVE CycleInv'
  BY <1>10 DEF MarkIsStale, MarkThrows, Crash, LeaveCycle
<1>11. ASSUME Tick \/ AccountMovesOn \/ RunCycle \/ CloseJob \/ CloseCompletes \/ UNCHANGED vars
       PROVE  CycleInv'
  <2>1. UNCHANGED <<status, version, claim>>
    BY <1>11 DEF Tick, AccountMovesOn, RunCycle, CloseJob, CloseCompletes, vars, row
  <2>2. process' = "down" => batch' = {} /\ claim' = NoClaim
    BY <1>11 DEF Tick, AccountMovesOn, RunCycle, CloseJob, CloseCompletes, Idle, vars
  <2>3. QED
    BY <1>2, <2>1, <2>2
<1>12. QED
  BY <1>3, <1>4, <1>5, <1>6, <1>7, <1>8, <1>9, <1>10, <1>11 DEF Next, Answer

----------------------------------------------------------------------------
\* A mail was accepted once without a fault only if it is settled and its
\* delivery is over; each further acceptance has a fault of its own.
AcceptInv ==
    \A m \in Mails :
        accepts[m] <= faults + (IF status[m] \in Settled /\ claim.mail # m THEN 1 ELSE 0)

LEMMA AcceptInductive ==
    TypeOK /\ CycleInv /\ AcceptInv /\ [Next]_vars => AcceptInv'
<1> SUFFICES ASSUME TypeOK, CycleInv, AcceptInv, [Next]_vars, NEW m \in Mails
             PROVE  accepts'[m] <= faults'
                      + (IF status'[m] \in Settled /\ claim'.mail # m THEN 1 ELSE 0)
  BY DEF AcceptInv
<1>1. /\ accepts[m] \in Nat /\ faults \in Nat
      /\ accepts[m] <= faults + (IF status[m] \in Settled /\ claim.mail # m THEN 1 ELSE 0)
      /\ (status[m] \in Settled => status'[m] \in Settled)
      /\ NoClaim.mail # m
  BY SettledStays DEF TypeOK, AcceptInv, NoClaim
<1>2. ASSUME UNCHANGED <<accepts, faults>>, claim' = claim \/ claim' = NoClaim
      PROVE  accepts'[m] <= faults' + (IF status'[m] \in Settled /\ claim'.mail # m THEN 1 ELSE 0)
  BY <1>1, <1>2
<1>3. ASSUME ClaimAndSend
      PROVE  accepts'[m] <= faults' + (IF status'[m] \in Settled /\ claim'.mail # m THEN 1 ELSE 0)
  <2>1. PICK c \in batch :
           Claimable(c) /\ claim' = [mail |-> c.mail, version |-> version[c.mail] + 1]
    BY <1>3 DEF ClaimAndSend
  <2>2. UNCHANGED <<accepts, faults>>
    BY <1>3 DEF ClaimAndSend
  <2>3. CASE m = c.mail
    BY <1>1, <2>1, <2>2, <2>3 DEF Claimable, Waiting, Settled
  <2>4. CASE m # c.mail
    BY <1>1, <2>1, <2>2, <2>4
  <2>5. QED
    BY <2>3, <2>4
<1>4. ASSUME SendAccepted
      PROVE  accepts'[m] <= faults' + (IF status'[m] \in Settled /\ claim'.mail # m THEN 1 ELSE 0)
  <2>1. /\ claim' = NoClaim /\ faults' = faults /\ claim.mail \in Mails
        /\ status[claim.mail] = "publishing" /\ status'[claim.mail] = "published"
        /\ accepts' = [accepts EXCEPT ![claim.mail] = @ + 1]
    BY <1>4 DEF SendAccepted, HoldsRow, Marks, CountAccept, TypeOK, Candidate
  <2>2. CASE m = claim.mail
    BY <1>1, <2>1, <2>2 DEF Settled, TypeOK
  <2>3. CASE m # claim.mail
    BY <1>1, <2>1, <2>3 DEF TypeOK
  <2>4. QED
    BY <2>2, <2>3
<1>5. ASSUME MarkIsStale
      PROVE  accepts'[m] <= faults' + (IF status'[m] \in Settled /\ claim'.mail # m THEN 1 ELSE 0)
  <2>1. /\ claim' = NoClaim /\ faults' = faults /\ claim.mail \in Mails
        /\ status[claim.mail] \in Settled /\ status' = status
        /\ accepts' = [accepts EXCEPT ![claim.mail] = @ + 1] \/ accepts' = accepts
    BY <1>5 DEF MarkIsStale, LeaveCycle, CountAccept, CycleInv, TypeOK, Candidate, row
  <2>2. CASE m = claim.mail
    BY <1>1, <2>1, <2>2 DEF TypeOK
  <2>3. CASE m # claim.mail
    BY <1>1, <2>1, <2>3 DEF TypeOK
  <2>4. QED
    BY <2>2, <2>3
<1>6. ASSUME MarkThrows \/ Crash
      PROVE  accepts'[m] <= faults' + (IF status'[m] \in Settled /\ claim'.mail # m THEN 1 ELSE 0)
  <2>1. /\ claim' = NoClaim /\ faults' = faults + 1 /\ status' = status
        /\ \/ claim # NoClaim /\ accepts' = [accepts EXCEPT ![claim.mail] = @ + 1]
           \/ accepts' = accepts
    BY <1>6 DEF MarkThrows, Crash, HoldsRow, LeaveCycle, CountAccept, Fault, row
  <2>2. CASE m = claim.mail
    BY <1>1, <2>1, <2>2 DEF TypeOK
  <2>3. CASE m # claim.mail
    BY <1>1, <2>1, <2>3 DEF TypeOK
  <2>4. QED
    BY <2>2, <2>3
<1>7. ASSUME \/ \E k \in Links : RequestLink(k)
             \/ \E k \in Notices : Notify(k)
             \/ Tick \/ ConsumeToken \/ AccountMovesOn \/ StartJob \/ CloseJob \/ CloseCompletes
             \/ RunCycle \/ PassOver \/ ClaimAndDiscard \/ UNCHANGED vars
      PROVE  UNCHANGED <<accepts, faults, claim>>
  BY <1>7 DEF RequestLink, Notify, Tick, ConsumeToken, AccountMovesOn, StartJob, CloseJob,
              CloseCompletes, RunCycle, PassOver, ClaimAndDiscard, vars, history
<1>8. ASSUME SendFailsRetryably \/ SendFailsTerminally
      PROVE  UNCHANGED <<accepts, faults>> /\ claim' = NoClaim
  BY <1>8 DEF SendFailsRetryably, SendFailsTerminally, Marks
<1>9. QED
  BY <1>2, <1>3, <1>4, <1>5, <1>6, <1>7, <1>8 DEF Next, Answer

\* The owner gets a second copy only if a delivery was interrupted: two
\* acceptances of one mail need a crash or a refused mark in between.
THEOREM DuplicatesBounded == Spec => []DuplicatesNeedInterruption
<1>1. Init => CycleInv
  BY DEF Init, CycleInv
<1>2. Init => AcceptInv
  BY DEF Init, AcceptInv
<1>3. TypeOK /\ AcceptInv => DuplicatesNeedInterruption
  BY DEF TypeOK, AcceptInv, DuplicatesNeedInterruption
<1>4. QED
  BY <1>1, <1>2, <1>3, TypeCorrect, TypeInductive, CycleInductive, AcceptInductive, PTL DEF Spec

----------------------------------------------------------------------------
\* Only the active link has a mail that may still be sent.
LinksInv ==
    \A m \in Links : status[m] \in {"pending", "failed", "publishing"} => active = m

LEMMA LinksInductive == TypeOK /\ LinksInv /\ [Next]_vars => LinksInv'
<1> SUFFICES ASSUME TypeOK, LinksInv, [Next]_vars PROVE LinksInv'
  OBVIOUS
<1> USE DEF LinksInv
<1>1. ASSUME NEW k \in Links, RequestLink(k) PROVE LinksInv'
  BY <1>1 DEF RequestLink, Discard, DiscardedBy, TypeOK
<1>2. ASSUME NEW k \in Notices, Notify(k) PROVE LinksInv'
  BY <1>2 DEF Notify, account, TypeOK
<1>3. ASSUME ConsumeToken PROVE LinksInv'
  BY <1>3 DEF ConsumeToken, Discard, DiscardedBy, TypeOK
<1>4. ASSUME active' = active,
             \A m \in Links : status'[m] \in {"pending", "failed", "publishing"} =>
                status[m] \in {"pending", "failed", "publishing"}
      PROVE  LinksInv'
  BY <1>4
<1>5. ASSUME StartJob PROVE LinksInv'
  BY <1>4, <1>5 DEF StartJob, Interrupted, account
<1>6. ASSUME ClaimAndSend \/ ClaimAndDiscard PROVE LinksInv'
  BY <1>4, <1>6 DEF ClaimAndSend, ClaimAndDiscard, Claimable, Waiting, Discard, account, TypeOK, Candidate
<1>7. ASSUME SendAccepted \/ SendFailsRetryably \/ SendFailsTerminally PROVE LinksInv'
  BY <1>4, <1>7 DEF SendAccepted, SendFailsRetryably, SendFailsTerminally, HoldsRow, Marks,
                    account, TypeOK, Candidate
<1>8. ASSUME \/ Tick \/ AccountMovesOn \/ CloseJob \/ CloseCompletes \/ RunCycle
             \/ PassOver \/ MarkIsStale \/ MarkThrows \/ Crash \/ UNCHANGED vars
      PROVE  UNCHANGED <<status, active>>
  BY <1>8 DEF Tick, AccountMovesOn, CloseJob, CloseCompletes, RunCycle, PassOver, MarkIsStale,
              MarkThrows, Crash, vars, row, account
<1>9. QED
  BY <1>1, <1>2, <1>3, <1>4, <1>5, <1>6, <1>7, <1>8 DEF Next, Answer

\* A link that was replaced or used is never sent again, although its mail
\* may be listed, claimed or awaiting a retry at that moment.
THEOREM OnlyActiveSent == Spec => OnlyActiveLinkIsSent
<1>1. Init => LinksInv
  BY DEF Init, LinksInv
<1>2. ASSUME TypeOK, LinksInv, [Next]_vars, NEW m \in Links, sends'[m] # sends[m]
      PROVE  active = m
  <2>1. ASSUME ClaimAndSend PROVE active = m
    BY <1>2, <2>1 DEF ClaimAndSend, Claimable, Waiting, LinksInv, TypeOK, Candidate
  <2>2. CASE \E k \in Links : RequestLink(k)
    BY <1>2, <2>2 DEF RequestLink, history
  <2>3. CASE \E k \in Notices : Notify(k)
    BY <1>2, <2>3 DEF Notify, history
  <2>4. ASSUME ~ClaimAndSend, ~\E k \in Links : RequestLink(k), ~\E k \in Notices : Notify(k)
        PROVE  sends' = sends
    BY <1>2, <2>4
       DEF Next, Answer, Tick, ConsumeToken, AccountMovesOn, StartJob, CloseJob, CloseCompletes,
           RunCycle, PassOver, ClaimAndDiscard, SendAccepted, SendFailsRetryably,
           SendFailsTerminally, Marks, MarkIsStale, MarkThrows, Crash, vars, history
  <2>5. QED
    BY <1>2, <2>1, <2>2, <2>3, <2>4
<1>3. TypeOK /\ LinksInv /\ [Next]_vars =>
         [\A m \in Links : sends'[m] # sends[m] => active = m]_vars
  BY <1>2
<1>4. QED
  BY <1>1, <1>3, TypeCorrect, LinksInductive, PTL DEF Spec, OnlyActiveLinkIsSent

\* A settled mail is never written again: not by a mark that arrives late,
\* nor by the recovery of interrupted claims, nor by another request.
THEOREM SettledForGood == Spec => [][\A m \in Mails : status[m] \in Settled => status'[m] = status[m]]_vars
<1>1. TypeOK /\ [Next]_vars => [\A m \in Mails : status[m] \in Settled => status'[m] = status[m]]_vars
  BY SettledStays
<1>2. QED
  BY <1>1, TypeCorrect, PTL DEF Spec

----------------------------------------------------------------------------
\* The refinement.

\* Each copy that was accepted, or still may be, was sent.
SendsCover ==
    \A m \in Mails : accepts[m] + (IF claim.mail = m THEN 1 ELSE 0) <= sends[m]

Waits(m) == status[m] \in {"pending", "publishing", "failed"}

\* What a step may do to a mail.
Untouched(m) ==
    /\ UNCHANGED <<sends[m], accepts[m]>>
    /\ UNCHANGED status[m] \/ (Waits(m) /\ Waits(m)')
    /\ claim'.mail = m => claim.mail = m

Written(m) ==
    /\ status[m] = "absent" /\ status'[m] = "pending"
    /\ UNCHANGED <<sends[m], accepts[m], claim>>

Sent(m) ==
    /\ Waits(m) /\ Waits(m)' /\ sends'[m] = sends[m] + 1 /\ UNCHANGED accepts[m]
    /\ claim = NoClaim /\ claim'.mail = m

Accepted(m) ==
    /\ claim.mail = m /\ claim' = NoClaim
    /\ accepts'[m] = accepts[m] + 1 /\ UNCHANGED sends[m]
    /\ \/ status[m] # "absent" /\ UNCHANGED status[m]
       \/ Waits(m) /\ status'[m] = "published"

Discarded(m) ==
    /\ Waits(m) /\ status'[m] = "discarded"
    /\ UNCHANGED <<sends[m], accepts[m]>>
    /\ claim'.mail = m => claim.mail = m

MailMoves(m) == Untouched(m) \/ Written(m) \/ Sent(m) \/ Accepted(m) \/ Discarded(m)

\* After the provider's answer nothing but the claimed mail has changed.
LEMMA AnswerMoves ==
    ASSUME TypeOK, claim # NoClaim, claim' = NoClaim, UNCHANGED sends,
           Waits(claim.mail) \/ status[claim.mail] \in Settled,
           CountAccept \/ UNCHANGED accepts,
           NEW s, status' = [status EXCEPT ![claim.mail] = s],
           \/ s = status[claim.mail]
           \/ Waits(claim.mail) /\ s = "published" /\ CountAccept
           \/ Waits(claim.mail) /\ s \in {"failed", "discarded"} /\ UNCHANGED accepts,
           NEW m \in Mails
    PROVE  MailMoves(m)
<1>1. claim.mail \in Mails /\ NoClaim.mail # m
  BY DEF TypeOK, Candidate, NoClaim
<1>2. CASE m # claim.mail
  BY <1>1, <1>2 DEF MailMoves, Untouched, CountAccept, TypeOK
<1>3. CASE m = claim.mail
  <2>1. status'[m] = s /\ status[m] # "absent"
    BY <1>1, <1>3 DEF TypeOK, Waits, Settled
  <2>2. CASE UNCHANGED accepts
    BY <1>1, <1>3, <2>1, <2>2 DEF MailMoves, Untouched, Discarded, Waits, CountAccept, TypeOK
  <2>3. CASE CountAccept
    <3>1. accepts'[m] = accepts[m] + 1
      BY <1>1, <1>3, <2>3 DEF CountAccept, TypeOK
    <3>2. ~ UNCHANGED accepts
      BY <1>1, <1>3, <3>1 DEF TypeOK
    <3>3. QED
      BY <1>3, <2>1, <3>1, <3>2 DEF MailMoves, Accepted
  <2>4. QED
    BY <2>2, <2>3
<1>4. QED
  BY <1>2, <1>3

LEMMA MailsMove ==
    ASSUME TypeOK, CycleInv, [Next]_vars, NEW m \in Mails
    PROVE  MailMoves(m)
<1>1. ASSUME UNCHANGED <<status, sends, accepts>>, claim' \in {claim, NoClaim}
      PROVE  MailMoves(m)
  BY <1>1 DEF MailMoves, Untouched, NoClaim
<1>2. CASE \/ Tick \/ AccountMovesOn \/ CloseJob \/ CloseCompletes \/ RunCycle \/ PassOver
           \/ UNCHANGED vars
  BY <1>1, <1>2 DEF Tick, AccountMovesOn, CloseJob, CloseCompletes, RunCycle, PassOver, vars,
                    row, history
<1>3. ASSUME NEW k \in Links, RequestLink(k) PROVE MailMoves(m)
  <2>1. UNCHANGED <<sends, accepts, claim>> /\ status[k] = "absent"
    BY <1>3 DEF RequestLink, history
  <2>2. /\ m = k => status'[m] = "pending"
        /\ m # k => status'[m] = status[m] \/ (DiscardedBy(m) /\ status'[m] = "discarded")
    BY <1>3 DEF RequestLink, Discard, TypeOK
  <2>3. QED
    BY <2>1, <2>2 DEF MailMoves, Written, Untouched, Discarded, DiscardedBy, Waits
<1>4. ASSUME NEW k \in Notices, Notify(k) PROVE MailMoves(m)
  BY <1>4 DEF Notify, history, MailMoves, Written, Untouched, TypeOK
<1>5. CASE ConsumeToken
  <2>1. UNCHANGED <<sends, accepts, claim>>
    BY <1>5 DEF ConsumeToken, history
  <2>2. status'[m] = status[m] \/ (DiscardedBy(m) /\ status'[m] = "discarded")
    BY <1>5 DEF ConsumeToken, Discard, TypeOK
  <2>3. QED
    BY <2>1, <2>2 DEF MailMoves, Untouched, Discarded, DiscardedBy, Waits
<1>6. CASE StartJob
  BY <1>6 DEF StartJob, Interrupted, history, MailMoves, Untouched, Waits, TypeOK
<1>7. CASE ClaimAndSend
  <2>1. PICK c \in batch :
           /\ Claimable(c)
           /\ status' = [status EXCEPT ![c.mail] = "publishing"]
           /\ claim' = [mail |-> c.mail, version |-> version[c.mail] + 1]
           /\ sends' = [sends EXCEPT ![c.mail] = @ + 1]
    BY <1>7 DEF ClaimAndSend
  <2>2. c.mail \in Mails /\ claim = NoClaim /\ UNCHANGED accepts /\ claim'.mail = c.mail
    BY <1>7, <2>1 DEF ClaimAndSend, TypeOK, Candidate
  <2>3. CASE m = c.mail
    BY <2>1, <2>2, <2>3 DEF MailMoves, Sent, Waits, Claimable, Waiting, TypeOK
  <2>4. CASE m # c.mail
    BY <2>1, <2>2, <2>4 DEF MailMoves, Untouched, TypeOK
  <2>5. QED
    BY <2>3, <2>4
<1>8. CASE ClaimAndDiscard
  <2>1. PICK c \in batch : Claimable(c) /\ status' = [status EXCEPT ![c.mail] = "discarded"]
    BY <1>8 DEF ClaimAndDiscard, Discard
  <2>2. c.mail \in Mails /\ UNCHANGED <<sends, accepts, claim>>
    BY <1>8 DEF ClaimAndDiscard, TypeOK, Candidate, history
  <2>3. CASE m = c.mail
    BY <2>1, <2>2, <2>3 DEF MailMoves, Discarded, Waits, Claimable, Waiting, TypeOK
  <2>4. CASE m # c.mail
    BY <2>1, <2>2, <2>4 DEF MailMoves, Untouched, TypeOK
  <2>5. QED
    BY <2>3, <2>4
<1>9. claim # NoClaim => Waits(claim.mail) \/ status[claim.mail] \in Settled
  BY DEF CycleInv, HoldsRow, Waits
<1>10. CASE SendAccepted \/ SendFailsRetryably \/ SendFailsTerminally
  <2>1. claim # NoClaim /\ claim' = NoClaim /\ UNCHANGED sends /\ Waits(claim.mail)
    BY <1>10 DEF SendAccepted, SendFailsRetryably, SendFailsTerminally, HoldsRow, Marks, Waits
  <2>2. PICK s : /\ status' = [status EXCEPT ![claim.mail] = s]
                 /\ \/ s = "published" /\ CountAccept
                    \/ s \in {"failed", "discarded"} /\ UNCHANGED accepts
    BY <1>10 DEF SendAccepted, SendFailsRetryably, SendFailsTerminally, Marks
  <2>3. QED
    BY <2>1, <2>2, AnswerMoves
<1>11. CASE MarkIsStale \/ MarkThrows \/ Crash
  <2>1. /\ claim' = NoClaim /\ UNCHANGED <<status, sends>>
        /\ (claim # NoClaim /\ CountAccept) \/ UNCHANGED accepts
    BY <1>11 DEF MarkIsStale, MarkThrows, Crash, LeaveCycle, HoldsRow, row
  <2>2. CASE claim = NoClaim
    BY <1>1, <2>1, <2>2
  <2>3. CASE claim # NoClaim
    <3>1. status' = [status EXCEPT ![claim.mail] = status[claim.mail]]
      BY <2>1, <2>3 DEF TypeOK
    <3>2. QED
      BY <1>9, <2>1, <2>3, <3>1, AnswerMoves
  <2>4. QED
    BY <2>2, <2>3
<1>12. QED
  BY <1>2, <1>3, <1>4, <1>5, <1>6, <1>7, <1>8, <1>10, <1>11 DEF Next, Answer

LEMMA SendsCoverInductive ==
    TypeOK /\ TypeOK' /\ CycleInv /\ SendsCover /\ [Next]_vars => SendsCover'
<1> SUFFICES ASSUME TypeOK, TypeOK', CycleInv, SendsCover, [Next]_vars, NEW m \in Mails
             PROVE  accepts'[m] + (IF claim'.mail = m THEN 1 ELSE 0) <= sends'[m]
  BY DEF SendsCover
<1>1. /\ accepts[m] \in Nat /\ sends[m] \in Nat
      /\ accepts[m] + (IF claim.mail = m THEN 1 ELSE 0) <= sends[m]
      /\ NoClaim.mail # m
  BY DEF TypeOK, SendsCover, NoClaim
<1>2. MailMoves(m)
  BY MailsMove
<1>3. QED
  BY <1>1, <1>2 DEF MailMoves, Untouched, Written, Sent, Accepted, Discarded

\* Whatever the provider answers, whoever replaces or uses a link meanwhile,
\* and however the process ends, the outbox implements delivery at least once
\* to the provider: a mail is settled once, as published only with a copy
\* accepted, and every copy accepted was sent while the mail was waiting.
THEOREM MailsAreDelivered == Spec => ImplementsDelivery
<1>1. Init => Delivery!Init
  BY DEF Init, StageOf, Delivery!Init
<1>2. ASSUME TypeOK, TypeOK', CycleInv, SendsCover, [Next]_vars
      PROVE  [Delivery!Next]_(Delivery!vars)
  <2> DEFINE stage == [m \in Mails |-> StageOf(m)]
  <2>1. ASSUME NEW m \in Mails
        PROVE  \/ Delivery!Put(m) \/ Delivery!Try(m) \/ Delivery!Copy(m)
               \/ Delivery!Deliver(m) \/ Delivery!Drop(m) \/ Delivery!Rest(m)
    <3>1. /\ stage[m] = StageOf(m) /\ stage'[m] = StageOf(m)'
          /\ status[m] = status'[m] => StageOf(m) = StageOf(m)'
      BY DEF StageOf
    <3> HIDE DEF stage
    <3>2. /\ Waits(m) => StageOf(m) = "waiting"
          /\ Waits(m)' => StageOf(m)' = "waiting"
          /\ status[m] = "absent" => StageOf(m) = "absent"
          /\ status[m] # "absent" => StageOf(m) # "absent"
          /\ status'[m] = "pending" => StageOf(m)' = "waiting"
          /\ status'[m] = "published" => StageOf(m)' = "delivered"
          /\ status'[m] = "discarded" => StageOf(m)' = "dropped"
      BY <1>2 DEF StageOf, Waits, TypeOK, Settled
    <3>3. /\ accepts[m] + (IF claim.mail = m THEN 1 ELSE 0) <= sends[m]
          /\ accepts[m] \in Nat /\ sends[m] \in Nat
      BY <1>2 DEF SendsCover, TypeOK
    <3>4. MailMoves(m)
      BY <1>2, MailsMove
    <3>5. CASE Untouched(m)
      BY <3>1, <3>2, <3>5 DEF Untouched, Delivery!Rest, stage
    <3>6. CASE Written(m)
      BY <3>1, <3>2, <3>6 DEF Written, Delivery!Put, stage
    <3>7. CASE Sent(m)
      BY <3>1, <3>2, <3>7 DEF Sent, Delivery!Try, stage
    <3>8. CASE Accepted(m)
      BY <3>1, <3>2, <3>3, <3>8
         DEF Accepted, Delivery!Copy, Delivery!Deliver, Delivery!HandOver, stage
    <3>9. CASE Discarded(m)
      BY <3>1, <3>2, <3>9 DEF Discarded, Delivery!Drop, stage
    <3>10. QED
      BY <3>4, <3>5, <3>6, <3>7, <3>8, <3>9 DEF MailMoves
  <2>2. /\ stage' = [m \in Mails |-> stage'[m]]
        /\ sends' = [m \in Mails |-> sends'[m]]
        /\ accepts' = [m \in Mails |-> accepts'[m]]
    BY <1>2 DEF TypeOK
  <2>3. QED
    BY <2>1, <2>2 DEF Delivery!Next
<1>3. Init => CycleInv /\ SendsCover
  BY DEF Init, CycleInv, SendsCover, NoClaim
<1>4. QED
  BY <1>1, <1>2, <1>3, TypeCorrect, CycleInductive, SendsCoverInductive, PTL
     DEF Spec, ImplementsDelivery, Delivery!Spec
=============================================================================
