------------------------- MODULE LeagueOutboxProofs -------------------------
(***************************************************************************)
(* Proofs about LeagueOutbox for any set of rows, any finite set of        *)
(* publishers and any delays.  The inductive invariant says what a         *)
(* publisher's claim knows about its row: never a version the row has not  *)
(* reached, the row's present version only while the row is being          *)
(* published, and a version no other publisher holds.                      *)
(***************************************************************************)
EXTENDS LeagueOutbox, FiniteSetTheorems, TLAPS

\* Every action writes columns and locals of the declared shapes.
LEMMA TypeInductive == TypeOK /\ [Next]_vars => TypeOK'
<1> SUFFICES ASSUME TypeOK, [Next]_vars PROVE TypeOK'
  OBVIOUS
<1> USE OutboxAssumption DEF TypeOK, Statuses, Claims, row
<1>1. CASE Tick
  BY <1>1 DEF Tick
<1>2. ASSUME NEW e \in Events, Write(e) PROVE TypeOK'
  BY <1>2 DEF Write
<1>3. ASSUME NEW e \in Events, RecoverInterrupted(e) PROVE TypeOK'
  BY <1>3 DEF RecoverInterrupted
<1>4. ASSUME NEW p \in Publishers, PublishDue(p) PROVE TypeOK'
  BY <1>4 DEF PublishDue, Candidate, Candidates
<1>5. ASSUME NEW p \in Publishers, ClaimCandidate(p) PROVE TypeOK'
  <2>1. PICK c \in batch[p] :
           /\ batch' = [batch EXCEPT ![p] = @ \ {c}]
           /\ \/ Claimable(c.event, c.version) /\ TakeClaim(p, c.event)
              \/ ~Claimable(c.event, c.version) /\ UNCHANGED <<row, claim>>
    BY <1>5 DEF ClaimCandidate
  <2>2. c.event \in Events
    BY DEF Candidates
  <2>3. batch' \in [Publishers -> SUBSET Candidates]
    BY <2>1
  <2>4. QED
    BY <1>5, <2>1, <2>2, <2>3 DEF ClaimCandidate, TakeClaim
<1>6. ASSUME NEW p \in Publishers, NEW e \in Events, PublishExact(p, e) PROVE TypeOK'
  BY <1>6 DEF PublishExact, TakeClaim
<1>7. ASSUME NEW p \in Publishers, PublishResolves(p) PROVE TypeOK'
  BY <1>7 DEF PublishResolves, NoClaim
<1>8. ASSUME NEW p \in Publishers, PublishRejects(p) PROVE TypeOK'
  BY <1>8 DEF PublishRejects, NoClaim
<1>9. ASSUME NEW p \in Publishers, MarkPublished(p) PROVE TypeOK'
  BY <1>9 DEF MarkPublished, NoClaim
<1>10. ASSUME NEW p \in Publishers, MarkPublishedThrows(p) PROVE TypeOK'
  BY <1>10 DEF MarkPublishedThrows, NoClaim
<1>11. ASSUME NEW p \in Publishers, MarkFailed(p) PROVE TypeOK'
  BY <1>11 DEF MarkFailed, NoClaim
<1>12. ASSUME NEW p \in Publishers, AbandonStaleClaim(p) PROVE TypeOK'
  BY <1>12 DEF AbandonStaleClaim
<1>13. ASSUME NEW p \in Publishers, Crash(p) PROVE TypeOK'
  BY <1>13 DEF Crash
<1>14. CASE UNCHANGED vars
  BY <1>14 DEF vars
<1>15. QED
  BY <1>1, <1>2, <1>3, <1>4, <1>5, <1>6, <1>7, <1>8, <1>9, <1>10, <1>11,
     <1>12, <1>13, <1>14 DEF Next

\* The rows and the publishers' locals of the outbox keep their types.
THEOREM TypeCorrect == Spec => []TypeOK
<1>1. Init => TypeOK
  BY DEF Init, TypeOK, Statuses
<1>2. QED
  BY <1>1, TypeInductive, PTL DEF Spec

----------------------------------------------------------------------------
Claimed(p) == claim[p] # NoClaim

\* A claim never runs ahead of its row, and only a row that is still being
\* published carries the version of a claim.
ClaimsKnowTheirRow ==
    \A p \in Publishers : Claimed(p) =>
        /\ claim[p].version <= version[claim[p].event]
        /\ status[claim[p].event] # "absent"
        /\ claim[p].version = version[claim[p].event]
              => status[claim[p].event] = "publishing"
        /\ claim[p].phase = "resolved" => publications[claim[p].event] > 0

\* No two publishers hold the same version of a row.
ClaimsDiffer ==
    \A p, q \in Publishers :
        Claimed(p) /\ Claimed(q) /\ claim[p].event = claim[q].event
           /\ claim[p].version = claim[q].version => p = q

\* Nothing but recovery overtakes a claim.
ClaimsCurrentUnlessRecovered ==
    \A p \in Publishers :
        Claimed(p) /\ claim[p].event \notin recovered
           => claim[p].version = version[claim[p].event]

FenceInv ==
    /\ TypeOK
    /\ ClaimsKnowTheirRow
    /\ ClaimsDiffer
    /\ ClaimsCurrentUnlessRecovered
    /\ PublishedWasPublished

\* No publisher holds a claim when the process starts.
LEMMA FenceInit == Init => FenceInv
  BY DEF Init, FenceInv, TypeOK, Statuses, ClaimsKnowTheirRow, ClaimsDiffer,
     ClaimsCurrentUnlessRecovered, PublishedWasPublished, Claimed

\* A claim taken on a row that is due: nobody else holds the new version,
\* and unless it was recovered nobody else holds the row at all.
LEMMA FenceTakeClaim ==
    ASSUME FenceInv, TypeOK', NEW p \in Publishers, NEW e \in Events,
           claim[p] = NoClaim, status[e] \in {"pending", "failed"},
           TakeClaim(p, e), publications' = publications, recovered' = recovered
    PROVE  FenceInv'
<1> USE DEF FenceInv, TypeOK, TakeClaim, Claimed, Claims
<1>1. ClaimsKnowTheirRow'
  BY DEF ClaimsKnowTheirRow
<1>2. ClaimsDiffer'
  BY DEF ClaimsDiffer, ClaimsKnowTheirRow
<1>3. ClaimsCurrentUnlessRecovered'
  BY DEF ClaimsCurrentUnlessRecovered, ClaimsKnowTheirRow
<1>4. PublishedWasPublished'
  BY DEF PublishedWasPublished
<1>5. QED
  BY <1>1, <1>2, <1>3, <1>4

\* The holder of a row marks it and lets go of it.
LEMMA FenceMark ==
    ASSUME FenceInv, TypeOK', NEW p \in Publishers, claim[p] # NoClaim, HoldsRow(p),
           NEW s \in {"published", "failed"},
           s = "published" => publications[claim[p].event] > 0,
           status' = [status EXCEPT ![claim[p].event] = s],
           version' = [version EXCEPT ![claim[p].event] = @ + 1],
           claim' = [claim EXCEPT ![p] = NoClaim],
           publications' = publications, recovered' = recovered
    PROVE  FenceInv'
<1> USE DEF FenceInv, TypeOK, Claimed, Claims, HoldsRow
<1>1. ClaimsKnowTheirRow'
  BY DEF ClaimsKnowTheirRow, ClaimsDiffer
<1>2. ClaimsDiffer'
  BY DEF ClaimsDiffer
<1>3. ClaimsCurrentUnlessRecovered'
  BY DEF ClaimsCurrentUnlessRecovered, ClaimsDiffer
<1>4. PublishedWasPublished'
  BY DEF PublishedWasPublished
<1>5. QED
  BY <1>1, <1>2, <1>3, <1>4

\* A step that leaves the rows alone and only drops claims or moves their
\* phase on keeps the fence.
LEMMA FenceLocalStep ==
    ASSUME FenceInv, TypeOK', UNCHANGED <<status, version, recovered>>,
           \A e \in Events : publications'[e] >= publications[e],
           \A p \in Publishers : Claimed(p)' =>
              /\ Claimed(p)
              /\ claim'[p].event = claim[p].event
              /\ claim'[p].version = claim[p].version
              /\ claim'[p].phase = "resolved" =>
                    claim[p].phase = "resolved" \/ publications'[claim[p].event] > 0
    PROVE  FenceInv'
<1> USE DEF FenceInv, TypeOK, Claims
<1>1. ClaimsKnowTheirRow'
  BY DEF ClaimsKnowTheirRow, Claimed
<1>2. ClaimsDiffer'
  BY DEF ClaimsDiffer
<1>3. ClaimsCurrentUnlessRecovered'
  BY DEF ClaimsCurrentUnlessRecovered
<1>4. PublishedWasPublished'
  BY DEF PublishedWasPublished
<1>5. QED
  BY <1>1, <1>2, <1>3, <1>4

\* The new claim of a step, field by field.
LEMMA PhaseStep ==
    ASSUME TypeOK, NEW p \in Publishers, NEW ph, ph # "none", claim[p] # NoClaim,
           claim' = [claim EXCEPT ![p].phase = ph]
    PROVE  /\ claim'[p].phase = ph
           /\ claim'[p].event = claim[p].event
           /\ claim'[p].version = claim[p].version
           /\ Claimed(p)
           /\ \A q \in Publishers \ {p} : claim'[q] = claim[q]
  BY DEF TypeOK, Claims, NoClaim, Claimed

\* Every step of the outbox keeps the fence.
LEMMA FenceInductive == FenceInv /\ [Next]_vars => FenceInv'
<1> SUFFICES ASSUME FenceInv, [Next]_vars PROVE FenceInv'
  OBVIOUS
<1> TypeOK /\ TypeOK'
  BY TypeInductive DEF FenceInv
<1>1. CASE Tick
  BY <1>1, FenceLocalStep DEF Tick, Claimed, TypeOK
<1>2. ASSUME NEW e \in Events, Write(e) PROVE FenceInv'
  BY <1>2 DEF Write, FenceInv, TypeOK, Claimed, Claims, ClaimsKnowTheirRow, ClaimsDiffer,
     ClaimsCurrentUnlessRecovered, PublishedWasPublished
<1>3. ASSUME NEW e \in Events, RecoverInterrupted(e) PROVE FenceInv'
  BY <1>3 DEF RecoverInterrupted, FenceInv, TypeOK, Claimed, Claims, ClaimsKnowTheirRow,
     ClaimsDiffer, ClaimsCurrentUnlessRecovered, PublishedWasPublished
<1>4. ASSUME NEW p \in Publishers, PublishDue(p) PROVE FenceInv'
  BY <1>4, FenceLocalStep DEF PublishDue, Claimed, TypeOK, row
<1>5. ASSUME NEW p \in Publishers, ClaimCandidate(p) PROVE FenceInv'
  <2>1. PICK c \in batch[p] :
           \/ Claimable(c.event, c.version) /\ TakeClaim(p, c.event)
           \/ ~Claimable(c.event, c.version) /\ UNCHANGED <<row, claim>>
    BY <1>5 DEF ClaimCandidate
  <2>2. c.event \in Events
    BY DEF TypeOK, Candidates
  <2>3. CASE Claimable(c.event, c.version) /\ TakeClaim(p, c.event)
    BY <1>5, <2>2, <2>3, FenceTakeClaim DEF ClaimCandidate, Claimable
  <2>4. CASE UNCHANGED <<row, claim>>
    BY <1>5, <2>4, FenceLocalStep DEF ClaimCandidate, Claimed, TypeOK, row
  <2>5. QED
    BY <2>1, <2>3, <2>4
<1>6. ASSUME NEW p \in Publishers, NEW e \in Events, PublishExact(p, e) PROVE FenceInv'
  BY <1>6, FenceTakeClaim DEF PublishExact, Claimable, Idle
<1>7. ASSUME NEW p \in Publishers, PublishResolves(p) PROVE FenceInv'
  <2>1. claim[p] # NoClaim /\ claim[p].event \in Events
    BY <1>7 DEF PublishResolves, NoClaim, TypeOK, Claims
  <2>2. /\ \A e \in Events : publications'[e] >= publications[e]
        /\ publications'[claim[p].event] > 0
    BY <1>7, <2>1 DEF PublishResolves, TypeOK
  <2>3. QED
    BY <1>7, <2>1, <2>2, PhaseStep, FenceLocalStep DEF PublishResolves, Claimed, row
<1>8. ASSUME NEW p \in Publishers, PublishRejects(p) PROVE FenceInv'
  <2>1. claim[p] # NoClaim
    BY <1>8 DEF PublishRejects, NoClaim
  <2>2. \A e \in Events : publications'[e] >= publications[e]
    BY <1>8 DEF PublishRejects, TypeOK
  <2>3. QED
    BY <1>8, <2>1, <2>2, PhaseStep, FenceLocalStep DEF PublishRejects, Claimed, row
<1>9. ASSUME NEW p \in Publishers, MarkPublished(p) PROVE FenceInv'
  <2>1. claim[p] # NoClaim
    BY <1>9 DEF MarkPublished, NoClaim
  <2>2. publications[claim[p].event] > 0
    BY <1>9, <2>1 DEF MarkPublished, FenceInv, ClaimsKnowTheirRow, Claimed
  <2>3. QED
    BY <1>9, <2>1, <2>2, FenceMark DEF MarkPublished
<1>10. ASSUME NEW p \in Publishers, MarkPublishedThrows(p) PROVE FenceInv'
  <2>1. claim[p] # NoClaim
    BY <1>10 DEF MarkPublishedThrows, NoClaim
  <2>2. \A e \in Events : publications'[e] >= publications[e]
    BY <1>10 DEF MarkPublishedThrows, TypeOK
  <2>3. QED
    BY <1>10, <2>1, <2>2, PhaseStep, FenceLocalStep DEF MarkPublishedThrows, Claimed, row
<1>11. ASSUME NEW p \in Publishers, MarkFailed(p) PROVE FenceInv'
  <2>1. claim[p] # NoClaim
    BY <1>11 DEF MarkFailed, NoClaim
  <2>2. QED
    BY <1>11, <2>1, FenceMark DEF MarkFailed
<1>12. ASSUME NEW p \in Publishers, AbandonStaleClaim(p) PROVE FenceInv'
  BY <1>12, FenceLocalStep DEF AbandonStaleClaim, Claimed, TypeOK, row
<1>13. ASSUME NEW p \in Publishers, Crash(p) PROVE FenceInv'
  BY <1>13, FenceLocalStep DEF Crash, Claimed, TypeOK, row
<1>14. CASE UNCHANGED vars
  BY <1>14, FenceLocalStep DEF vars, Claimed, TypeOK
<1>15. QED
  BY <1>1, <1>2, <1>3, <1>4, <1>5, <1>6, <1>7, <1>8, <1>9, <1>10, <1>11,
     <1>12, <1>13, <1>14 DEF Next

\* The fence holds in every reachable state.
THEOREM FenceHolds == Spec => []FenceInv
  BY FenceInit, FenceInductive, PTL DEF Spec

\* A row reaches status 'published' only after publisher.publish resolved.
THEOREM PublishedOnlyAfterPublish == Spec => []PublishedWasPublished
<1>1. FenceInv => PublishedWasPublished
  BY DEF FenceInv
<1>2. QED
  BY <1>1, FenceHolds, PTL

\* No two publishers work on a row whose claims were never recovered.
THEOREM ExclusiveClaims == Spec => []ExclusiveUnlessRecovered
<1>1. FenceInv => ExclusiveUnlessRecovered
  BY DEF FenceInv, ClaimsCurrentUnlessRecovered, ClaimsDiffer, ExclusiveUnlessRecovered,
     Claimed
<1>2. QED
  BY <1>1, FenceHolds, PTL

----------------------------------------------------------------------------
\* Publishers whose publish() call for the row has not settled.
Unsettled(e) == {p \in Publishers : claim[p].phase = "publishing" /\ claim[p].event = e}

\* Every publication, done or still possible, has its own attempt.
AttemptsCover ==
    \A e \in Events : publications[e] + Cardinality(Unsettled(e)) <= attempts[e]

\* The open publications of a row can be counted: publishers are finite.
LEMMA UnsettledFinite ==
    ASSUME NEW e
    PROVE  IsFiniteSet(Unsettled(e)) /\ Cardinality(Unsettled(e)) \in Nat
<1>1. Unsettled(e) \subseteq Publishers
  BY DEF Unsettled
<1>2. QED
  BY <1>1, OutboxAssumption, FS_Subset, FS_CardinalityType

\* A step that opens no publication keeps the account.
LEMMA CoverSettlingStep ==
    ASSUME TypeOK, TypeOK', AttemptsCover,
           UNCHANGED <<attempts, publications>>,
           \A e \in Events : Unsettled(e)' \subseteq Unsettled(e)
    PROVE  AttemptsCover'
<1> SUFFICES ASSUME NEW e \in Events
             PROVE  publications'[e] + Cardinality(Unsettled(e)') <= attempts'[e]
  BY DEF AttemptsCover
<1>1. /\ IsFiniteSet(Unsettled(e)')
      /\ Cardinality(Unsettled(e)') \in Nat
      /\ Cardinality(Unsettled(e)') <= Cardinality(Unsettled(e))
  BY UnsettledFinite, FS_Subset, FS_CardinalityType
<1>2. QED
  BY <1>1, UnsettledFinite DEF AttemptsCover, TypeOK

\* A claim opens one publication and counts one attempt.
LEMMA CoverTakeClaim ==
    ASSUME TypeOK, TypeOK', AttemptsCover, NEW p \in Publishers, NEW c \in Events,
           claim[p] = NoClaim, TakeClaim(p, c), publications' = publications
    PROVE  AttemptsCover'
<1> SUFFICES ASSUME NEW e \in Events
             PROVE  publications'[e] + Cardinality(Unsettled(e)') <= attempts'[e]
  BY DEF AttemptsCover
<1>1. CASE e = c
  <2>1. /\ Unsettled(e)' = Unsettled(e) \cup {p}
        /\ p \notin Unsettled(e)
    BY <1>1 DEF Unsettled, TakeClaim, NoClaim, TypeOK
  <2>2. Cardinality(Unsettled(e)') = Cardinality(Unsettled(e)) + 1
    BY <2>1, UnsettledFinite, FS_AddElement
  <2>3. attempts'[e] = attempts[e] + 1
    BY <1>1 DEF TakeClaim, TypeOK
  <2>4. QED
    BY <2>2, <2>3, UnsettledFinite DEF AttemptsCover, TypeOK
<1>2. CASE e # c
  <2>1. Unsettled(e)' = Unsettled(e)
    BY <1>2 DEF Unsettled, TakeClaim, NoClaim, TypeOK
  <2>2. attempts'[e] = attempts[e]
    BY <1>2 DEF TakeClaim, TypeOK
  <2>3. QED
    BY <2>1, <2>2 DEF AttemptsCover
<1>3. QED
  BY <1>1, <1>2

\* A resolved publish() turns an open publication into a done one.
LEMMA CoverPublish ==
    ASSUME TypeOK, TypeOK', AttemptsCover, NEW p \in Publishers, PublishResolves(p)
    PROVE  AttemptsCover'
<1> DEFINE c == claim[p].event
<1>0. claim[p] # NoClaim /\ c \in Events
  BY DEF PublishResolves, NoClaim, TypeOK, Claims
<1>1. /\ claim'[p].phase = "resolved"
      /\ \A q \in Publishers \ {p} : claim'[q] = claim[q]
  BY <1>0, PhaseStep DEF PublishResolves
<1>2. \A e \in Events : Unsettled(e)' = Unsettled(e) \ {p}
  BY <1>1 DEF Unsettled
<1>3. p \in Unsettled(c)
  BY DEF Unsettled, PublishResolves
<1>4. Cardinality(Unsettled(c) \ {p}) = Cardinality(Unsettled(c)) - 1
  BY <1>3, UnsettledFinite, FS_RemoveElement
<1>5. attempts' = attempts /\ publications' = [publications EXCEPT ![c] = @ + 1]
  BY DEF PublishResolves, row
<1> SUFFICES ASSUME NEW e \in Events
             PROVE  publications'[e] + Cardinality(Unsettled(e)') <= attempts'[e]
  BY DEF AttemptsCover
<1>6. CASE e = c
  <2>1. Cardinality(Unsettled(e)') = Cardinality(Unsettled(e)) - 1
    BY <1>2, <1>4, <1>6
  <2>2. publications'[e] = publications[e] + 1
    BY <1>5, <1>6 DEF TypeOK
  <2>3. /\ publications[e] + Cardinality(Unsettled(e)) <= attempts[e]
        /\ publications[e] \in Nat /\ attempts[e] \in Nat
    BY DEF AttemptsCover, TypeOK
  <2>4. Cardinality(Unsettled(e)) \in Nat
    BY UnsettledFinite
  <2>5. QED
    BY <1>5, <2>1, <2>2, <2>3, <2>4
<1>7. CASE e # c
  <2>1. p \notin Unsettled(e)
    BY <1>7 DEF Unsettled
  <2>2. Unsettled(e)' = Unsettled(e)
    BY <1>2, <2>1
  <2>3. QED
    BY <1>5, <1>7, <2>2 DEF AttemptsCover, TypeOK
<1>8. QED
  BY <1>6, <1>7

\* Every step keeps the account of attempts and publications.
LEMMA CoverInductive == TypeOK /\ AttemptsCover /\ [Next]_vars => AttemptsCover'
<1> SUFFICES ASSUME TypeOK, AttemptsCover, [Next]_vars PROVE AttemptsCover'
  OBVIOUS
<1>0. TypeOK'
  BY TypeInductive
<1> USE <1>0
<1>1. CASE Tick
  BY <1>1, CoverSettlingStep DEF Tick, Unsettled
<1>2. ASSUME NEW e \in Events, Write(e) PROVE AttemptsCover'
  BY <1>2, CoverSettlingStep DEF Write, Unsettled
<1>3. ASSUME NEW e \in Events, RecoverInterrupted(e) PROVE AttemptsCover'
  BY <1>3, CoverSettlingStep DEF RecoverInterrupted, Unsettled
<1>4. ASSUME NEW p \in Publishers, PublishDue(p) PROVE AttemptsCover'
  BY <1>4, CoverSettlingStep DEF PublishDue, Unsettled, row
<1>5. ASSUME NEW p \in Publishers, ClaimCandidate(p) PROVE AttemptsCover'
  <2>1. PICK c \in batch[p] :
           \/ Claimable(c.event, c.version) /\ TakeClaim(p, c.event)
           \/ ~Claimable(c.event, c.version) /\ UNCHANGED <<row, claim>>
    BY <1>5 DEF ClaimCandidate
  <2>2. c.event \in Events
    BY DEF TypeOK, Candidates
  <2>3. CASE TakeClaim(p, c.event)
    BY <1>5, <2>2, <2>3, CoverTakeClaim DEF ClaimCandidate
  <2>4. CASE UNCHANGED <<row, claim>>
    BY <1>5, <2>4, CoverSettlingStep DEF ClaimCandidate, Unsettled, row
  <2>5. QED
    BY <2>1, <2>3, <2>4
<1>6. ASSUME NEW p \in Publishers, NEW e \in Events, PublishExact(p, e) PROVE AttemptsCover'
  BY <1>6, CoverTakeClaim DEF PublishExact, Idle
<1>7. ASSUME NEW p \in Publishers, PublishResolves(p) PROVE AttemptsCover'
  BY <1>7, CoverPublish
<1>8. ASSUME NEW p \in Publishers, PublishRejects(p) \/ MarkPublishedThrows(p)
      PROVE  AttemptsCover'
  <2>1. claim[p] # NoClaim /\ claim' = [claim EXCEPT ![p].phase = "error"]
    BY <1>8 DEF PublishRejects, MarkPublishedThrows, NoClaim
  <2>2. /\ claim'[p].phase = "error"
        /\ \A q \in Publishers \ {p} : claim'[q] = claim[q]
    BY <2>1, PhaseStep
  <2>3. \A e \in Events : Unsettled(e)' \subseteq Unsettled(e)
    BY <2>2 DEF Unsettled
  <2>4. QED
    BY <1>8, <2>3, CoverSettlingStep DEF PublishRejects, MarkPublishedThrows, row
<1>9. ASSUME NEW p \in Publishers,
             MarkPublished(p) \/ MarkFailed(p) \/ AbandonStaleClaim(p) \/ Crash(p)
      PROVE  AttemptsCover'
  <2>1. claim' = [claim EXCEPT ![p] = NoClaim] /\ UNCHANGED <<attempts, publications>>
    BY <1>9 DEF MarkPublished, MarkFailed, AbandonStaleClaim, Crash, row
  <2>2. \A e \in Events : Unsettled(e)' \subseteq Unsettled(e)
    BY <2>1 DEF Unsettled, TypeOK, NoClaim
  <2>3. QED
    BY <2>1, <2>2, CoverSettlingStep
<1>10. CASE UNCHANGED vars
  BY <1>10, CoverSettlingStep DEF vars, Unsettled
<1>11. QED
  BY <1>1, <1>2, <1>3, <1>4, <1>5, <1>6, <1>7, <1>8, <1>9, <1>10 DEF Next

\* attempt_count bounds how often a row was emitted: a claim is committed
\* before publish() is called, so no crash or recovery loses the count.
THEOREM PublicationsBounded == Spec => []PublicationsWithinAttempts
<1>1. Init => AttemptsCover
  <2> SUFFICES ASSUME Init, NEW e \in Events
               PROVE  publications[e] + Cardinality(Unsettled(e)) <= attempts[e]
    BY DEF AttemptsCover
  <2>1. Unsettled(e) = {}
    BY DEF Init, Unsettled, NoClaim
  <2>2. QED
    BY <2>1, FS_EmptySet DEF Init
<1>2. TypeOK /\ AttemptsCover => PublicationsWithinAttempts
  BY UnsettledFinite DEF AttemptsCover, PublicationsWithinAttempts, TypeOK
<1>3. QED
  BY <1>1, <1>2, TypeCorrect, CoverInductive, PTL DEF Spec

----------------------------------------------------------------------------
\* Once published, a row keeps its status, version and attempt count.
THEOREM PublishedRowsFinal == Spec => PublishedIsFinal
<1>1. FenceInv /\ [Next]_vars =>
         [\A e \in Events : status[e] = "published" =>
             /\ status'[e] = "published"
             /\ version'[e] = version[e]
             /\ attempts'[e] = attempts[e]]_vars
  <2> SUFFICES ASSUME FenceInv, Next, NEW e \in Events, status[e] = "published"
               PROVE  /\ status'[e] = "published"
                      /\ version'[e] = version[e]
                      /\ attempts'[e] = attempts[e]
    OBVIOUS
  <2> USE DEF FenceInv, TypeOK, row
  <2>1. ASSUME NEW p \in Publishers, NEW c \in Events, TakeClaim(p, c),
               status[c] \in {"pending", "failed"}
        PROVE  UNCHANGED <<status[e], version[e], attempts[e]>>
    BY <2>1 DEF TakeClaim
  <2>2. CASE \E p \in Publishers : ClaimCandidate(p)
    <3>1. PICK p \in Publishers : ClaimCandidate(p)
      BY <2>2
    <3>2. PICK c \in batch[p] :
             \/ Claimable(c.event, c.version) /\ TakeClaim(p, c.event)
             \/ ~Claimable(c.event, c.version) /\ UNCHANGED <<row, claim>>
      BY <3>1 DEF ClaimCandidate
    <3>3. c.event \in Events
      BY DEF Candidates
    <3>4. QED
      BY <2>1, <3>2, <3>3 DEF Claimable
  <2>3. CASE \E p \in Publishers, c \in Events : PublishExact(p, c)
    BY <2>1, <2>3 DEF PublishExact, Claimable
  <2>4. CASE \E p \in Publishers : MarkPublished(p) \/ MarkFailed(p)
    <3>1. PICK p \in Publishers : MarkPublished(p) \/ MarkFailed(p)
      BY <2>4
    <3>2. claim[p].event # e
      BY <3>1 DEF MarkPublished, MarkFailed, HoldsRow
    <3>3. QED
      BY <3>1, <3>2 DEF MarkPublished, MarkFailed
  <2>5. CASE \E c \in Events : Write(c) \/ RecoverInterrupted(c)
    BY <2>5 DEF Write, RecoverInterrupted
  <2>6. CASE UNCHANGED <<status, version, attempts>>
    BY <2>6
  <2>7. QED
    BY <2>2, <2>3, <2>4, <2>5, <2>6 DEF Next, Tick, PublishDue, PublishResolves,
       PublishRejects, MarkPublishedThrows, AbandonStaleClaim, Crash
<1>2. QED
  BY <1>1, FenceHolds, PTL DEF Spec, PublishedIsFinal

\* Only the most recent claimant of a row can mark it.
THEOREM LatestClaimantWrites == Spec => OnlyLatestClaimantWrites
<1>1. FenceInv /\ [Next]_vars =>
         [\A p \in Publishers :
             /\ claim[p] # NoClaim
             /\ claim'[p] = NoClaim
             /\ version'[claim[p].event] # version[claim[p].event]
             => \A q \in Publishers \ {p} :
                   claim[q] # NoClaim /\ claim[q].event = claim[p].event
                      => claim[q].version < claim[p].version]_vars
  <2> SUFFICES ASSUME FenceInv, Next, NEW p \in Publishers, claim[p] # NoClaim,
                      claim'[p] = NoClaim,
                      version'[claim[p].event] # version[claim[p].event],
                      NEW q \in Publishers \ {p}, claim[q] # NoClaim,
                      claim[q].event = claim[p].event
               PROVE  claim[q].version < claim[p].version
    OBVIOUS
  <2> USE DEF FenceInv, TypeOK
  <2>1. \A r \in Publishers, e \in Events : TakeClaim(r, e) => claim'[p] # NoClaim
    BY DEF TakeClaim, NoClaim
  <2>2. MarkPublished(p) \/ MarkFailed(p)
    <3>1. ~ \E r \in Publishers : ClaimCandidate(r) \/ \E e \in Events : PublishExact(r, e)
      BY <2>1 DEF ClaimCandidate, PublishExact, Candidates, row
    <3>2. ~ \E e \in Events : Write(e) \/ RecoverInterrupted(e)
      BY DEF Write, RecoverInterrupted
    <3>3. PICK r \in Publishers : MarkPublished(r) \/ MarkFailed(r)
      BY <3>1, <3>2 DEF Next, Tick, PublishDue, PublishResolves, PublishRejects,
         MarkPublishedThrows, AbandonStaleClaim, Crash, row
    <3>4. r = p
      BY <3>3 DEF MarkPublished, MarkFailed
    <3>5. QED
      BY <3>3, <3>4
  <2>3. version[claim[p].event] = claim[p].version
    BY <2>2 DEF MarkPublished, MarkFailed, HoldsRow
  <2>4. Claimed(p) /\ Claimed(q) /\ claim[p] \in Claims /\ claim[q] \in Claims
    BY DEF Claimed
  <2>5. claim[q].version <= version[claim[q].event]
    BY <2>4 DEF ClaimsKnowTheirRow
  <2>6. claim[q].version # claim[p].version
    BY <2>4 DEF ClaimsDiffer
  <2>7. claim[p].version \in Nat /\ claim[q].version \in Nat
    BY <2>4 DEF Claims
  <2>8. QED
    BY <2>3, <2>5, <2>6, <2>7
<1>2. QED
  BY <1>1, FenceHolds, PTL DEF Spec, OnlyLatestClaimantWrites

----------------------------------------------------------------------------
\* The refinement.

Waits(e) == status[e] \in {"pending", "publishing", "failed"}

LEMMA StageForms ==
    ASSUME NEW e
    PROVE  /\ status[e] = "absent" => StageOf(e) = "absent"
           /\ Waits(e) => StageOf(e) = "waiting"
           /\ status[e] = "published" => StageOf(e) = "delivered"
  BY DEF StageOf, Waits

\* What a step may do to a row.
Untouched(e) ==
    /\ UNCHANGED <<attempts[e], publications[e]>>
    /\ UNCHANGED status[e] \/ (Waits(e) /\ Waits(e)')

Written(e) ==
    status[e] = "absent" /\ status'[e] = "pending" /\ UNCHANGED <<attempts[e], publications[e]>>

Tried(e) ==
    Waits(e) /\ Waits(e)' /\ attempts'[e] = attempts[e] + 1 /\ UNCHANGED publications[e]

Emitted(e) ==
    /\ status[e] # "absent" /\ publications'[e] = publications[e] + 1
    /\ UNCHANGED <<status[e], attempts[e]>>

Settled(e) ==
    /\ Waits(e) /\ status'[e] = "published" /\ publications[e] > 0
    /\ UNCHANGED <<attempts[e], publications[e]>>

RowMoves(e) == Untouched(e) \/ Written(e) \/ Tried(e) \/ Emitted(e) \/ Settled(e)

LEMMA TakeClaimTries ==
    ASSUME TypeOK, NEW p, NEW c \in Events, Claimable(c, version[c]), TakeClaim(p, c),
           UNCHANGED publications, NEW e \in Events
    PROVE  RowMoves(e)
<1>1. CASE e = c
  BY <1>1 DEF RowMoves, Tried, Waits, TakeClaim, Claimable, TypeOK
<1>2. CASE e # c
  BY <1>2 DEF RowMoves, Untouched, TakeClaim, TypeOK
<1>3. QED
  BY <1>1, <1>2

LEMMA RowsMove ==
    ASSUME FenceInv, [Next]_vars, NEW e \in Events
    PROVE  RowMoves(e)
<1> USE DEF RowMoves
<1>0. TypeOK
  BY DEF FenceInv
<1>1. ASSUME UNCHANGED <<status, attempts, publications>> PROVE RowMoves(e)
  BY <1>1 DEF Untouched
<1>2. CASE Tick \/ UNCHANGED vars
  BY <1>1, <1>2 DEF Tick, vars
<1>3. ASSUME NEW c \in Events, Write(c) PROVE RowMoves(e)
  BY <1>0, <1>3 DEF Write, Written, Untouched, TypeOK
<1>4. ASSUME NEW c \in Events, RecoverInterrupted(c) PROVE RowMoves(e)
  BY <1>0, <1>4 DEF RecoverInterrupted, Untouched, Waits, TypeOK
<1>5. ASSUME NEW p \in Publishers, ClaimCandidate(p) PROVE RowMoves(e)
  <2>1. PICK c \in batch[p] :
           \/ Claimable(c.event, c.version) /\ TakeClaim(p, c.event)
           \/ ~Claimable(c.event, c.version) /\ UNCHANGED <<row, claim>>
    BY <1>5 DEF ClaimCandidate
  <2>2. c.event \in Events
    BY <1>0 DEF TypeOK, Candidates
  <2>3. UNCHANGED publications
    BY <1>5 DEF ClaimCandidate
  <2>4. Claimable(c.event, c.version) => Claimable(c.event, version[c.event])
    BY DEF Claimable
  <2>5. QED
    BY <1>0, <1>1, <2>1, <2>2, <2>3, <2>4, TakeClaimTries DEF row
<1>6. ASSUME NEW p \in Publishers, NEW c \in Events, PublishExact(p, c) PROVE RowMoves(e)
  BY <1>0, <1>6, TakeClaimTries DEF PublishExact
<1>7. ASSUME NEW p \in Publishers, PublishResolves(p) PROVE RowMoves(e)
  <2>1. /\ claim[p] # NoClaim /\ claim[p].event \in Events
        /\ publications' = [publications EXCEPT ![claim[p].event] = @ + 1]
        /\ UNCHANGED <<status, attempts>>
    BY <1>0, <1>7 DEF PublishResolves, NoClaim, TypeOK, Claims, row
  <2>2. status[claim[p].event] # "absent"
    BY <2>1 DEF FenceInv, ClaimsKnowTheirRow, Claimed
  <2>3. CASE e = claim[p].event
    BY <1>0, <2>1, <2>2, <2>3 DEF Emitted, TypeOK
  <2>4. CASE e # claim[p].event
    BY <1>0, <2>1, <2>4 DEF Untouched, TypeOK
  <2>5. QED
    BY <2>3, <2>4
<1>8. ASSUME NEW p \in Publishers, MarkPublished(p) PROVE RowMoves(e)
  <2>1. /\ claim[p] # NoClaim /\ claim[p].event \in Events
        /\ status' = [status EXCEPT ![claim[p].event] = "published"]
        /\ UNCHANGED <<attempts, publications>> /\ Waits(claim[p].event)
    BY <1>0, <1>8 DEF MarkPublished, NoClaim, TypeOK, Claims, HoldsRow, Waits
  <2>2. publications[claim[p].event] > 0
    BY <1>8, <2>1 DEF MarkPublished, FenceInv, ClaimsKnowTheirRow, Claimed
  <2>3. CASE e = claim[p].event
    BY <1>0, <2>1, <2>2, <2>3 DEF Settled, TypeOK
  <2>4. CASE e # claim[p].event
    BY <1>0, <2>1, <2>4 DEF Untouched, TypeOK
  <2>5. QED
    BY <2>3, <2>4
<1>9. ASSUME NEW p \in Publishers, MarkFailed(p) PROVE RowMoves(e)
  BY <1>0, <1>9 DEF MarkFailed, HoldsRow, Untouched, Waits, TypeOK
<1>10. ASSUME NEW p \in Publishers,
              \/ PublishDue(p) \/ PublishRejects(p) \/ MarkPublishedThrows(p)
              \/ AbandonStaleClaim(p) \/ Crash(p)
       PROVE  RowMoves(e)
  BY <1>1, <1>10 DEF PublishDue, PublishRejects, MarkPublishedThrows, AbandonStaleClaim, Crash, row
<1>11. QED
  BY <1>2, <1>3, <1>4, <1>5, <1>6, <1>7, <1>8, <1>9, <1>10 DEF Next

\* Whatever publishers race, stall, fail or crash, and whenever claims are
\* recovered, the outbox implements delivery at least once: a row is settled
\* once, after a publication, and no publication lacks a claim of its own.
THEOREM OutboxDelivers == Spec => ImplementsDelivery
<1>1. Init => Delivery!Init
  BY StageForms DEF Init, Delivery!Init
<1>2. ASSUME FenceInv, PublicationsWithinAttempts', TypeOK', [Next]_vars
      PROVE  [Delivery!Next]_(Delivery!vars)
  <2> DEFINE stage == [e \in Events |-> StageOf(e)]
  <2>1. ASSUME NEW e \in Events
        PROVE  \/ Delivery!Put(e) \/ Delivery!Try(e) \/ Delivery!Copy(e)
               \/ Delivery!Deliver(e) \/ Delivery!Rest(e)
    <3>1. /\ stage[e] = StageOf(e) /\ stage'[e] = StageOf(e)'
          /\ status[e] = status'[e] => StageOf(e) = StageOf(e)'
      BY DEF StageOf
    <3> HIDE DEF stage
    <3>2. /\ Waits(e) => StageOf(e) = "waiting"
          /\ Waits(e)' => StageOf(e)' = "waiting"
          /\ status[e] = "absent" => StageOf(e) = "absent"
          /\ status[e] # "absent" => StageOf(e) # "absent"
          /\ status'[e] = "pending" => StageOf(e)' = "waiting"
          /\ status'[e] = "published" => StageOf(e)' = "delivered"
      BY <1>2 DEF StageOf, Waits, FenceInv, TypeOK, Statuses
    <3>3. /\ publications'[e] <= attempts'[e]
          /\ publications[e] \in Nat /\ attempts[e] \in Nat
      BY <1>2 DEF PublicationsWithinAttempts, FenceInv, TypeOK
    <3>4. RowMoves(e)
      BY <1>2, RowsMove
    <3>5. CASE Untouched(e)
      BY <3>1, <3>2, <3>5 DEF Untouched, Delivery!Rest, stage
    <3>6. CASE Written(e)
      BY <3>1, <3>2, <3>6 DEF Written, Delivery!Put, stage
    <3>7. CASE Tried(e)
      BY <3>1, <3>2, <3>7 DEF Tried, Delivery!Try, stage
    <3>8. CASE Emitted(e)
      BY <3>1, <3>2, <3>3, <3>8 DEF Emitted, Delivery!Copy, Delivery!HandOver, stage
    <3>9. CASE Settled(e)
      BY <3>1, <3>2, <3>9 DEF Settled, Delivery!Deliver, stage
    <3>10. QED
      BY <3>4, <3>5, <3>6, <3>7, <3>8, <3>9 DEF RowMoves
  <2>2. /\ stage' = [e \in Events |-> stage'[e]]
        /\ attempts' = [e \in Events |-> attempts'[e]]
        /\ publications' = [e \in Events |-> publications'[e]]
    BY <1>2 DEF TypeOK
  <2>3. QED
    BY <2>1, <2>2 DEF Delivery!Next
<1>3. FenceInv => TypeOK
  BY DEF FenceInv
<1>4. QED
  BY <1>1, <1>2, <1>3, FenceHolds, PublicationsBounded, PTL
     DEF Spec, ImplementsDelivery, Delivery!Spec
=============================================================================
