------------------------ MODULE WeeklyAuctionProofs ------------------------
(***************************************************************************)
(* Theorems about WeeklyAuction, for every number of teams, bids, offers   *)
(* and runners: what the winner pays, that raising a winning bid is free,  *)
(* what the resolution job may write, and the refinement of SealedAuction. *)
(***************************************************************************)
EXTENDS WeeklyAuction, AuctionOffersProofs

----------------------------------------------------------------------------
\* Bids.

LEMMA BidFacts ==
  ASSUME TypeOK, NEW b \in BidIds, bids[b] # NoBid
  PROVE  /\ bids[b] \in Bid
         /\ bids[b].status \in BidStatuses /\ bids[b].team \in Teams
         /\ bids[b].offer \in Offers /\ bids[b].firstAt \in Nat
         /\ bids[b].lastEdit \in Nat /\ bids[b].edits \in Nat
         /\ bids[b].authority \in Authorities /\ bids[b].actor \in Teams \cup {NoTeam}
         /\ bids[b].starting \in BOOLEAN
BY DEF TypeOK, Bid

LEMMA ActiveIsBid ==
  ASSUME NEW b \in BidIds, ActiveBid(b)
  PROVE  bids[b] # NoBid
BY DEF ActiveBid, NoBid

LEMMA OffersAreOffers == Offers \subseteq Offer
BY AuctionAssumption

\* The eligible bids are a field in the sense of AuctionOffersProofs.
LEMMA EligibleField ==
  ASSUME TypeOK
  PROVE  Field(EligibleEntries)
<1>1. ASSUME NEW b \in EligibleBids
      PROVE  /\ EntryOf(b) \in Entry /\ EntryOf(b).id = b
             /\ EntryOf(b).offer \in Offers
  <2>1. b \in BidIds /\ bids[b] # NoBid
    BY ActiveIsBid DEF EligibleBids
  <2>2. bids[b].offer \in Offers /\ bids[b].firstAt \in Nat /\ b \in Nat
    BY <2>1, BidFacts, AuctionAssumption
  <2>3. QED
    BY <2>2, OffersAreOffers DEF EntryOf, Entry
<1>2. PICK top \in Offers : \A o \in Offers : o.aav <= top.aav
  BY AuctionAssumption
<1>3. top.aav \in Nat
  BY <1>2, OffersAreOffers DEF Offer
<1>4. QED
  BY <1>1, <1>2, <1>3 DEF Field, EligibleEntries

LEMMA OffersOfTyped ==
  ASSUME TypeOK, NEW b \in BidIds, bids[b] # NoBid
  PROVE  OffersOf(b) \in SUBSET Offers /\ bids[b].offer \in OffersOf(b)
<1>1. bids[b].offer \in Offers
  BY BidFacts
<1>2. \A h \in history : h.offer \in Offers
  BY DEF TypeOK, Event
<1>3. QED
  BY <1>1, <1>2 DEF OffersOf

\* The winning bid is eligible and its entry leads the others.
LEMMA WinnerFacts ==
  ASSUME TypeOK, EligibleBids # {}
  PROVE  /\ WinningBid \in EligibleBids /\ WinningBid \in BidIds
         /\ bids[WinningBid] # NoBid
         /\ Leader(EligibleEntries) = EntryOf(WinningBid)
         /\ EligibleEntries # {}
<1>1. EligibleEntries # {} /\ Leader(EligibleEntries) \in EligibleEntries
  <2>1. EligibleEntries # {}
    BY DEF EligibleEntries
  <2>2. QED
    BY <2>1, EligibleField, LeaderLeads
<1>2. PICK b \in EligibleBids : Leader(EligibleEntries) = EntryOf(b)
  BY <1>1 DEF EligibleEntries
<1>3. WinningBid = b
  BY <1>2 DEF WinningBid, EntryOf
<1>4. QED
  BY <1>1, <1>2, <1>3, ActiveIsBid DEF EligibleBids

Price == PricedOffer(EligibleEntries, OffersOf(WinningBid))

\* What the winner pays, as the settling transaction computes it.
LEMMA PriceFacts ==
  ASSUME TypeOK, EligibleBids # {}
  PROVE  /\ Price \in OffersOf(WinningBid)
         /\ \A c \in EligibleBids \ {WinningBid} :
               RanksAhead(Reoffered(EntryOf(WinningBid), Price), EntryOf(c))
         /\ \A o \in OffersOf(WinningBid) :
               /\ o.aav <= bids[WinningBid].offer.aav
               /\ \A c \in EligibleBids \ {WinningBid} :
                     RanksAhead(Reoffered(EntryOf(WinningBid), o), EntryOf(c))
               => CheaperOrEqual(Price, o)
<1> DEFINE E == EligibleEntries
           w == WinningBid
           rest == E \ {EntryOf(w)}
<1>1. /\ w \in EligibleBids /\ w \in BidIds /\ bids[w] # NoBid
      /\ Leader(E) = EntryOf(w) /\ E # {} /\ Field(E)
  BY WinnerFacts, EligibleField
<1>2. OffersOf(w) \in SUBSET Offer /\ Leader(E).offer \in OffersOf(w)
  BY <1>1, OffersOfTyped, OffersAreOffers DEF EntryOf
<1>3. /\ Price \in WinningOffers(E, OffersOf(w))
      /\ \A o \in WinningOffers(E, OffersOf(w)) : CheaperOrEqual(Price, o)
  BY <1>1, <1>2, PriceIsLowest DEF Price
<1>4. Price \in OffersOf(w)
  BY <1>3 DEF WinningOffers
<1>5. ASSUME NEW c \in EligibleBids \ {w} PROVE EntryOf(c) \in rest
  BY <1>5 DEF EligibleEntries, EntryOf
<1>6. ASSUME NEW c \in EligibleBids \ {w}
      PROVE  RanksAhead(Reoffered(EntryOf(w), Price), EntryOf(c))
  BY <1>1, <1>2, <1>3, <1>5, PriceBeatsField
<1>7. ASSUME NEW o \in OffersOf(w), o.aav <= bids[w].offer.aav,
             \A c \in EligibleBids \ {w} : RanksAhead(Reoffered(EntryOf(w), o), EntryOf(c))
      PROVE  CheaperOrEqual(Price, o)
  <2>1. rest # {} => Leader(rest) \in rest
    BY <1>1, FieldShrinks, LeaderLeads
  <2>2. \A x \in rest : \E c \in EligibleBids \ {w} : x = EntryOf(c)
    BY DEF EligibleEntries
  <2>3. rest # {} => RanksAhead(Reoffered(EntryOf(w), o), Leader(rest))
    BY <1>7, <2>1, <2>2
  <2>4. EntryOf(w).offer = bids[w].offer
    BY DEF EntryOf
  <2>5. o \in WinningOffers(E, OffersOf(w))
    BY <1>1, <1>7, <2>3, <2>4 DEF WinningOffers
  <2>6. QED
    BY <1>3, <2>5
<1>8. QED
  BY <1>4, <1>6, <1>7

----------------------------------------------------------------------------
\* Types.

LEMMA RunFacts ==
  ASSUME TypeOK, NEW r \in Runners, run[r] # Idle
  PROVE  /\ run[r] \in Run /\ run[r].due \in Times /\ run[r].auctionVersion \in Nat
         /\ run[r].pc = "listed" => run[r].at \in Nat
         /\ run[r].pc # "listed" => /\ run[r].pc \in {"claimed", "completed", "failing"}
                                    /\ run[r].runVersion \in Nat
BY DEF TypeOK, Run

LEMMA JobFacts ==
  ASSUME TypeOK, NEW d \in Times, jobs[d] # NoJob
  PROVE  /\ jobs[d] \in Job /\ jobs[d].version \in Nat
         /\ jobs[d].status \in {"pending", "succeeded", "failed", "leased"}
BY DEF TypeOK, Job

LEMMA TypeInductive == TypeOK /\ [Next]_vars => TypeOK'
<1> SUFFICES ASSUME TypeOK, [Next]_vars PROVE TypeOK'
  OBVIOUS
<1> USE DEF world, auction, outcome, job, bounds
<1>1. CASE UNCHANGED vars
  BY <1>1 DEF TypeOK, vars
<1>2. CASE Tick
  BY <1>2, AuctionAssumption DEF Tick, TypeOK, Times
<1>3. ASSUME NEW t \in Teams, NEW o \in Offers, NEW b \in BidIds, NEW a \in Authorities,
             Start(t, o, b, a)
      PROVE  TypeOK'
  <2>1. ActorOf(t, a) \in Teams \cup {NoTeam}
    BY DEF ActorOf, Authorities, TypeOK
  <2>2. now \in Nat
    BY AuctionAssumption DEF TypeOK, Times
  <2>3. NewBid(t, o, a, ActorOf(t, a), TRUE) \in Bid
    BY <2>1, <2>2 DEF NewBid, Bid, BidStatuses
  <2>4. Accepted(b, t, o, "submitted") \in Event
    BY <2>2 DEF Accepted, Event
  <2>5. QED
    BY <1>3, <2>2, <2>3, <2>4, AuctionAssumption DEF Start, TypeOK
<1>4. ASSUME NEW t \in Teams, NEW o \in Offers, NEW b \in BidIds, SubmitBid(t, o, b)
      PROVE  TypeOK'
  <2>1. now \in Nat
    BY AuctionAssumption DEF TypeOK, Times
  <2>2. NewBid(t, o, "manager", t, FALSE) \in Bid
    BY <2>1 DEF NewBid, Bid, BidStatuses, Authorities
  <2>3. Accepted(b, t, o, "submitted") \in Event
    BY <2>1 DEF Accepted, Event
  <2>4. QED
    BY <1>4, <2>2, <2>3 DEF SubmitBid, TypeOK
<1>5. ASSUME NEW o \in Offers, NEW b \in BidIds, EditBid(b, o) PROVE TypeOK'
  <2>1. now \in Nat
    BY AuctionAssumption DEF TypeOK, Times
  <2>2. bids[b] \in Bid /\ bids[b].edits \in Nat /\ bids[b].team \in Teams
    BY <1>5, ActiveIsBid, BidFacts DEF EditBid
  <2>3. Edited(b, o) \in Bid
    <3>1. bids[b].edits + 1 \in Nat
      BY <2>2
    <3>2. QED
      BY <2>1, <2>2, <3>1 DEF Edited, Bid
  <2>4. Accepted(b, bids[b].team, o, "edited") \in Event
    BY <2>1, <2>2 DEF Accepted, Event
  <2>5. QED
    BY <1>5, <2>3, <2>4 DEF EditBid, TypeOK
<1>6. ASSUME NEW o \in Offers, NEW b \in BidIds, CommissionerEdits(b, o) PROVE TypeOK'
  <2>1. now \in Nat
    BY AuctionAssumption DEF TypeOK, Times
  <2>2. bids[b] \in Bid /\ bids[b].team \in Teams
    BY <1>6, ActiveIsBid, BidFacts DEF CommissionerEdits
  <2>3. [bids[b] EXCEPT !.offer = o, !.lastEdit = now] \in Bid
    BY <2>1, <2>2 DEF Bid
  <2>4. Accepted(b, bids[b].team, o, "administered") \in Event
    BY <2>1, <2>2 DEF Accepted, Event
  <2>5. bids' = [bids EXCEPT ![b] = [bids[b] EXCEPT !.offer = o, !.lastEdit = now]]
    BY <1>6, <2>2 DEF CommissionerEdits, TypeOK
  <2>6. QED
    BY <1>6, <2>3, <2>4, <2>5 DEF CommissionerEdits, Intervene, TypeOK
<1>7. ASSUME NEW b \in BidIds, CommissionerRemoves(b) PROVE TypeOK'
  <2>1. now \in Nat
    BY AuctionAssumption DEF TypeOK, Times
  <2>2. bids[b] \in Bid
    BY <1>7, ActiveIsBid, BidFacts DEF CommissionerRemoves
  <2>3. [bids[b] EXCEPT !.status = "withdrawn", !.lastEdit = now] \in Bid
    BY <2>1, <2>2 DEF Bid, BidStatuses
  <2>4. bids' = [bids EXCEPT ![b] = [bids[b] EXCEPT !.status = "withdrawn", !.lastEdit = now]]
    BY <1>7 DEF CommissionerRemoves, TypeOK
  <2>5. QED
    BY <1>7, <2>3, <2>4 DEF CommissionerRemoves, Intervene, TypeOK
<1>8. CASE CommissionerCancels
  <2>1. CancelledBids \in [BidIds -> Bid \cup {NoBid}]
    <3>1. ASSUME NEW b \in BidIds, ActiveBid(b) PROVE WithStatus(bids[b], "cancelled") \in Bid
      BY <3>1, ActiveIsBid, BidFacts DEF WithStatus, Bid, BidStatuses
    <3>2. QED
      BY <3>1 DEF CancelledBids, TypeOK
  <2>2. QED
    BY <1>8, <2>1 DEF CommissionerCancels, Intervene, TypeOK, Outcomes
<1>9. ASSUME NEW c \in Times, ChangeTiming(c) PROVE TypeOK'
  BY <1>9, AuctionAssumption DEF ChangeTiming, Intervene, TypeOK, Times
<1>10. CASE RequestResolution
  <2>1. resolvesAt \in Times
    BY <1>10, AuctionAssumption DEF RequestResolution, TypeOK, Times
  <2>2. jobs[resolvesAt].status = "failed" => jobs[resolvesAt].version \in Nat
    BY <2>1, JobFacts DEF NoJob
  <2>3. jobs' \in [Times -> Job \cup {NoJob}]
    BY <1>10, <2>1, <2>2 DEF RequestResolution, TypeOK, Job
  <2>4. QED
    BY <1>10, <2>3 DEF RequestResolution, Intervene, TypeOK
<1>11. ASSUME NEW u \in Teams \cup {NoTeam}, ReassignCommissioner(u) PROVE TypeOK'
  BY <1>11 DEF ReassignCommissioner, Intervene, TypeOK
<1>12. CASE PauseLeague
  BY <1>12 DEF PauseLeague, Intervene, TypeOK
<1>13. CASE ResumeLeague
  BY <1>13 DEF ResumeLeague, TypeOK
<1>14. CASE PlayerLeavesPool
  <2>1. available' \in BOOLEAN
    BY <1>14, Zenon DEF PlayerLeavesPool
  <2>2. QED
    BY <1>14, <2>1 DEF PlayerLeavesPool, Intervene, TypeOK
<1>15. ASSUME NEW r \in Runners, ListDue(r) PROVE TypeOK'
  <2>1. DueAt \in Times
    BY <1>15, AuctionAssumption DEF ListDue, IsDue, DueAt, TypeOK, Times
  <2>2. now \in Nat
    BY AuctionAssumption DEF TypeOK, Times
  <2>3. [pc |-> "listed", due |-> DueAt, auctionVersion |-> version, at |-> now] \in Run
    BY <2>1, <2>2 DEF Run, TypeOK
  <2>4. QED
    BY <1>15, <2>3 DEF ListDue, TypeOK
<1>16. ASSUME NEW r \in Runners, ClaimRun(r) PROVE TypeOK'
  <2> DEFINE d == run[r].due
             v == IF jobs[d] = NoJob THEN 1 ELSE jobs[d].version + 1
  <2>1. d \in Times /\ run[r].at \in Nat /\ run[r].auctionVersion \in Nat
    BY <1>16, RunFacts DEF ClaimRun, Idle
  <2>2. v \in Nat
    BY <2>1, JobFacts
  <2>3. [status |-> "leased", version |-> v, owner |-> r,
         expires |-> run[r].at + LeaseDuration] \in Job
    BY <2>1, <2>2, AuctionAssumption DEF Job
  <2>4. [pc |-> "claimed", due |-> d, runVersion |-> v,
         auctionVersion |-> run[r].auctionVersion] \in Run
    BY <2>1, <2>2 DEF Run
  <2>5. QED
    BY <1>16, <2>1, <2>3, <2>4 DEF ClaimRun, TypeOK
<1>17. ASSUME NEW r \in Runners, SkipRun(r) \/ CompletionConflicts(r) PROVE TypeOK'
  BY <1>17 DEF SkipRun, CompletionConflicts, TypeOK
<1>18. ASSUME NEW r \in Runners, NEW pc \in {"completed", "failing"},
              run[r].pc \in {"claimed", "completed"}
       PROVE  Step(r, pc) \in [Runners -> Run \cup {Idle}]
  <2>1. run[r] \in Run /\ run[r].pc # "listed"
    BY <1>18, RunFacts DEF Idle
  <2>2. [run[r] EXCEPT !.pc = pc] \in Run
    BY <2>1 DEF Run
  <2>3. QED
    BY <2>2 DEF Step, TypeOK
<1>19. ASSUME NEW r \in Runners, CompletionReplays(r) PROVE TypeOK'
  BY <1>18, <1>19 DEF CompletionReplays, TypeOK
<1>20. ASSUME NEW r \in Runners, CompletionIncomplete(r) PROVE TypeOK'
  BY <1>18, <1>20 DEF CompletionIncomplete, ReadyToSettle, TypeOK
<1>21. ASSUME NEW r \in Runners, Settle(r) PROVE TypeOK'
  <2>1. run[r].pc = "claimed" /\ run[r].due \in Nat
    BY <1>21, RunFacts, AuctionAssumption DEF Settle, ReadyToSettle, Idle, Times
  <2>2. SettledBids \in [BidIds -> Bid \cup {NoBid}]
    <3>1. ASSUME NEW b \in BidIds PROVE SettledStatus(b) \in BidStatuses
      BY DEF SettledStatus, BidStatuses
    <3>2. ASSUME NEW b \in BidIds, ActiveBid(b) PROVE WithStatus(bids[b], SettledStatus(b)) \in Bid
      BY <3>1, <3>2, ActiveIsBid, BidFacts DEF WithStatus, Bid
    <3>3. QED
      BY <3>2 DEF SettledBids, TypeOK
  <2>3. Decision \in {"winner", "no_winner", "season_closed", "player_unavailable"}
    BY DEF Decision
  <2>4. Decision = "winner" => EligibleBids # {}
    BY DEF Decision
  <2>5. ASSUME Decision = "winner"
        PROVE  award' \in [team : Teams, offer : Offers, bid : BidIds]
    <3>1. /\ WinningBid \in BidIds /\ bids[WinningBid] # NoBid
          /\ bids[WinningBid].team \in Teams
      BY <2>4, <2>5, WinnerFacts, BidFacts
    <3>2. PricedOffer(EligibleEntries, OffersOf(WinningBid)) \in Offers
      BY <2>4, <2>5, <3>1, PriceFacts, OffersOfTyped DEF Price
    <3>3. QED
      BY <1>21, <2>5, <3>1, <3>2 DEF Settle
  <2>6. award' \in [team : Teams, offer : Offers, bid : BidIds] \cup {NoAward}
    BY <1>21, <2>5 DEF Settle, TypeOK
  <2>7. AuctionStatusAfter(Decision) \in {"none", "open", "resolved", "no_winner", "cancelled"}
    BY DEF AuctionStatusAfter
  <2>8. resolution' \in [outcome : Outcomes, due : Nat]
    BY <1>21, <2>1, <2>3 DEF Settle, Outcomes
  <2>9. available' \in BOOLEAN
    BY <1>21 DEF Settle
  <2>10. run' \in [Runners -> Run \cup {Idle}]
    BY <1>18, <1>21, <2>1 DEF Settle
  <2>11. QED
    BY <1>21, <2>2, <2>6, <2>7, <2>8, <2>9, <2>10 DEF Settle, TypeOK
<1>22. ASSUME NEW r \in Runners, SucceedRun(r) \/ FailRun(r) PROVE TypeOK'
  <2>1. run[r].due \in Times /\ run[r].runVersion \in Nat
    BY <1>22, RunFacts DEF SucceedRun, FailRun, Idle
  <2>2. \A s \in {"succeeded", "failed"} : [status |-> s, version |-> run[r].runVersion + 1] \in Job
    BY <2>1 DEF Job
  <2>3. QED
    BY <1>22, <2>1, <2>2 DEF SucceedRun, FailRun, TypeOK
<1>23. ASSUME NEW r \in Runners, CompletionErrs(r) PROVE TypeOK'
  BY <1>18, <1>23 DEF CompletionErrs, Fault, TypeOK
<1>24. ASSUME NEW r \in Runners, Crash(r) PROVE TypeOK'
  BY <1>24 DEF Crash, Fault, TypeOK
<1>25. QED
  BY <1>1, <1>2, <1>3, <1>4, <1>5, <1>6, <1>7, <1>8, <1>9, <1>10, <1>11, <1>12, <1>13, <1>14,
     <1>15, <1>16, <1>17, <1>19, <1>20, <1>21, <1>22, <1>23, <1>24 DEF Next, Manage, JobStep

LEMMA TypeInitial == Init => TypeOK
BY AuctionAssumption DEF Init, TypeOK, Times

\* The rows, the auction and the runners' locals are well formed.
THEOREM TypeCorrect == Spec => []TypeOK
<1>1. QED
  BY TypeInitial, TypeInductive, PTL DEF Spec

----------------------------------------------------------------------------
\* The record of offers, and what is open.

\* Every recorded offer was made by the team of its bid, not in the future,
\* and the offer a bid carries is on record.
OffersRecorded ==
    /\ \A h \in history : /\ bids[h.bid] # NoBid
                          /\ bids[h.bid].team = h.team
                          /\ h.at <= now
    /\ \A b \in BidIds : bids[b] # NoBid =>
          \E h \in history : h.bid = b /\ h.offer = bids[b].offer

\* Nothing is settled in an auction that is open or not started, and all
\* offers of an open one were made before its close.
OpenIsUnsettled ==
    /\ status = "none" => history = {}
    /\ status = "open" => \A h \in history : h.at < resolvesAt
    /\ status \in {"none", "open"} =>
          /\ award = NoAward /\ resolution = NoResolution
          /\ \A b \in BidIds : bids[b].status \notin {"won", "lost"}

BooksInv == TypeOK /\ OffersRecorded /\ OpenIsUnsettled

\* What the job does apart from settling, and what users do, leaves the
\* bids of a closed auction alone.
LEMMA ClosedStays ==
  ASSUME [Next]_vars, status \notin {"none", "open"}
  PROVE  UNCHANGED <<status, bids, history, award, resolution>>
<1> USE DEF world, auction, outcome, job, bounds
<1>1. CASE UNCHANGED vars
  BY <1>1 DEF vars
<1>2. CASE Tick
  BY <1>2 DEF Tick
<1>3. CASE Manage
  BY <1>3 DEF Manage, Start, SubmitBid, EditBid, CommissionerEdits, CommissionerRemoves,
     CommissionerCancels, Cancellable, ChangeTiming, RequestResolution, ReassignCommissioner,
     PauseLeague, ResumeLeague, PlayerLeavesPool, WindowOpen
<1>4. ASSUME NEW r \in Runners, ListDue(r) \/ JobStep(r) \/ CompletionErrs(r) \/ Crash(r)
      PROVE  UNCHANGED <<status, bids, history, award, resolution>>
  BY <1>4 DEF ListDue, JobStep, ClaimRun, SkipRun, CompletionConflicts, CompletionReplays,
     CompletionIncomplete, Settle, SettlesOccurrence, SucceedRun, FailRun, CompletionErrs, Crash
<1>5. QED
  BY <1>1, <1>2, <1>3, <1>4 DEF Next

\* A step that leaves the auction, its bids and their record alone.
LEMMA BooksUntouched ==
  ASSUME BooksInv, TypeOK', now' \in Nat, now <= now',
         UNCHANGED <<status, resolvesAt, bids, history, award, resolution>>
  PROVE  BooksInv'
<1>1. \A h \in history : h.at \in Nat
  BY DEF BooksInv, TypeOK, Event
<1>2. now \in Nat
  BY AuctionAssumption DEF BooksInv, TypeOK, Times
<1>3. OffersRecorded'
  BY <1>1, <1>2 DEF BooksInv, OffersRecorded
<1>4. OpenIsUnsettled'
  BY DEF BooksInv, OpenIsUnsettled
<1>5. QED
  BY <1>3, <1>4 DEF BooksInv

\* An accepted offer: one bid gets a new row that carries it.
LEMMA OfferIsRecorded ==
  ASSUME BooksInv, TypeOK', NEW b \in BidIds, NEW row, NEW kind,
         bids' = [bids EXCEPT ![b] = row], row # NoBid,
         bids[b] # NoBid => row.team = bids[b].team,
         row.status = "active",
         history' = history \cup {Accepted(b, row.team, row.offer, kind)},
         now' = now, status' = "open", status \in {"none", "open"}, now < resolvesAt',
         status = "open" => resolvesAt' = resolvesAt,
         award' = award, resolution' = resolution
  PROVE  BooksInv'
<1>1. bids'[b] = row /\ \A c \in BidIds \ {b} : bids'[c] = bids[c]
  BY DEF BooksInv, TypeOK
<1>2. /\ now \in Nat
      /\ \A h \in history : h.bid \in BidIds /\ h.at \in Nat
  BY AuctionAssumption DEF BooksInv, TypeOK, Times, Event
<1> DEFINE new == Accepted(b, row.team, row.offer, kind)
<1>3. new.bid = b /\ new.team = row.team /\ new.offer = row.offer /\ new.at = now
  BY DEF Accepted
<1>4. OffersRecorded'
  <2>1. ASSUME NEW h \in history'
        PROVE  bids'[h.bid] # NoBid /\ bids'[h.bid].team = h.team /\ h.at <= now'
    <3>1. CASE h \in history
      BY <1>1, <1>2, <3>1 DEF BooksInv, OffersRecorded
    <3>2. CASE h = new
      BY <1>1, <1>2, <1>3, <3>2
    <3>3. QED
      BY <3>1, <3>2
  <2>2. ASSUME NEW c \in BidIds, bids'[c] # NoBid
        PROVE  \E h \in history' : h.bid = c /\ h.offer = bids'[c].offer
    BY <1>1, <1>3, <2>2 DEF BooksInv, OffersRecorded
  <2>3. QED
    BY <2>1, <2>2 DEF OffersRecorded
<1>5. OpenIsUnsettled'
  <2>1. \A h \in history' : h.at < resolvesAt'
    BY <1>2, <1>3 DEF BooksInv, OpenIsUnsettled
  <2>2. \A c \in BidIds : bids'[c].status \notin {"won", "lost"}
    BY <1>1 DEF BooksInv, OpenIsUnsettled
  <2>3. QED
    BY <2>1, <2>2 DEF BooksInv, OpenIsUnsettled
<1>6. QED
  BY <1>4, <1>5 DEF BooksInv

\* Bids get new statuses and keep the rest.
LEMMA StatusesChange ==
  ASSUME BooksInv, TypeOK', now' = now, history' = history,
         \A b \in BidIds : /\ bids[b] = NoBid <=> bids'[b] = NoBid
                           /\ bids[b] # NoBid => /\ bids'[b].team = bids[b].team
                                                 /\ bids'[b].offer = bids[b].offer,
         OpenIsUnsettled'
  PROVE  BooksInv'
<1>1. \A h \in history : h.bid \in BidIds
  BY DEF BooksInv, TypeOK, Event
<1>2. OffersRecorded'
  BY <1>1 DEF BooksInv, OffersRecorded
<1>3. QED
  BY <1>2 DEF BooksInv

LEMMA BooksInductive == BooksInv /\ [Next]_vars => BooksInv'
<1> SUFFICES ASSUME BooksInv, [Next]_vars PROVE BooksInv'
  OBVIOUS
<1> USE DEF world, auction, outcome, job, bounds
<1>1. TypeOK /\ TypeOK' /\ now \in Nat /\ now' \in Nat
  BY TypeInductive, AuctionAssumption DEF BooksInv, TypeOK, Times
<1>2. CASE UNCHANGED vars
  BY <1>1, <1>2, BooksUntouched DEF vars
<1>3. CASE Tick
  BY <1>1, <1>3, BooksUntouched DEF Tick
<1>4. ASSUME NEW t \in Teams, NEW o \in Offers, NEW b \in BidIds, NEW a \in Authorities,
             Start(t, o, b, a)
      PROVE  BooksInv'
  <2> DEFINE row == NewBid(t, o, a, ActorOf(t, a), TRUE)
  <2>1. row.team = t /\ row.offer = o /\ row.status = "active" /\ row # NoBid
    BY DEF NewBid, NoBid
  <2>2. history = {} /\ bids[b] = NoBid
    BY <1>4 DEF Start, BooksInv, OpenIsUnsettled, OffersRecorded
  <2>3. history' = history \cup {Accepted(b, row.team, row.offer, "submitted")}
    BY <1>4, <2>1, <2>2 DEF Start
  <2>4. now < resolvesAt'
    BY <1>1, <1>4, AuctionAssumption DEF Start
  <2>5. bids' = [bids EXCEPT ![b] = row]
    BY <1>4 DEF Start
  <2> HIDE DEF row
  <2>6. QED
    BY <1>1, <1>4, <2>1, <2>2, <2>3, <2>4, <2>5, OfferIsRecorded DEF Start
<1>5. ASSUME NEW t \in Teams, NEW o \in Offers, NEW b \in BidIds, SubmitBid(t, o, b)
      PROVE  BooksInv'
  <2> DEFINE row == NewBid(t, o, "manager", t, FALSE)
  <2>1. row.team = t /\ row.offer = o /\ row.status = "active" /\ row # NoBid
    BY DEF NewBid, NoBid
  <2>2. /\ history' = history \cup {Accepted(b, row.team, row.offer, "submitted")}
        /\ bids' = [bids EXCEPT ![b] = row] /\ bids[b] = NoBid
    BY <1>5, <2>1 DEF SubmitBid
  <2> HIDE DEF row
  <2>3. QED
    BY <1>1, <1>5, <2>1, <2>2, OfferIsRecorded DEF SubmitBid, WindowOpen
<1>6. ASSUME NEW o \in Offers, NEW b \in BidIds, EditBid(b, o) PROVE BooksInv'
  <2> DEFINE row == Edited(b, o)
  <2>1. /\ bids[b] # NoBid /\ bids[b] \in Bid /\ bids[b].status = "active"
    BY <1>1, <1>6, ActiveIsBid, BidFacts DEF EditBid, ActiveBid
  <2>2. row.team = bids[b].team /\ row.offer = o /\ row.status = "active" /\ row # NoBid
    BY <2>1 DEF Edited, Bid, NoBid
  <2>3. /\ history' = history \cup {Accepted(b, row.team, row.offer, "edited")}
        /\ bids' = [bids EXCEPT ![b] = row]
    BY <1>6, <2>2 DEF EditBid
  <2> HIDE DEF row
  <2>4. QED
    BY <1>1, <1>6, <2>1, <2>2, <2>3, OfferIsRecorded DEF EditBid, WindowOpen
<1>7. ASSUME NEW o \in Offers, NEW b \in BidIds, CommissionerEdits(b, o) PROVE BooksInv'
  <2> DEFINE row == [bids[b] EXCEPT !.offer = o, !.lastEdit = now]
  <2>1. /\ bids[b] # NoBid /\ bids[b] \in Bid /\ bids[b].status = "active"
    BY <1>1, <1>7, ActiveIsBid, BidFacts DEF CommissionerEdits, ActiveBid
  <2>2. row.team = bids[b].team /\ row.offer = o /\ row.status = "active" /\ row # NoBid
    BY <2>1 DEF Bid, NoBid
  <2>3. /\ history' = history \cup {Accepted(b, row.team, row.offer, "administered")}
        /\ bids' = [bids EXCEPT ![b] = row]
    BY <1>1, <1>7, <2>2 DEF CommissionerEdits, TypeOK
  <2> HIDE DEF row
  <2>4. QED
    BY <1>1, <1>7, <2>1, <2>2, <2>3, OfferIsRecorded DEF CommissionerEdits, WindowOpen
<1>8. ASSUME NEW b \in BidIds, CommissionerRemoves(b) PROVE BooksInv'
  <2> DEFINE row == [bids[b] EXCEPT !.status = "withdrawn", !.lastEdit = now]
  <2>1. bids[b] # NoBid /\ bids[b] \in Bid
    BY <1>1, <1>8, ActiveIsBid, BidFacts DEF CommissionerRemoves
  <2>2. /\ row.team = bids[b].team /\ row.offer = bids[b].offer
        /\ row.status = "withdrawn" /\ row # NoBid
    BY <2>1 DEF Bid, NoBid
  <2>3. bids' = [bids EXCEPT ![b] = row]
    BY <1>1, <1>8 DEF CommissionerRemoves, TypeOK
  <2> HIDE DEF row
  <2>4. bids'[b] = row /\ \A c \in BidIds \ {b} : bids'[c] = bids[c]
    BY <1>1, <2>3 DEF TypeOK
  <2>5. OpenIsUnsettled'
    BY <1>8, <2>2, <2>4 DEF CommissionerRemoves, BooksInv, OpenIsUnsettled
  <2>6. QED
    BY <1>1, <1>8, <2>1, <2>2, <2>4, <2>5, StatusesChange DEF CommissionerRemoves
<1>9. CASE CommissionerCancels
  <2>1. \A b \in BidIds : /\ bids[b] = NoBid => bids'[b] = NoBid
                          /\ bids[b] # NoBid => /\ bids'[b] # NoBid
                                                /\ bids'[b].team = bids[b].team
                                                /\ bids'[b].offer = bids[b].offer
    <3> TAKE b \in BidIds
    <3>1. bids'[b] = IF ActiveBid(b) THEN WithStatus(bids[b], "cancelled") ELSE bids[b]
      BY <1>9 DEF CommissionerCancels, CancelledBids
    <3>2. bids[b] # NoBid => bids[b] \in Bid
      BY <1>1, BidFacts
    <3>3. QED
      BY <3>1, <3>2, ActiveIsBid DEF WithStatus, Bid, NoBid
  <2>2. OpenIsUnsettled'
    BY <1>9 DEF CommissionerCancels, OpenIsUnsettled
  <2>3. QED
    BY <1>1, <1>9, <2>1, <2>2, StatusesChange DEF CommissionerCancels
<1>10. ASSUME NEW c \in Times, ChangeTiming(c) PROVE BooksInv'
  <2>1. \A h \in history : h.at \in Nat /\ h.at <= now
    BY <1>1 DEF BooksInv, OffersRecorded, TypeOK, Event
  <2>2. OpenIsUnsettled'
    BY <1>1, <1>10, <2>1, AuctionAssumption
    DEF ChangeTiming, NewClose, BooksInv, OpenIsUnsettled, Times
  <2>3. QED
    BY <1>1, <1>10, <2>2, StatusesChange DEF ChangeTiming, Intervene
<1>11. ASSUME NEW u \in Teams \cup {NoTeam}, ReassignCommissioner(u) PROVE BooksInv'
  BY <1>1, <1>11, BooksUntouched DEF ReassignCommissioner
<1>12. CASE RequestResolution \/ PauseLeague \/ ResumeLeague \/ PlayerLeavesPool
  BY <1>1, <1>12, BooksUntouched DEF RequestResolution, PauseLeague, ResumeLeague, PlayerLeavesPool
<1>13. ASSUME NEW r \in Runners, Settle(r) PROVE BooksInv'
  <2>1. \A b \in BidIds : /\ bids[b] = NoBid => bids'[b] = NoBid
                          /\ bids[b] # NoBid => /\ bids'[b] # NoBid
                                                /\ bids'[b].team = bids[b].team
                                                /\ bids'[b].offer = bids[b].offer
    <3> TAKE b \in BidIds
    <3>1. bids'[b] = IF ActiveBid(b) THEN WithStatus(bids[b], SettledStatus(b)) ELSE bids[b]
      BY <1>13 DEF Settle, SettledBids
    <3>2. bids[b] # NoBid => bids[b] \in Bid
      BY <1>1, BidFacts
    <3>3. bids[b] \in Bid => /\ WithStatus(bids[b], SettledStatus(b)).team = bids[b].team
                             /\ WithStatus(bids[b], SettledStatus(b)).offer = bids[b].offer
                             /\ WithStatus(bids[b], SettledStatus(b)) # NoBid
      BY DEF WithStatus, Bid, NoBid
    <3>4. QED
      BY <3>1, <3>2, <3>3, ActiveIsBid
  <2>2. status' \notin {"none", "open"}
    BY <1>13 DEF Settle, AuctionStatusAfter, Decision
  <2>3. OpenIsUnsettled'
    BY <2>2 DEF OpenIsUnsettled
  <2>4. QED
    BY <1>1, <1>13, <2>1, <2>3, StatusesChange DEF Settle
<1>14. ASSUME NEW r \in Runners,
              \/ ListDue(r) \/ ClaimRun(r) \/ SkipRun(r)
              \/ CompletionConflicts(r) \/ CompletionReplays(r) \/ CompletionIncomplete(r)
              \/ SucceedRun(r) \/ FailRun(r) \/ CompletionErrs(r) \/ Crash(r)
       PROVE  BooksInv'
  BY <1>1, <1>14, BooksUntouched DEF ListDue, ClaimRun, SkipRun, CompletionConflicts,
     CompletionReplays, CompletionIncomplete, SucceedRun, FailRun, CompletionErrs, Crash
<1>15. QED
  BY <1>2, <1>3, <1>4, <1>5, <1>6, <1>7, <1>8, <1>9, <1>10, <1>11, <1>12, <1>13, <1>14
  DEF Next, Manage, JobStep

LEMMA BooksInitial == Init => BooksInv
<1> SUFFICES ASSUME Init PROVE BooksInv
  OBVIOUS
<1>1. OffersRecorded /\ OpenIsUnsettled
  BY DEF Init, OffersRecorded, OpenIsUnsettled, NoBid
<1>2. QED
  BY <1>1, TypeInitial DEF BooksInv

LEMMA BooksCorrect == Spec => []BooksInv
<1>1. QED
  BY BooksInitial, BooksInductive, PTL DEF Spec

----------------------------------------------------------------------------
\* The award.

\* In an open auction what counts for the price is what the record holds.
LEMMA OffersOfRecord ==
  ASSUME BooksInv, status = "open", NEW b \in BidIds, bids[b] # NoBid
  PROVE  OffersOf(b) = {h.offer : h \in {g \in history : g.bid = b}}
<1>1. \A h \in history : h.at \in Nat /\ h.at < resolvesAt /\ resolvesAt \in Nat
  BY DEF BooksInv, TypeOK, Event, OpenIsUnsettled
<1>2. \E h \in history : h.bid = b /\ h.offer = bids[b].offer
  BY DEF BooksInv, OffersRecorded
<1>3. QED
  BY <1>1, <1>2 DEF OffersOf

LEMMA SettleMakesAward ==
  ASSUME BooksInv, NEW r \in Runners, Settle(r), award' # NoAward
  PROVE  /\ EligibleBids # {}
         /\ award' = [team |-> bids[WinningBid].team, offer |-> Price, bid |-> WinningBid]
         /\ bids'[WinningBid].status = "won"
         /\ \A b \in BidIds : bids'[b].status = "lost" => b \in EligibleBids \ {WinningBid}
         /\ \A b \in BidIds : /\ EntryOf(b)' = EntryOf(b)
                              /\ bids[b] # NoBid => /\ bids'[b].team = bids[b].team
                                                    /\ bids'[b].offer = bids[b].offer
<1>1. status = "open" /\ award = NoAward /\ \A b \in BidIds : bids[b].status \notin {"won", "lost"}
  BY DEF Settle, SettlesOccurrence, BooksInv, OpenIsUnsettled
<1>2. Decision = "winner" /\ EligibleBids # {}
  BY <1>1 DEF Settle, Decision
<1>3. award' = [team |-> bids[WinningBid].team, offer |-> Price, bid |-> WinningBid]
  BY <1>2 DEF Settle, Price
<1>4. ASSUME NEW b \in BidIds
      PROVE  bids'[b] = IF ActiveBid(b) THEN WithStatus(bids[b], SettledStatus(b)) ELSE bids[b]
  BY DEF Settle, SettledBids
<1>5. WinningBid \in EligibleBids /\ WinningBid \in BidIds
  BY <1>2, WinnerFacts DEF BooksInv
<1>6. ASSUME NEW b \in BidIds, ActiveBid(b)
      PROVE  /\ bids'[b].status = SettledStatus(b)
             /\ bids'[b].team = bids[b].team /\ bids'[b].offer = bids[b].offer
             /\ bids'[b].firstAt = bids[b].firstAt
  <2>1. bids[b] \in Bid
    BY <1>6, ActiveIsBid, BidFacts DEF BooksInv
  <2>2. bids'[b] = [bids[b] EXCEPT !.status = SettledStatus(b)]
    BY <1>4, <1>6 DEF WithStatus
  <2>3. QED
    BY <2>1, <2>2 DEF Bid
<1>7. bids'[WinningBid].status = "won"
  <2>1. ActiveBid(WinningBid) /\ SettledStatus(WinningBid) = "won"
    BY <1>2, <1>5 DEF EligibleBids, SettledStatus
  <2>2. QED
    BY <1>5, <1>6, <2>1
<1>8. ASSUME NEW b \in BidIds, bids'[b].status = "lost" PROVE b \in EligibleBids \ {WinningBid}
  <2>1. ActiveBid(b)
    BY <1>1, <1>4, <1>8
  <2>2. SettledStatus(b) = "lost"
    BY <1>6, <1>8, <2>1
  <2>3. QED
    BY <1>2, <2>2 DEF SettledStatus
<1>9. ASSUME NEW b \in BidIds
      PROVE  /\ EntryOf(b)' = EntryOf(b)
             /\ bids[b] # NoBid => /\ bids'[b].team = bids[b].team
                                   /\ bids'[b].offer = bids[b].offer
  <2>1. CASE ActiveBid(b)
    BY <1>6, <2>1 DEF EntryOf
  <2>2. CASE ~ActiveBid(b)
    BY <1>4, <2>2 DEF EntryOf
  <2>3. QED
    BY <2>1, <2>2
<1>10. QED
  BY <1>2, <1>3, <1>7, <1>8, <1>9

\* The winner pays an offer it made, no more than it takes to win, and that
\* offer beats every losing bid: whatever was bid, edited and administered.
THEOREM PriceIsRight == Spec => []AwardIsLowestWinningOffer
<1>1. Init => AwardIsLowestWinningOffer
  BY DEF Init, AwardIsLowestWinningOffer
<1>2. BooksInv /\ BooksInv' /\ AwardIsLowestWinningOffer /\ [Next]_vars
         => AwardIsLowestWinningOffer'
  <2> SUFFICES ASSUME BooksInv, BooksInv', AwardIsLowestWinningOffer, [Next]_vars
               PROVE  AwardIsLowestWinningOffer'
    OBVIOUS
  <2>1. CASE status \notin {"none", "open"}
    <3>1. bids' = bids /\ history' = history /\ award' = award
      BY <2>1, ClosedStays
    <3>2. QED
      BY <3>1 DEF AwardIsLowestWinningOffer, EntryOf
  <2>2. CASE award' = NoAward
    BY <2>2 DEF AwardIsLowestWinningOffer
  <2>3. CASE status \in {"none", "open"} /\ award' # NoAward
    <3>1. award' # award
      BY <2>3 DEF BooksInv, OpenIsUnsettled
    <3>2. PICK r \in Runners : Settle(r)
      BY <3>1 DEF Next, Manage, JobStep, vars, outcome, Tick, Start, SubmitBid, EditBid,
         CommissionerEdits, CommissionerRemoves, CommissionerCancels, ChangeTiming,
         RequestResolution, ReassignCommissioner, PauseLeague, ResumeLeague, PlayerLeavesPool,
         ListDue, ClaimRun, SkipRun, CompletionConflicts, CompletionReplays,
         CompletionIncomplete, SucceedRun, FailRun, CompletionErrs, Crash
    <3>3. EligibleBids # {}
      BY <2>3, <3>2, SettleMakesAward
    <3>4. PICK w \in BidIds : w = WinningBid /\ w \in EligibleBids /\ bids[w] # NoBid
      BY <3>3, WinnerFacts DEF BooksInv
    <3>5. /\ award' = [team |-> bids[w].team, offer |-> Price, bid |-> w]
          /\ bids'[w].status = "won"
          /\ \A b \in BidIds : bids'[b].status = "lost" => b \in EligibleBids \ {w}
          /\ bids'[w].team = bids[w].team /\ bids'[w].offer = bids[w].offer
      BY <2>3, <3>2, <3>4, SettleMakesAward
    <3>6. \A b \in BidIds : EntryOf(b)' = EntryOf(b)
      BY <2>3, <3>2, SettleMakesAward
    <3>7. status = "open" /\ history' = history
      BY <3>2 DEF Settle, SettlesOccurrence
    <3> DEFINE made == {h.offer : h \in {g \in history : g.bid = w}}
               Beats(o) == \A c \in EligibleBids \ {w} :
                              RanksAhead(Reoffered(EntryOf(w), o), EntryOf(c))
    <3>8. OffersOf(w) = made
      BY <3>4, <3>7, OffersOfRecord
    <3>9. /\ Price \in made /\ Beats(Price)
          /\ \A o \in made : o.aav <= bids[w].offer.aav /\ Beats(o) => CheaperOrEqual(Price, o)
      <4>1. /\ Price \in OffersOf(w) /\ Beats(Price)
            /\ \A o \in OffersOf(w) : o.aav <= bids[w].offer.aav /\ Beats(o)
                                          => CheaperOrEqual(Price, o)
        BY <3>3, <3>4, PriceFacts DEF BooksInv
      <4>2. QED
        BY <3>8, <4>1
    <3> DEFINE losers == {EntryOf(b)' : b \in {c \in BidIds : bids'[c].status = "lost"}}
    <3>10. losers = {EntryOf(b) : b \in EligibleBids \ {w}}
      <4>1. ASSUME NEW c \in EligibleBids \ {w} PROVE c \in BidIds /\ bids'[c].status = "lost"
        <5>1. c \in BidIds /\ ActiveBid(c) /\ bids[c] \in Bid
          BY ActiveIsBid, BidFacts DEF EligibleBids, BooksInv
        <5>2. Decision = "winner"
          BY <2>3, <3>1, <3>2 DEF Settle
        <5>3. SettledStatus(c) = "lost"
          BY <3>4, <5>2 DEF SettledStatus
        <5>4. bids'[c] = [bids[c] EXCEPT !.status = "lost"]
          BY <3>2, <5>1, <5>3 DEF Settle, SettledBids, WithStatus
        <5>5. QED
          BY <5>1, <5>4 DEF Bid
      <4>2. {c \in BidIds : bids'[c].status = "lost"} = EligibleBids \ {w}
        BY <3>5, <4>1
      <4>3. \A c \in EligibleBids \ {w} : EntryOf(c)' = EntryOf(c)
        BY <3>6, <4>1
      <4>4. QED
        BY <4>2, <4>3
    <3> DEFINE Wins(o) == \A l \in losers : RanksAhead(Reoffered(EntryOf(w)', o), l)
    <3>11. ASSUME NEW o PROVE Wins(o) <=> Beats(o)
      <4>1. EntryOf(w)' = EntryOf(w)
        BY <3>6
      <4> HIDE DEF losers
      <4>2. QED
        BY <3>10, <4>1
    <3>12. Wins(Price) /\ \A o \in made : Wins(o) /\ o.aav <= bids[w].offer.aav
                                            => CheaperOrEqual(Price, o)
      <4> HIDE DEF Wins, Beats, made
      <4>1. QED
        BY <3>9, <3>11
    <3>13. award'.bid = w /\ award'.team = bids[w].team /\ award'.offer = Price
      BY <3>5
    <3>14. /\ bids'[award'.bid].status = "won" /\ bids'[award'.bid].team = award'.team
           /\ award'.offer \in {h.offer : h \in {g \in history' : g.bid = award'.bid}}
           /\ Wins(award'.offer)
           /\ \A o \in {h.offer : h \in {g \in history' : g.bid = award'.bid}} :
                 Wins(o) /\ o.aav <= bids'[award'.bid].offer.aav
                    => CheaperOrEqual(award'.offer, o)
      <4> HIDE DEF Wins
      <4>1. QED
        BY <3>5, <3>7, <3>9, <3>12, <3>13
    <3>15. EntryOf(award.bid)' = EntryOf(w)'
      BY <3>13 DEF EntryOf
    <3>16. QED
      BY <3>14, <3>15 DEF AwardIsLowestWinningOffer
  <2>4. QED
    BY <2>1, <2>2, <2>3
<1>3. QED
  BY <1>1, <1>2, BooksCorrect, PTL DEF Spec

----------------------------------------------------------------------------
\* The refinement.

\* Every step of the auction is a step of SealedAuction or changes nothing
\* of what it speaks about.
THEOREM AuctionIsSealed == Spec => ImplementsSealedAuction
<1> DEFINE Recorded == {[team |-> h.team, offer |-> h.offer] : h \in history}
           Awarded == IF award = NoAward THEN NoAward
                      ELSE [team |-> award.team, offer |-> award.offer]
           IsOpen == status \in {"none", "open"}
<1> USE DEF world, auction, outcome, job, bounds
<1>1. Init => Sealed!Init
  BY DEF Init, Sealed!Init
<1>2. BooksInv /\ [Next]_vars => [Sealed!Next]_(Sealed!vars)
  <2> SUFFICES ASSUME BooksInv, [Next]_vars
               PROVE  Sealed!Next \/ UNCHANGED Sealed!vars
    OBVIOUS
  <2>1. ASSUME UNCHANGED <<history, award>>, IsOpen' = IsOpen PROVE UNCHANGED Sealed!vars
    BY <2>1 DEF Sealed!vars
  <2>2. ASSUME NEW t \in Teams, NEW o \in Offers, NEW b, NEW kind,
               history' = history \cup {Accepted(b, t, o, kind)}, award' = award,
               status \in {"none", "open"}, status' = "open"
        PROVE  Sealed!Next
    <3> DEFINE new == Accepted(b, t, o, kind)
    <3>1. Recorded' = Recorded \cup {[team |-> t, offer |-> o]}
      <4>1. new.team = t /\ new.offer = o
        BY DEF Accepted
      <4>2. history' = history \cup {new}
        BY <2>2
      <4> HIDE DEF new
      <4>3. QED
        BY <4>1, <4>2
    <3>2. IsOpen = TRUE /\ IsOpen' = TRUE /\ Awarded' = Awarded
      BY <2>2
    <3>3. Sealed!Submit(t, o)
      BY <3>1, <3>2 DEF Sealed!Submit
    <3>4. QED
      BY <3>3 DEF Sealed!Next
  <2>3. ASSUME UNCHANGED <<history, award>>, status \in {"none", "open"},
               status' \notin {"none", "open"}
        PROVE  Sealed!Next
    <3>1. Sealed!Close
      BY <2>3 DEF Sealed!Close
    <3>2. QED
      BY <3>1 DEF Sealed!Next
  <2>4. CASE UNCHANGED vars \/ Tick
    BY <2>1, <2>4 DEF vars, Tick
  <2>5. ASSUME NEW t \in Teams, NEW o \in Offers, NEW b \in BidIds, NEW a \in Authorities,
               Start(t, o, b, a)
        PROVE  Sealed!Next
    <3>1. history = {}
      BY <2>5 DEF Start, BooksInv, OpenIsUnsettled
    <3>2. history' = history \cup {Accepted(b, t, o, "submitted")}
      BY <2>5, <3>1 DEF Start
    <3>3. QED
      BY <2>2, <2>5, <3>2 DEF Start
  <2>6. ASSUME NEW t \in Teams, NEW o \in Offers, NEW b \in BidIds, SubmitBid(t, o, b)
        PROVE  Sealed!Next
    BY <2>2, <2>6 DEF SubmitBid, WindowOpen
  <2>7. ASSUME NEW o \in Offers, NEW b \in BidIds, EditBid(b, o) \/ CommissionerEdits(b, o)
        PROVE  Sealed!Next
    <3>1. bids[b].team \in Teams
      BY <2>7, ActiveIsBid, BidFacts DEF EditBid, CommissionerEdits, BooksInv
    <3>2. QED
      BY <2>2, <2>7, <3>1 DEF EditBid, CommissionerEdits, WindowOpen
  <2>8. CASE CommissionerCancels
    BY <2>3, <2>8 DEF CommissionerCancels, Cancellable
  <2>9. CASE \/ \E b \in BidIds : CommissionerRemoves(b)
             \/ \E c \in Times : ChangeTiming(c)
             \/ \E u \in Teams \cup {NoTeam} : ReassignCommissioner(u)
             \/ RequestResolution \/ PauseLeague \/ ResumeLeague \/ PlayerLeavesPool
    BY <2>1, <2>9 DEF CommissionerRemoves, ChangeTiming, ReassignCommissioner,
       RequestResolution, PauseLeague, ResumeLeague, PlayerLeavesPool
  <2>10. ASSUME NEW r \in Runners, Settle(r) PROVE Sealed!Next
    <3>1. /\ status = "open" /\ award = NoAward /\ history' = history
          /\ status' \notin {"none", "open"}
      BY <2>10 DEF Settle, SettlesOccurrence, BooksInv, OpenIsUnsettled, AuctionStatusAfter,
         Decision
    <3>2. CASE award' = NoAward
      BY <2>3, <3>1, <3>2
    <3>3. CASE award' # NoAward
      <4> DEFINE w == WinningBid
      <4>1. EligibleBids # {} /\ award' = [team |-> bids[w].team, offer |-> Price, bid |-> w]
        BY <2>10, <3>3, SettleMakesAward
      <4>2. w \in BidIds /\ bids[w] # NoBid /\ bids[w].team \in Teams
        BY <4>1, WinnerFacts, BidFacts DEF BooksInv
      <4>3. Price \in {h.offer : h \in {g \in history : g.bid = w}} /\ Price \in Offers
        BY <3>1, <4>1, <4>2, PriceFacts, OffersOfRecord, OffersOfTyped DEF BooksInv
      <4>4. PICK h \in history : h.bid = w /\ h.offer = Price
        BY <4>3
      <4>5. h.team = bids[w].team
        BY <4>4 DEF BooksInv, OffersRecorded
      <4>6. [team |-> bids[w].team, offer |-> Price] \in Recorded
        BY <4>4, <4>5
      <4>7. Awarded' = [team |-> bids[w].team, offer |-> Price]
        BY <3>3, <4>1
      <4>8. IsOpen = TRUE /\ IsOpen' = FALSE /\ Recorded' = Recorded
        BY <3>1
      <4>9. Sealed!Award(bids[w].team, Price)
        BY <4>6, <4>7, <4>8 DEF Sealed!Award
      <4>10. QED
        BY <4>2, <4>3, <4>9 DEF Sealed!Next
    <3>4. QED
      BY <3>2, <3>3
  <2>11. ASSUME NEW r \in Runners,
                \/ ListDue(r) \/ ClaimRun(r) \/ SkipRun(r)
                \/ CompletionConflicts(r) \/ CompletionReplays(r) \/ CompletionIncomplete(r)
                \/ SucceedRun(r) \/ FailRun(r) \/ CompletionErrs(r) \/ Crash(r)
         PROVE  UNCHANGED Sealed!vars
    BY <2>1, <2>11 DEF ListDue, ClaimRun, SkipRun, CompletionConflicts,
       CompletionReplays, CompletionIncomplete, SucceedRun, FailRun, CompletionErrs, Crash
  <2>12. QED
    BY <2>4, <2>5, <2>6, <2>7, <2>8, <2>9, <2>10, <2>11 DEF Next, Manage, JobStep
<1>3. QED
  BY <1>1, <1>2, BooksCorrect, PTL DEF Spec, ImplementsSealedAuction, Sealed!Spec

----------------------------------------------------------------------------
\* Raising a winning bid.

\* Only an edit gives an active bid another row that is active.
LEMMA OnlyEditsKeepActive ==
  ASSUME BooksInv, [Next]_vars, NEW b \in BidIds, ActiveBid(b),
         bids'[b] # bids[b], bids'[b].status = "active"
  PROVE  \E o \in Offers : EditBid(b, o) \/ CommissionerEdits(b, o)
<1> USE DEF world, auction, outcome, job, bounds
<1>1. bids[b] # NoBid /\ bids \in [BidIds -> Bid \cup {NoBid}]
  BY ActiveIsBid DEF BooksInv, TypeOK
<1>2. ~(UNCHANGED vars \/ Tick)
  BY DEF vars, Tick
<1>3. ASSUME NEW t \in Teams, NEW o \in Offers, NEW c \in BidIds, NEW a \in Authorities,
             Start(t, o, c, a)
      PROVE  FALSE
  <2>1. bids[c] = NoBid
    BY <1>3 DEF Start, BooksInv, OpenIsUnsettled, OffersRecorded
  <2>2. QED
    BY <1>1, <1>3, <2>1 DEF Start
<1>4. ASSUME NEW t \in Teams, NEW o \in Offers, NEW c \in BidIds, SubmitBid(t, o, c)
      PROVE  FALSE
  BY <1>1, <1>4 DEF SubmitBid
<1>5. ASSUME NEW c \in BidIds, CommissionerRemoves(c) PROVE FALSE
  <2>1. bids' = [bids EXCEPT ![c] = [bids[c] EXCEPT !.status = "withdrawn", !.lastEdit = now]]
    BY <1>1, <1>5 DEF CommissionerRemoves
  <2>2. c = b
    BY <1>1, <2>1
  <2>3. bids'[b].status = "withdrawn"
    BY <1>1, <2>1, <2>2 DEF Bid
  <2>4. QED
    BY <2>3
<1>6. ASSUME CommissionerCancels PROVE FALSE
  <2>1. bids'[b] = [bids[b] EXCEPT !.status = "cancelled"]
    BY <1>6 DEF CommissionerCancels, CancelledBids, WithStatus
  <2>2. bids'[b].status = "cancelled"
    BY <1>1, <2>1 DEF Bid
  <2>3. QED
    BY <2>2
<1>7. ASSUME NEW r \in Runners, Settle(r) PROVE FALSE
  <2>1. bids'[b] = [bids[b] EXCEPT !.status = SettledStatus(b)]
    BY <1>7 DEF Settle, SettledBids, WithStatus
  <2>2. bids'[b].status = SettledStatus(b)
    BY <1>1, <2>1 DEF Bid
  <2>3. SettledStatus(b) # "active"
    BY DEF SettledStatus
  <2>4. QED
    BY <2>2, <2>3
<1>8. ASSUME NEW c \in BidIds, NEW o \in Offers, EditBid(c, o) PROVE c = b
  BY <1>1, <1>8 DEF EditBid
<1>9. ASSUME NEW c \in BidIds, NEW o \in Offers, CommissionerEdits(c, o) PROVE c = b
  <2>1. bids' = [bids EXCEPT ![c] = [bids[c] EXCEPT !.offer = o, !.lastEdit = now]]
    BY <1>1, <1>9 DEF CommissionerEdits
  <2>2. QED
    BY <1>1, <2>1
<1>10. ~(\/ \E c \in Times : ChangeTiming(c)
         \/ \E u \in Teams \cup {NoTeam} : ReassignCommissioner(u)
         \/ RequestResolution \/ PauseLeague \/ ResumeLeague \/ PlayerLeavesPool)
  BY DEF ChangeTiming, ReassignCommissioner, RequestResolution, PauseLeague, ResumeLeague,
     PlayerLeavesPool
<1>11. \A r \in Runners :
          ~(\/ ListDue(r) \/ ClaimRun(r) \/ SkipRun(r)
            \/ CompletionConflicts(r) \/ CompletionReplays(r) \/ CompletionIncomplete(r)
            \/ SucceedRun(r) \/ FailRun(r) \/ CompletionErrs(r) \/ Crash(r))
  BY DEF ListDue, ClaimRun, SkipRun, CompletionConflicts, CompletionReplays,
     CompletionIncomplete, SucceedRun, FailRun, CompletionErrs, Crash
<1>12. QED
  BY <1>2, <1>3, <1>4, <1>5, <1>6, <1>7, <1>8, <1>9, <1>10, <1>11 DEF Next, Manage, JobStep

\* What an edit changes, and what it leaves alone.
LEMMA EditFacts ==
  ASSUME BooksInv, NEW b \in BidIds, NEW o \in Offers, EditBid(b, o) \/ CommissionerEdits(b, o)
  PROVE  /\ ActiveBid(b) /\ ActiveBid(b)' /\ status = "open"
         /\ bids'[b].offer = o /\ bids'[b].team = bids[b].team
         /\ bids'[b].firstAt = bids[b].firstAt /\ bids'[b].starting = bids[b].starting
         /\ bids'[b].authority = bids[b].authority /\ bids'[b].actor = bids[b].actor
         /\ \A c \in BidIds \ {b} : bids'[c] = bids[c]
         /\ \E h : h.bid = b /\ h.offer = o /\ h.at = now /\ history' = history \cup {h}
         /\ now < resolvesAt /\ commissioner' = commissioner /\ resolvesAt' = resolvesAt
<1> USE DEF world, auction, outcome, job, bounds
<1>1. /\ ActiveBid(b) /\ status = "open" /\ now < resolvesAt
      /\ commissioner' = commissioner /\ resolvesAt' = resolvesAt
  BY DEF EditBid, CommissionerEdits, WindowOpen
<1>2. bids[b] \in Bid /\ bids \in [BidIds -> Bid \cup {NoBid}]
  BY <1>1, ActiveIsBid, BidFacts DEF BooksInv, TypeOK
<1>3. PICK row : /\ bids' = [bids EXCEPT ![b] = row]
                 /\ row = Edited(b, o) \/ row = [bids[b] EXCEPT !.offer = o, !.lastEdit = now]
  <2>1. CASE EditBid(b, o)
    BY <2>1 DEF EditBid
  <2>2. CASE CommissionerEdits(b, o)
    <3>1. bids' = [bids EXCEPT ![b] = [bids[b] EXCEPT !.offer = o, !.lastEdit = now]]
      BY <1>2, <2>2 DEF CommissionerEdits
    <3>2. QED
      BY <3>1
  <2>3. QED
    BY <2>1, <2>2
<1>4. /\ row.offer = o /\ row.team = bids[b].team /\ row.firstAt = bids[b].firstAt
      /\ row.starting = bids[b].starting /\ row.authority = bids[b].authority
      /\ row.actor = bids[b].actor /\ row.status = bids[b].status
  BY <1>2, <1>3 DEF Edited, Bid
<1>5. bids'[b] = row /\ \A c \in BidIds \ {b} : bids'[c] = bids[c]
  BY <1>2, <1>3
<1>6. ActiveBid(b)'
  BY <1>1, <1>4, <1>5 DEF ActiveBid
<1>7. \E h : h.bid = b /\ h.offer = o /\ h.at = now /\ history' = history \cup {h}
  <2>1. \A kind : /\ Accepted(b, bids[b].team, o, kind).bid = b
                  /\ Accepted(b, bids[b].team, o, kind).offer = o
                  /\ Accepted(b, bids[b].team, o, kind).at = now
    BY DEF Accepted
  <2>2. \E kind : history' = history \cup {Accepted(b, bids[b].team, o, kind)}
    BY DEF EditBid, CommissionerEdits
  <2>3. QED
    BY <2>1, <2>2
<1>8. QED
  BY <1>1, <1>4, <1>5, <1>6, <1>7

\* A manager, or the commissioner for it, who raises the winning bid to an
\* offer that meets its minimum does not change what the bid would pay.
THEOREM RaisingIsFree == Spec => RaiseKeepsPrice
<1>1. BooksInv /\ [Next]_vars =>
         [\A b \in BidIds :
            /\ EligibleBids # {} /\ b = WinningBid
            /\ bids' # bids /\ bids'[b].status = "active" /\ bids'[b].team = bids[b].team
            /\ bids'[b].offer.aav >= bids[b].offer.aav /\ bids'[b].offer.term >= bids[b].offer.term
            /\ UNCHANGED [c \in BidIds \ {b} |-> bids[c]]
            /\ MeetsMinimum(b)'
            => PresentPrice' = PresentPrice]_vars
  <2> SUFFICES ASSUME BooksInv, [Next]_vars, NEW b \in BidIds,
                      EligibleBids # {}, b = WinningBid, bids' # bids,
                      bids'[b].status = "active",
                      bids'[b].offer.aav >= bids[b].offer.aav,
                      bids'[b].offer.term >= bids[b].offer.term,
                      UNCHANGED [c \in BidIds \ {b} |-> bids[c]],
                      MeetsMinimum(b)'
               PROVE  PresentPrice' = PresentPrice
    OBVIOUS
  <2> DEFINE E == EligibleEntries
             F == {EntryOf(c)' : c \in EligibleBids'}
             made == OffersOf(b)
  <2>1. /\ b \in EligibleBids /\ bids[b] # NoBid /\ ActiveBid(b)
        /\ Leader(E) = EntryOf(b) /\ E # {} /\ Field(E)
    BY WinnerFacts, EligibleField DEF BooksInv, EligibleBids
  <2>2. bids'[b] # bids[b]
    <3>1. bids \in [BidIds -> Bid \cup {NoBid}] /\ bids' \in [BidIds -> Bid \cup {NoBid}]
      BY TypeInductive DEF BooksInv, TypeOK
    <3>2. \A c \in BidIds \ {b} : bids'[c] = bids[c]
      <4>1. [c \in BidIds \ {b} |-> bids'[c]] = [c \in BidIds \ {b} |-> bids[c]]
        OBVIOUS
      <4>2. QED
        BY <4>1
    <3>3. QED
      BY <3>1, <3>2
  <2>3. PICK o \in Offers : EditBid(b, o) \/ CommissionerEdits(b, o)
    BY <2>1, <2>2, OnlyEditsKeepActive
  <2>4. /\ ActiveBid(b)' /\ status = "open" /\ bids'[b].offer = o
        /\ bids'[b].firstAt = bids[b].firstAt /\ bids'[b].starting = bids[b].starting
        /\ bids'[b].authority = bids[b].authority /\ bids'[b].actor = bids[b].actor
        /\ \A c \in BidIds \ {b} : bids'[c] = bids[c]
        /\ commissioner' = commissioner /\ resolvesAt' = resolvesAt /\ now < resolvesAt
    BY <2>3, EditFacts
  <2>5. EligibleBids' = EligibleBids
    <3>1. ASSUME NEW c \in BidIds \ {b}
          PROVE  (c \in EligibleBids') <=> (c \in EligibleBids)
      BY <2>4 DEF EligibleBids, ActiveBid, AuthorityValid, PermissionOf, MeetsMinimum
    <3>2. b \in EligibleBids'
      <4>1. AuthorityValid(b)'
        BY <2>1, <2>4 DEF EligibleBids, AuthorityValid, PermissionOf
      <4>2. QED
        BY <2>4, <4>1 DEF EligibleBids
    <3>3. QED
      BY <2>1, <3>1, <3>2 DEF EligibleBids
  <2>6. /\ EntryOf(b)' = Reoffered(EntryOf(b), o)
        /\ \A c \in BidIds \ {b} : EntryOf(c)' = EntryOf(c)
    BY <2>4 DEF EntryOf, Reoffered
  <2>7. /\ EntryOf(b) \in E /\ EntryOf(b).offer = bids[b].offer /\ EntryOf(b).id = b
        /\ \A c \in EligibleBids \ {b} : EntryOf(c) # EntryOf(b)
    BY <2>1 DEF EligibleEntries, EntryOf
  <2>8. F = (E \ {Leader(E)}) \cup {Reoffered(Leader(E), o)}
    <3>1. E \ {EntryOf(b)} = {EntryOf(c) : c \in EligibleBids \ {b}}
      BY <2>7 DEF EligibleEntries
    <3>2. F = {EntryOf(c)' : c \in EligibleBids \ {b}} \cup {EntryOf(b)'}
      BY <2>1, <2>5
    <3>3. \A c \in EligibleBids \ {b} : EntryOf(c)' = EntryOf(c)
      BY <2>6 DEF EligibleBids
    <3>4. {EntryOf(c)' : c \in EligibleBids \ {b}} = {EntryOf(c) : c \in EligibleBids \ {b}}
      BY <3>3
    <3>5. QED
      BY <2>1, <2>6, <3>1, <3>2, <3>4
  <2>9. made \in SUBSET Offer /\ Leader(E).offer \in made /\ o \in Offer
    BY <2>1, <2>7, OffersOfTyped, OffersAreOffers DEF BooksInv
  <2>10. /\ Field(F) /\ Leader(F) = Reoffered(Leader(E), o)
         /\ PricedOffer(F, made \cup {o}) = PricedOffer(E, made)
    <3>1. o.aav >= Leader(E).offer.aav /\ o.term >= Leader(E).offer.term
      BY <2>1, <2>4, <2>7
    <3> HIDE DEF E, F, made
    <3>2. QED
      BY <2>1, <2>8, <2>9, <3>1, RaiseIsFree
  <2>11. WinningBid' = b
    <3>1. WinningBid' = Leader(F).id
      BY DEF WinningBid, EligibleEntries
    <3>2. Leader(F).id = EntryOf(b).id
      BY <2>1, <2>10 DEF Reoffered, EntryOf
    <3>3. QED
      BY <2>7, <3>1, <3>2
  <2>12. OffersOf(b)' = made \cup {o}
    <3>1. made = {h.offer : h \in {g \in history : g.bid = b}}
      BY <2>1, <2>4, OffersOfRecord
    <3>2. PICK new : new.bid = b /\ new.offer = o /\ new.at = now /\ history' = history \cup {new}
      BY <2>3, EditFacts
    <3>3. /\ \A h \in history : h.at \in Nat /\ h.at < resolvesAt
          /\ now \in Nat /\ resolvesAt \in Nat
      BY <2>4, AuctionAssumption DEF BooksInv, TypeOK, Event, OpenIsUnsettled, Times
    <3>4. OffersOf(b)' = {h.offer : h \in {g \in history' : g.bid = b /\ g.at <= resolvesAt}}
                            \cup {o}
      BY <2>4 DEF OffersOf
    <3>5. {g \in history' : g.bid = b /\ g.at <= resolvesAt}
             = {g \in history : g.bid = b} \cup {new}
      BY <2>4, <3>2, <3>3
    <3>6. QED
      BY <3>1, <3>2, <3>4, <3>5
  <2>13. PresentPrice' = PricedOffer(F, made \cup {o})
    <3>1. PresentPrice' = PricedOffer(F, OffersOf(WinningBid)')
      BY DEF PresentPrice, EligibleEntries
    <3>2. OffersOf(WinningBid)' = OffersOf(b)'
      BY <2>11 DEF OffersOf
    <3>3. QED
      BY <2>12, <3>1, <3>2
  <2>14. QED
    BY <2>10, <2>13 DEF PresentPrice
<1>2. QED
  BY <1>1, BooksCorrect, PTL DEF Spec, RaiseKeepsPrice

----------------------------------------------------------------------------
\* The resolution job.

InHand(r) == run[r].pc \in {"claimed", "completed", "failing"}

\* A runner's lease is on a row of the job table and not newer than it.
LeasesKnown ==
    \A r \in Runners : InHand(r) =>
        jobs[run[r].due] # NoJob /\ run[r].runVersion <= jobs[run[r].due].version

\* No two runners lease an occurrence under one version.
LeasesDiffer ==
    \A r, q \in Runners :
        InHand(r) /\ InHand(q) /\ r # q /\ run[q].due = run[r].due
            => run[q].runVersion # run[r].runVersion

\* A runner about to record a success has the settlement behind it.
CompletedSettled ==
    \A r \in Runners : run[r].pc = "completed" =>
        resolution # NoResolution /\ resolution.due = run[r].due

JobInv == BooksInv /\ LeasesKnown /\ LeasesDiffer /\ CompletedSettled /\ SucceededRunsSettled

LEMMA InHandFacts ==
  ASSUME TypeOK, NEW r \in Runners, InHand(r)
  PROVE  run[r].due \in Times /\ run[r].runVersion \in Nat
BY RunFacts DEF InHand, Idle

\* The resolution is written once.
LEMMA ResolutionStays ==
  ASSUME BooksInv, [Next]_vars, resolution # NoResolution
  PROVE  resolution' = resolution
BY ClosedStays DEF BooksInv, OpenIsUnsettled

\* Rows of the job table never go, and their versions never fall.
LEMMA JobsGrow ==
  ASSUME TypeOK, [Next]_vars, NEW d \in Times, jobs[d] # NoJob
  PROVE  jobs'[d] # NoJob /\ jobs'[d].version >= jobs[d].version
<1> USE DEF world, auction, outcome, job, bounds
<1>1. jobs[d].version \in Nat /\ jobs \in [Times -> Job \cup {NoJob}]
  BY JobFacts DEF TypeOK
<1>2. ASSUME jobs' = jobs PROVE jobs'[d] # NoJob /\ jobs'[d].version >= jobs[d].version
  BY <1>1, <1>2
<1>3. CASE UNCHANGED vars \/ Tick
  BY <1>2, <1>3 DEF vars, Tick
<1>4. CASE RequestResolution
  BY <1>1, <1>4 DEF RequestResolution, NoJob
<1>5. CASE Manage /\ ~RequestResolution
  BY <1>2, <1>5 DEF Manage, Start, SubmitBid, EditBid, CommissionerEdits, CommissionerRemoves,
     CommissionerCancels, ChangeTiming, ReassignCommissioner, PauseLeague, ResumeLeague,
     PlayerLeavesPool
<1>6. ASSUME NEW r \in Runners, ClaimRun(r)
      PROVE  jobs'[d] # NoJob /\ jobs'[d].version >= jobs[d].version
  BY <1>1, <1>6 DEF ClaimRun, NoJob
<1>7. ASSUME NEW r \in Runners, SucceedRun(r) \/ FailRun(r)
      PROVE  jobs'[d] # NoJob /\ jobs'[d].version >= jobs[d].version
  <2>1. run[r].runVersion \in Nat
    BY <1>7, InHandFacts DEF SucceedRun, FailRun, InHand
  <2>2. CASE HoldsLease(r)
    BY <1>1, <1>7, <2>1, <2>2 DEF SucceedRun, FailRun, HoldsLease, NoJob
  <2>3. CASE ~HoldsLease(r)
    BY <1>2, <1>7, <2>3 DEF SucceedRun, FailRun
  <2>4. QED
    BY <2>2, <2>3
<1>8. ASSUME NEW r \in Runners,
             \/ ListDue(r) \/ SkipRun(r)
             \/ CompletionConflicts(r) \/ CompletionReplays(r) \/ CompletionIncomplete(r)
             \/ Settle(r) \/ CompletionErrs(r) \/ Crash(r)
      PROVE  jobs'[d] # NoJob /\ jobs'[d].version >= jobs[d].version
  BY <1>2, <1>8 DEF ListDue, SkipRun, CompletionConflicts, CompletionReplays,
     CompletionIncomplete, Settle, CompletionErrs, Crash
<1>9. QED
  BY <1>3, <1>4, <1>5, <1>6, <1>7, <1>8 DEF Next, Manage, JobStep

\* How a runner's place may change in a step: it keeps its lease, lets go of
\* it, or takes a new one under a version nobody has seen.
Keeps(r) ==
    /\ InHand(r) /\ run'[r].due = run[r].due /\ run'[r].runVersion = run[r].runVersion
    /\ run'[r].pc = "completed" =>
          \/ run[r].pc = "completed"
          \/ resolution' # NoResolution /\ resolution'.due = run[r].due

Leases(r) ==
    /\ run'[r].pc = "claimed" /\ run'[r].due \in Times
    /\ jobs'[run'[r].due] # NoJob /\ run'[r].runVersion = jobs'[run'[r].due].version
    /\ jobs[run'[r].due] # NoJob => jobs[run'[r].due].version < run'[r].runVersion

LEMMA RunsChange ==
  ASSUME TypeOK, [Next]_vars
  PROVE  \/ \A q \in Runners : run'[q] = run[q]
         \/ \E r \in Runners : /\ \A q \in Runners \ {r} : run'[q] = run[q]
                               /\ ~InHand(r)' \/ Keeps(r) \/ Leases(r)
<1> USE DEF world, auction, outcome, job, bounds
<1>1. run \in [Runners -> Run \cup {Idle}]
  BY DEF TypeOK
<1>2. CASE UNCHANGED vars \/ Tick \/ Manage
  BY <1>2 DEF vars, Tick, Manage, Start, SubmitBid, EditBid, CommissionerEdits,
     CommissionerRemoves, CommissionerCancels, ChangeTiming, RequestResolution,
     ReassignCommissioner, PauseLeague, ResumeLeague, PlayerLeavesPool
<1>3. ASSUME NEW r \in Runners,
             \/ ListDue(r) \/ SkipRun(r) \/ CompletionConflicts(r) \/ SucceedRun(r)
             \/ FailRun(r) \/ Crash(r)
      PROVE  (\A q \in Runners \ {r} : run'[q] = run[q]) /\ ~InHand(r)'
  BY <1>1, <1>3 DEF ListDue, SkipRun, CompletionConflicts, SucceedRun, FailRun, Crash, InHand, Idle
<1>4. ASSUME NEW r \in Runners, ClaimRun(r)
      PROVE  (\A q \in Runners \ {r} : run'[q] = run[q]) /\ Leases(r)
  <2> DEFINE d == run[r].due
             v == IF jobs[d] = NoJob THEN 1 ELSE jobs[d].version + 1
  <2>1. d \in Times
    BY <1>4, RunFacts DEF ClaimRun, Idle
  <2>2. v \in Nat /\ (jobs[d] # NoJob => jobs[d].version < v)
    BY <2>1, JobFacts
  <2>3. /\ jobs'[d].version = v /\ jobs'[d].status = "leased"
        /\ run'[r].pc = "claimed" /\ run'[r].due = d /\ run'[r].runVersion = v
        /\ \A q \in Runners \ {r} : run'[q] = run[q]
    BY <1>1, <1>4, <2>1 DEF ClaimRun, TypeOK
  <2> HIDE DEF v
  <2>4. QED
    BY <2>1, <2>2, <2>3 DEF Leases, NoJob
<1>5. ASSUME NEW r \in Runners, NEW pc \in {"completed", "failing"},
             InHand(r), run' = Step(r, pc),
             pc = "completed" => resolution' # NoResolution /\ resolution'.due = run[r].due
      PROVE  (\A q \in Runners \ {r} : run'[q] = run[q]) /\ Keeps(r)
  <2>1. run[r] \in Run /\ run[r].pc # "listed"
    BY <1>5, RunFacts DEF InHand, Idle
  <2>2. run'[r] = [run[r] EXCEPT !.pc = pc] /\ \A q \in Runners \ {r} : run'[q] = run[q]
    BY <1>1, <1>5 DEF Step
  <2>3. run'[r].due = run[r].due /\ run'[r].runVersion = run[r].runVersion /\ run'[r].pc = pc
    BY <2>1, <2>2 DEF Run
  <2>4. QED
    BY <1>5, <2>2, <2>3 DEF Keeps
<1>6. ASSUME NEW r \in Runners, CompletionReplays(r)
      PROVE  (\A q \in Runners \ {r} : run'[q] = run[q]) /\ Keeps(r)
  BY <1>5, <1>6 DEF CompletionReplays, InHand
<1>7. ASSUME NEW r \in Runners, CompletionIncomplete(r) \/ CompletionErrs(r)
      PROVE  (\A q \in Runners \ {r} : run'[q] = run[q]) /\ Keeps(r)
  BY <1>5, <1>7 DEF CompletionIncomplete, ReadyToSettle, CompletionErrs, InHand
<1>8. ASSUME NEW r \in Runners, Settle(r)
      PROVE  (\A q \in Runners \ {r} : run'[q] = run[q]) /\ Keeps(r)
  <2>1. resolution' # NoResolution /\ resolution'.due = run[r].due
    BY <1>8 DEF Settle, NoResolution, Decision
  <2>2. QED
    BY <1>5, <1>8, <2>1 DEF Settle, ReadyToSettle, InHand
<1>9. QED
  BY <1>2, <1>3, <1>4, <1>6, <1>7, <1>8 DEF Next, JobStep

LEMMA JobInductive == JobInv /\ [Next]_vars => JobInv'
<1> SUFFICES ASSUME JobInv, [Next]_vars PROVE JobInv'
  OBVIOUS
<1>1. BooksInv /\ BooksInv' /\ TypeOK /\ TypeOK'
  BY BooksInductive DEF JobInv, BooksInv
<1>2. ASSUME NEW q \in Runners, InHand(q)
      PROVE  /\ run[q].due \in Times /\ jobs[run[q].due] # NoJob /\ jobs'[run[q].due] # NoJob
             /\ run[q].runVersion \in Nat /\ jobs[run[q].due].version \in Nat
             /\ jobs'[run[q].due].version \in Nat
             /\ run[q].runVersion <= jobs[run[q].due].version
             /\ jobs[run[q].due].version <= jobs'[run[q].due].version
  <2>1. run[q].due \in Times /\ run[q].runVersion \in Nat
    BY <1>1, <1>2, InHandFacts
  <2>2. jobs[run[q].due] # NoJob /\ run[q].runVersion <= jobs[run[q].due].version
    BY <1>2 DEF JobInv, LeasesKnown
  <2>3. jobs'[run[q].due] # NoJob /\ jobs'[run[q].due].version >= jobs[run[q].due].version
    BY <1>1, <2>1, <2>2, JobsGrow
  <2>4. jobs[run[q].due].version \in Nat /\ jobs'[run[q].due].version \in Nat
    BY <1>1, <2>1, <2>2, <2>3, JobFacts DEF TypeOK, Job
  <2>5. QED
    BY <2>1, <2>2, <2>3, <2>4
\* The runners that do not move, and the one that does.
<1>3. ASSUME NEW r \in Runners, run'[r] = run[r] \/ ~InHand(r)' \/ Keeps(r) \/ Leases(r), InHand(r)'
      PROVE  /\ jobs'[run'[r].due] # NoJob /\ run'[r].runVersion <= jobs'[run'[r].due].version
             /\ \/ /\ InHand(r) /\ run'[r].due = run[r].due
                   /\ run'[r].runVersion = run[r].runVersion
                \/ Leases(r)
  <2>1. CASE InHand(r) /\ run'[r].due = run[r].due /\ run'[r].runVersion = run[r].runVersion
    BY <1>2, <2>1
  <2>2. CASE Leases(r)
    <3>1. run'[r].runVersion \in Nat
      BY <1>1, <1>3, <2>2, RunFacts DEF Leases, TypeOK, Run, Idle
    <3>2. QED
      BY <2>2, <3>1 DEF Leases
  <2>3. QED
    BY <1>3, <2>1, <2>2 DEF Keeps, InHand
<1>4. \/ \A q \in Runners : run'[q] = run[q]
      \/ \E r \in Runners : /\ \A q \in Runners \ {r} : run'[q] = run[q]
                            /\ ~InHand(r)' \/ Keeps(r) \/ Leases(r)
  BY <1>1, RunsChange
<1>5. LeasesKnown'
  BY <1>3, <1>4 DEF LeasesKnown
<1>6. ASSUME NEW r \in Runners, NEW q \in Runners, r # q, InHand(r)', Leases(r),
             InHand(q), run'[q] = run[q], run'[q].due = run'[r].due
      PROVE  run'[q].runVersion # run'[r].runVersion
  <2>1. jobs[run'[r].due] # NoJob /\ jobs[run'[r].due].version < run'[r].runVersion
    BY <1>2, <1>6 DEF Leases
  <2>2. run[q].runVersion <= jobs[run'[r].due].version
    BY <1>2, <1>6
  <2>3. jobs[run'[r].due].version \in Nat /\ run[q].runVersion \in Nat
    BY <1>2, <1>6
  <2>4. run'[r].runVersion \in Nat
    BY <1>1, <1>6, RunFacts DEF Leases, TypeOK, Run, Idle
  <2>5. QED
    BY <1>6, <2>1, <2>2, <2>3, <2>4
<1>7. LeasesDiffer'
  <2> SUFFICES ASSUME NEW r \in Runners, NEW q \in Runners, InHand(r)', InHand(q)', r # q,
                      run'[q].due = run'[r].due
               PROVE  run'[q].runVersion # run'[r].runVersion
    BY DEF LeasesDiffer
  <2>1. CASE run'[r] = run[r] /\ run'[q] = run[q]
    BY <2>1 DEF JobInv, LeasesDiffer, InHand
  <2>2. CASE run'[q] = run[q] /\ (Keeps(r) \/ Leases(r))
    <3>1. InHand(q)
      BY <2>2 DEF InHand
    <3>2. CASE Keeps(r)
      BY <2>2, <3>1, <3>2 DEF JobInv, LeasesDiffer, Keeps
    <3>3. QED
      BY <1>6, <2>2, <3>1, <3>2
  <2>3. CASE run'[r] = run[r] /\ (Keeps(q) \/ Leases(q))
    <3>1. InHand(r)
      BY <2>3 DEF InHand
    <3>2. CASE Keeps(q)
      BY <2>3, <3>1, <3>2 DEF JobInv, LeasesDiffer, Keeps
    <3>3. QED
      BY <1>6, <2>3, <3>1, <3>2
  <2>4. QED
    BY <1>4, <2>1, <2>2, <2>3
<1>8. resolution # NoResolution => resolution' = resolution
  BY <1>1, ResolutionStays
<1>9. CompletedSettled'
  <2> SUFFICES ASSUME NEW r \in Runners, run'[r].pc = "completed"
               PROVE  resolution' # NoResolution /\ resolution'.due = run'[r].due
    BY DEF CompletedSettled
  <2>1. CASE run[r].pc = "completed" /\ run'[r].due = run[r].due
    BY <1>8, <2>1 DEF JobInv, CompletedSettled
  <2>2. CASE Keeps(r)
    BY <2>1, <2>2 DEF Keeps
  <2>3. QED
    BY <1>4, <2>1, <2>2 DEF InHand, Leases
<1>10. SucceededRunsSettled'
  <2> SUFFICES ASSUME NEW d \in Times, jobs'[d].status = "succeeded"
               PROVE  resolution' # NoResolution /\ resolution'.due = d
    BY DEF SucceededRunsSettled
  <2>1. CASE jobs[d].status = "succeeded"
    BY <1>8, <2>1 DEF JobInv, SucceededRunsSettled
  <2>2. CASE jobs[d].status # "succeeded"
    <3>1. PICK r \in Runners : SucceedRun(r) /\ run[r].due = d
      <4> USE DEF world, auction, outcome, job, bounds
      <4>1. jobs \in [Times -> Job \cup {NoJob}]
        BY <1>1 DEF TypeOK
      <4>2. jobs' # jobs
        BY <2>2
      <4>3. ~RequestResolution
        BY <2>2, <4>1 DEF RequestResolution
      <4>4. ASSUME NEW r \in Runners, ClaimRun(r) \/ FailRun(r) PROVE FALSE
        BY <2>2, <4>1, <4>4 DEF ClaimRun, FailRun
      <4>5. ASSUME NEW r \in Runners, SucceedRun(r) PROVE run[r].due = d
        BY <2>2, <4>1, <4>5 DEF SucceedRun
      <4>6. ~(UNCHANGED vars \/ Tick) /\ ~Manage
        BY <4>2, <4>3 DEF vars, Tick, Manage, Start, SubmitBid, EditBid, CommissionerEdits,
           CommissionerRemoves, CommissionerCancels, ChangeTiming, ReassignCommissioner,
           PauseLeague, ResumeLeague, PlayerLeavesPool
      <4>7. \A r \in Runners :
               ~(\/ ListDue(r) \/ SkipRun(r)
                 \/ CompletionConflicts(r) \/ CompletionReplays(r) \/ CompletionIncomplete(r)
                 \/ Settle(r) \/ CompletionErrs(r) \/ Crash(r))
        BY <4>2 DEF ListDue, SkipRun, CompletionConflicts, CompletionReplays,
           CompletionIncomplete, Settle, CompletionErrs, Crash
      <4>8. QED
        BY <4>4, <4>5, <4>6, <4>7 DEF Next, JobStep
    <3>2. run[r].pc = "completed"
      BY <3>1 DEF SucceedRun
    <3>3. QED
      BY <1>8, <3>1, <3>2 DEF JobInv, CompletedSettled
  <2>3. QED
    BY <2>1, <2>2
<1>11. QED
  BY <1>1, <1>5, <1>7, <1>9, <1>10 DEF JobInv

LEMMA JobInitial == Init => JobInv
<1> SUFFICES ASSUME Init PROVE JobInv
  OBVIOUS
<1>1. LeasesKnown /\ LeasesDiffer /\ CompletedSettled
  BY DEF Init, LeasesKnown, LeasesDiffer, CompletedSettled, InHand, Idle
<1>2. SucceededRunsSettled
  BY DEF Init, SucceededRunsSettled, NoJob
<1>3. QED
  BY <1>1, <1>2, BooksInitial DEF JobInv

LEMMA JobCorrect == Spec => []JobInv
<1>1. QED
  BY JobInitial, JobInductive, PTL DEF Spec

\* A job run recorded as succeeded has the settlement of its occurrence to
\* show for it, however often it was leased, lost and taken over.
THEOREM SuccessIsSettlement == Spec => []SucceededRunsSettled
<1>1. JobInv => SucceededRunsSettled
  BY DEF JobInv
<1>2. QED
  BY <1>1, JobCorrect, PTL

\* Only the job settles an auction otherwise than by cancellation.
LEMMA SettlersOnly ==
  ASSUME [Next]_vars, resolution' # resolution, resolution'.outcome # "cancelled"
  PROVE  \E r \in Runners : Settle(r)
<1> USE DEF world, auction, outcome, job, bounds
<1>1. ~(UNCHANGED vars \/ Tick) /\ ~Manage
  <2>1. ~CommissionerCancels
    BY DEF CommissionerCancels
  <2>2. ~(UNCHANGED vars \/ Tick)
    BY DEF vars, Tick
  <2>3. QED
    BY <2>1, <2>2 DEF Manage, Start, SubmitBid, EditBid, CommissionerEdits,
       CommissionerRemoves, ChangeTiming, RequestResolution, ReassignCommissioner, PauseLeague,
       ResumeLeague, PlayerLeavesPool
<1>2. \A r \in Runners :
         ~(\/ ListDue(r) \/ ClaimRun(r) \/ SkipRun(r)
           \/ CompletionConflicts(r) \/ CompletionReplays(r) \/ CompletionIncomplete(r)
           \/ SucceedRun(r) \/ FailRun(r) \/ CompletionErrs(r) \/ Crash(r))
  BY DEF ListDue, ClaimRun, SkipRun, CompletionConflicts, CompletionReplays,
     CompletionIncomplete, SucceedRun, FailRun, CompletionErrs, Crash
<1>3. QED
  BY <1>1, <1>2 DEF Next, JobStep

\* In a paused league the job settles nothing, although it may have listed
\* and leased the auction before the pause.
THEOREM PauseHoldsSettlement == Spec => PausedLeagueIsNotSettled
<1>1. [Next]_vars =>
         [league = "frozen" => resolution' = resolution \/ resolution'.outcome = "cancelled"]_vars
  <2> SUFFICES ASSUME [Next]_vars, league = "frozen", resolution' # resolution,
                      resolution'.outcome # "cancelled"
               PROVE  FALSE
    OBVIOUS
  <2>1. PICK r \in Runners : Settle(r)
    BY SettlersOnly
  <2>2. QED
    BY <2>1 DEF Settle, ReadyToSettle, Fenced
<1>2. QED
  BY <1>1, PTL DEF Spec, PausedLeagueIsNotSettled

\* The runner that settles has the most recent lease on the occurrence: all
\* the others were leased under an older version.
THEOREM LatestLeaseSettles == Spec => OnlyLatestLeaseSettles
<1>1. JobInv /\ [Next]_vars =>
         [\A r, q \in Runners :
             /\ resolution' # resolution /\ run'[r] # run[r]
             /\ q # r /\ run[q].pc \in {"claimed", "failing"}
             /\ run[q].due = run[r].due
             => run[q].runVersion < run[r].runVersion]_vars
  <2> SUFFICES ASSUME JobInv, [Next]_vars, NEW r \in Runners, NEW q \in Runners,
                      resolution' # resolution, run'[r] # run[r], q # r,
                      run[q].pc \in {"claimed", "failing"}, run[q].due = run[r].due
               PROVE  run[q].runVersion < run[r].runVersion
    OBVIOUS
  <2>1. Settle(r)
    <3> USE DEF world, auction, outcome, job, bounds
    <3>1. ~(UNCHANGED vars \/ Tick \/ Manage)
      BY DEF vars, Tick, Manage, Start, SubmitBid, EditBid, CommissionerEdits,
         CommissionerRemoves, CommissionerCancels, ChangeTiming, RequestResolution,
         ReassignCommissioner, PauseLeague, ResumeLeague, PlayerLeavesPool
    <3>2. \A s \in Runners :
             ~(\/ ListDue(s) \/ ClaimRun(s) \/ SkipRun(s)
               \/ CompletionConflicts(s) \/ CompletionReplays(s) \/ CompletionIncomplete(s)
               \/ SucceedRun(s) \/ FailRun(s) \/ CompletionErrs(s) \/ Crash(s))
      BY DEF ListDue, ClaimRun, SkipRun, CompletionConflicts, CompletionReplays,
         CompletionIncomplete, SucceedRun, FailRun, CompletionErrs, Crash
    <3>3. ASSUME NEW s \in Runners, Settle(s) PROVE s = r
      BY <3>3 DEF Settle, Step, JobInv, BooksInv, TypeOK
    <3>4. QED
      BY <3>1, <3>2, <3>3 DEF Next, JobStep
  <2>2. run[r].pc = "claimed" /\ jobs[run[r].due].version = run[r].runVersion
    BY <2>1 DEF Settle, ReadyToSettle, Fenced, HoldsLease
  <2>3. InHand(q) /\ InHand(r)
    BY <2>2 DEF InHand
  <2>4. /\ run[q].runVersion <= jobs[run[r].due].version
        /\ run[q].runVersion # run[r].runVersion
    BY <2>3 DEF JobInv, LeasesKnown, LeasesDiffer
  <2>5. run[q].runVersion \in Nat /\ run[r].runVersion \in Nat
    BY <2>3, InHandFacts DEF JobInv, BooksInv
  <2>6. QED
    BY <2>2, <2>4, <2>5
<1>2. QED
  BY <1>1, JobCorrect, PTL DEF Spec, OnlyLatestLeaseSettles
=============================================================================
